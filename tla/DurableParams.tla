---------------------------- MODULE DurableParams ----------------------------
(***************************************************************************)
(* What the parameter manager promises to its callers and across power     *)
(* losses: one stored parameter set, replaced by one update at a time, all *)
(* of it or none of it.                                                    *)
(***************************************************************************)
CONSTANTS Params, Factory, NoUpdate

VARIABLES
    stored,    \* the parameters the next boot starts from
    pending    \* the update in progress, or NoUpdate

vars == <<stored, pending>>

Init == stored = Factory /\ pending = NoUpdate

Begin(v) == pending = NoUpdate /\ pending' = v /\ UNCHANGED stored

Apply == pending # NoUpdate /\ stored' = pending /\ UNCHANGED pending

(* The caller is told that the update is saved.                            *)
Finish == pending # NoUpdate /\ stored = pending /\ pending' = NoUpdate /\ UNCHANGED stored

(* Power loss: the update has happened or it has not.                      *)
Lose == pending # NoUpdate /\ pending' = NoUpdate /\ UNCHANGED stored

Next == (\E v \in Params : Begin(v)) \/ Apply \/ Finish \/ Lose

Spec == Init /\ [][Next]_vars
=============================================================================
