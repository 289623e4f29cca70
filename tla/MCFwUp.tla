------------------------------- MODULE MCFwUp -------------------------------
(* Small instances of FwUp for TLC.                                        *)
EXTENDS FwUp

CONSTANTS imgA, imgB, imgC

(* Images imgA and imgC end inside a sector, imgB on a sector boundary.    *)
MCPayloadLen == [i \in Image |-> IF i = imgB THEN 4 ELSE 3]

(* With two images, the host interface sends imgC and the others imgA.     *)
MCFiles ==
    [c \in Client |-> IF {imgA, imgC} \subseteq Image
                      THEN IF c \in Host THEN {imgC} ELSE {imgA}
                      ELSE Image]
=============================================================================
