----------------------- MODULE ParamStoreRefinesProofs -----------------------
(* ParamStore implements DurableParams, and what the return of a call      *)
(* means, checked by TLAPS.  All of it holds until modify_count wraps: the *)
(* theorems are about the behaviours in which Straddle never holds.        *)
EXTENDS ParamStoreProofs, ParamStoreRefines

(* What the next boot loads, at every point of an update.                  *)
Stored == IF lock \in Task /\ pc[lock] = "verify" THEN Intended ELSE acked

LEMMA StoredIsLoaded ==
  ASSUME IInv, ~Straddle
  PROVE  BootParams = Stored
<1> USE DEF IInv, ControlInv, TypeInv
<1>1. CASE lock = NoProc
  <2>1. CurrentAt(fp.pnum) /\ fp.pnum \in Partition /\ lock \notin Task
    BY <1>1, ConstantsDistinct
    DEF DataInv, IdleInv, Current, TypeOK, FlashParam, Proc
  <2> QED BY <2>1, CurrentIsLoaded DEF Stored
<1>2. CASE lock \in Task
  <2>n. PICK n \in Partition : n = job[lock].addr
    BY <1>2 DEF TypeOK, Proc, Job
  <2>0. pc[lock] \in Writing /\ 1 - n \in Partition
    BY <1>2 DEF LockInv, Partition
  <2>1. CASE pc[lock] \in {"copy", "seal"}
    <3>1. CurrentAt(fp.pnum) /\ fp.pnum \in Partition
      BY <1>2, <2>1 DEF DataInv, UpdateInv, Current, TypeOK, FlashParam
    <3> QED BY <2>1, <3>1, CurrentIsLoaded DEF Stored
  <2>2. CASE pc[lock] = "erase"
    <3>1. CurrentAt(1 - n)
      BY <1>2, <2>n, <2>2 DEF DataInv, UpdateInv
    <3> QED BY <2>0, <2>2, <3>1, CurrentIsLoaded DEF Stored
  <2>3. CASE pc[lock] = "program"
    <3>1. flash[n] = Damaged /\ Valid(flash[1 - n]) /\ flash[1 - n].params = acked
      BY <1>2, <2>n, <2>3 DEF DataInv, UpdateInv, Replacing, Intact
    <3> QED BY <2>3, <3>1, OnlyCopyIsLoaded DEF Stored
  <2>4. CASE pc[lock] = "verify"
    <3>1. /\ flash[n] = fp /\ Valid(flash[1 - n])
          /\ Succ(flash[1 - n].count) = fp.count
          /\ fp = Sealed(fp.count, Intended, n)
      BY <1>2, <2>n, <2>4 DEF DataInv, UpdateInv, Replacing, Intact
    <3>2. fp.params = Intended
      BY <3>1 DEF Sealed
    <3>3. Valid(fp)
      BY <3>1, <3>2, SealedValid DEF TypeOK, FlashParam
    <3> QED BY <1>2, <2>4, <3>1, <3>2, <3>3, SuccessorIsLoaded DEF Stored
  <2> QED BY <2>0, <2>1, <2>2, <2>3, <2>4 DEF Writing
<1>3. CASE lock = Boot
  <2>0. pc[Boot] \in {"scan", "rescan"} \cup Writing /\ lock \notin Task
    BY <1>3, ConstantsDistinct DEF LockInv, BootInv
  <2>1. CASE pc[Boot] \in {"scan", "rescan"}
    BY <2>0, <2>1 DEF DataInv, ScanInv, Stored
  <2>2. CASE pc[Boot] \in Writing
    BY <2>0, <2>2, BootLoads DEF Stored
  <2> QED BY <2>0, <2>1, <2>2
<1> QED BY <1>1, <1>2, <1>3 DEF TypeOK, Proc

LEMMA IntendedType ==
  ASSUME IInv
  PROVE  Intended \in Params /\ Intended # NoUpdate
<1> USE DEF IInv, ControlInv, TypeInv
<1>1. ASSUME lock \in Task, job[lock].op = "set"
      PROVE  Intended \in Params
  <2>1. job[lock].id \in Field /\ job[lock].val \in Value
    BY <1>1 DEF JobInv, TypeOK, Job, Proc
  <2> QED BY <1>1, <2>1 DEF Intended, SetValue, TypeOK, Params
<1>2. ASSUME lock \in Task, job[lock].op # "set"
      PROVE  Intended \in Params
  BY <1>2 DEF Intended, SetValue, TypeOK, Params
<1>3. Intended \in Params
  BY <1>1, <1>2 DEF Intended, SetValue, TypeOK
<1> QED BY <1>3, NoUpdateDistinct

(* Both hold after a step as well as before it.                            *)
LEMMA Afterwards ==
  /\ (IInv /\ ~Straddle => BootParams = Stored)'
  /\ (IInv => Intended \in Params)'
<1>1. IInv /\ ~Straddle => BootParams = Stored
  BY StoredIsLoaded
<1>2. IInv => Intended \in Params
  BY IntendedType
<1> QED BY <1>1, <1>2, PTL

-----------------------------------------------------------------------------
(* The steps                                                               *)

Abstract == D!Next \/ UNCHANGED D!vars

(* A step of param_to_flash that a task takes: programming the partition   *)
(* applies the update, the verification ends it, the others show nothing.  *)
LEMMA TaskRefines ==
  ASSUME Undisturbed, IInv, IInv', ~Straddle, ~Straddle',
         NEW t \in Task, ParamToFlash(t)
  PROVE  Abstract
<1>0. pc[t] \in Writing
  BY DEF ParamToFlash, CopyFields, SealHeader, ErasePartition, ProgramPartition,
         VerifyPartition, Writing
<1>1. lock = t /\ t \in Proc /\ t # NoProc /\ job[t].op \in {"set", "sync"}
  BY <1>0, WritingTask
<1>2. BootParams = Stored /\ BootParams' = Stored'
  BY StoredIsLoaded, Afterwards
<1>3. pendingBar = Intended /\ Intended # NoUpdate
  BY <1>1, IntendedType DEF pendingBar
<1>4. CASE ~VerifyPartition(t)
  <2>1. /\ UNCHANGED <<sram, lock, acked>>
        /\ job'[t].op = job[t].op /\ job'[t].id = job[t].id /\ job'[t].val = job[t].val
        /\ job'[t].touser = job[t].touser
    BY <1>1, <1>4
    DEF ParamToFlash, CopyFields, SealHeader, ErasePartition, ProgramPartition,
        IInv, ControlInv, TypeInv, TypeOK, Job
  <2>2. Intended' = Intended
    BY <1>1, <2>1 DEF Intended, SetValue
  <2>3. pendingBar' = pendingBar
    BY <2>1, <2>2 DEF pendingBar
  <2>4. CASE ProgramPartition(t)
    <3>1. pc[t] = "program" /\ pc'[t] = "verify"
      BY <1>1, <2>4 DEF ProgramPartition, Goto, IInv, ControlInv, TypeInv, TypeOK
    <3>2. BootParams' = Intended
      BY <1>1, <1>2, <2>1, <2>2, <3>1 DEF Stored
    <3> QED BY <1>3, <2>3, <3>2 DEF Abstract, D!Next, D!Apply, storedBar
  <2>5. CASE ~ProgramPartition(t)
    <3>1. pc[t] # "verify" /\ pc'[t] # "verify"
      BY <1>1, <1>4, <2>5
      DEF ParamToFlash, CopyFields, SealHeader, ErasePartition, Goto,
          IInv, ControlInv, TypeInv, TypeOK
    <3>2. BootParams' = BootParams
      BY <1>1, <1>2, <2>1, <3>1 DEF Stored
    <3> QED BY <2>3, <3>2 DEF Abstract, D!vars, storedBar
  <2> QED BY <2>4, <2>5
<1>5. CASE VerifyPartition(t)
  <2>1. pc[t] = "verify" /\ flash[fp.pnum] = fp
    <3>1. pc[t] = "verify"
      BY <1>5 DEF VerifyPartition
    <3>2. flash[job[t].addr] = fp /\ fp = Sealed(fp.count, Intended, job[t].addr)
      BY <3>1 DEF IInv, DataInv, UpdateInv, Replacing
    <3>3. fp.pnum = job[t].addr
      BY <3>2 DEF Sealed
    <3> QED BY <3>1, <3>2, <3>3
  <2>2. Return(t, "OK") /\ acked' = Intended
    BY <1>1, <1>5, <2>1 DEF VerifyPartition, Continue, Report, Intended, SetValue
  <2>3. lock' = NoProc /\ NoProc \notin Task
    BY <1>1, <2>2, ConstantsDistinct DEF Return, Proc
  <2>4. BootParams = Intended /\ BootParams' = Intended
    BY <1>1, <1>2, <2>1, <2>2, <2>3 DEF Stored
  <2>5. pendingBar' = NoUpdate
    BY <2>3 DEF pendingBar
  <2> QED BY <1>3, <2>4, <2>5 DEF Abstract, D!Next, D!Finish, storedBar
<1> QED BY <1>4, <1>5

(* tls_param_init repairs the partitions without a visible step.           *)
LEMMA BootRefines ==
  ASSUME Undisturbed, IInv, IInv', ~Straddle, ~Straddle',
         BootScan \/ ParamToFlash(Boot)
  PROVE  Abstract
<1>0. Boot \in Proc /\ Boot \notin Task /\ NoProc \notin Task
  BY ConstantsDistinct DEF Proc
<1>1. lock = Boot
  BY DEF BootScan, Scan, ParamToFlash, CopyFields, SealHeader, ErasePartition,
         ProgramPartition, VerifyPartition, IInv, ControlInv, LockInv
<1>2. lock' \in {Boot, NoProc} /\ acked' = acked
  <2>1. CASE BootScan
    BY <1>1, <2>1 DEF BootScan, Scan, Return
  <2>2. CASE ParamToFlash(Boot) /\ ~VerifyPartition(Boot)
    BY <1>1, <2>2
    DEF ParamToFlash, CopyFields, SealHeader, ErasePartition, ProgramPartition
  <2>3. CASE VerifyPartition(Boot)
    <3>1. job[Boot].op \in BootOp
      BY <2>3 DEF VerifyPartition, IInv, ControlInv, BootInv, Writing
    <3> QED BY <1>1, <2>3, <3>1 DEF VerifyPartition, Continue, Return, BootOp
  <2> QED BY <2>1, <2>2, <2>3
<1>3. BootParams' = BootParams
  BY <1>0, <1>1, <1>2, StoredIsLoaded, Afterwards DEF Stored
<1>4. UNCHANGED pendingBar
  BY <1>0, <1>1, <1>2 DEF pendingBar
<1> QED BY <1>3, <1>4 DEF Abstract, D!vars, storedBar

(* Taking sys_param_lock to write begins an update.                        *)
LEMMA EnterRefines ==
  ASSUME Undisturbed, IInv, IInv', NEW t \in Task, SetEnter(t) \/ SyncEnter(t)
  PROVE  Abstract
<1>0. NoProc \notin Task /\ t # NoProc
  BY ConstantsDistinct DEF Proc
<1>1. lock = NoProc /\ lock' \in {NoProc, t} /\ UNCHANGED flash
  BY DEF SetEnter, SyncEnter, Return
<1>2. storedBar' = storedBar
  BY <1>1 DEF storedBar, BootParams
<1>3. pendingBar = NoUpdate
  BY <1>0, <1>1 DEF pendingBar
<1>4. CASE lock' = NoProc
  <2>1. pendingBar' = NoUpdate
    BY <1>0, <1>4 DEF pendingBar
  <2> QED BY <1>2, <1>3, <2>1 DEF Abstract, D!vars
<1>5. CASE lock' = t
  <2>1. pendingBar' = Intended' /\ Intended' \in Params
    BY <1>5, Afterwards DEF pendingBar
  <2> QED BY <1>2, <1>3, <2>1 DEF Abstract, D!Next, D!Begin
<1> QED BY <1>1, <1>4, <1>5

LEMMA CallRefines ==
  ASSUME Undisturbed, IInv, Call
  PROVE  Abstract
<1>1. PICK t \in SetTask : /\ pc[t] = "idle"
                           /\ \E j : job' = [job EXCEPT ![t] = j]
                           /\ UNCHANGED <<flash, sram, lock, acked>>
  BY DEF Call, SetCall, SyncCall, Start, Undisturbed
<1>2. t \in Task /\ lock # t
  BY <1>1 DEF Task, IInv, ControlInv, LockInv, Writing
<1>3. lock \in Task => job'[lock] = job[lock]
  BY <1>1, <1>2 DEF IInv, ControlInv, TypeInv, TypeOK, Proc
<1>4. UNCHANGED <<storedBar, pendingBar>>
  BY <1>1, <1>3 DEF storedBar, BootParams, pendingBar, Intended, SetValue
<1> QED BY <1>4 DEF Abstract, D!vars

(* A power loss ends the update, applied or not.                           *)
LEMMA PowerLossRefines ==
  ASSUME IInv, PowerLoss
  PROVE  Abstract
<1>1. storedBar' = storedBar /\ pendingBar' = NoUpdate
  BY ConstantsDistinct DEF PowerLoss, storedBar, BootParams, pendingBar
<1>2. CASE lock \in Task
  <2>1. pendingBar # NoUpdate
    BY <1>2, IntendedType DEF pendingBar
  <2> QED BY <1>1, <2>1 DEF Abstract, D!Next, D!Lose
<1>3. CASE lock \notin Task
  BY <1>1, <1>3 DEF Abstract, D!vars, pendingBar
<1> QED BY <1>2, <1>3

LEMMA StepRefines ==
  ASSUME Undisturbed, IInv, IInv', ~Straddle, ~Straddle', [Next]_vars
  PROVE  [D!Next]_(D!vars)
<1>1. CASE UNCHANGED vars
  <2>1. UNCHANGED <<storedBar, pendingBar>>
    BY <1>1 DEF vars, storedBar, pendingBar, BootParams, Intended, SetValue
  <2> QED BY <2>1 DEF D!vars
<1>2. CASE Next
  <2>1. ASSUME NEW p \in Proc, ParamToFlash(p)
        PROVE  Abstract
    BY <2>1, TaskRefines, BootRefines DEF Proc
  <2>2. Abstract
    BY <1>2, <2>1, UndisturbedSteps, BootRefines, EnterRefines, CallRefines,
       PowerLossRefines DEF IInv
  <2> QED BY <2>2 DEF Abstract
<1> QED BY <1>1, <1>2

LEMMA InitRefines == Init => D!Init
<1> SUFFICES ASSUME Init PROVE D!Init
  OBVIOUS
<1>1. flash[0] = Damaged /\ flash[1] = Damaged /\ lock = Boot /\ Boot \notin Task
  BY ConstantsDistinct DEF Init, Partition
<1>2. storedBar = Factory /\ pendingBar = NoUpdate
  BY <1>1 DEF storedBar, BootParams, Valid, pendingBar
<1> QED BY <1>2 DEF D!Init

(* The two partitions, their counters, the lock and tls_param_init         *)
(* implement one stored parameter set that is replaced as a whole: for any *)
(* number of tasks, parameters and power losses, until the counter wraps.  *)
THEOREM Refinement ==
  ASSUME Undisturbed
  PROVE  Spec /\ []~Straddle => ImplementsDurableParams
<1>1. Init => IInv
  BY ControlInitially, DataInitially DEF IInv
<1>2. IInv /\ [Next]_vars => IInv'
  BY IInvStep
<1>3. IInv /\ IInv' /\ ~Straddle /\ ~Straddle' /\ [Next]_vars => [D!Next]_(D!vars)
  BY StepRefines
<1> QED BY <1>1, <1>2, <1>3, InitRefines, PTL
        DEF Spec, ImplementsDurableParams, D!Spec

-----------------------------------------------------------------------------
(* What OK means.  A call in progress has not returned yet.                *)

ReturnInv ==
    \A t \in Task : /\ pc[t] = "idle" => job[t] = NoJob
                    /\ pc[t] # "idle" => ret[t] = "none"

(* A step of one process leaves the calls of the others alone.             *)
OnlyOf(p) ==
    \A t \in Task : t # p => pc'[t] = pc[t] /\ job'[t] = job[t] /\ ret'[t] = ret[t]

LEMMA ReturnOnlyOf ==
  ASSUME IInv, NEW p \in Proc
  PROVE  /\ \A s : Return(p, s) => /\ OnlyOf(p) /\ pc'[p] = "idle"
                                   /\ job'[p] = NoJob /\ ret'[p] = s
         /\ \A o, l : Start(p, o, l) => OnlyOf(p) /\ pc'[p] = l /\ ret'[p] = "none"
         /\ \A l : Goto(p, l) => \A t \in Task \cup {p} :
                                    pc'[t] = IF t = p THEN l ELSE pc[t]
BY DEF IInv, ControlInv, TypeInv, TypeOK, OnlyOf, Return, Start, Goto, Proc

LEMMA ParamToFlashReturns ==
  ASSUME Undisturbed, IInv, NEW p \in Proc, ParamToFlash(p)
  PROVE  /\ OnlyOf(p)
         /\ p \in Task =>
               \/ ~VerifyPartition(p) /\ pc'[p] \in Writing /\ ret'[p] = ret[p]
               \/ VerifyPartition(p) /\ pc'[p] = "idle" /\ job'[p] = NoJob
<1> USE DEF IInv, ControlInv, TypeInv, TypeOK
<1>0. pc[p] \in Writing
  BY DEF ParamToFlash, CopyFields, SealHeader, ErasePartition, ProgramPartition,
         VerifyPartition, Writing
<1>1. CASE CopyFields(p) \/ ErasePartition(p) \/ ProgramPartition(p)
  BY <1>1, ReturnOnlyOf
  DEF CopyFields, ErasePartition, ProgramPartition, VerifyPartition, OnlyOf, Writing
<1>2. CASE SealHeader(p)
  <2>1. \A t \in Task : t # p => job'[t] = job[t]
    BY <1>2 DEF SealHeader, Proc
  <2> QED BY <1>2, <2>1, ReturnOnlyOf DEF SealHeader, VerifyPartition, OnlyOf, Writing
<1>3. CASE VerifyPartition(p)
  <2>1. PICK s : Continue(p, s)
    BY <1>3 DEF VerifyPartition
  <2>2. CASE Return(p, s)
    BY <1>3, <2>2, ReturnOnlyOf
  <2>3. CASE /\ job[p].op \in {"reset0", "init0"} /\ Goto(p, "copy") /\ UNCHANGED ret
             /\ job' = [job EXCEPT ![p].op = IF job[p].op = "reset0" THEN "reset1" ELSE "init1"]
    <3>1. p \notin Task
      BY <1>0, <2>3, WritingTask
    <3>2. \A t \in Task : t # p => job'[t] = job[t]
      BY <2>3 DEF Proc
    <3> QED BY <2>3, <3>1, <3>2, ReturnOnlyOf DEF OnlyOf
  <2> QED BY <2>1, <2>2, <2>3 DEF Continue
<1> QED BY <1>1, <1>2, <1>3 DEF ParamToFlash

(* The steps in which a call of a task may return, and those it begins in. *)
LEMMA CallsReturn ==
  ASSUME Undisturbed, IInv, ReturnInv, Next
  PROVE  /\ ReturnInv'
         /\ \A t \in Task : pc[t] # "idle" /\ ret'[t] = "OK" =>
               \/ VerifyPartition(t)
               \/ (SetEnter(t) \/ SyncEnter(t)) /\ Return(t, "OK")
<1> DEFINE Good == /\ ReturnInv'
                   /\ \A t \in Task : pc[t] # "idle" /\ ret'[t] = "OK" =>
                        \/ VerifyPartition(t)
                        \/ (SetEnter(t) \/ SyncEnter(t)) /\ Return(t, "OK")
<1>0. Boot \in Proc /\ Boot \notin Task /\ Task \subseteq Proc
  BY ConstantsDistinct DEF Proc
<1>1. ASSUME NEW p \in Proc, OnlyOf(p), p \notin Task
      PROVE  Good
  BY <1>1 DEF OnlyOf, ReturnInv
<1>2. CASE BootScan
  <2>1. \/ Goto(Boot, "rescan") /\ UNCHANGED <<job, ret>>
        \/ \E o : Start(Boot, o, "copy")
        \/ Return(Boot, "OK")
    BY <1>2 DEF BootScan, Scan, AfterDamaged
  <2>2. OnlyOf(Boot)
    BY <1>0, <2>1, ReturnOnlyOf DEF OnlyOf
  <2> QED BY <1>0, <1>1, <2>2
<1>3. ASSUME NEW p \in Proc, ParamToFlash(p)
      PROVE  Good
  <2>1. CASE p \notin Task
    BY <1>1, <1>3, <2>1, ParamToFlashReturns
  <2>2. CASE p \in Task
    <3>1. pc[p] # "idle"
      BY <1>3 DEF ParamToFlash, CopyFields, SealHeader, ErasePartition,
                  ProgramPartition, VerifyPartition
    <3> QED BY <1>3, <2>2, <3>1, ParamToFlashReturns DEF OnlyOf, ReturnInv, Writing
  <2> QED BY <2>1, <2>2
<1>4. ASSUME NEW t \in Task, SetEnter(t) \/ SyncEnter(t)
      PROVE  Good
  <2>1. CASE Return(t, "OK")
    BY <1>0, <1>4, <2>1, ReturnOnlyOf DEF OnlyOf, ReturnInv
  <2>2. CASE Goto(t, "copy") /\ UNCHANGED <<job, ret>>
    BY <1>0, <1>4, <2>2, ReturnOnlyOf DEF ReturnInv, SetEnter, SyncEnter
  <2> QED BY <1>4, <2>1, <2>2 DEF SetEnter, SyncEnter
<1>5. CASE Call
  <2>1. PICK t \in Task : /\ pc[t] = "idle" /\ Goto(t, "enter")
                          /\ ret' = [ret EXCEPT ![t] = "none"]
                          /\ \E j : job' = [job EXCEPT ![t] = j]
    BY <1>5 DEF Call, SetCall, SyncCall, Start, Undisturbed, Task
  <2>2. pc'[t] = "enter" /\ ret'[t] = "none" /\ OnlyOf(t)
    BY <1>0, <2>1 DEF OnlyOf, Goto, IInv, ControlInv, TypeInv, TypeOK
  <2> QED BY <2>1, <2>2 DEF OnlyOf, ReturnInv
<1>6. CASE PowerLoss
  BY <1>0, <1>6 DEF PowerLoss, ReturnInv
<1> QED BY <1>2, <1>3, <1>4, <1>5, <1>6, UndisturbedSteps DEF IInv

LEMMA ReturnStep ==
  ASSUME Undisturbed, IInv, ReturnInv, [Next]_vars
  PROVE  ReturnInv'
<1>1. CASE UNCHANGED vars
  BY <1>1 DEF vars, ReturnInv
<1> QED BY <1>1, CallsReturn

LEMMA ReturnInitially == Init => ReturnInv
BY ConstantsDistinct DEF Init, ReturnInv, Proc

(* A call that has written returns OK with the update acknowledged.        *)
LEMMA VerifiedMeansAcked ==
  ASSUME IInv, IInv', ~Straddle', NEW t \in Task, VerifyPartition(t)
  PROVE  BootParams' = Intended /\ UNCHANGED sram
<1>0. pc[t] = "verify" /\ lock = t /\ t # NoProc /\ job[t].op \in {"set", "sync"}
  BY WritingTask DEF VerifyPartition, Writing
<1>1. flash[job[t].addr] = fp /\ fp = Sealed(fp.count, Intended, job[t].addr)
  BY <1>0 DEF IInv, DataInv, UpdateInv, Replacing
<1>2. fp.pnum = job[t].addr
  BY <1>1 DEF Sealed
<1>3. Return(t, "OK") /\ acked' = Intended /\ UNCHANGED sram
  BY <1>0, <1>1, <1>2 DEF VerifyPartition, Continue, Report, Intended, SetValue
<1>4. lock' = NoProc /\ NoProc \notin Task
  BY <1>0, <1>3, ConstantsDistinct DEF Return, Proc
<1> QED BY <1>3, <1>4, Afterwards DEF Stored

(* tls_param_set with to_flash that returned OK: the next boot             *)
(* loads the value, until the counter wraps.                               *)
THEOREM SetIsSaved ==
  ASSUME Undisturbed
  PROVE  Spec /\ []~Straddle => SetOkMeansSaved
<1> DEFINE P == \A t \in SetTask :
                  /\ job[t].op = "set" /\ job[t].save /\ pc[t] \in {"enter", "verify"}
                  /\ ret'[t] = "OK" /\ ret[Boot] # "EMEM"
                  => \/ pc[t] = "enter" /\ updp
                     \/ BootParams'[job[t].id] = SetValue(t)
<1>1. Init => IInv /\ ReturnInv
  BY ControlInitially, DataInitially, ReturnInitially DEF IInv
<1>2. IInv /\ ReturnInv /\ [Next]_vars => IInv' /\ ReturnInv'
  BY IInvStep, ReturnStep
<1>3. IInv /\ IInv' /\ ReturnInv /\ ~Straddle' /\ [Next]_vars => [P]_vars
  <2> SUFFICES ASSUME IInv, IInv', ReturnInv, ~Straddle', Next,
                      NEW t \in SetTask, job[t].op = "set", job[t].save,
                      pc[t] \in {"enter", "verify"}, ret'[t] = "OK",
                      ~(pc[t] = "enter" /\ updp)
               PROVE  BootParams'[job[t].id] = SetValue(t)
    OBVIOUS
  <2>t. t \in Task /\ t \in Proc /\ ret[t] = "none"
    BY DEF Task, Proc, ReturnInv
  <2>v. pc[t] = "verify"
    <3>1. ASSUME pc[t] = "enter"
          PROVE  FALSE
      <4>1. SetEnter(t)
        BY <2>t, <3>1, CallsReturn DEF VerifyPartition, SyncEnter
      <4>2. Saves(t)
        BY <3>1 DEF Saves
      <4> QED BY <2>t, <4>1, <4>2 DEF SetEnter
    <3> QED BY <3>1
  <2>0. t \in Task /\ lock = t /\ job[t].id \in Field
    BY <2>v, WritingTask DEF Task, Writing, IInv, ControlInv, JobInv
  <2>1. VerifyPartition(t)
    BY <2>0, <2>v, CallsReturn DEF SetEnter, SyncEnter
  <2>2. BootParams' = [acked EXCEPT ![job[t].id] = SetValue(t)]
    BY <2>0, <2>1, VerifiedMeansAcked DEF Intended, SetValue
  <2> QED BY <2>0, <2>2 DEF IInv, ControlInv, TypeInv, TypeOK, Params
<1> QED BY <1>1, <1>2, <1>3, PTL DEF Spec, SetOkMeansSaved

(* tls_param_to_flash that returned OK, having written or not: the next    *)
(* boot loads what is in RAM, until the counter wraps.                     *)
THEOREM SyncIsSaved ==
  ASSUME Undisturbed
  PROVE  Spec /\ []~Straddle => SyncOkMeansSaved
<1> DEFINE P == \A t \in SetTask :
                  job[t].op = "sync" /\ ret'[t] = "OK" /\ ret[Boot] = "OK"
                     => BootParams' = sram'
<1>1. Init => IInv /\ ReturnInv
  BY ControlInitially, DataInitially, ReturnInitially DEF IInv
<1>2. IInv /\ ReturnInv /\ [Next]_vars => IInv' /\ ReturnInv'
  BY IInvStep, ReturnStep
<1>3. IInv /\ IInv' /\ ReturnInv /\ ~Straddle /\ ~Straddle' /\ [Next]_vars => [P]_vars
  <2> SUFFICES ASSUME IInv, IInv', ReturnInv, ~Straddle, ~Straddle', Next,
                      NEW t \in SetTask, job[t].op = "sync", ret'[t] = "OK"
               PROVE  BootParams' = sram'
    OBVIOUS
  <2>0. t \in Task /\ pc[t] # "idle" /\ job[t].id = All
    BY DEF Task, ReturnInv, NoJob, JobOf, IInv, ControlInv, JobInv
  <2>1. CASE VerifyPartition(t)
    <3>1. lock = t
      BY <2>0, <2>1, WritingTask DEF VerifyPartition, Writing
    <3>2. Intended = sram
      BY <2>0, <3>1 DEF Intended, SetValue, IInv, ControlInv, TypeInv, TypeOK, Params
    <3> QED BY <2>0, <2>1, <3>2, VerifiedMeansAcked
  <2>2. CASE SyncEnter(t) /\ Return(t, "OK")
    <3>1. lock = NoProc /\ NoProc \notin Task
      BY <2>2, ConstantsDistinct DEF SyncEnter, Proc
    <3>2. sram = fp.params /\ UNCHANGED <<flash, sram>>
      <4>1. pc'[t] = "idle"
        BY <2>0, <2>2, ReturnOnlyOf DEF Proc
      <4>2. ~Goto(t, "copy")
        BY <2>0, <4>1 DEF Goto, IInv, ControlInv, TypeInv, TypeOK, Proc
      <4> QED BY <2>2, <4>2 DEF SyncEnter
    <3>3. BootParams = acked /\ fp.params = acked
      BY <3>1, StoredIsLoaded DEF Stored, IInv, DataInv, IdleInv
    <3> QED BY <3>2, <3>3 DEF BootParams
  <2> QED BY <2>0, <2>1, <2>2, CallsReturn DEF SetEnter
<1> QED BY <1>1, <1>2, <1>3, PTL DEF Spec, SyncOkMeansSaved
=============================================================================
