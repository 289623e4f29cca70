---------------------- MODULE ParamStoreDisturbedProofs ----------------------
(* Theorems about ParamStore when it is disturbed: factory resets, UPDP    *)
(* commands, power losses between their steps, and failing allocations.    *)
EXTENDS ParamStoreProofs

-----------------------------------------------------------------------------
(* Factory resets that the power may interrupt                             *)

SaveOp == {"set", "sync"}

(* What the calling tasks must see to.  tls_param_to_default takes no      *)
(* lock, so it must run alone; and nobody switches updp_mode while a set   *)
(* waits for the lock.                                                     *)
ResetsAlone ==
    \A t \in Task : job[t].op \in ResetOp =>
        \A q \in Proc : q # t => pc[q] = "idle"
SteadyTarget ==
    \A t \in Task : pc[t] = "enter" /\ job[t].op = "set" => job[t].touser = updp
Disciplined == ResetsAlone /\ SteadyTarget

(* Who is where.                                                           *)
CallAt(t) ==
    /\ pc[t] \notin {"scan", "rescan"}
    /\ pc[t] = "enter" => job[t].op \in SaveOp
    /\ pc[t] \in Writing => job[t].op \in SaveOp \cup ResetOp
    /\ pc[t] \notin {"enter"} \cup Writing => job[t].op \in {"none", "updp"}
    /\ job[t].op \in ResetOp \cup {"sync"} => job[t].id = All
    /\ pc[t] \in Writing /\ job[t].op = "set" => sram[job[t].id] = job[t].val
    /\ pc[t] \in Writing /\ job[t].op \in SaveOp <=> lock = t
CallInv == \A t \in Task : CallAt(t)
StartInv ==
    /\ pc[Boot] # "idle" <=> lock = Boot
    /\ pc[Boot] # "idle" => /\ updp = FALSE
                           /\ \A t \in Task : pc[t] = "idle" /\ job[t] = NoJob
WhoInv == TypeInv /\ CallInv /\ BootInv /\ StartInv

(* What a partition may hold besides the update in progress: one of the    *)
(* two parameter sets reported last, or what a reset left there, whose     *)
(* count is the lowest: 0 is never reached without a wrap, 1 is factory.   *)
Known(i) == flash[i].params \in {acked, prev} \/ flash[i].count = 1
CountInv ==
    \A i \in Partition : flash[i] # Damaged =>
        flash[i].count > 0 /\ (flash[i].count = 1 => flash[i].params = Factory)

(* Both partitions are intact, k holds what was reported as saved.         *)
Holds(k) == /\ Intact(k) /\ Intact(1 - k)
            /\ flash[k].params = acked /\ Known(1 - k)
InUse == Holds(fp.pnum) /\ fp.count = flash[fp.pnum].count

Quiet == \A p \in Proc : pc[p] \notin Writing \cup {"scan", "rescan"}
QuietInv == Quiet => InUse /\ fp.params = acked

SavingAt(t) ==
    /\ pc[t] = "copy" => InUse /\ fp.params = acked
    /\ pc[t] = "seal" => InUse /\ fp.params = Intended
    /\ pc[t] \in {"erase", "program", "verify"} => Replacing(t, job[t].addr, Intended)
    /\ pc[t] = "erase" => Holds(1 - job[t].addr)
    /\ pc[t] = "program" => flash[job[t].addr] = Damaged
    /\ pc[t] = "verify" => flash[job[t].addr] = fp
SavingInv == \A t \in Task : job[t].op \in SaveOp => SavingAt(t)

ResetTarget(o) == IF o = "reset0" THEN 0 ELSE 1
ResettingAt(t, n) ==
    /\ sram = Factory
    /\ n = 0 => Intact(1) /\ Known(1)
    /\ n = 1 => flash[0] = Sealed(1, Factory, 0)
    /\ pc[t] \in {"copy", "seal", "erase"} =>
          /\ Intact(n) /\ Known(n)
          /\ n = 0 => flash[0].params = acked \/ flash[1].params = acked
    /\ pc[t] = "seal" => fp.params = Factory
    /\ pc[t] \in {"erase", "program", "verify"} =>
          fp = Sealed(1, Factory, n) /\ job[t].addr = n
    /\ pc[t] = "program" => flash[n] = Damaged
    /\ pc[t] = "verify" => flash[n] = fp
ResettingInv ==
    \A t \in Task : job[t].op \in ResetOp => ResettingAt(t, ResetTarget(job[t].op))

ScanKnown ==
    pc[Boot] \in {"scan", "rescan"} =>
       \A i \in Partition : flash[i] # Damaged => Known(i)

StoreInv == /\ ShapeInv /\ CountInv /\ QuietInv /\ SavingInv /\ ResettingInv
            /\ ScanInv /\ ScanKnown /\ InitInv /\ RestoreInv
KnownInv == WhoInv /\ StoreInv

-----------------------------------------------------------------------------

(* A writer is the only one, and nobody scans meanwhile.                   *)
LEMMA OnlyWriter ==
  ASSUME WhoInv, ResetsAlone, NEW p \in Proc, pc[p] \in Writing
  PROVE  \A q \in Proc : q # p => pc[q] \notin Writing \cup {"scan", "rescan"}
<1>0. Boot \notin Task /\ Task \subseteq Proc /\ Proc = Task \cup {Boot}
  BY ConstantsDistinct DEF Proc
<1>1. CASE p = Boot
  BY <1>0, <1>1 DEF WhoInv, StartInv, Writing
<1>2. CASE p \in Task
  <2>1. pc[Boot] = "idle"
    BY <1>2 DEF WhoInv, StartInv, Writing
  <2>2. ASSUME NEW q \in Task, q # p, pc[q] \in Writing
        PROVE  FALSE
    <3>1. job[p].op \in SaveOp /\ job[q].op \in SaveOp
      BY <1>0, <1>2, <2>2 DEF ResetsAlone, WhoInv, CallInv, CallAt, Writing
    <3> QED BY <1>2, <2>2, <3>1 DEF WhoInv, CallInv, CallAt
  <2> QED BY <1>0, <2>1, <2>2 DEF WhoInv, CallInv, CallAt, Writing
<1> QED BY <1>0, <1>1, <1>2

(* When the lock is free and a task waits for it, nobody writes.           *)
LEMMA QuietWhenFree ==
  ASSUME WhoInv, ResetsAlone, NEW t \in Task, pc[t] = "enter", lock = NoProc
  PROVE  Quiet
<1>0. /\ Boot \notin Task /\ Task \subseteq Proc /\ Proc = Task \cup {Boot}
      /\ NoProc \notin Proc
  BY ConstantsDistinct DEF Proc
<1>1. pc[Boot] = "idle"
  BY <1>0 DEF WhoInv, StartInv
<1>2. ASSUME NEW q \in Task, pc[q] \in Writing
      PROVE  FALSE
  <2>1. job[q].op \in SaveOp \cup ResetOp
    BY <1>2 DEF WhoInv, CallInv, CallAt
  <2>2. CASE job[q].op \in ResetOp
    <3>1. q # t
      BY <1>2 DEF Writing
    <3> QED BY <1>0, <2>2, <3>1 DEF ResetsAlone
  <2>3. CASE job[q].op \in SaveOp
    BY <1>0, <1>2, <2>3 DEF WhoInv, CallInv, CallAt
  <2> QED BY <2>1, <2>2, <2>3
<1> QED BY <1>0, <1>1, <1>2 DEF Quiet, WhoInv, CallInv, CallAt, Writing

(* A step of p leaves the calls of the others where they are.              *)
LEMMA OthersKept ==
  ASSUME WhoInv, NEW p \in Proc,
         \A q \in Proc : q # p => pc'[q] = pc[q] /\ job'[q] = job[q],
         \A q \in Task : q # p =>
            /\ lock' = q <=> lock = q
            /\ sram' = sram \/ pc[q] \notin Writing
  PROVE  \A q \in Task : q # p => CallAt(q)'
BY BootIsProc DEF WhoInv, CallInv, CallAt

LEMMA WhoWrites ==
  ASSUME WhoInv, ResetsAlone, NEW p \in Proc, pc[p] \in Writing,
         NEW l \in Writing, pc' = [pc EXCEPT ![p] = l], UNCHANGED <<lock, sram, updp>>,
         \A q \in Proc : q # p => job'[q] = job[q],
         job'[p].id = job[p].id, job'[p].val = job[p].val,
         \/ job'[p].op = job[p].op
         \/ p = Boot /\ job'[p].op \in BootOp
         \/ p \in Task /\ job[p].op = "reset0" /\ job'[p].op = "reset1"
  PROVE  CallInv' /\ BootInv' /\ StartInv'
<1>0. Boot \notin Task /\ Task \subseteq Proc /\ Proc = Task \cup {Boot}
  BY ConstantsDistinct DEF Proc
<1>1. pc'[p] = l /\ \A q \in Proc : q # p => pc'[q] = pc[q] /\ job'[q] = job[q]
  BY DEF WhoInv, TypeInv, TypeOK
<1>2. \A q \in Task : q # p => CallAt(q)'
  BY <1>1, OthersKept
<1>3. CASE p = Boot
  BY <1>0, <1>1, <1>2, <1>3 DEF WhoInv, CallInv, BootInv, StartInv, Writing
<1>4. CASE p \in Task
  <2>1. CallAt(p)'
    BY <1>0, <1>1, <1>4 DEF WhoInv, CallInv, CallAt, Writing, SaveOp, ResetOp
  <2>2. pc'[Boot] = "idle" /\ pc[Boot] = "idle"
    BY <1>0, <1>1, <1>4 DEF WhoInv, StartInv, Writing
  <2> QED BY <1>0, <1>2, <2>1, <2>2 DEF WhoInv, CallInv, BootInv, StartInv, Writing
<1> QED BY <1>0, <1>3, <1>4

LEMMA WhoReturns ==
  ASSUME WhoInv, NEW p \in Proc, NEW s, Return(p, s), UNCHANGED updp,
         p \in Task \/ pc[p] # "idle", p \in Task => pc[Boot] = "idle",
         sram' = sram \/ \A q \in Task : q # p => pc[q] \notin Writing
  PROVE  CallInv' /\ BootInv' /\ StartInv'
<1>0. /\ Boot \notin Task /\ Task \subseteq Proc /\ Proc = Task \cup {Boot}
      /\ NoProc \notin Proc
  BY ConstantsDistinct DEF Proc
<1>1. /\ pc'[p] = "idle" /\ \A q \in Proc : q # p => pc'[q] = pc[q] /\ job'[q] = job[q]
      /\ lock' = (IF lock = p THEN NoProc ELSE lock) /\ job'[p].op = "none"
  BY DEF WhoInv, TypeInv, TypeOK, Return, Goto, NoJob, JobOf
<1>2. \A q \in Task : q # p => CallAt(q)'
  BY <1>0, <1>1, OthersKept
<1>3. CASE p = Boot
  <2>1. lock = Boot /\ lock' = NoProc
    BY <1>0, <1>1, <1>3 DEF WhoInv, StartInv
  <2> QED BY <1>0, <1>1, <1>2, <1>3, <2>1 DEF CallInv, BootInv, StartInv, Writing
<1>4. CASE p \in Task
  <2>1. CallAt(p)'
    BY <1>0, <1>1, <1>4 DEF CallAt, Writing, SaveOp, ResetOp
  <2>2. pc'[Boot] = "idle" /\ lock # Boot /\ lock' # Boot
    BY <1>0, <1>1, <1>4 DEF WhoInv, StartInv
  <2> QED BY <1>0, <1>2, <2>1, <2>2 DEF CallInv, BootInv, StartInv, Writing
<1> QED BY <1>0, <1>3, <1>4

LEMMA WhoContinues ==
  ASSUME WhoInv, ResetsAlone, NEW p \in Proc, pc[p] \in Writing, NEW s, Continue(p, s),
         UNCHANGED <<sram, updp>>
  PROVE  CallInv' /\ BootInv' /\ StartInv'
<1>0. Boot \notin Task /\ Task \subseteq Proc /\ Proc = Task \cup {Boot}
  BY ConstantsDistinct DEF Proc
<1>1. CASE Return(p, s)
  <2>1. p \in Task => pc[Boot] = "idle"
    BY <1>0 DEF WhoInv, StartInv, Writing
  <2>2. pc[p] # "idle"
    BY DEF Writing
  <2> QED BY <1>1, <2>1, <2>2, WhoReturns
<1>2. CASE /\ job[p].op \in {"reset0", "init0"} /\ Goto(p, "copy") /\ UNCHANGED lock
           /\ job' = [job EXCEPT ![p].op = IF job[p].op = "reset0" THEN "reset1" ELSE "init1"]
  <2>1. /\ job'[p].op = (IF job[p].op = "reset0" THEN "reset1" ELSE "init1")
        /\ job'[p].id = job[p].id /\ job'[p].val = job[p].val
        /\ \A q \in Proc : q # p => job'[q] = job[q]
    BY <1>2 DEF WhoInv, TypeInv, TypeOK, Job
  <2>2. p \in Task => job[p].op \in SaveOp \cup ResetOp
    BY DEF WhoInv, CallInv, CallAt
  <2>3. p = Boot => job[p].op \in BootOp
    BY DEF WhoInv, BootInv
  <2>4. \/ p = Boot /\ job'[p].op \in BootOp
        \/ p \in Task /\ job[p].op = "reset0" /\ job'[p].op = "reset1"
    BY <1>0, <1>2, <2>1, <2>2, <2>3 DEF BootOp, SaveOp, ResetOp
  <2>5. pc' = [pc EXCEPT ![p] = "copy"] /\ "copy" \in Writing
    BY <1>2 DEF Goto, Writing
  <2> QED BY <1>2, <2>1, <2>4, <2>5, WhoWrites
<1> QED BY <1>1, <1>2 DEF Continue

LEMMA WhoParamToFlash ==
  ASSUME WhoInv, ResetsAlone, NEW p \in Proc, ParamToFlash(p)
  PROVE  CallInv' /\ BootInv' /\ StartInv'
<1>0. pc[p] \in Writing
  BY DEF ParamToFlash, CopyFields, SealHeader, ErasePartition, ProgramPartition,
         VerifyPartition, Writing
<1>1. CASE CopyFields(p) \/ ErasePartition(p) \/ ProgramPartition(p)
  BY <1>0, <1>1, WhoWrites
  DEF CopyFields, ErasePartition, ProgramPartition, Goto, Writing
<1>2. CASE SealHeader(p)
  <2>1. /\ job'[p].op = job[p].op /\ job'[p].id = job[p].id /\ job'[p].val = job[p].val
        /\ \A q \in Proc : q # p => job'[q] = job[q]
    BY <1>2 DEF SealHeader, WhoInv, TypeInv, TypeOK, Job
  <2> QED BY <1>0, <1>2, <2>1, WhoWrites DEF SealHeader, Goto, Writing
<1>3. CASE VerifyPartition(p)
  BY <1>0, <1>3, WhoContinues DEF VerifyPartition
<1> QED BY <1>1, <1>2, <1>3 DEF ParamToFlash

(* A task that neither writes nor starts to.                               *)
LEMMA WhoGoes ==
  ASSUME WhoInv, NEW t \in Task, pc[Boot] = "idle",
         NEW l \in PC, l \notin Writing \cup {"scan", "rescan"},
         pc' = [pc EXCEPT ![t] = l], pc[t] \notin Writing,
         UNCHANGED <<lock, sram>>,
         \A q \in Proc : q # t => job'[q] = job[q],
         l = "enter" => job'[t].op \in SaveOp,
         l # "enter" => job'[t].op \in {"none", "updp"},
         job'[t].op = "sync" => job'[t].id = All
  PROVE  CallInv' /\ BootInv' /\ StartInv'
<1>0. Boot \notin Task /\ Task \subseteq Proc /\ Proc = Task \cup {Boot}
  BY ConstantsDistinct DEF Proc
<1>1. pc'[t] = l /\ \A q \in Proc : q # t => pc'[q] = pc[q] /\ job'[q] = job[q]
  BY <1>0 DEF WhoInv, TypeInv, TypeOK
<1>2. \A q \in Task : q # t => CallAt(q)'
  BY <1>0, <1>1, OthersKept
<1>3. lock # t
  BY DEF WhoInv, CallInv, CallAt
<1>4. CallAt(t)'
  BY <1>1, <1>3 DEF CallAt, Writing, SaveOp, ResetOp
<1>5. pc'[Boot] = "idle" /\ lock # Boot
  BY <1>0, <1>1 DEF WhoInv, StartInv
<1> QED BY <1>0, <1>2, <1>4, <1>5 DEF CallInv, BootInv, StartInv, Writing

LEMMA WhoEnters ==
  ASSUME WhoInv, Disciplined, NEW t \in Task, SetEnter(t) \/ SyncEnter(t)
  PROVE  CallInv' /\ BootInv' /\ StartInv'
<1>0. /\ Boot \notin Task /\ Task \subseteq Proc /\ Proc = Task \cup {Boot}
      /\ NoProc \notin Proc /\ t \in Proc
  BY ConstantsDistinct DEF Proc
<1>1. /\ pc[t] = "enter" /\ lock = NoProc /\ UNCHANGED updp
  BY DEF SetEnter, SyncEnter
<1>2. Quiet
  BY <1>1, QuietWhenFree DEF Disciplined
<1>3. pc[Boot] = "idle"
  BY <1>0, <1>1 DEF WhoInv, StartInv
<1>4. \A q \in Task : pc[q] \notin Writing
  BY <1>0, <1>2 DEF Quiet
<1>5. CASE Return(t, "OK")
  BY <1>0, <1>1, <1>3, <1>4, <1>5, WhoReturns
<1>6. CASE lock' = t /\ Goto(t, "copy") /\ UNCHANGED job
  <2>1. pc'[t] = "copy" /\ \A q \in Proc : q # t => pc'[q] = pc[q] /\ job'[q] = job[q]
    BY <1>0, <1>6 DEF WhoInv, TypeInv, TypeOK, Goto
  <2>2. \A q \in Task : q # t => CallAt(q)'
    BY <1>0, <1>1, <1>4, <1>6, <2>1, OthersKept
  <2>3. ASSUME job[t].op = "set"
        PROVE  sram'[job[t].id] = job[t].val
    <3>1. SetEnter(t) /\ job[t].id \in Field /\ lock' # NoProc
      BY <1>0, <1>6, <2>3 DEF SyncEnter, WhoInv, TypeInv, SetHasId
    <3>2. Saves(t) /\ job[t].touser = updp
      BY <1>0, <1>1, <2>3, <3>1 DEF SetEnter, Return, Disciplined, SteadyTarget
    <3> QED BY <3>1, <3>2 DEF SetEnter, Saves, WhoInv, TypeInv, TypeOK, Params
  <2>4. job[t].op \in SaveOp /\ (job[t].op = "sync" => job[t].id = All)
    BY <1>1 DEF WhoInv, CallInv, CallAt
  <2>5. CallAt(t)'
    BY <1>6, <2>1, <2>3, <2>4 DEF CallAt, Writing, SaveOp, ResetOp
  <2>6. pc'[Boot] = "idle" /\ lock' # Boot
    BY <1>0, <1>3, <1>6, <2>1
  <2> QED BY <2>2, <2>5, <2>6 DEF CallInv, BootInv, StartInv, Writing
<1> QED BY <1>5, <1>6 DEF SetEnter, SyncEnter

LEMMA WhoUser ==
  ASSUME WhoInv, NEW t \in Task,
         \/ UpdpLoad(t) \/ SaveUserMagic(t) \/ SaveUserData(t) \/ SaveUserCrc(t)
         \/ UpdpLoadNoMem(t) \/ SaveUserNoMem(t)
  PROVE  CallInv' /\ BootInv' /\ StartInv'
<1>0. /\ t \in Proc /\ pc[Boot] = "idle" /\ pc[t] \in {"load", "magic", "data", "crc"}
      /\ UNCHANGED <<sram, updp>>
  BY BootIsProc
  DEF UpdpLoad, SaveUserMagic, SaveUserData, SaveUserCrc, SaveUserStep,
      UpdpLoadNoMem, SaveUserNoMem, WhoInv, StartInv
<1>1. CASE Return(t, "OK")
  BY <1>0, <1>1, WhoReturns
<1>2. ASSUME NEW l \in {"data", "crc"}, Goto(t, l), UNCHANGED <<lock, job>>
      PROVE  CallInv' /\ BootInv' /\ StartInv'
  <2>1. job[t].op \in {"none", "updp"}
    BY <1>0 DEF WhoInv, CallInv, CallAt, Writing
  <2>2. /\ l \in PC /\ l \notin Writing \cup {"scan", "rescan"} /\ l # "enter"
        /\ pc[t] \notin Writing /\ pc' = [pc EXCEPT ![t] = l]
    BY <1>0, <1>2 DEF PC, Writing, Goto
  <2> QED BY <1>0, <1>2, <2>1, <2>2, WhoGoes
<1> QED BY <1>1, <1>2 DEF UpdpLoad, SaveUserMagic, SaveUserData, SaveUserCrc, SaveUserStep,
                          UpdpLoadNoMem, SaveUserNoMem

LEMMA WhoCalls ==
  ASSUME WhoInv, ResetsAlone', Call
  PROVE  CallInv' /\ BootInv' /\ StartInv'
<1>0. /\ Boot \notin Task /\ Task \subseteq Proc /\ Proc = Task \cup {Boot}
      /\ NoProc \notin Proc
  BY ConstantsDistinct DEF Proc
<1>1. ASSUME NEW t \in Task, NEW o \in {"sync", "updp"}, NEW l \in {"enter", "load", "magic"},
             Up, pc[t] = "idle", Start(t, o, l), UNCHANGED <<lock, sram>>,
             l = "enter" <=> o = "sync"
      PROVE  CallInv' /\ BootInv' /\ StartInv'
  <2>1. /\ pc' = [pc EXCEPT ![t] = l] /\ job'[t] = JobOf(o) /\ t \in Proc
        /\ \A q \in Proc : q # t => job'[q] = job[q]
    BY <1>0, <1>1 DEF Start, Goto, WhoInv, TypeInv, TypeOK
  <2>2. l \in PC /\ l \notin Writing \cup {"scan", "rescan"} /\ pc[t] \notin Writing
    BY <1>1 DEF PC, Writing
  <2>3. job'[t].op = o /\ job'[t].id = All
    BY <2>1 DEF JobOf
  <2> QED BY <1>1, <2>1, <2>2, <2>3, WhoGoes DEF Up, SaveOp
<1>2. ASSUME NEW t \in SetTask, NEW id \in Field, NEW v \in Value,
             NEW save \in BOOLEAN, SetCall(t, id, v, save)
      PROVE  CallInv' /\ BootInv' /\ StartInv'
  <2>1. /\ t \in Task /\ t \in Proc /\ pc' = [pc EXCEPT ![t] = "enter"]
        /\ \A q \in Proc : q # t => job'[q] = job[q]
        /\ job'[t].op = "set"
    BY <1>0, <1>2 DEF SetCall, Goto, WhoInv, TypeInv, TypeOK, Task
  <2>2. /\ "enter" \in PC /\ "enter" \notin Writing \cup {"scan", "rescan"}
        /\ pc[t] \notin Writing /\ pc[Boot] = "idle" /\ UNCHANGED <<lock, sram>>
    BY <1>2 DEF PC, Writing, SetCall, Up
  <2> QED BY <2>1, <2>2, WhoGoes DEF SaveOp
<1>3. ASSUME NEW t \in SetTask, SyncCall(t)
      PROVE  CallInv' /\ BootInv' /\ StartInv'
  BY <1>1, <1>3 DEF SyncCall, Task
<1>4. ASSUME NEW t \in UpdpTask, UpdpBegin(t) \/ UpdpEnd(t)
      PROVE  CallInv' /\ BootInv' /\ StartInv'
  BY <1>1, <1>4 DEF UpdpBegin, UpdpEnd, Task
<1>5. ASSUME NEW t \in ResetTask, ResetCall(t)
      PROVE  CallInv' /\ BootInv' /\ StartInv'
  <2>1. /\ t \in Task /\ t \in Proc /\ pc'[t] = "copy" /\ job'[t] = JobOf("reset0")
        /\ \A q \in Proc : q # t => job'[q] = job[q] /\ pc'[q] = pc[q]
    BY <1>0, <1>5 DEF ResetCall, Start, Goto, WhoInv, TypeInv, TypeOK, Task
  <2>2. job'[t].op = "reset0" /\ job'[t].id = All
    BY <2>1 DEF JobOf
  <2>3. \A q \in Proc : q # t => pc'[q] = "idle"
    BY <2>1, <2>2 DEF ResetsAlone, ResetOp
  <2>4. \A q \in Task : q # t => CallAt(q)'
    BY <1>0, <1>5, <2>1, <2>3, OthersKept DEF ResetCall, Writing
  <2>5. lock # t /\ UNCHANGED lock
    BY <1>5, <2>1 DEF WhoInv, CallInv, CallAt, ResetCall, Writing
  <2>6. CallAt(t)'
    BY <2>1, <2>2, <2>5 DEF CallAt, Writing, SaveOp, ResetOp
  <2>7. pc'[Boot] = "idle" /\ lock # Boot
    BY <1>0, <1>5, <2>1 DEF ResetCall, Up, WhoInv, StartInv
  <2> QED BY <1>0, <2>4, <2>5, <2>6, <2>7 DEF CallInv, BootInv, StartInv, Writing
<1> QED BY <1>2, <1>3, <1>4, <1>5 DEF Call

LEMMA WhoScans ==
  ASSUME WhoInv, NEW miss, Scan(miss)
  PROVE  CallInv' /\ BootInv' /\ StartInv'
<1>0. /\ Boot \notin Task /\ Task \subseteq Proc /\ Proc = Task \cup {Boot}
      /\ NoProc \notin Proc /\ Boot \in Proc
  BY ConstantsDistinct DEF Proc
<1>1. /\ pc[Boot] \in {"scan", "rescan"} /\ lock = Boot /\ updp = FALSE
      /\ \A t \in Task : pc[t] = "idle" /\ job[t] = NoJob
      /\ UNCHANGED updp
  BY DEF Scan, WhoInv, StartInv
<1>2. CASE Return(Boot, "OK")
  <2>1. \A q \in Task : pc[q] \notin Writing
    BY <1>1 DEF Writing
  <2> QED BY <1>0, <1>1, <1>2, <2>1, WhoReturns
<1>3. ASSUME NEW l \in {"rescan", "copy"}, pc' = [pc EXCEPT ![Boot] = l], UNCHANGED lock,
             l = "copy" => job'[Boot].op \in BootOp /\ job'[Boot].id = All,
             \A t \in Task : job'[t] = job[t]
      PROVE  CallInv' /\ BootInv' /\ StartInv'
  <2>1. pc'[Boot] = l /\ \A t \in Task : pc'[t] = "idle" /\ job'[t] = NoJob
    BY <1>0, <1>1, <1>3 DEF WhoInv, TypeInv, TypeOK
  <2>2. \A q \in Task : q # Boot => CallAt(q)'
    BY <1>0, <1>1, <1>3, <2>1, OthersKept DEF Writing
  <2> QED BY <1>0, <1>1, <1>3, <2>1, <2>2 DEF CallInv, BootInv, StartInv, Writing
<1>4. ASSUME NEW o \in BootOp, Start(Boot, o, "copy")
      PROVE  /\ pc' = [pc EXCEPT ![Boot] = "copy"]
             /\ job'[Boot].op \in BootOp /\ job'[Boot].id = All
             /\ \A t \in Task : job'[t] = job[t]
  BY <1>0, <1>4 DEF Start, Goto, JobOf, WhoInv, TypeInv, TypeOK
<1> QED BY <1>2, <1>3, <1>4 DEF Scan, AfterDamaged, Goto, BootOp

LEMMA WhoPowerLoss ==
  ASSUME WhoInv, PowerLoss
  PROVE  CallInv' /\ BootInv' /\ StartInv'
<1>0. /\ Boot \notin Task /\ Task \subseteq Proc /\ Proc = Task \cup {Boot}
  BY ConstantsDistinct DEF Proc
<1>1. /\ pc'[Boot] = "scan" /\ lock' = Boot /\ updp' = FALSE
      /\ \A t \in Task : pc'[t] = "idle" /\ job'[t] = NoJob
  BY <1>0 DEF PowerLoss
<1>2. NoJob.op = "none"
  BY DEF NoJob, JobOf
<1>3. CallInv'
  BY <1>0, <1>1, <1>2 DEF CallInv, CallAt, Writing, SaveOp, ResetOp
<1> QED BY <1>1, <1>3 DEF BootInv, StartInv, Writing

LEMMA WhoStep ==
  ASSUME WhoInv, Disciplined, ResetsAlone', [Next]_vars
  PROVE  WhoInv'
<1>1. TypeInv'
  BY TypeStep DEF WhoInv
<1>2. CASE UNCHANGED vars
  BY <1>1, <1>2 DEF vars, WhoInv, CallInv, CallAt, BootInv, StartInv
<1>3. CASE BootStep
  BY <1>1, <1>3, WhoScans, WhoParamToFlash, BootIsProc
  DEF BootStep, BootScan, WhoInv, Disciplined
<1>4. CASE \E t \in Task : TaskStep(t)
  BY <1>1, <1>4, WhoParamToFlash, WhoEnters, WhoUser, BootIsProc
  DEF TaskStep, WhoInv, Disciplined
<1>5. CASE Fault
  <2>1. ASSUME NEW p \in Proc, WriteNoMem(p) \/ VerifyNoMem(p)
        PROVE  CallInv' /\ BootInv' /\ StartInv'
    BY <2>1, WhoContinues DEF WriteNoMem, VerifyNoMem, Writing, Disciplined
  <2>2. CASE BootNoMem
    <3>1. /\ Boot \in Proc /\ Boot \notin Task /\ pc[Boot] # "idle"
          /\ Return(Boot, "EMEM") /\ sram' = sram /\ UNCHANGED updp
      BY <2>2, BootIsProc, ConstantsDistinct DEF BootNoMem
    <3> QED BY <1>1, <3>1, WhoReturns DEF WhoInv
  <2>3. \A t \in UpdpTask : t \in Task
    BY DEF Task
  <2> QED BY <1>1, <1>5, <2>1, <2>2, <2>3, WhoScans, WhoUser DEF Fault, BootReadNoMem, WhoInv
<1> QED BY <1>1, <1>2, <1>3, <1>4, <1>5, WhoCalls, WhoPowerLoss DEF Next, WhoInv

-----------------------------------------------------------------------------
(* What a step must establish, by who writes afterwards.                   *)

LEMMA StoreWhenQuiet ==
  ASSUME WhoInv', Quiet', ShapeInv', CountInv', InUse', (fp.params = acked)'
  PROVE  StoreInv'
<1>0. Boot \in Proc /\ Task \subseteq Proc
  BY BootIsProc
<1>1. pc'[Boot] \notin Writing \cup {"scan", "rescan"} /\ \A t \in Task : pc'[t] \notin Writing
  BY <1>0 DEF Quiet
<1>2. SavingInv' /\ ResettingInv'
  BY <1>1 DEF SavingInv, SavingAt, ResettingInv, WhoInv, CallInv, CallAt, Writing,
              SaveOp, ResetOp
<1>3. ScanInv' /\ ScanKnown' /\ InitInv' /\ RestoreInv'
  BY <1>1 DEF ScanInv, ScanKnown, InitInv, RestoreInv
<1> QED BY <1>2, <1>3 DEF StoreInv, QuietInv

LEMMA StoreWhenSaving ==
  ASSUME WhoInv', NEW t \in Task, pc'[t] \in Writing, job'[t].op \in SaveOp,
         \A q \in Proc : q # t => pc'[q] \notin Writing \cup {"scan", "rescan"},
         ShapeInv', CountInv', SavingAt(t)'
  PROVE  StoreInv'
<1>0. Boot \in Proc /\ Task \subseteq Proc /\ Boot # t
  BY BootIsProc, ConstantsDistinct
<1>1. pc'[Boot] \notin Writing \cup {"scan", "rescan"}
      /\ \A u \in Task : u # t => pc'[u] \notin Writing
  BY <1>0
<1>2. SavingInv'
  BY <1>1 DEF SavingInv, SavingAt, Writing
<1>3. ResettingInv'
  <2> SUFFICES ASSUME NEW u \in Task, job'[u].op \in ResetOp PROVE FALSE
    BY DEF ResettingInv
  <2>1. pc'[u] \in Writing
    BY DEF WhoInv, CallInv, CallAt, SaveOp, ResetOp
  <2> QED BY <1>1, <2>1 DEF SaveOp, ResetOp
<1>4. ScanInv' /\ ScanKnown' /\ InitInv' /\ RestoreInv'
  BY <1>1 DEF ScanInv, ScanKnown, InitInv, RestoreInv
<1>5. QuietInv'
  BY <1>0 DEF QuietInv, Quiet
<1> QED BY <1>2, <1>3, <1>4, <1>5 DEF StoreInv

LEMMA StoreWhenResetting ==
  ASSUME WhoInv', NEW t \in Task, pc'[t] \in Writing, job'[t].op \in ResetOp,
         \A q \in Proc : q # t => pc'[q] \notin Writing \cup {"scan", "rescan"},
         ShapeInv', CountInv', ResettingAt(t, ResetTarget(job[t].op))'
  PROVE  StoreInv'
<1>0. Boot \in Proc /\ Task \subseteq Proc /\ Boot # t
  BY BootIsProc, ConstantsDistinct
<1>1. pc'[Boot] \notin Writing \cup {"scan", "rescan"}
      /\ \A u \in Task : u # t => pc'[u] \notin Writing
  BY <1>0
<1>2. SavingInv'
  <2> SUFFICES ASSUME NEW u \in Task, u # t PROVE SavingAt(u)'
    BY DEF SavingInv, SaveOp, ResetOp
  <2> QED BY <1>1 DEF SavingAt, Writing
<1>3. ResettingInv'
  <2> SUFFICES ASSUME NEW u \in Task, job'[u].op \in ResetOp PROVE u = t
    BY DEF ResettingInv
  <2>1. pc'[u] \in Writing
    BY DEF WhoInv, CallInv, CallAt, SaveOp, ResetOp
  <2> QED BY <1>1, <2>1
<1>4. ScanInv' /\ ScanKnown' /\ InitInv' /\ RestoreInv'
  BY <1>1 DEF ScanInv, ScanKnown, InitInv, RestoreInv
<1>5. QuietInv'
  BY <1>0 DEF QuietInv, Quiet
<1> QED BY <1>2, <1>3, <1>4, <1>5 DEF StoreInv

LEMMA StoreWhenBooting ==
  ASSUME WhoInv', pc'[Boot] # "idle", ShapeInv', CountInv',
         ScanInv', ScanKnown', InitInv', RestoreInv',
         pc'[Boot] \in Writing \cup {"scan", "rescan"}
  PROVE  StoreInv'
<1>1. \A t \in Task : pc'[t] = "idle" /\ job'[t].op = "none"
  BY DEF WhoInv, StartInv, NoJob, JobOf
<1>2. SavingInv' /\ ResettingInv' /\ QuietInv'
  BY <1>1, BootIsProc DEF SavingInv, ResettingInv, QuietInv, Quiet, SaveOp, ResetOp
<1> QED BY <1>2 DEF StoreInv

(* A task that does not write goes from one place outside param_to_flash   *)
(* to another.                                                             *)
LEMMA StoreAside ==
  ASSUME KnownInv, WhoInv', NEW t \in Task, pc[Boot] = "idle", pc[t] \notin Writing,
         pc'[t] \notin Writing \cup {"scan", "rescan"},
         \A q \in Proc : q # t => pc'[q] = pc[q] /\ job'[q] = job[q],
         UNCHANGED <<flash, fp, sram, lock, acked, prev>>
  PROVE  StoreInv'
<1>0. Boot \in Proc /\ Task \subseteq Proc /\ Boot # t
  BY BootIsProc, ConstantsDistinct
<1>1. lock # t
  BY DEF KnownInv, WhoInv, CallInv, CallAt
<1>2. Intended' = Intended
  BY <1>0, <1>1 DEF Intended, SetValue
<1>3. ShapeInv' /\ CountInv'
  BY DEF KnownInv, StoreInv, ShapeInv, CountInv, Intact
<1>4. QuietInv'
  <2>1. Quiet' => Quiet
    BY <1>0 DEF Quiet, KnownInv, WhoInv, CallInv, CallAt
  <2> QED BY <2>1 DEF KnownInv, StoreInv, QuietInv, InUse, Holds, Intact, Known
<1>5. SavingInv'
  <2> SUFFICES ASSUME NEW u \in Task, job'[u].op \in SaveOp PROVE SavingAt(u)'
    BY DEF SavingInv
  <2>1. CASE u = t
    BY <2>1 DEF SavingAt, Writing
  <2>2. CASE u # t
    BY <1>0, <1>2, <2>2
    DEF KnownInv, StoreInv, SavingInv, SavingAt, InUse, Holds, Intact, Known, Replacing
  <2> QED BY <2>1, <2>2
<1>6. ResettingInv'
  <2> SUFFICES ASSUME NEW u \in Task, job'[u].op \in ResetOp
               PROVE  ResettingAt(u, ResetTarget(job[u].op))'
    BY DEF ResettingInv
  <2>1. pc'[u] \in Writing
    BY DEF WhoInv, CallInv, CallAt, SaveOp, ResetOp
  <2>2. u # t /\ job'[u] = job[u] /\ pc'[u] = pc[u]
    BY <1>0, <2>1
  <2> QED BY <2>2 DEF KnownInv, StoreInv, ResettingInv, ResettingAt, Intact, Known
<1>7. ScanInv' /\ ScanKnown' /\ InitInv' /\ RestoreInv'
  BY <1>0 DEF ScanInv, ScanKnown, InitInv, RestoreInv, Writing
<1> QED BY <1>3, <1>4, <1>5, <1>6, <1>7 DEF StoreInv

-----------------------------------------------------------------------------
(* A task that saves.                                                      *)

LEMMA SaverHolds ==
  ASSUME WhoInv, ResetsAlone, NEW t \in Task, pc[t] \in Writing, job[t].op \in SaveOp
  PROVE  /\ lock = t /\ t \in Proc /\ job[t].addr \in Partition
         /\ \A q \in Proc : q # t => pc[q] \notin Writing \cup {"scan", "rescan"}
<1>1. t \in Proc
  BY BootIsProc
<1>2. job[t].addr \in Partition
  BY <1>1 DEF WhoInv, TypeInv, TypeOK, Job
<1> QED BY <1>1, <1>2, OnlyWriter DEF WhoInv, CallInv, CallAt

LEMMA SaverIntends ==
  ASSUME WhoInv, Period \notin Field, NEW t \in Task, pc[t] \in Writing,
         job[t].op \in SaveOp
  PROVE  Intended = [f \in Field |-> IF f \in CopiedFields(job[t].id)
                                     THEN sram[f] ELSE acked[f]]
<1>0. lock = t /\ t \in Proc
  BY BootIsProc DEF WhoInv, CallInv, CallAt
<1>1. CASE job[t].op = "set"
  <2>1. /\ job[t].id \in Field /\ sram[job[t].id] = job[t].val
        /\ job[t].id # All /\ job[t].id # Period
    BY <1>0, <1>1, ConstantsDistinct DEF WhoInv, CallInv, CallAt, TypeInv, SetHasId
  <2>2. CopiedFields(job[t].id) = {job[t].id}
    BY <2>1 DEF CopiedFields
  <2>3. Intended = [acked EXCEPT ![job[t].id] = SetValue(t)]
    BY <1>0, <1>1 DEF Intended, SetValue
  <2>4. SetValue(t) = sram[job[t].id]
    BY <2>1 DEF SetValue
  <2> QED BY <2>4, <2>1, <2>2, <2>3 DEF WhoInv, TypeInv, TypeOK, Params
<1>2. CASE job[t].op = "sync"
  <2>1. job[t].id = All
    BY <1>2 DEF WhoInv, CallInv, CallAt
  <2> QED BY <1>0, <1>2, <2>1 DEF Intended, SetValue, CopiedFields
<1> QED BY <1>1, <1>2 DEF SaveOp

LEMMA SaverCopies ==
  ASSUME KnownInv, Disciplined, WhoInv', Period \notin Field, NEW t \in Task,
         job[t].op \in SaveOp, CopyFields(t)
  PROVE  StoreInv'
<1> pc[t] \in Writing /\ WhoInv /\ ResetsAlone
  BY DEF CopyFields, Writing, KnownInv, Disciplined
<1>0. /\ lock = t /\ t \in Proc
      /\ \A q \in Proc : q # t => pc[q] \notin Writing \cup {"scan", "rescan"}
  BY SaverHolds
<1>1. /\ pc'[t] = "seal" /\ \A q \in Proc : q # t => pc'[q] = pc[q]
      /\ UNCHANGED <<flash, sram, lock, job, acked, prev>>
      /\ InUse /\ fp.params = acked
  BY <1>0 DEF CopyFields, Goto, KnownInv, StoreInv, SavingInv, SavingAt, WhoInv, TypeInv, TypeOK
<1>2. fp'.params = Intended /\ fp'.count = fp.count /\ fp'.pnum = fp.pnum
  BY <1>1, SaverIntends DEF CopyFields, WhoInv, TypeInv, TypeOK, FlashParam
<1>3. Intended' = Intended
  BY <1>1 DEF Intended, SetValue
<1>4. InUse' /\ ShapeInv' /\ CountInv'
  BY <1>1, <1>2 DEF InUse, Holds, Intact, Known, ShapeInv, CountInv, KnownInv, StoreInv
<1>5. SavingAt(t)'
  BY <1>1, <1>2, <1>3, <1>4 DEF SavingAt
<1>6. pc'[t] \in Writing
  BY <1>1 DEF Writing
<1> QED BY <1>0, <1>1, <1>4, <1>5, <1>6, StoreWhenSaving

LEMMA SaverSeals ==
  ASSUME KnownInv, Disciplined, WhoInv', NEW t \in Task,
         job[t].op \in SaveOp, SealHeader(t)
  PROVE  StoreInv'
<1> pc[t] \in Writing /\ WhoInv /\ ResetsAlone
  BY DEF SealHeader, Writing, KnownInv, Disciplined
<1>n. PICK n \in Partition : n = 1 - fp.pnum
  BY DEF WhoInv, TypeInv, TypeOK, FlashParam, Partition
<1>0. /\ lock = t /\ t \in Proc /\ 1 - n = fp.pnum
      /\ fp.pnum \in Partition /\ fp.count \in Count /\ fp.params \in Params
      /\ \A q \in Proc : q # t => pc[q] \notin Writing \cup {"scan", "rescan"}
  BY <1>n, SaverHolds DEF WhoInv, TypeInv, TypeOK, FlashParam, Partition
<1>1. TargetOf(job[t].op, fp.pnum) = n /\ NextCount(job[t].op, fp.count) = Succ(fp.count)
  BY <1>0 DEF TargetOf, NextCount, FixedCount, Partition, Succ, SaveOp
<1>2. /\ pc'[t] = "erase" /\ \A q \in Proc : q # t => pc'[q] = pc[q]
      /\ fp' = Sealed(Succ(fp.count), fp.params, n)
      /\ job' = [job EXCEPT ![t].addr = n]
      /\ UNCHANGED <<flash, sram, lock, acked, prev>>
      /\ InUse /\ fp.params = Intended
  BY <1>0, <1>1 DEF SealHeader, Goto, KnownInv, StoreInv, SavingInv, SavingAt,
                    WhoInv, TypeInv, TypeOK
<1>3. /\ job'[t].addr = n /\ job'[t].op = job[t].op /\ job'[t].id = job[t].id
      /\ job'[t].val = job[t].val
  BY <1>0, <1>2 DEF WhoInv, TypeInv, TypeOK, Job
<1>4. Intended' = Intended
  BY <1>0, <1>2, <1>3 DEF Intended, SetValue
<1>5. fp'.count = Succ(fp.count) /\ fp' = Sealed(fp'.count, Intended', n)
  BY <1>2, <1>4 DEF Sealed
<1>6. Holds(1 - n)' /\ ShapeInv' /\ CountInv'
  BY <1>0, <1>2 DEF InUse, Holds, Intact, Known, ShapeInv, CountInv, KnownInv, StoreInv
<1>7. Replacing(t, n, Intended)'
  BY <1>0, <1>2, <1>3, <1>5 DEF Replacing, InUse, Holds, Intact
<1>8. SavingAt(t)'
  BY <1>2, <1>3, <1>6, <1>7 DEF SavingAt
<1>9. pc'[t] \in Writing
  BY <1>2 DEF Writing
<1> QED BY <1>0, <1>2, <1>3, <1>6, <1>8, <1>9, StoreWhenSaving

LEMMA SaverErases ==
  ASSUME KnownInv, Disciplined, WhoInv', NEW t \in Task,
         job[t].op \in SaveOp, ErasePartition(t)
  PROVE  StoreInv'
<1> pc[t] \in Writing /\ WhoInv /\ ResetsAlone
  BY DEF ErasePartition, Writing, KnownInv, Disciplined
<1>n. PICK n \in Partition : n = job[t].addr
  BY SaverHolds
<1>0. /\ lock = t /\ t \in Proc /\ 1 - n \in Partition /\ 1 - n # n
      /\ \A q \in Proc : q # t => pc[q] \notin Writing \cup {"scan", "rescan"}
  BY SaverHolds DEF Partition
<1>1. /\ pc'[t] = "program" /\ \A q \in Proc : q # t => pc'[q] = pc[q]
      /\ flash'[n] = Damaged /\ flash'[1 - n] = flash[1 - n]
      /\ UNCHANGED <<fp, sram, lock, acked, prev, job>>
      /\ Replacing(t, n, Intended)
  BY <1>n, <1>0 DEF ErasePartition, Goto, KnownInv, StoreInv, SavingInv, SavingAt,
                    WhoInv, TypeInv, TypeOK
<1>2. Intended' = Intended
  BY <1>1 DEF Intended, SetValue
<1>3. Replacing(t, n, Intended)'
  BY <1>1, <1>2 DEF Replacing, Intact
<1>4. ShapeInv' /\ CountInv'
  BY <1>0, <1>1 DEF ShapeInv, CountInv, Intact, KnownInv, StoreInv, Partition
<1>5. SavingAt(t)'
  BY <1>n, <1>1, <1>3 DEF SavingAt
<1>6. pc'[t] \in Writing
  BY <1>1 DEF Writing
<1> QED BY <1>0, <1>1, <1>4, <1>5, <1>6, StoreWhenSaving

(* The count a save programs is above 1, unless the counters wrap.         *)
LEMMA SavedCount ==
  ASSUME TypeOK, TypeOK', NEW n \in Partition, CountInv,
         Intact(1 - n), flash'[1 - n] = flash[1 - n], Valid(flash'[n]),
         Succ(flash[1 - n].count) = flash'[n].count, ~Straddle'
  PROVE  flash'[n].count > 1
<1>0. 1 - n \in Partition /\ n \in {0, 1} /\ flash[1 - n] # Damaged
  BY DEF Partition, Intact, Valid
<1>1. flash[1 - n].count \in Count /\ flash[1 - n].count > 0
  BY <1>0, IntactType DEF CountInv, Intact
<1>2. CASE flash[1 - n].count < CountModulus - 1
  BY <1>1, <1>2, SuccCases DEF Count
<1>3. CASE flash[1 - n].count = CountModulus - 1
  <2>1. flash'[n].count = 0 /\ Valid(flash'[1 - n])
    BY <1>1, <1>3, SuccCases DEF Intact
  <2> QED BY <1>0, <1>3, <2>1 DEF Straddle
<1> QED BY <1>1, <1>2, <1>3, ConstantsTyped DEF Count

LEMMA SaverPrograms ==
  ASSUME KnownInv, Disciplined, WhoInv', ~Straddle', NEW t \in Task,
         job[t].op \in SaveOp, ProgramPartition(t)
  PROVE  StoreInv'
<1> pc[t] \in Writing /\ WhoInv /\ ResetsAlone
  BY DEF ProgramPartition, Writing, KnownInv, Disciplined
<1>n. PICK n \in Partition : n = job[t].addr
  BY SaverHolds
<1>0. /\ lock = t /\ t \in Proc /\ 1 - n \in Partition /\ 1 - n # n
      /\ \A q \in Proc : q # t => pc[q] \notin Writing \cup {"scan", "rescan"}
  BY SaverHolds DEF Partition
<1>1. /\ pc'[t] = "verify" /\ \A q \in Proc : q # t => pc'[q] = pc[q]
      /\ flash'[n] = fp /\ flash'[1 - n] = flash[1 - n]
      /\ UNCHANGED <<fp, sram, lock, acked, prev, job>>
      /\ Replacing(t, n, Intended)
  BY <1>n, <1>0 DEF ProgramPartition, Goto, KnownInv, StoreInv, SavingInv, SavingAt,
                    WhoInv, TypeInv, TypeOK
<1>2. Intended' = Intended
  BY <1>1 DEF Intended, SetValue
<1>3. Replacing(t, n, Intended)'
  BY <1>1, <1>2 DEF Replacing, Intact
<1>4. Intact(n)' /\ Intact(1 - n)'
  <2>1. fp = Sealed(fp.count, Intended, n) /\ fp.params = Intended
    BY <1>1 DEF Replacing, Sealed
  <2>2. Valid(fp) /\ fp.pnum = n
    BY <2>1, SealedValid DEF WhoInv, TypeInv, TypeOK, FlashParam
  <2> QED BY <1>1, <1>3, <2>2 DEF Intact, Replacing
<1>5. flash'[n].count > 1
  BY <1>1, <1>4, SavedCount DEF Intact, Replacing, WhoInv, TypeInv, KnownInv, StoreInv
<1>6. ShapeInv' /\ CountInv'
  <2>1. flash'[n].count \in Int
    BY <1>4, IntactType, ConstantsTyped DEF Intact, WhoInv, TypeInv, TypeOK, Valid, FlashParam, Count
  <2>2. /\ flash'[n].count > 0 /\ (flash'[n].count = 1 => flash'[n].params = Factory)
    BY <1>5, <2>1
  <2>3. ShapeInv'
    BY <1>0, <1>4 DEF ShapeInv, Partition
  <2>4. CountInv'
    BY <1>0, <1>1, <2>2 DEF CountInv, KnownInv, StoreInv, Partition
  <2> QED BY <2>3, <2>4
<1>7. SavingAt(t)'
  BY <1>n, <1>1, <1>3 DEF SavingAt
<1>8. pc'[t] \in Writing
  BY <1>1 DEF Writing
<1> QED BY <1>0, <1>1, <1>6, <1>7, <1>8, StoreWhenSaving

LEMMA SaverVerifies ==
  ASSUME KnownInv, Disciplined, WhoInv', NEW t \in Task,
         job[t].op \in SaveOp, VerifyPartition(t)
  PROVE  StoreInv'
<1> pc[t] \in Writing /\ WhoInv /\ ResetsAlone
  BY DEF VerifyPartition, Writing, KnownInv, Disciplined
<1>n. PICK n \in Partition : n = job[t].addr
  BY SaverHolds
<1>0. /\ lock = t /\ t \in Proc /\ 1 - n \in Partition /\ 1 - n # n
      /\ \A q \in Proc : q # t => pc[q] \notin Writing \cup {"scan", "rescan"}
  BY SaverHolds DEF Partition
<1>1. Replacing(t, n, Intended) /\ flash[n] = fp /\ UNCHANGED flash
  BY <1>n DEF VerifyPartition, KnownInv, StoreInv, SavingInv, SavingAt
<1>2. fp = Sealed(fp.count, Intended, n) /\ fp.params = Intended /\ fp.pnum = n
  BY <1>1 DEF Replacing, Sealed
<1>3. /\ Return(t, "OK") /\ UNCHANGED fp
      /\ Report(IF job[t].op = "set" THEN [acked EXCEPT ![job[t].id] = SetValue(t)]
                ELSE [f \in Field |-> IF job[t].id \in {f, All} THEN sram[f] ELSE acked[f]])
  BY <1>1, <1>2 DEF VerifyPartition, Continue, SaveOp
<1>4. acked' = Intended /\ prev' = acked
  BY <1>0, <1>3 DEF Report, Intended, SetValue, SaveOp
<1>5. pc'[t] = "idle" /\ \A q \in Proc : q # t => pc'[q] = pc[q]
  BY <1>0, <1>3 DEF Return, Goto, WhoInv, TypeInv, TypeOK
<1>6. Quiet'
  BY <1>0, <1>5 DEF Quiet, Writing
<1>7. Intact(n)' /\ Intact(1 - n)'
  <2>1. Valid(fp)
    BY <1>2, SealedValid DEF WhoInv, TypeInv, TypeOK, FlashParam
  <2> QED BY <1>1, <1>2, <2>1 DEF Intact, Replacing
<1>8. InUse' /\ fp'.params = acked'
  BY <1>1, <1>2, <1>3, <1>4, <1>7 DEF InUse, Holds, Known, Replacing
<1>9. ShapeInv' /\ CountInv'
  BY <1>1 DEF ShapeInv, CountInv, Intact, KnownInv, StoreInv
<1> QED BY <1>6, <1>8, <1>9, StoreWhenQuiet

(* A call that found the lock free.                                        *)
LEMMA StoreEnters ==
  ASSUME KnownInv, Disciplined, WhoInv', NEW t \in Task, SetEnter(t) \/ SyncEnter(t)
  PROVE  StoreInv'
<1> WhoInv /\ ResetsAlone
  BY DEF KnownInv, Disciplined
<1>0. /\ pc[t] = "enter" /\ lock = NoProc /\ t \in Proc /\ job[t].op \in SaveOp
  BY BootIsProc DEF SetEnter, SyncEnter, SaveOp
<1>1. Quiet
  BY <1>0, QuietWhenFree
<1>2. InUse /\ fp.params = acked
  BY <1>1 DEF KnownInv, StoreInv, QuietInv
<1>3. UNCHANGED <<flash, fp, acked, prev>>
  BY <1>2 DEF SetEnter, SyncEnter
<1>4. InUse' /\ (fp.params = acked)' /\ ShapeInv' /\ CountInv'
  BY <1>2, <1>3 DEF InUse, Holds, Intact, Known, ShapeInv, CountInv, KnownInv, StoreInv
<1>5. CASE Return(t, "OK")
  <2>1. pc'[t] = "idle" /\ \A q \in Proc : q # t => pc'[q] = pc[q]
    BY <1>0, <1>5 DEF Return, Goto, WhoInv, TypeInv, TypeOK
  <2>2. Quiet'
    BY <1>1, <2>1 DEF Quiet, Writing
  <2> QED BY <1>4, <2>2, StoreWhenQuiet
<1>6. CASE Goto(t, "copy") /\ UNCHANGED job
  <2>1. pc'[t] = "copy" /\ \A q \in Proc : q # t => pc'[q] = pc[q]
    BY <1>0, <1>6 DEF Goto, WhoInv, TypeInv, TypeOK
  <2>2. /\ pc'[t] \in Writing /\ job'[t].op \in SaveOp
        /\ \A q \in Proc : q # t => pc'[q] \notin Writing \cup {"scan", "rescan"}
    BY <1>0, <1>1, <1>6, <2>1 DEF Writing, Quiet
  <2>3. SavingAt(t)'
    BY <1>4, <2>1 DEF SavingAt
  <2> QED BY <1>4, <2>2, <2>3, StoreWhenSaving
<1> QED BY <1>5, <1>6 DEF SetEnter, SyncEnter

-----------------------------------------------------------------------------
(* A task that resets to factory settings.                                 *)

LEMMA ResetterAlone ==
  ASSUME KnownInv, Disciplined, NEW t \in Task, pc[t] \in Writing, job[t].op \in ResetOp
  PROVE  /\ t \in Proc /\ job[t].id = All /\ lock # t
         /\ job[t] \in Job /\ ResetTarget(job[t].op) \in Partition
         /\ \A q \in Proc : q # t => pc[q] \notin Writing \cup {"scan", "rescan"}
         /\ ResettingAt(t, ResetTarget(job[t].op))
<1>1. WhoInv /\ ResetsAlone /\ t \in Proc
  BY BootIsProc DEF KnownInv, Disciplined
<1>2. \A q \in Proc : q # t => pc[q] \notin Writing \cup {"scan", "rescan"}
  BY <1>1, OnlyWriter
<1>3. job[t] \in Job /\ ResetTarget(job[t].op) \in Partition
  BY <1>1 DEF WhoInv, TypeInv, TypeOK, ResetTarget, Partition
<1>4. job[t].id = All /\ lock # t
  BY <1>1 DEF WhoInv, CallInv, CallAt, ResetOp, SaveOp
<1> QED BY <1>1, <1>2, <1>3, <1>4 DEF KnownInv, StoreInv, ResettingInv

LEMMA ResetterStarts ==
  ASSUME KnownInv, ResetsAlone', WhoInv', NEW t \in ResetTask, ResetCall(t)
  PROVE  StoreInv'
<1>0. t \in Task /\ t \in Proc /\ WhoInv
  BY DEF Task, Proc, KnownInv
<1>1. /\ pc'[t] = "copy" /\ job'[t] = JobOf("reset0") /\ pc[t] = "idle"
      /\ \A q \in Proc : q # t => pc'[q] = pc[q] /\ job'[q] = job[q]
      /\ sram' = Factory /\ UNCHANGED <<flash, fp, acked, prev>>
  BY <1>0 DEF ResetCall, Start, Goto, WhoInv, TypeInv, TypeOK
<1>2. job'[t].op = "reset0"
  BY <1>1 DEF JobOf
<1>3. \A q \in Proc : q # t => pc'[q] = "idle"
  BY <1>0, <1>2 DEF ResetsAlone, ResetOp
<1>4. InUse
  <2>1. Quiet
    BY <1>1, <1>3 DEF Quiet, Writing
  <2> QED BY <2>1 DEF KnownInv, StoreInv, QuietInv
<1>5. fp.pnum = 0 \/ fp.pnum = 1
  BY <1>0 DEF WhoInv, TypeInv, TypeOK, FlashParam, Partition
<1>6. /\ Intact(0) /\ Intact(1) /\ Known(0) /\ Known(1)
      /\ flash[0].params = acked \/ flash[1].params = acked
  BY <1>4, <1>5 DEF InUse, Holds, Known
<1>7. ResettingAt(t, 0)'
  BY <1>1, <1>6 DEF ResettingAt, Intact, Known
<1>8. ResettingAt(t, ResetTarget(job[t].op))'
  BY <1>2, <1>7 DEF ResetTarget
<1>9. ShapeInv' /\ CountInv'
  BY <1>1 DEF ShapeInv, CountInv, Intact, KnownInv, StoreInv
<1>10. /\ pc'[t] \in Writing /\ job'[t].op \in ResetOp
       /\ \A q \in Proc : q # t => pc'[q] \notin Writing \cup {"scan", "rescan"}
  BY <1>1, <1>2, <1>3 DEF Writing, ResetOp
<1> QED BY <1>0, <1>8, <1>9, <1>10, StoreWhenResetting

LEMMA ResetterCopies ==
  ASSUME KnownInv, Disciplined, WhoInv', NEW t \in Task,
         job[t].op \in ResetOp, CopyFields(t)
  PROVE  StoreInv'
<1> pc[t] \in Writing /\ WhoInv
  BY DEF CopyFields, Writing, KnownInv
<1>n. PICK n \in Partition : n = ResetTarget(job[t].op)
  BY ResetterAlone
<1>0. /\ t \in Proc /\ job[t].id = All /\ ResettingAt(t, n) /\ pc[t] = "copy"
      /\ \A q \in Proc : q # t => pc[q] \notin Writing \cup {"scan", "rescan"}
  BY <1>n, ResetterAlone DEF CopyFields
<1>1. /\ pc'[t] = "seal" /\ \A q \in Proc : q # t => pc'[q] = pc[q]
      /\ UNCHANGED <<flash, sram, lock, job, acked, prev>>
  BY <1>0 DEF CopyFields, Goto, WhoInv, TypeInv, TypeOK
<1>2. fp'.params = sram
  BY <1>0 DEF CopyFields, CopiedFields, WhoInv, TypeInv, TypeOK, FlashParam, Params
<1>3. ResettingAt(t, n)'
  BY <1>0, <1>1, <1>2 DEF ResettingAt, Intact, Known
<1>4. ShapeInv' /\ CountInv'
  BY <1>1 DEF ShapeInv, CountInv, Intact, KnownInv, StoreInv
<1>5. pc'[t] \in Writing /\ ResettingAt(t, ResetTarget(job[t].op))'
  BY <1>n, <1>1, <1>3 DEF Writing
<1> QED BY <1>0, <1>1, <1>4, <1>5, StoreWhenResetting

LEMMA ResetterSeals ==
  ASSUME KnownInv, Disciplined, WhoInv', NEW t \in Task,
         job[t].op \in ResetOp, SealHeader(t)
  PROVE  StoreInv'
<1> pc[t] \in Writing /\ WhoInv
  BY DEF SealHeader, Writing, KnownInv
<1>n. PICK n \in Partition : n = ResetTarget(job[t].op)
  BY ResetterAlone
<1>0. /\ t \in Proc /\ job[t] \in Job /\ ResettingAt(t, n) /\ pc[t] = "seal"
      /\ \A q \in Proc : q # t => pc[q] \notin Writing \cup {"scan", "rescan"}
  BY <1>n, ResetterAlone DEF SealHeader
<1>1. TargetOf(job[t].op, fp.pnum) = n /\ NextCount(job[t].op, fp.count) = 1
  BY <1>n DEF TargetOf, NextCount, FixedCount, ResetOp, ResetTarget
<1>2. /\ pc'[t] = "erase" /\ \A q \in Proc : q # t => pc'[q] = pc[q]
      /\ fp' = Sealed(1, Factory, n)
      /\ job' = [job EXCEPT ![t].addr = n]
      /\ UNCHANGED <<flash, sram, lock, acked, prev>>
  BY <1>0, <1>1 DEF SealHeader, Goto, ResettingAt, WhoInv, TypeInv, TypeOK
<1>3. job'[t].addr = n /\ job'[t].op = job[t].op
  BY <1>0, <1>2 DEF WhoInv, TypeInv, TypeOK, Job
<1>4. ResettingAt(t, n)'
  BY <1>0, <1>2, <1>3 DEF ResettingAt, Intact, Known
<1>5. ShapeInv' /\ CountInv'
  BY <1>2 DEF ShapeInv, CountInv, Intact, KnownInv, StoreInv
<1>6. /\ pc'[t] \in Writing /\ ResettingAt(t, ResetTarget(job[t].op))'
      /\ job'[t].op \in ResetOp
  BY <1>n, <1>2, <1>3, <1>4 DEF Writing
<1> QED BY <1>0, <1>2, <1>5, <1>6, StoreWhenResetting

LEMMA ResetterErases ==
  ASSUME KnownInv, Disciplined, WhoInv', NEW t \in Task,
         job[t].op \in ResetOp, ErasePartition(t)
  PROVE  StoreInv'
<1> pc[t] \in Writing /\ WhoInv
  BY DEF ErasePartition, Writing, KnownInv
<1>n. PICK n \in Partition : n = ResetTarget(job[t].op)
  BY ResetterAlone
<1>0. /\ t \in Proc /\ ResettingAt(t, n) /\ pc[t] = "erase" /\ job[t].addr = n
      /\ 1 - n \in Partition /\ 1 - n # n
      /\ \A q \in Proc : q # t => pc[q] \notin Writing \cup {"scan", "rescan"}
  BY <1>n, ResetterAlone DEF ErasePartition, ResettingAt, Partition
<1>1. /\ pc'[t] = "program" /\ \A q \in Proc : q # t => pc'[q] = pc[q]
      /\ flash'[n] = Damaged /\ flash'[1 - n] = flash[1 - n]
      /\ UNCHANGED <<fp, sram, lock, job, acked, prev>>
  BY <1>0 DEF ErasePartition, Goto, WhoInv, TypeInv, TypeOK
<1>2. ResettingAt(t, n)'
  BY <1>0, <1>1 DEF ResettingAt, Intact, Known, Partition
<1>3. ShapeInv' /\ CountInv'
  BY <1>0, <1>1 DEF ShapeInv, CountInv, Intact, KnownInv, StoreInv, Partition
<1>4. pc'[t] \in Writing /\ ResettingAt(t, ResetTarget(job[t].op))'
  BY <1>n, <1>1, <1>2 DEF Writing
<1> QED BY <1>0, <1>1, <1>3, <1>4, StoreWhenResetting

(* The image of the factory table.                                         *)
LEMMA FactorySealed ==
  ASSUME NEW n \in Partition
  PROVE  /\ Valid(Sealed(1, Factory, n)) /\ Sealed(1, Factory, n) # Damaged
         /\ Sealed(1, Factory, n).pnum = n /\ Sealed(1, Factory, n).count = 1
         /\ Sealed(1, Factory, n).params = Factory
BY SealedValid, ConstantsInType, ConstantsTyped DEF Valid

LEMMA ResetterPrograms ==
  ASSUME KnownInv, Disciplined, WhoInv', NEW t \in Task,
         job[t].op \in ResetOp, ProgramPartition(t)
  PROVE  StoreInv'
<1> pc[t] \in Writing /\ WhoInv
  BY DEF ProgramPartition, Writing, KnownInv
<1>n. PICK n \in Partition : n = ResetTarget(job[t].op)
  BY ResetterAlone
<1>0. /\ t \in Proc /\ ResettingAt(t, n) /\ pc[t] = "program" /\ job[t].addr = n
      /\ 1 - n \in Partition /\ 1 - n # n /\ fp = Sealed(1, Factory, n)
      /\ \A q \in Proc : q # t => pc[q] \notin Writing \cup {"scan", "rescan"}
  BY <1>n, ResetterAlone DEF ProgramPartition, ResettingAt, Partition
<1>1. /\ pc'[t] = "verify" /\ \A q \in Proc : q # t => pc'[q] = pc[q]
      /\ flash'[n] = fp /\ flash'[1 - n] = flash[1 - n]
      /\ UNCHANGED <<fp, sram, lock, job, acked, prev>>
  BY <1>0 DEF ProgramPartition, Goto, WhoInv, TypeInv, TypeOK
<1>2. ResettingAt(t, n)'
  BY <1>0, <1>1 DEF ResettingAt, Intact, Known, Partition
<1>3. /\ Valid(flash'[n]) /\ flash'[n].pnum = n /\ flash'[n].count = 1
      /\ flash'[n].params = Factory
  BY <1>0, <1>1, FactorySealed
<1>4. ShapeInv' /\ CountInv'
  <2>1. ShapeInv'
    BY <1>0, <1>1, <1>3 DEF ShapeInv, Intact, KnownInv, StoreInv, Partition
  <2>2. CountInv'
    BY <1>0, <1>1, <1>3 DEF CountInv, KnownInv, StoreInv, Partition
  <2> QED BY <2>1, <2>2
<1>5. pc'[t] \in Writing /\ ResettingAt(t, ResetTarget(job[t].op))'
  BY <1>n, <1>1, <1>2 DEF Writing
<1> QED BY <1>0, <1>1, <1>4, <1>5, StoreWhenResetting

LEMMA ResetterVerifies ==
  ASSUME KnownInv, Disciplined, WhoInv', NEW t \in Task,
         job[t].op \in ResetOp, VerifyPartition(t)
  PROVE  StoreInv'
<1> pc[t] \in Writing /\ WhoInv
  BY DEF VerifyPartition, Writing, KnownInv
<1>n. PICK n \in Partition : n = ResetTarget(job[t].op)
  BY ResetterAlone
<1>0. /\ t \in Proc /\ job[t] \in Job /\ ResettingAt(t, n) /\ pc[t] = "verify"
      /\ fp = Sealed(1, Factory, n) /\ flash[n] = fp /\ UNCHANGED <<flash, sram>>
      /\ \A q \in Proc : q # t => pc[q] \notin Writing \cup {"scan", "rescan"}
  BY <1>n, ResetterAlone DEF VerifyPartition, ResettingAt
<1>1. fp.pnum = n /\ fp.params = Factory /\ fp.count = 1 /\ Continue(t, "OK")
  BY <1>0, FactorySealed DEF VerifyPartition
<1>2. ShapeInv' /\ CountInv'
  BY <1>0 DEF ShapeInv, CountInv, Intact, KnownInv, StoreInv
<1>3. CASE job[t].op = "reset0"
  <2>1. n = 0
    BY <1>n, <1>3 DEF ResetTarget
  <2>2. /\ job' = [job EXCEPT ![t].op = "reset1"] /\ Goto(t, "copy")
        /\ UNCHANGED <<fp, acked, prev>>
    BY <1>1, <1>3 DEF Continue
  <2>3. /\ job'[t].op = "reset1" /\ pc'[t] = "copy"
        /\ \A q \in Proc : q # t => pc'[q] = pc[q]
    BY <1>0, <2>2 DEF Goto, WhoInv, TypeInv, TypeOK, Job
  <2>4. ResettingAt(t, 1)'
    BY <1>0, <2>1, <2>2, <2>3 DEF ResettingAt, Intact, Known
  <2>5. ResettingAt(t, ResetTarget(job[t].op))'
    BY <2>3, <2>4 DEF ResetTarget
  <2>6. pc'[t] \in Writing /\ job'[t].op \in ResetOp
    BY <2>3 DEF Writing, ResetOp
  <2> QED BY <1>0, <1>2, <2>3, <2>5, <2>6, StoreWhenResetting
<1>4. CASE job[t].op = "reset1"
  <2>1. n = 1
    BY <1>n, <1>4 DEF ResetTarget
  <2>2. fp' = [fp EXCEPT !.magic = FALSE] /\ Return(t, "OK") /\ Report(Factory)
    BY <1>1, <1>4 DEF Continue
  <2>3. pc'[t] = "idle" /\ \A q \in Proc : q # t => pc'[q] = pc[q]
    BY <1>0, <2>2 DEF Return, Goto, WhoInv, TypeInv, TypeOK
  <2>4. Quiet'
    BY <1>0, <2>3 DEF Quiet, Writing
  <2>5. acked' = Factory /\ fp'.pnum = 1 /\ fp'.params = Factory /\ fp'.count = 1
    BY <1>1, <2>1, <2>2 DEF Report, WhoInv, TypeInv, TypeOK, FlashParam
  <2>6. flash'[0] = Sealed(1, Factory, 0) /\ flash'[1] = Sealed(1, Factory, 1)
    BY <1>0, <2>1 DEF ResettingAt
  <2>7. /\ Intact(0)' /\ Intact(1)' /\ flash'[0].params = Factory
        /\ flash'[1].params = Factory /\ flash'[1].count = 1
    BY <2>6, FactorySealed DEF Intact, Partition
  <2>8. InUse' /\ (fp.params = acked)'
    BY <2>5, <2>7 DEF InUse, Holds, Known
  <2> QED BY <1>2, <2>4, <2>8, StoreWhenQuiet
<1> QED BY <1>3, <1>4 DEF ResetOp

-----------------------------------------------------------------------------
(* tls_param_init.  While it writes, nothing tells this behaviour from an  *)
(* undisturbed one, and the lemmas about those apply.                      *)

LEMMA BootUndisturbed ==
  ASSUME KnownInv, pc[Boot] \in Writing
  PROVE  IInv
<1>0. /\ Boot \notin Task /\ NoProc \notin Proc /\ Boot \in Proc /\ Task \subseteq Proc
      /\ pc[Boot] # "idle"
  BY ConstantsDistinct DEF Proc, Writing
<1>1. /\ lock = Boot /\ updp = FALSE
      /\ \A t \in Task : pc[t] = "idle" /\ job[t] = NoJob
  BY <1>0 DEF KnownInv, WhoInv, StartInv
<1>2. NoJob.op = "none" /\ NoJob.touser = FALSE
  BY DEF NoJob, JobOf
<1>3. JobInv
  BY <1>1, <1>2 DEF JobInv, Writing
<1>4. LockInv
  BY <1>0, <1>1 DEF LockInv, Writing
<1>5. IdleInv /\ UpdateInv
  BY <1>0, <1>1 DEF IdleInv, UpdateInv
<1>6. PairInv
  <2>0. job[Boot].op \in BootOp
    BY DEF KnownInv, WhoInv, BootInv
  <2>d. ~Valid(Damaged)
    BY DEF Valid
  <2>1. CASE job[Boot].op = "init0"
    BY <2>1, <2>d DEF KnownInv, StoreInv, InitInv, PairInv
  <2>2. CASE job[Boot].op = "init1"
    <3>1. flash[0] = Sealed(1, Factory, 0)
      BY <2>2 DEF KnownInv, StoreInv, InitInv
    <3>2. flash[1] = Damaged \/ flash[1] = Sealed(1, Factory, 1)
      BY <2>2 DEF KnownInv, StoreInv, InitInv, Writing
    <3> QED BY <2>d, <3>1, <3>2, FactorySealed DEF PairInv, Partition
  <2>3. CASE job[Boot].op \in {"restore0", "restore1"}
    <3>n. PICK n \in Partition : n = IF job[Boot].op = "restore0" THEN 0 ELSE 1
      BY DEF Partition
    <3>1. \/ flash[n] = Damaged
          \/ flash[n] = fp /\ Replacing(Boot, n, acked)
      BY <2>3, <3>n DEF KnownInv, StoreInv, RestoreInv, Writing
    <3> QED BY <2>d, <3>1 DEF PairInv, Replacing, Partition
  <2> QED BY <2>0, <2>1, <2>2, <2>3 DEF BootOp
<1> QED BY <1>3, <1>4, <1>5, <1>6
        DEF IInv, ControlInv, DataInv, KnownInv, WhoInv, StoreInv

LEMMA BootCopyKnown ==
  ASSUME KnownInv, WhoInv', CopyFields(Boot) \/ SealHeader(Boot) \/ ErasePartition(Boot)
  PROVE  StoreInv'
<1>0. pc[Boot] \in Writing /\ Boot \in Proc /\ WhoInv
  BY BootIsProc DEF CopyFields, SealHeader, ErasePartition, Writing, KnownInv
<1>1. DataInv'
  BY <1>0, BootUndisturbed, DataBootCopy, DataBootSeal, DataBootErase
<1>2. pc'[Boot] \in Writing
  BY <1>0 DEF CopyFields, SealHeader, ErasePartition, Goto, WhoInv, TypeInv, TypeOK, Writing
<1>3. CountInv'
  BY <1>0 DEF CopyFields, SealHeader, ErasePartition, CountInv, KnownInv, StoreInv,
              WhoInv, TypeInv, TypeOK
<1>4. ScanKnown' /\ pc'[Boot] # "idle"
  BY <1>2 DEF ScanKnown, Writing
<1> QED BY <1>1, <1>2, <1>3, <1>4, StoreWhenBooting DEF DataInv

LEMMA BootProgramKnown ==
  ASSUME KnownInv, WhoInv', ~Straddle', ProgramPartition(Boot)
  PROVE  StoreInv'
<1>0. pc[Boot] = "program" /\ pc[Boot] \in Writing /\ Boot \in Proc /\ WhoInv
  BY BootIsProc DEF ProgramPartition, Writing, KnownInv
<1>1. DataInv'
  BY <1>0, BootUndisturbed, DataBootProgram
<1>2. pc'[Boot] \in Writing
  BY <1>0 DEF ProgramPartition, Goto, WhoInv, TypeInv, TypeOK, Writing
<1>3. job[Boot].op \in BootOp
  BY <1>0 DEF WhoInv, BootInv
<1>4. CountInv'
  <2>n. PICK n \in Partition : n = Target(job[Boot].op)
    BY DEF Target, Partition
  <2>0. 1 - n \in Partition /\ 1 - n # n
    BY DEF Partition
  <2>1. job[Boot].addr = n
    BY <1>0, <1>3, <2>n DEF KnownInv, StoreInv, InitInv, RestoreInv, Replacing, Target, BootOp
  <2>2. flash'[n] = fp /\ flash'[1 - n] = flash[1 - n]
    BY <2>0, <2>1 DEF ProgramPartition, WhoInv, TypeInv, TypeOK
  <2>3. fp.count > 0 /\ (fp.count = 1 => fp.params = Factory)
    <3>1. CASE job[Boot].op \in {"init0", "init1"}
      <4>1. fp = Sealed(1, Factory, n)
        BY <1>0, <2>n, <3>1 DEF KnownInv, StoreInv, InitInv, Target
      <4> QED BY <4>1, FactorySealed
    <3>2. CASE job[Boot].op \in {"restore0", "restore1"}
      <4>1. Replacing(Boot, n, acked)
        BY <1>0, <2>n, <3>2 DEF KnownInv, StoreInv, RestoreInv, Target
      <4>2. fp.count \in Count /\ acked \in Params
        BY <1>0 DEF WhoInv, TypeInv, TypeOK, FlashParam
      <4>3. Valid(fp)
        BY <4>1, <4>2, SealedValid DEF Replacing
      <4>4. flash'[n].count > 1
        BY <2>2, <4>1, <4>3, SavedCount DEF Replacing, WhoInv, TypeInv, KnownInv, StoreInv
      <4> QED BY <2>2, <4>2, <4>4, ConstantsTyped DEF Count
    <3> QED BY <1>3, <3>1, <3>2 DEF BootOp
  <2> QED BY <2>0, <2>2, <2>3 DEF CountInv, KnownInv, StoreInv, Partition
<1>5. ScanKnown' /\ pc'[Boot] # "idle"
  BY <1>2 DEF ScanKnown, Writing
<1> QED BY <1>1, <1>2, <1>4, <1>5, StoreWhenBooting DEF DataInv

LEMMA BootVerifyKnown ==
  ASSUME KnownInv, WhoInv', VerifyPartition(Boot)
  PROVE  StoreInv'
<1>0. /\ pc[Boot] = "verify" /\ pc[Boot] \in Writing /\ Boot \in Proc /\ WhoInv
      /\ UNCHANGED flash /\ lock = Boot
      /\ \A t \in Task : pc[t] = "idle"
  BY BootIsProc DEF VerifyPartition, Writing, KnownInv, WhoInv, StartInv
<1>1. DataInv'
  BY <1>0, BootUndisturbed, DataBootVerify
<1>2. CountInv'
  BY <1>0 DEF CountInv, KnownInv, StoreInv
<1>3. job[Boot].op \in BootOp
  BY <1>0 DEF WhoInv, BootInv
<1>4. Continue(Boot, "OK")
  <2>n. PICK n \in Partition : n = Target(job[Boot].op)
    BY DEF Target, Partition
  <2>1. flash[n] = fp
    BY <1>0, <1>3, <2>n DEF KnownInv, StoreInv, InitInv, RestoreInv, Target, BootOp
  <2>2. fp.pnum = n
    BY <1>0, <1>3, <2>n DEF KnownInv, StoreInv, InitInv, RestoreInv, Replacing,
                            Sealed, Target, BootOp
  <2> QED BY <2>1, <2>2 DEF VerifyPartition
<1>5. CASE Goto(Boot, "copy")
  <2>1. pc'[Boot] = "copy"
    BY <1>0, <1>5 DEF Goto, WhoInv, TypeInv, TypeOK
  <2>2. ScanKnown' /\ pc'[Boot] # "idle" /\ pc'[Boot] \in Writing
    BY <2>1 DEF ScanKnown, Writing
  <2> QED BY <1>1, <1>2, <2>2, StoreWhenBooting DEF DataInv
<1>6. CASE Return(Boot, "OK") /\ UNCHANGED acked /\ job[Boot].op # "init0"
  <2>1. lock' = NoProc /\ pc'[Boot] = "idle" /\ \A t \in Task : pc'[t] = "idle"
    BY <1>0, <1>6, BootIsProc, ConstantsDistinct DEF Return, Goto, WhoInv, TypeInv, TypeOK
  <2>2. Quiet'
    BY <2>1 DEF Quiet, Proc, Writing
  <2>3. Current' /\ (fp.params = acked)'
    BY <1>1, <2>1 DEF DataInv, IdleInv
  <2>4. flash[0].params = acked /\ flash[1].params = acked
    <3>1. CASE job[Boot].op = "init1"
      <4>1. acked = Factory /\ flash[0] = Sealed(1, Factory, 0)
              /\ flash[1] = Sealed(1, Factory, 1)
        BY <1>0, <3>1 DEF KnownInv, StoreInv, InitInv
      <4> QED BY <4>1, FactorySealed DEF Partition
    <3>2. CASE job[Boot].op \in {"restore0", "restore1"}
      <4>n. PICK n \in Partition : n = IF job[Boot].op = "restore0" THEN 0 ELSE 1
        BY DEF Partition
      <4>1. Replacing(Boot, n, acked) /\ flash[n] = fp
        BY <1>0, <3>2, <4>n DEF KnownInv, StoreInv, RestoreInv
      <4>2. fp.params = acked /\ flash[1 - n].params = acked
        BY <4>1 DEF Replacing, Sealed
      <4> QED BY <4>1, <4>2 DEF Partition
    <3> QED BY <1>3, <1>6, <3>1, <3>2 DEF BootOp
  <2>5. fp'.pnum \in Partition
    BY DEF WhoInv, TypeInv, TypeOK, FlashParam
  <2>6. flash'[fp'.pnum].params = acked' /\ flash'[1 - fp'.pnum].params = acked'
    BY <1>0, <1>6, <2>4, <2>5 DEF Partition
  <2>7. InUse'
    BY <2>3, <2>6 DEF Current, CurrentAt, InUse, Holds, Known
  <2> QED BY <1>1, <1>2, <2>2, <2>3, <2>7, StoreWhenQuiet DEF DataInv
<1> QED BY <1>3, <1>4, <1>5, <1>6 DEF Continue, BootOp

LEMMA ScanStoreKnown ==
  ASSUME KnownInv, WhoInv', BootScan
  PROVE  StoreInv'
<1> DEFINE seen == [i \in Partition |-> IF i \in {} THEN Damaged ELSE flash[i]]
           bad == {i \in Partition : ~Valid(seen[i])}
<1>0. /\ pc[Boot] \in {"scan", "rescan"} /\ BootParams = acked /\ Boot \in Proc
      /\ \A t \in Task : pc[t] = "idle"
      /\ UNCHANGED <<flash, acked, prev>> /\ WhoInv
      /\ \A i \in Partition : flash[i] # Damaged => Known(i)
  BY BootIsProc
  DEF BootScan, Scan, KnownInv, WhoInv, StartInv, StoreInv, ScanInv, ScanKnown
<1>1. seen = flash
  BY <1>0 DEF WhoInv, TypeInv, TypeOK
<1>2. ShapeInv' /\ CountInv' /\ ShapeInv
  BY <1>0 DEF ShapeInv, CountInv, Intact, KnownInv, StoreInv
<1>4. CASE bad = Partition /\ Goto(Boot, "rescan")
  <2>1. pc'[Boot] = "rescan"
    BY <1>0, <1>4 DEF Goto, WhoInv, TypeInv, TypeOK
  <2>2. flash[0] = Damaged /\ flash[1] = Damaged
    BY <1>1, <1>2, <1>4 DEF ShapeInv, Intact, Partition
  <2>3. ScanInv' /\ ScanKnown'
    BY <1>0, <2>1, <2>2 DEF ScanInv, ScanKnown, BootParams, Partition
  <2>4. InitInv' /\ RestoreInv'
    BY <2>1 DEF InitInv, RestoreInv, Writing
  <2> QED BY <1>2, <2>1, <2>3, <2>4, StoreWhenBooting
<1>5. CASE bad = Partition /\ sram' = Factory /\ Start(Boot, "init0", "copy")
  <2>1. pc'[Boot] = "copy" /\ job'[Boot].op = "init0"
    BY <1>0, <1>5 DEF Start, Goto, JobOf, WhoInv, TypeInv, TypeOK
  <2>2. flash[0] = Damaged /\ flash[1] = Damaged
    BY <1>1, <1>2, <1>5 DEF ShapeInv, Intact, Partition
  <2>3. acked = Factory
    BY <1>0, <2>2 DEF BootParams, Valid
  <2>4. InitInv' /\ RestoreInv' /\ ScanInv' /\ ScanKnown'
    BY <1>0, <1>5, <2>1, <2>2, <2>3 DEF InitInv, RestoreInv, ScanInv, ScanKnown
  <2>5. pc'[Boot] \in Writing
    BY <2>1 DEF Writing
  <2> QED BY <1>2, <2>1, <2>4, <2>5, StoreWhenBooting
<1>6. CASE /\ bad # Partition
           /\ fp' = seen[Newest(seen)] /\ sram' = seen[Newest(seen)].params
           /\ \/ bad = {} /\ Return(Boot, "OK")
              \/ \E i \in bad :
                   Start(Boot, IF i = 0 THEN "restore0" ELSE "restore1", "copy")
  <2>n. PICK n \in Partition : n = Newest(flash)
    BY NewestInPartition
  <2>0. 1 - n \in Partition /\ 1 - n # n
    BY DEF Partition
  <2>1. /\ fp' = flash[n] /\ sram' = flash[n].params /\ Valid(flash[n])
        /\ acked = flash[n].params
    BY <1>0, <1>1, <1>6, <2>n DEF Newest, BootParams, Partition
  <2>2. Intact(n) /\ flash[n] # Damaged
    BY <1>2, <2>1 DEF ShapeInv, Valid
  <2>3. CASE bad = {} /\ Return(Boot, "OK")
    <3>1. Valid(flash[1 - n]) /\ Intact(1 - n) /\ Known(1 - n)
      BY <1>0, <1>1, <1>2, <2>0, <2>3 DEF ShapeInv, Valid
    <3>2. Holds(n)'
      BY <1>0, <2>1, <2>2, <3>1 DEF Holds, Intact, Known
    <3>3. fp'.pnum = n
      BY <2>1, <2>2 DEF Intact
    <3>4. InUse' /\ (fp.params = acked)'
      BY <1>0, <2>1, <3>2, <3>3 DEF InUse
    <3>5. pc'[Boot] = "idle" /\ \A t \in Task : pc'[t] = "idle"
      BY <1>0, <2>3, BootIsProc, ConstantsDistinct DEF Return, Goto, WhoInv, TypeInv, TypeOK
    <3>6. Quiet'
      BY <3>5 DEF Quiet, Proc, Writing
    <3> QED BY <1>2, <3>4, <3>6, StoreWhenQuiet
  <2>4. ASSUME NEW i \in bad, Start(Boot, IF i = 0 THEN "restore0" ELSE "restore1", "copy")
        PROVE  StoreInv'
    <3>1. i \in Partition /\ ~Valid(flash[i]) /\ i = 1 - n /\ n = 1 - i
      BY <1>1, <2>0, <2>1 DEF Partition
    <3>2. flash[i] = Damaged
      BY <1>2, <3>1 DEF ShapeInv, Intact
    <3>3. /\ pc'[Boot] = "copy"
          /\ job'[Boot].op = IF i = 0 THEN "restore0" ELSE "restore1"
      BY <1>0, <2>4 DEF Start, Goto, JobOf, WhoInv, TypeInv, TypeOK
    <3>4. i = IF job'[Boot].op = "restore0" THEN 0 ELSE 1
      BY <3>1, <3>3 DEF Partition
    <3>5. Intact(n)' /\ Intact(1 - i)'
      BY <1>0, <2>2, <3>1 DEF Intact
    <3>6. RestoreInv'
      BY <1>0, <2>1, <3>1, <3>2, <3>3, <3>4, <3>5 DEF RestoreInv
    <3>7. InitInv' /\ ScanInv' /\ ScanKnown'
      BY <3>3 DEF InitInv, ScanInv, ScanKnown
    <3>8. pc'[Boot] \in Writing /\ pc'[Boot] # "idle"
      BY <3>3 DEF Writing
    <3> QED BY <1>2, <3>6, <3>7, <3>8, StoreWhenBooting
  <2> QED BY <1>6, <2>3, <2>4
<1> QED BY <1>4, <1>5, <1>6 DEF BootScan, Scan, AfterDamaged

-----------------------------------------------------------------------------
(* What the next boot would find, and what it leaves behind.               *)

LEMMA LoadedIsOneOf ==
  ASSUME NEW S, Factory \in S,
         \A i \in Partition : Valid(flash[i]) => flash[i].params \in S
  PROVE  BootParams \in S
<1>1. Newest(flash) \in Partition
        /\ (Valid(flash[0]) \/ Valid(flash[1]) => Valid(flash[Newest(flash)]))
  BY NewestInPartition DEF Newest
<1> QED BY <1>1 DEF BootParams

(* prev after a power loss.                                                *)
PrevAfter == IF BootParams = acked THEN prev ELSE acked
LeftKnown == \A i \in Partition : flash[i] # Damaged =>
                 flash[i].params \in {BootParams, PrevAfter} \/ flash[i].count = 1

LEMMA HeldIsKnown ==
  ASSUME KnownInv, NEW k \in Partition, Holds(k)
  PROVE  LosesAtMostOne /\ LeftKnown
<1>0. /\ Valid(flash[k]) /\ Valid(flash[1 - k]) /\ k \in {0, 1} /\ 1 - k \in Partition
      /\ flash[k] # Damaged /\ flash[1 - k] # Damaged
  BY DEF Holds, Intact, Partition, Valid
<1>1. BootParams \in {flash[k].params, flash[1 - k].params}
  BY <1>0 DEF BootParams, Newest
<1>2. flash[k].params = acked /\ Known(1 - k)
  BY DEF Holds
<1>3. BootParams \in {acked, prev}
  <2>1. CASE flash[1 - k].params \in {acked, prev}
    BY <1>1, <1>2, <2>1
  <2>2. CASE flash[1 - k].count = 1
    <3>0. flash[k].count \in Count /\ Count \subseteq Nat
      BY <1>0, IntactType DEF KnownInv, WhoInv, TypeInv, Count
    <3>1. flash[k].count \in Nat /\ flash[k].count > 0 /\ flash[1 - k].params = Factory
      BY <1>0, <2>2, <3>0 DEF KnownInv, StoreInv, CountInv
    <3>2. CASE flash[k].count = 1
      BY <1>0, <1>1, <1>2, <3>1, <3>2 DEF KnownInv, StoreInv, CountInv
    <3>3. CASE flash[k].count > 1
      BY <1>0, <1>2, <2>2, <3>1, <3>3 DEF BootParams, Newest
    <3> QED BY <3>1, <3>2, <3>3
  <2> QED BY <1>2, <2>1, <2>2 DEF Known
<1>4. LosesAtMostOne
  BY <1>0, <1>3 DEF LosesAtMostOne
<1>5. LeftKnown
  BY <1>0, <1>1, <1>2, <1>3 DEF LeftKnown, PrevAfter, Known, Partition
<1> QED BY <1>4, <1>5

LEMMA SavingIsKnown ==
  ASSUME KnownInv, ~Straddle, NEW t \in Task, job[t].op \in SaveOp,
         pc[t] \in {"program", "verify"}
  PROVE  LosesAtMostOne /\ LeftKnown
<1>n. PICK n \in Partition : n = job[t].addr
  BY BootIsProc DEF KnownInv, WhoInv, TypeInv, TypeOK, Job
<1>0. 1 - n \in Partition /\ n \in {0, 1} /\ TypeOK
  BY DEF Partition, KnownInv, WhoInv, TypeInv
<1>1. Replacing(t, n, Intended)
  BY <1>n DEF KnownInv, StoreInv, SavingInv, SavingAt
<1>2. Valid(flash[1 - n]) /\ flash[1 - n].params = acked
  BY <1>1 DEF Replacing, Intact
<1>3. CASE pc[t] = "program"
  <2>1. flash[n] = Damaged
    BY <1>n, <1>3 DEF KnownInv, StoreInv, SavingInv, SavingAt
  <2>2. BootParams = acked
    BY <1>2, <2>1, OnlyCopyIsLoaded
  <2> QED BY <1>0, <1>2, <2>1, <2>2 DEF LosesAtMostOne, LeftKnown, Partition
<1>4. CASE pc[t] = "verify"
  <2>1. flash[n] = fp
    BY <1>n, <1>4 DEF KnownInv, StoreInv, SavingInv, SavingAt
  <2>2. fp = Sealed(fp.count, Intended, n) /\ fp.params = Intended
    BY <1>1 DEF Replacing, Sealed
  <2>3. Valid(fp)
    BY <1>0, <2>2, SealedValid DEF TypeOK, FlashParam
  <2>4. BootParams = Intended
    BY <1>0, <1>1, <1>2, <2>1, <2>2, <2>3, SuccessorIsLoaded DEF Replacing
  <2> QED BY <1>0, <1>2, <2>1, <2>2, <2>4 DEF LosesAtMostOne, LeftKnown, PrevAfter, Partition
<1> QED BY <1>3, <1>4

LEMMA ResettingIsKnown ==
  ASSUME KnownInv, NEW t \in Task, job[t].op \in ResetOp, pc[t] \in Writing
  PROVE  LosesAtMostOne /\ LeftKnown
<1>n. PICK n \in Partition : n = ResetTarget(job[t].op)
  BY DEF ResetTarget, Partition
<1>0. TypeOK /\ ResettingAt(t, n)
  BY <1>n DEF KnownInv, WhoInv, TypeInv, StoreInv, ResettingInv
<1>d. ~Valid(Damaged)
  BY DEF Valid
<1>r. Resetting
  BY DEF Resetting, ResetOp
<1>1. CASE n = 0 /\ pc[t] \in {"copy", "seal", "erase"}
  <2>1. Holds(0) \/ Holds(1)
    BY <1>0, <1>1 DEF ResettingAt, Holds
  <2> QED BY <2>1, HeldIsKnown DEF Partition
<1>2. CASE n = 0 /\ pc[t] = "program"
  <2>1. flash[0] = Damaged /\ Valid(flash[1]) /\ Known(1)
    BY <1>0, <1>2 DEF ResettingAt, Intact
  <2>2. BootParams = flash[1].params
    BY <1>d, <2>1 DEF BootParams, Newest
  <2>3. flash[1].count = 1 => flash[1].params = Factory
    BY <1>d, <2>1 DEF KnownInv, StoreInv, CountInv, Partition
  <2> QED BY <1>r, <2>1, <2>2, <2>3 DEF LosesAtMostOne, LeftKnown, Known, Partition
<1>3. ASSUME flash[0] = Sealed(1, Factory, 0), Intact(1), Known(1)
      PROVE  LosesAtMostOne /\ LeftKnown
  <2>1. Valid(flash[0]) /\ flash[0].params = Factory /\ flash[0].count = 1
    BY <1>3, FactorySealed DEF Partition
  <2>2. Valid(flash[1]) /\ flash[1] # Damaged /\ flash[1].count \in Count
    BY <1>0, <1>3, IntactType DEF Intact, Valid, Partition
  <2>3. flash[1].count > 0 /\ (flash[1].count = 1 => flash[1].params = Factory)
    BY <2>2 DEF KnownInv, StoreInv, CountInv, Partition
  <2>4. BootParams = flash[1].params
    BY <2>1, <2>2, <2>3, ConstantsTyped DEF BootParams, Newest, Count
  <2> QED BY <1>3, <1>r, <2>1, <2>2, <2>3, <2>4
          DEF LosesAtMostOne, LeftKnown, Known, Partition
<1>4. CASE n = 0 /\ pc[t] = "verify"
  BY <1>0, <1>3, <1>4 DEF ResettingAt
<1>5. CASE n = 1 /\ pc[t] \in {"copy", "seal", "erase"}
  BY <1>0, <1>3, <1>5 DEF ResettingAt
<1>6. CASE n = 1 /\ pc[t] \in {"program", "verify"}
  <2>1. \A i \in Partition : Valid(flash[i]) \/ flash[i] # Damaged => flash[i].params = Factory
    BY <1>0, <1>6, <1>d, FactorySealed DEF ResettingAt, Partition
  <2>2. BootParams \in {Factory}
    BY <2>1, LoadedIsOneOf
  <2>3. Valid(flash[0])
    BY <1>0, <1>6, FactorySealed DEF ResettingAt, Partition
  <2> QED BY <1>r, <2>1, <2>2, <2>3 DEF LosesAtMostOne, LeftKnown
<1> QED BY <1>1, <1>2, <1>4, <1>5, <1>6 DEF Writing, Partition

LEMMA BootingIsKnown ==
  ASSUME KnownInv, ~Straddle, pc[Boot] # "idle"
  PROVE  LosesAtMostOne /\ LeftKnown
<1>0. pc[Boot] \in {"scan", "rescan"} \cup Writing
  BY DEF KnownInv, WhoInv, BootInv
<1>1. CASE pc[Boot] \in {"scan", "rescan"}
  BY <1>1 DEF KnownInv, StoreInv, ScanInv, ScanKnown, Known, LosesAtMostOne, LeftKnown,
              PrevAfter, Up
<1>2. CASE pc[Boot] \in Writing
  <2>1. BootParams = acked
    BY <1>2, BootUndisturbed, BootLoads
  <2>2. job[Boot].op \in BootOp
    BY <1>2 DEF KnownInv, WhoInv, BootInv
  <2>3. ASSUME NEW i \in Partition, flash[i] # Damaged
        PROVE  flash[i].params = acked
    <3>1. CASE job[Boot].op \in {"init0", "init1"}
      <4>1. flash[i] = Sealed(1, Factory, i) /\ acked = Factory
        BY <1>2, <2>3, <3>1 DEF KnownInv, StoreInv, InitInv, Partition, Writing
      <4> QED BY <4>1, FactorySealed
    <3>2. CASE job[Boot].op \in {"restore0", "restore1"}
      <4>n. PICK n \in Partition : n = IF job[Boot].op = "restore0" THEN 0 ELSE 1
        BY DEF Partition
      <4>1. /\ flash[1 - n].params = acked
            /\ flash[n] = Damaged \/ (flash[n] = fp /\ Replacing(Boot, n, acked))
        BY <1>2, <3>2, <4>n DEF KnownInv, StoreInv, RestoreInv, Writing
      <4> QED BY <2>3, <4>1 DEF Replacing, Sealed, Partition
    <3> QED BY <2>2, <3>1, <3>2 DEF BootOp
  <2> QED BY <2>1, <2>3 DEF LosesAtMostOne, LeftKnown, Up
<1> QED BY <1>0, <1>1, <1>2

LEMMA LossIsKnown ==
  ASSUME KnownInv, ~Straddle
  PROVE  LosesAtMostOne /\ LeftKnown
<1>0. Boot \in Proc /\ Task \subseteq Proc /\ Proc = Task \cup {Boot} /\ WhoInv
  BY BootIsProc DEF Proc, KnownInv
<1>p. fp.pnum \in Partition
  BY <1>0 DEF WhoInv, TypeInv, TypeOK, FlashParam
<1>1. CASE Quiet
  BY <1>p, <1>1, HeldIsKnown DEF KnownInv, StoreInv, QuietInv, InUse
<1>2. CASE pc[Boot] # "idle"
  BY <1>2, BootingIsKnown
<1>3. ASSUME NEW t \in Task, pc[t] \in Writing
      PROVE  LosesAtMostOne /\ LeftKnown
  <2>1. CASE job[t].op \in ResetOp
    BY <1>3, <2>1, ResettingIsKnown
  <2>2. CASE job[t].op \in SaveOp
    <3>1. SavingAt(t) /\ job[t].addr \in Partition
      BY <1>0, <2>2 DEF KnownInv, StoreInv, SavingInv, WhoInv, TypeInv, TypeOK, Job
    <3>2. CASE pc[t] \in {"copy", "seal"}
      BY <1>p, <3>1, <3>2, HeldIsKnown DEF SavingAt, InUse
    <3>3. CASE pc[t] = "erase"
      BY <3>1, <3>3, HeldIsKnown DEF SavingAt, Partition
    <3> QED BY <1>3, <2>2, <3>2, <3>3, SavingIsKnown DEF Writing
  <2> QED BY <1>0, <1>3, <2>1, <2>2 DEF WhoInv, CallInv, CallAt
<1> QED BY <1>0, <1>1, <1>2, <1>3 DEF Quiet, WhoInv, CallInv, CallAt, Writing

LEMMA PowerLossKnown ==
  ASSUME KnownInv, WhoInv', ~Straddle, PowerLoss
  PROVE  StoreInv'
<1>1. LeftKnown
  BY LossIsKnown
<1>2. /\ pc'[Boot] = "scan" /\ UNCHANGED flash
      /\ acked' = BootParams /\ prev' = PrevAfter
  BY BootIsProc DEF PowerLoss, PrevAfter
<1>3. ShapeInv' /\ CountInv'
  BY <1>2 DEF ShapeInv, CountInv, Intact, KnownInv, StoreInv
<1>4. ScanInv'
  BY <1>2 DEF ScanInv, BootParams
<1>5. ScanKnown'
  BY <1>1, <1>2 DEF ScanKnown, LeftKnown, Known
<1>6. InitInv' /\ RestoreInv'
  BY <1>2 DEF InitInv, RestoreInv, Writing
<1> QED BY <1>2, <1>3, <1>4, <1>5, <1>6, StoreWhenBooting

-----------------------------------------------------------------------------

LEMMA KnownInitially == Init => KnownInv
<1> SUFFICES ASSUME Init PROVE KnownInv
  OBVIOUS
<1>0. /\ pc[Boot] = "scan" /\ lock = Boot /\ Boot \notin Task /\ updp = FALSE
      /\ \A t \in Task : pc[t] = "idle" /\ job[t] = NoJob
      /\ \A i \in Partition : flash[i] = Damaged
  BY ConstantsDistinct, BootIsProc DEF Init, Proc
<1>1. NoJob.op = "none"
  BY DEF NoJob, JobOf
<1>2. WhoInv
  BY <1>0, <1>1, TypeInitially
  DEF WhoInv, CallInv, CallAt, BootInv, StartInv, Writing, SaveOp, ResetOp
<1>3. ShapeInv /\ CountInv /\ ScanKnown
  BY <1>0 DEF ShapeInv, CountInv, ScanKnown
<1>4. ScanInv
  BY <1>0 DEF Init, ScanInv, BootParams, Valid, Partition
<1>5. InitInv /\ RestoreInv /\ QuietInv
  BY <1>0, BootIsProc DEF InitInv, RestoreInv, QuietInv, Quiet, Writing
<1>6. SavingInv /\ ResettingInv
  BY <1>0, <1>1 DEF SavingInv, ResettingInv, SaveOp, ResetOp
<1> QED BY <1>2, <1>3, <1>4, <1>5, <1>6 DEF KnownInv, StoreInv

(* Every failing allocation is counted.                                    *)
LEMMA FaultsCount ==
  ASSUME TypeInv, AllocFails
  PROVE  faults' # 0 /\ faults' = faults + 1 /\ faults \in Nat
BY ConstantsTyped DEF TypeInv, TypeOK, AllocFails

LEMMA FaultsAreCounted ==
  ASSUME TypeInv, Fault
  PROVE  faults' # 0 /\ faults' = faults + 1 /\ faults \in Nat
<1>1. AllocFails
  BY DEF Fault, WriteNoMem, VerifyNoMem, BootReadNoMem, BootNoMem, UpdpLoadNoMem,
         SaveUserNoMem
<1> QED BY <1>1, FaultsCount

LEMMA KnownStep ==
  ASSUME Period \notin Field, KnownInv, [Next]_vars, faults' = 0,
         Disciplined, ResetsAlone', ~Straddle, ~Straddle'
  PROVE  KnownInv'
<1>0. WhoInv /\ WhoInv' /\ Task \subseteq Proc /\ Boot \in Proc /\ Boot \notin Task
  BY WhoStep, BootIsProc, ConstantsDistinct DEF KnownInv
<1> SUFFICES StoreInv'
  BY <1>0 DEF KnownInv
<1>1. CASE UNCHANGED vars
  <2>1. UNCHANGED <<flash, fp, sram, lock, pc, job, acked, prev>>
    BY <1>1 DEF vars
  <2>2. Intended' = Intended /\ BootParams' = BootParams /\ InUse' = InUse
    BY <2>1 DEF Intended, SetValue, BootParams, InUse, Holds, Intact, Known
  <2>3. ShapeInv' /\ CountInv' /\ QuietInv' /\ ScanInv' /\ ScanKnown'
    BY <2>1, <2>2 DEF KnownInv, StoreInv, ShapeInv, CountInv, QuietInv, Quiet, ScanInv,
                      ScanKnown, Intact, Known
  <2>4. SavingInv' /\ ResettingInv'
    BY <2>1, <2>2 DEF KnownInv, StoreInv, SavingInv, SavingAt, ResettingInv, ResettingAt,
                      Holds, Replacing, Intact, Known
  <2>5. InitInv' /\ RestoreInv'
    BY <2>1 DEF KnownInv, StoreInv, InitInv, RestoreInv, Replacing, Intact
  <2> QED BY <2>3, <2>4, <2>5 DEF StoreInv
<1>2. CASE BootStep
  BY <1>0, <1>2, ScanStoreKnown, BootCopyKnown, BootProgramKnown, BootVerifyKnown
  DEF BootStep, ParamToFlash
<1>3. ASSUME NEW t \in Task, ParamToFlash(t)
      PROVE  StoreInv'
  <2>1. pc[t] \in Writing
    BY <1>3 DEF ParamToFlash, CopyFields, SealHeader, ErasePartition, ProgramPartition,
                VerifyPartition, Writing
  <2>2. job[t].op \in SaveOp \cup ResetOp
    BY <1>0, <2>1 DEF WhoInv, CallInv, CallAt
  <2>3. CASE job[t].op \in SaveOp
    BY <1>0, <1>3, <2>3, SaverCopies, SaverSeals, SaverErases, SaverPrograms, SaverVerifies
    DEF ParamToFlash
  <2>4. CASE job[t].op \in ResetOp
    BY <1>0, <1>3, <2>4, ResetterCopies, ResetterSeals, ResetterErases,
       ResetterPrograms, ResetterVerifies
    DEF ParamToFlash
  <2> QED BY <2>2, <2>3, <2>4
<1>4. ASSUME NEW t \in Task,
             UpdpLoad(t) \/ SaveUserMagic(t) \/ SaveUserData(t) \/ SaveUserCrc(t)
      PROVE  StoreInv'
  <2>1. /\ pc[t] \in {"load", "magic", "data", "crc"}
        /\ \/ Return(t, "OK")
           \/ (\E l \in {"data", "crc"} : Goto(t, l)) /\ UNCHANGED <<lock, job>>
        /\ UNCHANGED <<flash, fp, sram, acked, prev>>
    BY <1>4 DEF UpdpLoad, SaveUserMagic, SaveUserData, SaveUserCrc, SaveUserStep
  <2>2. /\ pc'[t] \in {"idle", "data", "crc"}
        /\ \A q \in Proc : q # t => pc'[q] = pc[q] /\ job'[q] = job[q]
    BY <1>0, <2>1 DEF Return, Goto, WhoInv, TypeInv, TypeOK
  <2>3. pc[Boot] = "idle" /\ lock # t
    BY <1>0, <2>1 DEF WhoInv, StartInv, CallInv, CallAt, Writing
  <2>4. UNCHANGED lock
    BY <2>1, <2>3 DEF Return
  <2>5. pc[t] \notin Writing /\ pc'[t] \notin Writing \cup {"scan", "rescan"}
    BY <2>1, <2>2 DEF Writing
  <2> QED BY <1>0, <2>1, <2>2, <2>3, <2>4, <2>5, StoreAside
<1>5. CASE \E t \in Task : TaskStep(t)
  BY <1>0, <1>3, <1>4, <1>5, StoreEnters DEF TaskStep
<1>6. CASE Call
  <2>1. CASE \E t \in ResetTask : ResetCall(t)
    BY <1>0, <2>1, ResetterStarts
  <2>2. ASSUME NEW t \in Task, NEW l \in {"enter", "load", "magic"}, NEW j,
               Up, pc[t] = "idle", job' = [job EXCEPT ![t] = j], Goto(t, l),
               UNCHANGED <<flash, fp, sram, lock, acked, prev>>
        PROVE  StoreInv'
    <3>1. /\ pc'[t] = l
          /\ \A q \in Proc : q # t => pc'[q] = pc[q] /\ job'[q] = job[q]
      BY <1>0, <2>2 DEF Goto, WhoInv, TypeInv, TypeOK
    <3>2. /\ pc[t] \notin Writing /\ pc'[t] \notin Writing \cup {"scan", "rescan"}
          /\ pc[Boot] = "idle"
      BY <2>2, <3>1 DEF Writing, Up
    <3> QED BY <1>0, <2>2, <3>1, <3>2, StoreAside
  <2>3. \A t \in SetTask \cup UpdpTask : t \in Task
    BY DEF Task
  <2> QED BY <1>6, <2>1, <2>2, <2>3
          DEF Call, SetCall, SyncCall, UpdpBegin, UpdpEnd, Start
<1>7. ~Fault
  BY <1>0, FaultsAreCounted DEF WhoInv
<1>8. CASE PowerLoss
  BY <1>0, <1>8, PowerLossKnown
<1> QED BY <1>1, <1>2, <1>5, <1>6, <1>7, <1>8 DEF Next

(* Whatever power losses interrupt, tls_param_to_default between its two   *)
(* partitions included, the next boot loads the parameters reported as     *)
(* saved last or before that, or those with the update in progress; the    *)
(* factory table only while a reset is writing it, and never because both  *)
(* copies are gone.  For any number of tasks that set, save, reset and     *)
(* execute UPDP, as long as a reset runs alone, updp_mode is not switched  *)
(* while a set waits, no allocation fails, PERIOD is not used and          *)
(* modify_count does not wrap.                                             *)
THEOREM AtMostOneIsLost ==
  ASSUME Period \notin Field
  PROVE  Spec /\ [](Disciplined /\ ~Straddle /\ faults = 0) => []LosesAtMostOne
<1> DEFINE D == Disciplined /\ ~Straddle /\ faults = 0
<1>1. Init => KnownInv
  BY KnownInitially
<1>2. KnownInv /\ D /\ D' /\ [Next]_vars => KnownInv'
  BY KnownStep DEF Disciplined
<1>3. KnownInv /\ D => LosesAtMostOne
  BY LossIsKnown
<1> HIDE DEF D
<1>4. Spec /\ []D => []LosesAtMostOne
  BY <1>1, <1>2, <1>3, PTL DEF Spec
<1> QED BY <1>4 DEF D

-----------------------------------------------------------------------------
(* The user default sector, with an allocation that fails                  *)

(* What the host command layer sees to: while one UPDP command writes the  *)
(* sector nobody else writes or loads it, and no tls_param_set that was    *)
(* begun in UPDP mode is still waiting.                                    *)
SavingUser == {"magic", "data", "crc"}
ToUser(p) == pc[p] = "enter" /\ job[p].op = "set" /\ job[p].touser
UserAlone ==
    \A t \in UpdpTask : pc[t] \in SavingUser =>
       \A q \in Task : q # t => pc[q] \notin SavingUser \cup {"load"} /\ ~ToUser(q)

(* Up to the first failed allocation every write has reached the sector.   *)
UserAt(t) ==
    /\ pc[t] \in SavingUser => ret[t] = "none"
    /\ faults = 0 /\ pc[t] \in {"data", "crc"} => user.magic
    /\ faults = 0 /\ pc[t] = "crc" => user.params = udp
UserInv == TypeInv /\ \A t \in UpdpTask : UserAt(t)

(* A step that is none of the three writes, and its effect on the sector.  *)
AsideUser(p) ==
    /\ pc[p] \notin SavingUser
    /\ pc'[p] \in SavingUser => pc'[p] = "magic" /\ ret'[p] = "none"
    /\ faults' = 0 => faults = 0
    /\ UNCHANGED user
    /\ udp' # udp => p \in Task /\ (pc[p] = "load" \/ ToUser(p))
OwnStep(p) ==
    /\ \A q \in Proc : q # p => pc'[q] = pc[q] /\ ret'[q] = ret[q]
    /\ pc'[p] = "idle" \/ ret'[p] = "none" \/ (pc[p] # "idle" /\ ret'[p] = ret[p])
SaveUser(p) ==
    SaveUserMagic(p) \/ SaveUserData(p) \/ SaveUserCrc(p) \/ SaveUserNoMem(p)

LEMMA ContinuesAside ==
  ASSUME TypeInv, NEW p \in Proc, NEW s, Continue(p, s), pc[p] # "idle"
  PROVE  OwnStep(p) /\ pc'[p] \notin SavingUser
<1>1. CASE Return(p, s)
  BY <1>1 DEF Return, Goto, TypeInv, TypeOK, OwnStep, SavingUser
<1>2. CASE Goto(p, "copy") /\ UNCHANGED ret
  BY <1>2 DEF Goto, TypeInv, TypeOK, OwnStep, SavingUser
<1> QED BY <1>1, <1>2 DEF Continue

LEMMA WritesAside ==
  ASSUME TypeInv, NEW p \in Proc, ParamToFlash(p) \/ WriteNoMem(p) \/ VerifyNoMem(p)
  PROVE  OwnStep(p) /\ AsideUser(p)
<1>1. pc[p] \notin SavingUser /\ pc[p] # "idle" /\ UNCHANGED <<user, udp>>
  BY DEF ParamToFlash, CopyFields, SealHeader, ErasePartition, ProgramPartition,
         VerifyPartition, WriteNoMem, VerifyNoMem, SavingUser
<1>2. faults' = 0 => faults = 0
  BY FaultsCount DEF ParamToFlash, CopyFields, SealHeader, ErasePartition,
         ProgramPartition, VerifyPartition, WriteNoMem, VerifyNoMem
<1>3. CASE \E l \in Writing : Goto(p, l) /\ UNCHANGED ret
  <2>1. OwnStep(p) /\ pc'[p] \notin SavingUser
    BY <1>1, <1>3 DEF Goto, TypeInv, TypeOK, OwnStep, SavingUser, Writing
  <2> QED BY <1>1, <1>2, <2>1 DEF AsideUser
<1>4. CASE \E s \in {"OK", "EIO"} : Continue(p, s)
  BY <1>1, <1>2, <1>4, ContinuesAside DEF AsideUser
<1> QED BY <1>3, <1>4
        DEF ParamToFlash, CopyFields, SealHeader, ErasePartition, ProgramPartition,
            VerifyPartition, WriteNoMem, VerifyNoMem, Writing

LEMMA ScansAside ==
  ASSUME TypeInv, BootScan \/ BootReadNoMem \/ BootNoMem
  PROVE  OwnStep(Boot) /\ AsideUser(Boot)
<1>0. Boot \in Proc
  BY DEF Proc
<1>1. pc[Boot] \notin SavingUser /\ pc[Boot] # "idle" /\ UNCHANGED <<user, udp>>
  BY DEF BootScan, BootReadNoMem, BootNoMem, Scan, SavingUser
<1>2. faults' = 0 => faults = 0
  BY FaultsCount DEF BootScan, BootReadNoMem, BootNoMem
<1>3. CASE \E o : Start(Boot, o, "copy")
  <2>1. OwnStep(Boot) /\ pc'[Boot] \notin SavingUser
    BY <1>0, <1>3 DEF Start, Goto, TypeInv, TypeOK, OwnStep, SavingUser
  <2> QED BY <1>1, <1>2, <2>1 DEF AsideUser
<1>4. CASE \E s : Return(Boot, s)
  <2>1. OwnStep(Boot) /\ pc'[Boot] \notin SavingUser
    BY <1>0, <1>4 DEF Return, Goto, TypeInv, TypeOK, OwnStep, SavingUser
  <2> QED BY <1>1, <1>2, <2>1 DEF AsideUser
<1>5. CASE Goto(Boot, "rescan") /\ UNCHANGED ret
  <2>1. OwnStep(Boot) /\ pc'[Boot] \notin SavingUser
    BY <1>0, <1>1, <1>5 DEF Goto, TypeInv, TypeOK, OwnStep, SavingUser
  <2> QED BY <1>1, <1>2, <2>1 DEF AsideUser
<1>6. ASSUME NEW miss, Scan(miss)
      PROVE  \/ \E o : Start(Boot, o, "copy")
             \/ \E s : Return(Boot, s)
             \/ Goto(Boot, "rescan") /\ UNCHANGED ret
  BY <1>6 DEF Scan, AfterDamaged
<1> QED BY <1>3, <1>4, <1>5, <1>6 DEF BootScan, BootReadNoMem, BootNoMem

LEMMA EntersAside ==
  ASSUME TypeInv, NEW t \in Task,
         SetEnter(t) \/ SyncEnter(t) \/ UpdpLoad(t) \/ UpdpLoadNoMem(t)
  PROVE  OwnStep(t) /\ AsideUser(t)
<1>0. t \in Proc
  BY DEF Proc
<1>1. /\ pc[t] \notin SavingUser /\ pc[t] # "idle" /\ UNCHANGED user
      /\ udp' # udp => t \in Task /\ (pc[t] = "load" \/ ToUser(t))
  BY DEF SetEnter, SyncEnter, UpdpLoad, UpdpLoadNoMem, SavingUser, ToUser
<1>2. faults' = 0 => faults = 0
  BY FaultsCount DEF SetEnter, SyncEnter, UpdpLoad, UpdpLoadNoMem
<1>3. CASE Goto(t, "copy") /\ UNCHANGED ret
  <2>1. OwnStep(t) /\ pc'[t] \notin SavingUser
    BY <1>0, <1>1, <1>3 DEF Goto, TypeInv, TypeOK, OwnStep, SavingUser
  <2> QED BY <1>1, <1>2, <2>1 DEF AsideUser
<1>4. CASE Return(t, "OK")
  <2>1. OwnStep(t) /\ pc'[t] \notin SavingUser
    BY <1>0, <1>4 DEF Return, Goto, TypeInv, TypeOK, OwnStep, SavingUser
  <2> QED BY <1>1, <1>2, <2>1 DEF AsideUser
<1> QED BY <1>3, <1>4 DEF SetEnter, SyncEnter, UpdpLoad, UpdpLoadNoMem

LEMMA CallsAside ==
  ASSUME TypeInv, Call
  PROVE  \E t \in Task : OwnStep(t) /\ AsideUser(t) /\ pc[t] = "idle"
<1>1. ASSUME NEW t \in Task, NEW l \in {"enter", "copy", "load", "magic"},
             pc[t] = "idle", Goto(t, l), ret' = [ret EXCEPT ![t] = "none"],
             UNCHANGED <<user, udp, faults>>
      PROVE  OwnStep(t) /\ AsideUser(t) /\ pc[t] = "idle"
  <2>0. t \in Proc
    BY DEF Proc
  <2>1. OwnStep(t) /\ pc'[t] = l /\ ret'[t] = "none"
    BY <1>1, <2>0 DEF Goto, TypeInv, TypeOK, OwnStep
  <2> QED BY <1>1, <2>1 DEF AsideUser, SavingUser
<1>2. \A t \in SetTask \cup ResetTask \cup UpdpTask : t \in Task
  BY DEF Task
<1>3. CASE \E t \in SetTask, id \in Field, v \in Value, save \in BOOLEAN :
             SetCall(t, id, v, save)
  BY <1>1, <1>2, <1>3 DEF SetCall
<1>4. CASE \E t \in SetTask : SyncCall(t)
  BY <1>1, <1>2, <1>4 DEF SyncCall, Start
<1>5. CASE \E t \in ResetTask : ResetCall(t)
  BY <1>1, <1>2, <1>5 DEF ResetCall, Start
<1>6. CASE \E t \in UpdpTask : UpdpBegin(t) \/ UpdpEnd(t)
  BY <1>1, <1>2, <1>6 DEF UpdpBegin, UpdpEnd, Start
<1> QED BY <1>3, <1>4, <1>5, <1>6 DEF Call

(* One process moves, and only the three writes touch the sector.          *)
LEMMA UserMoves ==
  ASSUME TypeInv, Next
  PROVE  \/ PowerLoss
         \/ \E p \in Proc : OwnStep(p) /\ AsideUser(p)
         \/ \E t \in Task : OwnStep(t) /\ SaveUser(t)
<1>0. Boot \in Proc /\ Task \subseteq Proc /\ UpdpTask \subseteq Task
  BY DEF Proc, Task
<1>1. ASSUME NEW t \in Task, SaveUser(t)
      PROVE  OwnStep(t)
  BY <1>0, <1>1 DEF SaveUser, SaveUserMagic, SaveUserData, SaveUserCrc, SaveUserStep,
          SaveUserNoMem, Return, Goto, OwnStep, TypeInv, TypeOK
<1>2. CASE BootStep
  BY <1>0, <1>2, WritesAside, ScansAside DEF BootStep
<1>3. CASE \E t \in Task : TaskStep(t)
  BY <1>0, <1>1, <1>3, WritesAside, EntersAside DEF TaskStep, SaveUser
<1>4. CASE Call
  BY <1>0, <1>4, CallsAside
<1>5. CASE Fault
  BY <1>0, <1>1, <1>5, WritesAside, ScansAside, EntersAside DEF Fault, SaveUser
<1> QED BY <1>2, <1>3, <1>4, <1>5 DEF Next

LEMMA UserStep ==
  ASSUME UserInv, UserAlone, [Next]_vars
  PROVE  UserInv'
<1>0. TypeInv' /\ TypeInv
  BY TypeStep DEF UserInv
<1>1. UpdpTask \subseteq Task /\ Task \subseteq Proc
  BY DEF Proc, Task
<1>2. CASE UNCHANGED vars
  BY <1>0, <1>2 DEF UserInv, UserAt, vars
<1>3. CASE PowerLoss
  <2>1. \A t \in UpdpTask : pc'[t] \notin SavingUser
    BY <1>1, <1>3, ConstantsDistinct DEF PowerLoss, SavingUser
  <2> QED BY <1>0, <2>1 DEF UserInv, UserAt, SavingUser
<1>4. ASSUME NEW p \in Proc, OwnStep(p), AsideUser(p), NEW t \in UpdpTask
      PROVE  UserAt(t)'
  <2>1. CASE t = p
    BY <1>4, <2>1 DEF AsideUser, UserAt, SavingUser
  <2>2. CASE t # p
    <3>1. UserAt(t) /\ pc'[t] = pc[t] /\ ret'[t] = ret[t] /\ UNCHANGED user
      BY <1>1, <1>4, <2>2 DEF UserInv, OwnStep, AsideUser
    <3>2. pc[t] \in SavingUser => UNCHANGED udp
      BY <1>4, <2>2 DEF UserAlone, AsideUser, ToUser
    <3> QED BY <1>4, <3>1, <3>2 DEF UserAt, AsideUser, SavingUser
  <2> QED BY <2>1, <2>2
<1>5. ASSUME NEW p \in Task, OwnStep(p), SaveUser(p), NEW t \in UpdpTask
      PROVE  UserAt(t)'
  <2>1. pc[p] \in SavingUser
    BY <1>5 DEF SaveUser, SaveUserMagic, SaveUserData, SaveUserCrc, SaveUserStep,
                SaveUserNoMem, SavingUser
  <2>2. CASE t # p
    <3>1. pc[t] \notin SavingUser
      BY <1>1, <1>5, <2>1, <2>2 DEF UserAlone
    <3>2. pc'[t] \notin SavingUser
      BY <1>1, <1>5, <2>2, <3>1 DEF OwnStep
    <3> QED BY <3>2 DEF UserAt, SavingUser
  <2>3. CASE t = p
    <3>0. UserAt(t) /\ user \in UserSector /\ pc \in [Proc -> PC] /\ t \in Proc
      BY <1>0, <1>1 DEF UserInv, TypeInv, TypeOK
    <3>1. CASE SaveUserMagic(t)
      BY <3>0, <3>1 DEF SaveUserMagic, SaveUserStep, Goto, UserAt, SavingUser, UserSector
    <3>2. CASE SaveUserData(t)
      BY <3>0, <3>2 DEF SaveUserData, SaveUserStep, Goto, UserAt, SavingUser, UserSector
    <3>3. CASE SaveUserCrc(t)
      BY <3>0, <3>3 DEF SaveUserCrc, Return, Goto, UserAt, SavingUser
    <3>4. CASE SaveUserNoMem(t)
      <4>1. faults' # 0
        BY <1>0, <3>4, FaultsCount DEF SaveUserNoMem
      <4>2. pc'[t] \in SavingUser => ret'[t] = "none"
        BY <3>0, <3>4 DEF SaveUserNoMem, Return, Goto, UserAt, SavingUser
      <4> QED BY <4>1, <4>2 DEF UserAt
    <3> QED BY <1>5, <2>3, <3>1, <3>2, <3>3, <3>4 DEF SaveUser
  <2> QED BY <2>2, <2>3
<1>6. CASE Next
  BY <1>0, <1>3, <1>4, <1>5, <1>6, UserMoves DEF UserInv
<1> QED BY <1>2, <1>6

(* The last write: what the sector holds when the command returns.         *)
LEMMA UserReturns ==
  ASSUME UserInv, Next, faults' <= 1, NEW t \in UpdpTask, pc[t] = "crc", ret'[t] = "OK"
  PROVE  (UserValid' => user'.params = udp') /\ (faults' = 0 => UserValid')
<1>0. /\ TypeInv /\ UserAt(t) /\ ret[t] = "none"
      /\ user \in UserSector /\ t \in Proc /\ t \in Task
  BY DEF UserInv, UserAt, TypeInv, TypeOK, SavingUser, Proc, Task
<1>1. ~PowerLoss
  BY <1>0 DEF PowerLoss
<1>2. SaveUser(t)
  BY <1>0, <1>1, UserMoves DEF OwnStep, AsideUser, SavingUser
<1>3. CASE SaveUserCrc(t)
  BY <1>0, <1>3 DEF SaveUserCrc, UserValid, UserSector, UserAt
<1>4. CASE SaveUserNoMem(t)
  <2>1. faults = 0 /\ faults' # 0
    BY <1>0, <1>4, FaultsCount DEF SaveUserNoMem
  <2>2. UNCHANGED udp /\ (user' = user \/ user'.crc = udp)
    BY <1>4 DEF SaveUserNoMem, SectorsWith
  <2> QED BY <1>0, <2>1, <2>2 DEF UserAt, UserValid
<1> QED BY <1>2, <1>3, <1>4
        DEF SaveUser, SaveUserMagic, SaveUserData, SaveUserStep

LEMMA UserInitially == Init => UserInv
BY TypeInitially, ConstantsDistinct DEF Init, UserInv, UserAt, SavingUser, Proc, Task

(* When the UPDP command that ends the update returns, the sector that     *)
(* tls_param_load_user accepts holds user_default_param, and it is         *)
(* accepted unless an allocation failed: for any number of tasks that      *)
(* leave a running UPDP save alone, whenever the power goes and whichever  *)
(* one allocation fails.  With a second failure it is not so: the data and *)
(* the CRC can both be left out, and an old table is still accepted.       *)
THEOREM UserDefaultsAreSaved ==
  Spec /\ [](UserAlone /\ faults <= 1) => UserSaved
<1> DEFINE H == UserAlone /\ faults <= 1
<1>1. Init => UserInv
  BY UserInitially
<1>2. UserInv /\ H /\ [Next]_vars => UserInv'
  BY UserStep
<1> DEFINE A == \A t \in UpdpTask :
                  pc[t] = "crc" /\ ret'[t] = "OK" =>
                     /\ UserValid' => user'.params = udp'
                     /\ faults' = 0 => UserValid'
<1>3. UserInv /\ H' /\ Next => A
  BY UserReturns
<1>4. UserInv /\ H' /\ [Next]_vars => [A]_vars
  BY <1>3
<1>5. Spec /\ []H => [][A]_vars
  <2> HIDE DEF H, A
  <2> QED BY <1>1, <1>2, <1>4, PTL DEF Spec
<1> QED BY <1>5 DEF UserSaved

-----------------------------------------------------------------------------
(* Any number of failing allocations                                       *)

(* The circumstances: modify_count has not come to its wrap, and           *)
(* tls_param_init and tls_param_to_default get the memory they ask for.    *)
(* All other calls, of tls_param_set, tls_param_to_flash and UPDP, may     *)
(* find none, time and again.                                              *)
BeforeWrap == fp.count < CountModulus - 1
FaultsElsewhere == pc[Boot] # "idle" \/ Resetting => UNCHANGED faults

(* No copy in flash is newer than the RAM image, whose count a failed      *)
(* write has moved on; so the next write always makes the newest copy.     *)
Programming == {"erase", "program", "verify"}
NoNewer(i, c) == Valid(flash[i]) => flash[i].count <= c
AheadInv ==
    pc[Boot] \notin {"scan", "rescan"} /\ ~Resetting =>
       \A i \in Partition : NoNewer(i, fp.count)

WriterAt(p) ==
    /\ pc[p] \in Programming => fp = Sealed(fp.count, fp.params, job[p].addr)
    /\ pc[p] = "verify" => flash[job[p].addr] = fp
    /\ pc[p] \in Programming /\ ~FixedCount(job[p].op) =>
          NoNewer(1 - job[p].addr, fp.count - 1)
    /\ pc[p] = "erase" /\ ~FixedCount(job[p].op) => NoNewer(job[p].addr, fp.count - 1)
    /\ pc[p] \in {"seal"} \cup Programming /\ job[p].op = "set" =>
          fp.params[job[p].id] = job[p].val
    /\ pc[p] \in Programming /\ FixedCount(job[p].op) =>
          fp.count = 1 /\ job[p].addr = TargetOf(job[p].op, 0)
    /\ pc[p] \in Writing /\ job[p].op = "reset1" => NoNewer(0, 1)
    /\ pc[p] \in Writing /\ job[p].op \in {"init0", "init1"} =>
          \A i \in Partition : NoNewer(i, 1)
WritersInv == \A p \in Proc : WriterAt(p)
LeadInv == WhoInv /\ AheadInv /\ WritersInv

-----------------------------------------------------------------------------

LEMMA CountIsNat ==
  ASSUME TypeInv
  PROVE  /\ fp.count \in Nat /\ fp.count \in Count /\ fp.params \in Params
         /\ fp.pnum \in Partition
         /\ \A i \in Partition : Valid(flash[i]) => flash[i].count \in Nat
         /\ \A p \in Proc : job[p].addr \in Partition
<1>1. fp.count \in Count /\ fp.params \in Params /\ fp.pnum \in Partition
  BY DEF TypeInv, TypeOK, FlashParam
<1>2. \A i \in Partition : Valid(flash[i]) => flash[i].count \in Count
  BY IntactType DEF TypeInv
<1>3. \A p \in Proc : job[p].addr \in Partition
  BY DEF TypeInv, TypeOK, Job
<1> QED BY <1>1, <1>2, <1>3, ConstantsTyped DEF Count

(* A process that does not write has nothing to answer for.                *)
LEMMA NoWriterAt ==
  ASSUME NEW p, pc'[p] \notin Writing
  PROVE  WriterAt(p)'
BY DEF WriterAt, Programming, Writing

(* A step that leaves the flash and its image alone.                       *)
LEMMA LeadAside ==
  ASSUME LeadInv, NEW p \in Proc, UNCHANGED <<flash, fp>>, WriterAt(p)',
         \A q \in Proc : q # p => pc'[q] = pc[q] /\ job'[q] = job[q],
         p \in Task => job[p].op \notin ResetOp, pc[Boot] \notin {"scan", "rescan"}
  PROVE  AheadInv' /\ WritersInv'
<1>0. Task \subseteq Proc
  BY DEF Proc
<1>1. ASSUME NEW q \in Proc, q # p
      PROVE  WriterAt(q)'
  BY <1>1 DEF LeadInv, WritersInv, WriterAt, NoNewer
<1>2. Resetting => Resetting'
  BY <1>0 DEF Resetting
<1> QED BY <1>1, <1>2 DEF LeadInv, AheadInv, WritersInv, NoNewer

(* A step of the one writer.                                               *)
LEMMA LeadWrites ==
  ASSUME LeadInv, ResetsAlone, NEW p \in Proc, pc[p] \in Writing, WriterAt(p)',
         \A q \in Proc : q # p => pc'[q] = pc[q] /\ job'[q] = job[q],
         Resetting' \/ \A i \in Partition : NoNewer(i, fp.count)'
  PROVE  AheadInv' /\ WritersInv'
<1>1. ASSUME NEW q \in Proc, q # p
      PROVE  WriterAt(q)'
  <2>1. pc'[q] \notin Writing
    BY <1>1, OnlyWriter DEF LeadInv
  <2> QED BY <2>1, NoWriterAt
<1> QED BY <1>1 DEF AheadInv, WritersInv

(* Unless a reset is under way, no copy is newer than the image a writer   *)
(* works from.                                                             *)
LEMMA WriterAhead ==
  ASSUME LeadInv, ResetsAlone, NEW p \in Proc, pc[p] \in Writing
  PROVE  /\ \/ p \in Task /\ job[p].op \in ResetOp /\ Resetting
            \/ (\A i \in Partition : NoNewer(i, fp.count)) /\ job[p].op \notin ResetOp
         /\ p \in Task => job[p].op \in SaveOp \cup ResetOp
         /\ p = Boot => job[p].op \in BootOp
<1>0. Boot \notin Task /\ Task \subseteq Proc /\ Proc = Task \cup {Boot}
  BY ConstantsDistinct DEF Proc
<1>1. p \in Task => job[p].op \in SaveOp \cup ResetOp
  BY DEF LeadInv, WhoInv, CallInv, CallAt
<1>2. p = Boot => job[p].op \in BootOp
  BY DEF LeadInv, WhoInv, BootInv
<1>3. CASE p \in Task /\ job[p].op \in ResetOp
  BY <1>1, <1>2, <1>3 DEF Resetting
<1>4. CASE ~(p \in Task /\ job[p].op \in ResetOp)
  <2>1. job[p].op \notin ResetOp
    BY <1>0, <1>1, <1>2, <1>4 DEF BootOp, ResetOp
  <2>2. ~Resetting
    <3> SUFFICES ASSUME NEW t \in Task, job[t].op \in ResetOp
                 PROVE  FALSE
      BY DEF Resetting
    <3>1. p # t
      BY <2>1
    <3> QED BY <3>1 DEF ResetsAlone, Writing
  <2>3. pc[Boot] \notin {"scan", "rescan"}
    BY <1>0, OnlyWriter DEF LeadInv, Writing
  <2> QED BY <1>1, <1>2, <2>1, <2>2, <2>3 DEF LeadInv, AheadInv
<1> QED BY <1>3, <1>4

LEMMA LeadCopies ==
  ASSUME LeadInv, ResetsAlone, NEW p \in Proc, CopyFields(p)
  PROVE  AheadInv' /\ WritersInv'
<1>0. Boot \notin Task /\ Task \subseteq Proc /\ Proc = Task \cup {Boot}
  BY ConstantsDistinct DEF Proc
<1>1. /\ pc[p] \in Writing /\ UNCHANGED <<flash, job>> /\ pc[p] = "copy"
      /\ pc'[p] = "seal" /\ \A q \in Proc : q # p => pc'[q] = pc[q] /\ job'[q] = job[q]
  BY DEF CopyFields, Goto, Writing, LeadInv, WhoInv, TypeInv, TypeOK
<1>2. fp'.count = fp.count
  BY DEF CopyFields, LeadInv, WhoInv, TypeInv, TypeOK, FlashParam
<1>3. job[p].op = "set" => fp'.params[job[p].id] = job[p].val
  <2> SUFFICES ASSUME job[p].op = "set" PROVE fp'.params[job[p].id] = job[p].val
    OBVIOUS
  <2>1. p \in Task
    BY <1>0, <1>1, WriterAhead DEF BootOp
  <2>2. job[p].id \in Field /\ sram[job[p].id] = job[p].val
    BY <1>1, <2>1 DEF LeadInv, WhoInv, CallInv, CallAt, TypeInv, SetHasId
  <2>3. job[p].id \in CopiedFields(job[p].id)
    BY <2>2 DEF CopiedFields
  <2> QED BY <2>2, <2>3 DEF CopyFields, LeadInv, WhoInv, TypeInv, TypeOK, FlashParam
<1>4. WriterAt(p)'
  BY <1>1, <1>3 DEF LeadInv, WritersInv, WriterAt, Programming, Writing, NoNewer
<1>5. Resetting' \/ \A i \in Partition : NoNewer(i, fp.count)'
  BY <1>1, <1>2, WriterAhead DEF Resetting, NoNewer
<1> QED BY <1>1, <1>4, <1>5, LeadWrites

(* The next count is larger than that of every copy.                       *)
LEMMA LeadSeals ==
  ASSUME LeadInv, ResetsAlone, BeforeWrap, NEW p \in Proc, SealHeader(p)
  PROVE  AheadInv' /\ WritersInv'
<1> DEFINE n == TargetOf(job[p].op, fp.pnum)
           c == NextCount(job[p].op, fp.count)
<1>0. TypeInv /\ pc[p] \in Writing /\ pc[p] = "seal"
  BY DEF LeadInv, WhoInv, SealHeader, Writing
<1>1. n \in Partition /\ c \in Count /\ c \in Nat /\ fp.params \in Params
  BY <1>0, CountIsNat, TargetInPartition, SuccInCount, ConstantsInType, ConstantsTyped
  DEF NextCount, Count
<1>2. /\ fp' = Sealed(c, fp.params, n) /\ UNCHANGED flash
      /\ job' = [job EXCEPT ![p].addr = n] /\ pc' = [pc EXCEPT ![p] = "erase"]
  BY DEF SealHeader, Goto
<1>3. IF FixedCount(job[p].op)
      THEN c = 1 /\ n = TargetOf(job[p].op, 0)
      ELSE c = fp.count + 1
  BY <1>0, CountIsNat, SuccCases DEF NextCount, FixedCount, TargetOf, BeforeWrap, Succ
<1> HIDE DEF n, c
<1>4. fp'.count = c /\ fp'.params = fp.params /\ fp' = Sealed(fp'.count, fp'.params, n)
  BY <1>1, <1>2, SealedValid
<1>5. /\ job'[p].addr = n /\ job'[p].op = job[p].op /\ job'[p].id = job[p].id
      /\ job'[p].val = job[p].val /\ pc'[p] = "erase"
      /\ \A q \in Proc : q # p => pc'[q] = pc[q] /\ job'[q] = job[q]
  BY <1>0, <1>2 DEF TypeInv, TypeOK, Job
<1>6. 1 - n \in Partition
  BY <1>1 DEF Partition
<1>7. /\ ~FixedCount(job[p].op) => NoNewer(1 - n, c - 1) /\ NoNewer(n, c - 1)
      /\ Resetting' \/ \A i \in Partition : NoNewer(i, c)
  <2>1. CASE p \in Task /\ job[p].op \in ResetOp
    BY <1>5, <2>1 DEF Resetting, FixedCount, ResetOp
  <2>2. CASE /\ \A i \in Partition : NoNewer(i, fp.count)
             /\ ~FixedCount(job[p].op)
    BY <1>0, <1>1, <1>2, <1>3, <1>6, <2>2, CountIsNat DEF NoNewer
  <2>3. CASE /\ FixedCount(job[p].op) /\ job[p].op \notin ResetOp
    <3>1. job[p].op \in {"init0", "init1"}
      BY <2>3 DEF FixedCount, ResetOp
    <3>2. \A i \in Partition : NoNewer(i, 1)
      BY <1>0, <3>1 DEF LeadInv, WritersInv, WriterAt
    <3> QED BY <1>2, <1>3, <2>3, <3>1, <3>2 DEF NoNewer
  <2> QED BY <1>0, <2>1, <2>2, <2>3, WriterAhead
<1>8. WriterAt(p)'
  <2>1. WriterAt(p)
    BY DEF LeadInv, WritersInv
  <2> QED BY <1>0, <1>2, <1>3, <1>4, <1>5, <1>7, <2>1
          DEF WriterAt, Programming, Writing, NoNewer
<1>9. Resetting' \/ \A i \in Partition : NoNewer(i, fp.count)'
  BY <1>2, <1>4, <1>7 DEF NoNewer
<1> QED BY <1>0, <1>5, <1>8, <1>9, LeadWrites

LEMMA LeadProgram ==
  ASSUME LeadInv, ResetsAlone, NEW p \in Proc, ErasePartition(p) \/ ProgramPartition(p)
  PROVE  AheadInv' /\ WritersInv'
<1> DEFINE n == job[p].addr
<1>0. /\ TypeInv /\ pc[p] \in Programming /\ pc[p] # "verify" /\ pc[p] \in Writing
      /\ n \in Partition /\ 1 - n \in Partition /\ WriterAt(p) /\ n # 1 - n
  BY CountIsNat DEF LeadInv, WhoInv, WritersInv, ErasePartition, ProgramPartition,
         Writing, Programming, Partition
<1>1. /\ UNCHANGED <<fp, job>> /\ pc'[p] \in {"program", "verify"}
      /\ \A q \in Proc : q # p => pc'[q] = pc[q] /\ job'[q] = job[q]
  BY <1>0 DEF ErasePartition, ProgramPartition, Goto, TypeInv, TypeOK
<1>2. /\ \A i \in Partition : i # n => flash'[i] = flash[i]
      /\ flash'[n] = Damaged \/ flash'[n] = fp
      /\ pc'[p] = "verify" => flash'[n] = fp
  BY <1>0 DEF ErasePartition, ProgramPartition, Goto, TypeInv, TypeOK
<1>3. NoNewer(n, fp.count)' /\ ~Valid(Damaged)
  BY <1>0, <1>1, <1>2, CountIsNat DEF NoNewer, Valid
<1>4. Resetting' \/ \A i \in Partition : NoNewer(i, fp.count)'
  BY <1>0, <1>1, <1>2, <1>3, WriterAhead DEF NoNewer, Resetting
<1>5. ~FixedCount(job[p].op) => NoNewer(1 - n, fp.count - 1)'
  BY <1>0, <1>1, <1>2 DEF WriterAt, NoNewer
<1>6. job[p].op = "reset1" => NoNewer(0, 1)'
  BY <1>0, <1>1, <1>2 DEF WriterAt, NoNewer, FixedCount, TargetOf, Partition
<1>7. job[p].op \in {"init0", "init1"} => \A i \in Partition : NoNewer(i, 1)'
  BY <1>0, <1>1, <1>2, <1>3 DEF WriterAt, NoNewer, FixedCount
<1>8. WriterAt(p)'
  BY <1>0, <1>1, <1>2, <1>5, <1>6, <1>7 DEF WriterAt, Programming, NoNewer
<1> QED BY <1>0, <1>1, <1>4, <1>8, LeadWrites

(* The end of a call that is no reset.                                     *)
LEMMA LeadContinues ==
  ASSUME LeadInv, ResetsAlone, NEW p \in Proc, pc[p] \in Programming, NEW s,
         Continue(p, s), UNCHANGED flash, job[p].op \notin ResetOp
  PROVE  AheadInv' /\ WritersInv'
<1>0. /\ Boot \notin Task /\ Boot \in Proc /\ pc[p] \in Writing /\ TypeInv /\ WriterAt(p)
  BY ConstantsDistinct DEF Proc, Writing, Programming, LeadInv, WhoInv, WritersInv
<1>1. pc[Boot] \notin {"scan", "rescan"}
  BY <1>0, OnlyWriter DEF LeadInv, Writing
<1>2. CASE Return(p, s) /\ UNCHANGED fp
  <2>1. pc'[p] = "idle" /\ \A q \in Proc : q # p => pc'[q] = pc[q] /\ job'[q] = job[q]
    BY <1>0, <1>2 DEF Return, Goto, TypeInv, TypeOK
  <2>2. WriterAt(p)'
    BY <2>1, NoWriterAt DEF Writing
  <2> QED BY <1>1, <1>2, <2>1, <2>2, LeadAside
<1>3. CASE /\ job[p].op = "init0" /\ Goto(p, "copy") /\ UNCHANGED fp
           /\ job' = [job EXCEPT ![p].op = IF job[p].op = "reset0" THEN "reset1" ELSE "init1"]
  <2>1. /\ pc'[p] = "copy" /\ job'[p].op = "init1"
        /\ \A q \in Proc : q # p => pc'[q] = pc[q] /\ job'[q] = job[q]
    BY <1>0, <1>3 DEF Goto, TypeInv, TypeOK, Job
  <2>2. \A i \in Partition : NoNewer(i, 1)'
    BY <1>0, <1>3 DEF WriterAt, NoNewer
  <2>3. WriterAt(p)'
    BY <2>1, <2>2 DEF WriterAt, Programming, NoNewer
  <2> QED BY <1>1, <1>3, <2>1, <2>3, LeadAside
<1> QED BY <1>2, <1>3 DEF Continue, ResetOp

(* A reset ends with both partitions at count 1.                           *)
LEMMA LeadVerifies ==
  ASSUME LeadInv, ResetsAlone, NEW p \in Proc, VerifyPartition(p)
  PROVE  AheadInv' /\ WritersInv'
<1> DEFINE n == job[p].addr
<1>0. /\ TypeInv /\ pc[p] = "verify" /\ pc[p] \in Programming /\ pc[p] \in Writing
      /\ n \in Partition /\ WriterAt(p) /\ UNCHANGED flash
  BY CountIsNat DEF LeadInv, WhoInv, WritersInv, VerifyPartition, Writing, Programming
<1>1. PICK s : Continue(p, s) /\ s = IF flash[fp.pnum] = fp THEN "OK" ELSE "EIO"
  BY DEF VerifyPartition
<1>2. CASE job[p].op \notin ResetOp
  BY <1>0, <1>1, <1>2, LeadContinues
<1>3. CASE job[p].op \in ResetOp
  <2>1. fp.pnum = n /\ flash[n] = fp /\ fp.count = 1 /\ fp.count \in Nat
    BY <1>0, <1>3, CountIsNat, SealedValid DEF WriterAt, FixedCount, ResetOp
  <2>2. s = "OK"
    BY <1>1, <2>1
  <2>3. CASE job[p].op = "reset0"
    <3>1. /\ UNCHANGED fp /\ Goto(p, "copy")
          /\ job' = [job EXCEPT ![p].op = IF job[p].op = "reset0" THEN "reset1" ELSE "init1"]
      BY <1>1, <2>2, <2>3 DEF Continue
    <3>2. /\ pc'[p] = "copy" /\ job'[p].op = "reset1"
          /\ \A q \in Proc : q # p => pc'[q] = pc[q] /\ job'[q] = job[q]
      BY <1>0, <2>3, <3>1 DEF Goto, TypeInv, TypeOK, Job
    <3>3. n = 0
      BY <1>0, <2>3 DEF WriterAt, FixedCount, TargetOf
    <3>4. NoNewer(0, 1)'
      BY <1>0, <2>1, <3>1, <3>3 DEF NoNewer
    <3>5. WriterAt(p)'
      BY <3>2, <3>4 DEF WriterAt, Programming, NoNewer
    <3>6. Resetting'
      BY <1>0, <1>3, <3>2, WriterAhead DEF Resetting, ResetOp
    <3> QED BY <1>0, <3>2, <3>5, <3>6, LeadWrites
  <2>4. CASE job[p].op = "reset1"
    <3>1. fp' = [fp EXCEPT !.magic = FALSE] /\ Return(p, s)
      BY <1>1, <2>2, <2>4 DEF Continue
    <3>2. /\ pc'[p] = "idle" /\ fp'.count = 1
          /\ \A q \in Proc : q # p => pc'[q] = pc[q] /\ job'[q] = job[q]
      BY <1>0, <2>1, <3>1 DEF Return, Goto, TypeInv, TypeOK, FlashParam
    <3>3. n = 1 /\ NoNewer(0, 1)
      BY <1>0, <2>4 DEF WriterAt, FixedCount, TargetOf
    <3>4. \A i \in Partition : NoNewer(i, fp.count)'
      BY <1>0, <2>1, <3>2, <3>3 DEF NoNewer, Partition
    <3>5. WriterAt(p)'
      BY <3>2, NoWriterAt DEF Writing
    <3> QED BY <1>0, <3>2, <3>4, <3>5, LeadWrites
  <2> QED BY <1>3, <2>3, <2>4 DEF ResetOp
<1> QED BY <1>2, <1>3

(* tls_param_init loads the copy with the larger count.                    *)
LEMMA LeadScans ==
  ASSUME LeadInv, BootScan
  PROVE  AheadInv' /\ WritersInv'
<1> DEFINE seen == [i \in Partition |-> IF i \in {} THEN Damaged ELSE flash[i]]
           bad == {i \in Partition : ~Valid(seen[i])}
<1>0. /\ TypeInv /\ Boot \in Proc /\ Boot \notin Task /\ Proc = Task \cup {Boot}
      /\ Scan({}) /\ pc[Boot] \in {"scan", "rescan"}
  BY ConstantsDistinct DEF LeadInv, WhoInv, BootScan, Scan, Proc
<1>1. \A t \in Task : pc[t] = "idle" /\ job[t] = NoJob
  BY <1>0 DEF LeadInv, WhoInv, StartInv
<1>2. UNCHANGED flash /\ \A i \in Partition : seen[i] = flash[i]
  BY <1>0 DEF Scan
<1>3. CASE Goto(Boot, "rescan") /\ UNCHANGED job
  <2>1. pc'[Boot] = "rescan" /\ \A q \in Proc : q # Boot => pc'[q] = pc[q]
    BY <1>0, <1>3 DEF Goto, TypeInv, TypeOK
  <2>2. \A q \in Proc : pc'[q] \notin Writing
    BY <1>0, <1>1, <2>1 DEF Writing
  <2> QED BY <2>1, <2>2, NoWriterAt DEF AheadInv, WritersInv
<1>4. ASSUME NEW o \in BootOp, Start(Boot, o, "copy"),
             o \in {"init0", "init1"} => bad = Partition,
             bad = Partition \/ fp' = seen[Newest(seen)]
      PROVE  AheadInv' /\ WritersInv'
  <2>1. /\ pc'[Boot] = "copy" /\ job'[Boot] = JobOf(o)
        /\ \A q \in Proc : q # Boot => pc'[q] = pc[q]
    BY <1>0, <1>4 DEF Start, Goto, TypeInv, TypeOK
  <2>2. job'[Boot].op = o
    BY <2>1 DEF JobOf
  <2>3. o \in {"init0", "init1"} => \A i \in Partition : ~Valid(flash[i])
    BY <1>2, <1>4
  <2>4. WriterAt(Boot)'
    BY <1>2, <1>4, <2>1, <2>2, <2>3 DEF WriterAt, Programming, NoNewer, BootOp, SaveOp
  <2>5. \A q \in Proc : q # Boot => pc'[q] \notin Writing
    BY <1>0, <1>1, <2>1 DEF Writing
  <2>6. \A i \in Partition : NoNewer(i, fp.count)'
    <3>1. CASE bad = Partition
      <4>1. \A i \in Partition : ~Valid(flash[i])
        BY <1>2, <3>1
      <4> QED BY <1>2, <4>1 DEF NoNewer
    <3>2. CASE fp' = seen[Newest(seen)]
      BY <1>0, <1>2, <3>2, CountIsNat DEF NoNewer, Newest, Partition
    <3> QED BY <1>4, <3>1, <3>2
  <2> QED BY <2>4, <2>5, <2>6, NoWriterAt DEF AheadInv, WritersInv
<1>5. CASE Return(Boot, "OK") /\ fp' = seen[Newest(seen)]
  <2>1. pc'[Boot] = "idle" /\ \A q \in Proc : q # Boot => pc'[q] = pc[q]
    BY <1>0, <1>5 DEF Return, Goto, TypeInv, TypeOK
  <2>2. \A q \in Proc : pc'[q] \notin Writing
    BY <1>0, <1>1, <2>1 DEF Writing
  <2>3. \A i \in Partition : NoNewer(i, fp.count)'
    BY <1>0, <1>2, <1>5, CountIsNat DEF NoNewer, Newest, Partition
  <2> QED BY <2>2, <2>3, NoWriterAt DEF AheadInv, WritersInv
<1> QED BY <1>0, <1>3, <1>4, <1>5 DEF Scan, AfterDamaged, BootOp

LEMMA LeadCalls ==
  ASSUME LeadInv, ResetsAlone', Call
  PROVE  AheadInv' /\ WritersInv'
<1>0. TypeInv /\ Boot \notin Task /\ Task \subseteq Proc /\ Proc = Task \cup {Boot}
  BY ConstantsDistinct DEF LeadInv, WhoInv, Proc
<1>1. ASSUME NEW t \in Task, NEW l \in {"enter", "load", "magic"}, NEW j,
             Up, pc[t] = "idle", job' = [job EXCEPT ![t] = j], Goto(t, l),
             UNCHANGED <<flash, fp>>
      PROVE  AheadInv' /\ WritersInv'
  <2>1. pc'[t] = l /\ \A q \in Proc : q # t => pc'[q] = pc[q] /\ job'[q] = job[q]
    BY <1>0, <1>1 DEF Goto, TypeInv, TypeOK
  <2>2. WriterAt(t)'
    BY <2>1, NoWriterAt DEF Writing
  <2>3. job[t].op \notin ResetOp /\ pc[Boot] \notin {"scan", "rescan"}
    BY <1>1 DEF LeadInv, WhoInv, CallInv, CallAt, Writing, ResetOp, Up
  <2> QED BY <1>0, <1>1, <2>1, <2>2, <2>3, LeadAside
<1>2. ASSUME NEW t \in ResetTask, ResetCall(t)
      PROVE  AheadInv' /\ WritersInv'
  <2>1. /\ t \in Task /\ pc'[t] = "copy" /\ job'[t] = JobOf("reset0")
        /\ \A q \in Proc : q # t => pc'[q] = pc[q]
    BY <1>0, <1>2 DEF ResetCall, Start, Goto, TypeInv, TypeOK, Task
  <2>2. job'[t].op = "reset0"
    BY <2>1 DEF JobOf
  <2>3. WriterAt(t)'
    BY <2>1, <2>2 DEF WriterAt, Programming, NoNewer
  <2>4. Resetting'
    BY <2>1, <2>2 DEF Resetting, ResetOp
  <2>5. \A q \in Proc : q # t => pc'[q] = "idle"
    BY <2>1, <2>2 DEF ResetsAlone, ResetOp
  <2>6. \A q \in Proc : q # t => WriterAt(q)'
    BY <2>5, NoWriterAt DEF Writing
  <2> QED BY <2>3, <2>4, <2>6 DEF AheadInv, WritersInv
<1>3. \A t \in SetTask \cup UpdpTask : t \in Task
  BY DEF Task
<1> QED BY <1>1, <1>2, <1>3 DEF Call, SetCall, SyncCall, UpdpBegin, UpdpEnd, Start

LEMMA LeadTasks ==
  ASSUME LeadInv, ResetsAlone, NEW t \in Task,
         \/ SetEnter(t) \/ SyncEnter(t)
         \/ UpdpLoad(t) \/ SaveUserMagic(t) \/ SaveUserData(t) \/ SaveUserCrc(t)
         \/ UpdpLoadNoMem(t) \/ SaveUserNoMem(t)
  PROVE  AheadInv' /\ WritersInv'
<1>0. TypeInv /\ Boot \notin Task /\ t \in Proc
  BY ConstantsDistinct DEF LeadInv, WhoInv, Proc
<1>1. /\ pc[t] \in {"enter", "load", "magic", "data", "crc"} /\ UNCHANGED <<flash, fp>>
      /\ \/ Return(t, "OK")
         \/ UNCHANGED job /\ \E l \in {"copy", "data", "crc"} : Goto(t, l)
  BY DEF SetEnter, SyncEnter, UpdpLoad, SaveUserMagic, SaveUserData, SaveUserCrc,
         SaveUserStep, UpdpLoadNoMem, SaveUserNoMem
<1>2. job[t].op \in SaveOp \cup {"none", "updp"} /\ pc[Boot] \notin {"scan", "rescan"}
  BY <1>1 DEF LeadInv, WhoInv, StartInv, CallInv, CallAt, Writing
<1>3. /\ pc'[t] \in {"idle", "copy", "data", "crc"}
      /\ pc'[t] = "copy" => job'[t] = job[t]
      /\ \A q \in Proc : q # t => pc'[q] = pc[q] /\ job'[q] = job[q]
  BY <1>0, <1>1 DEF Return, Goto, TypeInv, TypeOK
<1>4. WriterAt(t)'
  BY <1>2, <1>3 DEF WriterAt, Programming, Writing, SaveOp
<1>5. job[t].op \notin ResetOp
  BY <1>2 DEF SaveOp, ResetOp
<1> QED BY <1>0, <1>1, <1>2, <1>3, <1>4, <1>5, LeadAside

(* A write that found no memory leaves the image ahead of both copies.     *)
LEMMA LeadFaults ==
  ASSUME LeadInv, ResetsAlone, FaultsElsewhere, Fault
  PROVE  AheadInv' /\ WritersInv'
<1>0. TypeInv /\ Boot \notin Task /\ Proc = Task \cup {Boot} /\ UpdpTask \subseteq Task
  BY ConstantsDistinct DEF LeadInv, WhoInv, Proc, Task
<1>1. faults' # faults
  BY <1>0, FaultsAreCounted
<1>2. pc[Boot] = "idle" /\ ~Resetting
  BY <1>1 DEF FaultsElsewhere
<1>3. ASSUME NEW p \in Proc, WriteNoMem(p) \/ VerifyNoMem(p)
      PROVE  AheadInv' /\ WritersInv'
  <2>1. /\ pc[p] \in Programming /\ UNCHANGED flash /\ \E s : Continue(p, s)
    BY <1>3 DEF WriteNoMem, VerifyNoMem, Programming
  <2>2. p \in Task
    BY <1>0, <1>2, <2>1 DEF Programming
  <2>3. job[p].op \notin ResetOp
    BY <1>2, <2>2 DEF Resetting
  <2> QED BY <2>1, <2>3, LeadContinues
<1>4. ~BootReadNoMem /\ ~BootNoMem
  BY <1>2 DEF BootReadNoMem, BootNoMem, Scan
<1> QED BY <1>0, <1>3, <1>4, LeadTasks DEF Fault

LEMMA LeadStep ==
  ASSUME LeadInv, Disciplined, ResetsAlone', BeforeWrap,
         [Next]_vars, [FaultsElsewhere]_vars
  PROVE  LeadInv'
<1>0. WhoInv' /\ Boot \in Proc /\ Task \subseteq Proc /\ ResetsAlone
  BY WhoStep, BootIsProc DEF LeadInv, Disciplined
<1>1. CASE UNCHANGED vars
  BY <1>0, <1>1
  DEF vars, LeadInv, AheadInv, WritersInv, WriterAt, Resetting, NoNewer
<1>2. ASSUME NEW p \in Proc, ParamToFlash(p)
      PROVE  AheadInv' /\ WritersInv'
  BY <1>0, <1>2, LeadCopies, LeadSeals, LeadProgram, LeadVerifies DEF ParamToFlash
<1>3. CASE BootStep
  BY <1>0, <1>2, <1>3, LeadScans DEF BootStep, LeadInv
<1>4. CASE \E t \in Task : TaskStep(t)
  BY <1>0, <1>2, <1>4, LeadTasks DEF TaskStep, LeadInv
<1>5. CASE Call
  BY <1>0, <1>5, LeadCalls DEF LeadInv
<1>6. CASE Fault
  <2>1. faults' # faults
    BY <1>6, FaultsAreCounted DEF LeadInv, WhoInv
  <2>2. FaultsElsewhere
    BY <2>1 DEF vars
  <2> QED BY <1>0, <1>6, <2>2, LeadFaults DEF LeadInv
<1>7. CASE PowerLoss
  <2>1. pc'[Boot] = "scan" /\ \A q \in Proc : pc'[q] \notin Writing
    BY <1>0, <1>7 DEF PowerLoss, Writing
  <2> QED BY <1>0, <2>1, NoWriterAt DEF LeadInv, AheadInv, WritersInv
<1> QED BY <1>1, <1>3, <1>4, <1>5, <1>6, <1>7 DEF Next

LEMMA LeadInitially == Init => LeadInv
<1> SUFFICES ASSUME Init PROVE LeadInv
  OBVIOUS
<1>1. TypeInv /\ KnownInv
  BY TypeInitially, KnownInitially
<1>2. pc[Boot] = "scan" /\ \A q \in Proc : pc[q] \notin Writing
  BY BootIsProc DEF Init, Writing
<1> QED BY <1>1, <1>2
        DEF KnownInv, LeadInv, AheadInv, WritersInv, WriterAt, Programming, Writing

(* The copy that was just programmed is the one the next boot loads.       *)
LEMMA ProgrammedIsLoaded ==
  ASSUME LeadInv, NEW t \in Task, pc[t] = "verify", job[t].op \in SaveOp
  PROVE  BootParams = fp.params
<1> DEFINE n == job[t].addr
<1>0. TypeInv /\ t \in Proc
  BY BootIsProc DEF LeadInv, WhoInv
<1>1. /\ n \in Partition /\ 1 - n \in Partition /\ n \in {0, 1}
      /\ fp = Sealed(fp.count, fp.params, n) /\ flash[n] = fp
      /\ NoNewer(1 - n, fp.count - 1)
  BY <1>0, CountIsNat
  DEF LeadInv, WritersInv, WriterAt, Programming, Partition, FixedCount, SaveOp
<1>2. Valid(flash[n])
  BY <1>0, <1>1, CountIsNat, SealedValid
<1> HIDE DEF n
<1>3. Newest(flash) = n
  BY <1>0, <1>1, <1>2, CountIsNat DEF Newest, NoNewer
<1> QED BY <1>1, <1>2, <1>3 DEF BootParams

(* While a task writes, only it touches the flash; a task that verifies    *)
(* does not.                                                               *)
LEMMA VerifierKeepsFlash ==
  ASSUME WhoInv, ResetsAlone, NEW t \in Task, pc[t] = "verify", [Next]_vars
  PROVE  UNCHANGED flash
<1>0. t \in Proc /\ Boot \in Proc /\ Task \subseteq Proc
  BY BootIsProc
<1>1. \A p \in Proc : pc[p] \notin {"erase", "program"}
  BY <1>0, OnlyWriter DEF Writing
<1> QED BY <1>0, <1>1
    DEF Next, vars, BootStep, TaskStep, ParamToFlash, Call, Fault, PowerLoss, BootScan, Scan,
        CopyFields, SealHeader, ErasePartition, ProgramPartition, VerifyPartition, SetEnter,
        SyncEnter, UpdpLoad, SaveUserMagic, SaveUserData, SaveUserCrc, SaveUserStep, SetCall,
        SyncCall, ResetCall, UpdpBegin, UpdpEnd, WriteNoMem, VerifyNoMem, BootReadNoMem,
        BootNoMem, UpdpLoadNoMem, SaveUserNoMem

(* A call that runs has no answer yet; a set that answers OK without       *)
(* writing has found updp_mode on.                                         *)
AnswerInv == \A t \in Task : pc[t] # "idle" => ret[t] = "none"

LEMMA AnswerStep ==
  ASSUME TypeInv, AnswerInv, [Next]_vars
  PROVE  AnswerInv'
<1>0. Task \subseteq Proc /\ Boot \notin Task
  BY BootIsProc, ConstantsDistinct
<1>1. CASE UNCHANGED vars
  BY <1>1 DEF AnswerInv, vars
<1>2. CASE PowerLoss
  BY <1>0, <1>2 DEF AnswerInv, PowerLoss
<1>3. CASE \E p \in Proc : OwnStep(p)
  BY <1>0, <1>3 DEF AnswerInv, OwnStep
<1> QED BY <1>0, <1>1, <1>2, <1>3, UserMoves

LEMMA EnterAnswers ==
  ASSUME TypeInv, AnswerInv, Next, NEW t \in Task, pc[t] = "enter",
         job[t].op = "set", job[t].save, ret'[t] = "OK"
  PROVE  updp
<1>0. /\ t \in Proc /\ Boot \in Proc /\ Boot \notin Task /\ Task \subseteq Proc
      /\ UpdpTask \subseteq Task /\ ret[t] = "none" /\ ret'[t] # ret[t]
  BY BootIsProc, ConstantsDistinct DEF AnswerInv, Task
<1>1. ~PowerLoss
  BY <1>0 DEF PowerLoss
<1>2. ASSUME NEW p \in Proc, OwnStep(p), p # t
      PROVE  FALSE
  BY <1>0, <1>2 DEF OwnStep
<1>3. ASSUME NEW p \in Proc, ParamToFlash(p) \/ WriteNoMem(p) \/ VerifyNoMem(p)
      PROVE  FALSE
  <2>1. p # t
    BY <1>3 DEF ParamToFlash, CopyFields, SealHeader, ErasePartition, ProgramPartition,
                VerifyPartition, WriteNoMem, VerifyNoMem
  <2> QED BY <1>2, <1>3, <2>1, WritesAside
<1>4. ~BootStep /\ ~Call
  <2>1. ~BootStep
    BY <1>0, <1>2, <1>3, ScansAside DEF BootStep
  <2>2. ASSUME Call
        PROVE  FALSE
    <3>1. PICK s \in Task : OwnStep(s) /\ AsideUser(s) /\ pc[s] = "idle"
      BY <2>2, CallsAside
    <3> QED BY <1>0, <1>2, <3>1
  <2> QED BY <2>1, <2>2
<1>5. ~Fault
  <2>1. ~BootReadNoMem /\ ~BootNoMem
    BY <1>0, <1>2, ScansAside
  <2>2. ASSUME NEW s \in UpdpTask, UpdpLoadNoMem(s) \/ SaveUserNoMem(s)
        PROVE  FALSE
    <3>1. s # t
      BY <2>2 DEF UpdpLoadNoMem, SaveUserNoMem
    <3> QED BY <1>0, <2>2, <3>1
            DEF UpdpLoadNoMem, SaveUserNoMem, Return, TypeInv, TypeOK
  <2> QED BY <1>3, <2>1, <2>2 DEF Fault
<1>6. ASSUME NEW s \in Task, TaskStep(s)
      PROVE  updp
  <2>1. CASE SetEnter(s) \/ SyncEnter(s) \/ UpdpLoad(s)
    <3>1. s = t
      BY <1>0, <1>2, <2>1, EntersAside
    <3>2. SetEnter(t)
      BY <2>1, <3>1 DEF SyncEnter, UpdpLoad
    <3>3. ~Saves(t)
      BY <1>0, <3>2 DEF SetEnter
    <3> QED BY <3>3 DEF Saves, TypeInv, TypeOK
  <2>2. CASE SaveUserMagic(s) \/ SaveUserData(s) \/ SaveUserCrc(s)
    BY <1>0, <2>2 DEF SaveUserMagic, SaveUserData, SaveUserCrc, SaveUserStep, Return,
                      TypeInv, TypeOK
  <2> QED BY <1>0, <1>3, <1>6, <2>1, <2>2 DEF TaskStep
<1> QED BY <1>1, <1>4, <1>5, <1>6 DEF Next

(* tls_param_set with to_flash that returned OK: the next boot             *)
(* loads the value, however many allocations of other calls have failed    *)
(* before and wherever the power went: a failed write moves modify_count   *)
(* on, so the next one is newer than both copies.  For any number of tasks *)
(* that set, save, reset and execute UPDP, if a reset runs alone,          *)
(* updp_mode is not switched while a set waits, tls_param_init and the     *)
(* resets get their memory, and modify_count does not come to its wrap.    *)
THEOREM SetIsSavedDespiteFaults ==
  Spec /\ [](Disciplined /\ BeforeWrap) /\ [][FaultsElsewhere]_vars => SetOkMeansSaved
<1> DEFINE H == Disciplined /\ BeforeWrap
           P == \A t \in SetTask :
                  /\ job[t].op = "set" /\ job[t].save /\ pc[t] \in {"enter", "verify"}
                  /\ ret'[t] = "OK" /\ ret[Boot] # "EMEM"
                  => \/ pc[t] = "enter" /\ updp
                     \/ BootParams'[job[t].id] = SetValue(t)
<1>1. Init => LeadInv /\ AnswerInv
  BY LeadInitially, BootIsProc DEF Init, AnswerInv
<1>2. LeadInv /\ AnswerInv /\ H /\ H' /\ [Next]_vars /\ [FaultsElsewhere]_vars
         => LeadInv' /\ AnswerInv'
  BY LeadStep, AnswerStep DEF Disciplined, LeadInv, WhoInv
<1>3. LeadInv /\ AnswerInv /\ H /\ [Next]_vars => [P]_vars
  <2> SUFFICES ASSUME LeadInv, AnswerInv, H, Next, NEW t \in SetTask,
                      job[t].op = "set", job[t].save, pc[t] \in {"enter", "verify"},
                      ret'[t] = "OK", ~(pc[t] = "enter" /\ updp)
               PROVE  BootParams'[job[t].id] = SetValue(t)
    OBVIOUS
  <2>1. t \in Task /\ t \in Proc
    BY BootIsProc DEF Task
  <2>v. pc[t] = "verify"
    BY <2>1, EnterAnswers DEF LeadInv, WhoInv
  <2>s. SetValue(t) = job[t].val
    BY <2>1, <2>v DEF SetValue, LeadInv, WhoInv, CallInv, CallAt, Writing
  <2>2. BootParams = fp.params /\ fp.params[job[t].id] = job[t].val
    BY <2>1, <2>v, ProgrammedIsLoaded DEF LeadInv, WritersInv, WriterAt, Programming, SaveOp
  <2>3. UNCHANGED flash
    BY <2>1, <2>v, VerifierKeepsFlash DEF LeadInv, Disciplined
  <2>4. BootParams' = BootParams
    BY <2>3 DEF BootParams, Newest
  <2> QED BY <2>2, <2>4, <2>s
<1>4. Spec /\ []H /\ [][FaultsElsewhere]_vars => [][P]_vars
  <2> HIDE DEF H, P
  <2> QED BY <1>1, <1>2, <1>3, PTL DEF Spec
<1> QED BY <1>4 DEF SetOkMeansSaved

-----------------------------------------------------------------------------
(* A save that fails                                                       *)

(* Two copies with one count are the two that a reset or tls_param_init    *)
(* wrote; and no copy has come near the wrap.                              *)
TieInv ==
    Valid(flash[0]) /\ Valid(flash[1]) /\ flash[0].count = flash[1].count
       => flash[0].count = 1
BelowInv == \A i \in Partition : NoNewer(i, CountModulus - 2)
HarmlessInv == /\ LeadInv /\ TieInv /\ BelowInv /\ AnswerInv
               /\ faults = 0 => StoreInv

LEMMA BelowIsNoStraddle ==
  ASSUME BelowInv
  PROVE  ~Straddle
<1>1. ASSUME Straddle
      PROVE  FALSE
  <2>1. PICK i \in Partition : Valid(flash[i]) /\ flash[i].count = CountModulus - 1
    BY <1>1 DEF Straddle, Partition
  <2> QED BY <2>1, ConstantsTyped DEF BelowInv, NoNewer
<1> QED BY <1>1

(* The flash changes by an erase or by the copy of the image.              *)
LEMMA FlashChanges ==
  ASSUME TypeInv, [Next]_vars
  PROVE  \/ \A i \in Partition : flash'[i] \in {flash[i], Damaged}
         \/ \E p \in Proc : /\ pc[p] = "program" /\ flash'[job[p].addr] = fp
                            /\ \A i \in Partition : i # job[p].addr => flash'[i] = flash[i]
<1>0. Boot \in Proc /\ Task \subseteq Proc
  BY BootIsProc
<1>1. ASSUME NEW p \in Proc, ErasePartition(p)
      PROVE  \A i \in Partition : flash'[i] \in {flash[i], Damaged}
  BY <1>1 DEF ErasePartition, TypeInv, TypeOK
<1>2. ASSUME NEW p \in Proc, ProgramPartition(p)
      PROVE  /\ pc[p] = "program" /\ flash'[job[p].addr] = fp
             /\ \A i \in Partition : i # job[p].addr => flash'[i] = flash[i]
  BY <1>2, CountIsNat DEF ProgramPartition, TypeInv, TypeOK
<1>3. CASE UNCHANGED flash
  BY <1>3
<1>4. CASE \E p \in Proc : ErasePartition(p) \/ ProgramPartition(p)
  BY <1>1, <1>2, <1>4
<1> QED BY <1>0, <1>3, <1>4
    DEF Next, vars, BootStep, TaskStep, ParamToFlash, Call, Fault, PowerLoss, BootScan, Scan,
        CopyFields, SealHeader, VerifyPartition, SetEnter,
        SyncEnter, UpdpLoad, SaveUserMagic, SaveUserData, SaveUserCrc, SaveUserStep, SetCall,
        SyncCall, ResetCall, UpdpBegin, UpdpEnd, WriteNoMem, VerifyNoMem, BootReadNoMem,
        BootNoMem, UpdpLoadNoMem, SaveUserNoMem

LEMMA CopiesStep ==
  ASSUME LeadInv, TieInv, BelowInv, BeforeWrap, [Next]_vars
  PROVE  TieInv' /\ BelowInv'
<1>0. TypeInv /\ 0 \in Partition /\ 1 \in Partition /\ ~Valid(Damaged)
  BY DEF LeadInv, WhoInv, Partition, Valid
<1>1. CASE \A i \in Partition : flash'[i] \in {flash[i], Damaged}
  BY <1>0, <1>1 DEF TieInv, BelowInv, NoNewer
<1>2. ASSUME NEW p \in Proc, pc[p] = "program", flash'[job[p].addr] = fp,
             \A i \in Partition : i # job[p].addr => flash'[i] = flash[i]
      PROVE  TieInv' /\ BelowInv'
  <2> DEFINE n == job[p].addr
  <2>1. /\ n \in {0, 1} /\ n \in Partition /\ 1 - n \in Partition /\ n # 1 - n
        /\ fp.count \in Nat /\ WriterAt(p)
    BY <1>0, CountIsNat DEF Partition, LeadInv, WritersInv
  <2>2. IF FixedCount(job[p].op) THEN fp.count = 1 ELSE NoNewer(1 - n, fp.count - 1)
    BY <1>2, <2>1 DEF WriterAt, Programming
  <2> HIDE DEF n
  <2>3. flash'[n] = fp /\ flash'[1 - n] = flash[1 - n]
    BY <1>2, <2>1 DEF n
  <2>4. Valid(flash[1 - n]) => flash[1 - n].count \in Nat
    BY <1>0, <2>1, CountIsNat
  <2>5. Valid(flash'[1 - n]) /\ flash'[n].count = flash'[1 - n].count
           => flash'[n].count = 1 /\ flash'[1 - n].count = 1
    BY <2>1, <2>2, <2>3, <2>4 DEF NoNewer
  <2>6. TieInv'
    BY <2>1, <2>5 DEF TieInv
  <2>7. fp.count <= CountModulus - 2 /\ NoNewer(1 - n, CountModulus - 2)
    BY <2>1, ConstantsTyped DEF BelowInv, BeforeWrap
  <2>8. \A i \in Partition : i = n \/ i = 1 - n
    BY <2>1 DEF Partition
  <2>9. BelowInv'
    BY <2>3, <2>7, <2>8 DEF BelowInv, NoNewer
  <2> QED BY <2>6, <2>9
<1> QED BY <1>0, <1>1, <1>2, FlashChanges

LEMMA FaultsKept ==
  ASSUME TypeInv, [Next]_vars, faults' = 0
  PROVE  faults = 0
<1>1. CASE UNCHANGED faults
  BY <1>1
<1>2. CASE Fault
  BY <1>2, FaultsAreCounted
<1> QED BY <1>1, <1>2
    DEF Next, vars, BootStep, TaskStep, ParamToFlash, Call, PowerLoss, BootScan,
        CopyFields, SealHeader, ErasePartition, ProgramPartition, VerifyPartition, SetEnter,
        SyncEnter, UpdpLoad, SaveUserMagic, SaveUserData, SaveUserCrc, SaveUserStep, SetCall,
        SyncCall, ResetCall, UpdpBegin, UpdpEnd

LEMMA HarmlessStep ==
  ASSUME Period \notin Field, HarmlessInv, Disciplined, ResetsAlone', BeforeWrap,
         [Next]_vars, [FaultsElsewhere]_vars
  PROVE  HarmlessInv'
<1>1. LeadInv' /\ TieInv' /\ BelowInv'
  BY LeadStep, CopiesStep DEF HarmlessInv
<1>2. AnswerInv'
  BY AnswerStep DEF HarmlessInv, LeadInv, WhoInv
<1>3. ~Straddle
  BY BelowIsNoStraddle DEF HarmlessInv
<1>4. ~Straddle'
  <2>1. ASSUME Straddle'
        PROVE  FALSE
    <3>1. PICK i \in Partition : Valid(flash'[i]) /\ flash'[i].count = CountModulus - 1
      BY <2>1 DEF Straddle, Partition
    <3> QED BY <1>1, <3>1, ConstantsTyped DEF BelowInv, NoNewer
  <2> QED BY <2>1
<1>5. ASSUME faults' = 0
      PROVE  StoreInv'
  <2>1. faults = 0
    BY <1>5, FaultsKept DEF HarmlessInv, LeadInv, WhoInv
  <2>2. KnownInv
    BY <2>1 DEF HarmlessInv, LeadInv, KnownInv
  <2> QED BY <1>3, <1>4, <1>5, <2>2, KnownStep DEF KnownInv
<1> QED BY <1>1, <1>2, <1>5 DEF HarmlessInv

(* Before the erase the next boot still loads what was reported as saved.  *)
LEMMA UntouchedIsLoaded ==
  ASSUME LeadInv, StoreInv, TieInv, BelowInv,
         NEW t \in Task, pc[t] = "erase", job[t].op \in SaveOp
  PROVE  BootParams = acked
<1> DEFINE n == job[t].addr
           m == 1 - n
<1>0. TypeInv /\ TypeOK /\ t \in Proc
  BY BootIsProc DEF LeadInv, WhoInv, TypeInv
<1>1. n \in Partition /\ m \in Partition /\ n \in {0, 1} /\ m = 1 - n /\ n = 1 - m
  BY <1>0, CountIsNat DEF Partition
<1>2. /\ Valid(flash[n]) /\ Valid(flash[m]) /\ flash[m].params = acked
      /\ Succ(flash[m].count) = fp.count
  BY <1>1 DEF StoreInv, SavingInv, SavingAt, Holds, Replacing, Intact
<1>3. NoNewer(n, fp.count - 1)
  BY <1>0 DEF LeadInv, WritersInv, WriterAt, FixedCount, SaveOp
<1>4. flash[m].count \in Count /\ flash[n].count \in Count /\ fp.count \in Nat
  BY <1>0, <1>1, <1>2, IntactType, CountIsNat
<1> HIDE DEF n, m
<1>5. fp.count = flash[m].count + 1
  BY <1>1, <1>2, <1>4, SuccCases, ConstantsTyped DEF BelowInv, NoNewer, Count
<1>6. flash[n].count <= flash[m].count
  BY <1>2, <1>3, <1>4, <1>5 DEF NoNewer, Count
<1>7. CASE flash[n].count < flash[m].count
  BY <1>1, <1>2, <1>4, <1>7 DEF BootParams, Newest, Count
<1>8. CASE flash[n].count = flash[m].count
  <2>1. flash[n].count = 1 /\ flash[m].count = 1
    BY <1>1, <1>2, <1>8 DEF TieInv
  <2>2. flash[n].params = Factory /\ flash[m].params = Factory
    BY <1>1, <1>2, <2>1 DEF StoreInv, CountInv, Valid
  <2> QED BY <1>1, <1>2, <2>2 DEF BootParams, Newest
<1> QED BY <1>4, <1>6, <1>7, <1>8 DEF Count

(* A call that returns EIO has met a failing allocation.                   *)
LEMMA ErrorIsFault ==
  ASSUME LeadInv, AnswerInv, Next, NEW t \in Task, job[t].op \in SaveOp,
         pc[t] \in {"erase", "verify"}, ret'[t] = "EIO"
  PROVE  WriteNoMem(t) \/ VerifyNoMem(t)
<1>0. /\ TypeInv /\ t \in Proc /\ ret[t] = "none" /\ WriterAt(t) /\ Boot \in Proc
      /\ Boot \notin Task /\ Task \subseteq Proc /\ UpdpTask \subseteq Task
  BY BootIsProc, ConstantsDistinct DEF LeadInv, WhoInv, AnswerInv, WritersInv, Task
<1>1. ~VerifyPartition(t)
  <2> SUFFICES ASSUME VerifyPartition(t) PROVE FALSE
    OBVIOUS
  <2>1. /\ flash[job[t].addr] = fp /\ fp = Sealed(fp.count, fp.params, job[t].addr)
        /\ job[t].addr \in Partition
    BY <1>0, CountIsNat DEF VerifyPartition, WriterAt, Programming
  <2>2. fp.pnum = job[t].addr
    BY <1>0, <2>1, CountIsNat, SealedValid
  <2>3. Continue(t, "OK")
    BY <2>1, <2>2 DEF VerifyPartition
  <2>4. Return(t, "OK")
    BY <2>3 DEF Continue, SaveOp
  <2> QED BY <1>0, <2>4 DEF Return, TypeInv, TypeOK
<1>2. ~PowerLoss
  BY <1>0 DEF PowerLoss
<1>3. ASSUME NEW p \in Proc, p # t,
             ParamToFlash(p) \/ WriteNoMem(p) \/ VerifyNoMem(p)
      PROVE  FALSE
  BY <1>0, <1>3, WritesAside DEF OwnStep
<1>4. ~BootStep /\ ~(\E s \in Task : TaskStep(s)) /\ ~Call
  <2>1. ~BootStep
    BY <1>0, <1>3, ScansAside DEF BootStep, OwnStep
  <2>2. ASSUME NEW s \in Task, TaskStep(s)
        PROVE  FALSE
    <3>1. CASE ParamToFlash(s)
      <4>1. s = t
        BY <1>0, <1>3, <3>1
      <4>2. ErasePartition(t)
        BY <1>1, <3>1, <4>1 DEF ParamToFlash, CopyFields, SealHeader, ProgramPartition
      <4> QED BY <1>0, <4>2 DEF ErasePartition
    <3>2. CASE SetEnter(s) \/ SyncEnter(s) \/ UpdpLoad(s)
      <4>1. s # t
        BY <3>2 DEF SetEnter, SyncEnter, UpdpLoad
      <4> QED BY <1>0, <3>2, <4>1, EntersAside DEF OwnStep
    <3>3. CASE SaveUserMagic(s) \/ SaveUserData(s) \/ SaveUserCrc(s)
      BY <1>0, <3>3 DEF SaveUserMagic, SaveUserData, SaveUserCrc, SaveUserStep, Return,
                        TypeInv, TypeOK
    <3> QED BY <2>2, <3>1, <3>2, <3>3 DEF TaskStep
  <2>3. ASSUME Call
        PROVE  FALSE
    <3>1. PICK s \in Task : OwnStep(s) /\ AsideUser(s) /\ pc[s] = "idle"
      BY <1>0, <2>3, CallsAside
    <3> QED BY <1>0, <3>1 DEF OwnStep
  <2> QED BY <2>1, <2>2, <2>3
<1>5. CASE Fault
  <2>1. ~BootReadNoMem /\ ~BootNoMem
    BY <1>0, ScansAside DEF OwnStep
  <2>2. ASSUME NEW s \in UpdpTask, UpdpLoadNoMem(s) \/ SaveUserNoMem(s)
        PROVE  FALSE
    <3>1. s # t
      BY <2>2 DEF UpdpLoadNoMem, SaveUserNoMem
    <3> QED BY <1>0, <2>2, <3>1
            DEF UpdpLoadNoMem, SaveUserNoMem, Return, TypeInv, TypeOK
  <2> QED BY <1>3, <1>5, <2>1, <2>2 DEF Fault
<1> QED BY <1>2, <1>4, <1>5 DEF Next

(* A save that returns an error harms nothing: the next boot loads what    *)
(* was reported as saved before, or what the failed call was writing.  For *)
(* any number of tasks that set, save, reset and execute UPDP, whenever    *)
(* the power goes, and whichever one allocation of a save or a UPDP        *)
(* command fails; under the discipline of the theorems before.  With a     *)
(* second failure it is not so: the RAM image keeps the parameters of the  *)
(* first failed call, and the second one would write them too.             *)
THEOREM FailedSavesAreHarmless ==
  ASSUME Period \notin Field
  PROVE  Spec /\ [](Disciplined /\ BeforeWrap /\ faults <= 1) /\ [][FaultsElsewhere]_vars
            => FailedSaveHarmless
<1> DEFINE H == Disciplined /\ BeforeWrap /\ faults <= 1
           P == \A t \in SetTask :
           job[t].op \in {"set", "sync"} /\ pc[t] \in {"erase", "verify"} /\ ret'[t] = "EIO"
              => BootParams' \in {acked, Intended}
<1>1. Init => HarmlessInv
  <2> SUFFICES ASSUME Init PROVE HarmlessInv
    OBVIOUS
  <2>1. \A i \in Partition : ~Valid(flash[i])
    BY DEF Init, Valid
  <2>2. TieInv /\ BelowInv
    BY <2>1 DEF TieInv, BelowInv, NoNewer, Partition
  <2>3. AnswerInv
    BY BootIsProc DEF Init, AnswerInv
  <2> QED BY <2>2, <2>3, LeadInitially, KnownInitially DEF HarmlessInv, KnownInv
<1>2. HarmlessInv /\ H /\ H' /\ [Next]_vars /\ [FaultsElsewhere]_vars => HarmlessInv'
  BY HarmlessStep DEF Disciplined
<1>3. HarmlessInv /\ H /\ H' /\ [Next]_vars => [P]_vars
  <2> SUFFICES ASSUME HarmlessInv, H, H', Next, NEW t \in SetTask, job[t].op \in SaveOp,
                      pc[t] \in {"erase", "verify"}, ret'[t] = "EIO"
               PROVE  BootParams' \in {acked, Intended}
    BY DEF SaveOp
  <2>1. t \in Task /\ t \in Proc
    BY BootIsProc DEF Task
  <2>2. WriteNoMem(t) \/ VerifyNoMem(t)
    BY <2>1, ErrorIsFault DEF HarmlessInv
  <2>3. faults = 0 /\ UNCHANGED flash
    BY <2>2, FaultsCount DEF HarmlessInv, LeadInv, WhoInv, WriteNoMem, VerifyNoMem
  <2>4. BootParams' = BootParams /\ StoreInv
    BY <2>3 DEF BootParams, Newest, HarmlessInv
  <2>5. CASE pc[t] = "erase"
    BY <2>1, <2>4, <2>5, UntouchedIsLoaded DEF HarmlessInv
  <2>6. CASE pc[t] = "verify"
    <3>1. BootParams = fp.params
      BY <2>1, <2>6, ProgrammedIsLoaded DEF HarmlessInv
    <3>2. fp = Sealed(fp.count, Intended, job[t].addr)
      BY <2>1, <2>4, <2>6 DEF StoreInv, SavingInv, SavingAt, Replacing
    <3>3. fp.params = Intended
      BY <3>2 DEF Sealed
    <3> QED BY <2>4, <3>1, <3>3
  <2> QED BY <2>5, <2>6
<1>4. Spec /\ []H /\ [][FaultsElsewhere]_vars => [][P]_vars
  <2> HIDE DEF H, P
  <2> QED BY <1>1, <1>2, <1>3, PTL DEF Spec
<1> QED BY <1>4 DEF FailedSaveHarmless
=============================================================================
