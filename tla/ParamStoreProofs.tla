-------------------------- MODULE ParamStoreProofs --------------------------
(* Theorems about ParamStore, checked by TLAPS.                            *)
EXTENDS ParamStore, TLAPS

-----------------------------------------------------------------------------
(* The inductive invariant                                                 *)

(* Type correctness needs one more fact to be inductive: a set has an id.  *)
SetHasId == \A p \in Proc : job[p].op = "set" => job[p].id \in Field
TypeInv == TypeOK /\ SetHasId

(* Who is where.  sys_param_lock is held exactly by the one process that   *)
(* executes param_to_flash, and nobody runs before tls_param_init is done. *)
Writing == {"copy", "seal", "erase", "program", "verify"}
BootOp == {"init0", "init1", "restore0", "restore1"}

JobInv ==
    \A t \in Task :
       /\ pc[t] \in {"idle", "enter"} \cup Writing
       /\ pc[t] # "idle" => job[t].op \in {"set", "sync"}
       /\ job[t].op = "set" => job[t].id \in Field
       /\ job[t].op = "sync" => job[t].id = All
       /\ job[t].touser = FALSE
       /\ pc[t] \in Writing /\ job[t].op = "set" => sram[job[t].id] = job[t].val

BootInv ==
    /\ pc[Boot] \in {"idle", "scan", "rescan"} \cup Writing
    /\ pc[Boot] \in Writing => job[Boot].op \in BootOp /\ job[Boot].id = All

LockInv ==
    /\ \A t \in Task : pc[t] \in Writing <=> lock = t
    /\ pc[Boot] # "idle" <=> lock = Boot
    /\ pc[Boot] # "idle" => \A t \in Task : pc[t] = "idle"
    /\ updp = FALSE

(* Every partition is erased or intact, and two intact partitions carry    *)
(* neighbouring counts, or the same count and the same parameters.         *)
Succ(c) == (c + 1) % CountModulus
Intact(i) == Valid(flash[i]) /\ flash[i].pnum = i
ShapeInv == \A i \in Partition : flash[i] = Damaged \/ Intact(i)
PairInv ==
    Valid(flash[0]) /\ Valid(flash[1]) =>
       \/ flash[0].count = flash[1].count /\ flash[0].params = flash[1].params
       \/ Succ(flash[0].count) = flash[1].count
       \/ Succ(flash[1].count) = flash[0].count

(* Partition i is the copy in use: it holds what was reported as saved,    *)
(* and the other copy is older, equal, or looks newer because of a wrap.   *)
CurrentAt(i) ==
    /\ Intact(i) /\ Intact(1 - i)
    /\ flash[i].params = acked
    /\ \/ Succ(flash[1 - i].count) = flash[i].count
       \/ flash[1 - i].count = flash[i].count /\ flash[1 - i].params = acked
       \/ flash[i].count = CountModulus - 1 /\ flash[1 - i].count = 0
Current == CurrentAt(fp.pnum) /\ fp.count = flash[fp.pnum].count

(* p is writing q to partition n with the count that follows the other's.  *)
Replacing(p, n, q) ==
    /\ job[p].addr = n
    /\ fp = Sealed(fp.count, q, n)
    /\ Intact(1 - n) /\ flash[1 - n].params = acked
    /\ Succ(flash[1 - n].count) = fp.count

IdleInv == lock = NoProc => Current /\ fp.params = acked

UpdateInv ==
    \A t \in Task :
       /\ pc[t] = "copy" => Current /\ fp.params = acked
       /\ pc[t] = "seal" => Current /\ fp.params = Intended
       /\ pc[t] \in {"erase", "program", "verify"} =>
             Replacing(t, job[t].addr, Intended)
       /\ pc[t] = "erase" => CurrentAt(1 - job[t].addr)
       /\ pc[t] = "program" => flash[job[t].addr] = Damaged
       /\ pc[t] = "verify" => flash[job[t].addr] = fp

ScanInv ==
    /\ pc[Boot] \in {"scan", "rescan"} => BootParams = acked
    /\ pc[Boot] = "rescan" => flash[0] = Damaged /\ flash[1] = Damaged

InitInv ==
    pc[Boot] \in Writing /\ job[Boot].op \in {"init0", "init1"} =>
       LET n == IF job[Boot].op = "init0" THEN 0 ELSE 1
       IN  /\ sram = Factory /\ acked = Factory
           /\ n = 0 => flash[1] = Damaged
           /\ n = 1 => flash[0] = Sealed(1, Factory, 0)
           /\ pc[Boot] # "verify" => flash[n] = Damaged
           /\ pc[Boot] = "seal" => fp.params = Factory
           /\ pc[Boot] \in {"erase", "program", "verify"} =>
                 fp = Sealed(1, Factory, n) /\ job[Boot].addr = n
           /\ pc[Boot] = "verify" => flash[n] = fp

RestoreInv ==
    pc[Boot] \in Writing /\ job[Boot].op \in {"restore0", "restore1"} =>
       LET n == IF job[Boot].op = "restore0" THEN 0 ELSE 1
       IN  /\ sram = acked
           /\ Intact(1 - n) /\ flash[1 - n].params = acked
           /\ pc[Boot] # "verify" => flash[n] = Damaged
           /\ pc[Boot] \in {"copy", "seal"} =>
                 fp.params = acked /\ fp.count = flash[1 - n].count
           /\ pc[Boot] \in {"erase", "program", "verify"} => Replacing(Boot, n, acked)
           /\ pc[Boot] = "verify" => flash[n] = fp

ControlInv == TypeInv /\ JobInv /\ BootInv /\ LockInv
DataInv == /\ ShapeInv /\ PairInv /\ IdleInv /\ UpdateInv
           /\ ScanInv /\ InitInv /\ RestoreInv

(* The circumstances under which updates are durable: nobody resets to     *)
(* factory settings (tls_param_to_default ignores the lock), no UPDP       *)
(* command runs, allocations succeed, and the id whose case falls through  *)
(* is not used.                                                            *)
Undisturbed == /\ ResetTask = {} /\ UpdpTask = {} /\ MaxFault = 0
               /\ Period \notin Field

-----------------------------------------------------------------------------

(* Boot is a process of its own: it is none of the tasks.                  *)
LEMMA BootIsProc == Boot \in Proc /\ Task \subseteq Proc
BY DEF Proc

LEMMA ConstantsInType ==
    /\ NoJob \in Job
    /\ ZeroParams \in Params
    /\ ZeroFlashParam \in FlashParam
    /\ 1 \in Count /\ 0 \in Count
<1>1. 1 \in Count /\ 0 \in Count
  BY ConstantsTyped DEF Count
<1>2. ZeroParams \in Params
  BY ConstantsTyped DEF ZeroParams, Params
<1>3. NoJob \in Job
  BY ConstantsTyped DEF NoJob, JobOf, Job, Op, Partition
<1>4. ZeroFlashParam \in FlashParam
  BY <1>1, <1>2 DEF ZeroFlashParam, FlashParam, ZeroContent, Content, Partition
<1> QED BY <1>1, <1>2, <1>3, <1>4

LEMMA SuccInCount ==
  ASSUME NEW c \in Count
  PROVE  (c + 1) % CountModulus \in Count
BY ConstantsTyped DEF Count

LEMMA TargetInPartition ==
  ASSUME NEW o, NEW n \in Partition
  PROVE  TargetOf(o, n) \in Partition
BY DEF TargetOf, Partition

LEMMA SealedInType ==
  ASSUME NEW c \in Count, NEW q \in Params, NEW n \in Partition
  PROVE  Sealed(c, q, n) \in FlashParam
BY DEF Sealed, FlashParam, Content

(* The three ways a step of a call ends keep the types.                    *)
LEMMA ReturnType ==
  ASSUME TypeOK, NEW p \in Proc, NEW s \in Status, Return(p, s)
  PROVE  /\ job' \in [Proc -> Job] /\ pc' \in [Proc -> PC]
         /\ ret' \in [Proc -> Status] /\ lock' \in Proc \cup {NoProc}
BY ConstantsInType DEF TypeOK, Return, Goto, PC

LEMMA GotoType ==
  ASSUME TypeOK, NEW p \in Proc, NEW l \in PC, Goto(p, l)
  PROVE  pc' \in [Proc -> PC]
BY DEF TypeOK, Goto

LEMMA StartType ==
  ASSUME TypeOK, NEW p \in Proc, NEW o \in Op, NEW l \in PC, Start(p, o, l)
  PROVE  /\ job' \in [Proc -> Job] /\ pc' \in [Proc -> PC]
         /\ ret' \in [Proc -> Status]
<1>1. JobOf(o) \in Job
  BY ConstantsTyped DEF JobOf, Job, Partition
<1> QED BY <1>1 DEF TypeOK, Start, Goto, Status

LEMMA CopiedType ==
  ASSUME TypeOK, NEW S
  PROVE  [fp EXCEPT !.params = [f \in Field |-> IF f \in S THEN sram[f]
                                                ELSE fp.params[f]]] \in FlashParam
BY DEF TypeOK, FlashParam, Params

LEMMA ReportType ==
  ASSUME TypeOK, NEW q \in Params, Report(q)
  PROVE  acked' \in Params /\ prev' \in Params
BY DEF TypeOK, Report

LEMMA ContinueType ==
  ASSUME TypeOK, NEW p \in Proc, NEW s \in {"OK", "EIO"}, Continue(p, s),
         job[p].op = "set" => job[p].id \in Field
  PROVE  /\ fp' \in FlashParam /\ lock' \in Proc \cup {NoProc}
         /\ pc' \in [Proc -> PC] /\ job' \in [Proc -> Job]
         /\ ret' \in [Proc -> Status]
         /\ acked' \in Params /\ prev' \in Params
<1> s \in Status
  BY DEF Status
<1>0. job[p] \in Job
  BY DEF TypeOK
<1>1. CASE job[p].op \in {"set", "sync"}
  <2> DEFINE a == IF job[p].op = "set"
                  THEN [acked EXCEPT ![job[p].id] = SetValue(p)]
                  ELSE [f \in Field |-> IF job[p].id \in {f, All}
                                        THEN sram[f] ELSE acked[f]]
  <2>0. job[p].id \in Field => SetValue(p) \in Value
    BY <1>0 DEF SetValue, TypeOK, Params, Job
  <2>1. a \in Params
    BY <1>0, <2>0 DEF TypeOK, Params, Job
  <2>2. Return(p, s) /\ UNCHANGED fp /\ (Report(a) \/ UNCHANGED <<acked, prev>>)
    BY <1>1 DEF Continue
  <2> HIDE DEF a
  <2>3. acked' \in Params /\ prev' \in Params
    BY <2>1, <2>2, ReportType DEF TypeOK
  <2> QED BY <2>2, <2>3, ReturnType DEF TypeOK
<1>2. CASE job[p].op \in {"reset0", "init0"} /\ s = "OK"
  <2>1. /\ job' = [job EXCEPT ![p].op = IF job[p].op = "reset0"
                                        THEN "reset1" ELSE "init1"]
        /\ Goto(p, "copy")
        /\ UNCHANGED <<fp, lock, ret, acked, prev>>
    BY <1>2 DEF Continue
  <2>2. job' \in [Proc -> Job]
    BY <2>1 DEF TypeOK, Job, Op
  <2> QED BY <2>1, <2>2 DEF TypeOK, Goto, PC
<1>3. CASE \/ job[p].op \in {"reset0", "init0"} /\ s # "OK"
           \/ job[p].op \in {"init1", "restore0", "restore1"}
  <2>1. Return(p, s) /\ UNCHANGED <<fp, acked, prev>>
    BY <1>3 DEF Continue
  <2> QED BY <2>1, ReturnType DEF TypeOK
<1>4. CASE job[p].op = "reset1"
  <2>1. Return(p, s) /\ fp' = [fp EXCEPT !.magic = FALSE]
        /\ (Report(Factory) \/ UNCHANGED <<acked, prev>>)
    BY <1>4 DEF Continue
  <2>2. fp' \in FlashParam
    BY <2>1 DEF TypeOK, FlashParam
  <2>3. acked' \in Params /\ prev' \in Params
    BY <2>1, ReportType, ConstantsTyped DEF TypeOK
  <2> QED BY <2>1, <2>2, <2>3, ReturnType
<1> QED BY <1>1, <1>2, <1>3, <1>4 DEF Continue


LEMMA ContinueId ==
  ASSUME TypeInv, NEW p \in Proc, NEW s, Continue(p, s)
  PROVE  SetHasId'
<1>1. CASE job' = [job EXCEPT ![p] = NoJob]
  BY <1>1 DEF TypeInv, TypeOK, SetHasId, NoJob, JobOf
<1>2. CASE job' = [job EXCEPT ![p].op = IF job[p].op = "reset0"
                                       THEN "reset1" ELSE "init1"]
  BY <1>2 DEF TypeInv, TypeOK, SetHasId, Job
<1> QED BY <1>1, <1>2 DEF Continue, Return

(* Every step of param_to_flash keeps the types.                           *)
LEMMA ParamToFlashType ==
  ASSUME TypeInv, NEW p \in Proc, ParamToFlash(p)
  PROVE  TypeInv'
<1> USE DEF TypeInv
<1>1. CASE CopyFields(p)
  <2>1. fp' \in FlashParam
    BY <1>1, CopiedType DEF CopyFields
  <2>2. pc' \in [Proc -> PC]
    BY <1>1 DEF CopyFields, TypeOK, Goto, PC
  <2> QED BY <1>1, <2>1, <2>2 DEF CopyFields, TypeOK, SetHasId
<1>2. CASE SealHeader(p)
  <2> DEFINE n == TargetOf(job[p].op, fp.pnum)
             c == NextCount(job[p].op, fp.count)
  <2>1. fp.pnum \in Partition /\ fp.count \in Count /\ fp.params \in Params
    BY DEF TypeOK, FlashParam
  <2>2. n \in Partition /\ c \in Count
    BY <2>1, TargetInPartition, SuccInCount, ConstantsInType DEF NextCount
  <2>3. /\ fp' = Sealed(c, fp.params, n)
        /\ job' = [job EXCEPT ![p].addr = n]
        /\ pc' = [pc EXCEPT ![p] = "erase"]
        /\ UNCHANGED <<flash, user, sram, udp, updp, lock, ret, acked, prev,
                       crashes, faults>>
    BY <1>2 DEF SealHeader, Goto
  <2> HIDE DEF n, c
  <2>4. fp' \in FlashParam
    BY <2>1, <2>2, <2>3, SealedInType
  <2>5. job' \in [Proc -> Job] /\ SetHasId'
    BY <2>2, <2>3 DEF TypeOK, Job, SetHasId
  <2> QED BY <2>3, <2>4, <2>5 DEF TypeOK, PC
<1>3. CASE ErasePartition(p)
  BY <1>3 DEF ErasePartition, TypeOK, Goto, PC, SetHasId
<1>4. CASE ProgramPartition(p)
  BY <1>4 DEF ProgramPartition, TypeOK, Goto, PC, SetHasId
<1>5. CASE VerifyPartition(p)
  <2>1. PICK s \in {"OK", "EIO"} : Continue(p, s)
    BY <1>5 DEF VerifyPartition
  <2>2. SetHasId'
    BY <2>1, ContinueId
  <2> QED BY <1>5, <2>1, <2>2, ContinueType DEF VerifyPartition, TypeOK, SetHasId
<1> QED BY <1>1, <1>2, <1>3, <1>4, <1>5 DEF ParamToFlash

LEMMA NewestInPartition ==
  ASSUME NEW f
  PROVE  Newest(f) \in Partition
BY DEF Newest, Partition

(* A pass of tls_param_init over the partitions keeps the types.           *)
LEMMA ScanType ==
  ASSUME TypeInv, NEW miss, Scan(miss), faults' \in 0 .. MaxFault
  PROVE  TypeInv'
<1> DEFINE seen == [i \in Partition |-> IF i \in miss THEN Damaged ELSE flash[i]]
           bad == {i \in Partition : ~Valid(seen[i])}
           n == Newest(seen)
<1> USE DEF TypeInv
<1>0. UNCHANGED <<flash, user, udp, updp, acked, prev, crashes>>
  BY DEF Scan
<1>1. n \in Partition /\ (bad # Partition => Valid(seen[n]))
  BY NewestInPartition DEF Newest, Partition
<1>2. bad # Partition => seen[n] \in FlashParam
  BY <1>1 DEF TypeOK, Valid
<1>3. CASE /\ Goto(Boot, AfterDamaged("scan"))
           /\ UNCHANGED <<fp, sram, job, ret, lock>>
  <2>1. AfterDamaged("scan") \in PC
    BY DEF AfterDamaged, PC
  <2>2. pc' \in [Proc -> PC]
    BY <1>3, <2>1, BootIsProc, GotoType
  <2> QED BY <1>0, <1>3, <2>2 DEF TypeOK, SetHasId
<1>4. CASE /\ sram' = Factory
           /\ Start(Boot, "init0", AfterDamaged("rescan"))
           /\ UNCHANGED <<fp, lock>>
  <2>1. AfterDamaged("rescan") \in PC /\ "init0" \in Op
    BY DEF AfterDamaged, PC, Op
  <2>2. job' \in [Proc -> Job] /\ pc' \in [Proc -> PC] /\ ret' \in [Proc -> Status]
    BY <1>4, <2>1, BootIsProc, StartType
  <2>3. SetHasId'
    BY <1>4, BootIsProc DEF Start, TypeOK, SetHasId, NoJob, JobOf
  <2> QED BY <1>0, <1>4, <2>2, <2>3, ConstantsTyped DEF TypeOK
<1>5. CASE /\ bad # Partition
           /\ fp' = seen[n] /\ sram' = seen[n].params
           /\ Return(Boot, "OK")
  <2>1. "OK" \in Status
    BY DEF Status
  <2>2. SetHasId'
    BY <1>5, BootIsProc DEF Return, TypeOK, SetHasId, NoJob, JobOf
  <2>3. fp' \in FlashParam /\ sram' \in Params
    BY <1>2, <1>5 DEF FlashParam
  <2> QED BY <1>0, <1>5, <2>1, <2>2, <2>3, BootIsProc, ReturnType DEF TypeOK
<1>6. ASSUME bad # Partition, fp' = seen[n], sram' = seen[n].params,
             NEW o \in {"restore0", "restore1"},
             Start(Boot, o, "copy"), UNCHANGED lock
      PROVE  TypeInv'
  <2>1. "copy" \in PC /\ o \in Op
    BY DEF PC, Op
  <2>2. job' \in [Proc -> Job] /\ pc' \in [Proc -> PC] /\ ret' \in [Proc -> Status]
    BY <1>6, <2>1, BootIsProc, StartType
  <2>3. SetHasId'
    BY <1>6, BootIsProc DEF Start, TypeOK, SetHasId, NoJob, JobOf
  <2>4. fp' \in FlashParam /\ sram' \in Params
    BY <1>2, <1>6 DEF FlashParam
  <2> QED BY <1>0, <1>6, <2>2, <2>3, <2>4 DEF TypeOK
<1> QED BY <1>3, <1>4, <1>5, <1>6 DEF Scan

LEMMA FaultType ==
  ASSUME TypeInv, Fault
  PROVE  TypeInv'
<1> USE DEF TypeInv
<1>0. AllocFails => faults' \in 0 .. MaxFault
  BY ConstantsTyped DEF AllocFails, TypeOK
<1>1. ASSUME NEW p \in Proc, WriteNoMem(p) \/ VerifyNoMem(p)
      PROVE  TypeInv'
  <2>1. PICK s \in {"OK", "EIO"} : Continue(p, s)
    BY <1>1 DEF WriteNoMem, VerifyNoMem
  <2>2. SetHasId'
    BY <2>1, ContinueId
  <2>3. AllocFails /\ UNCHANGED <<flash, user, sram, udp, updp, crashes>>
    BY <1>1 DEF WriteNoMem, VerifyNoMem
  <2> QED BY <1>0, <2>1, <2>2, <2>3, ContinueType DEF TypeOK, SetHasId
<1>2. CASE BootNoMem
  <2>1. "EMEM" \in Status /\ Return(Boot, "EMEM") /\ AllocFails
    BY <1>2 DEF Status, BootNoMem
  <2>2. SetHasId'
    BY <2>1, BootIsProc DEF Return, TypeOK, SetHasId, NoJob, JobOf
  <2> QED BY <1>0, <1>2, <2>1, <2>2, BootIsProc, ReturnType DEF BootNoMem, TypeOK
<1>3. ASSUME AllocFails, NEW i \in Partition, Scan({i})
      PROVE  TypeInv'
  BY <1>0, <1>3, ScanType DEF TypeOK
<1>4. ASSUME NEW t \in UpdpTask, UpdpLoadNoMem(t) \/ SaveUserNoMem(t)
      PROVE  TypeInv'
  <2>0. t \in Proc /\ "OK" \in Status
    BY DEF Proc, Task, Status
  <2>1. udp' \in Params /\ user' \in UserSector /\ faults' \in 0 .. MaxFault
    BY <1>0, <1>4, ConstantsInType
    DEF UpdpLoadNoMem, SaveUserNoMem, SectorsWith, TypeOK, UserSector
  <2>2. UNCHANGED <<flash, fp, sram, updp, acked, prev, crashes>>
    BY <1>4 DEF UpdpLoadNoMem, SaveUserNoMem
  <2>3. CASE Return(t, "OK")
    <3>1. SetHasId'
      BY <2>3 DEF Return, TypeOK, SetHasId, NoJob, JobOf
    <3> QED BY <2>0, <2>1, <2>2, <2>3, <3>1, ReturnType DEF TypeOK
  <2>4. ASSUME NEW l \in {"data", "crc"}, Goto(t, l), UNCHANGED <<lock, job, ret>>
        PROVE  TypeInv'
    BY <2>0, <2>1, <2>2, <2>4 DEF TypeOK, SetHasId, Goto, PC
  <2> QED BY <1>4, <2>3, <2>4 DEF UpdpLoadNoMem, SaveUserNoMem
<1> QED BY <1>1, <1>2, <1>3, <1>4 DEF Fault, BootReadNoMem

LEMMA ReturnKeepsType ==
  ASSUME TypeInv, NEW p \in Proc, NEW s \in Status, Return(p, s),
         flash' \in [Partition -> FlashParam \cup {Damaged}],
         user' \in UserSector, sram' \in Params, udp' \in Params,
         acked' \in Params, UNCHANGED <<fp, updp, prev, crashes, faults>>
  PROVE  TypeInv'
<1>1. SetHasId'
  BY DEF Return, TypeInv, TypeOK, SetHasId, NoJob, JobOf
<1> QED BY <1>1, ReturnType DEF TypeInv, TypeOK

(* The steps of a call, and the calls themselves, keep the types.          *)
LEMMA TaskStepType ==
  ASSUME TypeInv, NEW t \in Task, TaskStep(t)
  PROVE  TypeInv'
<1> t \in Proc
  BY BootIsProc
<1> "OK" \in Status
  BY DEF Status
<1>0. job[t] \in Job
  BY DEF TypeInv, TypeOK
<1>1. CASE ParamToFlash(t)
  BY <1>1, ParamToFlashType
<1>2. CASE SetEnter(t)
  <2>1. job[t].id \in Field /\ job[t].val \in Value
    BY <1>0, <1>2 DEF SetEnter, TypeInv, SetHasId, Job
  <2>2. sram' \in Params /\ udp' \in Params
    BY <1>2, <2>1 DEF SetEnter, TypeInv, TypeOK, Params
  <2>3. CASE Return(t, "OK")
    BY <1>2, <2>2, <2>3, ReturnKeepsType DEF SetEnter, TypeInv, TypeOK
  <2>4. CASE lock' = t /\ Goto(t, "copy") /\ UNCHANGED <<job, ret>>
    BY <1>2, <2>2, <2>4 DEF SetEnter, TypeInv, TypeOK, SetHasId, Goto, PC
  <2> QED BY <1>2, <2>3, <2>4 DEF SetEnter
<1>3. CASE SyncEnter(t)
  <2>1. CASE Return(t, "OK") /\ acked' = sram /\ UNCHANGED prev
    BY <1>3, <2>1, ReturnKeepsType DEF SyncEnter, TypeInv, TypeOK
  <2>2. CASE lock' = t /\ Goto(t, "copy") /\ UNCHANGED <<job, ret, acked, prev>>
    BY <1>3, <2>2 DEF SyncEnter, TypeInv, TypeOK, SetHasId, Goto, PC
  <2> QED BY <1>3, <2>1, <2>2 DEF SyncEnter
<1>4. CASE UpdpLoad(t)
  <2>1. udp' \in Params
    BY <1>4 DEF UpdpLoad, TypeInv, TypeOK, UserSector
  <2> QED BY <1>4, <2>1, ReturnKeepsType DEF UpdpLoad, TypeInv, TypeOK
<1>5. CASE SaveUserMagic(t)
  BY <1>5 DEF SaveUserMagic, SaveUserStep, TypeInv, TypeOK, SetHasId, Goto, PC, UserSector
<1>6. CASE SaveUserData(t)
  BY <1>6 DEF SaveUserData, SaveUserStep, TypeInv, TypeOK, SetHasId, Goto, PC, UserSector
<1>7. CASE SaveUserCrc(t)
  <2>1. user' \in UserSector
    BY <1>7 DEF SaveUserCrc, TypeInv, TypeOK, UserSector
  <2> QED BY <1>7, <2>1, ReturnKeepsType DEF SaveUserCrc, TypeInv, TypeOK
<1> QED BY <1>1, <1>2, <1>3, <1>4, <1>5, <1>6, <1>7 DEF TaskStep

LEMMA NewJobType ==
  ASSUME TypeInv, NEW t \in Proc, NEW j \in Job, NEW l \in PC,
         j.op = "set" => j.id \in Field,
         job' = [job EXCEPT ![t] = j],
         ret' = [ret EXCEPT ![t] = "none"], Goto(t, l)
  PROVE  /\ job' \in [Proc -> Job] /\ pc' \in [Proc -> PC]
         /\ ret' \in [Proc -> Status] /\ SetHasId'
<1>1. SetHasId'
  BY DEF TypeInv, TypeOK, SetHasId
<1> QED BY <1>1 DEF TypeInv, TypeOK, Goto, Status

LEMMA CallType ==
  ASSUME TypeInv, Call
  PROVE  TypeInv'
<1>1. ASSUME NEW t \in SetTask, NEW id \in Field, NEW v \in Value,
             NEW save \in BOOLEAN, SetCall(t, id, v, save)
      PROVE  TypeInv'
  <2> DEFINE j == [op |-> "set", id |-> id, val |-> v, save |-> save,
                   touser |-> updp, addr |-> 0]
  <2>1. j \in Job /\ "enter" \in PC /\ t \in Proc /\ j.id \in Field
    BY DEF Job, Op, PC, Partition, Proc, Task, TypeInv, TypeOK
  <2>2. /\ job' = [job EXCEPT ![t] = j]
        /\ ret' = [ret EXCEPT ![t] = "none"] /\ Goto(t, "enter")
    BY <1>1 DEF SetCall
  <2> HIDE DEF j
  <2> QED BY <1>1, <2>1, <2>2, NewJobType DEF SetCall, TypeInv, TypeOK
<1>3. ASSUME NEW t \in Proc, NEW o \in {"sync", "reset0", "updp"},
             NEW l \in {"enter", "copy", "load", "magic"}, Start(t, o, l),
             sram' \in Params, updp' \in BOOLEAN,
             UNCHANGED <<flash, user, fp, udp, lock, acked, prev, crashes, faults>>
      PROVE  TypeInv'
  <2>1. l \in PC /\ o \in Op
    BY DEF PC, Op
  <2>2. SetHasId'
    BY <1>3 DEF Start, TypeInv, TypeOK, SetHasId, JobOf
  <2> QED BY <1>3, <2>1, <2>2, StartType DEF TypeInv, TypeOK
<1>2. ASSUME NEW t \in SetTask, SyncCall(t)
      PROVE  TypeInv'
  <2>1. t \in Proc /\ sram' \in Params /\ updp' \in BOOLEAN
    BY <1>2 DEF Proc, Task, SyncCall, TypeInv, TypeOK
  <2> QED BY <1>2, <1>3, <2>1 DEF SyncCall
<1>4. ASSUME NEW t \in ResetTask, ResetCall(t)
      PROVE  TypeInv'
  <2>1. t \in Proc /\ sram' \in Params /\ updp' \in BOOLEAN
    BY <1>4, ConstantsTyped DEF Proc, Task, ResetCall, TypeInv, TypeOK
  <2> QED BY <1>3, <1>4, <2>1 DEF ResetCall
<1>5. ASSUME NEW t \in UpdpTask, UpdpBegin(t) \/ UpdpEnd(t)
      PROVE  TypeInv'
  <2>1. t \in Proc /\ sram' \in Params /\ updp' \in BOOLEAN
    BY <1>5 DEF Proc, Task, UpdpBegin, UpdpEnd, TypeInv, TypeOK
  <2> QED BY <1>3, <1>5, <2>1 DEF UpdpBegin, UpdpEnd
<1> QED BY <1>1, <1>2, <1>4, <1>5 DEF Call

LEMMA BootParamsType ==
  ASSUME TypeOK
  PROVE  BootParams \in Params
<1> DEFINE n == Newest(flash)
<1>1. n \in Partition /\ (Valid(flash[0]) \/ Valid(flash[1]) => Valid(flash[n]))
  BY NewestInPartition DEF Newest
<1>2. Valid(flash[n]) => flash[n].params \in Params
  BY <1>1 DEF TypeOK, Valid, FlashParam
<1> QED BY <1>1, <1>2, ConstantsTyped DEF BootParams

LEMMA PowerLossType ==
  ASSUME TypeInv, PowerLoss
  PROVE  TypeInv'
<1>1. user' \in UserSector
  <2>1. [magic |-> FALSE, params |-> ZeroParams, crc |-> ZeroParams] \in UserSector
    BY ConstantsInType DEF UserSector
  <2> QED BY <2>1 DEF PowerLoss, TypeInv, TypeOK
<1>2. crashes' \in 0 .. MaxCrash
  BY ConstantsTyped DEF PowerLoss, TypeInv, TypeOK
<1>3. acked' \in Params /\ prev' \in Params
  BY BootParamsType DEF PowerLoss, TypeInv, TypeOK
<1>4. SetHasId'
  BY DEF PowerLoss, SetHasId, NoJob, JobOf
<1>5. pc' \in [Proc -> PC] /\ job' \in [Proc -> Job] /\ ret' \in [Proc -> Status]
  BY ConstantsInType DEF PowerLoss, PC, Status
<1>6. lock' \in Proc \cup {NoProc}
  BY BootIsProc DEF PowerLoss
<1> QED
  BY <1>1, <1>2, <1>3, <1>4, <1>5, <1>6, ConstantsInType
  DEF PowerLoss, TypeInv, TypeOK

LEMMA TypeInitially == Init => TypeInv
<1> SUFFICES ASSUME Init PROVE TypeInv
  OBVIOUS
<1>1. pc \in [Proc -> PC] /\ job \in [Proc -> Job] /\ ret \in [Proc -> Status]
  BY ConstantsInType DEF Init, PC, Status
<1>2. SetHasId
  BY DEF Init, SetHasId, NoJob, JobOf
<1>3. user \in UserSector
  BY ConstantsInType DEF Init, UserSector
<1>4. crashes \in 0 .. MaxCrash /\ faults \in 0 .. MaxFault
  BY ConstantsTyped DEF Init
<1>5. flash \in [Partition -> FlashParam \cup {Damaged}] /\ fp \in FlashParam
  BY ConstantsInType DEF Init
<1>6. /\ sram \in Params /\ udp \in Params /\ updp \in BOOLEAN
      /\ lock \in Proc \cup {NoProc} /\ acked \in Params /\ prev \in Params
  BY ConstantsInType, ConstantsTyped, BootIsProc DEF Init
<1> QED BY <1>1, <1>2, <1>3, <1>4, <1>5, <1>6 DEF TypeInv, TypeOK

LEMMA TypeStep == TypeInv /\ [Next]_vars => TypeInv'
<1> SUFFICES ASSUME TypeInv, [Next]_vars PROVE TypeInv'
  OBVIOUS
<1>1. CASE BootStep
  <2>1. CASE BootScan
    BY <2>1, ScanType DEF BootScan, TypeInv, TypeOK
  <2> QED BY <1>1, <2>1, ParamToFlashType, BootIsProc DEF BootStep
<1>2. CASE \E t \in Task : TaskStep(t)
  BY <1>2, TaskStepType
<1>3. CASE UNCHANGED vars
  BY <1>3 DEF vars, TypeInv, TypeOK, SetHasId
<1> QED BY <1>1, <1>2, <1>3, CallType, FaultType, PowerLossType DEF Next

(* Every variable of the parameter manager keeps its type, with resets,    *)
(* default parameter updates, power losses and failing allocations:        *)
(* modify_count stays a u16, partition_num 0 or 1.                         *)
THEOREM TypeCorrect == Spec => []TypeOK
<1>1. TypeInv => TypeOK
  BY DEF TypeInv
<1> QED BY <1>1, TypeInitially, TypeStep, PTL DEF Spec

-----------------------------------------------------------------------------
(* Durability                                                              *)

LEMMA NoFault ==
  ASSUME Undisturbed, TypeOK
  PROVE  ~AllocFails
BY DEF Undisturbed, TypeOK, AllocFails

LEMMA TasksSet ==
  ASSUME Undisturbed
  PROVE  Task = SetTask
BY DEF Undisturbed, Task

(* The control part of the invariant: who holds the lock, who writes.      *)
LEMMA ControlParamToFlash ==
  ASSUME Undisturbed, ControlInv, NEW p \in Proc, ParamToFlash(p)
  PROVE  JobInv' /\ BootInv' /\ LockInv'
<1> USE DEF ControlInv, TypeInv
<1>0. /\ pc[p] \in Writing /\ lock = p
      /\ p \in Task => job[p].op \in {"set", "sync"}
      /\ p = Boot => job[p].op \in BootOp
      /\ p = Boot \/ p \in Task
      /\ Boot \notin Task /\ NoProc \notin Proc
  BY ConstantsDistinct
  DEF ParamToFlash, CopyFields, SealHeader, ErasePartition, ProgramPartition,
      VerifyPartition, Writing, JobInv, BootInv, LockInv, Proc
<1>1. ASSUME NEW l \in Writing, pc' = [pc EXCEPT ![p] = l],
             UNCHANGED <<lock, updp, sram>>,
             \A q \in Proc : /\ job'[q].op = job[q].op
                             /\ job'[q].id = job[q].id
                             /\ job'[q].val = job[q].val
                             /\ job'[q].touser = job[q].touser
      PROVE  JobInv' /\ BootInv' /\ LockInv'
  <2>1. JobInv'
    BY <1>0, <1>1 DEF JobInv, TypeOK, Writing, Proc
  <2>2. BootInv'
    BY <1>0, <1>1 DEF BootInv, TypeOK, Writing, Proc
  <2>3. LockInv'
    BY <1>0, <1>1 DEF LockInv, TypeOK, Writing, Proc
  <2> QED BY <2>1, <2>2, <2>3
<1>2. CASE CopyFields(p)
  BY <1>1, <1>2 DEF CopyFields, Goto, Writing
<1>3. CASE SealHeader(p)
  <2>1. \A q \in Proc : /\ job'[q].op = job[q].op /\ job'[q].id = job[q].id
                        /\ job'[q].val = job[q].val /\ job'[q].touser = job[q].touser
    BY <1>3 DEF SealHeader, TypeOK, Job
  <2> QED BY <1>1, <1>3, <2>1 DEF SealHeader, Goto, Writing
<1>4. CASE ErasePartition(p)
  BY <1>1, <1>4 DEF ErasePartition, Goto, Writing
<1>5. CASE ProgramPartition(p)
  BY <1>1, <1>5 DEF ProgramPartition, Goto, Writing
<1>6. CASE VerifyPartition(p)
  <2>0. PICK s : Continue(p, s) /\ UNCHANGED <<updp, sram>>
    BY <1>6 DEF VerifyPartition
  <2>1. CASE Return(p, s)
    <3>1. /\ job' = [job EXCEPT ![p] = NoJob] /\ lock' = NoProc
          /\ pc' = [pc EXCEPT ![p] = "idle"]
      BY <1>0, <2>1 DEF Return, Goto
    <3>2. JobInv'
      BY <1>0, <2>0, <3>1 DEF JobInv, TypeOK, Writing, Proc, NoJob, JobOf
    <3>3. BootInv'
      BY <1>0, <2>0, <3>1 DEF BootInv, LockInv, TypeOK, Writing, Proc
    <3>4. LockInv'
      BY <1>0, <2>0, <3>1 DEF LockInv, TypeOK, Writing, Proc
    <3> QED BY <3>2, <3>3, <3>4
  <2>2. CASE /\ job[p].op = "init0"
             /\ job' = [job EXCEPT ![p].op = "init1"]
             /\ Goto(p, "copy") /\ UNCHANGED lock
    <3>0. p = Boot
      BY <1>0, <2>2
    <3>1. JobInv'
      BY <1>0, <2>0, <2>2, <3>0 DEF JobInv, TypeOK, Writing, Proc, Goto
    <3>2. BootInv'
      BY <1>0, <2>0, <2>2, <3>0 DEF BootInv, TypeOK, Writing, Proc, Goto, BootOp, Job
    <3>3. LockInv'
      BY <1>0, <2>0, <2>2, <3>0 DEF LockInv, TypeOK, Writing, Proc, Goto
    <3> QED BY <3>1, <3>2, <3>3
  <2> QED BY <1>0, <2>0, <2>1, <2>2 DEF Continue, BootOp
<1> QED BY <1>2, <1>3, <1>4, <1>5, <1>6 DEF ParamToFlash

LEMMA ControlEnter ==
  ASSUME Undisturbed, ControlInv, NEW t \in Task, SetEnter(t) \/ SyncEnter(t)
  PROVE  JobInv' /\ BootInv' /\ LockInv'
<1> USE DEF ControlInv, TypeInv
<1>0. /\ pc[t] = "enter" /\ lock = NoProc /\ pc[Boot] = "idle"
      /\ Boot \notin Task /\ NoProc \notin Proc /\ t \in Proc
      /\ UNCHANGED updp
      /\ \A u \in Task : pc[u] \notin Writing
  BY ConstantsDistinct DEF SetEnter, SyncEnter, LockInv, Proc
<1>1. CASE Return(t, "OK")
  <2>1. /\ job' = [job EXCEPT ![t] = NoJob] /\ lock' = NoProc
        /\ pc' = [pc EXCEPT ![t] = "idle"]
    BY <1>0, <1>1 DEF Return, Goto
  <2>2. JobInv'
    BY <1>0, <2>1 DEF JobInv, TypeOK, Writing, Proc, NoJob, JobOf
  <2>3. BootInv' /\ LockInv'
    BY <1>0, <2>1 DEF BootInv, LockInv, TypeOK, Writing, Proc
  <2> QED BY <2>2, <2>3
<1>2. CASE lock' = t /\ Goto(t, "copy") /\ UNCHANGED job
  <2>1. pc' = [pc EXCEPT ![t] = "copy"]
    BY <1>2 DEF Goto
  <2>2. job[t].op = "set" => sram'[job[t].id] = job[t].val
    BY <1>0 DEF SetEnter, SyncEnter, JobInv, TypeOK, Params
  <2>3. JobInv'
    BY <1>0, <1>2, <2>1, <2>2 DEF JobInv, TypeOK, Writing, Proc
  <2>4. BootInv' /\ LockInv'
    BY <1>0, <1>2, <2>1 DEF BootInv, LockInv, TypeOK, Writing, Proc
  <2> QED BY <2>3, <2>4
<1> QED BY <1>1, <1>2 DEF SetEnter, SyncEnter

LEMMA ControlCall ==
  ASSUME Undisturbed, ControlInv, Call
  PROVE  JobInv' /\ BootInv' /\ LockInv'
<1> USE DEF ControlInv, TypeInv
<1>1. ASSUME NEW t \in SetTask, NEW j, job' = [job EXCEPT ![t] = j],
             Goto(t, "enter"), Up, pc[t] = "idle",
             j.op \in {"set", "sync"}, j.touser = FALSE,
             j.op = "set" => j.id \in Field, j.op = "sync" => j.id = All,
             UNCHANGED <<lock, updp, sram>>
      PROVE  JobInv' /\ BootInv' /\ LockInv'
  <2>0. t \in Task /\ t \in Proc /\ Boot \notin Task
    BY ConstantsDistinct DEF Task, Proc
  <2>1. JobInv'
    BY <1>1, <2>0 DEF JobInv, TypeOK, Writing, Proc, Goto
  <2>2. BootInv' /\ LockInv'
    BY <1>1, <2>0 DEF BootInv, LockInv, TypeOK, Writing, Proc, Goto, Up
  <2> QED BY <2>1, <2>2
<1>2. ASSUME NEW t \in SetTask, NEW id \in Field, NEW v \in Value,
             NEW save \in BOOLEAN, SetCall(t, id, v, save)
      PROVE  JobInv' /\ BootInv' /\ LockInv'
  <2> DEFINE j == [op |-> "set", id |-> id, val |-> v, save |-> save,
                   touser |-> updp, addr |-> 0]
  <2>1. j.op = "set" /\ j.touser = FALSE /\ j.id \in Field
    BY DEF LockInv
  <2>2. job' = [job EXCEPT ![t] = j]
    BY <1>2 DEF SetCall
  <2> HIDE DEF j
  <2> QED BY <1>1, <1>2, <2>1, <2>2 DEF SetCall
<1>3. ASSUME NEW t \in SetTask, SyncCall(t)
      PROVE  JobInv' /\ BootInv' /\ LockInv'
  <2>1. /\ JobOf("sync").op = "sync" /\ JobOf("sync").touser = FALSE
        /\ JobOf("sync").id = All
    BY DEF JobOf
  <2> QED BY <1>1, <1>3, <2>1 DEF SyncCall, Start
<1> QED BY <1>2, <1>3 DEF Call, Undisturbed

LEMMA ControlScan ==
  ASSUME Undisturbed, ControlInv, BootScan
  PROVE  JobInv' /\ BootInv' /\ LockInv'
<1> USE DEF ControlInv, TypeInv
<1>0. /\ pc[Boot] \in {"scan", "rescan"} /\ lock = Boot
      /\ \A t \in Task : pc[t] = "idle"
      /\ Boot \notin Task /\ NoProc \notin Proc /\ Boot \in Proc
      /\ UNCHANGED updp
  BY ConstantsDistinct DEF BootScan, Scan, LockInv, Proc
<1>2. CASE Return(Boot, "OK")
  <2>1. /\ job' = [job EXCEPT ![Boot] = NoJob] /\ lock' = NoProc
        /\ pc' = [pc EXCEPT ![Boot] = "idle"]
    BY <1>0, <1>2 DEF Return, Goto
  <2>2. JobInv'
    BY <1>0, <2>1 DEF JobInv, TypeOK, Writing, Proc
  <2>3. BootInv' /\ LockInv'
    BY <1>0, <2>1 DEF BootInv, LockInv, TypeOK, Writing, Proc
  <2> QED BY <2>2, <2>3
<1>3. CASE Goto(Boot, "rescan") /\ UNCHANGED <<job, lock>>
  <2>1. JobInv'
    BY <1>0, <1>3 DEF JobInv, TypeOK, Writing, Proc, Goto
  <2>2. BootInv' /\ LockInv'
    BY <1>0, <1>3 DEF BootInv, LockInv, TypeOK, Writing, Proc, Goto
  <2> QED BY <2>1, <2>2
<1>4. ASSUME NEW o \in BootOp, Start(Boot, o, "copy"), UNCHANGED lock
      PROVE  JobInv' /\ BootInv' /\ LockInv'
  <2>1. job' = [job EXCEPT ![Boot] = JobOf(o)] /\ pc' = [pc EXCEPT ![Boot] = "copy"]
    BY <1>4 DEF Start, Goto
  <2>2. JobInv'
    BY <1>0, <2>1 DEF JobInv, TypeOK, Writing, Proc
  <2>3. BootInv'
    BY <1>0, <2>1 DEF BootInv, TypeOK, Writing, Proc, JobOf
  <2>4. LockInv'
    BY <1>0, <1>4, <2>1 DEF LockInv, TypeOK, Writing, Proc
  <2> QED BY <2>2, <2>3, <2>4
<1> QED BY <1>2, <1>3, <1>4 DEF BootScan, Scan, AfterDamaged, BootOp

LEMMA ControlPowerLoss ==
  ASSUME ControlInv, PowerLoss
  PROVE  JobInv' /\ BootInv' /\ LockInv'
BY ConstantsDistinct
DEF PowerLoss, JobInv, BootInv, LockInv, Writing, NoJob, JobOf, Proc

LEMMA ControlInitially == Init => ControlInv
BY ConstantsDistinct, TypeInitially
DEF Init, ControlInv, JobInv, BootInv, LockInv, Writing, NoJob, JobOf, Proc

(* A step, with the process that takes it, of an undisturbed behaviour.    *)
LEMMA UndisturbedSteps ==
  ASSUME Undisturbed, ControlInv, Next
  PROVE  \/ BootScan
         \/ \E p \in Proc : ParamToFlash(p)
         \/ \E t \in Task : SetEnter(t) \/ SyncEnter(t)
         \/ Call
         \/ PowerLoss
<1>1. ~Fault
  BY NoFault
  DEF Fault, WriteNoMem, VerifyNoMem, BootReadNoMem, BootNoMem, UpdpLoadNoMem,
      SaveUserNoMem, ControlInv, TypeInv
<1>2. ASSUME NEW t \in Task
      PROVE  ~(UpdpLoad(t) \/ SaveUserMagic(t) \/ SaveUserData(t) \/ SaveUserCrc(t))
  BY DEF UpdpLoad, SaveUserMagic, SaveUserData, SaveUserCrc, SaveUserStep,
         ControlInv, JobInv, Writing
<1> QED BY <1>1, <1>2 DEF Next, BootStep, TaskStep, Proc

LEMMA ControlStep ==
  ASSUME Undisturbed, ControlInv, [Next]_vars
  PROVE  ControlInv'
<1>1. TypeInv'
  BY TypeStep DEF ControlInv
<1>2. CASE UNCHANGED vars
  BY <1>1, <1>2 DEF vars, ControlInv, JobInv, BootInv, LockInv
<1>3. CASE Next
  BY <1>1, <1>3, UndisturbedSteps, ControlScan, ControlParamToFlash, ControlEnter,
     ControlCall, ControlPowerLoss DEF ControlInv
<1> QED BY <1>2, <1>3

(* Counting modulo 2^16, and the images that param_to_flash seals.         *)
LEMMA SuccCases ==
  ASSUME NEW c \in Count
  PROVE  /\ Succ(c) \in Count
         /\ c < CountModulus - 1 => Succ(c) = c + 1
         /\ c = CountModulus - 1 => Succ(c) = 0
BY ConstantsTyped DEF Succ, Count

LEMMA SealedValid ==
  ASSUME NEW c \in Count, NEW q \in Params, NEW n \in Partition
  PROVE  /\ Valid(Sealed(c, q, n))
         /\ Sealed(c, q, n).pnum = n /\ Sealed(c, q, n).count = c
         /\ Sealed(c, q, n).params = q
<1>1. Sealed(c, q, n) # Damaged
  BY SealedInType, ConstantsDistinct
<1> QED BY <1>1 DEF Sealed, Valid, ContentOf

LEMMA IntactType ==
  ASSUME TypeOK, NEW i \in Partition, Valid(flash[i])
  PROVE  flash[i].count \in Count /\ flash[i].params \in Params
BY DEF TypeOK, Valid, FlashParam

(* The copy in use is what a boot would load, but for the wrap.            *)
LEMMA CurrentIsLoaded ==
  ASSUME TypeOK, NEW i \in Partition, CurrentAt(i)
  PROVE  BootParams = acked \/ Straddle
<1> DEFINE a == flash[i].count
           b == flash[1 - i].count
<1>0. 1 - i \in Partition /\ i \in {0, 1}
  BY DEF Partition
<1>1. Valid(flash[i]) /\ Valid(flash[1 - i]) /\ flash[i].params = acked
  BY DEF CurrentAt, Intact
<1>2. a \in Count /\ b \in Count
  BY <1>0, <1>1, IntactType
<1>3. CASE b < a
  BY <1>0, <1>1, <1>2, <1>3 DEF BootParams, Newest, Count
<1>4. CASE a = b /\ flash[1 - i].params = acked
  BY <1>0, <1>1, <1>2, <1>4 DEF BootParams, Newest, Count
<1>5. CASE a = 0 /\ b = CountModulus - 1
  BY <1>0, <1>1, <1>5 DEF Straddle
<1>6. CASE Succ(b) = a
  <2>1. b < CountModulus - 1 \/ b = CountModulus - 1
    BY <1>2, ConstantsTyped DEF Count
  <2> QED BY <1>2, <1>3, <1>5, <1>6, <2>1, SuccCases DEF Count
<1>7. CASE a = CountModulus - 1 /\ b = 0
  BY <1>3, <1>7, ConstantsTyped
<1> QED BY <1>4, <1>6, <1>7 DEF CurrentAt

(* A partition that carries the next count is what a boot would load, but  *)
(* for the wrap.                                                           *)
LEMMA SuccessorIsLoaded ==
  ASSUME TypeOK, NEW n \in Partition, Valid(flash[n]), Valid(flash[1 - n]),
         Succ(flash[1 - n].count) = flash[n].count
  PROVE  BootParams = flash[n].params \/ Straddle
<1> DEFINE a == flash[n].count
           b == flash[1 - n].count
<1>0. 1 - n \in Partition /\ n \in {0, 1}
  BY DEF Partition
<1>2. a \in Count /\ b \in Count
  BY <1>0, IntactType
<1>3. CASE b < a
  BY <1>0, <1>2, <1>3 DEF BootParams, Newest, Count
<1>5. CASE a = 0 /\ b = CountModulus - 1
  BY <1>0, <1>5 DEF Straddle
<1>6. b < CountModulus - 1 \/ b = CountModulus - 1
  BY <1>2, ConstantsTyped DEF Count
<1> QED BY <1>2, <1>3, <1>5, <1>6, SuccCases DEF Count

LEMMA OnlyCopyIsLoaded ==
  ASSUME NEW n \in Partition, flash[n] = Damaged, Valid(flash[1 - n])
  PROVE  BootParams = flash[1 - n].params
BY DEF BootParams, Newest, Valid, Partition

IInv == ControlInv /\ DataInv

(* While tls_param_init repairs the partitions, the stored parameters are  *)
(* what they were.                                                         *)
LEMMA BootLoads ==
  ASSUME IInv, pc[Boot] \in Writing
  PROVE  BootParams = acked \/ Straddle
<1> USE DEF IInv, ControlInv, TypeInv
<1>0. job[Boot].op \in BootOp
  BY DEF BootInv
<1>s. \A n \in Partition : Valid(Sealed(1, Factory, n)) /\ Sealed(1, Factory, n).params = Factory
  BY SealedValid, ConstantsInType, ConstantsTyped
<1>d. ~Valid(Damaged)
  BY DEF Valid
<1>1. CASE job[Boot].op \in {"init0", "init1"}
  <2>1. acked = Factory
    BY <1>1 DEF DataInv, InitInv
  <2>2. \A n \in Partition : flash[n] = Damaged \/ flash[n] = Sealed(1, Factory, n)
    BY <1>1 DEF DataInv, InitInv, Writing, Partition
  <2>3. Newest(flash) \in Partition
           /\ (Valid(flash[0]) \/ Valid(flash[1]) => Valid(flash[Newest(flash)]))
    BY NewestInPartition DEF Newest
  <2> QED BY <1>s, <1>d, <2>1, <2>2, <2>3 DEF BootParams
<1>2. CASE job[Boot].op \in {"restore0", "restore1"}
  <2> DEFINE n == IF job[Boot].op = "restore0" THEN 0 ELSE 1
  <2>0. n \in Partition /\ 1 - n \in Partition
    BY DEF Partition
  <2>1. Valid(flash[1 - n]) /\ flash[1 - n].params = acked
    BY <1>2 DEF DataInv, RestoreInv, Intact
  <2>2. CASE pc[Boot] # "verify"
    <3>1. flash[n] = Damaged
      BY <1>2, <2>2 DEF DataInv, RestoreInv
    <3> HIDE DEF n
    <3> QED BY <2>0, <2>1, <3>1, OnlyCopyIsLoaded
  <2>3. CASE pc[Boot] = "verify"
    <3>1. flash[n] = fp /\ fp = Sealed(fp.count, acked, n)
            /\ Succ(flash[1 - n].count) = fp.count
      BY <1>2, <2>3 DEF DataInv, RestoreInv, Replacing
    <3> HIDE DEF n
    <3>2. fp.params = acked
      BY <3>1 DEF Sealed
    <3>3. Valid(fp)
      BY <2>0, <3>1, <3>2, SealedValid DEF TypeOK, FlashParam
    <3> QED BY <2>0, <2>1, <3>1, <3>2, <3>3, SuccessorIsLoaded
  <2> QED BY <2>2, <2>3
<1> QED BY <1>0, <1>1, <1>2 DEF BootOp

(* The invariant implies the property.                                     *)
LEMMA IInvDurable ==
  ASSUME IInv
  PROVE  Durable
<1> USE DEF IInv, ControlInv, TypeInv
<1>1. CASE lock = NoProc
  <2>1. CurrentAt(fp.pnum) /\ fp.pnum \in Partition
    BY <1>1 DEF DataInv, IdleInv, Current, TypeOK, FlashParam
  <2> QED BY <2>1, CurrentIsLoaded DEF Durable
<1>2. CASE lock \in Task
  <2> DEFINE n == job[lock].addr
  <2>0. pc[lock] \in Writing /\ lock \in Proc /\ n \in Partition /\ 1 - n \in Partition
    BY <1>2 DEF LockInv, TypeOK, Proc, Job, Partition
  <2>1. CASE pc[lock] \in {"copy", "seal"}
    <3>1. CurrentAt(fp.pnum) /\ fp.pnum \in Partition
      BY <1>2, <2>1 DEF DataInv, UpdateInv, Current, TypeOK, FlashParam
    <3> QED BY <3>1, CurrentIsLoaded DEF Durable
  <2>2. CASE pc[lock] = "erase"
    <3>1. CurrentAt(1 - n)
      BY <1>2, <2>2 DEF DataInv, UpdateInv
    <3> QED BY <2>0, <3>1, CurrentIsLoaded DEF Durable
  <2>3. CASE pc[lock] = "program"
    <3>1. flash[n] = Damaged /\ Valid(flash[1 - n]) /\ flash[1 - n].params = acked
      BY <1>2, <2>3 DEF DataInv, UpdateInv, Replacing, Intact
    <3> QED BY <2>0, <3>1, OnlyCopyIsLoaded DEF Durable
  <2>4. CASE pc[lock] = "verify"
    <3>1. /\ flash[n] = fp /\ Valid(flash[1 - n])
          /\ Succ(flash[1 - n].count) = fp.count
          /\ fp = Sealed(fp.count, Intended, n)
      BY <1>2, <2>4 DEF DataInv, UpdateInv, Replacing, Intact
    <3>2. fp.params = Intended
      BY <3>1 DEF Sealed
    <3>3. Valid(fp)
      BY <2>0, <3>1, <3>2, SealedValid DEF TypeOK, FlashParam
    <3> QED BY <2>0, <3>1, <3>2, <3>3, SuccessorIsLoaded DEF Durable
  <2> QED BY <2>0, <2>1, <2>2, <2>3, <2>4 DEF Writing
<1>3. CASE lock = Boot
  <2>0. pc[Boot] \in {"scan", "rescan"} \cup Writing
    BY <1>3 DEF LockInv, BootInv
  <2>1. CASE pc[Boot] \in {"scan", "rescan"}
    BY <2>1 DEF DataInv, ScanInv, Durable
  <2>2. CASE pc[Boot] \in Writing
    <3>1. BootParams = acked \/ Straddle
      BY <2>2, BootLoads
    <3> QED BY <3>1 DEF Durable
  <2> QED BY <2>0, <2>1, <2>2
<1> QED BY <1>1, <1>2, <1>3 DEF TypeOK, Proc

-----------------------------------------------------------------------------
(* Every step preserves the data part of the invariant.                    *)

LEMMA IntendedOfTask ==
  ASSUME Undisturbed, IInv, NEW t \in Task, lock = t, pc[t] \in Writing
  PROVE  Intended = [f \in Field |-> IF f \in CopiedFields(job[t].id)
                                     THEN sram[f] ELSE acked[f]]
<1> USE DEF IInv, ControlInv, TypeInv
<1>0. job[t].op \in {"set", "sync"}
  BY DEF JobInv, Writing
<1>1. CASE job[t].op = "set"
  <2>1. /\ job[t].id \in Field /\ sram[job[t].id] = job[t].val
        /\ job[t].id # All /\ job[t].id # Period
    BY <1>1, ConstantsDistinct DEF JobInv, Undisturbed
  <2>2. CopiedFields(job[t].id) = {job[t].id}
    BY <2>1 DEF CopiedFields
  <2>3. Intended = [acked EXCEPT ![job[t].id] = SetValue(t)]
    BY <1>1 DEF Intended, SetValue
  <2>4. SetValue(t) = sram[job[t].id]
    BY <2>1 DEF SetValue
  <2> QED BY <2>1, <2>2, <2>3, <2>4 DEF TypeOK, Params
<1>2. CASE job[t].op = "sync"
  <2>1. job[t].id = All
    BY <1>2 DEF JobInv
  <2> QED BY <1>2, <2>1 DEF Intended, SetValue, CopiedFields
<1> QED BY <1>0, <1>1, <1>2

(* Facts that hold in each step of param_to_flash that a task takes.       *)
LEMMA WritingTask ==
  ASSUME IInv, NEW t \in Task, pc[t] \in Writing
  PROVE  /\ lock = t /\ pc[Boot] = "idle" /\ Boot \notin Task /\ lock # NoProc
         /\ \A u \in Task : u # t => pc[u] \notin Writing
         /\ job[t].op \in {"set", "sync"}
         /\ t \in Proc
BY ConstantsDistinct DEF IInv, ControlInv, LockInv, JobInv, Writing, Proc

(* The other processes have nothing to say while a task writes.            *)
LEMMA TaskFrame ==
  ASSUME IInv, NEW t \in Task, pc[t] \in Writing,
         NEW l \in Writing, pc' = [pc EXCEPT ![t] = l], UNCHANGED lock,
         ShapeInv', PairInv',
         l = "seal" => (Current /\ fp.params = Intended)',
         l \in {"erase", "program", "verify"} => Replacing(t, job[t].addr, Intended)',
         l = "erase" => CurrentAt(1 - job[t].addr)',
         l = "program" => (flash[job[t].addr] = Damaged)',
         l = "verify" => (flash[job[t].addr] = fp)',
         l # "copy"
  PROVE  DataInv'
<1>0. /\ pc'[t] = l /\ pc'[Boot] = "idle" /\ lock' # NoProc
      /\ \A u \in Task : u # t => pc'[u] \notin Writing
  BY WritingTask DEF IInv, ControlInv, TypeInv, TypeOK, Proc
<1>1. UpdateInv'
  BY <1>0 DEF UpdateInv, Writing
<1>2. IdleInv' /\ ScanInv' /\ InitInv' /\ RestoreInv'
  BY <1>0 DEF IdleInv, ScanInv, InitInv, RestoreInv, Writing
<1> QED BY <1>1, <1>2 DEF DataInv

LEMMA DataTaskCopy ==
  ASSUME Undisturbed, IInv, NEW t \in Task, CopyFields(t)
  PROVE  DataInv'
<1> pc[t] \in Writing
  BY DEF CopyFields, Writing
<1>1. /\ pc' = [pc EXCEPT ![t] = "seal"]
      /\ UNCHANGED <<flash, sram, lock, job, acked>>
      /\ Current /\ fp.params = acked
  BY DEF CopyFields, Goto, IInv, DataInv, UpdateInv
<1>2. fp'.params = Intended /\ fp'.count = fp.count /\ fp'.pnum = fp.pnum
  BY <1>1, IntendedOfTask, WritingTask
  DEF CopyFields, IInv, ControlInv, TypeInv, TypeOK, FlashParam
<1>3. Intended' = Intended
  BY <1>1 DEF Intended, SetValue
<1>4. Current' /\ ShapeInv' /\ PairInv'
  BY <1>1, <1>2 DEF Current, CurrentAt, Intact, ShapeInv, PairInv, IInv, DataInv
<1> QED BY <1>1, <1>2, <1>3, <1>4, TaskFrame DEF Writing

LEMMA DataTaskSeal ==
  ASSUME Undisturbed, IInv, NEW t \in Task, SealHeader(t)
  PROVE  DataInv'
<1> pc[t] \in Writing
  BY DEF SealHeader, Writing
<1>n. PICK n \in Partition : n = 1 - fp.pnum
  BY DEF IInv, ControlInv, TypeInv, TypeOK, FlashParam, Partition
<1>0. /\ fp.pnum \in Partition /\ fp.count \in Count /\ fp.params \in Params
      /\ n \in Partition /\ 1 - n = fp.pnum
      /\ t \in Proc /\ job[t].op \in {"set", "sync"} /\ lock = t
  BY <1>n, WritingTask DEF IInv, ControlInv, TypeInv, TypeOK, FlashParam, Partition
<1>1. TargetOf(job[t].op, fp.pnum) = n /\ NextCount(job[t].op, fp.count) = Succ(fp.count)
  BY <1>0 DEF TargetOf, NextCount, FixedCount, Partition, Succ
<1>2. /\ pc' = [pc EXCEPT ![t] = "erase"]
      /\ fp' = Sealed(Succ(fp.count), fp.params, n)
      /\ job' = [job EXCEPT ![t].addr = n]
      /\ UNCHANGED <<flash, sram, lock, acked>>
      /\ Current /\ fp.params = Intended
  BY <1>1 DEF SealHeader, Goto, IInv, DataInv, UpdateInv
<1>3. /\ job'[t].addr = n /\ job'[t].op = job[t].op /\ job'[t].id = job[t].id
      /\ job'[t].val = job[t].val
  BY <1>0, <1>2 DEF IInv, ControlInv, TypeInv, TypeOK, Job
<1>4. Intended' = Intended
  BY <1>0, <1>2, <1>3 DEF Intended, SetValue
<1>5. fp'.count = Succ(fp.count) /\ fp' = Sealed(fp'.count, Intended', n)
  BY <1>2, <1>4 DEF Sealed
<1>6. CurrentAt(1 - n)' /\ ShapeInv' /\ PairInv'
  BY <1>0, <1>2 DEF Current, CurrentAt, Intact, ShapeInv, PairInv, IInv, DataInv
<1>7. Replacing(t, job[t].addr, Intended)'
  BY <1>0, <1>2, <1>3, <1>5 DEF Replacing, Current, CurrentAt, Intact
<1>8. CurrentAt(1 - job[t].addr)'
  BY <1>0, <1>3, <1>6
<1> QED BY <1>2, <1>6, <1>7, <1>8, TaskFrame DEF Writing

LEMMA DataTaskErase ==
  ASSUME Undisturbed, IInv, NEW t \in Task, ErasePartition(t)
  PROVE  DataInv'
<1> pc[t] \in Writing
  BY DEF ErasePartition, Writing
<1>n. PICK n \in Partition : n = job[t].addr
  BY WritingTask DEF IInv, ControlInv, TypeInv, TypeOK, Job
<1>0. n \in Partition /\ 1 - n \in Partition /\ 1 - n # n /\ t \in Proc
  BY WritingTask DEF Partition
<1>1. /\ pc' = [pc EXCEPT ![t] = "program"]
      /\ flash' = [flash EXCEPT ![n] = Damaged]
      /\ UNCHANGED <<fp, sram, lock, acked, job>>
      /\ Replacing(t, n, Intended)
  BY <1>n DEF ErasePartition, Goto, IInv, DataInv, UpdateInv
<1>2. flash'[n] = Damaged /\ flash'[1 - n] = flash[1 - n]
  BY <1>0, <1>1 DEF IInv, ControlInv, TypeInv, TypeOK
<1>3. Intended' = Intended
  BY <1>1 DEF Intended, SetValue
<1>4. Replacing(t, n, Intended)'
  BY <1>1, <1>2, <1>3 DEF Replacing, Intact
<1>5. Intact(1 - n)'
  BY <1>4 DEF Replacing
<1>6. ShapeInv' /\ PairInv'
  BY <1>0, <1>2, <1>5 DEF ShapeInv, PairInv, Partition, Valid
<1> QED BY <1>n, <1>1, <1>2, <1>4, <1>6, TaskFrame DEF Writing

LEMMA DataTaskProgram ==
  ASSUME Undisturbed, IInv, NEW t \in Task, ProgramPartition(t)
  PROVE  DataInv'
<1> pc[t] \in Writing
  BY DEF ProgramPartition, Writing
<1>n. PICK n \in Partition : n = job[t].addr
  BY WritingTask DEF IInv, ControlInv, TypeInv, TypeOK, Job
<1>0. n \in Partition /\ 1 - n \in Partition /\ 1 - n # n /\ t \in Proc
  BY WritingTask DEF Partition
<1>1. /\ pc' = [pc EXCEPT ![t] = "verify"]
      /\ flash' = [flash EXCEPT ![n] = fp]
      /\ UNCHANGED <<fp, sram, lock, acked, job>>
      /\ Replacing(t, n, Intended)
  BY <1>n DEF ProgramPartition, Goto, IInv, DataInv, UpdateInv
<1>2. flash'[n] = fp /\ flash'[1 - n] = flash[1 - n]
  BY <1>0, <1>1 DEF IInv, ControlInv, TypeInv, TypeOK
<1>3. Intended' = Intended
  BY <1>1 DEF Intended, SetValue
<1>4. Replacing(t, n, Intended)'
  BY <1>1, <1>2, <1>3 DEF Replacing, Intact
<1>5. Intact(1 - n)'
  BY <1>4 DEF Replacing
<1>6. Intact(n)'
  <2>1. fp = Sealed(fp.count, Intended, n) /\ fp.params = Intended
    BY <1>1 DEF Replacing, Sealed
  <2>2. Valid(fp) /\ fp.pnum = n
    BY <1>0, <2>1, SealedValid DEF IInv, ControlInv, TypeInv, TypeOK, FlashParam
  <2> QED BY <1>2, <2>2 DEF Intact
<1>7. ShapeInv' /\ PairInv'
  <2>1. Succ(flash'[1 - n].count) = flash'[n].count
    BY <1>1, <1>2 DEF Replacing
  <2> QED BY <1>0, <1>5, <1>6, <2>1 DEF ShapeInv, PairInv, Partition
<1> QED BY <1>n, <1>1, <1>2, <1>4, <1>7, TaskFrame DEF Writing

LEMMA DataTaskVerify ==
  ASSUME Undisturbed, IInv, NEW t \in Task, VerifyPartition(t)
  PROVE  DataInv'
<1> pc[t] \in Writing
  BY DEF VerifyPartition, Writing
<1>n. PICK n \in Partition : n = job[t].addr
  BY WritingTask DEF IInv, ControlInv, TypeInv, TypeOK, Job
<1>0. /\ n \in Partition /\ 1 - n \in Partition /\ t \in Proc
      /\ lock = t /\ pc[Boot] = "idle" /\ Boot \notin Task
      /\ \A u \in Task : u # t => pc[u] \notin Writing
      /\ job[t].op \in {"set", "sync"}
  BY WritingTask DEF Partition
<1>1. Replacing(t, n, Intended) /\ flash[n] = fp /\ UNCHANGED flash
  BY <1>n DEF VerifyPartition, IInv, DataInv, UpdateInv
<1>2. fp = Sealed(fp.count, Intended, n) /\ fp.params = Intended /\ fp.pnum = n
  BY <1>1 DEF Replacing, Sealed
<1>3. /\ Return(t, "OK") /\ UNCHANGED fp
      /\ Report(IF job[t].op = "set" THEN [acked EXCEPT ![job[t].id] = SetValue(t)]
                ELSE [f \in Field |-> IF job[t].id \in {f, All} THEN sram[f] ELSE acked[f]])
  BY <1>0, <1>1, <1>2 DEF VerifyPartition, Continue
<1>4. acked' = Intended
  BY <1>0, <1>3 DEF Report, Intended, SetValue
<1>5. pc' = [pc EXCEPT ![t] = "idle"] /\ lock' = NoProc
  BY <1>0, <1>3 DEF Return, Goto
<1>6. pc'[Boot] = "idle" /\ \A u \in Task : pc'[u] \notin Writing
  BY <1>0, <1>5 DEF IInv, ControlInv, TypeInv, TypeOK, Proc, Writing
<1>7. Valid(fp)
  BY <1>0, <1>2, SealedValid DEF IInv, ControlInv, TypeInv, TypeOK, FlashParam
<1>8. CurrentAt(n)'
  BY <1>0, <1>1, <1>2, <1>4, <1>7 DEF CurrentAt, Intact, Replacing, Partition
<1>9. IdleInv'
  BY <1>1, <1>2, <1>3, <1>4, <1>8 DEF IdleInv, Current
<1>10. UpdateInv' /\ ScanInv' /\ InitInv' /\ RestoreInv'
  BY <1>6 DEF UpdateInv, ScanInv, InitInv, RestoreInv, Writing
<1>11. ShapeInv' /\ PairInv'
  BY <1>1 DEF ShapeInv, PairInv, Intact, IInv, DataInv
<1> QED BY <1>9, <1>10, <1>11 DEF DataInv

(* Facts that hold in each step of param_to_flash that tls_param_init takes*)
LEMMA WritingBoot ==
  ASSUME IInv, pc[Boot] \in Writing
  PROVE  /\ lock = Boot /\ Boot \in Proc /\ Boot \notin Task /\ lock # NoProc
         /\ \A u \in Task : pc[u] = "idle"
         /\ job[Boot].op \in BootOp /\ job[Boot].id = All
BY ConstantsDistinct DEF IInv, ControlInv, LockInv, BootInv, Writing, Proc

LEMMA BootFrame ==
  ASSUME IInv, pc[Boot] \in Writing,
         NEW l \in Writing, pc' = [pc EXCEPT ![Boot] = l], UNCHANGED lock,
         ShapeInv', PairInv', InitInv', RestoreInv'
  PROVE  DataInv'
<1>0. /\ pc'[Boot] = l /\ lock' # NoProc /\ \A u \in Task : pc'[u] = "idle"
  BY WritingBoot DEF IInv, ControlInv, TypeInv, TypeOK, Proc
<1>1. UpdateInv' /\ IdleInv' /\ ScanInv'
  BY <1>0 DEF UpdateInv, IdleInv, ScanInv, Writing
<1> QED BY <1>1 DEF DataInv

(* The partition tls_param_init is writing.                                *)
Target(o) == IF o \in {"init0", "restore0"} THEN 0 ELSE 1

LEMMA DataBootCopy ==
  ASSUME IInv, CopyFields(Boot)
  PROVE  DataInv'
<1> pc[Boot] \in Writing
  BY DEF CopyFields, Writing
<1>1. /\ pc' = [pc EXCEPT ![Boot] = "seal"] /\ pc'[Boot] = "seal"
      /\ UNCHANGED <<flash, sram, lock, job, acked>>
  BY WritingBoot DEF CopyFields, Goto, IInv, ControlInv, TypeInv, TypeOK
<1>2. fp'.params = sram /\ fp'.count = fp.count /\ fp'.pnum = fp.pnum
  BY WritingBoot
  DEF CopyFields, CopiedFields, IInv, ControlInv, TypeInv, TypeOK, FlashParam, Params
<1>3. ShapeInv' /\ PairInv'
  BY <1>1 DEF ShapeInv, PairInv, Intact, IInv, DataInv
<1>4. InitInv'
  BY <1>1, <1>2 DEF InitInv, IInv, DataInv, CopyFields, Writing
<1>5. RestoreInv'
  BY <1>1, <1>2 DEF RestoreInv, Intact, IInv, DataInv, CopyFields, Writing
<1> QED BY <1>1, <1>3, <1>4, <1>5, BootFrame DEF Writing

LEMMA DataBootSeal ==
  ASSUME IInv, SealHeader(Boot)
  PROVE  DataInv'
<1> DEFINE o == job[Boot].op
<1> pc[Boot] \in Writing
  BY DEF SealHeader, Writing
<1>n. PICK n \in Partition : n = Target(o)
  BY DEF Target, Partition
<1>0. /\ fp.count \in Count /\ fp.params \in Params
      /\ Boot \in Proc /\ o \in BootOp
  BY WritingBoot DEF IInv, ControlInv, TypeInv, TypeOK, FlashParam
<1>1. TargetOf(o, fp.pnum) = n
        /\ NextCount(o, fp.count) = IF o \in {"init0", "init1"} THEN 1 ELSE Succ(fp.count)
  BY <1>0, <1>n DEF TargetOf, NextCount, FixedCount, Succ, BootOp, Target
<1>2. /\ pc' = [pc EXCEPT ![Boot] = "erase"] /\ pc'[Boot] = "erase"
      /\ fp' = Sealed(IF o \in {"init0", "init1"} THEN 1 ELSE Succ(fp.count), fp.params, n)
      /\ job' = [job EXCEPT ![Boot].addr = n]
      /\ UNCHANGED <<flash, sram, lock, acked>>
  BY <1>0, <1>1 DEF SealHeader, Goto, IInv, ControlInv, TypeInv, TypeOK
<1>3. job'[Boot].addr = n /\ job'[Boot].op = o
  BY <1>0, <1>2 DEF IInv, ControlInv, TypeInv, TypeOK, Job
<1>4. ShapeInv' /\ PairInv'
  BY <1>2 DEF ShapeInv, PairInv, Intact, IInv, DataInv
<1>5. InitInv'
  BY <1>n, <1>2, <1>3 DEF InitInv, IInv, DataInv, SealHeader, Writing, Target
<1>6. RestoreInv'
  <2> SUFFICES ASSUME o \in {"restore0", "restore1"} PROVE RestoreInv'
    BY <1>3 DEF RestoreInv
  <2>1. /\ sram = acked /\ Intact(1 - n) /\ flash[1 - n].params = acked
        /\ flash[n] = Damaged /\ fp.params = acked /\ fp.count = flash[1 - n].count
    BY <1>n DEF RestoreInv, IInv, DataInv, SealHeader, Writing, Target
  <2>2. fp'.count = Succ(fp.count) /\ fp' = Sealed(fp'.count, acked', n)
    BY <1>2, <2>1 DEF Sealed
  <2>3. Intact(1 - n)'
    BY <1>2, <2>1 DEF Intact
  <2>4. Replacing(Boot, n, acked)'
    BY <1>2, <1>3, <2>1, <2>2, <2>3 DEF Replacing
  <2> QED BY <1>n, <1>2, <1>3, <2>1, <2>3, <2>4 DEF RestoreInv, Target, Writing
<1> QED BY <1>2, <1>4, <1>5, <1>6, BootFrame DEF Writing

LEMMA DataBootErase ==
  ASSUME IInv, ErasePartition(Boot)
  PROVE  DataInv'
<1> DEFINE o == job[Boot].op
<1> pc[Boot] \in Writing
  BY DEF ErasePartition, Writing
<1>n. PICK n \in Partition : n = Target(o)
  BY DEF Target, Partition
<1>0. o \in BootOp /\ Boot \in Proc
  BY WritingBoot
<1>1. job[Boot].addr = n /\ flash[n] = Damaged
  BY <1>n, <1>0 DEF IInv, DataInv, InitInv, RestoreInv, Replacing, ErasePartition,
                    Writing, Target, BootOp
<1>2. /\ pc' = [pc EXCEPT ![Boot] = "program"] /\ pc'[Boot] = "program"
      /\ UNCHANGED <<fp, sram, lock, acked, job>> /\ flash' = flash
  BY <1>0, <1>1 DEF ErasePartition, Goto, IInv, ControlInv, TypeInv, TypeOK
<1>3. ShapeInv' /\ PairInv'
  BY <1>2 DEF ShapeInv, PairInv, Intact, IInv, DataInv
<1>4. InitInv'
  BY <1>2 DEF InitInv, IInv, DataInv, ErasePartition, Writing
<1>5. RestoreInv'
  BY <1>2 DEF RestoreInv, Replacing, Intact, IInv, DataInv, ErasePartition, Writing
<1> QED BY <1>2, <1>3, <1>4, <1>5, BootFrame DEF Writing

LEMMA DataBootProgram ==
  ASSUME IInv, ProgramPartition(Boot)
  PROVE  DataInv'
<1> DEFINE o == job[Boot].op
<1> pc[Boot] \in Writing
  BY DEF ProgramPartition, Writing
<1>n. PICK n \in Partition : n = Target(o)
  BY DEF Target, Partition
<1>0. o \in BootOp /\ Boot \in Proc /\ 1 - n \in Partition /\ 1 - n # n
  BY WritingBoot DEF Partition
<1>1. job[Boot].addr = n
  BY <1>n, <1>0 DEF IInv, DataInv, InitInv, RestoreInv, Replacing, ProgramPartition,
                    Writing, Target, BootOp
<1>2. /\ pc' = [pc EXCEPT ![Boot] = "verify"] /\ pc'[Boot] = "verify"
      /\ UNCHANGED <<fp, sram, lock, acked, job>>
      /\ flash'[n] = fp /\ flash'[1 - n] = flash[1 - n]
  BY <1>0, <1>1 DEF ProgramPartition, Goto, IInv, ControlInv, TypeInv, TypeOK
<1>3. CASE o \in {"init0", "init1"}
  <2>1. /\ sram = Factory /\ acked = Factory /\ fp = Sealed(1, Factory, n)
        /\ n = 0 => flash[1] = Damaged
        /\ n = 1 => flash[0] = Sealed(1, Factory, 0)
    BY <1>n, <1>3 DEF IInv, DataInv, InitInv, ProgramPartition, Writing, Target
  <2>2. \A i \in Partition : /\ Valid(Sealed(1, Factory, i)) /\ Sealed(1, Factory, i).pnum = i
                             /\ Sealed(1, Factory, i).count = 1
                             /\ Sealed(1, Factory, i).params = Factory
    BY SealedValid, ConstantsInType, ConstantsTyped
  <2>3. ShapeInv' /\ PairInv'
    <3>1. n = 0 \/ n = 1
      BY DEF Partition
    <3>2. CASE n = 0
      BY <1>2, <2>1, <2>2, <3>2 DEF ShapeInv, PairInv, Intact, Partition, Valid
    <3>3. CASE n = 1
      BY <1>2, <2>1, <2>2, <3>3 DEF ShapeInv, PairInv, Intact, Partition
    <3> QED BY <3>1, <3>2, <3>3
  <2>4. InitInv' /\ RestoreInv'
    BY <1>n, <1>0, <1>1, <1>2, <1>3, <2>1 DEF InitInv, RestoreInv, Target, Partition
  <2> QED BY <1>2, <2>3, <2>4, BootFrame DEF Writing
<1>4. CASE o \in {"restore0", "restore1"}
  <2>1. sram = acked /\ Replacing(Boot, n, acked)
    BY <1>n, <1>4 DEF IInv, DataInv, RestoreInv, ProgramPartition, Writing, Target
  <2>2. fp = Sealed(fp.count, acked, n)
    BY <2>1 DEF Replacing
  <2>3. Valid(fp) /\ fp.pnum = n
    <3>1. fp.count \in Count /\ acked \in Params
      BY DEF IInv, ControlInv, TypeInv, TypeOK, FlashParam
    <3> QED BY <2>2, <3>1, SealedValid
  <2>4. Intact(n)' /\ Intact(1 - n)'
    BY <1>2, <2>1, <2>3 DEF Intact, Replacing
  <2>5. ShapeInv' /\ PairInv'
    <3>1. Succ(flash'[1 - n].count) = flash'[n].count
      BY <1>2, <2>1 DEF Replacing
    <3> QED BY <1>0, <2>4, <3>1 DEF ShapeInv, PairInv, Partition
  <2>6. Replacing(Boot, n, acked)'
    BY <1>2, <2>1, <2>4 DEF Replacing
  <2>7. InitInv' /\ RestoreInv'
    BY <1>n, <1>2, <1>4, <2>1, <2>4, <2>6 DEF InitInv, RestoreInv, Target, Replacing
  <2> QED BY <1>2, <2>5, <2>7, BootFrame DEF Writing
<1> QED BY <1>0, <1>3, <1>4 DEF BootOp

(* When tls_param_init returns, the copy it leaves in flash_param is the   *)
(* one in use.                                                             *)
LEMMA BootDone ==
  ASSUME IInv, lock = Boot, Return(Boot, "OK"), UNCHANGED <<flash, acked>>,
         Current', fp'.params = acked
  PROVE  DataInv'
<1>1. /\ pc' = [pc EXCEPT ![Boot] = "idle"] /\ lock' = NoProc
      /\ Boot \in Proc /\ Boot \notin Task
  BY ConstantsDistinct DEF Return, Goto, Proc
<1>2. pc'[Boot] = "idle" /\ \A u \in Task : pc'[u] = "idle"
  BY <1>1 DEF IInv, ControlInv, TypeInv, TypeOK, LockInv, Proc
<1>3. UpdateInv' /\ ScanInv' /\ InitInv' /\ RestoreInv'
  BY <1>2 DEF UpdateInv, ScanInv, InitInv, RestoreInv, Writing
<1>4. ShapeInv' /\ PairInv' /\ IdleInv'
  BY <1>1 DEF ShapeInv, PairInv, IdleInv, Intact, IInv, DataInv
<1> QED BY <1>3, <1>4 DEF DataInv

LEMMA DataBootVerify ==
  ASSUME IInv, VerifyPartition(Boot)
  PROVE  DataInv'
<1> DEFINE o == job[Boot].op
<1> pc[Boot] \in Writing
  BY DEF VerifyPartition, Writing
<1>n. PICK n \in Partition : n = Target(o)
  BY DEF Target, Partition
<1>0. /\ o \in BootOp /\ Boot \in Proc /\ 1 - n \in Partition /\ 1 - n # n
      /\ lock = Boot /\ UNCHANGED <<flash, sram>>
  BY WritingBoot DEF Partition, VerifyPartition
<1>1. flash[n] = fp /\ fp.pnum = n
  BY <1>n, <1>0 DEF IInv, DataInv, InitInv, RestoreInv, Replacing, VerifyPartition,
                    Writing, Target, BootOp, Sealed
<1>2. Continue(Boot, "OK")
  BY <1>1 DEF VerifyPartition
<1>s. \A i \in Partition : /\ Valid(Sealed(1, Factory, i)) /\ Sealed(1, Factory, i).pnum = i
                           /\ Sealed(1, Factory, i).count = 1
                           /\ Sealed(1, Factory, i).params = Factory
  BY SealedValid, ConstantsInType, ConstantsTyped
<1>3. CASE o = "init0"
  <2>1. /\ sram = Factory /\ acked = Factory /\ fp = Sealed(1, Factory, 0)
        /\ flash[1] = Damaged /\ flash[0] = fp
    BY <1>3 DEF IInv, DataInv, InitInv, VerifyPartition, Writing
  <2>2. /\ job' = [job EXCEPT ![Boot].op = "init1"]
        /\ pc' = [pc EXCEPT ![Boot] = "copy"]
        /\ UNCHANGED <<fp, lock, acked>>
    BY <1>2, <1>3 DEF Continue, Goto
  <2>3. pc'[Boot] = "copy" /\ job'[Boot].op = "init1"
    BY <1>0, <2>2 DEF IInv, ControlInv, TypeInv, TypeOK, Job
  <2>4. ShapeInv' /\ PairInv'
    BY <1>0 DEF ShapeInv, PairInv, Intact, IInv, DataInv
  <2>5. InitInv' /\ RestoreInv'
    BY <1>0, <2>1, <2>2, <2>3 DEF InitInv, RestoreInv
  <2> QED BY <2>2, <2>4, <2>5, BootFrame DEF Writing
<1>4. CASE o = "init1"
  <2>1. /\ acked = Factory /\ fp = Sealed(1, Factory, 1)
        /\ flash[0] = Sealed(1, Factory, 0) /\ flash[1] = fp
    BY <1>4 DEF IInv, DataInv, InitInv, VerifyPartition, Writing
  <2>2. Return(Boot, "OK") /\ UNCHANGED <<fp, acked>>
    BY <1>2, <1>4 DEF Continue
  <2>3. Current'
    BY <1>0, <1>s, <2>1, <2>2 DEF Current, CurrentAt, Intact, Partition
  <2>4. fp'.params = acked
    BY <1>s, <2>1, <2>2 DEF Partition
  <2> QED BY <1>0, <2>2, <2>3, <2>4, BootDone
<1>5. CASE o \in {"restore0", "restore1"}
  <2>1. Replacing(Boot, n, acked)
    BY <1>n, <1>5 DEF IInv, DataInv, RestoreInv, VerifyPartition, Writing, Target
  <2>2. Return(Boot, "OK") /\ UNCHANGED <<fp, acked>>
    BY <1>2, <1>5 DEF Continue
  <2>3. fp = Sealed(fp.count, acked, n)
    BY <2>1 DEF Replacing
  <2>4. Valid(fp) /\ fp.params = acked
    <3>1. fp.count \in Count /\ acked \in Params
      BY DEF IInv, ControlInv, TypeInv, TypeOK, FlashParam
    <3> QED BY <2>3, <3>1, SealedValid
  <2>5. CurrentAt(n)'
    BY <1>0, <1>1, <2>1, <2>2, <2>4 DEF CurrentAt, Intact, Replacing, Partition
  <2>6. Current'
    BY <1>0, <1>1, <2>2, <2>5 DEF Current
  <2> QED BY <1>0, <2>2, <2>4, <2>6, BootDone
<1> QED BY <1>0, <1>3, <1>4, <1>5 DEF BootOp

(* The scan: what it loads is what was reported as saved.                  *)
LEMMA DataScan ==
  ASSUME IInv, BootScan
  PROVE  DataInv'
<1> DEFINE seen == [i \in Partition |-> IF i \in {} THEN Damaged ELSE flash[i]]
           bad == {i \in Partition : ~Valid(seen[i])}
<1>0. /\ pc[Boot] \in {"scan", "rescan"} /\ lock = Boot /\ BootParams = acked
      /\ \A t \in Task : pc[t] = "idle"
      /\ Boot \notin Task /\ NoProc \notin Proc /\ Boot \in Proc
      /\ UNCHANGED <<flash, acked>>
  BY ConstantsDistinct
  DEF BootScan, Scan, LockInv, Proc, IInv, ControlInv, DataInv, ScanInv
<1>1. seen = flash
  BY DEF IInv, ControlInv, TypeInv, TypeOK
<1>2. ShapeInv' /\ PairInv' /\ ShapeInv /\ PairInv
  BY <1>0 DEF ShapeInv, PairInv, Intact, IInv, DataInv
<1>3. ASSUME NEW l, pc' = [pc EXCEPT ![Boot] = l], l # "idle", UNCHANGED lock
      PROVE  pc'[Boot] = l /\ UpdateInv' /\ IdleInv'
  <2>1. pc'[Boot] = l /\ lock' # NoProc /\ \A u \in Task : pc'[u] = "idle"
    BY <1>0, <1>3 DEF IInv, ControlInv, TypeInv, TypeOK, Proc
  <2> QED BY <2>1 DEF UpdateInv, IdleInv
<1>4. CASE bad = Partition /\ Goto(Boot, "rescan")
           /\ UNCHANGED <<fp, sram, job, ret, lock>>
  <2>1. pc'[Boot] = "rescan" /\ UpdateInv' /\ IdleInv'
    BY <1>3, <1>4 DEF Goto
  <2>2. flash[0] = Damaged /\ flash[1] = Damaged
    BY <1>1, <1>2, <1>4 DEF ShapeInv, Intact, Partition
  <2>3. ScanInv'
    BY <1>0, <2>1, <2>2 DEF ScanInv, BootParams
  <2>4. InitInv' /\ RestoreInv'
    BY <2>1 DEF InitInv, RestoreInv, Writing
  <2> QED BY <1>2, <2>1, <2>3, <2>4 DEF DataInv
<1>5. CASE bad = Partition /\ sram' = Factory /\ Start(Boot, "init0", "copy")
           /\ UNCHANGED <<fp, lock>>
  <2>1. pc'[Boot] = "copy" /\ UpdateInv' /\ IdleInv'
    BY <1>3, <1>5 DEF Start, Goto
  <2>2. flash[0] = Damaged /\ flash[1] = Damaged
    BY <1>1, <1>2, <1>5 DEF ShapeInv, Intact, Partition
  <2>3. acked = Factory
    BY <1>0, <2>2 DEF BootParams, Valid
  <2>4. job'[Boot].op = "init0"
    BY <1>0, <1>5 DEF Start, JobOf, IInv, ControlInv, TypeInv, TypeOK
  <2>5. InitInv' /\ RestoreInv' /\ ScanInv'
    BY <1>0, <1>5, <2>1, <2>2, <2>3, <2>4 DEF InitInv, RestoreInv, ScanInv
  <2> QED BY <1>2, <2>1, <2>5 DEF DataInv
<1>6. CASE /\ bad # Partition
           /\ fp' = seen[Newest(seen)] /\ sram' = seen[Newest(seen)].params
           /\ \/ bad = {} /\ Return(Boot, "OK")
              \/ \E i \in bad :
                   /\ Start(Boot, IF i = 0 THEN "restore0" ELSE "restore1", "copy")
                   /\ UNCHANGED lock
  <2>n. PICK n \in Partition : n = Newest(flash)
    BY NewestInPartition
  <2>0. 1 - n \in Partition /\ 1 - n # n
    BY DEF Partition
  <2>1. /\ fp' = flash[n] /\ sram' = flash[n].params /\ Valid(flash[n])
        /\ acked = flash[n].params
    BY <1>0, <1>1, <1>6, <2>n DEF Newest, BootParams, Partition
  <2>2. Intact(n) /\ flash[n] # Damaged
    BY <1>2, <2>1 DEF ShapeInv, Valid
  <2>3. CASE bad = {} /\ Return(Boot, "OK")
    <3>1. Valid(flash[1 - n]) /\ Intact(1 - n)
      BY <1>1, <1>2, <2>0, <2>3 DEF ShapeInv, Valid
    <3>2. flash[n].count \in Count /\ flash[1 - n].count \in Count
      BY <2>0, <2>1, <3>1, IntactType DEF IInv, ControlInv, TypeInv
    <3>3. CurrentAt(n)
      <4>1. CASE n = 0
        <5>1. ~(flash[0].count < flash[1].count)
          BY <2>n, <2>1, <3>1, <4>1 DEF Newest
        <5>2. flash[0].count # flash[1].count =>
                 \/ Succ(flash[1].count) = flash[0].count
                 \/ flash[0].count = CountModulus - 1 /\ flash[1].count = 0
          BY <1>2, <2>1, <3>1, <3>2, <4>1, <5>1, SuccCases, ConstantsTyped
          DEF PairInv, Count
        <5> QED BY <1>2, <2>1, <2>2, <3>1, <4>1, <5>2 DEF CurrentAt, PairInv, Count
      <4>2. CASE n = 1
        <5>1. flash[0].count < flash[1].count
          BY <2>n, <2>1, <3>1, <4>2 DEF Newest
        <5>2. \/ Succ(flash[0].count) = flash[1].count
              \/ flash[1].count = CountModulus - 1 /\ flash[0].count = 0
          BY <1>2, <2>1, <3>1, <3>2, <4>2, <5>1, SuccCases, ConstantsTyped
          DEF PairInv, Count
        <5> QED BY <2>1, <2>2, <3>1, <4>2, <5>2 DEF CurrentAt
      <4> QED BY <4>1, <4>2 DEF Partition
    <3>4. CurrentAt(n)'
      BY <1>0, <3>3 DEF CurrentAt, Intact
    <3>5. Current' /\ fp'.params = acked
      BY <1>0, <2>1, <2>2, <3>4 DEF Current, Intact
    <3> QED BY <1>0, <2>3, <3>5, BootDone
  <2>4. CASE \E i \in bad :
                   /\ Start(Boot, IF i = 0 THEN "restore0" ELSE "restore1", "copy")
                   /\ UNCHANGED lock
    <3>1. PICK i \in bad :
                   /\ Start(Boot, IF i = 0 THEN "restore0" ELSE "restore1", "copy")
                   /\ UNCHANGED lock
      BY <2>4
    <3>2. i \in Partition /\ ~Valid(flash[i]) /\ i = 1 - n
      BY <1>1, <2>0, <2>1 DEF Partition
    <3>3. flash[i] = Damaged
      BY <1>2, <3>2 DEF ShapeInv, Intact
    <3>4. pc'[Boot] = "copy" /\ UpdateInv' /\ IdleInv'
      BY <1>3, <3>1 DEF Start, Goto
    <3>5. job'[Boot].op = IF i = 0 THEN "restore0" ELSE "restore1"
      BY <1>0, <3>1 DEF Start, JobOf, IInv, ControlInv, TypeInv, TypeOK
    <3>6. n = 1 - i /\ (i = 0 \/ i = 1)
      BY <3>2 DEF Partition
    <3>7. Intact(1 - i)' /\ flash'[1 - i].params = acked'
      BY <1>0, <2>1, <2>2, <3>6 DEF Intact
    <3>8. RestoreInv'
      BY <1>0, <2>1, <3>3, <3>4, <3>5, <3>6, <3>7 DEF RestoreInv
    <3>9. InitInv' /\ ScanInv'
      BY <3>4, <3>5 DEF InitInv, ScanInv
    <3> QED BY <1>2, <3>4, <3>8, <3>9 DEF DataInv
  <2> QED BY <1>6, <2>3, <2>4
<1> QED BY <1>4, <1>5, <1>6 DEF BootScan, Scan, AfterDamaged

(* A task enters its critical section or returns without writing.          *)
LEMMA DataEnter ==
  ASSUME Undisturbed, IInv, NEW t \in Task, SetEnter(t) \/ SyncEnter(t)
  PROVE  DataInv'
<1>0. /\ pc[t] = "enter" /\ lock = NoProc /\ pc[Boot] = "idle"
      /\ Boot \notin Task /\ t \in Proc /\ t # NoProc
      /\ \A u \in Task : pc[u] \notin Writing
      /\ UNCHANGED <<flash, fp>>
  BY ConstantsDistinct DEF SetEnter, SyncEnter, LockInv, Proc, IInv, ControlInv
<1>1. Current /\ fp.params = acked
  BY <1>0 DEF IInv, DataInv, IdleInv
<1>2. acked' = acked
  BY <1>1 DEF SetEnter, SyncEnter
<1>3. Current' /\ fp'.params = acked' /\ ShapeInv' /\ PairInv'
  BY <1>0, <1>1, <1>2 DEF Current, CurrentAt, Intact, ShapeInv, PairInv, IInv, DataInv
<1>4. ASSUME NEW l \in {"idle", "copy"}, pc' = [pc EXCEPT ![t] = l],
             lock' = NoProc => l = "idle"
      PROVE  DataInv'
  <2>1. /\ pc'[t] = l /\ pc'[Boot] = "idle"
        /\ \A u \in Task : u # t => pc'[u] \notin Writing
    BY <1>0, <1>4 DEF IInv, ControlInv, TypeInv, TypeOK, Proc
  <2>2. UpdateInv'
    BY <1>3, <2>1 DEF UpdateInv, Writing
  <2>3. IdleInv' /\ ScanInv' /\ InitInv' /\ RestoreInv'
    BY <1>3, <2>1 DEF IdleInv, ScanInv, InitInv, RestoreInv, Writing
  <2> QED BY <1>3, <2>2, <2>3 DEF DataInv
<1>5. CASE Return(t, "OK")
  BY <1>4, <1>5 DEF Return, Goto
<1>6. CASE lock' = t /\ Goto(t, "copy")
  BY <1>0, <1>4, <1>6 DEF Goto
<1> QED BY <1>5, <1>6 DEF SetEnter, SyncEnter

(* A new call changes none of the data, and is not in progress yet.        *)
LEMMA DataCall ==
  ASSUME Undisturbed, IInv, Call
  PROVE  DataInv'
<1>1. PICK t \in SetTask : /\ Up /\ pc[t] = "idle"
                           /\ pc' = [pc EXCEPT ![t] = "enter"]
                           /\ \E j : job' = [job EXCEPT ![t] = j]
                           /\ UNCHANGED <<flash, fp, sram, lock, acked>>
  BY DEF Call, SetCall, SyncCall, Start, Goto, Undisturbed
<1>2. t \in Task /\ t \in Proc /\ Boot \notin Task /\ lock # t
  BY <1>1, ConstantsDistinct DEF Task, Proc, IInv, ControlInv, LockInv, Writing
<1>3. /\ pc'[t] = "enter" /\ pc'[Boot] = "idle"
      /\ \A u \in Task : u # t => pc'[u] = pc[u] /\ job'[u] = job[u]
  BY <1>1, <1>2 DEF Up, IInv, ControlInv, TypeInv, TypeOK, Proc
<1>4. Intended' = Intended
  <2>1. lock \in Task => job'[lock] = job[lock]
    BY <1>2, <1>3
  <2> QED BY <1>1, <2>1 DEF Intended, SetValue
<1>5. /\ Current' = Current /\ ShapeInv' = ShapeInv /\ PairInv' = PairInv
      /\ \A i : CurrentAt(i)' = CurrentAt(i)
  BY <1>1 DEF Current, CurrentAt, Intact, ShapeInv, PairInv
<1>6. \A u \in Task : u # t /\ pc[u] \in {"erase", "program", "verify"} =>
          Replacing(u, job[u].addr, Intended)'
  BY <1>1, <1>3, <1>4 DEF Replacing, Intact, IInv, DataInv, UpdateInv
<1>7. UpdateInv'
  <2> SUFFICES ASSUME NEW u \in Task, u # t
               PROVE  /\ pc[u] = "copy" => (Current /\ fp.params = acked)'
                      /\ pc[u] = "seal" => (Current /\ fp.params = Intended)'
                      /\ pc[u] \in {"erase", "program", "verify"} =>
                            Replacing(u, job[u].addr, Intended)'
                      /\ pc[u] = "erase" => CurrentAt(1 - job[u].addr)'
                      /\ pc[u] = "program" => (flash[job[u].addr] = Damaged)'
                      /\ pc[u] = "verify" => (flash[job[u].addr] = fp)'
    BY <1>3 DEF UpdateInv
  <2>1. CurrentAt(1 - job[u].addr)' <=> CurrentAt(1 - job[u].addr)
    BY <1>1, <1>3 DEF CurrentAt, Intact
  <2> QED BY <1>1, <1>3, <1>4, <1>5, <1>6, <2>1 DEF IInv, DataInv, UpdateInv
<1>8. IdleInv' /\ ScanInv' /\ InitInv' /\ RestoreInv'
  BY <1>1, <1>3, <1>5 DEF IdleInv, ScanInv, InitInv, RestoreInv, Writing, IInv, DataInv
<1> QED BY <1>5, <1>7, <1>8 DEF DataInv, IInv

(* A power loss keeps the flash, and with it what the next boot loads.     *)
LEMMA DataPowerLoss ==
  ASSUME IInv, PowerLoss
  PROVE  DataInv'
<1>1. /\ pc'[Boot] = "scan" /\ lock' = Boot /\ UNCHANGED flash
      /\ acked' = BootParams /\ Boot # NoProc
      /\ \A t \in Task : pc'[t] = "idle"
  BY ConstantsDistinct DEF PowerLoss, Proc
<1>2. ShapeInv' /\ PairInv'
  BY <1>1 DEF ShapeInv, PairInv, Intact, IInv, DataInv
<1>3. BootParams' = BootParams
  BY <1>1 DEF BootParams
<1>4. UpdateInv' /\ IdleInv' /\ ScanInv' /\ InitInv' /\ RestoreInv'
  BY <1>1, <1>3 DEF UpdateInv, IdleInv, ScanInv, InitInv, RestoreInv, Writing
<1> QED BY <1>2, <1>4 DEF DataInv

LEMMA DataInitially == Init => DataInv
<1> SUFFICES ASSUME Init PROVE DataInv
  OBVIOUS
<1>1. /\ pc[Boot] = "scan" /\ lock = Boot /\ Boot # NoProc
      /\ \A t \in Task : pc[t] = "idle"
      /\ flash[0] = Damaged /\ flash[1] = Damaged /\ acked = Factory
  BY ConstantsDistinct DEF Init, Proc, Partition
<1>2. ShapeInv /\ PairInv
  BY <1>1 DEF ShapeInv, PairInv, Partition, Valid
<1>3. UpdateInv /\ IdleInv /\ ScanInv /\ InitInv /\ RestoreInv
  BY <1>1 DEF UpdateInv, IdleInv, ScanInv, InitInv, RestoreInv, Writing, BootParams, Valid
<1> QED BY <1>2, <1>3 DEF DataInv

LEMMA IInvStep ==
  ASSUME Undisturbed, IInv, [Next]_vars
  PROVE  IInv'
<1>1. ControlInv'
  BY ControlStep DEF IInv
<1>2. CASE UNCHANGED vars
  <2>1. Intended' = Intended /\ BootParams' = BootParams
    BY <1>2 DEF vars, Intended, SetValue, BootParams
  <2>2. ShapeInv' /\ PairInv' /\ IdleInv' /\ ScanInv' /\ InitInv' /\ RestoreInv'
    BY <1>2, <2>1
    DEF vars, ShapeInv, PairInv, IdleInv, ScanInv, InitInv, RestoreInv, Current,
        CurrentAt, Intact, Replacing, IInv, DataInv
  <2>3. UpdateInv'
    BY <1>2, <2>1
    DEF vars, UpdateInv, Current, CurrentAt, Intact, Replacing, IInv, DataInv
  <2> QED BY <1>1, <2>2, <2>3 DEF IInv, DataInv
<1>3. ASSUME NEW p \in Proc, ParamToFlash(p)
      PROVE  DataInv'
  <2>1. CASE p \in Task
    BY <1>3, <2>1, DataTaskCopy, DataTaskSeal, DataTaskErase, DataTaskProgram,
       DataTaskVerify DEF ParamToFlash
  <2>2. CASE p = Boot
    BY <1>3, <2>2, DataBootCopy, DataBootSeal, DataBootErase, DataBootProgram,
       DataBootVerify DEF ParamToFlash
  <2> QED BY <2>1, <2>2 DEF Proc
<1>4. CASE Next
  BY <1>1, <1>3, <1>4, UndisturbedSteps, DataScan, DataEnter, DataCall, DataPowerLoss
  DEF IInv
<1> QED BY <1>2, <1>4

(* For any number of tasks, parameters, power losses and any width of the  *)
(* counter: without resets, UPDP commands and failing allocations, the     *)
(* next boot loads the parameters last reported as saved or those of the   *)
(* one update in progress, except in the window of a counter wrap.         *)
THEOREM UpdatesAreDurable ==
  ASSUME Undisturbed
  PROVE  Spec => []Durable
<1>1. Init => IInv
  BY ControlInitially, DataInitially DEF IInv
<1>2. IInv /\ [Next]_vars => IInv'
  BY IInvStep
<1>3. IInv => Durable
  BY IInvDurable
<1> QED BY <1>1, <1>2, <1>3, PTL DEF Spec

(* Under the same circumstances both partitions are intact whenever no     *)
(* param_to_flash is between its erase and its verification.               *)
THEOREM CopiesAreKept ==
  ASSUME Undisturbed
  PROVE  Spec => []TwoCopies
<1>1. Init => IInv
  BY ControlInitially, DataInitially DEF IInv
<1>2. IInv /\ [Next]_vars => IInv'
  BY IInvStep
<1>3. IInv => TwoCopies
  <2> SUFFICES ASSUME IInv, Up,
                      \A p \in Proc : pc[p] \in {"idle", "enter", "copy", "seal", "erase"}
               PROVE  Valid(flash[0]) /\ Valid(flash[1])
    BY DEF TwoCopies
  <2> USE DEF IInv, ControlInv, TypeInv
  <2>0. lock = NoProc \/ lock \in Task
    BY DEF LockInv, Up, TypeOK, Proc
  <2>1. \E i \in Partition : CurrentAt(i)
    <3>0. fp.pnum \in Partition
      BY DEF TypeOK, FlashParam
    <3>1. CASE lock = NoProc
      BY <3>0, <3>1 DEF DataInv, IdleInv, Current
    <3>2. CASE lock \in Task
      <4>1. pc[lock] \in {"copy", "seal", "erase"}
        BY <3>2 DEF LockInv, Writing, Proc
      <4>2. CASE pc[lock] \in {"copy", "seal"}
        BY <3>0, <3>2, <4>2 DEF DataInv, UpdateInv, Current
      <4>3. CASE pc[lock] = "erase"
        <5>1. 1 - job[lock].addr \in Partition
          BY <3>2 DEF TypeOK, Job, Partition, Proc
        <5> QED BY <3>2, <4>3, <5>1 DEF DataInv, UpdateInv
      <4> QED BY <4>1, <4>2, <4>3
    <3> QED BY <2>0, <3>1, <3>2
  <2> QED BY <2>1 DEF CurrentAt, Intact, Partition
<1> QED BY <1>1, <1>2, <1>3, PTL DEF Spec

(* Under the same circumstances an intact partition is only erased while   *)
(* the other one holds what was last reported as saved.                    *)
THEOREM EraseIsSafe ==
  ASSUME Undisturbed
  PROVE  Spec => EraseKeepsAcked
<1>1. Init => IInv
  BY ControlInitially, DataInitially DEF IInv
<1>2. IInv /\ [Next]_vars => IInv'
  BY IInvStep
<1>3. IInv /\ [Next]_vars => [EraseStep]_vars
  <2> SUFFICES ASSUME IInv, Next, NEW i \in Partition,
                      Valid(flash[i]), ~Valid(flash'[i])
               PROVE  Valid(flash[1 - i]) /\ flash[1 - i].params = acked
    BY DEF EraseStep
  <2> USE DEF IInv, ControlInv, TypeInv
  <2>1. flash' # flash
    OBVIOUS
  <2>2. ASSUME NEW p \in Proc, ParamToFlash(p)
        PROVE  /\ pc[p] \in {"erase", "program"}
               /\ job[p].addr = i
    BY <2>1, <2>2
    DEF ParamToFlash, CopyFields, SealHeader, VerifyPartition, ErasePartition,
        ProgramPartition, TypeOK
  <2>3. PICK p \in Proc : ParamToFlash(p)
    BY <2>1, UndisturbedSteps
    DEF BootScan, Scan, SetEnter, SyncEnter, Call, SetCall, SyncCall, ResetCall,
        UpdpBegin, UpdpEnd, PowerLoss
  <2>4. pc[p] \in {"erase", "program"} /\ job[p].addr = i
    BY <2>2, <2>3
  <2>5. CASE p \in Task
    BY <2>4, <2>5 DEF DataInv, UpdateInv, Replacing, Intact
  <2>6. CASE p = Boot
    <3>1. job[Boot].op \in BootOp
      BY <2>4, <2>6 DEF BootInv, Writing
    <3>2. flash[i] = Damaged
      BY <2>4, <2>6, <3>1
      DEF DataInv, InitInv, RestoreInv, Replacing, Writing, BootOp
    <3> QED BY <3>2 DEF Valid
  <2> QED BY <2>5, <2>6 DEF Proc
<1> QED BY <1>1, <1>2, <1>3, PTL DEF Spec, EraseKeepsAcked

(* Under the same circumstances tls_param_get from flash returns what the  *)
(* next boot loads, except in the window of a counter wrap.                *)
THEOREM ReadsAreOfFlash ==
  ASSUME Undisturbed
  PROVE  Spec => []ReadFromFlash
<1>1. Init => IInv
  BY ControlInitially, DataInitially DEF IInv
<1>2. IInv /\ [Next]_vars => IInv'
  BY IInvStep
<1>3. IInv => ReadFromFlash
  <2> SUFFICES ASSUME IInv, lock = NoProc
               PROVE  Straddle \/ \A f \in Field : GetValue(f, TRUE) = BootParams[f]
    BY DEF ReadFromFlash
  <2>1. CurrentAt(fp.pnum) /\ fp.params = acked
    BY DEF IInv, DataInv, IdleInv, Current
  <2>2. TypeOK /\ fp.pnum \in Partition
    BY DEF IInv, ControlInv, TypeInv, TypeOK, FlashParam
  <2>3. BootParams = acked \/ Straddle
    BY <2>1, <2>2, CurrentIsLoaded
  <2> QED BY <2>1, <2>3 DEF GetValue
<1> QED BY <1>1, <1>2, <1>3, PTL DEF Spec

-----------------------------------------------------------------------------
(* What the flash can hold at all.  Failing allocations, UPDP commands,    *)
(* the fall-through and the wrap do not matter here; that every writer     *)
(* of flash_param holds sys_param_lock does.                               *)

WriterInv ==
    /\ \A t \in Task : /\ pc[t] \in Writing <=> lock = t
                       /\ pc[t] \in Writing => job[t].op \in {"set", "sync"}
    /\ pc[Boot] # "idle" <=> lock = Boot
    /\ pc[Boot] \in Writing => job[Boot].op \in BootOp
    /\ pc[Boot] # "idle" => \A t \in Task : pc[t] = "idle"
SealInv == \A p \in Proc : pc[p] \in {"erase", "program"} => Valid(fp)
TornInv == TypeInv /\ WriterInv /\ SealInv /\ NeverTorn

NoWriter == \A q \in Proc : pc[q] \notin {"erase", "program"}

(* The one process in param_to_flash.                                      *)
LEMMA OneWriter ==
  ASSUME TornInv, NEW p \in Proc, pc[p] \in Writing
  PROVE  lock = p /\ \A q \in Proc : q # p => pc[q] \notin Writing
<1>1. CASE p = Boot
  BY <1>1 DEF TornInv, WriterInv, Writing, Proc
<1>2. CASE p \in Task
  BY <1>2, ConstantsDistinct DEF TornInv, WriterInv, Writing, Proc
<1> QED BY <1>1, <1>2 DEF Proc

LEMMA WriterMoves ==
  ASSUME TornInv, NEW p \in Proc, pc[p] \in Writing,
         NEW l \in Writing, pc' = [pc EXCEPT ![p] = l], UNCHANGED lock,
         \A q \in Proc : q # p => job'[q] = job[q],
         job'[p].op = job[p].op \/ (p = Boot /\ job'[p].op \in BootOp)
  PROVE  WriterInv' /\ pc'[p] = l /\ \A q \in Proc : q # p => pc'[q] = pc[q]
<1>1. pc'[p] = l /\ \A q \in Proc : q # p => pc'[q] = pc[q]
  BY DEF TornInv, TypeInv, TypeOK
<1>2. Boot \in Proc /\ Boot \notin Task /\ Task \subseteq Proc
  BY ConstantsDistinct DEF Proc
<1>3. CASE p = Boot
  BY <1>1, <1>2, <1>3 DEF TornInv, WriterInv, Writing
<1>4. CASE p \in Task
  BY <1>1, <1>2, <1>4 DEF TornInv, WriterInv, Writing
<1> QED BY <1>1, <1>3, <1>4 DEF Proc

LEMMA WriterReturns ==
  ASSUME TornInv, NEW p \in Proc, NEW s, Return(p, s),
         p \in Task \/ pc[p] # "idle"
  PROVE  WriterInv' /\ \A q \in Proc : pc'[q] \in {pc[q], "idle"}
<1>1. /\ pc'[p] = "idle" /\ \A q \in Proc : q # p => pc'[q] = pc[q] /\ job'[q] = job[q]
      /\ lock' = IF lock = p THEN NoProc ELSE lock
  BY DEF TornInv, TypeInv, TypeOK, Return, Goto
<1>2. Boot \in Proc /\ Boot \notin Task /\ Task \subseteq Proc /\ NoProc \notin Proc
  BY ConstantsDistinct DEF Proc
<1>3. CASE p = Boot
  <2>1. lock = Boot /\ lock' = NoProc
    BY <1>1, <1>2, <1>3 DEF TornInv, WriterInv, Writing
  <2> QED BY <1>1, <1>2, <1>3, <2>1 DEF TornInv, WriterInv, Writing
<1>4. CASE p \in Task
  BY <1>1, <1>2, <1>4 DEF TornInv, WriterInv, Writing
<1> QED BY <1>1, <1>3, <1>4 DEF Proc

LEMMA WriterContinues ==
  ASSUME TornInv, NEW p \in Proc, pc[p] \in Writing, NEW s, Continue(p, s)
  PROVE  WriterInv' /\ NoWriter'
<1>0. \A q \in Proc : q # p => pc[q] \notin {"erase", "program"}
  BY OneWriter DEF Writing
<1>1. CASE Return(p, s)
  <2>1. WriterInv' /\ \A q \in Proc : pc'[q] \in {pc[q], "idle"}
    BY <1>1, WriterReturns DEF Writing
  <2>2. pc'[p] = "idle"
    BY <1>1 DEF Return, Goto, TornInv, TypeInv, TypeOK
  <2> QED BY <1>0, <2>1, <2>2 DEF NoWriter
<1>2. CASE /\ job[p].op \in {"reset0", "init0"} /\ Goto(p, "copy") /\ UNCHANGED lock
           /\ job' = [job EXCEPT ![p].op = IF job[p].op = "reset0" THEN "reset1" ELSE "init1"]
  <2>1. p = Boot /\ job[p].op = "init0"
    BY <1>2 DEF TornInv, WriterInv, BootOp, Proc
  <2>2. job'[p].op = "init1" /\ \A q \in Proc : q # p => job'[q] = job[q]
    BY <1>2, <2>1 DEF TornInv, TypeInv, TypeOK, Job
  <2>3. WriterInv' /\ pc'[p] = "copy" /\ \A q \in Proc : q # p => pc'[q] = pc[q]
    BY <1>2, <2>1, <2>2, WriterMoves DEF Goto, Writing, BootOp
  <2> QED BY <1>0, <2>3 DEF NoWriter
<1> QED BY <1>1, <1>2 DEF Continue

(* When no process is about to program, the rest follows.                  *)
LEMMA TornKept ==
  ASSUME TornInv, UNCHANGED flash, NoWriter' \/ UNCHANGED fp,
         NoWriter' \/ \A q \in Proc : pc'[q] \in {"erase", "program"} =>
                                    pc[q] \in {"erase", "program"}
  PROVE  SealInv' /\ NeverTorn'
BY DEF TornInv, SealInv, NeverTorn, NoWriter

LEMMA TornParamToFlash ==
  ASSUME TornInv, NEW p \in Proc, ParamToFlash(p)
  PROVE  WriterInv' /\ SealInv' /\ NeverTorn'
<1>0. pc[p] \in Writing
  BY DEF ParamToFlash, CopyFields, SealHeader, ErasePartition, ProgramPartition,
         VerifyPartition, Writing
<1>1. \A q \in Proc : q # p => pc[q] \notin {"erase", "program"}
  BY <1>0, OneWriter DEF Writing
<1>2. CASE CopyFields(p)
  <2>1. WriterInv' /\ pc'[p] = "seal" /\ \A q \in Proc : q # p => pc'[q] = pc[q]
    BY <1>0, <1>2, WriterMoves DEF CopyFields, Goto, Writing
  <2>2. NoWriter'
    BY <1>1, <2>1 DEF NoWriter
  <2> QED BY <1>2, <2>1, <2>2, TornKept DEF CopyFields
<1>3. CASE SealHeader(p)
  <2> DEFINE count == NextCount(job[p].op, fp.count)
             part  == TargetOf(job[p].op, fp.pnum)
  <2>1. fp' = Sealed(count, fp.params, part) /\ job' = [job EXCEPT ![p].addr = part]
    BY <1>3 DEF SealHeader
  <2>2. job'[p].op = job[p].op /\ \A q \in Proc : q # p => job'[q] = job[q]
    BY <2>1 DEF TornInv, TypeInv, TypeOK, Job
  <2>3. WriterInv' /\ pc'[p] = "erase" /\ \A q \in Proc : q # p => pc'[q] = pc[q]
    BY <1>0, <1>3, <2>2, WriterMoves DEF SealHeader, Goto, Writing
  <2>4. fp.count \in Count /\ fp.params \in Params /\ fp.pnum \in Partition
    BY DEF TornInv, TypeInv, TypeOK, FlashParam
  <2>5. count \in Count /\ part \in Partition
    <3>1. 1 \in Count
      BY ConstantsTyped DEF Count
    <3> QED BY <2>4, <3>1, SuccInCount, TargetInPartition DEF NextCount
  <2> HIDE DEF count, part
  <2>6. Valid(fp')
    BY <2>1, <2>4, <2>5, SealedValid
  <2> QED BY <1>3, <2>3, <2>6 DEF SealHeader, SealInv, NeverTorn, TornInv
<1>4. CASE ErasePartition(p)
  <2>1. WriterInv' /\ pc'[p] = "program" /\ \A q \in Proc : q # p => pc'[q] = pc[q]
    BY <1>0, <1>4, WriterMoves DEF ErasePartition, Goto, Writing
  <2>2. SealInv'
    BY <1>1, <1>4, <2>1 DEF SealInv, TornInv, ErasePartition
  <2>3. NeverTorn'
    BY <1>4 DEF NeverTorn, TornInv, TypeInv, TypeOK, ErasePartition
  <2> QED BY <2>1, <2>2, <2>3
<1>5. CASE ProgramPartition(p)
  <2>1. WriterInv' /\ pc'[p] = "verify" /\ \A q \in Proc : q # p => pc'[q] = pc[q]
    BY <1>0, <1>5, WriterMoves DEF ProgramPartition, Goto, Writing
  <2>2. SealInv'
    BY <1>1, <2>1 DEF SealInv
  <2>3. NeverTorn'
    BY <1>5 DEF NeverTorn, SealInv, TornInv, TypeInv, TypeOK, ProgramPartition
  <2> QED BY <2>1, <2>2, <2>3
<1>6. CASE VerifyPartition(p)
  <2>1. WriterInv' /\ NoWriter'
    BY <1>0, <1>6, WriterContinues DEF VerifyPartition
  <2> QED BY <1>6, <2>1, TornKept DEF VerifyPartition
<1> QED BY <1>2, <1>3, <1>4, <1>5, <1>6 DEF ParamToFlash

LEMMA TornScan ==
  ASSUME TornInv, NEW miss, Scan(miss)
  PROVE  WriterInv' /\ SealInv' /\ NeverTorn'
<1>0. /\ pc[Boot] \in {"scan", "rescan"} /\ lock = Boot
      /\ \A t \in Task : pc[t] = "idle"
      /\ Boot \in Proc /\ Boot \notin Task /\ Task \subseteq Proc
  BY ConstantsDistinct DEF Scan, TornInv, WriterInv, Proc
<1>1. CASE Return(Boot, "OK")
  <2>1. WriterInv' /\ \A q \in Proc : pc'[q] \in {pc[q], "idle"}
    BY <1>0, <1>1, WriterReturns
  <2>2. NoWriter'
    BY <1>0, <2>1 DEF NoWriter, Proc
  <2> QED BY <2>1, <2>2, TornKept DEF Scan
<1>2. ASSUME NEW l \in {"rescan", "copy"}, pc' = [pc EXCEPT ![Boot] = l], UNCHANGED lock,
             l = "copy" => job'[Boot].op \in BootOp
      PROVE  WriterInv' /\ SealInv' /\ NeverTorn'
  <2>1. pc'[Boot] = l /\ \A t \in Task : pc'[t] = "idle"
    BY <1>0, <1>2 DEF TornInv, TypeInv, TypeOK
  <2>2. WriterInv'
    BY <1>0, <1>2, <2>1 DEF WriterInv, Writing
  <2>3. NoWriter'
    BY <2>1 DEF NoWriter, Proc
  <2> QED BY <2>2, <2>3, TornKept DEF Scan
<1>3. ASSUME NEW o \in BootOp, Start(Boot, o, "copy")
      PROVE  pc' = [pc EXCEPT ![Boot] = "copy"] /\ job'[Boot].op \in BootOp
  BY <1>0, <1>3 DEF Start, Goto, JobOf, TornInv, TypeInv, TypeOK
<1> QED BY <1>1, <1>2, <1>3 DEF Scan, AfterDamaged, Goto, BootOp

LEMMA TornFault ==
  ASSUME TornInv, Fault
  PROVE  WriterInv' /\ SealInv' /\ NeverTorn'
<1>1. ASSUME NEW p \in Proc, NEW s, pc[p] \in Writing, Continue(p, s), UNCHANGED flash
      PROVE  WriterInv' /\ SealInv' /\ NeverTorn'
  BY <1>1, WriterContinues, TornKept
<1>2. ASSUME NEW p \in Proc, WriteNoMem(p) \/ VerifyNoMem(p)
      PROVE  WriterInv' /\ SealInv' /\ NeverTorn'
  BY <1>1, <1>2 DEF WriteNoMem, VerifyNoMem, Writing
<1>3. CASE BootReadNoMem
  BY <1>3, TornScan DEF BootReadNoMem
<1>4. CASE BootNoMem
  <2>1. WriterInv' /\ \A q \in Proc : pc'[q] \in {pc[q], "idle"}
    BY <1>4, WriterReturns, BootIsProc DEF BootNoMem
  <2> QED BY <1>4, <2>1, TornKept DEF BootNoMem
<1>5. ASSUME NEW t \in UpdpTask, UpdpLoadNoMem(t) \/ SaveUserNoMem(t)
      PROVE  WriterInv' /\ SealInv' /\ NeverTorn'
  <2>0. /\ t \in Task /\ t \in Proc /\ Boot \notin Task /\ Task \subseteq Proc
        /\ Boot \in Proc
    BY ConstantsDistinct DEF Proc, Task
  <2>1. UNCHANGED <<flash, fp>>
    BY <1>5 DEF UpdpLoadNoMem, SaveUserNoMem
  <2>2. CASE Return(t, "OK")
    <3>1. WriterInv' /\ \A q \in Proc : pc'[q] \in {pc[q], "idle"}
      BY <2>0, <2>2, WriterReturns
    <3> QED BY <2>1, <3>1, TornKept
  <2>3. ASSUME pc[t] \in {"magic", "data"}, NEW l \in {"data", "crc"}, Goto(t, l),
               UNCHANGED <<lock, job>>
        PROVE  WriterInv' /\ SealInv' /\ NeverTorn'
    <3>1. pc'[t] = l /\ \A q \in Proc : q # t => pc'[q] = pc[q]
      BY <2>0, <2>3 DEF Goto, TornInv, TypeInv, TypeOK
    <3>2. WriterInv'
      BY <2>0, <2>3, <3>1 DEF WriterInv, Writing, TornInv
    <3> QED BY <2>1, <3>1, <3>2, TornKept
  <2> QED BY <1>5, <2>2, <2>3 DEF UpdpLoadNoMem, SaveUserNoMem
<1> QED BY <1>2, <1>3, <1>4, <1>5 DEF Fault

LEMMA TornTask ==
  ASSUME TornInv, NEW t \in Task,
         \/ SetEnter(t) \/ SyncEnter(t)
         \/ UpdpLoad(t) \/ SaveUserMagic(t) \/ SaveUserData(t) \/ SaveUserCrc(t)
  PROVE  WriterInv' /\ SealInv' /\ NeverTorn'
<1>0. t \in Proc /\ Boot \in Proc /\ Boot \notin Task /\ Task \subseteq Proc /\ NoProc \notin Proc
  BY ConstantsDistinct DEF Proc
<1>1. CASE UNCHANGED <<flash, fp>> /\ \E s : Return(t, s)
  <2>1. WriterInv' /\ \A q \in Proc : pc'[q] \in {pc[q], "idle"}
    BY <1>0, <1>1, WriterReturns
  <2> QED BY <1>1, <2>1, TornKept
<1>2. CASE /\ pc[t] = "enter" /\ job[t].op \in {"set", "sync"} /\ lock = NoProc
           /\ lock' = t /\ Goto(t, "copy") /\ UNCHANGED <<flash, fp, job>>
  <2>1. pc'[t] = "copy" /\ \A q \in Proc : q # t => pc'[q] = pc[q]
    BY <1>0, <1>2 DEF Goto, TornInv, TypeInv, TypeOK
  <2>2. WriterInv'
    BY <1>0, <1>2, <2>1 DEF WriterInv, Writing, TornInv
  <2> QED BY <1>2, <2>1, <2>2, TornKept
<1>3. ASSUME NEW from \in {"magic", "data"}, NEW to \in {"data", "crc"}, NEW new,
             SaveUserStep(t, from, to, new)
      PROVE  WriterInv' /\ SealInv' /\ NeverTorn'
  <2>1. /\ pc[t] = from /\ pc'[t] = to /\ \A q \in Proc : q # t => pc'[q] = pc[q]
        /\ UNCHANGED <<flash, fp, job, lock>>
    BY <1>0, <1>3 DEF SaveUserStep, Goto, TornInv, TypeInv, TypeOK
  <2>2. WriterInv'
    BY <1>0, <2>1 DEF WriterInv, Writing, TornInv
  <2> QED BY <2>1, <2>2, TornKept
<1>4. CASE SaveUserMagic(t) \/ SaveUserData(t)
  BY <1>3, <1>4 DEF SaveUserMagic, SaveUserData
<1> QED BY <1>1, <1>2, <1>4 DEF SetEnter, SyncEnter, UpdpLoad, SaveUserCrc

LEMMA TornCall ==
  ASSUME ResetTask = {}, TornInv, Call
  PROVE  WriterInv' /\ SealInv' /\ NeverTorn'
<1>1. PICK t \in Task, l \in {"enter", "load", "magic"} :
         /\ Up /\ pc[t] = "idle" /\ pc' = [pc EXCEPT ![t] = l]
         /\ \E j : job' = [job EXCEPT ![t] = j]
         /\ UNCHANGED <<flash, fp, lock>>
  BY DEF Call, SetCall, SyncCall, UpdpBegin, UpdpEnd, Start, Goto, Task
<1>2. t \in Proc /\ Boot \in Proc /\ Boot \notin Task /\ Task \subseteq Proc
  BY ConstantsDistinct DEF Proc
<1>3. pc'[t] = l /\ \A q \in Proc : q # t => pc'[q] = pc[q] /\ job'[q] = job[q]
  BY <1>1, <1>2 DEF TornInv, TypeInv, TypeOK
<1>4. WriterInv'
  BY <1>1, <1>2, <1>3 DEF WriterInv, Writing, TornInv, Up
<1> QED BY <1>1, <1>3, <1>4, TornKept

LEMMA TornPowerLoss ==
  ASSUME TornInv, PowerLoss
  PROVE  WriterInv' /\ SealInv' /\ NeverTorn'
<1>1. /\ pc'[Boot] = "scan" /\ lock' = Boot /\ UNCHANGED flash /\ Boot \notin Task
      /\ \A t \in Task : pc'[t] = "idle"
  BY ConstantsDistinct DEF PowerLoss, Proc
<1>2. WriterInv'
  BY <1>1 DEF WriterInv, Writing
<1>3. NoWriter'
  BY <1>1 DEF NoWriter, Proc
<1> QED BY <1>1, <1>2, <1>3, TornKept

LEMMA TornStep ==
  ASSUME ResetTask = {}, TornInv, [Next]_vars
  PROVE  TornInv'
<1>1. TypeInv'
  BY TypeStep DEF TornInv
<1>2. WriterInv' /\ SealInv' /\ NeverTorn'
  <2>1. CASE UNCHANGED vars
    BY <2>1 DEF vars, TornInv, WriterInv, SealInv, NeverTorn
  <2>2. CASE BootStep
    BY <2>2, TornScan, TornParamToFlash, BootIsProc DEF BootStep, BootScan
  <2>3. CASE \E t \in Task : TaskStep(t)
    BY <2>3, TornParamToFlash, TornTask, BootIsProc DEF TaskStep
  <2> QED BY <2>1, <2>2, <2>3, TornCall, TornFault, TornPowerLoss DEF Next
<1> QED BY <1>1, <1>2 DEF TornInv

(* As long as every writer takes sys_param_lock, a partition is never      *)
(* half good: whatever power losses, failing allocations, UPDP commands    *)
(* and counter wraps do, it is erased or carries a CRC that matches.       *)
(* Without the hypothesis it is false: tls_param_to_default takes no lock. *)
THEOREM FlashNeverTorn ==
  ASSUME ResetTask = {}
  PROVE  Spec => []NeverTorn
<1>1. Init => TornInv
  <2> SUFFICES ASSUME Init PROVE WriterInv /\ SealInv /\ NeverTorn
    BY TypeInitially DEF TornInv
  <2>1. /\ pc[Boot] = "scan" /\ lock = Boot /\ Boot \notin Task
        /\ \A t \in Task : pc[t] = "idle"
    BY ConstantsDistinct DEF Init, Proc
  <2> QED BY <2>1 DEF Init, WriterInv, SealInv, NeverTorn, Writing, Proc
<1>2. TornInv /\ [Next]_vars => TornInv'
  BY TornStep
<1>3. TornInv => NeverTorn
  BY DEF TornInv
<1> QED BY <1>1, <1>2, <1>3, PTL DEF Spec
=============================================================================
