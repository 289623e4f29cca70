----------------------------- MODULE ParamStore -----------------------------
(***************************************************************************)
(* The parameter manager of the SDK (Platform/Common/Params/wm_param.c):   *)
(* a RAM copy of the system parameters (sram_param), a RAM image of the    *)
(* newest flash copy (flash_param) and two flash partitions that are       *)
(* written in turn, each stamped with a 16 bit modify_count and a CRC.     *)
(*                                                                         *)
(* Tasks call tls_param_set and tls_param_to_flash under sys_param_lock,   *)
(* the AT/host command layer calls tls_param_to_default, which takes no    *)
(* lock, and the UPDP host command redirects tls_param_set to the user     *)
(* default parameters.  A power loss may hit between any two steps; the    *)
(* next boot runs tls_param_init.  tls_mem_alloc may fail.                 *)
(***************************************************************************)
EXTENDS Integers, FiniteSets

CONSTANTS
    SetTask,      \* tasks that call tls_param_set / tls_param_to_flash
    ResetTask,    \* tasks that call tls_param_to_default
    UpdpTask,     \* tasks that execute the host command UPDP
    Boot,         \* the thread that runs tls_param_init at power on
    NoProc,       \* sys_param_lock is free
    Field,        \* the parameter ids
    All,          \* TLS_PARAM_ID_ALL
    Period, Debug,\* TLS_PARAM_ID_AUTO_TRIGGER_PERIOD and TLS_PARAM_ID_DEBUG_MODE
    Value,        \* what one parameter may hold
    Zero,         \* the value memset leaves in a parameter
    Factory,      \* the table in tls_param_load_factory_default
    Damaged,      \* an erased or half programmed partition
    CountModulus, \* modify_count is a u16: 2^16 in the code
    MaxCount,     \* bound: no task starts an update once modify_count is above it
    MaxCrash,     \* bound: number of power losses
    MaxFault      \* bound: number of failed allocations

Task == SetTask \cup ResetTask \cup UpdpTask
Proc == Task \cup {Boot}
Params == [Field -> Value]
Count == 0 .. CountModulus - 1
Partition == 0 .. 1

(* struct tls_param_flash, and what its crc32 is computed over.  A CRC is  *)
(* taken to be collision free: it is the contents it was computed from.    *)
Content == [magic : BOOLEAN, params : Params, count : Count, pnum : Partition]
FlashParam == [magic : BOOLEAN, params : Params, count : Count,
               pnum : Partition, crc : Content]

(* The sector at TLS_FLASH_PARAM_DEFAULT: magic, parameters, CRC, each     *)
(* written by a tls_fls_write of its own.                                  *)
UserSector == [magic : BOOLEAN, params : Params, crc : Params]

ASSUME ConstantsDistinct ==
    /\ Boot \notin Task
    /\ NoProc \notin Proc
    /\ All \notin Field
    /\ Damaged \notin FlashParam
ASSUME ConstantsTyped ==
    /\ Zero \in Value
    /\ Factory \in Params
    /\ CountModulus \in Nat /\ CountModulus > 3
    /\ MaxCount \in Nat /\ MaxCrash \in Nat /\ MaxFault \in Nat

VARIABLES
    flash,      \* the two partitions
    user,       \* the user default sector
    fp,         \* flash_param
    sram,       \* sram_param
    udp,        \* user_default_param
    updp,       \* updp_mode
    lock,       \* holder of sys_param_lock
    pc, job,    \* where each process is, and the call it executes
    ret,        \* status the last call of each process returned
    acked,      \* history: the parameters reported as saved
    prev,       \* history: the parameters reported as saved before those
    crashes, faults

vars == <<flash, user, fp, sram, udp, updp, lock, pc, job, ret, acked, prev,
          crashes, faults>>

Op == {"none", "set", "sync", "reset0", "reset1", "init0", "init1",
       "restore0", "restore1", "updp"}
Job == [op : Op, id : Field \cup {All}, val : Value, save : BOOLEAN,
        touser : BOOLEAN, addr : Partition]
PC == {"idle", "scan", "rescan", "enter", "copy", "seal", "erase", "program",
       "verify", "load", "magic", "data", "crc"}
Status == {"none", "OK", "EIO", "EMEM"}

JobOf(o) == [op |-> o, id |-> All, val |-> Zero, save |-> FALSE,
             touser |-> FALSE, addr |-> 0]
NoJob == JobOf("none")
ZeroParams == [f \in Field |-> Zero]
ZeroContent == [magic |-> FALSE, params |-> ZeroParams, count |-> 0, pnum |-> 0]
ZeroFlashParam == [magic |-> FALSE, params |-> ZeroParams, count |-> 0,
                   pnum |-> 0, crc |-> ZeroContent]

ContentOf(s) == [magic |-> s.magic, params |-> s.params, count |-> s.count,
                 pnum |-> s.pnum]

(* The two tests tls_param_init makes of a partition it has read.          *)
Valid(s) == s # Damaged /\ s.magic /\ s.crc = ContentOf(s)

(* The partition tls_param_init loads: the later modify_count, compared as *)
(* plain u16 numbers; partition 0 when they are equal.                     *)
NewestOldest(f) == IF Valid(f[0]) THEN 0 ELSE 1    \* mutant: first intact one
Newest(f) == IF /\ Valid(f[1])
                /\ Valid(f[0]) => f[0].count < f[1].count
             THEN 1 ELSE 0

(* What a boot with no failing allocation would load.                      *)
BootParams == IF Valid(flash[0]) \/ Valid(flash[1])
              THEN flash[Newest(flash)].params ELSE Factory

TypeOK ==
    /\ flash \in [Partition -> FlashParam \cup {Damaged}]
    /\ user \in UserSector
    /\ fp \in FlashParam
    /\ sram \in Params /\ udp \in Params
    /\ updp \in BOOLEAN
    /\ lock \in Proc \cup {NoProc}
    /\ pc \in [Proc -> PC] /\ job \in [Proc -> Job]
    /\ ret \in [Proc -> Status]
    /\ acked \in Params /\ prev \in Params
    /\ crashes \in 0 .. MaxCrash /\ faults \in 0 .. MaxFault

Init ==
    /\ flash = [i \in Partition |-> Damaged]
    /\ user = [magic |-> FALSE, params |-> ZeroParams, crc |-> ZeroParams]
    /\ fp = ZeroFlashParam
    /\ sram = ZeroParams /\ udp = ZeroParams
    /\ updp = FALSE
    /\ lock = Boot
    /\ pc = [p \in Proc |-> IF p = Boot THEN "scan" ELSE "idle"]
    /\ job = [p \in Proc |-> NoJob]
    /\ ret = [p \in Proc |-> "none"]
    /\ acked = Factory /\ prev = Factory
    /\ crashes = 0 /\ faults = 0

Up == pc[Boot] = "idle"

-----------------------------------------------------------------------------
(* Moving one process.                                                     *)

Goto(p, l) == pc' = [pc EXCEPT ![p] = l]

Start(p, o, l) ==
    /\ job' = [job EXCEPT ![p] = JobOf(o)]
    /\ ret' = [ret EXCEPT ![p] = "none"]
    /\ Goto(p, l)

(* Mutant: the early return that forgets the semaphore.                    *)
ReturnLocked(p, s) ==
    /\ job' = [job EXCEPT ![p] = NoJob]
    /\ ret' = [ret EXCEPT ![p] = s]
    /\ Goto(p, "idle") /\ UNCHANGED lock

(* The call returns status s; sys_param_lock is released if p holds it.    *)
Return(p, s) ==
    /\ job' = [job EXCEPT ![p] = NoJob]
    /\ ret' = [ret EXCEPT ![p] = s]
    /\ lock' = IF lock = p THEN NoProc ELSE lock
    /\ Goto(p, "idle")

AllocFails == faults < MaxFault /\ faults' = faults + 1

Report(new) == acked' = new /\ prev' = acked

-----------------------------------------------------------------------------
(* param_to_flash(id, modify_count, partition_num), in the steps between   *)
(* which another task may run or the power may go.                         *)

(* modify_count is set to 1 by the factory paths, incremented by all others*)
FixedCount(o) == o \in {"reset0", "reset1", "init0", "init1"}
CountKept(o, current) == IF FixedCount(o) THEN 1 ELSE current         \* mutant
NextCount(o, current) == IF FixedCount(o) THEN 1
                         ELSE (current + 1) % CountModulus

(* partition_num: fixed by the caller, or the other one of the two.        *)
TargetSame(o, current) == IF FixedCount(o) THEN 0 ELSE current        \* mutant
TargetNext(o, current) ==                       \* mutant: the & 0x01 is missing
    IF FixedCount(o) \/ o = "restore0" THEN 0 ELSE current + 1
TargetOf(o, current) ==
    IF o \in {"reset0", "init0", "restore0"} THEN 0
    ELSE IF o \in {"reset1", "init1", "restore1"} THEN 1
    ELSE (current + 1) % 2

(* The fields the switch copies for an id.  The PERIOD case has no break   *)
(* and falls through into the DEBUG_MODE case.                             *)
CopiedAll(id) == Field                                                \* mutant
CopiedFields(id) == IF id = All THEN Field
                    ELSE IF id = Period THEN {Period, Debug} ELSE {id}

CopyFields(p) ==
    /\ pc[p] = "copy"
    /\ fp' = [fp EXCEPT !.params =
                [f \in Field |-> IF f \in CopiedFields(job[p].id)
                                 THEN sram[f] ELSE fp.params[f]]]
    /\ Goto(p, "seal")
    /\ UNCHANGED <<flash, user, sram, udp, updp, lock, job, ret, acked, prev,
                   crashes, faults>>

SealedEarly(c, params, n) ==     \* mutant: the CRC is taken before the header
    [magic |-> TRUE, params |-> params, count |-> c, pnum |-> n, crc |-> ContentOf(fp)]
Sealed(c, params, n) ==
    LET body == [magic |-> TRUE, params |-> params, count |-> c, pnum |-> n]
    IN  [magic |-> TRUE, params |-> params, count |-> c, pnum |-> n, crc |-> body]

(* Header and CRC; the address is evaluated here for tls_fls_write.        *)
SealHeader(p) ==
    LET count == NextCount(job[p].op, fp.count)
        part  == TargetOf(job[p].op, fp.pnum)
    IN  /\ pc[p] = "seal"
        /\ fp' = Sealed(count, fp.params, part)
        /\ job' = [job EXCEPT ![p].addr = part]
        /\ Goto(p, "erase")
        /\ UNCHANGED <<flash, user, sram, udp, updp, lock, ret, acked, prev,
                       crashes, faults>>

(* tls_fls_write up to eraseSector.                                        *)
ErasePartition(p) ==
    /\ pc[p] = "erase"
    /\ flash' = [flash EXCEPT ![job[p].addr] = Damaged]
    /\ Goto(p, "program")
    /\ UNCHANGED <<user, fp, sram, udp, updp, lock, job, ret, acked, prev,
                   crashes, faults>>

(* The rest of tls_fls_write: flash_param is copied into the sector cache  *)
(* only after the erase, then the pages are programmed.                    *)
ProgramPartition(p) ==
    /\ pc[p] = "program"
    /\ flash' = [flash EXCEPT ![job[p].addr] = fp]
    /\ Goto(p, "verify")
    /\ UNCHANGED <<user, fp, sram, udp, updp, lock, job, ret, acked, prev,
                   crashes, faults>>

(* What a set saves in its field: its argument, unless the argument went   *)
(* to the user defaults.                                                   *)
SetValue(p) == IF job[p].touser THEN sram[job[p].id] ELSE job[p].val

(* What the caller of param_to_flash does with its result.                 *)
Continue(p, s) ==
    \/ /\ job[p].op \in {"set", "sync"}
       /\ Return(p, s)
       /\ IF s = "OK"
          THEN Report(IF job[p].op = "set"
                      THEN [acked EXCEPT ![job[p].id] = SetValue(p)]
                      ELSE [f \in Field |-> IF job[p].id \in {f, All}
                                            THEN sram[f] ELSE acked[f]])
          ELSE UNCHANGED <<acked, prev>>
       /\ UNCHANGED fp
    \/ /\ job[p].op \in {"reset0", "init0"} /\ s = "OK"
       /\ job' = [job EXCEPT ![p].op = IF job[p].op = "reset0"
                                       THEN "reset1" ELSE "init1"]
       /\ Goto(p, "copy")
       /\ UNCHANGED <<fp, lock, ret, acked, prev>>
    \/ /\ \/ job[p].op \in {"reset0", "init0"} /\ s # "OK"
          \/ job[p].op \in {"init1", "restore0", "restore1"}
       /\ Return(p, s)
       /\ UNCHANGED <<fp, acked, prev>>
    \/ /\ job[p].op = "reset1"
       /\ fp' = [fp EXCEPT !.magic = FALSE]
       /\ Return(p, s)
       /\ IF s = "OK" THEN Report(Factory) ELSE UNCHANGED <<acked, prev>>

(* param_flash_verify, then the return to the caller.                      *)
VerifyPartition(p) ==
    /\ pc[p] = "verify"
    /\ Continue(p, IF flash[fp.pnum] = fp THEN "OK" ELSE "EIO")
    /\ UNCHANGED <<flash, user, sram, udp, updp, crashes, faults>>

(* tls_fls_write finds no memory for its sector cache: nothing is erased,  *)
(* but flash_param has moved on already.                                   *)
WriteNoMem(p) ==
    /\ pc[p] = "erase"
    /\ AllocFails
    /\ Continue(p, "EIO")
    /\ UNCHANGED <<flash, user, sram, udp, updp, crashes>>

(* The verification buffer cannot be allocated (EIO); or flashRead fails   *)
(* inside tls_fls_read, which still says OK, and the comparison is with    *)
(* whatever the new buffer held.                                           *)
VerifyNoMem(p) ==
    /\ pc[p] = "verify"
    /\ AllocFails
    /\ \E s \in {"OK", "EIO"} : Continue(p, s)
    /\ UNCHANGED <<flash, user, sram, udp, updp, crashes>>

ParamToFlash(p) ==
    \/ CopyFields(p) \/ SealHeader(p) \/ ErasePartition(p)
    \/ ProgramPartition(p) \/ VerifyPartition(p)

-----------------------------------------------------------------------------
(* tls_param_init                                                          *)

(* Where the scan goes when both partitions look damaged (tryrestore).     *)
NoRetryMark(l) == "scan"                                              \* mutant
AfterDamaged(l) == IF l = "scan" THEN "rescan" ELSE "copy"

(* One pass over the partitions.  A partition in miss is one whose read    *)
(* failed without notice.  When both look damaged the pass is repeated     *)
(* once (the erase in between is refused: it is passed an address where a  *)
(* sector number is due), then the factory defaults are written to both.   *)
Scan(miss) ==
    LET seen == [i \in Partition |-> IF i \in miss THEN Damaged ELSE flash[i]]
        bad  == {i \in Partition : ~Valid(seen[i])}
    IN  /\ pc[Boot] \in {"scan", "rescan"}
        /\ \/ /\ bad = Partition /\ pc[Boot] = "scan"
              /\ Goto(Boot, AfterDamaged("scan"))
              /\ UNCHANGED <<fp, sram, job, ret, lock>>
           \/ /\ bad = Partition /\ pc[Boot] = "rescan"
              /\ sram' = Factory
              /\ Start(Boot, "init0", AfterDamaged("rescan"))
              /\ UNCHANGED <<fp, lock>>
           \/ /\ bad # Partition
              /\ fp' = seen[Newest(seen)]
              /\ sram' = seen[Newest(seen)].params
              /\ \/ bad = {} /\ Return(Boot, "OK")
                 \/ \E i \in bad :
                      /\ Start(Boot, IF i = 0 THEN "restore0" ELSE "restore1", "copy")
                      /\ UNCHANGED lock
        /\ UNCHANGED <<flash, user, udp, updp, acked, prev, crashes>>

BootScan == Scan({}) /\ UNCHANGED faults

BootReadNoMem == AllocFails /\ \E i \in Partition : Scan({i})

(* No memory for the scan buffer: the module comes up with zeroed          *)
(* parameters (main ignores the result).                                   *)
BootNoMem ==
    /\ pc[Boot] = "scan"
    /\ AllocFails
    /\ Return(Boot, "EMEM")
    /\ UNCHANGED <<flash, user, fp, sram, udp, updp, acked, prev, crashes>>

-----------------------------------------------------------------------------
(* The operations of the tasks                                             *)

MayUpdate == fp.count <= MaxCount

(* tls_param_set: the target is chosen before the lock is taken ...        *)
SetCall(t, id, v, save) ==
    /\ Up /\ pc[t] = "idle" /\ MayUpdate
    /\ job' = [job EXCEPT ![t] = [op |-> "set", id |-> id, val |-> v,
                                  save |-> save, touser |-> updp, addr |-> 0]]
    /\ ret' = [ret EXCEPT ![t] = "none"]
    /\ Goto(t, "enter")
    /\ UNCHANGED <<flash, user, fp, sram, udp, updp, lock, acked, prev,
                   crashes, faults>>

(* ... and whether to save is decided under it, from a second read of      *)
(* updp_mode.                                                              *)
SavesAsCalled(t) == job[t].save /\ ~job[t].touser   \* mutant: the first read
Saves(t) == job[t].save /\ ~updp

SetEnter(t) ==
    /\ pc[t] = "enter" /\ job[t].op = "set"
    /\ lock = NoProc
    /\ IF job[t].touser
       THEN udp' = [udp EXCEPT ![job[t].id] = job[t].val] /\ UNCHANGED sram
       ELSE sram' = [sram EXCEPT ![job[t].id] = job[t].val] /\ UNCHANGED udp
    /\ \/ /\ Saves(t)
          /\ lock' = t
          /\ Goto(t, "copy")
          /\ UNCHANGED <<job, ret>>
       \/ /\ ~Saves(t)
          /\ Return(t, "OK")
    /\ UNCHANGED <<flash, user, fp, updp, acked, prev, crashes, faults>>

(* tls_param_to_flash(TLS_PARAM_ID_ALL), the one form the SDK calls.       *)
SyncCall(t) ==
    /\ Up /\ pc[t] = "idle" /\ MayUpdate
    /\ Start(t, "sync", "enter")
    /\ UNCHANGED <<flash, user, fp, sram, udp, updp, lock, acked, prev,
                   crashes, faults>>

(* Nothing is written when the RAM copy equals the RAM image of the flash. *)
SyncEnter(t) ==
    /\ pc[t] = "enter" /\ job[t].op = "sync"
    /\ lock = NoProc
    /\ \/ /\ job[t].id = All /\ sram = fp.params
          /\ Return(t, "OK")
          /\ acked' = sram /\ UNCHANGED prev
       \/ /\ ~(job[t].id = All /\ sram = fp.params)
          /\ lock' = t
          /\ Goto(t, "copy")
          /\ UNCHANGED <<job, ret, acked, prev>>
    /\ UNCHANGED <<flash, user, fp, sram, udp, updp, crashes, faults>>

(* What tls_param_get hands out under the lock: "from flash" is the RAM    *)
(* image of the flash.                                                     *)
GetSram(id, fromFlash) == sram[id]                                    \* mutant
GetValue(id, fromFlash) == IF fromFlash THEN fp.params[id] ELSE sram[id]

(* tls_param_to_default: no lock is taken.                                 *)
ResetCall(t) ==
    /\ Up /\ pc[t] = "idle" /\ MayUpdate
    /\ sram' = Factory
    /\ Start(t, "reset0", "copy")
    /\ UNCHANGED <<flash, user, fp, udp, updp, lock, acked, prev, crashes, faults>>

(* updp_proc, mode 1: tls_param_set_updp_mode, then tls_param_load_user.   *)
UpdpBegin(t) ==
    /\ Up /\ pc[t] = "idle"
    /\ updp' = TRUE
    /\ Start(t, "updp", "load")
    /\ UNCHANGED <<flash, user, fp, sram, udp, lock, acked, prev, crashes, faults>>

(* A sector with the magic is copied to user_default_param before its CRC  *)
(* is looked at; updp_proc ignores the result.                             *)
UpdpLoad(t) ==
    /\ pc[t] = "load"
    /\ udp' = IF user.magic THEN user.params ELSE udp
    /\ Return(t, "OK")
    /\ UNCHANGED <<flash, user, fp, sram, updp, acked, prev, crashes, faults>>

(* One of its three reads fails without notice: the magic is then what the *)
(* stack held, the parameters stay zeroed, the CRC is not looked at.       *)
UpdpLoadNoMem(t) ==
    /\ pc[t] = "load"
    /\ AllocFails
    /\ \/ udp' \in {udp, user.params}
       \/ user.magic /\ udp' = ZeroParams
    /\ Return(t, "OK")
    /\ UNCHANGED <<flash, user, fp, sram, updp, acked, prev, crashes>>

(* updp_proc, mode 0: the mode is cleared, then tls_param_save_user_default*)
(* writes magic, parameters and CRC, each a read-modify-write of the       *)
(* sector, and ignores every result.                                       *)
UpdpEnd(t) ==
    /\ Up /\ pc[t] = "idle"
    /\ updp' = FALSE
    /\ Start(t, "updp", "magic")
    /\ UNCHANGED <<flash, user, fp, sram, udp, lock, acked, prev, crashes, faults>>

SaveUserStep(t, from, to, new) ==
    /\ pc[t] = from
    /\ user' = new
    /\ Goto(t, to)
    /\ UNCHANGED <<flash, fp, sram, udp, updp, lock, job, ret, acked, prev,
                   crashes, faults>>

SaveUserNoData(t) ==             \* mutant: the parameters are not written
    SaveUserStep(t, "magic", "crc", [user EXCEPT !.magic = TRUE])
SaveUserMagic(t) == SaveUserStep(t, "magic", "data", [user EXCEPT !.magic = TRUE])
SaveUserData(t) == SaveUserStep(t, "data", "crc", [user EXCEPT !.params = udp])
SaveUserCrc(t) ==
    /\ pc[t] = "crc"
    /\ user' = [user EXCEPT !.crc = udp]
    /\ Return(t, "OK")
    /\ UNCHANGED <<flash, fp, sram, udp, updp, acked, prev, crashes, faults>>

(* One of those writes finds no memory: for the sector cache (nothing is   *)
(* written), or for the buffer of flashRead (its part is written, and the  *)
(* rest of the sector becomes what the cache held).                        *)
SectorsWith(part) ==
    {s \in UserSector : CASE part = "magic" -> s.magic
                          [] part = "data" -> s.params = udp
                          [] part = "crc" -> s.crc = udp}
SaveUserNoMem(t) ==
    /\ pc[t] \in {"magic", "data", "crc"}
    /\ AllocFails
    /\ user' \in {user} \cup SectorsWith(pc[t])
    /\ \/ pc[t] = "magic" /\ Goto(t, "data") /\ UNCHANGED <<lock, job, ret>>
       \/ pc[t] = "data" /\ Goto(t, "crc") /\ UNCHANGED <<lock, job, ret>>
       \/ pc[t] = "crc" /\ Return(t, "OK")
    /\ UNCHANGED <<flash, fp, sram, udp, updp, acked, prev, crashes>>

-----------------------------------------------------------------------------
(* Power loss.  RAM is gone; a sector being written keeps what the last    *)
(* step left there, an erased user sector its erased bytes.                *)
PowerLoss ==
    /\ crashes < MaxCrash
    /\ crashes' = crashes + 1
    /\ fp' = ZeroFlashParam
    /\ sram' = ZeroParams /\ udp' = ZeroParams
    /\ updp' = FALSE
    /\ lock' = Boot
    /\ pc' = [p \in Proc |-> IF p = Boot THEN "scan" ELSE "idle"]
    /\ job' = [p \in Proc |-> NoJob]
    /\ ret' = [p \in Proc |-> "none"]
    /\ \/ UNCHANGED user
       \/ /\ \E t \in UpdpTask : pc[t] \in {"magic", "data", "crc"}
          /\ user' = [magic |-> FALSE, params |-> ZeroParams, crc |-> ZeroParams]
    /\ acked' = BootParams
    /\ prev' = IF BootParams = acked THEN prev ELSE acked
    /\ UNCHANGED <<flash, faults>>

TaskStep(t) ==
    \/ ParamToFlash(t) \/ SetEnter(t) \/ SyncEnter(t)
    \/ UpdpLoad(t) \/ SaveUserMagic(t) \/ SaveUserData(t) \/ SaveUserCrc(t)

Call ==
    \/ \E t \in SetTask, id \in Field, v \in Value, save \in BOOLEAN :
          SetCall(t, id, v, save)
    \/ \E t \in SetTask : SyncCall(t)
    \/ \E t \in ResetTask : ResetCall(t)
    \/ \E t \in UpdpTask : UpdpBegin(t) \/ UpdpEnd(t)

Fault ==
    \/ \E p \in Proc : WriteNoMem(p) \/ VerifyNoMem(p)
    \/ BootReadNoMem \/ BootNoMem
    \/ \E t \in UpdpTask : UpdpLoadNoMem(t) \/ SaveUserNoMem(t)

BootStep == BootScan \/ ParamToFlash(Boot)

Next ==
    \/ BootStep
    \/ \E t \in Task : TaskStep(t)
    \/ Call
    \/ Fault
    \/ PowerLoss

Spec == Init /\ [][Next]_vars

(* FreeRTOS runs a ready task eventually: a step that stays possible is    *)
(* taken.  A task that waits for sys_param_lock gets no such promise.      *)
FairSpec == Spec /\ WF_vars(BootStep) /\ \A t \in Task : WF_vars(TaskStep(t))

-----------------------------------------------------------------------------
(* What the module promises                                                *)

(* What the update under sys_param_lock is about to make durable.          *)
Intended ==
    IF lock \notin Task \/ job[lock].op = "none" THEN acked
    ELSE IF job[lock].op = "set"
    THEN [acked EXCEPT ![job[lock].id] = SetValue(lock)]
    ELSE [f \in Field |-> IF job[lock].id \in {f, All} THEN sram[f] ELSE acked[f]]

(* The one window in which the u16 counters mislead the next boot: the     *)
(* partitions carry the largest count and its successor 0.                 *)
Straddle ==
    /\ Valid(flash[0]) /\ Valid(flash[1])
    /\ {flash[0].count, flash[1].count} = {CountModulus - 1, 0}

(* Whenever the power goes, the next boot (tls_param_init) loads exactly   *)
(* the parameters last reported as saved, or those plus the one update     *)
(* that param_to_flash was executing.  No mixture, no older copy, no       *)
(* factory reset; the wrap of modify_count is the only exception.          *)
Durable == Straddle \/ BootParams \in {acked, Intended}

(* "Load the latest parameters" (wm_param.c:393) without that exception.   *)
LatestLoaded == BootParams \in {acked, Intended}

(* Both copies are intact whenever no param_to_flash is past its erase:    *)
(* every boot and every update leaves two loadable partitions behind.      *)
TwoCopies ==
    (\A p \in Proc : pc[p] \in {"idle", "enter", "copy", "seal", "erase"}) /\ Up
        => Valid(flash[0]) /\ Valid(flash[1])

EraseStep ==
    \A i \in Partition :
        Valid(flash[i]) /\ ~Valid(flash'[i]) =>
            /\ Valid(flash[1 - i])
            /\ flash[1 - i].params = acked

(* tls_fls_write only ever erases an intact partition while the other      *)
(* one holds the parameters last reported as saved.                        *)
EraseKeepsAcked == [][EraseStep]_vars

ResetOp == {"reset0", "reset1"}
Resetting == \E t \in Task : job[t].op \in ResetOp

(* Never more than one update is lost, even when tls_param_to_default is   *)
(* interrupted between its two partitions: the next boot loads the         *)
(* parameters reported as saved last or before that, or those with the     *)
(* update in progress.  It loads the factory table only while a reset is   *)
(* writing it, and it never has to for want of a copy: once the module is  *)
(* up, one partition or the other is intact.                               *)
LosesAtMostOne ==
    /\ BootParams \in {acked, prev, Intended} \/ (Resetting /\ BootParams = Factory)
    /\ Up => Valid(flash[0]) \/ Valid(flash[1])

(* A call of tls_param_set with to_flash that returned OK left its value   *)
(* in the copy the next boot loads, provided tls_param_init had the memory *)
(* to look at the flash.  Two cases differ, both of a UPDP command that    *)
(* runs between the call and the lock: a set that finds the mode on saves  *)
(* nothing, and one that was directed at the user defaults and finds it    *)
(* off again saves what sram_param holds.                                  *)
SetOkMeansSaved ==
    [][\A t \in SetTask :
         /\ job[t].op = "set" /\ job[t].save /\ pc[t] \in {"enter", "verify"}
         /\ ret'[t] = "OK" /\ ret[Boot] # "EMEM"
         => \/ pc[t] = "enter" /\ updp
            \/ BootParams'[job[t].id] = SetValue(t)]_vars

(* The same when a factory reset runs at the same time: the parameter is   *)
(* the one that was set or the factory one, whichever call came last.      *)
SetOrResetWins ==
    [][\A t \in SetTask :
         job[t].op = "set" /\ pc[t] = "verify" /\ ret'[t] = "OK"
            => BootParams'[job[t].id] \in {job[t].val, Factory[job[t].id]}]_vars

(* After a boot that went well, a call of tls_param_to_flash that returned *)
(* OK left the RAM parameters in the copy the next boot loads.             *)
SyncOkMeansSaved ==
    [][\A t \in SetTask :
         job[t].op = "sync" /\ ret'[t] = "OK" /\ ret[Boot] = "OK"
            => BootParams' = sram']_vars

(* tls_param_get with from_flash returns what the flash holds: the value   *)
(* the next boot would load.                                               *)
ReadFromFlash ==
    Up /\ lock = NoProc =>
        Straddle \/ \A f \in Field : GetValue(f, TRUE) = BootParams[f]

(* A partition that is not readable as written is recognised: it is either *)
(* erased or carries a matching CRC.                                       *)
NeverTorn == \A i \in Partition : flash[i] # Damaged => Valid(flash[i])

(* A save that returns an error harms nothing: the next boot loads the     *)
(* parameters saved before, or the ones the failed call was writing.       *)
FailedSaveHarmless ==
    [][\A t \in SetTask :
         job[t].op \in {"set", "sync"} /\ pc[t] \in {"erase", "verify"} /\ ret'[t] = "EIO"
            => BootParams' \in {acked, Intended}]_vars

UserValid == user.magic /\ user.crc = user.params

(* When the UPDP command that ends the default parameter update has        *)
(* returned, what tls_param_load_user accepts from the user default sector *)
(* is user_default_param: never an older table, never a mixture.  And it   *)
(* accepts the sector, unless an allocation failed on the way.             *)
UserSaved ==
    [][\A t \in UpdpTask :
         pc[t] = "crc" /\ ret'[t] = "OK" =>
            /\ UserValid' => user'.params = udp'
            /\ faults' = 0 => UserValid']_vars

(* tls_param_init terminates: after every power loss the module comes up   *)
(* again unless the power fails once more.                                 *)
BootCompletes == []<>Up

(* sys_param_lock is never kept: whoever holds it gives it back.           *)
LockReleased == []<>(lock = NoProc)

=============================================================================
