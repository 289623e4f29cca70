SPECIFICATION FairSpec
CONSTANTS
    SetTask = {t1, t2}
    ResetTask = {}
    UpdpTask = {}
    Boot = boot
    NoProc = noproc
    Field = {f1, f2}
    All = all
    Period = period
    Debug = debug
    Value = {v0, v1}
    v0 = v0
    v1 = v1
    v2 = v2
    Zero = v0
    Factory <- MCFactory
    Damaged = damaged
    CountModulus = 8
    MaxCount = 3
    MaxCrash = 1
    MaxFault = 0
    NoUpdate = noupdate
INVARIANTS TypeOK Durable TwoCopies ReadFromFlash
PROPERTIES EraseKeepsAcked ImplementsDurableParams BootCompletes LockReleased
CHECK_DEADLOCK FALSE
