SPECIFICATION Spec
CONSTANTS
    SetTask = {t1}
    ResetTask = {}
    UpdpTask = {t1}
    Boot = boot
    NoProc = noproc
    Field = {f1}
    All = all
    Period = period
    Debug = debug
    Value = {v0, v1}
    v0 = v0
    v1 = v1
    v2 = v2
    Zero = v0
    Factory <- MCFactory
    Damaged = damaged
    CountModulus = 8
    MaxCount = 2
    MaxCrash = 1
    MaxFault = 1
    NoUpdate = noupdate
INVARIANTS NeverTorn
PROPERTIES SetOkMeansSaved FailedSaveHarmless UserSaved
CHECK_DEADLOCK FALSE
