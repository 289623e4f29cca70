SPECIFICATION Spec
CONSTANTS
    SetTask = {t1}
    ResetTask = {t1}
    UpdpTask = {t2}
    Boot = boot
    NoProc = noproc
    Field = {f1}
    All = all
    Period = period
    Debug = debug
    Value = {v0, v1, v2}
    v0 = v0
    v1 = v1
    v2 = v2
    Zero = v0
    Factory <- MCFactory
    Damaged = damaged
    CountModulus = 8
    MaxCount = 3
    MaxCrash = 2
    MaxFault = 0
    NoUpdate = noupdate
INVARIANTS LosesAtMostOne
PROPERTIES SetOkMeansSaved
CHECK_DEADLOCK FALSE
