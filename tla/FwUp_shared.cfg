SPECIFICATION Spec
CONSTANTS
    PayloadLen <- MCPayloadLen
    Files <- MCFiles
    SectorSize = 2
    SectorCount = 4
    NoCache = nocache
    Junk = junk
    Socket = {s}
    Web = {w}
    Host = {h}
    Image = {imgA, imgC}
    imgA = imgA
    imgB = imgB
    imgC = imgC
    Base = 2
    HeaderLen = 1
    UserStart = 6
    QueueSize = 4
    Chunk = {2}
    MaxSession = 1
    MaxReboot = 0
    MaxFault = 0
    None = none
INVARIANTS HeaderMeansImage BusyMeansWork
CHECK_DEADLOCK FALSE
