SPECIFICATION FairSpec
CONSTANTS
    PayloadLen <- MCPayloadLen
    Files <- MCFiles
    SectorSize = 2
    SectorCount = 4
    NoCache = nocache
    Junk = junk
    Socket = {s}
    Web = {}
    Host = {}
    Image = {imgA}
    imgA = imgA
    imgB = imgB
    imgC = imgC
    Base = 2
    HeaderLen = 2
    UserStart = 6
    QueueSize = 4
    Chunk = {1, 2, 3}
    MaxSession = 3
    MaxReboot = 2
    MaxFault = 1
    None = none
INVARIANTS TypeOK HeaderMeansImage AllOkMeansUpdated AckedIsHeld
PROPERTIES UpdateAreaOnly RequestReturns
CHECK_DEADLOCK FALSE
