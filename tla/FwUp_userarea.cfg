SPECIFICATION Spec
CONSTANTS
    PayloadLen <- MCPayloadLen
    Files <- MCFiles
    SectorSize = 2
    SectorCount = 4
    NoCache = nocache
    Junk = junk
    Socket = {s}
    Web = {}
    Host = {}
    Image = {imgB}
    imgA = imgA
    imgB = imgB
    imgC = imgC
    Base = 2
    HeaderLen = 2
    UserStart = 6
    QueueSize = 4
    Chunk = {2, 4}
    MaxSession = 1
    MaxReboot = 0
    MaxFault = 0
    None = none
PROPERTIES UpdateAreaOnly
CHECK_DEADLOCK FALSE
