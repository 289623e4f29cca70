SPECIFICATION FairSpec
CONSTANTS
    Sta = {s1, s2, s3}
    NoMac = nomac
    PoolSize = 2
    HostMask = 7
    ServerHost = 1
    LeaseTime = 3
    OfferTime = 2
    MaxStart = 2
    MaxDrop = 1
INVARIANTS TypeOK OneEntryPerStation HolderIsBound NoDuplicateAddress OfferReserved GetIpExact
PROPERTIES AddressStable AddressReturns
CHECK_DEADLOCK FALSE
