SPECIFICATION FairSpec
CONSTANTS
    eth = eth  vpn = vpn
    Empty = Empty  BadJson = BadJson  BadUtf8 = BadUtf8  None = None
    Devs = {eth, vpn}
    DefaultDev = eth
    MixedGens = {0, 1, 3}
    MaxEvents = 8
INVARIANTS TypeOK GenerationOrder Survivor
PROPERTIES SavedEventually KeepsSaves
CHECK_DEADLOCK FALSE
