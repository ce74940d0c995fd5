SPECIFICATION FairSpec
CONSTANTS
    psx = psx
    pc98 = pc98
    None = None
    Systems = {psx}
    Supported <- AllKinds
    MaxChanges = 0
    MaxErrors = 0
    MaxTime = 0
    MaxTriggers = 0
    MaxCrashes = 1
PROPERTIES
    MarkedIsRebuilt
