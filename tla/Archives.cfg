SPECIFICATION FairSpec
CONSTANTS
    psx = psx
    pc98 = pc98
    None = None
    Systems = {psx}
    Supported <- AllKinds
    MaxChanges = 1
    MaxErrors = 1
    MaxTime = 2
    MaxTriggers = 1
    MaxCrashes = 1
INVARIANTS
    StaleIsMarked
    VersionShownIsServed
PROPERTIES
    PublishedNeverGoesBack
    MarkedIsRebuiltOrForgotten
    DailyExport
