SPECIFICATION Spec
CONSTANTS
    psx = psx
    pc98 = pc98
    None = None
    Systems = {psx}
    Supported <- AllKinds
    MaxChanges = 0
    MaxErrors = 0
    MaxTime = 0
    MaxTriggers = 1
    MaxCrashes = 0
PROPERTIES
    TriggerIsServed
