SPECIFICATION Spec
CONSTANTS
    b1 = b1
    b2 = b2
    t1 = t1
    t2 = t2
    usa = usa
    us = us
    r1 = r1
    r2 = r2
    None = None
    Discs = {1, 2}
    Bodies = {b1, b2}
    Titles = {t1}
    Regions = {usa, us}
    Rebuilders = {r1, r2}
    ChunkSize = 1
    MaxEdits = 2
    MaxSaves = 1
    MaxRebuilds = 2
SYMMETRY SameRebuilders
INVARIANTS
    HashIsOfCue
    ApprovedCueStands
CHECK_DEADLOCK FALSE
