SPECIFICATION Spec
CONSTANTS
    b1 = b1
    b2 = b2
    t1 = t1
    t2 = t2
    usa = usa
    us = us
    r1 = r1
    r2 = r2
    None = None
    Discs = {1}
    Bodies = {b1, b2}
    Titles = {t1}
    Regions = {usa, us}
    Rebuilders = {r1}
    ChunkSize = 1
    MaxEdits = 2
    MaxSaves = 1
    MaxRebuilds = 1
PROPERTY RebuiltHashesMatch
CHECK_DEADLOCK FALSE
