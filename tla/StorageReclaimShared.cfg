CONSTANTS
    Procs = {p1, p2}
    Sources = {s1, s2}
    Blobs = {b1}
    Null = Null
    MaxCrashes = 0
    MaxLapses = 0
SPECIFICATION Spec
PROPERTY SharedBlobSurvivesPurge
CHECK_DEADLOCK FALSE
