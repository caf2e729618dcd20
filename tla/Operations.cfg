CONSTANTS
    Procs = {p1, p2, p3}
    Kinds <- MCKinds
    Limits <- MCLimits
    Rows <- MCRows
    KindOf <- MCKindOf
    Links <- MCLinks
    Home = "home"
    Dirs = {"home", "away"}
    Bodies = {1, 2, 3}
    Blobs = {b1}
    Roots = {t1}
    Settings = {1, 2, 3}
SPECIFICATION Spec
SYMMETRY Symmetry
INVARIANTS
    TypeOK
    UndoneLeavesNoTrace
    NotesAreWhereTheySay
    OneDaemon
    CommitsSurvive
    BackupsAreWhole
    InitIsAllOrNothing
    ConfigIsRecorded
CHECK_DEADLOCK FALSE
