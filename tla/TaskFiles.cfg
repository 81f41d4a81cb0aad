SPECIFICATION Spec
CONSTANTS
    Request = {q1, q2}
    Path <- Paths
    InitialDir <- Dirs
    InitialFile <- Files
    MaxTransfers = 2
    MaxFaults = 1
SYMMETRY Symmetry
INVARIANTS
    TypeOK
    EditsKept
    CommitHasAdded
CHECK_DEADLOCK FALSE
