\* Two processes; paths of at most two names over two names, every
\* well-formed starting file system, every choice of function and target.
CONSTANTS
    Procs = {p1, p2}
    Names = {a, b}
    Depth = 2
SYMMETRY ProcSymmetry
SPECIFICATION Spec
\* Both calls have returned.
CHECK_DEADLOCK FALSE
INVARIANTS
    TypeOK
    ReturnedMeansDir
    TreeRaisesOnlyWhenBlocked
