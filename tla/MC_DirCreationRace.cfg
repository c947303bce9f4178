\* Two processes, as for MC_DirCreation.cfg.
CONSTANTS
    Procs = {p1, p2}
    Names = {a, b}
    Depth = 2
SYMMETRY ProcSymmetry
SPECIFICATION Spec
CHECK_DEADLOCK FALSE
INVARIANT DirRaisesOnlyWhenBlocked
