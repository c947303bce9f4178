\* A failed detach, then eject: does the elected replica hold every sibling's writes?
CONSTANTS
    i1 = i1
    i2 = i2
    i3 = i3
    Instances <- MCInstances
    None = None
    Inconsistent = Inconsistent
    MaxWrites = 2
    MaxOps = 2
    MaxFaults = 2
SYMMETRY Symmetry
SPECIFICATION Spec
CHECK_DEADLOCK FALSE
PROPERTY ElectionSafety
