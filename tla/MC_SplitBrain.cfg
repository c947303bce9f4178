\* Promote and promote back with no fault at all: is there ever a second writable member?
CONSTANTS
    i1 = i1
    i2 = i2
    i3 = i3
    Instances <- MCInstances
    None = None
    Inconsistent = Inconsistent
    MaxWrites = 1
    MaxOps = 2
    MaxFaults = 0
SYMMETRY Symmetry
SPECIFICATION Spec
CHECK_DEADLOCK FALSE
INVARIANT WritableUnique
