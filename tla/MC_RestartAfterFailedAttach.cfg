\* One promote, one failed call and one Redis restart.
CONSTANTS
    i1 = i1
    i2 = i2
    i3 = i3
    Instances <- MCInstances
    None = None
    Inconsistent = Inconsistent
    MaxWrites = 0
    MaxOps = 1
    MaxFaults = 2
SYMMETRY Symmetry
SPECIFICATION Spec
CHECK_DEADLOCK FALSE
INVARIANT MetadataPrimaryIsSource
