\* Eject of a primary whose guest agent is stopped.
CONSTANTS
    i1 = i1
    i2 = i2
    i3 = i3
    Instances <- MCInstances
    None = None
    Inconsistent = Inconsistent
    MaxWrites = 1
    MaxOps = 1
    MaxFaults = 1
SYMMETRY Symmetry
SPECIFICATION Spec
CHECK_DEADLOCK FALSE
INVARIANT EjectWithoutEjectedPrimary
