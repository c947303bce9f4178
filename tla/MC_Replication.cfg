\* Promote, eject and detach with client writes, replication, stopped
\* agents, Redis restarts and failed calls (two faults in all).  The control plane is quiescent once every
\* bound is spent, hence no deadlock check.
CONSTANTS
    i1 = i1
    i2 = i2
    i3 = i3
    Instances <- MCInstances
    None = None
    Inconsistent = Inconsistent
    MaxWrites = 2
    MaxOps = 3
    MaxFaults = 2
SYMMETRY Symmetry
SPECIFICATION Spec
CHECK_DEADLOCK FALSE
INVARIANTS
    TypeOK
    NoReplicationLoop
    WritableUnique
PROPERTIES
    OpEstablishesTopology
