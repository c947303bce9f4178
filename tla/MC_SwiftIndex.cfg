\* One account, one container with two objects, six changes, any order
\* and any duplication of delivery, no failed index call.
CONSTANTS
    a = a
    c1 = c1
    o1 = o1
    o2 = o2
    Account = a
    Containers <- MCContainers
    Objects <- MCObjects
    ParentOf <- MCParentOf
    MaxTime = 6
    MaxFaults = 0
SPECIFICATION Spec
\* Swift stops changing once MaxTime changes were made and every
\* notification is consumed.
CHECK_DEADLOCK FALSE
INVARIANTS
    IndexConverges
