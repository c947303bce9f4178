---------------------------- MODULE MC_SwiftIndex ----------------------------
EXTENDS SwiftIndex

CONSTANTS a, c1, o1, o2

MCContainers == {c1}
MCObjects == {o1, o2}
MCParentOf == [o \in MCObjects |-> c1]
=============================================================================
