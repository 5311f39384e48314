---------------------------- MODULE MCDiscovery ----------------------------
EXTENDS Discovery

\* Device 2 is a disk.  After a reset: both devices, the two at each other's
\* node, one alone, a GUID that appears twice, and a node without GUID.
MCLayouts == {<<1, 2>>, <<2, 1>>, <<1, Absent>>, <<2, 2>>, <<2, ZeroGuid>>}
============================================================================
