----------------------------- MODULE MCSyncLoop -----------------------------
EXTENDS Sessions

CONSTANTS m, d, h, s1, s2, e1, e2

\* The MCP server may have two pieces of background work at once.
TwoEach == [p \in Server |-> {s1, s2}]
OneEach == [p \in Server |-> {s1}]
=============================================================================
