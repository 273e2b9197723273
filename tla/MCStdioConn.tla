----------------------------- MODULE MCStdioConn -----------------------------
EXTENDS StdioConn
CONSTANTS k1, k2
MCCalls2 == {k1, k2}
=============================================================================
