---------------------------- MODULE MCStdioBackend ----------------------------
EXTENDS StdioBackend
MCCalls == Callers \X {1, 2} \X {"initialize", "request"}
=============================================================================
