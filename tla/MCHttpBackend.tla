---------------------------- MODULE MCHttpBackend ----------------------------
EXTENDS HttpBackend, TLC
CONSTANTS init, list, call
=============================================================================
