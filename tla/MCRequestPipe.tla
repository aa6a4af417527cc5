---------------------------- MODULE MCRequestPipe ----------------------------
EXTENDS RequestPipe, TLC
=============================================================================
