------------------------------- MODULE MCPit -------------------------------
\* The timer with a small table of callbacks.
EXTENDS Pit
=============================================================================
