------------------------------- MODULE MCSync -------------------------------
\* A node and two peers on a chain of a few blocks.
EXTENDS Sync, TLC
=============================================================================
