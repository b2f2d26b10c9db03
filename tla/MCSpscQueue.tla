---------------------------- MODULE MCSpscQueue -----------------------------
EXTENDS SpscQueue, TLC

\* A word that was never written; no index and no payload of the runs.
NeverWritten == -1
=============================================================================
