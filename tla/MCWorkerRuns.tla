---------------------------- MODULE MCWorkerRuns ----------------------------
EXTENDS WorkerRuns
=============================================================================
