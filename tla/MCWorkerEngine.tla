--------------------------- MODULE MCWorkerEngine ---------------------------
EXTENDS WorkerEngine
=============================================================================
