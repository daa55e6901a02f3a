-------------------------- MODULE MCTaskRuntime --------------------------
EXTENDS TaskRuntime
=============================================================================
