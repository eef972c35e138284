-------------------------- MODULE MCParallelForEach ---------------------------
EXTENDS ParallelForEach
=============================================================================
