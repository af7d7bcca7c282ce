--------------------------- MODULE MCServiceTasks ---------------------------
EXTENDS ServiceTasks
=============================================================================
