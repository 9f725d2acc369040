--------------------------- MODULE MCTaskManager ----------------------------
EXTENDS TaskManager
=============================================================================
