---------------------------- MODULE MCTaskManager ----------------------------
EXTENDS TaskManager

\* The tasks main creates before its loop: the wall clock and a terminal.
MCRoles == << "worker", "terminal" >>
=============================================================================
