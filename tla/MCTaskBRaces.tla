----------------------------- MODULE MCTaskBRaces -----------------------------
EXTENDS TaskManagerUnprotected

\* The tasks main creates before its loop: TaskB and the wall clock.
MCRolesTaskB == << "taskb", "worker" >>
=============================================================================
