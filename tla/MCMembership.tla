---------------------------- MODULE MCMembership ----------------------------
EXTENDS Membership
None == {}
Backups == Server \ {1}
\* The last is given the first backup, everybody else the primary.
ContactBackup == [s \in Server |-> IF s = N THEN 2 ELSE 1]
=============================================================================
