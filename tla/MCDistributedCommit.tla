-------------------------- MODULE MCDistributedCommit -------------------------
(* Three instances, of which one prepares the session of its connection.        *)
EXTENDS DistributedCommit

AllFaults == {"refuse", "commit", "rollback", "crash"}
OneSession == {1, 3}
=============================================================================
