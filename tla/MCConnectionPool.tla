------------------------- MODULE MCConnectionPool -------------------------
(* Instances of ConnectionPool for TLC.                                    *)
EXTENDS ConnectionPool

CONSTANT a1

\* One adapter, room for one free connection.
OneFree == [a \in Adapters |-> 1]
=============================================================================
