-------------------------- MODULE ConnectionLease --------------------------
(***************************************************************************)
(* What pydal's connection pool promises, with none of its machinery: a    *)
(* DB-API connection is lent to at most one client at a time, where a      *)
(* client is one adapter used from one thread.  Slots, cursors, the        *)
(* free-list and GLOBAL_LOCKER are the business of ConnectionPool.tla,     *)
(* which implements this specification.                                    *)
(***************************************************************************)
CONSTANTS
  Clients,   \* the borrowers: pairs <<adapter, thread>> in the implementation
  Conns,     \* connection objects
  NoConn     \* "nothing borrowed"

VARIABLE holder   \* holder[k]: the connection client k was given and has not handed back

Init == holder = [k \in Clients |-> NoConn]

\* get_connection returns c to k: nobody else has it.
Lease(k, c) ==
  /\ holder[k] = NoConn
  /\ \A j \in Clients : holder[j] # c
  /\ holder' = [holder EXCEPT ![k] = c]

\* k's connection goes back to the pool, is closed, or is left behind.
Return(k) ==
  /\ holder[k] # NoConn
  /\ holder' = [holder EXCEPT ![k] = NoConn]

Next == \E k \in Clients : Return(k) \/ \E c \in Conns : Lease(k, c)

Spec == Init /\ [][Next]_holder
=============================================================================
