------------------------------ MODULE KeptCalls -------------------------------
(* The calls that keep something for later ones: an instance of DAL, a value  *)
(* in a column, a record under its key, a file of the database.               *)
EXTENDS Instances, Values, RecordShortcuts, DatabaseFiles

Keep ==
    \/ StartInstances \/ UseInstances
    \/ Waiting /\ StoreValue
    \/ Waiting /\ Shortcut
    \/ FileCreated \/ FileUsed
KeptSpec == Idle /\ [][Keep]_calls

(* What was kept is found: a thread finds the open instance its database has; *)
(* a bound value is what its literal would be; through the shortcuts of a     *)
(* table just the record asked for is found and written, and a file of the    *)
(* database as it was written and closed.                                     *)
KeptIsFound ==
    /\ OpenOnesAreListed /\ UnpickledIsConnected /\ OthersStayOpen
    /\ SameEitherWay
    /\ LookupsAgree /\ OneRecordIsWritten /\ WrittenIsThere
    /\ PartsMakeTheFile /\ ClosedIsKept
===============================================================================
