------------------------------ MODULE Instances -------------------------------
(* The instances of DAL a thread has: made for a database, made blank by      *)
(* unpickling before there is any, closed. Those that are open are found by   *)
(* their db_uid, the latest first. base.py, with close of connection.py.      *)
EXTENDS Calls

CONSTANTS DbUids,
          Attempts, Uris,   \* of a connection: how often, and of how many databases one is tried
          MaxInstances

(* groups: by db_uid those made, in their order; zombies: the blank one, or   *)
(* 0; made: all, [uid, state, adapter]; got: what the call returned, 0 if     *)
(* it raised.                                                                 *)
NoInstances == [groups |-> [u \in DbUids |-> <<>>], zombies |-> [u \in DbUids |-> 0], made |-> <<>>, got |-> 0, raised |-> ""]
Instance(uid) == [uid |-> uid, state |-> "blank", adapter |-> FALSE]
Raising(r, error) == [r EXCEPT !.raised = error, !.got = 0]

\* Mutant: a blank one is left to those who unpickled it.
__new__Beside(r, uid) ==
    LET db == Len(r.made) + 1
    IN [r EXCEPT !.made = Append(@, Instance(uid)), !.groups[uid] = Append(@, db), !.got = db, !.raised = ""]
(* The one a call works on: new ones are the last of made.                    *)
__new__(r, uid) ==
    LET blank == r.zombies[uid]
        db == IF blank # 0 THEN blank ELSE Len(r.made) + 1
    IN [r EXCEPT !.made = IF blank # 0 THEN @ ELSE Append(@, Instance(uid)), !.zombies[uid] = 0, !.groups[uid] = Append(@, db), !.got = db, !.raised = ""]
DAL_unpickler(r, uid) ==
    IF r.groups[uid] # <<>> THEN [r EXCEPT !.got = Last(r.groups[uid]), !.raised = ""]
    ELSE IF r.zombies[uid] # 0 THEN [r EXCEPT !.got = r.zombies[uid], !.raised = ""]
    ELSE LET db == Len(r.made) + 1 IN [r EXCEPT !.made = Append(@, Instance(uid)), !.zombies[uid] = db, !.got = db, !.raised = ""]

(* Every database is tried in every attempt until one is connected: from      *)
(* which try on the first would be is up. Whoever fails to connect is listed  *)
(* all the same; without an adapter, if there was not even one.               *)
Tries(attempts, uris) == (IF attempts < 0 THEN 5 ELSE attempts) * uris
__init__(r, attempts, uris, up, adapter) ==
    IF up <= Tries(attempts, uris) THEN [r EXCEPT !.made[r.got].state = "open", !.made[r.got].adapter = TRUE]
    ELSE Raising([r EXCEPT !.made[r.got].state = "failed", !.made[r.got].adapter = adapter],
                 IF Tries(attempts, uris) = 0 THEN "no attempt was made" ELSE "failure to connect")

close(r, db) ==
    LET uid == r.made[db].uid
        closed == [r EXCEPT !.made[db].state = "closed", !.got = db, !.raised = ""]
    IN IF ~r.made[db].adapter THEN Raising(r, "no adapter")
       ELSE IF r.groups[uid] = <<>> THEN closed
       ELSE IF db \notin Range(r.groups[uid]) THEN Raising(closed, "not in list")
       ELSE [closed EXCEPT !.groups[uid] = RemoveFirst(@, db)]
Listed1(r) == UNION {Range(r.groups[u]) : u \in DbUids}
get_instances(r) == IF \E db \in Listed1(r) : ~r.made[db].adapter THEN Raising(r, "no adapter") ELSE [r EXCEPT !.raised = "", !.got = 0]
close_all_instances(r) ==
    [r EXCEPT !.made = [db \in DOMAIN @ |-> IF db \in Listed1(r) /\ @[db].adapter THEN [@[db] EXCEPT !.state = "closed"] ELSE @[db]],
              !.groups = [u \in DbUids |-> <<>>], !.zombies = [u \in DbUids |-> 0], !.raised = "", !.got = 0]

Step1(op, db, r) == Ask("instances", [op |-> op, uid |-> db, before |-> Listed1(answer), zombies |-> answer.zombies], r)
StartInstances == Waiting /\ Ask("instances", [op |-> "start", uid |-> "", before |-> {}, zombies |-> [u \in DbUids |-> 0]], NoInstances)
UseInstances ==
    /\ asked.of = "instances"
    /\ \/ /\ Len(answer.made) < MaxInstances
          /\ \E uid \in DbUids :
               \/ \E attempts \in Attempts, uris \in Uris, adapter \in BOOLEAN : \E up \in 1..(Tries(attempts, uris) + 1) :
                    Step1("DAL", uid, __init__(__new__(answer, uid), attempts, uris, up, adapter))
               \/ Step1("unpickle", uid, DAL_unpickler(answer, uid))
       \/ \E db \in DOMAIN answer.made : answer.made[db].state # "blank" /\ Step1("close", answer.made[db].uid, close(answer, db))
       \/ Step1("get_instances", "", get_instances(answer))
       \/ Step1("close_all_instances", "", close_all_instances(answer))

-------------------------------------------------------------------------------
(* Those listed are the ones that are open, once each under their own name;   *)
(* and those that failed to connect and were not closed.                      *)
OpenOnesAreListed ==
    asked.of = "instances" =>
        /\ \A u \in DbUids : IsInjective(answer.groups[u]) /\ \A db \in Range(answer.groups[u]) : answer.made[db].uid = u
        /\ \A db \in DOMAIN answer.made : answer.made[db].state = "open" => db \in Listed1(answer)
        /\ \A db \in Listed1(answer) : answer.made[db].state \in {"open", "failed"}

(* What is unpickled is the instance its database has now, the latest, or the *)
(* one it gets when it is connected next; so nobody holds two of them.        *)
UnpickledIsConnected ==
    asked.of = "instances" =>
        LET x == asked.x
        IN /\ x.op = "unpickle" /\ answer.groups[x.uid] # <<>> => answer.got = Last(answer.groups[x.uid])
           /\ x.op = "DAL" /\ x.zombies[x.uid] # 0 => x.zombies[x.uid] \in Range(answer.groups[x.uid]) /\ answer.zombies[x.uid] = 0
           /\ \A u \in DbUids : answer.zombies[u] = 0 \/ answer.made[answer.zombies[u]].state = "blank"

(* An instance that is closed takes none of the others with it; closed again  *)
(* it raises, if there is another of its name, and does no harm.              *)
OthersStayOpen ==
    asked.of = "instances" /\ asked.x.op = "close" =>
        Cardinality(asked.x.before \ Listed1(answer)) = (IF answer.raised = "" /\ answer.got \in asked.x.before THEN 1 ELSE 0)
================================================================================
