-------------------------- MODULE DistributedCommit --------------------------
(* DAL.distributed_transaction_commit (base.py): a two-phase commit over N     *)
(* instances by one thread at a time, each instance an adapter of its own.     *)
(* Position i of the call is instance i. PostgreSQL prepares under a key       *)
(* ("PREPARE TRANSACTION"), the adapters that inherit backend_base prepare the *)
(* session of their connection. keys[i] is built from the host, the thread and *)
(* the position: all transactions of the thread have the same.                 *)
EXTENDS Naturals

CONSTANTS
    N,            \* instances passed to the call
    MaxTx,        \* transactions attempted (a bound)
    Keyed,        \* instances that prepare under a key
    Faults        \* subset of {"refuse", "commit", "rollback", "crash"}

Sites == 1..N
Txs == 1..MaxTx

ASSUME DistAssumption == N \in Nat \ {0} /\ MaxTx \in Nat /\ Keyed \subseteq Sites

VARIABLES
    methods,      \* instances whose support_distributed_transaction is a method
    pc,           \* where the call is: "idle", "working", "prepare", "abort", "commit"
    at,           \* the instance its loop is at
    tx,           \* the transaction in hand, the number of those begun
    fate,         \* fate[t][i]: what instance i did with transaction t
    answer        \* answer[t]: how the call ended

vars == <<methods, pc, at, tx, fate, answer>>

Fates == {"none", "active", "prepared", "committed", "aborted"}

TypeOK ==
    /\ methods \subseteq Sites
    /\ pc \in {"idle", "working", "prepare", "abort", "commit"}
    /\ at \in Nat
    /\ tx \in 0..MaxTx
    /\ fate \in [Txs -> [Sites -> Fates]]
    /\ answer \in [Txs -> {"none", "ok", "RuntimeError", "raised"}]

(* pyDAL's adapters declare a truth value; an application's may have the      *)
(* method that the call and its docstring ask for.                             *)
Init ==
    /\ methods \in SUBSET Sites
    /\ pc = "idle"
    /\ at = 1
    /\ tx = 0
    /\ fate = [t \in Txs |-> [i \in Sites |-> "none"]]
    /\ answer = [t \in Txs |-> "none"]

(* Transactions that keys[i] names at instance i. *)
Held(i) == {u \in Txs : fate[u][i] = "prepared"}

(* The server prepares no second transaction under a key. *)
InUse(i) == i \in Keyed /\ Held(i) # {}

(* What commit_prepared and rollback_prepared end there. *)
Named(i) == IF i \in Keyed THEN Held(i) ELSE {tx}

(* with_connection: nothing is done for an adapter without connection.         *)
TakesPart(i) == fate[tx][i] # "none"

\* Mutant: a rollback by a name that no instance reports.
EndMisnamed(i, how) == fate' = [fate EXCEPT ![tx][i] = IF how = "aborted" THEN "rolled back" ELSE how]
End(i, how) == fate' = [fate EXCEPT ![tx][i] = how]
EndNamed(i, how) ==
    fate' = [t \in Txs |-> IF t \in Named(i) THEN [fate[t] EXCEPT ![i] = how] ELSE fate[t]]
\* Mutant: what a rollback raises is passed over.
ReturnPassing(how) == answer' = [answer EXCEPT ![tx] = IF how = "raised" THEN "RuntimeError" ELSE how] /\ pc' = "idle" /\ at' = 1
Return(how) == answer' = [answer EXCEPT ![tx] = how] /\ pc' = "idle" /\ at' = 1
Goto(label, i) == pc' = label /\ at' = i /\ UNCHANGED answer

(* The session of a connection that is still in a transaction: a prepared one  *)
(* without key is, as long as the process that prepared it lives.              *)
Open(i) ==
    \/ fate[tx][i] = "active"
    \/ fate[tx][i] = "prepared" /\ i \notin Keyed /\ answer[tx] # "none"

(* The application works on the instances that have a connection. It begins    *)
(* after it has rolled back what an exception left open.                       *)
Begin ==
    /\ pc = "idle"
    /\ tx < MaxTx
    /\ tx > 0 => \A i \in Sites : ~ Open(i)
    /\ tx' = tx + 1
    /\ \E Q \in SUBSET Sites :
          fate' = [fate EXCEPT ![tx + 1] = [i \in Sites |-> IF i \in Q THEN "active" ELSE "none"]]
    /\ Goto("working", 1)
    /\ UNCHANGED methods

(* DAL.rollback of the instances, called by the application. What is prepared  *)
(* under a key is no longer its session's.                                     *)
RollBackOpen ==
    /\ pc \in {"idle", "working"}
    /\ tx > 0
    /\ \E i \in Sites : Open(i)
    /\ fate' = [fate EXCEPT ![tx] = [i \in Sites |-> IF Open(i) THEN "aborted" ELSE @[i]]]
    /\ Goto("idle", 1)
    /\ UNCHANGED <<methods, tx>>

(* The keys, and the question whether the adapters support it: a truth value   *)
(* where a method is called raises TypeError.                                  *)
DistributedKeys ==
    /\ pc = "working"
    /\ IF methods = Sites THEN Goto("prepare", 1) ELSE Return("raised")
    /\ UNCHANGED <<methods, tx, fate>>

\* Mutant: the last instance is not waited for.
PrepareSkipsLast ==
    /\ pc = "prepare"
    /\ at \in Sites
    /\ IF TakesPart(at) THEN ~ InUse(at) /\ End(at, "prepared")
                        ELSE UNCHANGED fate
    /\ IF at + 1 >= N THEN Goto("commit", 1) ELSE Goto("prepare", at + 1)
    /\ UNCHANGED <<methods, tx>>

Prepare ==
    /\ pc = "prepare"
    /\ at \in Sites
    /\ IF TakesPart(at) THEN ~ InUse(at) /\ End(at, "prepared")
                        ELSE UNCHANGED fate
    /\ IF at = N THEN Goto("commit", 1) ELSE Goto("prepare", at + 1)
    /\ UNCHANGED <<methods, tx>>

\* Mutant: an instance that refuses is passed over.
PrepareFailsGoesOn ==
    /\ pc = "prepare"
    /\ at \in Sites
    /\ TakesPart(at)
    /\ "refuse" \in Faults
    /\ End(at, "aborted")
    /\ IF at = N THEN Goto("commit", 1) ELSE Goto("prepare", at + 1)
    /\ UNCHANGED <<methods, tx>>

(* It raises: the server refuses, always while the key is in use, or its answer*)
(* is lost. The handler of the exception starts over at the first instance.    *)
PrepareFails ==
    /\ pc = "prepare"
    /\ at \in Sites
    /\ TakesPart(at)
    /\ \/ /\ "refuse" \in Faults \/ InUse(at)
          /\ IF at \in Keyed THEN End(at, "aborted") ELSE UNCHANGED fate
       \/ "refuse" \in Faults /\ ~ InUse(at) /\ End(at, "prepared")
    /\ Goto("abort", 1)
    /\ UNCHANGED <<methods, tx>>

(* "ROLLBACK PREPARED key", which needs that something is prepared under the   *)
(* key, and no open transaction of the session, or the session's rollback.     *)
MayRollBack(i) == i \in Keyed => Held(i) # {} /\ fate[tx][i] # "active"

RollbackPrepared ==
    /\ pc = "abort"
    /\ at \in Sites
    /\ IF TakesPart(at) THEN MayRollBack(at) /\ EndNamed(at, "aborted") ELSE UNCHANGED fate
    /\ IF at = N THEN Return("RuntimeError") ELSE Goto("abort", at + 1)
    /\ UNCHANGED <<methods, tx>>

(* It raises, and the loop over the instances is left: always where nothing    *)
(* was prepared.                                                               *)
RollbackRaises ==
    /\ pc = "abort"
    /\ at \in Sites
    /\ TakesPart(at)
    /\ "rollback" \in Faults \/ ~ MayRollBack(at)
    /\ Return("raised")
    /\ UNCHANGED <<methods, tx, fate>>

CommitPrepared ==
    /\ pc = "commit"
    /\ at \in Sites
    /\ IF TakesPart(at) THEN EndNamed(at, "committed") ELSE UNCHANGED fate
    /\ IF at = N THEN Return("ok") ELSE Goto("commit", at + 1)
    /\ UNCHANGED <<methods, tx>>

(* It raises, before or after the server did it; nothing is tried again. *)
CommitRaises ==
    /\ pc = "commit"
    /\ at \in Sites
    /\ TakesPart(at)
    /\ "commit" \in Faults
    /\ UNCHANGED fate \/ EndNamed(at, "committed")
    /\ Return("raised")
    /\ UNCHANGED <<methods, tx>>

(* The process dies: its servers abort what is not prepared. *)
Crash ==
    /\ "crash" \in Faults
    /\ pc # "idle"
    /\ fate' = [fate EXCEPT ![tx] =
                  [i \in Sites |-> IF @[i] = "active" THEN "aborted" ELSE @[i]]]
    /\ Goto("idle", 1)
    /\ UNCHANGED <<methods, tx>>

Commit == Prepare \/ PrepareFails \/ RollbackPrepared \/ RollbackRaises
          \/ CommitPrepared \/ CommitRaises

Next == Begin \/ RollBackOpen \/ DistributedKeys \/ Commit \/ Crash

Spec == Init /\ [][Next]_vars

-----------------------------------------------------------------------------
(* A transaction whose call was cut off, or ended in an exception that does    *)
(* not tell its outcome: nobody works on it any more.                          *)
Abandoned(t) ==
    /\ t <= tx
    /\ t = tx => pc = "idle"
    /\ answer[t] \notin {"ok", "RuntimeError"}

(* A transaction committed somewhere is prepared or committed wherever it took *)
(* part, whichever instance refuses, raises or loses its client, in either     *)
(* loop of distributed_transaction_commit. Only one whose call has been        *)
(* abandoned may lose a prepared part: by the application's rollback, or by    *)
(* the rollback of a later transaction, which has the same keys (base.py:274). *)
Atomic ==
    \A t \in Txs, i, j \in Sites :
        fate[t][i] = "committed" =>
            \/ fate[t][j] \in {"none", "prepared", "committed"}
            \/ fate[t][j] = "aborted" /\ Abandoned(t)

(* What distributed_transaction_commit tells its caller is so, and stays so    *)
(* under the same keys: no exception means committed wherever there was a      *)
(* connection, RuntimeError means rolled back there. With an adapter of pyDAL's*)
(* among the instances, whose support is a truth value (base.py:277), it does  *)
(* neither, and nothing is ever prepared.                                      *)
AnswerIsTrue ==
    \A t \in Txs, i \in Sites :
        /\ answer[t] = "ok" => fate[t][i] \in {"none", "committed"}
        /\ answer[t] = "RuntimeError" => fate[t][i] \in {"none", "aborted"}
        /\ methods # Sites => /\ answer[t] \notin {"ok", "RuntimeError"}
                              /\ fate[t][i] \notin {"prepared", "committed"}

A == INSTANCE AtomicCommit WITH left <- {t \in Txs : Abandoned(t)}

(* The two loops implement an atomic commit, which a coordinator may leave. *)
AtomicSpec == A!Spec
=============================================================================
