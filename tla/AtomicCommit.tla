---------------------------- MODULE AtomicCommit ----------------------------
(* What a distributed transaction promises: every participant of a            *)
(* transaction reaches the same outcome, as long as its coordinator stays.    *)
(* Nothing commits before all have voted, nothing aborts once a participant   *)
(* has committed. A transaction its coordinator has left commits nowhere any  *)
(* more, and what is prepared of it is in doubt: it may abort.                *)
CONSTANTS Txs, Sites

VARIABLES
    fate,           \* fate[t][i]: "none", "active", "prepared", "committed", "aborted"
    left            \* transactions left by their coordinator

Undone(t) == \A i \in Sites : fate[t][i] # "committed"
AllVoted(t) == \A i \in Sites : fate[t][i] \in {"none", "prepared", "committed"}

Init == fate = [t \in Txs |-> [i \in Sites |-> "none"]] /\ left = {}

Start(t) ==
    /\ \A i \in Sites : fate[t][i] = "none"
    /\ \E Q \in SUBSET Sites :
          fate' = [fate EXCEPT ![t] = [i \in Sites |-> IF i \in Q THEN "active" ELSE "none"]]

Vote(t, i) ==
    /\ fate[t][i] = "active"
    /\ fate' = [fate EXCEPT ![t][i] = "prepared"]

Commit(t, i) ==
    /\ AllVoted(t)
    /\ fate[t][i] = "prepared"
    /\ fate' = [fate EXCEPT ![t][i] = "committed"]

(* Any participants abort, of transactions nothing of which has committed and *)
(* of those that were left.                                                   *)
Abort ==
    \E T \in SUBSET Txs :
       /\ \A t \in T : Undone(t) \/ t \in left
       /\ fate' \in [Txs -> [Sites -> {"none", "active", "prepared", "committed", "aborted"}]]
       /\ \A t \in Txs, i \in Sites :
             \/ fate'[t][i] = fate[t][i]
             \/ t \in T /\ fate[t][i] \in {"active", "prepared"} /\ fate'[t][i] = "aborted"

Next ==
    /\ left \subseteq left' /\ left' \subseteq Txs
    /\ \/ \E t \in Txs \ left : Start(t) \/ \E i \in Sites : Vote(t, i) \/ Commit(t, i)
       \/ Abort
       \/ UNCHANGED fate

Spec == Init /\ [][Next]_<<fate, left>>
=============================================================================
