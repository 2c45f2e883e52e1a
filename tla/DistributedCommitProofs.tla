----------------------- MODULE DistributedCommitProofs -----------------------
(* The two-phase commit is atomic, in the sense of AtomicCommit, for any       *)
(* number of instances, transactions and faults, under the keys the code       *)
(* builds: one for each instance, the same for all transactions of a thread.   *)
EXTENDS DistributedCommit, TLAPS

(* What each place of the call knows of the transaction in hand. *)
Places ==
    /\ pc = "working" => \A i \in Sites : fate[tx][i] \in {"none", "active"}
    /\ pc = "prepare" => \A i \in Sites : fate[tx][i] \in {"none", IF i < at THEN "prepared" ELSE "active"}
    /\ pc = "commit" => \A i \in Sites : fate[tx][i] \in {"none", IF i < at THEN "committed" ELSE "prepared"}
    /\ pc = "abort" => \A i \in Sites : /\ fate[tx][i] # "committed"
                                        /\ i < at => fate[tx][i] \in {"none", "aborted"}
    /\ pc \in {"prepare", "commit", "abort"} => methods = Sites
    /\ pc # "idle" => tx \in Txs /\ at \in Sites /\ answer[tx] = "none"

Future == \A t \in Txs : t > tx => answer[t] = "none" /\ \A i \in Sites : fate[t][i] = "none"

(* The key names one transaction at most, although all of the thread have it.  *)
OneHeld ==
    \A i \in Sites, t, u \in Txs :
        i \in Keyed /\ fate[t][i] = "prepared" /\ fate[u][i] = "prepared" => t = u

Inv == TypeOK /\ Places /\ Future /\ OneHeld /\ Atomic /\ AnswerIsTrue

LEMMA InitInv == Init => Inv
<1> SUFFICES ASSUME Init PROVE Inv
    OBVIOUS
<1> USE DEF Init, Sites, Txs
<1>1. TypeOK
    BY DistAssumption DEF TypeOK, Fates
<1>2. Places /\ Future /\ OneHeld /\ Atomic /\ AnswerIsTrue
    BY DEF Places, Future, OneHeld, Atomic, AnswerIsTrue
<1> QED BY <1>1, <1>2 DEF Inv

(* A transaction that was abandoned is not taken up again. *)
LEMMA StaysAbandoned ==
    ASSUME Inv, [Next]_vars, NEW t \in Txs, Abandoned(t)
    PROVE  Abandoned(t)'
<1> USE DEF Inv, TypeOK, Places, Abandoned, Txs
<1> USE DistAssumption
<1>1. CASE UNCHANGED vars
    BY <1>1 DEF vars
<1>2. CASE Begin
    BY <1>2 DEF Begin, Goto
<1>3. CASE RollBackOpen
    BY <1>3 DEF RollBackOpen, Goto
<1>4. CASE DistributedKeys
    BY <1>4 DEF DistributedKeys, Goto, Return
<1>5. CASE Prepare
    BY <1>5 DEF Prepare, Goto
<1>6. CASE PrepareFails
    BY <1>6 DEF PrepareFails, Goto
<1>7. CASE RollbackPrepared
    BY <1>7 DEF RollbackPrepared, Goto, Return
<1>8. CASE RollbackRaises
    BY <1>8 DEF RollbackRaises, Return
<1>9. CASE CommitPrepared
    BY <1>9 DEF CommitPrepared, Goto, Return
<1>10. CASE CommitRaises
    BY <1>10 DEF CommitRaises, Return
<1>11. CASE Crash
    BY <1>11 DEF Crash, Goto
<1> QED BY <1>1, <1>2, <1>3, <1>4, <1>5, <1>6, <1>7, <1>8, <1>9, <1>10, <1>11 DEF Next, Commit

(* What is prepared by an earlier transaction, or open, belongs to nobody any  *)
(* more: the caller was told neither of the outcomes.                          *)
LEMMA EarlierIsAbandoned ==
    ASSUME Inv, NEW u \in Txs, NEW i \in Sites, fate[u][i] = "prepared", u # tx
    PROVE  Abandoned(u)
<1>1. answer[u] \notin {"ok", "RuntimeError"}
    BY DEF Inv, AnswerIsTrue
<1>2. u <= tx
    BY DEF Inv, TypeOK, Future, Txs
<1> QED BY <1>1, <1>2 DEF Abandoned

(* At an instance that prepared the transaction in hand the key names it alone,*)
(* and so does the session of one that has no keys.                            *)
LEMMA NamedIsMine ==
    ASSUME Inv, tx \in Txs, NEW i \in Sites, fate[tx][i] = "prepared"
    PROVE  Named(i) = {tx}
BY DEF Inv, OneHeld, Named, Held

(* What EndNamed does to each part of each transaction. *)
LEMMA EndNamedParts ==
    ASSUME TypeOK, NEW i \in Sites, NEW how, EndNamed(i, how)
    PROVE  \A t \in Txs, j \in Sites :
               fate'[t][j] = IF t \in Named(i) /\ j = i THEN how ELSE fate[t][j]
BY DEF EndNamed, TypeOK

LEMMA EndNamedType ==
    ASSUME TypeOK, NEW i \in Sites, NEW how \in Fates, EndNamed(i, how)
    PROVE  fate' \in [Txs -> [Sites -> Fates]]
BY DEF EndNamed, TypeOK

LEMMA StepInv == ASSUME Inv, [Next]_vars PROVE Inv'
<1> USE DEF Sites, Txs
<1> USE DistAssumption
<1>0. TypeOK /\ Places /\ Future /\ OneHeld /\ Atomic /\ AnswerIsTrue
    BY DEF Inv
<1>1. CASE UNCHANGED vars
    BY <1>0, <1>1 DEF vars, Inv, TypeOK, Places, Future, OneHeld, Atomic, AnswerIsTrue, Abandoned
<1>2. CASE Begin
    <2>1. PICK Q \in SUBSET Sites :
            fate' = [fate EXCEPT ![tx + 1] = [i \in Sites |-> IF i \in Q THEN "active" ELSE "none"]]
        BY <1>2 DEF Begin
    <2>2. \A t \in Txs : t # tx + 1 => fate'[t] = fate[t]
        BY <1>0, <2>1 DEF TypeOK
    <2>3. \A i \in Sites : fate'[tx + 1][i] \in {"none", "active"}
        BY <1>0, <1>2, <2>1 DEF Begin, TypeOK
    <2>4. /\ answer[tx + 1] = "none" /\ answer' = answer /\ tx' = tx + 1 /\ tx' \in Txs
          /\ pc' = "working" /\ at' = 1 /\ methods' = methods
        BY <1>0, <1>2 DEF Begin, Goto, TypeOK, Future
    <2>5. TypeOK'
        BY <1>0, <2>1, <2>4 DEF TypeOK, Fates
    <2>6. Places' /\ Future' /\ OneHeld'
        BY <1>0, <2>2, <2>3, <2>4 DEF Places, Future, TypeOK, OneHeld
    <2>7. \A t \in Txs : Abandoned(t) => Abandoned(t)'
        BY StaysAbandoned
    <2>8. Atomic' /\ AnswerIsTrue'
        BY <1>0, <2>2, <2>3, <2>4, <2>7 DEF Atomic, AnswerIsTrue
    <2> QED BY <2>5, <2>6, <2>8 DEF Inv
<1>3. CASE RollBackOpen \/ Crash
    <2>1. /\ tx \in Txs /\ tx' = tx /\ answer' = answer /\ pc' = "idle" /\ at' = 1
          /\ methods' = methods
        BY <1>0, <1>3 DEF RollBackOpen, Crash, Goto, TypeOK, Places
    <2>2. \A t \in Txs, i \in Sites :
              \/ fate'[t][i] = fate[t][i]
              \/ t = tx /\ fate[t][i] \in {"active", "prepared"} /\ fate'[t][i] = "aborted"
        BY <1>0, <1>3, <2>1 DEF RollBackOpen, Crash, Open, TypeOK
    <2>3. fate' \in [Txs -> [Sites -> Fates]]
        <3>1. CASE RollBackOpen
            BY <1>0, <2>1, <3>1 DEF RollBackOpen, TypeOK, Fates
        <3>2. CASE Crash
            BY <1>0, <2>1, <3>2 DEF Crash, TypeOK, Fates
        <3> QED BY <1>3, <3>1, <3>2
    <2>4. TypeOK'
        BY <1>0, <2>1, <2>3 DEF TypeOK
    <2>5. Places' /\ Future' /\ OneHeld'
        BY <1>0, <2>1, <2>2 DEF Places, Future, OneHeld
    <2>6. (\E i \in Sites : fate[tx][i] \in {"active", "prepared"}) => answer[tx] \notin {"ok", "RuntimeError"}
        BY <1>0, <2>1 DEF AnswerIsTrue
    <2>7. \A i \in Sites : fate'[tx][i] # fate[tx][i] => Abandoned(tx)'
        BY <1>0, <2>1, <2>2, <2>6 DEF Abandoned, TypeOK
    <2>8. \A t \in Txs : Abandoned(t) => Abandoned(t)'
        BY StaysAbandoned
    <2>9. Atomic'
        BY <1>0, <2>1, <2>2, <2>7, <2>8 DEF Atomic
    <2>10. AnswerIsTrue'
        BY <1>0, <2>1, <2>2 DEF AnswerIsTrue
    <2> QED BY <2>4, <2>5, <2>9, <2>10 DEF Inv
<1>4. CASE DistributedKeys
    <2>1. /\ tx \in Txs /\ tx' = tx /\ fate' = fate /\ methods' = methods /\ at' = 1
          /\ answer[tx] = "none"
        BY <1>0, <1>4 DEF DistributedKeys, Goto, Return, Places
    <2>2. \/ pc' = "prepare" /\ methods = Sites /\ answer' = answer
          \/ pc' = "idle" /\ answer' = [answer EXCEPT ![tx] = "raised"]
        BY <1>4 DEF DistributedKeys, Goto, Return
    <2>3. TypeOK'
        BY <1>0, <2>1, <2>2 DEF TypeOK
    <2>4. Places' /\ Future' /\ OneHeld'
        BY <1>0, <1>4, <2>1, <2>2 DEF DistributedKeys, TypeOK, Places, Future, OneHeld
    <2>5. \A t \in Txs : Abandoned(t) => Abandoned(t)'
        BY StaysAbandoned
    <2>6. Atomic' /\ AnswerIsTrue'
        BY <1>0, <2>1, <2>2, <2>5 DEF TypeOK, Atomic, AnswerIsTrue
    <2> QED BY <2>3, <2>4, <2>6 DEF Inv
<1>5. CASE Prepare
    <2>1. /\ tx \in Txs /\ tx' = tx /\ at \in Sites /\ answer' = answer /\ methods' = methods
          /\ methods = Sites /\ pc = "prepare"
        BY <1>0, <1>5 DEF Prepare, Goto, Places
    <2>2. \A t \in Txs, i \in Sites :
              fate'[t][i] = IF t = tx /\ i = at /\ fate[tx][at] # "none" THEN "prepared" ELSE fate[t][i]
        BY <1>0, <1>5, <2>1 DEF Prepare, TakesPart, End, TypeOK
    <2>3. fate' \in [Txs -> [Sites -> Fates]]
        <3>1. UNCHANGED fate \/ End(at, "prepared")
            BY <1>5 DEF Prepare
        <3> QED BY <1>0, <2>1, <3>1 DEF End, TypeOK, Fates
    <2>4. TypeOK'
        BY <1>0, <1>5, <2>1, <2>3 DEF Prepare, Goto, TypeOK
    <2>5. Places'
        <3>1. CASE at = N
            BY <1>0, <1>5, <2>1, <2>2, <3>1 DEF Prepare, Goto, Places
        <3>2. CASE at # N
            BY <1>0, <1>5, <2>1, <2>2, <3>2 DEF Prepare, Goto, Places
        <3> QED BY <3>1, <3>2
    <2>6. Future'
        BY <1>0, <2>1, <2>2 DEF Future
    <2>7. OneHeld'
        <3>1. fate[tx][at] # "none" /\ at \in Keyed => \A u \in Txs : fate[u][at] # "prepared"
            BY <1>5 DEF Prepare, TakesPart, InUse, Held
        <3> QED BY <1>0, <2>1, <2>2, <3>1 DEF OneHeld
    <2>8. \A t \in Txs : Abandoned(t) => Abandoned(t)'
        BY StaysAbandoned
    <2>9. Atomic' /\ AnswerIsTrue'
        BY <1>0, <2>1, <2>2, <2>8 DEF Places, Atomic, AnswerIsTrue
    <2> QED BY <2>4, <2>5, <2>6, <2>7, <2>9 DEF Inv
<1>6. CASE PrepareFails
    <2>1. /\ tx \in Txs /\ tx' = tx /\ at \in Sites /\ answer' = answer /\ methods' = methods
          /\ pc = "prepare" /\ pc' = "abort" /\ at' = 1 /\ answer[tx] = "none" /\ methods = Sites
        BY <1>0, <1>6 DEF PrepareFails, Goto, Places
    <2>2. \A t \in Txs, i \in Sites :
              \/ fate'[t][i] = fate[t][i]
              \/ t = tx /\ i = at /\ fate'[t][i] = "aborted"
              \/ t = tx /\ i = at /\ fate'[t][i] = "prepared" /\ ~ InUse(at)
        BY <1>0, <1>6, <2>1 DEF PrepareFails, End, TypeOK
    <2>3. fate' \in [Txs -> [Sites -> Fates]]
        <3>1. UNCHANGED fate \/ End(at, "prepared") \/ End(at, "aborted")
            BY <1>6 DEF PrepareFails
        <3>2. CASE End(at, "prepared")
            BY <1>0, <2>1, <3>2 DEF End, TypeOK, Fates
        <3>3. CASE End(at, "aborted")
            BY <1>0, <2>1, <3>3 DEF End, TypeOK, Fates
        <3> QED BY <1>0, <3>1, <3>2, <3>3 DEF TypeOK
    <2>4. TypeOK'
        BY <1>0, <2>1, <2>3 DEF TypeOK
    <2>5. \A i \in Sites : fate[tx][i] \in {"none", "prepared", "active"}
        BY <1>0, <2>1 DEF Places
    <2>6. Places' /\ Future'
        BY <1>0, <2>1, <2>2, <2>5 DEF Places, Future
    <2>7. OneHeld'
        BY <1>0, <2>1, <2>2 DEF OneHeld, InUse, Held
    <2>8. \A t \in Txs : Abandoned(t) => Abandoned(t)'
        BY StaysAbandoned
    <2>9. Atomic' /\ AnswerIsTrue'
        BY <1>0, <2>1, <2>2, <2>5, <2>8 DEF Atomic, AnswerIsTrue
    <2> QED BY <2>4, <2>6, <2>7, <2>9 DEF Inv
<1>7. CASE RollbackPrepared
    <2>1. /\ tx \in Txs /\ tx' = tx /\ at \in Sites /\ pc = "abort" /\ methods' = methods
          /\ methods = Sites /\ answer[tx] = "none"
        BY <1>0, <1>7 DEF RollbackPrepared, Places
    <2>2. \A t \in Txs, i \in Sites :
              \/ fate'[t][i] = fate[t][i]
              \/ i = at /\ t = tx /\ fate'[t][i] = "aborted"
              \/ i = at /\ t # tx /\ fate[t][i] = "prepared" /\ fate'[t][i] = "aborted"
        <3>1. CASE UNCHANGED fate
            BY <3>1
        <3>2. CASE EndNamed(at, "aborted")
            <4>1. \A t \in Named(at) : t = tx \/ fate[t][at] = "prepared"
                BY DEF Named, Held
            <4> QED BY <1>0, <2>1, <3>2, <4>1, EndNamedParts
        <3> QED BY <1>7, <3>1, <3>2 DEF RollbackPrepared
    <2>3. fate'[tx][at] \in {"none", "aborted"}
        <3>1. CASE fate[tx][at] = "none"
            BY <1>7, <3>1 DEF RollbackPrepared, TakesPart
        <3>2. CASE fate[tx][at] # "none"
            <4>1. MayRollBack(at) /\ EndNamed(at, "aborted")
                BY <1>7, <3>2 DEF RollbackPrepared, TakesPart
            <4>2. tx \in Named(at) \/ fate[tx][at] = "aborted"
                BY <1>0, <2>1, <3>2, <4>1 DEF MayRollBack, Named, Held, TypeOK, Fates, Places
            <4> QED BY <1>0, <2>1, <4>1, <4>2, EndNamedParts
        <3> QED BY <3>1, <3>2
    <2>4. fate' \in [Txs -> [Sites -> Fates]]
        <3>1. CASE UNCHANGED fate
            BY <1>0, <3>1 DEF TypeOK
        <3>2. CASE EndNamed(at, "aborted")
            BY <1>0, <2>1, <3>2, EndNamedType DEF Fates
        <3> QED BY <1>7, <3>1, <3>2 DEF RollbackPrepared
    <2>5. TypeOK'
        BY <1>0, <1>7, <2>1, <2>4 DEF RollbackPrepared, Return, Goto, TypeOK
    <2>6. /\ \A t \in Txs : t # tx => answer'[t] = answer[t]
          /\ \/ pc' = "abort" /\ at' = at + 1 /\ at' \in Sites /\ answer'[tx] = "none"
             \/ pc' = "idle" /\ at = N /\ answer'[tx] = "RuntimeError"
        BY <1>0, <1>7, <2>1 DEF RollbackPrepared, Return, Goto, TypeOK
    <2>7. \A i \in Sites : /\ fate'[tx][i] # "committed"
                           /\ i <= at => fate'[tx][i] \in {"none", "aborted"}
        BY <1>0, <2>1, <2>2, <2>3 DEF Places
    <2>8. Places' /\ Future'
        BY <1>0, <2>1, <2>2, <2>6, <2>7 DEF Places, Future, TypeOK
    <2>9. OneHeld'
        BY <1>0, <2>2 DEF OneHeld
    <2>10. \A t \in Txs : Abandoned(t) => Abandoned(t)'
        BY StaysAbandoned
    <2>11. \A u \in Txs : u # tx /\ fate'[u][at] # fate[u][at] => Abandoned(u) /\ Abandoned(u)'
        BY <2>1, <2>2, <2>10, EarlierIsAbandoned
    <2>12. Atomic'
        BY <1>0, <2>1, <2>2, <2>7, <2>10, <2>11 DEF Atomic
    <2>13. AnswerIsTrue'
        BY <1>0, <2>1, <2>2, <2>6, <2>7, <2>11 DEF AnswerIsTrue, Abandoned
    <2> QED BY <2>5, <2>8, <2>9, <2>12, <2>13 DEF Inv
<1>8. CASE RollbackRaises
    <2>1. /\ tx \in Txs /\ tx' = tx /\ fate' = fate /\ pc' = "idle" /\ at' = 1 /\ methods' = methods
          /\ answer' = [answer EXCEPT ![tx] = "raised"]
        BY <1>0, <1>8 DEF RollbackRaises, Return, Places
    <2>2. \A t \in Txs : Abandoned(t) => Abandoned(t)'
        BY StaysAbandoned
    <2> QED BY <1>0, <2>1, <2>2 DEF Inv, TypeOK, Places, Future, OneHeld, Atomic, AnswerIsTrue
<1>9. CASE CommitPrepared \/ CommitRaises
    <2>1. /\ tx \in Txs /\ tx' = tx /\ at \in Sites /\ pc = "commit" /\ methods' = methods
          /\ methods = Sites /\ answer[tx] = "none"
        BY <1>0, <1>9 DEF CommitPrepared, CommitRaises, Places
    <2>2. fate[tx][at] \in {"none", "prepared"}
        BY <1>0, <2>1 DEF Places
    <2>3. \/ UNCHANGED fate /\ (CommitPrepared => fate[tx][at] = "none")
          \/ EndNamed(at, "committed") /\ Named(at) = {tx} /\ fate[tx][at] = "prepared"
        BY <1>9, <2>1, <2>2, NamedIsMine DEF CommitPrepared, CommitRaises, TakesPart
    <2>4. \A t \in Txs, i \in Sites :
              \/ fate'[t][i] = fate[t][i]
              \/ t = tx /\ i = at /\ fate[t][i] = "prepared" /\ fate'[t][i] = "committed"
        BY <1>0, <2>1, <2>3, EndNamedParts
    <2>5. CommitPrepared => fate'[tx][at] \in {"none", "committed"}
        BY <1>0, <2>1, <2>3, EndNamedParts
    <2>6. fate' \in [Txs -> [Sites -> Fates]]
        BY <1>0, <2>1, <2>3, EndNamedType DEF TypeOK, Fates
    <2>7. TypeOK'
        BY <1>0, <1>9, <2>1, <2>6 DEF CommitPrepared, CommitRaises, Return, Goto, TypeOK
    <2>8. /\ \A t \in Txs : t # tx => answer'[t] = answer[t]
          /\ \/ /\ CommitPrepared /\ pc' = "commit" /\ at' = at + 1 /\ at' \in Sites
                /\ answer'[tx] = "none"
             \/ CommitPrepared /\ pc' = "idle" /\ at = N /\ answer'[tx] = "ok"
             \/ pc' = "idle" /\ answer'[tx] = "raised"
        BY <1>0, <1>9, <2>1 DEF CommitPrepared, CommitRaises, Return, Goto, TypeOK
    <2>9. CommitPrepared => \A i \in Sites : i <= at => fate'[tx][i] \in {"none", "committed"}
        BY <1>0, <2>1, <2>4, <2>5 DEF Places
    <2>10. \A i \in Sites : fate[tx][i] \in {"none", "prepared", "committed"}
        BY <1>0, <2>1 DEF Places
    <2>11. Places' /\ Future'
        <3>1. \A i \in Sites : i > at => fate'[tx][i] \in {"none", "prepared"}
            BY <1>0, <2>1, <2>4 DEF Places
        <3>2. Places'
            <4>1. CASE pc' = "idle"
                BY <4>1 DEF Places
            <4>2. CASE pc' # "idle"
                <5>1. CommitPrepared /\ pc' = "commit" /\ at' = at + 1 /\ at' \in Sites /\ answer'[tx] = "none"
                    BY <2>8, <4>2
                <5>2. \A i \in Sites : fate'[tx][i] \in {"none", IF i < at + 1 THEN "committed" ELSE "prepared"}
                    BY <2>1, <2>9, <3>1, <5>1
                <5> QED BY <2>1, <5>1, <5>2 DEF Places
            <4> QED BY <4>1, <4>2
        <3>3. Future'
            <4>1. \A t \in Txs : t > tx' => t # tx /\ t > tx
                BY <2>1
            <4>2. \A t \in Txs : t # tx => \A i \in Sites : fate'[t][i] = fate[t][i]
                BY <2>4
            <4> HIDE DEF Sites, Txs
            <4> QED BY <1>0, <2>8, <4>1, <4>2 DEF Future
        <3> QED BY <3>2, <3>3
    <2>12. OneHeld'
        BY <1>0, <2>4 DEF OneHeld
    <2>13. \A t \in Txs : Abandoned(t) => Abandoned(t)'
        BY StaysAbandoned
    <2>14. Atomic'
        BY <1>0, <2>1, <2>4, <2>10, <2>13 DEF Atomic
    <2>15. AnswerIsTrue'
        BY <1>0, <2>1, <2>4, <2>8, <2>9 DEF AnswerIsTrue
    <2> QED BY <2>7, <2>11, <2>12, <2>14, <2>15 DEF Inv
<1> QED BY <1>1, <1>2, <1>3, <1>4, <1>5, <1>6, <1>7, <1>8, <1>9 DEF Next, Commit

LEMMA Invariance == Spec => []Inv
<1>1. Init => Inv
    BY InitInv
<1>2. Inv /\ [Next]_vars => Inv'
    BY StepInv
<1> QED BY <1>1, <1>2, PTL DEF Spec

(* The variables of the two-phase commit keep their types. *)
THEOREM DistTypes == Spec => []TypeOK
<1>1. Inv => TypeOK
    BY DEF Inv
<1> QED BY <1>1, Invariance, PTL

(* distributed_transaction_commit is atomic until its call is cut off, whatever*)
(* instance refuses, raises, or loses its client, at any point of either loop, *)
(* and whatever earlier transactions of the thread left under its keys.        *)
THEOREM TwoPhaseIsAtomic == Spec => []Atomic
<1>1. Inv => Atomic
    BY DEF Inv
<1> QED BY <1>1, Invariance, PTL

(* What the caller of distributed_transaction_commit is told holds on every    *)
(* instance, and goes on holding, though later transactions use the same keys. *)
THEOREM CallerIsToldTheTruth == Spec => []AnswerIsTrue
<1>1. Inv => AnswerIsTrue
    BY DEF Inv
<1> QED BY <1>1, Invariance, PTL

(* A step that turns participants to "aborted", of transactions where none has *)
(* committed or that are abandoned, is an Abort of the abstract specification. *)
LEMMA AbortStep ==
    ASSUME fate \in [Txs -> [Sites -> Fates]], fate' \in [Txs -> [Sites -> Fates]],
           NEW T \in SUBSET Txs,
           \A t \in T : (\A i \in Sites : fate[t][i] # "committed") \/ Abandoned(t),
           \A u \in Txs, i \in Sites :
              \/ fate'[u][i] = fate[u][i]
              \/ u \in T /\ fate[u][i] \in {"active", "prepared"} /\ fate'[u][i] = "aborted"
    PROVE  A!Abort
<1>1. \A t \in T : A!Undone(t) \/ t \in {u \in Txs : Abandoned(u)}
    BY DEF A!Undone
<1> QED BY <1>1 DEF A!Abort, Fates

(* What the step of the abstract specification does to the participants. *)
Moved ==
    \/ \E t \in Txs \ {u \in Txs : Abandoned(u)} :
          A!Start(t) \/ \E i \in Sites : A!Vote(t, i) \/ A!Commit(t, i)
    \/ A!Abort
    \/ UNCHANGED fate

LEMMA MovedStep == ASSUME Inv, Inv', [Next]_vars PROVE Moved
<1> USE DEF Sites, Txs
<1> USE DistAssumption
<1>0. /\ TypeOK /\ Places /\ Future /\ AnswerIsTrue
      /\ fate \in [Txs -> [Sites -> Fates]] /\ fate' \in [Txs -> [Sites -> Fates]]
    BY DEF Inv, TypeOK
<1>1. CASE UNCHANGED vars \/ DistributedKeys \/ RollbackRaises
    BY <1>1 DEF vars, DistributedKeys, RollbackRaises, Moved
<1>2. CASE Begin
    <2>1. tx + 1 \in Txs /\ (\A i \in Sites : fate[tx + 1][i] = "none") /\ ~ Abandoned(tx + 1)
        BY <1>0, <1>2 DEF Begin, TypeOK, Future, Abandoned
    <2>2. A!Start(tx + 1)
        BY <1>2, <2>1 DEF Begin, A!Start
    <2> QED BY <2>1, <2>2 DEF Moved
<1>3. CASE RollBackOpen \/ Crash
    <2>1. tx \in Txs
        BY <1>0, <1>3 DEF RollBackOpen, Crash, TypeOK, Places
    <2>2. \A t \in Txs, i \in Sites :
              \/ fate'[t][i] = fate[t][i]
              \/ t \in {tx} /\ fate[t][i] \in {"active", "prepared"} /\ fate'[t][i] = "aborted"
        BY <1>0, <1>3, <2>1 DEF RollBackOpen, Crash, Open
    <2>3. CASE (\A i \in Sites : fate[tx][i] # "committed") \/ Abandoned(tx)
        <3>1. {tx} \in SUBSET Txs /\ \A t \in {tx} : (\A i \in Sites : fate[t][i] # "committed") \/ Abandoned(t)
            BY <2>1, <2>3
        <3>2. A!Abort
            BY <1>0, <2>2, <3>1, AbortStep
        <3> QED BY <3>2 DEF Moved
    <2>4. CASE (\E i \in Sites : fate[tx][i] = "committed") /\ ~ Abandoned(tx)
        <3>1. \A i \in Sites : fate[tx][i] # "active"
            BY <2>1, <2>4 DEF Inv, Atomic
        <3>2. Crash
            <4>1. SUFFICES ASSUME RollBackOpen PROVE FALSE
                BY <1>3
            <4>2. pc = "idle"
                BY <1>0, <2>4, <4>1 DEF RollBackOpen, Places
            <4>3. \E i \in Sites : fate[tx][i] = "prepared"
                BY <3>1, <4>1 DEF RollBackOpen, Open
            <4>4. answer[tx] \notin {"ok", "RuntimeError"}
                BY <1>0, <2>1, <4>3 DEF AnswerIsTrue
            <4> QED BY <1>0, <2>4, <4>2, <4>4 DEF Abandoned, TypeOK
        <3>3. \A t \in Txs : fate'[t] = fate[t]
            BY <1>0, <2>1, <3>1, <3>2 DEF Crash
        <3>4. fate' = fate
            BY <1>0, <3>3
        <3> QED BY <3>4 DEF Moved
    <2> QED BY <2>3, <2>4
<1>4. CASE Prepare \/ PrepareFails
    <2>1. /\ tx \in Txs /\ at \in Sites /\ ~ Abandoned(tx)
          /\ \A i \in Sites : fate[tx][i] \in {"none", "prepared", "active"}
          /\ fate[tx][at] \in {"none", "active"}
        BY <1>0, <1>4 DEF Prepare, PrepareFails, Places, Abandoned
    <2>2. \/ UNCHANGED fate
          \/ End(at, "prepared") /\ fate[tx][at] = "active"
          \/ End(at, "aborted") /\ fate[tx][at] = "active"
        BY <1>4, <2>1 DEF Prepare, PrepareFails, TakesPart
    <2>3. CASE UNCHANGED fate
        BY <2>3 DEF Moved
    <2>4. CASE End(at, "prepared") /\ fate[tx][at] = "active"
        <3>1. A!Vote(tx, at)
            BY <2>4 DEF End, A!Vote
        <3> QED BY <2>1, <3>1 DEF Moved
    <2>5. CASE End(at, "aborted") /\ fate[tx][at] = "active"
        <3>1. \A t \in Txs, i \in Sites :
                  \/ fate'[t][i] = fate[t][i]
                  \/ t \in {tx} /\ fate[t][i] \in {"active", "prepared"} /\ fate'[t][i] = "aborted"
            BY <1>0, <2>1, <2>5 DEF End
        <3>2. {tx} \in SUBSET Txs /\ \A t \in {tx} : (\A i \in Sites : fate[t][i] # "committed") \/ Abandoned(t)
            BY <2>1
        <3>3. A!Abort
            BY <1>0, <3>1, <3>2, AbortStep
        <3> QED BY <3>3 DEF Moved
    <2> QED BY <2>2, <2>3, <2>4, <2>5
<1>5. CASE RollbackPrepared
    <2>1. tx \in Txs /\ at \in Sites /\ (\A i \in Sites : fate[tx][i] # "committed")
        BY <1>0, <1>5 DEF RollbackPrepared, Places
    <2>2. CASE UNCHANGED fate
        BY <2>2 DEF Moved
    <2>3. CASE EndNamed(at, "aborted") /\ fate[tx][at] # "none"
        <3>1. \A t \in Named(at) : t = tx \/ fate[t][at] = "prepared"
            BY DEF Named, Held
        <3>2. fate[tx][at] \in {"active", "prepared", "aborted"}
            BY <1>0, <2>1, <2>3 DEF Fates
        <3> DEFINE T == {t \in Txs : t = tx \/ (t \in Named(at) /\ fate[t][at] = "prepared")}
        <3>3. \A u \in Txs, i \in Sites :
                  \/ fate'[u][i] = fate[u][i]
                  \/ u \in T /\ fate[u][i] \in {"active", "prepared"} /\ fate'[u][i] = "aborted"
            <4>1. \A u \in Txs, i \in Sites :
                      fate'[u][i] = IF u \in Named(at) /\ i = at THEN "aborted" ELSE fate[u][i]
                BY <1>0, <2>1, <2>3, EndNamedParts
            <4> SUFFICES ASSUME NEW u \in Txs, NEW i \in Sites, u \in Named(at), i = at,
                                fate[u][i] # "aborted"
                         PROVE  u \in T /\ fate[u][i] \in {"active", "prepared"} /\ fate'[u][i] = "aborted"
                BY <4>1
            <4>2. u = tx \/ fate[u][at] = "prepared"
                BY <3>1
            <4> QED BY <3>2, <4>1, <4>2
        <3>4. \A t \in T : (\A i \in Sites : fate[t][i] # "committed") \/ Abandoned(t)
            BY <2>1, EarlierIsAbandoned
        <3>5. T \in SUBSET Txs
            OBVIOUS
        <3> HIDE DEF T
        <3>6. A!Abort
            BY <1>0, <3>3, <3>4, <3>5, AbortStep
        <3> QED BY <3>6 DEF Moved
    <2> QED BY <1>5, <2>2, <2>3 DEF RollbackPrepared, TakesPart
<1>6. CASE CommitPrepared \/ CommitRaises
    <2>1. /\ tx \in Txs /\ at \in Sites /\ ~ Abandoned(tx)
          /\ \A i \in Sites : fate[tx][i] \in {"none", "prepared", "committed"}
          /\ fate[tx][at] \in {"none", "prepared"}
        BY <1>0, <1>6 DEF CommitPrepared, CommitRaises, Places, Abandoned
    <2>2. CASE UNCHANGED fate
        BY <2>2 DEF Moved
    <2>3. CASE EndNamed(at, "committed") /\ fate[tx][at] = "prepared"
        <3>1. Named(at) = {tx}
            BY <2>1, <2>3, NamedIsMine
        <3>2. fate' = [fate EXCEPT ![tx][at] = "committed"]
            BY <1>0, <2>1, <2>3, <3>1 DEF EndNamed
        <3>3. A!Commit(tx, at)
            BY <2>1, <2>3, <3>2 DEF A!Commit, A!AllVoted
        <3> QED BY <2>1, <3>3 DEF Moved
    <2> QED BY <1>6, <2>1, <2>2, <2>3 DEF CommitPrepared, CommitRaises, TakesPart
<1> QED BY <1>1, <1>2, <1>3, <1>4, <1>5, <1>6 DEF Next, Commit

LEMMA RefineStep == ASSUME Inv, Inv', [Next]_vars PROVE A!Next
<1>1. {t \in Txs : Abandoned(t)} \subseteq {t \in Txs : Abandoned(t)}'
    <2> SUFFICES ASSUME NEW t \in Txs, Abandoned(t) PROVE Abandoned(t)'
        BY DEF Txs
    <2> QED BY StaysAbandoned
<1>2. {t \in Txs : Abandoned(t)}' \subseteq Txs
    BY DEF Txs
<1>3. Moved
    BY MovedStep
<1> QED BY <1>1, <1>2, <1>3 DEF A!Next, Moved

(* distributed_transaction_commit implements the abstract atomic commit with a *)
(* coordinator that may leave, under the keys all transactions of a thread     *)
(* share.                                                                      *)
THEOREM ImplementsAtomicCommit == Spec => AtomicSpec
<1>1. Init => A!Init
    BY DEF Init, A!Init, Abandoned, Txs
<1>2. Inv /\ Inv' /\ [Next]_vars => A!Next
    BY RefineStep
<1> QED BY <1>1, <1>2, Invariance, PTL DEF Spec, AtomicSpec, A!Spec
=============================================================================
