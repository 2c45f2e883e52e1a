-------------------------- MODULE SchedulerProofs --------------------------
(***************************************************************************)
(* Proofs about Scheduler.  Inv is the inductive invariant: it ties the    *)
(* status of a row to the stage of its child process (RowsAgree), says what*)
(* a loop may rely on at its next step although it works on an old snapshot*)
(* (LoopsAgree), and that no two loops are about to fork for the same run. *)
(***************************************************************************)
EXTENDS Scheduler, TLAPS

\* What a row says and how far the process of its run is. A loop on another
\* machine with the worker's id may have declared it dead.
RowAgrees(r) ==
  /\ worker[r] = None => status[r] \in {"absent", "queued"} /\ child[r] = "none"
  /\ status[r] = "absent" => worker[r] = None
  /\ child[r] = "none" => status[r] \in {"absent", "queued", "assigned", "unknown"}
  /\ child[r] = "forked" => status[r] \in {"queued", "assigned"}
  /\ child[r] = "working" => status[r] \in {"running", "dead"}
  /\ child[r] = "recorded" => status[r] \in {"completed", "failed", "dead"}
  /\ child[r] = "gone" => status[r] \notin {"absent", "unknown"}

RowsAgree == \A r \in Runs : RowAgrees(r)

Started(s, r) == worker[r] = WorkerId[s] /\ child[r] \in {"working", "recorded", "gone"}

LoopAgrees(s) ==
  /\ pc[s] = "claim" => run[s] \in Runs
  /\ pc[s] = "launch" =>
       /\ run[s] \in Runs /\ worker[run[s]] = WorkerId[s]
       /\ child[run[s]] = "none" /\ status[run[s]] \in {"queued", "assigned"}
  /\ pc[s] = "expiry" => run[s] \in Runs /\ Started(s, run[s])
  /\ \A r \in todo[s] : Started(s, r)

LoopsAgree == \A s \in Schedulers : LoopAgrees(s)

LaunchesDiffer ==
  \A s, q \in Schedulers : pc[s] = "launch" /\ pc[q] = "launch" /\ run[s] = run[q] => s = q

Inv == TypeOK /\ RowsAgree /\ LoopsAgree /\ LaunchesDiffer

\* A worker id stands for one machine: its address is not the loopback's.
OneHostPerId == \A s, q \in Schedulers : WorkerId[s] = WorkerId[q] => Host[s] = Host[q]

\* Then a live process is where the loops that may test its pid are, and its row
\* says nothing else.
InPlace(r) ==
  /\ child[r] \in {"forked", "working", "recorded"} =>
       \A s \in Schedulers : WorkerId[s] = worker[r] => home[r] = Host[s]
  /\ child[r] = "working" => status[r] = "running"
  /\ child[r] = "recorded" => status[r] \in {"completed", "failed"}

InvInPlace == Inv /\ \A r \in Runs : InPlace(r)

----------------------------------------------------------------------------
LEMMA RunsAreNumbers == Runs \subseteq Nat
BY SchedulerAssumption DEF Runs

\* Every variable keeps its type.
LEMMA TypeStep == ASSUME TypeOK, [Next]_vars PROVE TypeOK'
<1> USE RunsAreNumbers
<1> USE DEF TypeOK, Statuses, Final, PCs, rowVars, procVars, loopVars, vars
<1>1. ASSUME NEW s \in Schedulers, Reenqueue(s) PROVE TypeOK'
  BY <1>1 DEF Reenqueue, Goto, Mine
<1>2. ASSUME NEW s \in Schedulers, Scan(s) PROVE TypeOK'
  BY <1>2 DEF Scan, Goto, Mine
<1>3. ASSUME NEW s \in Schedulers, NEW r \in Runs, CheckPid(s, r) PROVE TypeOK'
  BY <1>3 DEF CheckPid, Goto, Write, PidExists
<1>4. ASSUME NEW s \in Schedulers, CountRunning(s) PROVE TypeOK'
  BY <1>4 DEF CountRunning, Goto
<1>5. ASSUME NEW s \in Schedulers, Kill(s) PROVE TypeOK'
  BY <1>5 DEF Kill, Goto, Write, PidExists
<1>6. ASSUME NEW s \in Schedulers, KillRaises(s) PROVE TypeOK'
  BY <1>6 DEF KillRaises, Goto, PidExists
<1>7. ASSUME NEW s \in Schedulers, Checked(s) PROVE TypeOK'
  BY <1>7 DEF Checked, Goto
<1>8. ASSUME NEW s \in Schedulers, Pick(s) PROVE TypeOK'
  BY <1>8 DEF Pick, Goto
<1>9. ASSUME NEW s \in Schedulers, Claim(s) PROVE TypeOK'
  BY <1>9 DEF Claim, Goto, Write, Free
<1>10. ASSUME NEW s \in Schedulers, ClaimLost(s) PROVE TypeOK'
  BY <1>10 DEF ClaimLost, Goto
<1>11. ASSUME NEW s \in Schedulers, SkipUnknown(s) PROVE TypeOK'
  BY <1>11 DEF SkipUnknown, Goto, Write
<1>12. ASSUME NEW s \in Schedulers, Fork(s) PROVE TypeOK'
  BY <1>12 DEF Fork, Goto
<1>13. ASSUME NEW s \in Schedulers, ForkFails(s) PROVE TypeOK'
  BY <1>13 DEF ForkFails, Goto
<1>14. ASSUME NEW s \in Schedulers, NEW q \in Schedulers, ForkedLoops(s, q) PROVE TypeOK'
  BY <1>14 DEF ForkedLoops
<1>15. ASSUME NEW r \in Runs, Begin(r) PROVE TypeOK'
  BY <1>15 DEF Begin, Become, Write
<1>16. ASSUME NEW r \in Runs, Record(r) PROVE TypeOK'
  BY <1>16 DEF Record, Become, Write
<1>17. ASSUME NEW r \in Runs, Exit(r) PROVE TypeOK'
  BY <1>17 DEF Exit, Become, Insert, Write
<1>18. ASSUME NEW r \in Runs, Due(r) PROVE TypeOK'
  BY <1>18 DEF Due
<1>19. ASSUME NEW r \in Runs, Expire(r) PROVE TypeOK'
  BY <1>19 DEF Expire
<1>20. ASSUME NEW r \in Runs, ChildDies(r) PROVE TypeOK'
  BY <1>20 DEF ChildDies
<1>21. ASSUME NEW s \in Schedulers, LoopCrashes(s) PROVE TypeOK'
  BY <1>21 DEF LoopCrashes, Goto
<1>22. ASSUME NEW s \in Schedulers, Start(s) PROVE TypeOK'
  BY <1>22 DEF Start, Goto
<1>23. ASSUME NEW s \in Schedulers, Stop(s) PROVE TypeOK'
  BY <1>23 DEF Stop, Goto
<1>24. ASSUME NEW r \in Runs, NEW n \in Tasks, Enqueue(r, n) PROVE TypeOK'
  BY <1>24 DEF Enqueue, Insert, Write
<1>25. CASE UNCHANGED vars
  BY <1>25
<1> HIDE DEF TypeOK, Statuses, Final, PCs, rowVars, procVars, loopVars, vars
<1> QED BY <1>1, <1>2, <1>3, <1>4, <1>5, <1>6, <1>7, <1>8, <1>9, <1>10, <1>11,
    <1>12, <1>13, <1>14, <1>15, <1>16, <1>17, <1>18, <1>19, <1>20, <1>21,
    <1>22, <1>23, <1>24, <1>25 DEF Next, Loop, Child, Environment

LEMMA WorkersHaveIds == \A s \in Schedulers : WorkerId[s] # None
BY SchedulerAssumption

\* A row and its process go on agreeing.
LEMMA RowsStep ==
  ASSUME Inv, [Next]_vars, NEW x \in Runs
  PROVE  RowAgrees(x)'
<1> USE WorkersHaveIds
<1> USE DEF Inv, RowsAgree, RowAgrees, LoopsAgree, LoopAgrees, Started,
    TypeOK, Statuses, Final, PCs, rowVars, procVars, loopVars,
    vars
<1>1. ASSUME NEW s \in Schedulers, Reenqueue(s) PROVE RowAgrees(x)'
  BY <1>1 DEF Reenqueue, Goto, Mine
<1>2. ASSUME NEW s \in Schedulers, Scan(s) PROVE RowAgrees(x)'
  BY <1>2 DEF Scan, Goto, Mine
<1>3. ASSUME NEW s \in Schedulers, NEW r \in Runs, CheckPid(s, r) PROVE RowAgrees(x)'
  BY <1>3 DEF CheckPid, Goto, Write, PidExists
<1>4. ASSUME NEW s \in Schedulers, CountRunning(s) PROVE RowAgrees(x)'
  BY <1>4 DEF CountRunning, Goto
<1>5. ASSUME NEW s \in Schedulers, Kill(s) PROVE RowAgrees(x)'
  BY <1>5 DEF Kill, Goto, Write, PidExists
<1>6. ASSUME NEW s \in Schedulers, KillRaises(s) PROVE RowAgrees(x)'
  BY <1>6 DEF KillRaises, Goto, PidExists
<1>7. ASSUME NEW s \in Schedulers, Checked(s) PROVE RowAgrees(x)'
  BY <1>7 DEF Checked, Goto
<1>8. ASSUME NEW s \in Schedulers, Pick(s) PROVE RowAgrees(x)'
  BY <1>8 DEF Pick, Goto
<1>9. ASSUME NEW s \in Schedulers, Claim(s) PROVE RowAgrees(x)'
  BY <1>9 DEF Claim, Goto, Write, Free
<1>10. ASSUME NEW s \in Schedulers, ClaimLost(s) PROVE RowAgrees(x)'
  BY <1>10 DEF ClaimLost, Goto
<1>11. ASSUME NEW s \in Schedulers, SkipUnknown(s) PROVE RowAgrees(x)'
  BY <1>11 DEF SkipUnknown, Goto, Write
<1>12. ASSUME NEW s \in Schedulers, Fork(s) PROVE RowAgrees(x)'
  BY <1>12 DEF Fork, Goto
<1>13. ASSUME NEW s \in Schedulers, ForkFails(s) PROVE RowAgrees(x)'
  BY <1>13 DEF ForkFails, Goto
<1>14. ASSUME NEW s \in Schedulers, NEW q \in Schedulers, ForkedLoops(s, q) PROVE RowAgrees(x)'
  BY <1>14 DEF ForkedLoops
<1>15. ASSUME NEW r \in Runs, Begin(r) PROVE RowAgrees(x)'
  BY <1>15 DEF Begin, Become, Write
<1>16. ASSUME NEW r \in Runs, Record(r) PROVE RowAgrees(x)'
  BY <1>16 DEF Record, Become, Write
<1>17. ASSUME NEW r \in Runs, Exit(r) PROVE RowAgrees(x)'
  BY <1>17, RunsAreNumbers DEF Exit, Become, Insert, Write
<1>18. ASSUME NEW r \in Runs, Due(r) PROVE RowAgrees(x)'
  BY <1>18 DEF Due
<1>19. ASSUME NEW r \in Runs, Expire(r) PROVE RowAgrees(x)'
  BY <1>19 DEF Expire
<1>20. ASSUME NEW r \in Runs, ChildDies(r) PROVE RowAgrees(x)'
  BY <1>20 DEF ChildDies
<1>21. ASSUME NEW s \in Schedulers, LoopCrashes(s) PROVE RowAgrees(x)'
  BY <1>21 DEF LoopCrashes, Goto
<1>22. ASSUME NEW s \in Schedulers, Start(s) PROVE RowAgrees(x)'
  BY <1>22 DEF Start, Goto
<1>23. ASSUME NEW s \in Schedulers, Stop(s) PROVE RowAgrees(x)'
  BY <1>23 DEF Stop, Goto
<1>24. ASSUME NEW r \in Runs, NEW n \in Tasks, Enqueue(r, n) PROVE RowAgrees(x)'
  BY <1>24, RunsAreNumbers DEF Enqueue, Insert, Write
<1>25. CASE UNCHANGED vars
  BY <1>25
<1> HIDE DEF Inv, RowsAgree, RowAgrees, LoopsAgree, LoopAgrees, Started,
    TypeOK, Statuses, Final, PCs, rowVars, procVars, loopVars,
    vars
<1> QED BY <1>1, <1>2, <1>3, <1>4, <1>5, <1>6, <1>7, <1>8, <1>9, <1>10, <1>11,
    <1>12, <1>13, <1>14, <1>15, <1>16, <1>17, <1>18, <1>19, <1>20, <1>21,
    <1>22, <1>23, <1>24, <1>25 DEF Next, Loop, Child, Environment

\* What a loop relies on is not undone by the others.
LEMMA LoopsStep ==
  ASSUME Inv, [Next]_vars, NEW p \in Schedulers
  PROVE  LoopAgrees(p)'
<1> USE WorkersHaveIds
<1> USE DEF Inv, RowsAgree, RowAgrees, LoopsAgree, LoopAgrees, Started,
    LaunchesDiffer, TypeOK, Statuses, Final, PCs, rowVars, procVars, loopVars,
    vars
<1>1. ASSUME NEW s \in Schedulers, Reenqueue(s) PROVE LoopAgrees(p)'
  BY <1>1 DEF Reenqueue, Goto, Mine
<1>2. ASSUME NEW s \in Schedulers, Scan(s) PROVE LoopAgrees(p)'
  BY <1>2 DEF Scan, Goto, Mine
<1>3. ASSUME NEW s \in Schedulers, NEW r \in Runs, CheckPid(s, r) PROVE LoopAgrees(p)'
  BY <1>3 DEF CheckPid, Goto, Write, PidExists
<1>4. ASSUME NEW s \in Schedulers, CountRunning(s) PROVE LoopAgrees(p)'
  BY <1>4 DEF CountRunning, Goto
<1>5. ASSUME NEW s \in Schedulers, Kill(s) PROVE LoopAgrees(p)'
  BY <1>5 DEF Kill, Goto, Write, PidExists
<1>6. ASSUME NEW s \in Schedulers, KillRaises(s) PROVE LoopAgrees(p)'
  BY <1>6 DEF KillRaises, Goto, PidExists
<1>7. ASSUME NEW s \in Schedulers, Checked(s) PROVE LoopAgrees(p)'
  BY <1>7 DEF Checked, Goto
<1>8. ASSUME NEW s \in Schedulers, Pick(s) PROVE LoopAgrees(p)'
  BY <1>8 DEF Pick, Goto
<1>9. ASSUME NEW s \in Schedulers, Claim(s) PROVE LoopAgrees(p)'
  BY <1>9 DEF Claim, Goto, Write, Free
<1>10. ASSUME NEW s \in Schedulers, ClaimLost(s) PROVE LoopAgrees(p)'
  BY <1>10 DEF ClaimLost, Goto
<1>11. ASSUME NEW s \in Schedulers, SkipUnknown(s) PROVE LoopAgrees(p)'
  BY <1>11 DEF SkipUnknown, Goto, Write
<1>12. ASSUME NEW s \in Schedulers, Fork(s) PROVE LoopAgrees(p)'
  BY <1>12 DEF Fork, Goto
<1>13. ASSUME NEW s \in Schedulers, ForkFails(s) PROVE LoopAgrees(p)'
  BY <1>13 DEF ForkFails, Goto
<1>14. ASSUME NEW s \in Schedulers, NEW q \in Schedulers, ForkedLoops(s, q) PROVE LoopAgrees(p)'
  BY <1>14 DEF ForkedLoops
<1>15. ASSUME NEW r \in Runs, Begin(r) PROVE LoopAgrees(p)'
  BY <1>15 DEF Begin, Become, Write
<1>16. ASSUME NEW r \in Runs, Record(r) PROVE LoopAgrees(p)'
  BY <1>16 DEF Record, Become, Write
<1>17. ASSUME NEW r \in Runs, Exit(r) PROVE LoopAgrees(p)'
  BY <1>17 DEF Exit, Become, Insert, Write
<1>18. ASSUME NEW r \in Runs, Due(r) PROVE LoopAgrees(p)'
  BY <1>18 DEF Due
<1>19. ASSUME NEW r \in Runs, Expire(r) PROVE LoopAgrees(p)'
  BY <1>19 DEF Expire
<1>20. ASSUME NEW r \in Runs, ChildDies(r) PROVE LoopAgrees(p)'
  BY <1>20 DEF ChildDies
<1>21. ASSUME NEW s \in Schedulers, LoopCrashes(s) PROVE LoopAgrees(p)'
  BY <1>21 DEF LoopCrashes, Goto
<1>22. ASSUME NEW s \in Schedulers, Start(s) PROVE LoopAgrees(p)'
  BY <1>22 DEF Start, Goto
<1>23. ASSUME NEW s \in Schedulers, Stop(s) PROVE LoopAgrees(p)'
  BY <1>23 DEF Stop, Goto
<1>24. ASSUME NEW r \in Runs, NEW n \in Tasks, Enqueue(r, n) PROVE LoopAgrees(p)'
  BY <1>24 DEF Enqueue, Insert, Write
<1>25. CASE UNCHANGED vars
  BY <1>25
<1> HIDE DEF Inv, RowsAgree, RowAgrees, LoopsAgree, LoopAgrees, Started,
    LaunchesDiffer, TypeOK, Statuses, Final, PCs, rowVars, procVars, loopVars,
    vars
<1> QED BY <1>1, <1>2, <1>3, <1>4, <1>5, <1>6, <1>7, <1>8, <1>9, <1>10, <1>11,
    <1>12, <1>13, <1>14, <1>15, <1>16, <1>17, <1>18, <1>19, <1>20, <1>21,
    <1>22, <1>23, <1>24, <1>25 DEF Next, Loop, Child, Environment

\* A claim is never shared.
LEMMA LaunchesStep == ASSUME Inv, [Next]_vars PROVE LaunchesDiffer'
<1> USE WorkersHaveIds
<1> USE DEF Inv, RowsAgree, RowAgrees, LoopsAgree, LoopAgrees, LaunchesDiffer,
    TypeOK, Statuses, Final, PCs, rowVars, procVars, loopVars, vars
<1>1. ASSUME NEW s \in Schedulers, Reenqueue(s) PROVE LaunchesDiffer'
  BY <1>1 DEF Reenqueue, Goto, Mine
<1>2. ASSUME NEW s \in Schedulers, Scan(s) PROVE LaunchesDiffer'
  BY <1>2 DEF Scan, Goto, Mine
<1>3. ASSUME NEW s \in Schedulers, NEW r \in Runs, CheckPid(s, r) PROVE LaunchesDiffer'
  BY <1>3 DEF CheckPid, Goto, Write, PidExists
<1>4. ASSUME NEW s \in Schedulers, CountRunning(s) PROVE LaunchesDiffer'
  BY <1>4 DEF CountRunning, Goto
<1>5. ASSUME NEW s \in Schedulers, Kill(s) PROVE LaunchesDiffer'
  BY <1>5 DEF Kill, Goto, Write, PidExists
<1>6. ASSUME NEW s \in Schedulers, KillRaises(s) PROVE LaunchesDiffer'
  BY <1>6 DEF KillRaises, Goto, PidExists
<1>7. ASSUME NEW s \in Schedulers, Checked(s) PROVE LaunchesDiffer'
  BY <1>7 DEF Checked, Goto
<1>8. ASSUME NEW s \in Schedulers, Pick(s) PROVE LaunchesDiffer'
  BY <1>8 DEF Pick, Goto
<1>9. ASSUME NEW s \in Schedulers, Claim(s) PROVE LaunchesDiffer'
  BY <1>9 DEF Claim, Goto, Write, Free
<1>10. ASSUME NEW s \in Schedulers, ClaimLost(s) PROVE LaunchesDiffer'
  BY <1>10 DEF ClaimLost, Goto
<1>11. ASSUME NEW s \in Schedulers, SkipUnknown(s) PROVE LaunchesDiffer'
  BY <1>11 DEF SkipUnknown, Goto, Write
<1>12. ASSUME NEW s \in Schedulers, Fork(s) PROVE LaunchesDiffer'
  BY <1>12 DEF Fork, Goto
<1>13. ASSUME NEW s \in Schedulers, ForkFails(s) PROVE LaunchesDiffer'
  BY <1>13 DEF ForkFails, Goto
<1>14. ASSUME NEW s \in Schedulers, NEW q \in Schedulers, ForkedLoops(s, q) PROVE LaunchesDiffer'
  BY <1>14 DEF ForkedLoops
<1>15. ASSUME NEW r \in Runs, Begin(r) PROVE LaunchesDiffer'
  BY <1>15 DEF Begin, Become, Write
<1>16. ASSUME NEW r \in Runs, Record(r) PROVE LaunchesDiffer'
  BY <1>16 DEF Record, Become, Write
<1>17. ASSUME NEW r \in Runs, Exit(r) PROVE LaunchesDiffer'
  BY <1>17 DEF Exit, Become, Insert, Write
<1>18. ASSUME NEW r \in Runs, Due(r) PROVE LaunchesDiffer'
  BY <1>18 DEF Due
<1>19. ASSUME NEW r \in Runs, Expire(r) PROVE LaunchesDiffer'
  BY <1>19 DEF Expire
<1>20. ASSUME NEW r \in Runs, ChildDies(r) PROVE LaunchesDiffer'
  BY <1>20 DEF ChildDies
<1>21. ASSUME NEW s \in Schedulers, LoopCrashes(s) PROVE LaunchesDiffer'
  BY <1>21 DEF LoopCrashes, Goto
<1>22. ASSUME NEW s \in Schedulers, Start(s) PROVE LaunchesDiffer'
  BY <1>22 DEF Start, Goto
<1>23. ASSUME NEW s \in Schedulers, Stop(s) PROVE LaunchesDiffer'
  BY <1>23 DEF Stop, Goto
<1>24. ASSUME NEW r \in Runs, NEW n \in Tasks, Enqueue(r, n) PROVE LaunchesDiffer'
  BY <1>24 DEF Enqueue, Insert, Write
<1>25. CASE UNCHANGED vars
  BY <1>25
<1> HIDE DEF Inv, RowsAgree, RowAgrees, LoopsAgree, LoopAgrees, LaunchesDiffer,
    TypeOK, Statuses, Final, PCs, rowVars, procVars, loopVars, vars
<1> QED BY <1>1, <1>2, <1>3, <1>4, <1>5, <1>6, <1>7, <1>8, <1>9, <1>10, <1>11,
    <1>12, <1>13, <1>14, <1>15, <1>16, <1>17, <1>18, <1>19, <1>20, <1>21,
    <1>22, <1>23, <1>24, <1>25 DEF Next, Loop, Child, Environment

----------------------------------------------------------------------------
LEMMA InvStep == Inv /\ [Next]_vars => Inv'
<1> SUFFICES ASSUME Inv, [Next]_vars PROVE Inv'
  OBVIOUS
<1>1. TypeOK'
  BY TypeStep DEF Inv
<1>2. RowsAgree'
  BY RowsStep DEF RowsAgree
<1>3. LoopsAgree'
  BY LoopsStep DEF LoopsAgree
<1>4. LaunchesDiffer'
  BY LaunchesStep
<1> QED BY <1>1, <1>2, <1>3, <1>4 DEF Inv

LEMMA InvInit == Init => Inv
<1> SUFFICES ASSUME Init PROVE Inv
  OBVIOUS
<1>1. TypeOK
  BY RunsAreNumbers DEF Init, TypeOK, Statuses, Final, PCs
<1>2. RowsAgree
  BY DEF Init, RowsAgree, RowAgrees
<1>3. LoopsAgree
  BY DEF Init, LoopsAgree, LoopAgrees
<1>4. LaunchesDiffer
  BY DEF Init, LaunchesDiffer
<1> QED BY <1>1, <1>2, <1>3, <1>4 DEF Inv

THEOREM SchedulerInvariance == Spec => []Inv
<1>1. Init => Inv
  BY InvInit
<1>2. Inv /\ [Next]_vars => Inv'
  BY InvStep
<1> QED BY <1>1, <1>2, PTL DEF Spec

\* The columns keep their types, a status is one of Scheduler.statuses.
THEOREM SchedulerTypes == Spec => []TypeOK
<1>1. Init => TypeOK
  BY InvInit DEF Inv
<1>2. TypeOK /\ [Next]_vars => TypeOK'
  BY TypeStep
<1> QED BY <1>1, <1>2, PTL DEF Spec

\* With one machine per worker id no loop takes a live process for gone.
LEMMA InPlaceStep ==
  ASSUME OneHostPerId, InvInPlace, [Next]_vars, NEW x \in Runs
  PROVE  InPlace(x)'
<1> USE WorkersHaveIds
<1> USE DEF InvInPlace, InPlace, Inv, RowsAgree, RowAgrees, LoopsAgree, LoopAgrees, Started,
    OneHostPerId, TypeOK, Statuses, Final, PCs, rowVars, procVars, loopVars,
    vars
<1>1. ASSUME NEW s \in Schedulers, Reenqueue(s) PROVE InPlace(x)'
  BY <1>1 DEF Reenqueue, Goto, Mine
<1>2. ASSUME NEW s \in Schedulers, Scan(s) PROVE InPlace(x)'
  BY <1>2 DEF Scan, Goto, Mine
<1>3. ASSUME NEW s \in Schedulers, NEW r \in Runs, CheckPid(s, r) PROVE InPlace(x)'
  BY <1>3 DEF CheckPid, Goto, Write, PidExists
<1>4. ASSUME NEW s \in Schedulers, CountRunning(s) PROVE InPlace(x)'
  BY <1>4 DEF CountRunning, Goto
<1>5. ASSUME NEW s \in Schedulers, Kill(s) PROVE InPlace(x)'
  BY <1>5 DEF Kill, Goto, Write, PidExists
<1>6. ASSUME NEW s \in Schedulers, KillRaises(s) PROVE InPlace(x)'
  BY <1>6 DEF KillRaises, Goto, PidExists
<1>7. ASSUME NEW s \in Schedulers, Checked(s) PROVE InPlace(x)'
  BY <1>7 DEF Checked, Goto
<1>8. ASSUME NEW s \in Schedulers, Pick(s) PROVE InPlace(x)'
  BY <1>8 DEF Pick, Goto
<1>9. ASSUME NEW s \in Schedulers, Claim(s) PROVE InPlace(x)'
  BY <1>9 DEF Claim, Goto, Write, Free
<1>10. ASSUME NEW s \in Schedulers, ClaimLost(s) PROVE InPlace(x)'
  BY <1>10 DEF ClaimLost, Goto
<1>11. ASSUME NEW s \in Schedulers, SkipUnknown(s) PROVE InPlace(x)'
  BY <1>11 DEF SkipUnknown, Goto, Write
<1>12. ASSUME NEW s \in Schedulers, Fork(s) PROVE InPlace(x)'
  BY <1>12 DEF Fork, Goto
<1>13. ASSUME NEW s \in Schedulers, ForkFails(s) PROVE InPlace(x)'
  BY <1>13 DEF ForkFails, Goto
<1>14. ASSUME NEW s \in Schedulers, NEW q \in Schedulers, ForkedLoops(s, q) PROVE InPlace(x)'
  BY <1>14 DEF ForkedLoops
<1>15. ASSUME NEW r \in Runs, Begin(r) PROVE InPlace(x)'
  BY <1>15 DEF Begin, Become, Write
<1>16. ASSUME NEW r \in Runs, Record(r) PROVE InPlace(x)'
  BY <1>16 DEF Record, Become, Write
<1>17. ASSUME NEW r \in Runs, Exit(r) PROVE InPlace(x)'
  BY <1>17, RunsAreNumbers DEF Exit, Become, Insert, Write
<1>18. ASSUME NEW r \in Runs, Due(r) PROVE InPlace(x)'
  BY <1>18 DEF Due
<1>19. ASSUME NEW r \in Runs, Expire(r) PROVE InPlace(x)'
  BY <1>19 DEF Expire
<1>20. ASSUME NEW r \in Runs, ChildDies(r) PROVE InPlace(x)'
  BY <1>20 DEF ChildDies
<1>21. ASSUME NEW s \in Schedulers, LoopCrashes(s) PROVE InPlace(x)'
  BY <1>21 DEF LoopCrashes, Goto
<1>22. ASSUME NEW s \in Schedulers, Start(s) PROVE InPlace(x)'
  BY <1>22 DEF Start, Goto
<1>23. ASSUME NEW s \in Schedulers, Stop(s) PROVE InPlace(x)'
  BY <1>23 DEF Stop, Goto
<1>24. ASSUME NEW r \in Runs, NEW n \in Tasks, Enqueue(r, n) PROVE InPlace(x)'
  BY <1>24, RunsAreNumbers DEF Enqueue, Insert, Write
<1>25. CASE UNCHANGED vars
  BY <1>25
<1> HIDE DEF InvInPlace, InPlace, Inv, RowsAgree, RowAgrees, LoopsAgree, LoopAgrees, Started,
    OneHostPerId, TypeOK, Statuses, Final, PCs, rowVars, procVars, loopVars,
    vars
<1> QED BY <1>1, <1>2, <1>3, <1>4, <1>5, <1>6, <1>7, <1>8, <1>9, <1>10, <1>11,
    <1>12, <1>13, <1>14, <1>15, <1>16, <1>17, <1>18, <1>19, <1>20, <1>21,
    <1>22, <1>23, <1>24, <1>25 DEF Next, Loop, Child, Environment

\* With one machine per worker id, a run said to be dead or timed out is not
\* being executed any more.
THEOREM DeadRunsAreGone == ASSUME OneHostPerId PROVE Spec => []DeadIsGone
<1>1. Init => InvInPlace
  BY InvInit DEF Init, InvInPlace, InPlace
<1>2. InvInPlace /\ [Next]_vars => InvInPlace'
  BY InvStep, InPlaceStep DEF InvInPlace
<1>3. InvInPlace => DeadIsGone
  BY DEF InvInPlace, InPlace, Inv, TypeOK, RowsAgree, RowAgrees, DeadIsGone
<1> QED BY <1>1, <1>2, <1>3, PTL DEF Spec

----------------------------------------------------------------------------
\* No UPDATE of a loop or of a child brings a finished run back.
LEMMA FinalStep ==
  ASSUME Inv, [Next]_vars, NEW x \in Runs, status[x] \in Final
  PROVE  status'[x] \in Final
<1> USE RunsAreNumbers
<1> USE DEF Inv, RowsAgree, RowAgrees, LoopsAgree, LoopAgrees, Started, TypeOK,
    Statuses, Final, PCs, rowVars, procVars, loopVars, vars
<1>1. ASSUME NEW s \in Schedulers, Reenqueue(s) PROVE status'[x] \in Final
  BY <1>1 DEF Reenqueue, Goto, Mine
<1>2. ASSUME NEW s \in Schedulers, Scan(s) PROVE status'[x] \in Final
  BY <1>2 DEF Scan, Goto, Mine
<1>3. ASSUME NEW s \in Schedulers, NEW r \in Runs, CheckPid(s, r) PROVE status'[x] \in Final
  BY <1>3 DEF CheckPid, Goto, Write, PidExists
<1>4. ASSUME NEW s \in Schedulers, CountRunning(s) PROVE status'[x] \in Final
  BY <1>4 DEF CountRunning, Goto
<1>5. ASSUME NEW s \in Schedulers, Kill(s) PROVE status'[x] \in Final
  BY <1>5 DEF Kill, Goto, Write, PidExists
<1>6. ASSUME NEW s \in Schedulers, KillRaises(s) PROVE status'[x] \in Final
  BY <1>6 DEF KillRaises, Goto, PidExists
<1>7. ASSUME NEW s \in Schedulers, Checked(s) PROVE status'[x] \in Final
  BY <1>7 DEF Checked, Goto
<1>8. ASSUME NEW s \in Schedulers, Pick(s) PROVE status'[x] \in Final
  BY <1>8 DEF Pick, Goto
<1>9. ASSUME NEW s \in Schedulers, Claim(s) PROVE status'[x] \in Final
  BY <1>9 DEF Claim, Goto, Write, Free
<1>10. ASSUME NEW s \in Schedulers, ClaimLost(s) PROVE status'[x] \in Final
  BY <1>10 DEF ClaimLost, Goto
<1>11. ASSUME NEW s \in Schedulers, SkipUnknown(s) PROVE status'[x] \in Final
  BY <1>11 DEF SkipUnknown, Goto, Write
<1>12. ASSUME NEW s \in Schedulers, Fork(s) PROVE status'[x] \in Final
  BY <1>12 DEF Fork, Goto
<1>13. ASSUME NEW s \in Schedulers, ForkFails(s) PROVE status'[x] \in Final
  BY <1>13 DEF ForkFails, Goto
<1>14. ASSUME NEW s \in Schedulers, NEW q \in Schedulers, ForkedLoops(s, q) PROVE status'[x] \in Final
  BY <1>14 DEF ForkedLoops
<1>15. ASSUME NEW r \in Runs, Begin(r) PROVE status'[x] \in Final
  BY <1>15 DEF Begin, Become, Write
<1>16. ASSUME NEW r \in Runs, Record(r) PROVE status'[x] \in Final
  BY <1>16 DEF Record, Become, Write
<1>17. ASSUME NEW r \in Runs, Exit(r) PROVE status'[x] \in Final
  BY <1>17 DEF Exit, Become, Insert, Write
<1>18. ASSUME NEW r \in Runs, Due(r) PROVE status'[x] \in Final
  BY <1>18 DEF Due
<1>19. ASSUME NEW r \in Runs, Expire(r) PROVE status'[x] \in Final
  BY <1>19 DEF Expire
<1>20. ASSUME NEW r \in Runs, ChildDies(r) PROVE status'[x] \in Final
  BY <1>20 DEF ChildDies
<1>21. ASSUME NEW s \in Schedulers, LoopCrashes(s) PROVE status'[x] \in Final
  BY <1>21 DEF LoopCrashes, Goto
<1>22. ASSUME NEW s \in Schedulers, Start(s) PROVE status'[x] \in Final
  BY <1>22 DEF Start, Goto
<1>23. ASSUME NEW s \in Schedulers, Stop(s) PROVE status'[x] \in Final
  BY <1>23 DEF Stop, Goto
<1>24. ASSUME NEW r \in Runs, NEW n \in Tasks, Enqueue(r, n) PROVE status'[x] \in Final
  BY <1>24 DEF Enqueue, Insert, Write
<1>25. CASE UNCHANGED vars
  BY <1>25
<1> HIDE DEF Inv, RowsAgree, RowAgrees, LoopsAgree, LoopAgrees, Started,
    TypeOK, Statuses, Final, PCs, rowVars, procVars, loopVars, vars
<1> QED BY <1>1, <1>2, <1>3, <1>4, <1>5, <1>6, <1>7, <1>8, <1>9, <1>10, <1>11,
    <1>12, <1>13, <1>14, <1>15, <1>16, <1>17, <1>18, <1>19, <1>20, <1>21,
    <1>22, <1>23, <1>24, <1>25 DEF Next, Loop, Child, Environment

THEOREM FinishedRunsStayFinished == Spec => NoResurrection
<1>1. Inv /\ [Next]_vars => [\A r \in Runs : status[r] \in Final => status'[r] \in Final]_vars
  BY FinalStep
<1> QED BY <1>1, SchedulerInvariance, PTL DEF Spec, NoResurrection

----------------------------------------------------------------------------
\* Each step moves one run one phase on, or none.
phaseBar == [r \in Runs |-> Phase(r)]

LEMMA OneMoves ==
  ASSUME NEW r \in Runs, \A q \in Runs \ {r} : Phase(q)' = Phase(q),
         \/ Phase(r)' = Phase(r)
         \/ Phase(r) = "absent" /\ Phase(r)' = "waiting"
         \/ Phase(r) = "waiting" /\ Phase(r)' = "claimed"
         \/ Phase(r) = "claimed" /\ Phase(r)' = "executing"
         \/ Phase(r) \in {"claimed", "executing"} /\ Phase(r)' = "ended"
  PROVE  [Lifecycle!Next]_phaseBar
<1> DEFINE m == phaseBar
<1>1. m' = [m EXCEPT ![r] = Phase(r)']
  BY DEF phaseBar
<1>2. m[r] = Phase(r)
  BY DEF phaseBar
<1>3. CASE Phase(r)' = Phase(r)
  BY <1>3 DEF phaseBar
<1>4. CASE Phase(r)' # Phase(r)
  <2>1. \/ Lifecycle!Enqueue(r) \/ Lifecycle!Claim(r) \/ Lifecycle!Execute(r) \/ Lifecycle!End(r)
    BY <1>1, <1>2, <1>4
    DEF phaseBar, Lifecycle!Move, Lifecycle!Enqueue, Lifecycle!Claim, Lifecycle!Execute, Lifecycle!End
  <2> QED BY <2>1 DEF Lifecycle!Next
<1> QED BY <1>3, <1>4

LEMMA PhaseStep == Inv /\ [Next]_vars => [Lifecycle!Next]_phaseBar
<1> SUFFICES ASSUME Inv, [Next]_vars PROVE [Lifecycle!Next]_phaseBar
  OBVIOUS
<1> USE WorkersHaveIds, RunsAreNumbers
<1>1. ASSUME NEW s \in Schedulers, Reenqueue(s) PROVE [Lifecycle!Next]_phaseBar
  BY <1>1 DEF Reenqueue, Goto, Mine, phaseBar, Inv, RowsAgree, RowAgrees,
      LoopsAgree, LoopAgrees, Started, Phase, TypeOK, Statuses, Final, PCs,
      rowVars, procVars, loopVars, vars
<1>2. ASSUME NEW s \in Schedulers, Scan(s) PROVE [Lifecycle!Next]_phaseBar
  BY <1>2 DEF Scan, Goto, Mine, phaseBar, Inv, RowsAgree, RowAgrees,
      LoopsAgree, LoopAgrees, Started, Phase, TypeOK, Statuses, Final, PCs,
      rowVars, procVars, loopVars, vars
<1>3. ASSUME NEW s \in Schedulers, NEW r \in Runs, CheckPid(s, r) PROVE [Lifecycle!Next]_phaseBar
  BY <1>3 DEF CheckPid, Goto, Write, PidExists, phaseBar, Inv, RowsAgree,
      RowAgrees, LoopsAgree, LoopAgrees, Started, Phase, TypeOK, Statuses,
      Final, PCs, rowVars, procVars, loopVars, vars
<1>4. ASSUME NEW s \in Schedulers, CountRunning(s) PROVE [Lifecycle!Next]_phaseBar
  BY <1>4 DEF CountRunning, Goto, phaseBar, Inv, RowsAgree, RowAgrees,
      LoopsAgree, LoopAgrees, Started, Phase, TypeOK, Statuses, Final, PCs,
      rowVars, procVars, loopVars, vars
<1>5. ASSUME NEW s \in Schedulers, Kill(s) PROVE [Lifecycle!Next]_phaseBar
  <2>0. PICK r \in Runs : r = run[s]
    BY <1>5 DEF Kill, Goto, Write, PidExists, Inv, RowsAgree, RowAgrees,
        LoopsAgree, LoopAgrees, Started, Phase, TypeOK, Statuses, Final, PCs,
        rowVars, procVars, loopVars, vars
  <2>1. Phase(r) \in {"executing", "ended"} /\ Phase(r)' = "ended"
    BY <1>5, <2>0 DEF Kill, Goto, Write, PidExists, Inv, RowsAgree, RowAgrees,
        LoopsAgree, LoopAgrees, Started, Phase, TypeOK, Statuses, Final, PCs,
        rowVars, procVars, loopVars, vars
  <2>2. \A x \in Runs \ {r} : Phase(x)' = Phase(x)
    BY <1>5, <2>0 DEF Kill, Goto, Write, PidExists, Inv, RowsAgree, RowAgrees,
        LoopsAgree, LoopAgrees, Started, Phase, TypeOK, Statuses, Final, PCs,
        rowVars, procVars, loopVars, vars
  <2> QED BY <2>0, <2>1, <2>2, OneMoves
<1>6. ASSUME NEW s \in Schedulers, KillRaises(s) PROVE [Lifecycle!Next]_phaseBar
  BY <1>6 DEF KillRaises, Goto, PidExists, phaseBar, Inv, RowsAgree, RowAgrees,
      LoopsAgree, LoopAgrees, Started, Phase, TypeOK, Statuses, Final, PCs,
      rowVars, procVars, loopVars, vars
<1>7. ASSUME NEW s \in Schedulers, Checked(s) PROVE [Lifecycle!Next]_phaseBar
  BY <1>7 DEF Checked, Goto, phaseBar, Inv, RowsAgree, RowAgrees, LoopsAgree,
      LoopAgrees, Started, Phase, TypeOK, Statuses, Final, PCs, rowVars,
      procVars, loopVars, vars
<1>8. ASSUME NEW s \in Schedulers, Pick(s) PROVE [Lifecycle!Next]_phaseBar
  BY <1>8 DEF Pick, Goto, phaseBar, Inv, RowsAgree, RowAgrees, LoopsAgree,
      LoopAgrees, Started, Phase, TypeOK, Statuses, Final, PCs, rowVars,
      procVars, loopVars, vars
<1>9. ASSUME NEW s \in Schedulers, Claim(s) PROVE [Lifecycle!Next]_phaseBar
  <2>0. PICK r \in Runs : r = run[s]
    BY <1>9 DEF Claim, Goto, Write, Free, Inv, RowsAgree, RowAgrees,
        LoopsAgree, LoopAgrees, Started, Phase, TypeOK, Statuses, Final, PCs,
        rowVars, procVars, loopVars, vars
  <2>1. Phase(r) = "waiting" /\ Phase(r)' = "claimed"
    BY <1>9, <2>0 DEF Claim, Goto, Write, Free, Inv, RowsAgree, RowAgrees,
        LoopsAgree, LoopAgrees, Started, Phase, TypeOK, Statuses, Final, PCs,
        rowVars, procVars, loopVars, vars
  <2>2. \A x \in Runs \ {r} : Phase(x)' = Phase(x)
    BY <1>9, <2>0 DEF Claim, Goto, Write, Free, Inv, RowsAgree, RowAgrees,
        LoopsAgree, LoopAgrees, Started, Phase, TypeOK, Statuses, Final, PCs,
        rowVars, procVars, loopVars, vars
  <2> QED BY <2>0, <2>1, <2>2, OneMoves
<1>10. ASSUME NEW s \in Schedulers, ClaimLost(s) PROVE [Lifecycle!Next]_phaseBar
  BY <1>10 DEF ClaimLost, Goto, phaseBar, Inv, RowsAgree, RowAgrees,
      LoopsAgree, LoopAgrees, Started, Phase, TypeOK, Statuses, Final, PCs,
      rowVars, procVars, loopVars, vars
<1>11. ASSUME NEW s \in Schedulers, SkipUnknown(s) PROVE [Lifecycle!Next]_phaseBar
  <2>0. PICK r \in Runs : r = run[s]
    BY <1>11 DEF SkipUnknown, Goto, Write, Inv, RowsAgree, RowAgrees,
        LoopsAgree, LoopAgrees, Started, Phase, TypeOK, Statuses, Final, PCs,
        rowVars, procVars, loopVars, vars
  <2>1. Phase(r) = "claimed" /\ Phase(r)' = "ended"
    BY <1>11, <2>0 DEF SkipUnknown, Goto, Write, Inv, RowsAgree, RowAgrees,
        LoopsAgree, LoopAgrees, Started, Phase, TypeOK, Statuses, Final, PCs,
        rowVars, procVars, loopVars, vars
  <2>2. \A x \in Runs \ {r} : Phase(x)' = Phase(x)
    BY <1>11, <2>0 DEF SkipUnknown, Goto, Write, Inv, RowsAgree, RowAgrees,
        LoopsAgree, LoopAgrees, Started, Phase, TypeOK, Statuses, Final, PCs,
        rowVars, procVars, loopVars, vars
  <2> QED BY <2>0, <2>1, <2>2, OneMoves
<1>12. ASSUME NEW s \in Schedulers, Fork(s) PROVE [Lifecycle!Next]_phaseBar
  BY <1>12 DEF Fork, Goto, phaseBar, Inv, RowsAgree, RowAgrees, LoopsAgree,
      LoopAgrees, Started, Phase, TypeOK, Statuses, Final, PCs, rowVars,
      procVars, loopVars, vars
<1>13. ASSUME NEW s \in Schedulers, ForkFails(s) PROVE [Lifecycle!Next]_phaseBar
  BY <1>13 DEF ForkFails, Goto, phaseBar, Inv, RowsAgree, RowAgrees,
      LoopsAgree, LoopAgrees, Started, Phase, TypeOK, Statuses, Final, PCs,
      rowVars, procVars, loopVars, vars
<1>14. ASSUME NEW s \in Schedulers, NEW q \in Schedulers, ForkedLoops(s, q) PROVE [Lifecycle!Next]_phaseBar
  BY <1>14 DEF ForkedLoops, phaseBar, Inv, RowsAgree, RowAgrees, LoopsAgree,
      LoopAgrees, Started, Phase, TypeOK, Statuses, Final, PCs, rowVars,
      procVars, loopVars, vars
<1>15. ASSUME NEW r \in Runs, Begin(r) PROVE [Lifecycle!Next]_phaseBar
  <2>0. r \in Runs
    BY <1>15 DEF Begin, Become, Write, Inv, RowsAgree, RowAgrees, LoopsAgree,
        LoopAgrees, Started, Phase, TypeOK, Statuses, Final, PCs, rowVars,
        procVars, loopVars, vars
  <2>1. Phase(r) = "claimed" /\ Phase(r)' = "executing"
    BY <1>15, <2>0 DEF Begin, Become, Write, Inv, RowsAgree, RowAgrees,
        LoopsAgree, LoopAgrees, Started, Phase, TypeOK, Statuses, Final, PCs,
        rowVars, procVars, loopVars, vars
  <2>2. \A x \in Runs \ {r} : Phase(x)' = Phase(x)
    BY <1>15, <2>0 DEF Begin, Become, Write, Inv, RowsAgree, RowAgrees,
        LoopsAgree, LoopAgrees, Started, Phase, TypeOK, Statuses, Final, PCs,
        rowVars, procVars, loopVars, vars
  <2> QED BY <2>0, <2>1, <2>2, OneMoves
<1>16. ASSUME NEW r \in Runs, Record(r) PROVE [Lifecycle!Next]_phaseBar
  <2>0. r \in Runs
    BY <1>16 DEF Record, Become, Write, Inv, RowsAgree, RowAgrees, LoopsAgree,
        LoopAgrees, Started, Phase, TypeOK, Statuses, Final, PCs, rowVars,
        procVars, loopVars, vars
  <2>1. Phase(r) = "executing" /\ Phase(r)' = "ended"
    BY <1>16, <2>0 DEF Record, Become, Write, Inv, RowsAgree, RowAgrees,
        LoopsAgree, LoopAgrees, Started, Phase, TypeOK, Statuses, Final, PCs,
        rowVars, procVars, loopVars, vars
  <2>2. \A x \in Runs \ {r} : Phase(x)' = Phase(x)
    BY <1>16, <2>0 DEF Record, Become, Write, Inv, RowsAgree, RowAgrees,
        LoopsAgree, LoopAgrees, Started, Phase, TypeOK, Statuses, Final, PCs,
        rowVars, procVars, loopVars, vars
  <2> QED BY <2>0, <2>1, <2>2, OneMoves
<1>17. ASSUME NEW r \in Runs, Exit(r) PROVE [Lifecycle!Next]_phaseBar
  <2>1. Phase(r)' = Phase(r)
    BY <1>17 DEF Exit, Become, Insert, Write, Inv, RowsAgree, RowAgrees,
        LoopsAgree, LoopAgrees, Started, Phase, TypeOK, Statuses, Final, PCs,
        rowVars, procVars, loopVars, vars
  <2>2. CASE UNCHANGED <<status, task, due>>
    <3>1. \A x \in Runs \ {r} : Phase(x)' = Phase(x)
      BY <1>17, <2>2 DEF Exit, Become, Insert, Write, Inv, RowsAgree,
          RowAgrees, LoopsAgree, LoopAgrees, Started, Phase, TypeOK, Statuses,
          Final, PCs, rowVars, procVars, loopVars, vars
    <3> QED BY <2>1, <3>1, OneMoves
  <2>3. ASSUME NEW q \in Runs, Insert(q, task[r], FALSE) PROVE [Lifecycle!Next]_phaseBar
    <3>1. Phase(q) = "absent" /\ Phase(q)' = "waiting"
      BY <1>17, <2>3 DEF Exit, Become, Insert, Write, Inv, RowsAgree,
          RowAgrees, LoopsAgree, LoopAgrees, Started, Phase, TypeOK, Statuses,
          Final, PCs, rowVars, procVars, loopVars, vars
    <3>2. \A x \in Runs \ {q} : Phase(x)' = Phase(x)
      BY <1>17, <2>1, <2>3 DEF Exit, Become, Insert, Write, Inv, RowsAgree,
          RowAgrees, LoopsAgree, LoopAgrees, Started, Phase, TypeOK, Statuses,
          Final, PCs, rowVars, procVars, loopVars, vars
    <3> QED BY <3>1, <3>2, OneMoves
  <2> QED BY <1>17, <2>2, <2>3 DEF Exit
<1>18. ASSUME NEW r \in Runs, Due(r) PROVE [Lifecycle!Next]_phaseBar
  BY <1>18 DEF Due, phaseBar, Inv, RowsAgree, RowAgrees, LoopsAgree,
      LoopAgrees, Started, Phase, TypeOK, Statuses, Final, PCs, rowVars,
      procVars, loopVars, vars
<1>19. ASSUME NEW r \in Runs, Expire(r) PROVE [Lifecycle!Next]_phaseBar
  BY <1>19 DEF Expire, phaseBar, Inv, RowsAgree, RowAgrees, LoopsAgree,
      LoopAgrees, Started, Phase, TypeOK, Statuses, Final, PCs, rowVars,
      procVars, loopVars, vars
<1>20. ASSUME NEW r \in Runs, ChildDies(r) PROVE [Lifecycle!Next]_phaseBar
  <2>0. r \in Runs
    BY <1>20 DEF ChildDies, Inv, RowsAgree, RowAgrees, LoopsAgree, LoopAgrees,
        Started, Phase, TypeOK, Statuses, Final, PCs, rowVars, procVars,
        loopVars, vars
  <2>1. Phase(r)' = Phase(r) \/ (Phase(r) \in {"claimed", "executing"} /\ Phase(r)' = "ended")
    BY <1>20, <2>0 DEF ChildDies, Inv, RowsAgree, RowAgrees, LoopsAgree,
        LoopAgrees, Started, Phase, TypeOK, Statuses, Final, PCs, rowVars,
        procVars, loopVars, vars
  <2>2. \A x \in Runs \ {r} : Phase(x)' = Phase(x)
    BY <1>20, <2>0 DEF ChildDies, Inv, RowsAgree, RowAgrees, LoopsAgree,
        LoopAgrees, Started, Phase, TypeOK, Statuses, Final, PCs, rowVars,
        procVars, loopVars, vars
  <2> QED BY <2>0, <2>1, <2>2, OneMoves
<1>21. ASSUME NEW s \in Schedulers, LoopCrashes(s) PROVE [Lifecycle!Next]_phaseBar
  BY <1>21 DEF LoopCrashes, Goto, phaseBar, Inv, RowsAgree, RowAgrees,
      LoopsAgree, LoopAgrees, Started, Phase, TypeOK, Statuses, Final, PCs,
      rowVars, procVars, loopVars, vars
<1>22. ASSUME NEW s \in Schedulers, Start(s) PROVE [Lifecycle!Next]_phaseBar
  BY <1>22 DEF Start, Goto, phaseBar, Inv, RowsAgree, RowAgrees, LoopsAgree,
      LoopAgrees, Started, Phase, TypeOK, Statuses, Final, PCs, rowVars,
      procVars, loopVars, vars
<1>23. ASSUME NEW s \in Schedulers, Stop(s) PROVE [Lifecycle!Next]_phaseBar
  BY <1>23 DEF Stop, Goto, phaseBar, Inv, RowsAgree, RowAgrees, LoopsAgree,
      LoopAgrees, Started, Phase, TypeOK, Statuses, Final, PCs, rowVars,
      procVars, loopVars, vars
<1>24. ASSUME NEW r \in Runs, NEW n \in Tasks, Enqueue(r, n) PROVE [Lifecycle!Next]_phaseBar
  <2>0. r \in Runs
    BY <1>24 DEF Enqueue, Insert, Write, Inv, RowsAgree, RowAgrees, LoopsAgree,
        LoopAgrees, Started, Phase, TypeOK, Statuses, Final, PCs, rowVars,
        procVars, loopVars, vars
  <2>1. Phase(r) = "absent" /\ Phase(r)' = "waiting"
    BY <1>24, <2>0 DEF Enqueue, Insert, Write, Inv, RowsAgree, RowAgrees,
        LoopsAgree, LoopAgrees, Started, Phase, TypeOK, Statuses, Final, PCs,
        rowVars, procVars, loopVars, vars
  <2>2. \A x \in Runs \ {r} : Phase(x)' = Phase(x)
    BY <1>24, <2>0 DEF Enqueue, Insert, Write, Inv, RowsAgree, RowAgrees,
        LoopsAgree, LoopAgrees, Started, Phase, TypeOK, Statuses, Final, PCs,
        rowVars, procVars, loopVars, vars
  <2> QED BY <2>0, <2>1, <2>2, OneMoves
<1>25. CASE UNCHANGED vars
  BY <1>25 DEF vars, phaseBar, Inv, RowsAgree, RowAgrees, LoopsAgree,
      LoopAgrees, Started, Phase, TypeOK, Statuses, Final, PCs, rowVars,
      procVars, loopVars, vars
<1> QED BY <1>1, <1>2, <1>3, <1>4, <1>5, <1>6, <1>7, <1>8, <1>9, <1>10, <1>11,
    <1>12, <1>13, <1>14, <1>15, <1>16, <1>17, <1>18, <1>19, <1>20, <1>21,
    <1>22, <1>23, <1>24, <1>25 DEF Next, Loop, Child, Environment

\* Whatever crashes and whoever shares the table, machines with the same worker
\* id included, a run is claimed once and its task is started at most once.
THEOREM RunsRunOnce == Spec => RunOnce
<1>1. Init => Lifecycle!Init
  BY DEF Init, Lifecycle!Init, Phase
<1>2. Inv /\ [Next]_vars => [Lifecycle!Next]_phaseBar
  BY PhaseStep
<1> QED BY <1>1, <1>2, SchedulerInvariance, PTL DEF Spec, RunOnce,
    Lifecycle!Spec, phaseBar
=============================================================================
