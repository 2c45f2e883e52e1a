----------------------------- MODULE Scheduler -----------------------------
(***************************************************************************)
(* pydal/tools/scheduler.py: scheduler loops in several processes share    *)
(* one table task_run; each run is executed in a forked daemon process.    *)
(*                                                                         *)
(* One action per statement (with its commit) that reads or writes the     *)
(* table, the process table or forks: that is where loops, children and    *)
(* crashes interleave.  A child process is identified with the run it      *)
(* executes (its pid is stored in the row).  Time is abstract: a run       *)
(* becomes due, and a started run may exceed its timeout.                  *)
(***************************************************************************)
EXTENDS Naturals, FiniteSets

CONSTANTS
  Schedulers,     \* scheduler loops: one per process that may run one
  Unstarted,      \* those no application ever starts
  WorkerId,       \* WorkerId[s]: gethostbyname(gethostname()) of its machine
  Host,           \* Host[s]: the machine whose process table it sees
  MaxRuns,        \* bound: rows ever inserted; ids are given in order
  Tasks,          \* names some process has registered
  Registered,     \* Registered[s]: names registered in the process of s
  Periodic,       \* names enqueued with a period
  Priority,       \* Priority[n]: the lower the sooner
  MaxConcurrent,  \* max_concurrent_runs
  Faults,         \* what may go wrong, see Kinds
  None            \* NULL

Runs == 1 .. MaxRuns
Kinds == {"crash",      \* processes, children included, die at any time
          "expire",     \* runs exceed their timeout
          "forkfail",   \* make_daemon raises
          "dberror",    \* the claiming UPDATE raises
          "stop"}       \* the application stops and starts the loops

ASSUME SchedulerAssumption ==
  /\ \A s \in Schedulers : WorkerId[s] # None
  /\ Unstarted \subseteq Schedulers
  /\ MaxRuns \in Nat /\ MaxConcurrent \in Nat
  /\ Periodic \subseteq Tasks /\ \A n \in Tasks : Priority[n] \in Nat
  /\ Faults \subseteq Kinds

VARIABLES
  status, worker,  \* of each row; "absent" before its insert
  task,            \* task[r]: its name column
  due,             \* due[r]: scheduled_for <= now()
  child,           \* child[r]: "none", "forked", "working" (pid committed),
                   \* "recorded" (outcome committed), "gone"
  home,            \* home[r]: machine its child lives on
  expired,         \* expired[r]: started_on + timeout < now()
  pc,              \* pc[s]: where loop s is
  todo,            \* todo[s]: rows of its select not yet looked at
  num,             \* num[s]: num_running
  run              \* run[s]: the row in hand

rowVars  == <<status, worker, task, due>>
procVars == <<child, home, expired>>
loopVars == <<todo, num, run>>
vars == <<rowVars, procVars, pc, loopVars>>

Final    == {"completed", "failed", "timeout", "dead", "unknown"}
Statuses == {"absent", "queued", "assigned", "running"} \union Final
PCs == {"off", "top", "scan", "check", "expiry", "pick", "claim", "launch", "died"}

Goto(s, l) == pc' = [pc EXCEPT ![s] = l]
Write(r, st) == status' = [status EXCEPT ![r] = st]
Mine(s) == {r \in Runs : worker[r] = WorkerId[s]}

Init ==
  /\ status = [r \in Runs |-> "absent"] /\ worker = [r \in Runs |-> None]
  /\ task = [r \in Runs |-> None] /\ due = [r \in Runs |-> FALSE]
  /\ child = [r \in Runs |-> "none"] /\ expired = [r \in Runs |-> FALSE]
  /\ home = [r \in Runs |-> None]
  /\ pc = [s \in Schedulers |-> IF s \in Unstarted THEN "off" ELSE "top"]
  /\ todo = [s \in Schedulers |-> {}] /\ num = [s \in Schedulers |-> 0]
  /\ run = [s \in Schedulers |-> 1]

----------------------------------------------------------------------------
(* enqueue_run                                                             *)

\* The row gets the next id.
Insert(r, n, isDue) ==
  /\ \A q \in Runs : q < r <=> status[q] # "absent"
  /\ Write(r, "queued")
  /\ task' = [task EXCEPT ![r] = n]
  /\ due'  = [due EXCEPT ![r] = isDue]

Enqueue(r, n) ==
  /\ \E isDue \in BOOLEAN : Insert(r, n, isDue)
  /\ UNCHANGED <<worker, procVars, pc, loopVars>>

----------------------------------------------------------------------------
(* step                                                                    *)

\* Mutant: every unfinished or finished run of the worker is re-enqueued.
ReenqueueAll(s) ==
  /\ pc[s] = "top"
  /\ status' = [r \in Runs |-> IF r \in Mine(s) THEN "queued" ELSE status[r]]
  /\ Goto(s, "scan")
  /\ UNCHANGED <<worker, task, due, procVars, loopVars>>

\* Assigned runs become queued again; their worker column is left as it is.
Reenqueue(s) ==
  /\ pc[s] = "top"
  /\ status' = [r \in Runs |-> IF r \in Mine(s) /\ status[r] = "assigned"
                               THEN "queued" ELSE status[r]]
  /\ Goto(s, "scan")
  /\ UNCHANGED <<worker, task, due, procVars, loopVars>>

\* The select: from here on the loop works on this snapshot.
Scan(s) ==
  /\ pc[s] = "scan"
  /\ todo' = [todo EXCEPT ![s] = {r \in Mine(s) : status[r] = "running"}]
  /\ num' = [num EXCEPT ![s] = 0]
  /\ Goto(s, "check")
  /\ UNCHANGED <<rowVars, procVars, run>>

PidExists(s, r) == child[r] \in {"working", "recorded"} /\ home[r] = Host[s]

CheckPid(s, r) ==
  /\ pc[s] = "check" /\ r \in todo[s]
  /\ IF PidExists(s, r) THEN UNCHANGED status ELSE Write(r, "dead")
  /\ todo' = [todo EXCEPT ![s] = @ \ {r}]
  /\ run' = [run EXCEPT ![s] = r]
  /\ Goto(s, "expiry")
  /\ UNCHANGED <<worker, task, due, procVars, num>>

\* Within its time; a run found dead just now is counted too.
CountRunning(s) ==
  /\ pc[s] = "expiry" /\ ~expired[run[s]]
  /\ num' = [num EXCEPT ![s] = @ + 1]
  /\ Goto(s, "check")
  /\ UNCHANGED <<rowVars, procVars, todo, run>>

\* Mutant: only the row says that it was killed.
KillForgotten(s) ==
  /\ pc[s] = "expiry" /\ expired[run[s]] /\ PidExists(s, run[s])
  /\ Write(run[s], "timeout")
  /\ Goto(s, "check")
  /\ UNCHANGED <<worker, task, due, procVars, loopVars>>

\* Mutant: a status the table does not know.
KillMisnamed(s) ==
  /\ pc[s] = "expiry" /\ expired[run[s]] /\ PidExists(s, run[s])
  /\ Write(run[s], "killed")
  /\ child' = [child EXCEPT ![run[s]] = "gone"]
  /\ Goto(s, "check")
  /\ UNCHANGED <<worker, task, due, home, expired, loopVars>>

Kill(s) ==
  /\ pc[s] = "expiry" /\ expired[run[s]] /\ PidExists(s, run[s])
  /\ Write(run[s], "timeout")
  /\ child' = [child EXCEPT ![run[s]] = "gone"]
  /\ Goto(s, "check")
  /\ UNCHANGED <<worker, task, due, home, expired, loopVars>>

\* os.kill raises on a pid that is gone: the exception ends the loop's thread.
KillRaises(s) ==
  /\ pc[s] = "expiry" /\ expired[run[s]] /\ ~PidExists(s, run[s])
  /\ Goto(s, "died")
  /\ UNCHANGED <<rowVars, procVars, loopVars>>

\* Mutant: off by one.
HasCapacityForOneLess(s) == num[s] + 1 < MaxConcurrent

HasCapacity(s) == num[s] < MaxConcurrent

Checked(s) ==
  /\ pc[s] = "check" /\ todo[s] = {}
  /\ Goto(s, IF HasCapacity(s) THEN "pick" ELSE "top")
  /\ num' = [num EXCEPT ![s] = 0]   \* not used any more
  /\ UNCHANGED <<rowVars, procVars, todo, run>>

----------------------------------------------------------------------------
(* next_run                                                                *)

Free(r) == status[r] # "absent" /\ worker[r] = None /\ due[r]

Before(r, q) ==
  \/ Priority[task[r]] < Priority[task[q]]
  \/ Priority[task[r]] = Priority[task[q]] /\ r <= q

Pick(s) ==
  /\ pc[s] = "pick"
  /\ \/ \E r \in Runs :
          /\ Free(r) /\ \A q \in Runs : Free(q) => Before(r, q)
          /\ run' = [run EXCEPT ![s] = r]
          /\ Goto(s, "claim")
     \/ (\A r \in Runs : ~Free(r)) /\ Goto(s, "top") /\ UNCHANGED run
  /\ UNCHANGED <<rowVars, procVars, todo, num>>

\* Mutant: the UPDATE has no condition on the worker.
ClaimAnyway(s) ==
  /\ pc[s] = "claim"
  /\ worker' = [worker EXCEPT ![run[s]] = WorkerId[s]]
  /\ Write(run[s], "assigned")
  /\ Goto(s, "launch")
  /\ UNCHANGED <<task, due, procVars, loopVars>>

\* The UPDATE repeats the conditions of the select.
Claim(s) ==
  /\ pc[s] = "claim" /\ Free(run[s])
  /\ worker' = [worker EXCEPT ![run[s]] = WorkerId[s]]
  /\ Write(run[s], "assigned")
  /\ Goto(s, "launch")
  /\ UNCHANGED <<task, due, procVars, loopVars>>

\* No row was updated, or the UPDATE raised and was rolled back.
ClaimLost(s) ==
  /\ pc[s] = "claim" /\ (~Free(run[s]) \/ "dberror" \in Faults)
  /\ Goto(s, "top")
  /\ UNCHANGED <<rowVars, procVars, loopVars>>

----------------------------------------------------------------------------
(* step, after next_run: make_daemon                                       *)

SkipUnknown(s) ==
  /\ pc[s] = "launch" /\ task[run[s]] \notin Registered[s]
  /\ Write(run[s], "unknown")
  /\ Goto(s, "top")
  /\ UNCHANGED <<worker, task, due, procVars, loopVars>>

Fork(s) ==
  /\ pc[s] = "launch" /\ task[run[s]] \in Registered[s]
  /\ child' = [child EXCEPT ![run[s]] = "forked"]
  /\ home' = [home EXCEPT ![run[s]] = Host[s]]
  /\ Goto(s, "top")
  /\ UNCHANGED <<rowVars, expired, loopVars>>

\* os.fork raises in the loop's process and is logged.
ForkFails(s) ==
  /\ "forkfail" \in Faults /\ pc[s] = "launch" /\ task[run[s]] \in Registered[s]
  /\ Goto(s, "top")
  /\ UNCHANGED <<rowVars, procVars, loopVars>>

\* The second fork, chdir or open of the log raises in the forked process, after
\* the loop's process went on: step's except clause catches it THERE, and the
\* copy of the loop's thread goes on looping as q.
ForkedLoops(s, q) ==
  /\ "forkfail" \in Faults /\ pc[s] = "launch" /\ task[run[s]] \in Registered[s]
  /\ q \in Unstarted /\ pc[q] = "off"
  /\ WorkerId[q] = WorkerId[s] /\ Host[q] = Host[s]
  /\ pc' = [pc EXCEPT ![s] = "top", ![q] = "top"]
  /\ UNCHANGED <<rowVars, procVars, loopVars>>

----------------------------------------------------------------------------
(* exec_child, in the forked process                                       *)

Become(r, from, to) == child[r] = from /\ child' = [child EXCEPT ![r] = to]

Begin(r) ==
  /\ Become(r, "forked", "working")
  /\ Write(r, "running")
  /\ UNCHANGED <<worker, task, due, home, expired, pc, loopVars>>

\* The task returned or raised.
Record(r) ==
  /\ Become(r, "working", "recorded")
  /\ \E st \in {"completed", "failed"} : Write(r, st)
  /\ UNCHANGED <<worker, task, due, home, expired, pc, loopVars>>

\* A periodic run inserts its successor, for a later time; then the child exits.
\* At the bound on rows it exits without.
Exit(r) ==
  /\ Become(r, "recorded", "gone")
  /\ IF task[r] \in Periodic /\ status[MaxRuns] = "absent"
     THEN \E q \in Runs : Insert(q, task[r], FALSE)
     ELSE UNCHANGED <<status, task, due>>
  /\ UNCHANGED <<worker, home, expired, pc, loopVars>>

----------------------------------------------------------------------------
(* The environment                                                         *)

Due(r) ==
  /\ status[r] # "absent" /\ ~due[r]
  /\ due' = [due EXCEPT ![r] = TRUE]
  /\ UNCHANGED <<status, worker, task, procVars, pc, loopVars>>

Expire(r) ==
  /\ "expire" \in Faults /\ child[r] \notin {"none", "forked"} /\ ~expired[r]
  /\ expired' = [expired EXCEPT ![r] = TRUE]
  /\ UNCHANGED <<rowVars, child, home, pc, loopVars>>

ChildDies(r) ==
  /\ "crash" \in Faults /\ child[r] \in {"forked", "working", "recorded"}
  /\ child' = [child EXCEPT ![r] = "gone"]
  /\ UNCHANGED <<rowVars, home, expired, pc, loopVars>>

\* The process of the loop dies; its children are daemons and go on.
LoopCrashes(s) ==
  /\ "crash" \in Faults /\ pc[s] # "off"
  /\ Goto(s, "off")
  /\ UNCHANGED <<rowVars, procVars, loopVars>>

\* start, in the same process or after a crash in a new one.
Start(s) ==
  /\ pc[s] = "off" /\ s \notin Unstarted
  /\ Goto(s, "top")
  /\ UNCHANGED <<rowVars, procVars, loopVars>>

\* stop: the loop ends after its step; it also joins a thread that has died.
Stop(s) ==
  /\ "stop" \in Faults /\ s \notin Unstarted /\ pc[s] \in {"top", "died"}
  /\ Goto(s, "off")
  /\ UNCHANGED <<rowVars, procVars, loopVars>>

----------------------------------------------------------------------------
Loop(s) ==
  \/ Reenqueue(s) \/ Scan(s) \/ (\E r \in Runs : CheckPid(s, r))
  \/ CountRunning(s) \/ Kill(s) \/ KillRaises(s) \/ Checked(s)
  \/ Pick(s) \/ Claim(s) \/ ClaimLost(s)
  \/ SkipUnknown(s) \/ Fork(s) \/ ForkFails(s)
  \/ \E q \in Schedulers : ForkedLoops(s, q)

Child(r) == Begin(r) \/ Record(r) \/ Exit(r)

Environment ==
  \/ \E r \in Runs : Due(r) \/ Expire(r) \/ ChildDies(r)
  \/ \E s \in Schedulers : LoopCrashes(s) \/ Start(s) \/ Stop(s)
  \/ \E r \in Runs, n \in Tasks : Enqueue(r, n)

Next == (\E s \in Schedulers : Loop(s)) \/ (\E r \in Runs : Child(r)) \/ Environment

Spec == Init /\ [][Next]_vars

\* Processes get the processor, tasks return and time passes.
FairSpec ==
  /\ Spec
  /\ \A s \in Schedulers : WF_vars(Loop(s))
  /\ \A r \in Runs : WF_vars(Child(r)) /\ WF_vars(Due(r))

----------------------------------------------------------------------------
(* Properties                                                              *)

TypeOK ==
  /\ status \in [Runs -> Statuses]
  /\ worker \in [Runs -> {WorkerId[s] : s \in Schedulers} \union {None}]
  /\ task \in [Runs -> Tasks \union {None}] /\ due \in [Runs -> BOOLEAN]
  /\ child \in [Runs -> {"none", "forked", "working", "recorded", "gone"}]
  /\ home \in [Runs -> {Host[s] : s \in Schedulers} \union {None}]
  /\ expired \in [Runs -> BOOLEAN]
  /\ pc \in [Schedulers -> PCs] /\ todo \in [Schedulers -> SUBSET Runs]
  /\ num \in [Schedulers -> Nat] /\ run \in [Schedulers -> Nat]

\* "Task assignment is race-safe" (README.md:941): however many loops share the
\* table, crash and restart, a run is claimed by one of them only, its task is
\* started at most once, and never before it is claimed.
Phase(r) ==
  CASE status[r] = "absent" -> "absent"
    [] status[r] # "absent" /\ worker[r] = None -> "waiting"
    [] worker[r] # None /\ status[r] # "unknown" /\ child[r] \in {"none", "forked"} -> "claimed"
    [] child[r] = "working" -> "executing"
    [] OTHER -> "ended"

Lifecycle == INSTANCE TaskRun WITH phase <- [r \in Runs |-> Phase(r)]

RunOnce == Lifecycle!Spec

\* An outcome is never turned back into work: the unconditional UPDATEs by id of
\* loops with old snapshots and of children that start late never bring a
\* finished run back to queued, assigned or running.
NoResurrection ==
  [][\A r \in Runs : status[r] \in Final => status'[r] \in Final]_vars

\* "dead: child process disappeared", "timeout: killed" (README.md:924-925): a run
\* with such an outcome is not executing any more.
DeadIsGone == \A r \in Runs : status[r] \in {"dead", "timeout"} => child[r] = "gone"

\* What is enqueued is executed: a queued run comes to an outcome.
EveryRunEnds == \A r \in Runs : status[r] = "queued" ~> status[r] \in Final

=============================================================================
