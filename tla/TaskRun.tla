------------------------------ MODULE TaskRun ------------------------------
(***************************************************************************)
(* What the scheduler promises about a row of task_run, whoever executes   *)
(* it: it is claimed once, executed at most once and only when claimed,    *)
(* and what has ended does not begin again.                                *)
(***************************************************************************)
CONSTANT Runs

VARIABLE phase   \* phase[r]: how far run r is

Phases == {"absent", "waiting", "claimed", "executing", "ended"}

Init == phase = [r \in Runs |-> "absent"]

Move(r, from, to) == phase[r] \in from /\ phase' = [phase EXCEPT ![r] = to]

Enqueue(r) == Move(r, {"absent"}, "waiting")
Claim(r)   == Move(r, {"waiting"}, "claimed")
Execute(r) == Move(r, {"claimed"}, "executing")

\* A claimed run may also end without having been executed.
End(r) == Move(r, {"claimed", "executing"}, "ended")

Next == \E r \in Runs : Enqueue(r) \/ Claim(r) \/ Execute(r) \/ End(r)

Spec == Init /\ [][Next]_phase
=============================================================================
