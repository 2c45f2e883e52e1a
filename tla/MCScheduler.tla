---------------------------- MODULE MCScheduler ----------------------------
(***************************************************************************)
(* Instances of Scheduler: two loops on one or two machines, two rows, a   *)
(* one-off task, a periodic one, and one that another process registered.  *)
(***************************************************************************)
EXTENDS Scheduler, TLC

CONSTANTS s1, s2, once, periodic, elsewhere

SeparateIds == s1 :> "id1" @@ s2 :> "id2"
SharedId    == s1 :> "id" @@ s2 :> "id"
TwoMachines == s1 :> "host1" @@ s2 :> "host2"
OneMachine  == s1 :> "host" @@ s2 :> "host"
Here        == [s \in Schedulers |-> {once, periodic}]
Priorities  == once :> 0 @@ periodic :> 1 @@ elsewhere :> 1
=============================================================================
