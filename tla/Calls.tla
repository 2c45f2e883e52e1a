-------------------------------- MODULE Calls --------------------------------
(* Code without state of its own is checked one call at a time: asked is what *)
(* it was called with, answer what it returned. An error is a value too.      *)
EXTENDS Integers, Sequences, FiniteSets, SequencesExt

VARIABLES asked, answer

calls == <<asked, answer>>

Err == [error |-> TRUE]
Ok(v) == [error |-> FALSE, value |-> v]

Idle == asked = [of |-> "none"] /\ answer = Err

Waiting == asked.of = "none"

Ask(of, x, y) ==
    /\ asked' = [of |-> of, x |-> x]
    /\ answer' = y
==============================================================================
