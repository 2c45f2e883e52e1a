------------------------------- MODULE MCRecords -------------------------------
(* Two clients, two keys.                                                     *)
EXTENDS Records, TLC

CONSTANTS a, b, k, l
TwoClients == {a, b}
TwoKeys == {k, l}
Symmetric == Permutations(TwoClients) \cup Permutations(TwoKeys)

(* After a race the properties tell nothing more.                             *)
StillTelling == ~raced
===============================================================================
