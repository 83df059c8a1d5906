--------------------------- MODULE MCSessionClient ---------------------------
(* Instances of SessionClient for TLC. *)
EXTENDS SessionClient, TLC

(* Tabs and slots for requests are interchangeable. *)
Symmetry == Permutations(Tabs) \cup Permutations(Calls)
=============================================================================
