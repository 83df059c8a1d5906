------------------------------ MODULE MCAccess ------------------------------
(* Instances of Access for TLC. *)
EXTENDS Access, TLC

(* Users are interchangeable. *)
Symmetry == Permutations(Users)
=============================================================================
