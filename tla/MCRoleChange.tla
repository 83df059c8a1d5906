---------------------------- MODULE MCRoleChange ----------------------------
(* Instances of RoleChange for TLC. *)
EXTENDS RoleChange, TLC

(* Members are interchangeable, and so are the slots of the requests. *)
Symmetry == Permutations(Members) \cup Permutations(Requests)
=============================================================================
