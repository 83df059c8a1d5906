--------------------------- MODULE MCTenantRequests ---------------------------
(* Instances of TenantRequests for TLC. *)
EXTENDS TenantRequests, TLC

(* Everything but None is interchangeable. *)
Symmetry ==
    Permutations(Orgs) \cup Permutations(Tasks)
        \cup Permutations(Requests) \cup Permutations(Conns)
=============================================================================
