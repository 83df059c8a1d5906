---------------------------- MODULE MCOnboarding ----------------------------
(* Instances of Onboarding for TLC. *)
EXTENDS Onboarding, TLC

(* Organizations, people, invitations and slots are interchangeable. *)
Symmetry == Permutations(Orgs) \cup Permutations(Emails)
              \cup Permutations(Invites) \cup Permutations(Requests)
=============================================================================
