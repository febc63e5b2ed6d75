---------------------------- MODULE MCAppSessions ----------------------------
(***************************************************************************)
(* A small instance of AppSessions.  No key, and no host reached over SSH, *)
(* differs from another of its kind; what is checked are invariants.       *)
(***************************************************************************)
EXTENDS AppSessions, TLC

Symmetry == Permutations(Key) \cup Permutations(Ssh)
=============================================================================
