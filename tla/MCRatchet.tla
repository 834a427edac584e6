------------------------------- MODULE MCRatchet -------------------------------
(***************************************************************************)
(* Ratchet on small instances.                                             *)
(***************************************************************************)
EXTENDS Ratchet, TLC

(* Targets, candidates and dependencies are handled alike. *)
Symmetry == Permutations(Targets) \cup Permutations(Candidates) \cup Permutations(Deps)
===============================================================================
