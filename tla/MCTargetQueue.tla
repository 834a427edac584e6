----------------------------- MODULE MCTargetQueue -----------------------------
(***************************************************************************)
(* TargetQueue on small instances.                                         *)
(***************************************************************************)
EXTENDS TargetQueue, TLC

(* Targets are handled alike, and so are candidates. *)
Symmetry == Permutations(Targets) \cup Permutations(Candidates)
===============================================================================
