------------------------------ MODULE MCCheckedRun ------------------------------
(* CheckedRun over every graph of three states. *)
EXTENDS CheckedRun, TLC

CONSTANTS s1, s2, s3

MCState == {s1, s2, s3}

(* The successors of a state: each set of states, in some order. *)
Lists == {<<>>, <<s1>>, <<s2>>, <<s3>>, <<s1, s2>>, <<s3, s1>>, <<s2, s3>>, <<s3, s2, s1>>}

(* Every graph, from no state, one state or two. *)
MCSystems ==
  [initial : {<<>>, <<s1>>, <<s3, s1>>}, successors : [MCState -> Lists]]

(* From one state to as many as there are: a bound met below, at and never. *)
MCBounds == 1..4

(* Something met at one state, and its complement. *)
MCPredicates == {{s3}, {s1, s2}}

(* Names are handled alike. *)
Symmetry == Permutations(Ids)
===============================================================================
