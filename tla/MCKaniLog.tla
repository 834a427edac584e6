------------------------------- MODULE MCKaniLog --------------------------------
(***************************************************************************)
(* KaniLog on small instances.                                             *)
(***************************************************************************)
EXTENDS KaniLog

(* Harnesses are handled alike, and so are threads. *)
Symmetry == Permutations(Harnesses) \cup Permutations(Threads)

Check(id, text, status, lines) == [id |-> id, text |-> text, status |-> status, lines |-> lines]

Holds       == Check("assertion", "plain", "SUCCESS", 1)
Fails       == Check("assertion", "plain", "FAILURE", 2)
Unreached   == Check("assertion", "plain", "UNREACHABLE", 1)
Unsupported == Check("unsupported", "unsupported", "FAILURE", 1)
DescribedSo == Check("assertion", "unsupported", "FAILURE", 2)
Covered     == Check("cover", "plain", "SATISFIED", 1)
Uncovered   == Check("cover", "plain", "UNSATISFIABLE", 1)
Unheard     == Check("assertion", "plain", "UNSATISFIABLE", 1)

(* Every way a receipt is made or refused: harnesses that are to hold, and
   harnesses that are to panic. *)
Reports ==
  [panics : {FALSE},
   checks : {<<>>, <<Unreached>>, <<DescribedSo>>, <<Unsupported, Fails>>,
             <<Covered>>, <<Covered, Uncovered>>, <<Unheard>>}]
  \cup [panics : {TRUE}, checks : {<<Holds>>, <<Fails>>}]

(* Two harnesses, or three of which each has nothing to tell or one failure. *)
MCFindings ==
  UNION {[pair -> Reports] : pair \in kSubset(2, Harnesses)}
  \cup [Harnesses -> [panics : {FALSE}, checks : {<<DescribedSo>>}]]
===============================================================================
