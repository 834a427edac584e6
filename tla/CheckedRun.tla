------------------------------- MODULE CheckedRun -------------------------------
(***************************************************************************)
(* From a checker to a verdict on a candidate: model_checker_command run   *)
(* by KernelGate.check, whose receipt goes to run_audit.  It follows what  *)
(* the checker said of each obligation to the audit's verdict, the chain   *)
(* pipeline.py hands a receipt along.                                      *)
(***************************************************************************)
EXTENDS ModelChecker

CONSTANTS
  Ids,           \* names of the model checker's obligations
  TargetId,      \* the target, which names the one obligation of a plain run
  Predicates,    \* the predicates the obligations are made of
  None           \* nothing yet

ASSUME IdsAssumption == TargetId \notin Ids

ASSUME PredicatesAssumption == Predicates \subseteq SUBSET State

VARIABLES
  claims,        \* the obligations given to the model checker, by name
  requested,     \* obligation_ids as the caller of the gate gave them
  receipt,       \* what the gate made of the run
  verdict        \* what the audit made of the receipt

vars == <<exploreVars, claims, requested, receipt, verdict>>

Obligations == [precondition : Predicates \cup {Unconditional}, property : Predicates]

(* One obligation or more, by name. *)
Claims == UNION {[D -> Obligations] : D \in SUBSET Ids \ {{}}}

-------------------------------------------------------------------------------
(* KernelGate.check *)

(* What a checker command answers: whether it failed to give a verdict, the
   verdict, and the statuses it has, by name.  The model checker's own answer
   accepts unless some obligation failed. *)
Answer(cs) ==
  LET statuses == [id \in DOMAIN cs |-> Status(cs[id])]
  IN [failed |-> FALSE, accepted |-> "failed" \notin Range(statuses), statuses |-> statuses]

(* A run that timed out, crashed or could not be launched. *)
NoAnswer == [failed |-> TRUE, accepted |-> FALSE, statuses |-> [id \in {} |-> "held"]]

Ruling(answer) ==
  IF answer.failed THEN "error" ELSE IF answer.accepted THEN "accepted" ELSE "rejected"

(* Mutant: a name the checker did report is still given the file's verdict. *)
StatusFor_File(answer, id) ==
  CASE Ruling(answer) = "error"    -> "not-exercised"
    [] Ruling(answer) = "accepted" -> "held"
    [] OTHER                       -> "failed"

(* A name the checker did not report is given the file's verdict. *)
StatusFor(answer, id) ==
  CASE Ruling(answer) = "error"      -> "not-exercised"
    [] Ruling(answer) # "error" /\ id \in DOMAIN answer.statuses -> answer.statuses[id]
    [] Ruling(answer) = "accepted" /\ id \notin DOMAIN answer.statuses -> "held"
    [] OTHER                         -> "failed"

Receipt(answer, ids) ==
  [verdict     |-> Ruling(answer),
   obligations |-> [id \in (IF ids = {} THEN {TargetId} ELSE ids) |-> StatusFor(answer, id)]]

-------------------------------------------------------------------------------
(* run_audit *)

(* check_obligation_statuses *)
Exercised(r) == Range(r.obligations) \cap {"vacuous", "not-exercised"} = {}

(* Mutant: an obligation that never fired counts as unexercised too, and one
   nothing violated does not. *)
Untested_Swapped(c) == c.conditional /\ c.satisfying = 0

(* An obligation whose precondition pruned nothing. *)
Untested(c) == c.conditional /\ c.satisfying # 0 /\ c.violating = 0

(* check_unexercised_hypothesis, on the coverage records the provenance
   carries, if any. *)
HypothesesTested(evidence) == \A c \in evidence : ~Untested(c)

(* The other checks read the provenance's text; clean is what they make of it. *)
RunAudit(r, evidence, clean) ==
  IF clean /\ Exercised(r) /\ HypothesesTested(evidence) THEN "pass" ELSE "fail"

-------------------------------------------------------------------------------

RunInit ==
  /\ Init
  /\ claims = None
  /\ requested = None
  /\ receipt = None
  /\ verdict = None

Idle == UNCHANGED <<claims, requested, receipt, verdict>>

(* The checker answers, or fails to, for any obligations and any names asked
   about: its own, some of them, others too, or none, the default. *)
Check(ids) ==
  /\ outcome # "searching"
  /\ receipt = None
  /\ \E cs \in Claims, answered \in BOOLEAN :
       /\ claims' = cs
       /\ requested' = ids
       /\ receipt' = Receipt(IF answered THEN Answer(cs) ELSE NoAnswer, requested')
  /\ UNCHANGED <<exploreVars, verdict>>

CoverageOf(cs) == {Coverage(cs[id]) : id \in DOMAIN cs}

(* The pipeline audits accepted receipts only; the provenance carries the
   coverage of the same run, or none. *)
Audit ==
  /\ receipt # None
  /\ receipt.verdict = "accepted"
  /\ verdict = None
  /\ \E evidence \in {CoverageOf(claims), {}}, clean \in BOOLEAN :
       verdict' = [result |-> RunAudit(receipt, evidence, clean), evidence |-> evidence]
  /\ UNCHANGED <<exploreVars, claims, requested, receipt>>

Next ==
  \/ Explore /\ Idle
  \/ \E ids \in SUBSET Ids : Check(ids)
  \/ Audit

RunSpec == RunInit /\ [][Next]_vars

-------------------------------------------------------------------------------
(* Properties *)

Statuses == {"held", "vacuous", "not-exercised", "failed"}

(* Every variable has its type. *)
TypeOK ==
  /\ SearchTypeOK
  /\ claims = None \/ claims \in Claims
  /\ requested = None \/ requested \subseteq Ids
  /\ \/ receipt = None
     \/ /\ receipt.verdict \in {"accepted", "rejected", "error"}
        /\ receipt.obligations \in [DOMAIN receipt.obligations -> Statuses]
        /\ DOMAIN receipt.obligations \subseteq Ids \cup {TargetId}
  /\ verdict = None \/ verdict.result \in {"pass", "fail"}

Holds(o, s) == (o.precondition = Unconditional \/ s \in o.precondition) => s \in o.property

Fires(o, s) == o.precondition = Unconditional \/ s \in o.precondition

Passed == verdict # None /\ verdict.result = "pass"

(* What a pass is worth: every obligation the model checker was given holds in
   every state searched, and in every reachable state if the search was
   exhaustive, whichever names the gate was asked about; the precondition of those
   it was asked about is met by a reachable state; and if the coverage of the run
   was shown to the audit, it is violated somewhere too.  A bound that cut the
   search short, a precondition that cannot be met, a run that failed and a name
   the checker does not know must not look like it. *)
PassIsEarned ==
  Passed =>
    \A id \in DOMAIN claims :
      LET o == claims[id] IN
      /\ \A s \in IF outcome = "exhaustive" THEN Reachable ELSE Visited : Holds(o, s)
      /\ id \in requested => \E s \in Reachable : Fires(o, s)
      /\ id \in requested /\ verdict.evidence # {} /\ o.precondition # Unconditional =>
           \E s \in Reachable : s \notin o.precondition

(* "collapsing 'never got a chance to check this' into 'checked and it
   passed'" (model_checker.py:9) is what the four statuses are for: on a
   receipt that names it, vacuous means no reachable state meets the
   precondition, failed that a reachable state refutes the obligation, held
   that one meets it and none visited refutes it, and not-exercised that the
   search was cut short or the checker did not answer. *)
StatusesAreHonest ==
  receipt # None =>
    \A id \in requested \cap DOMAIN claims :
      LET o == claims[id]
          status == receipt.obligations[id]
      IN /\ status = "vacuous" => \A s \in Reachable : ~Fires(o, s)
         /\ status = "failed" => \E s \in Reachable : ~Holds(o, s)
         /\ status = "held" => /\ \E s \in Reachable : Fires(o, s)
                               /\ \A s \in Visited : Holds(o, s)
         /\ status = "not-exercised" => receipt.verdict = "error" \/ outcome = "truncated"

(* What the comment in run_target asks for, "an obligation the checker itself
   reported as `vacuous` or `not-exercised` must be able to fail the audit"
   (pipeline.py:183): no candidate passes the audit with an obligation the
   model checker reported as one of them. *)
VacuityFailsTheAudit ==
  Passed => \A id \in DOMAIN claims : Status(claims[id]) \notin {"vacuous", "not-exercised"}
===============================================================================
