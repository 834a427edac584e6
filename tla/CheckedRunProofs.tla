---------------------------- MODULE CheckedRunProofs ----------------------------
(***************************************************************************)
(* Proofs about CheckedRun, for every system, bound, set of obligations    *)
(* and set of names asked about: what each status on a receipt says of the *)
(* system, and what a passing audit is worth.                              *)
(*                                                                         *)
(* The invariant remembers how the receipt and the verdict were made.  The *)
(* search does not go on once there is a receipt, so what the receipt was  *)
(* made from is still there when it is audited.                            *)
(***************************************************************************)
EXTENDS CheckedRun, ModelCheckerProofs

(* The receipt of a run, or of one that failed. *)
Made(r, cs, ids) ==
  \E answered \in BOOLEAN : r = Receipt(IF answered THEN Answer(cs) ELSE NoAnswer, ids)

(* What the audit made of it, on the coverage of the run or on none. *)
Judged(v, r, cs) ==
  \E evidence \in {CoverageOf(cs), {}}, clean \in BOOLEAN :
    v = [result |-> RunAudit(r, evidence, clean), evidence |-> evidence]

ReceiptInv ==
  receipt # None =>
    /\ outcome # "searching"
    /\ claims \in Claims
    /\ requested \subseteq Ids
    /\ Made(receipt, claims, requested)

VerdictInv ==
  verdict # None =>
    /\ receipt # None
    /\ receipt.verdict = "accepted"
    /\ Judged(verdict, receipt, claims)

RunInv ==
  /\ SearchInv
  /\ claims = None \/ claims \in Claims
  /\ requested = None \/ requested \subseteq Ids
  /\ ReceiptInv
  /\ VerdictInv

-------------------------------------------------------------------------------
(* The statuses *)

(* A search visits finitely many states. *)
LEMMA VisitedFinite ==
  ASSUME SearchTypeOK
  PROVE  IsFiniteSet(Visited)
<1>1. Len(order) \in Nat /\ DOMAIN order = 1..Len(order) /\ order \in [1..Len(order) -> State]
  BY LenProperties DEF SearchTypeOK
<1>2. order \in Surjection(1..Len(order), Visited)
  BY <1>1 DEF Surjection, Visited, Range
<1>3. IsFiniteSet(1..Len(order))  BY <1>1, FS_Interval
<1>4. QED  BY <1>2, <1>3, FS_Surjection

(* What check_obligations says of an obligation when the search is over: each
   of its four statuses is about the system, not about what was searched of
   it. *)
LEMMA StatusHonest ==
  ASSUME SearchInv, outcome # "searching", NEW o
  PROVE  /\ Status(o) \in Statuses
         /\ Status(o) = "vacuous" => \A s \in Reachable : ~Fires(o, s)
         /\ Status(o) = "failed" => \E s \in Reachable : ~Holds(o, s)
         /\ Status(o) = "held" => \E s \in Visited : Fires(o, s)
         /\ Status(o) # "failed" => \A s \in Visited : Holds(o, s)
         /\ Status(o) = "not-exercised" => outcome = "truncated"
<1>1. /\ Visited \subseteq Reachable
      /\ outcome = "exhaustive" => Visited = Reachable
      /\ outcome \in {"exhaustive", "truncated"}
  BY SearchExact DEF ExhaustiveIsReachable, SearchInv, SearchTypeOK
<1>2. \A s : s \in Applicable(o) <=> s \in Visited /\ Fires(o, s)
  BY DEF Applicable, Fires
<1>3. \A s : Holds(o, s) <=> (Fires(o, s) => s \in o.property)
  BY DEF Holds, Fires
<1>4. CASE Applicable(o) = {}
  <2>1. Status(o) = IF outcome = "exhaustive" THEN "vacuous" ELSE "not-exercised"
    BY <1>4 DEF Status, Unseen
  <2>2. \A s \in Visited : ~Fires(o, s)  BY <1>2, <1>4
  <2>3. QED  BY <1>1, <1>3, <2>1, <2>2 DEF Statuses
<1>5. CASE Applicable(o) # {} /\ ~(Applicable(o) \subseteq o.property)
  <2>1. Status(o) = "failed"  BY <1>5 DEF Status
  <2>2. \E s \in Visited : ~Holds(o, s)  BY <1>2, <1>3, <1>5
  <2>3. QED  BY <1>1, <2>1, <2>2 DEF Statuses
<1>6. CASE Applicable(o) # {} /\ Applicable(o) \subseteq o.property
  <2>1. Status(o) = "held"  BY <1>6 DEF Status
  <2>2. \E s \in Visited : Fires(o, s)  BY <1>2, <1>6
  <2>3. \A s \in Visited : Holds(o, s)  BY <1>2, <1>3, <1>6
  <2>4. QED  BY <2>1, <2>2, <2>3 DEF Statuses
<1>7. QED  BY <1>4, <1>5, <1>6

(* What KernelGate.check makes of an answer. *)
LEMMA ReceiptFacts ==
  ASSUME SearchInv, outcome # "searching", NEW cs \in Claims, NEW ids \in SUBSET Ids,
         NEW r, Made(r, cs, ids)
  PROVE  /\ r.verdict \in {"accepted", "rejected", "error"}
         /\ r.obligations \in [DOMAIN r.obligations -> Statuses]
         /\ DOMAIN r.obligations \subseteq Ids \cup {TargetId}
         /\ ids \subseteq DOMAIN r.obligations
         /\ \A id \in ids \cap DOMAIN cs :
              \/ r.verdict = "error" /\ r.obligations[id] = "not-exercised"
              \/ r.obligations[id] = Status(cs[id])
         /\ r.verdict = "accepted" =>
              /\ \A id \in DOMAIN cs : Status(cs[id]) # "failed"
              /\ \A id \in ids \cap DOMAIN cs : r.obligations[id] = Status(cs[id])
<1>1. PICK answered \in BOOLEAN : r = Receipt(IF answered THEN Answer(cs) ELSE NoAnswer, ids)
  BY DEF Made
<1> DEFINE asked == IF ids = {} THEN {TargetId} ELSE ids
<1>2. ids \subseteq asked /\ asked \subseteq Ids \cup {TargetId}  OBVIOUS
<1>3. CASE ~answered
  <2>1. r = Receipt(NoAnswer, ids)  BY <1>1, <1>3
  <2>2. Ruling(NoAnswer) = "error"  BY DEF Ruling, NoAnswer
  <2>3. \A id : StatusFor(NoAnswer, id) = "not-exercised"  BY <2>2 DEF StatusFor
  <2>4. r.verdict = "error" /\ r.obligations = [id \in asked |-> "not-exercised"]
    BY <2>1, <2>2, <2>3 DEF Receipt
  <2> HIDE DEF asked
  <2>5. QED  BY <1>2, <2>4 DEF Statuses
<1>4. CASE answered
  <2> DEFINE answer == Answer(cs)
             statuses == [id \in DOMAIN cs |-> Status(cs[id])]
  <2>1. r = Receipt(answer, ids)  BY <1>1, <1>4
  <2>2. /\ answer.failed = FALSE /\ answer.statuses = statuses
        /\ answer.accepted = ("failed" \notin Range(statuses))
    BY DEF Answer
  <2>3. \A id \in DOMAIN cs : Status(cs[id]) \in Statuses  BY StatusHonest
  <2> HIDE DEF answer
  <2>4. Ruling(answer) = IF answer.accepted THEN "accepted" ELSE "rejected"
    BY <2>2 DEF Ruling
  <2>5. /\ \A id \in DOMAIN cs : StatusFor(answer, id) = Status(cs[id])
        /\ \A id : StatusFor(answer, id) \in Statuses
    <3>1. Ruling(answer) # "error" /\ Ruling(answer) \in {"accepted", "rejected"}  BY <2>4
    <3>2. ASSUME NEW id \in DOMAIN cs  PROVE StatusFor(answer, id) = Status(cs[id])
      BY <2>2, <3>1 DEF StatusFor
    <3>3. ASSUME NEW id, id \notin DOMAIN cs  PROVE StatusFor(answer, id) \in {"held", "failed"}
      BY <2>2, <3>1, <3>3 DEF StatusFor
    <3>4. QED  BY <2>3, <3>2, <3>3 DEF Statuses
  <2>6. r.verdict = Ruling(answer) /\ r.obligations = [id \in asked |-> StatusFor(answer, id)]
    BY <2>1 DEF Receipt
  <2>7. r.verdict = "accepted" => \A id \in DOMAIN cs : Status(cs[id]) # "failed"
    BY <2>2, <2>4, <2>6 DEF Range
  <2> HIDE DEF asked
  <2>8. QED  BY <1>2, <2>4, <2>5, <2>6, <2>7
<1>5. QED  BY <1>3, <1>4

-------------------------------------------------------------------------------
(* The invariant *)

(* No step of the search is taken once it is over. *)
LEMMA SearchOver ==
  ASSUME outcome # "searching"
  PROVE  ~Explore
BY DEF Explore, Truncate, Skip, Visit, Expand, Exhaust, Looking

(* A receipt is still what the checker answered while the search stands. *)
LEMMA Kept ==
  ASSUME UNCHANGED <<exploreVars, claims, requested, receipt>>,
         Made(receipt, claims, requested)
  PROVE  Made(receipt, claims, requested)'
<1>1. Answer(claims)' = Answer(claims)
  BY DEF exploreVars, Answer, Status, Applicable, Visited, Unseen
<1>2. QED  BY <1>1 DEF Made

(* The invariant holds before anything was checked. *)
LEMMA RunInvInit == RunInit => RunInv
BY SearchInit DEF RunInit, RunInv, ReceiptInv, VerdictInv

(* Every step keeps the invariant. *)
LEMMA RunInvNext ==
  ASSUME RunInv, [Next]_vars
  PROVE  RunInv'
<1>1. SearchInv'
  <2>1. [Explore]_exploreVars  BY DEF Next, Check, Audit, vars, exploreVars
  <2>2. QED  BY <2>1, SearchStep DEF RunInv
<1>2. CASE Explore /\ Idle
  <2>1. receipt = None /\ verdict = None
    BY <1>2, SearchOver DEF RunInv, ReceiptInv, VerdictInv
  <2>2. QED  BY <1>1, <1>2, <2>1 DEF Idle, RunInv, ReceiptInv, VerdictInv
<1>3. ASSUME NEW ids \in SUBSET Ids, Check(ids)  PROVE RunInv'
  <2>1. PICK cs \in Claims, answered \in BOOLEAN :
          /\ claims' = cs
          /\ requested' = ids
          /\ receipt' = Receipt(IF answered THEN Answer(cs) ELSE NoAnswer, requested')
    BY <1>3 DEF Check
  <2>2. outcome # "searching" /\ receipt = None /\ verdict' = verdict /\ UNCHANGED exploreVars
    BY <1>3 DEF Check
  <2>3. \A id : Status(cs[id])' = Status(cs[id])
    BY <2>2 DEF exploreVars, Status, Applicable, Visited, Unseen
  <2>4. Made(receipt, claims, requested)'
    <3>1. Answer(cs)' = Answer(cs)  BY <2>3 DEF Answer
    <3>2. QED  BY <2>1, <3>1 DEF Made
  <2>5. verdict = None  BY <2>2 DEF RunInv, VerdictInv
  <2>6. QED  BY <1>1, <2>1, <2>2, <2>4, <2>5 DEF RunInv, ReceiptInv, VerdictInv, exploreVars
<1>4. CASE Audit
  <2>1. /\ receipt # None /\ receipt.verdict = "accepted"
        /\ Judged(verdict', receipt, claims)
        /\ UNCHANGED <<exploreVars, claims, requested, receipt>>
    BY <1>4 DEF Audit, Judged
  <2>2. Made(receipt, claims, requested) => Made(receipt, claims, requested)'
    BY <2>1, Kept
  <2>3. Judged(verdict, receipt, claims)'
    <3>1. CoverageOf(claims)' = CoverageOf(claims)
      BY <2>1 DEF CoverageOf, Coverage, Visited, exploreVars
    <3>2. QED  BY <2>1, <3>1 DEF Judged
  <2>4. QED  BY <1>1, <2>1, <2>2, <2>3 DEF RunInv, ReceiptInv, VerdictInv, exploreVars
<1>5. CASE UNCHANGED vars
  <2>1. Made(receipt, claims, requested) => Made(receipt, claims, requested)'
    BY <1>5, Kept DEF vars
  <2>2. Judged(verdict, receipt, claims) => Judged(verdict, receipt, claims)'
    <3>1. CoverageOf(claims)' = CoverageOf(claims)
      BY <1>5 DEF CoverageOf, Coverage, Visited, vars, exploreVars
    <3>2. QED  BY <1>5, <3>1 DEF Judged, vars
  <2>3. QED
    BY <1>1, <1>5, <2>1, <2>2 DEF vars, exploreVars, RunInv, ReceiptInv, VerdictInv
<1>6. QED  BY <1>2, <1>3, <1>4, <1>5 DEF Next

(* The invariant holds in every reachable state. *)
THEOREM RunInvariant == RunSpec => []RunInv
<1>1. RunInit => RunInv  BY RunInvInit
<1>2. RunInv /\ [Next]_vars => RunInv'  BY RunInvNext
<1>3. QED  BY <1>1, <1>2, PTL DEF RunSpec

-------------------------------------------------------------------------------
(* The theorems *)

(* Every variable keeps its type (explore, KernelGate.check and run_audit). *)
THEOREM RunTypeCorrect == RunSpec => []TypeOK
<1>1. RunInv => TypeOK
  <2>1. SUFFICES ASSUME RunInv  PROVE TypeOK  OBVIOUS
  <2>2. SearchTypeOK /\ SearchInv  BY <2>1 DEF RunInv, SearchInv
  <2>3. receipt # None =>
          /\ receipt.verdict \in {"accepted", "rejected", "error"}
          /\ receipt.obligations \in [DOMAIN receipt.obligations -> Statuses]
          /\ DOMAIN receipt.obligations \subseteq Ids \cup {TargetId}
    BY <2>1, <2>2, ReceiptFacts DEF RunInv, ReceiptInv
  <2>4. verdict # None => verdict.result \in {"pass", "fail"}
    BY <2>1 DEF RunInv, VerdictInv, Judged, RunAudit
  <2>5. QED  BY <2>1, <2>2, <2>3, <2>4 DEF RunInv, TypeOK
<1>2. QED  BY <1>1, RunInvariant, PTL

(* The four statuses on a receipt mean what they say of the system, truncated
   or not: vacuous is never "not looked at", held is never "nothing to check"
   (check_obligations, KernelGate.check). *)
THEOREM StatusesMeanWhatTheySay == RunSpec => []StatusesAreHonest
<1>1. RunInv => StatusesAreHonest
  <2>1. SUFFICES ASSUME RunInv, receipt # None, NEW id \in requested \cap DOMAIN claims
                 PROVE  LET o == claims[id]
                            status == receipt.obligations[id]
                        IN /\ status = "vacuous" => \A s \in Reachable : ~Fires(o, s)
                           /\ status = "failed" => \E s \in Reachable : ~Holds(o, s)
                           /\ status = "held" => /\ \E s \in Reachable : Fires(o, s)
                                                 /\ \A s \in Visited : Holds(o, s)
                           /\ status = "not-exercised" =>
                                receipt.verdict = "error" \/ outcome = "truncated"
    BY DEF StatusesAreHonest
  <2> DEFINE o == claims[id]
             status == receipt.obligations[id]
  <2>2. /\ SearchInv /\ outcome # "searching" /\ claims \in Claims /\ requested \subseteq Ids
        /\ Made(receipt, claims, requested)
    BY <2>1 DEF RunInv, ReceiptInv
  <2>3. \/ receipt.verdict = "error" /\ status = "not-exercised"
        \/ status = Status(o)
    <3>1. \A i \in requested \cap DOMAIN claims :
            \/ receipt.verdict = "error" /\ receipt.obligations[i] = "not-exercised"
            \/ receipt.obligations[i] = Status(claims[i])
      BY <2>2, ReceiptFacts
    <3>2. QED  BY <2>1, <3>1
  <2>4. Visited \subseteq Reachable
    BY <2>2, SearchExact DEF ExhaustiveIsReachable
  <2> HIDE DEF o, status
  <2>5. /\ Status(o) = "vacuous" => \A s \in Reachable : ~Fires(o, s)
        /\ Status(o) = "failed" => \E s \in Reachable : ~Holds(o, s)
        /\ Status(o) = "held" => \E s \in Visited : Fires(o, s)
        /\ Status(o) # "failed" => \A s \in Visited : Holds(o, s)
        /\ Status(o) = "not-exercised" => outcome = "truncated"
    BY <2>2, StatusHonest
  <2>6. QED  BY <2>3, <2>4, <2>5 DEF o, status
<1>2. QED  BY <1>1, RunInvariant, PTL

(* A candidate that passes the audit has every obligation of the checker hold
   in every state searched, each one asked about fire in a reachable state,
   and, on the coverage of the run, each of their preconditions be violated in
   another (check_obligation_statuses, check_unexercised_hypothesis). *)
THEOREM PassesAreEarned == RunSpec => []PassIsEarned
<1>1. RunInv => PassIsEarned
  <2>1. SUFFICES ASSUME RunInv, Passed, NEW id \in DOMAIN claims
                 PROVE  LET o == claims[id] IN
                        /\ \A s \in IF outcome = "exhaustive" THEN Reachable ELSE Visited :
                             Holds(o, s)
                        /\ id \in requested => \E s \in Reachable : Fires(o, s)
                        /\ id \in requested /\ verdict.evidence # {}
                              /\ o.precondition # Unconditional =>
                             \E s \in Reachable : s \notin o.precondition
    BY DEF PassIsEarned
  <2> DEFINE o == claims[id]
  <2>2. /\ SearchInv /\ outcome # "searching" /\ claims \in Claims /\ requested \subseteq Ids
        /\ Made(receipt, claims, requested) /\ receipt.verdict = "accepted"
        /\ Judged(verdict, receipt, claims)
    BY <2>1 DEF RunInv, ReceiptInv, VerdictInv, Passed
  <2>3. /\ Visited \subseteq Reachable
        /\ outcome = "exhaustive" => Visited = Reachable
    BY <2>2, SearchExact DEF ExhaustiveIsReachable
  <2>4. PICK evidence \in {CoverageOf(claims), {}}, clean \in BOOLEAN :
          verdict = [result |-> RunAudit(receipt, evidence, clean), evidence |-> evidence]
    BY <2>2 DEF Judged
  <2>5. Exercised(receipt) /\ HypothesesTested(evidence) /\ verdict.evidence = evidence
    <3>1. RunAudit(receipt, evidence, clean) = "pass"  BY <2>1, <2>4 DEF Passed
    <3>2. QED  BY <2>4, <3>1 DEF RunAudit
  <2>6. /\ Status(o) # "failed"
        /\ id \in requested => /\ receipt.obligations[id] = Status(o)
                               /\ id \in DOMAIN receipt.obligations
    <3>1. /\ requested \subseteq DOMAIN receipt.obligations
          /\ \A i \in DOMAIN claims : Status(claims[i]) # "failed"
          /\ \A i \in requested \cap DOMAIN claims : receipt.obligations[i] = Status(claims[i])
      BY <2>2, ReceiptFacts
    <3>2. QED  BY <2>1, <3>1
  <2>7. id \in requested => Status(o) \notin {"vacuous", "not-exercised"}
    BY <2>5, <2>6 DEF Exercised, Range
  <2> HIDE DEF o
  <2>8. /\ Status(o) \in Statuses
        /\ Status(o) = "held" => \E s \in Visited : Fires(o, s)
        /\ Status(o) # "failed" => \A s \in Visited : Holds(o, s)
    BY <2>2, StatusHonest
  <2>9. \A s \in IF outcome = "exhaustive" THEN Reachable ELSE Visited : Holds(o, s)
    BY <2>3, <2>6, <2>8
  <2>10. id \in requested => \E s \in Visited : Fires(o, s)
    BY <2>6, <2>7, <2>8 DEF Statuses
  <2>11. ASSUME id \in requested, evidence # {}, o.precondition # Unconditional
         PROVE  \E s \in Visited : s \notin o.precondition
    <3>1. Coverage(o) \in evidence
      <4>1. evidence = CoverageOf(claims)  BY <2>4, <2>11
      <4>2. QED  BY <2>1, <4>1 DEF CoverageOf, o
    <3>2. ~Untested(Coverage(o))  BY <2>5, <3>1 DEF HypothesesTested
    <3>3. /\ Coverage(o).conditional = TRUE
          /\ Coverage(o).satisfying = Cardinality(Visited \cap o.precondition)
          /\ Coverage(o).violating = Cardinality(Visited \ o.precondition)
      BY <2>11 DEF Coverage
    <3>4. Cardinality(Visited \cap o.precondition) # 0
      <4>1. IsFiniteSet(Visited \cap o.precondition)
        BY <2>2, VisitedFinite, FS_Subset DEF SearchInv
      <4>2. Visited \cap o.precondition # {}
        BY <2>10, <2>11 DEF Fires
      <4>3. QED  BY <4>1, <4>2, FS_EmptySet
    <3>5. Cardinality(Visited \ o.precondition) # 0  BY <3>2, <3>3, <3>4 DEF Untested
    <3>6. Visited \ o.precondition # {}  BY <3>5, FS_EmptySet
    <3>7. QED  BY <3>6
  <2>12. QED  BY <2>3, <2>5, <2>9, <2>10, <2>11 DEF o
<1>2. QED  BY <1>1, RunInvariant, PTL

===============================================================================
