--------------------------- MODULE TargetQueueProofs ---------------------------
(***************************************************************************)
(* Proofs about TargetQueue, for every set of targets and candidates,      *)
(* every fault model and every bound.                                      *)
(*                                                                         *)
(* The first part is about logs alone: what appending one event does to    *)
(* the fold and to what a log says of a target.  The second part is the    *)
(* inductive invariant and the theorems.                                   *)
(***************************************************************************)
EXTENDS TargetQueue, EventLogProofs

Line == Event \cup {Torn}

(* About and Bindings have a last element whenever they are not empty, so the
   CHOOSE in the folds is the last event. *)
HasLast(lines) ==
  \A t \in Targets :
    /\ About(lines, t) # {} => \E i \in About(lines, t) : IsLast(About(lines, t), i)
    /\ Bindings(lines, t) # {} => \E i \in Bindings(lines, t) : IsLast(Bindings(lines, t), i)

(* The indices and lines of a log with one more event. *)
LEMMA AppendFacts ==
  ASSUME NEW L \in Seq(Line), NEW e \in Event
  PROVE  /\ Len(L) \in Nat
         /\ DOMAIN L = 1..Len(L)
         /\ Append(L, e) \in Seq(Line)
         /\ Len(Append(L, e)) = Len(L) + 1
         /\ DOMAIN Append(L, e) = 1..(Len(L) + 1)
         /\ Append(L, e)[Len(L) + 1] = e
         /\ \A i \in 1..Len(L) : Append(L, e)[i] = L[i]
BY AppendProperties, LenProperties DEF Line

(* One more event adds its own index to the events about its target, and to
   those of its kind, and no other. *)
LEMMA AboutAppend ==
  ASSUME NEW L \in Seq(Line), NEW e \in Event, NEW t
  PROVE  /\ About(Append(L, e), t) =
              IF e.target = t THEN About(L, t) \cup {Len(L) + 1} ELSE About(L, t)
         /\ Bindings(Append(L, e), t) =
              IF e.target = t /\ e.kind = "candidate_artifact"
                THEN Bindings(L, t) \cup {Len(L) + 1} ELSE Bindings(L, t)
         /\ \A kind : OfKind(Append(L, e), t, kind) =
              IF e.target = t /\ e.kind = kind
                THEN OfKind(L, t, kind) \cup {Len(L) + 1} ELSE OfKind(L, t, kind)
         /\ About(L, t) \subseteq 1..Len(L)
         /\ Bindings(L, t) \subseteq 1..Len(L)
         /\ \A kind : OfKind(L, t, kind) \subseteq 1..Len(L)
<1> DEFINE n == Len(L)
           M == Append(L, e)
<1>1. /\ n \in Nat /\ DOMAIN L = 1..n /\ DOMAIN M = 1..(n + 1)
      /\ M[n + 1] = e /\ \A i \in 1..n : M[i] = L[i]
  BY AppendFacts
<1>2. 1..(n + 1) = 1..n \cup {n + 1} /\ n + 1 \notin 1..n  BY <1>1
<1> HIDE DEF M, n
<1>3. About(M, t) = IF e.target = t THEN About(L, t) \cup {n + 1} ELSE About(L, t)
  BY <1>1, <1>2 DEF About
<1>4. About(L, t) \subseteq 1..n  BY <1>1 DEF About
<1>5. Bindings(M, t) = IF e.target = t /\ e.kind = "candidate_artifact"
                         THEN Bindings(L, t) \cup {n + 1} ELSE Bindings(L, t)
  BY <1>1, <1>2, <1>3, <1>4 DEF Bindings
<1>6. ASSUME NEW kind
      PROVE  OfKind(M, t, kind) = IF e.target = t /\ e.kind = kind
                THEN OfKind(L, t, kind) \cup {n + 1} ELSE OfKind(L, t, kind)
  BY <1>1, <1>2, <1>3, <1>4 DEF OfKind
<1>7. Bindings(L, t) \subseteq 1..n /\ \A kind : OfKind(L, t, kind) \subseteq 1..n
  BY <1>4 DEF Bindings, OfKind
<1>8. QED  BY <1>3, <1>4, <1>5, <1>6, <1>7 DEF M, n

(* A log still has its last events after one more event. *)
LEMMA HasLastAppend ==
  ASSUME NEW L \in Seq(Line), NEW e \in Event, HasLast(L)
  PROVE  HasLast(Append(L, e))
<1> DEFINE n == Len(L)
           M == Append(L, e)
<1> SUFFICES ASSUME NEW t \in Targets
             PROVE  /\ About(M, t) # {} => \E i \in About(M, t) : IsLast(About(M, t), i)
                    /\ Bindings(M, t) # {} => \E i \in Bindings(M, t) : IsLast(Bindings(M, t), i)
  BY DEF HasLast
<1>1. n \in Nat  BY AppendFacts
<1>2. About(L, t) \in SUBSET (1..n) /\ Bindings(L, t) \in SUBSET (1..n)  BY AboutAppend
<1>3. /\ About(M, t) = IF e.target = t THEN About(L, t) \cup {n + 1} ELSE About(L, t)
      /\ Bindings(M, t) = IF e.target = t /\ e.kind = "candidate_artifact"
                            THEN Bindings(L, t) \cup {n + 1} ELSE Bindings(L, t)
  BY AboutAppend
<1> HIDE DEF n, M
<1>4. /\ IsLast(About(L, t) \cup {n + 1}, n + 1)
      /\ IsLast(Bindings(L, t) \cup {n + 1}, n + 1)
  BY <1>1, <1>2, LastFacts
<1>5. QED  BY <1>3, <1>4 DEF HasLast, IsLast

(* The fold of a log with one more event is the fold of the log, updated by
   the event: what the loops of _fold and _fold_candidates do, and what
   _append does to the cache. *)
LEMMA FoldAppend ==
  ASSUME NEW L \in Seq(Line), NEW e \in Event, HasLast(L)
  PROVE  /\ FoldState(Append(L, e)) = [FoldState(L) EXCEPT ![e.target] = e.to]
         /\ FoldCandidates(Append(L, e)) =
              IF e.kind = "candidate_artifact"
                THEN [FoldCandidates(L) EXCEPT ![e.target] = e.candidate]
                ELSE FoldCandidates(L)
<1> DEFINE n == Len(L)
           M == Append(L, e)
<1>1. n \in Nat /\ M[n + 1] = e /\ \A i \in 1..n : M[i] = L[i]  BY AppendFacts
<1>2. \A t : About(L, t) \in SUBSET (1..n) /\ Bindings(L, t) \in SUBSET (1..n)
  BY AboutAppend
<1>3. \A t : /\ About(M, t) = IF e.target = t THEN About(L, t) \cup {n + 1} ELSE About(L, t)
             /\ Bindings(M, t) = IF e.target = t /\ e.kind = "candidate_artifact"
                                   THEN Bindings(L, t) \cup {n + 1} ELSE Bindings(L, t)
  BY AboutAppend
<1> HIDE DEF n, M
<1>4. ASSUME NEW S \in SUBSET (1..n)
      PROVE  /\ LastOf(S \cup {n + 1}) = n + 1
             /\ (\E i \in S : IsLast(S, i)) => LastOf(S) \in 1..n
  BY <1>1, LastFacts DEF IsLast
<1>5. ASSUME NEW t \in Targets
      PROVE  FoldState(M)[t] = [FoldState(L) EXCEPT ![e.target] = e.to][t]
  <2>1. CASE e.target = t
    <3>1. About(M, t) # {} /\ LastOf(About(M, t)) = n + 1  BY <1>2, <1>3, <1>4, <2>1
    <3>2. FoldState(M)[t] = e.to  BY <1>1, <3>1 DEF FoldState
    <3>3. QED  BY <2>1, <3>2 DEF FoldState
  <2>2. CASE e.target # t
    <3>1. About(M, t) = About(L, t)  BY <1>3, <2>2
    <3>2. About(L, t) # {} => LastOf(About(L, t)) \in 1..n  BY <1>2, <1>4 DEF HasLast
    <3>3. FoldState(M)[t] = FoldState(L)[t]  BY <1>1, <3>1, <3>2 DEF FoldState
    <3>4. QED  BY <2>2, <3>3 DEF FoldState
  <2>3. QED  BY <2>1, <2>2
<1>6. FoldState(M) = [FoldState(L) EXCEPT ![e.target] = e.to]
  BY <1>5 DEF FoldState
<1>7. ASSUME NEW t \in Targets
      PROVE  FoldCandidates(M)[t] =
               IF e.target = t /\ e.kind = "candidate_artifact"
                 THEN e.candidate ELSE FoldCandidates(L)[t]
  <2>1. CASE e.target = t /\ e.kind = "candidate_artifact"
    <3>1. Bindings(M, t) # {} /\ LastOf(Bindings(M, t)) = n + 1  BY <1>2, <1>3, <1>4, <2>1
    <3>2. QED  BY <1>1, <2>1, <3>1 DEF FoldCandidates
  <2>2. CASE ~(e.target = t /\ e.kind = "candidate_artifact")
    <3>1. Bindings(M, t) = Bindings(L, t)  BY <1>3, <2>2
    <3>2. Bindings(L, t) # {} => LastOf(Bindings(L, t)) \in 1..n  BY <1>2, <1>4 DEF HasLast
    <3>3. QED  BY <1>1, <2>2, <3>1, <3>2 DEF FoldCandidates
  <2>3. QED  BY <2>1, <2>2
<1>8. FoldCandidates(M) = IF e.kind = "candidate_artifact"
                            THEN [FoldCandidates(L) EXCEPT ![e.target] = e.candidate]
                            ELSE FoldCandidates(L)
  BY <1>7 DEF FoldCandidates
<1>9. QED  BY <1>6, <1>8 DEF M

-------------------------------------------------------------------------------
(* What a log says of a target *)

(* An event leaves alone what the log says through artifacts of another kind,
   and everything it says of another target. *)
LEMMA StandingKept ==
  ASSUME NEW L \in Seq(Line), NEW e \in Event, NEW t, NEW kind, NEW verdict,
         e.target = t => e.kind # "candidate_artifact" /\ e.kind # kind,
         Standing(L, t, kind, verdict)
  PROVE  Standing(Append(L, e), t, kind, verdict)
<1>1. Bindings(Append(L, e), t) = Bindings(L, t)  BY AboutAppend
<1>2. OfKind(Append(L, e), t, kind) = OfKind(L, t, kind)
  <2>1. OfKind(Append(L, e), t, kind) =
          IF e.target = t /\ e.kind = kind
            THEN OfKind(L, t, kind) \cup {Len(L) + 1} ELSE OfKind(L, t, kind)
    BY AboutAppend
  <2>2. ~(e.target = t /\ e.kind = kind)  OBVIOUS
  <2>3. QED  BY <2>1, <2>2
<1>3. /\ DOMAIN L = 1..Len(L) /\ DOMAIN Append(L, e) = 1..(Len(L) + 1) /\ Len(L) \in Nat
      /\ \A i \in 1..Len(L) : Append(L, e)[i] = L[i]
  BY AppendFacts
<1>4. QED  BY <1>1, <1>2, <1>3 DEF Standing

(* Only a candidate event about the target rebinds it. *)
LEMMA BoundKept ==
  ASSUME NEW L \in Seq(Line), NEW e \in Event, NEW t, NEW c,
         e.target = t => e.kind # "candidate_artifact",
         BoundTo(L, t, c)
  PROVE  BoundTo(Append(L, e), t, c)
<1>1. Bindings(Append(L, e), t) = Bindings(L, t)  BY AboutAppend
<1>2. /\ DOMAIN L = 1..Len(L) /\ DOMAIN Append(L, e) = 1..(Len(L) + 1) /\ Len(L) \in Nat
      /\ \A i \in 1..Len(L) : Append(L, e)[i] = L[i]
  BY AppendFacts
<1>3. QED  BY <1>1, <1>2 DEF BoundTo

(* A candidate event binds its target. *)
LEMMA BoundNew ==
  ASSUME NEW L \in Seq(Line), NEW e \in Event, e.kind = "candidate_artifact"
  PROVE  BoundTo(Append(L, e), e.target, e.candidate)
<1> DEFINE n == Len(L)
           M == Append(L, e)
<1>1. n \in Nat /\ DOMAIN M = 1..(n + 1) /\ M[n + 1] = e  BY AppendFacts
<1>2. Bindings(M, e.target) = Bindings(L, e.target) \cup {n + 1}  BY AboutAppend
<1>3. Bindings(L, e.target) \in SUBSET (1..n)  BY AboutAppend
<1>4. IsLast(Bindings(M, e.target), n + 1)  BY <1>1, <1>2, <1>3, LastFacts
<1>5. n + 1 \in DOMAIN M  BY <1>1
<1>6. QED  BY <1>1, <1>4, <1>5 DEF BoundTo

(* An artifact about the candidate its target is bound to stands, with its
   own verdict. *)
LEMMA StandingNew ==
  ASSUME NEW L \in Seq(Line), NEW e \in Event,
         e.kind # "candidate_artifact",
         BoundTo(L, e.target, e.candidate)
  PROVE  Standing(Append(L, e), e.target, e.kind, e.verdict)
<1> DEFINE n == Len(L)
           M == Append(L, e)
           t == e.target
<1>1. /\ n \in Nat /\ DOMAIN L = 1..n /\ DOMAIN M = 1..(n + 1) /\ M[n + 1] = e
      /\ \A i \in 1..n : M[i] = L[i]
  BY AppendFacts
<1>2. PICK i \in 1..n : IsLast(Bindings(L, t), i) /\ L[i].candidate = e.candidate
  BY <1>1 DEF BoundTo
<1>3. IsLast(Bindings(M, t), i) /\ M[i].candidate = e.candidate
  BY <1>1, <1>2, AboutAppend
<1>4. OfKind(M, t, e.kind) = OfKind(L, t, e.kind) \cup {n + 1}  BY AboutAppend
<1>5. OfKind(L, t, e.kind) \in SUBSET (1..n)  BY AboutAppend
<1>6. IsLast(OfKind(M, t, e.kind), n + 1)
  <2>1. IsLast(OfKind(L, t, e.kind) \cup {n + 1}, n + 1)  BY <1>1, <1>5, LastFacts
  <2>2. QED  BY <1>4, <2>1
<1>7. i \in DOMAIN M /\ n + 1 \in DOMAIN M /\ i < n + 1  BY <1>1
<1>8. QED  BY <1>1, <1>3, <1>6, <1>7 DEF Standing

(* A log that does not accept a target accepts it after one more event only
   if that event does. *)
LEMMA AcceptsAppend ==
  ASSUME NEW L \in Seq(Line), NEW e \in Event, NEW t, ~Accepts(L, t),
         e.target = t => e.to # "accepted"
  PROVE  ~Accepts(Append(L, e), t)
<1>1. /\ Len(L) \in Nat /\ Append(L, e)[Len(L) + 1] = e
      /\ \A i \in 1..Len(L) : Append(L, e)[i] = L[i]
  BY AppendFacts
<1>2. About(L, t) \subseteq 1..Len(L) /\
      About(Append(L, e), t) =
        IF e.target = t THEN About(L, t) \cup {Len(L) + 1} ELSE About(L, t)
  BY AboutAppend
<1>3. QED  BY <1>1, <1>2 DEF Accepts

(* Two candidates cannot both be the one a log binds a target to, and the fold
   gives that one. *)
LEMMA BoundIsFold ==
  ASSUME NEW L \in Seq(Line), NEW t \in Targets, NEW c, BoundTo(L, t, c)
  PROVE  FoldCandidates(L)[t] = c
<1>1. PICK i \in DOMAIN L : IsLast(Bindings(L, t), i) /\ L[i].candidate = c
  BY DEF BoundTo
<1>2. Len(L) \in Nat /\ DOMAIN L = 1..Len(L)  BY LenProperties
<1>3. Bindings(L, t) \in SUBSET (1..Len(L))  BY <1>2 DEF Bindings, About
<1>4. LastOf(Bindings(L, t)) = i  BY <1>1, <1>2, <1>3, LastFacts
<1>5. Bindings(L, t) # {}  BY <1>1 DEF IsLast
<1>6. QED  BY <1>1, <1>4, <1>5 DEF FoldCandidates

(* What came before a line does not change when the log grows. *)
LEMMA PriorAppend ==
  ASSUME NEW L \in Seq(Line), NEW e \in Event
  PROVE  /\ \A k \in 1..Len(L) : Prior(Append(L, e), k) = Prior(L, k)
         /\ Prior(Append(L, e), Len(L) + 1) = L
<1> DEFINE n == Len(L)
           M == Append(L, e)
<1>1. /\ n \in Nat /\ M \in Seq(Line) /\ Len(M) = n + 1
      /\ \A i \in 1..n : M[i] = L[i] /\ L[i] \in Line
  BY AppendFacts, ElementOfSeq
<1> HIDE DEF n, M
<1>2. ASSUME NEW k \in 1..(n + 1)
      PROVE  /\ SubSeq(M, 1, k - 1) \in Seq(Line)
             /\ Len(SubSeq(M, 1, k - 1)) = k - 1
             /\ \A i \in 1..(k - 1) : SubSeq(M, 1, k - 1)[i] = M[i]
  <2>1. k - 1 \in Int /\ 1 \in Int /\ \A i \in 1..(k - 1) : M[i] \in Line  BY <1>1
  <2>2. QED  BY <1>1, <2>1, SubSeqProperties
<1>3. ASSUME NEW k \in 1..n
      PROVE  /\ SubSeq(L, 1, k - 1) \in Seq(Line)
             /\ Len(SubSeq(L, 1, k - 1)) = k - 1
             /\ \A i \in 1..(k - 1) : SubSeq(L, 1, k - 1)[i] = L[i]
  <2>1. k - 1 \in Int /\ 1 \in Int /\ \A i \in 1..(k - 1) : L[i] \in Line  BY <1>1
  <2>2. QED  BY <1>1, <2>1, SubSeqProperties
<1>4. ASSUME NEW k \in 1..n  PROVE  Prior(M, k) = Prior(L, k)
  <2>1. k \in 1..(n + 1) /\ 1..(k - 1) \subseteq 1..n  BY <1>1
  <2>2. QED  BY <1>1, <1>2, <1>3, <2>1, SeqEqual DEF Prior
<1>5. Prior(M, n + 1) = L
  <2>1. n + 1 \in 1..(n + 1) /\ n + 1 - 1 = n  BY <1>1
  <2>2. QED  BY <1>1, <1>2, <2>1, SeqEqual DEF Prior, n
<1>6. QED  BY <1>4, <1>5 DEF n, M

-------------------------------------------------------------------------------
(* Why every event the queue writes rests on what the log says *)

(* What the properties demand of an event e recorded on a log. *)
EventOK(lines, e) ==
  /\ AcceptanceRests(lines, e)
  /\ DecisionRests(lines, e)
  /\ ~Accepts(lines, e.target)

ChainOK(lines) == \A k \in DOMAIN lines : EventOK(Prior(lines, k), lines[k])

(* What the log must say of t for a queue that has t in state s, bound to c,
   to act on it.  It is asked of the cache, and of the fold a replayed queue
   starts from.  In audited nothing is asked: the event that leaves it is
   written by the call that entered it. *)
Supports(lines, t, s, c) ==
  /\ s \in {"candidate-produced", "kernel-checked"} => BoundTo(lines, t, c)
  /\ s = "kernel-checked"  => Standing(lines, t, "kernel_receipt", "accepted")
  /\ s = "kernel-rejected" => Standing(lines, t, "kernel_receipt", "rejected")
  /\ s = "checker-error"   => Standing(lines, t, "kernel_receipt", "error")
  /\ s = "audit-rejected"  => Standing(lines, t, "audit_verdict", "fail")
  /\ s \notin {"audited", "accepted"} => ~Accepts(lines, t)

(* Between the two appends of record_audit. *)
HalfAudited(lines, t, c, verdict) ==
  /\ BoundTo(lines, t, c)
  /\ Standing(lines, t, "kernel_receipt", "accepted")
  /\ Standing(lines, t, "audit_verdict", verdict)
  /\ ~Accepts(lines, t)

Quiet == {"target_entry", "attempt_started", "no_candidate_produced",
          "requeue_decision", "abandon_decision"}

(* An event some public method writes for a queue that has e.target in state
   e.from, bound to c. *)
Legal(lines, e, c) ==
  \/ /\ e.kind \in Quiet
     /\ e.to \in {"queued", "attempting", "abandoned"}
     /\ e.from \notin {"audited", "accepted"}
     /\ e.kind \in {"requeue_decision", "abandon_decision"} =>
          e.from \in {"kernel-rejected", "checker-error", "audit-rejected"}
  \/ /\ e.kind = "candidate_artifact"
     /\ e.from = "attempting"
     /\ e.to = "candidate-produced"
  \/ /\ e.kind = "kernel_receipt"
     /\ e.from = "candidate-produced"
     /\ e.candidate = c
     /\ \/ e.verdict = "accepted" /\ e.to = "kernel-checked"
        \/ e.verdict = "error" /\ e.to = "checker-error"
        \/ e.verdict = "rejected" /\ e.to = "kernel-rejected"
  \/ /\ e.kind = "audit_verdict"
     /\ e.from = "kernel-checked"
     /\ e.to = "audited"
     /\ e.candidate = c
  \/ /\ e.kind = "audit_verdict"
     /\ e.from = "audited"
     /\ e.candidate = c
     /\ HalfAudited(lines, e.target, c, e.verdict)
     /\ \/ e.verdict = "pass" /\ e.to = "accepted"
        \/ e.verdict = "fail" /\ e.to = "audit-rejected"

(* A legal event rests on the log; once on it, it supports the state it
   enters and still supports the state it left, which is where a queue whose
   append raised after reaching the disk remains. *)
LEMMA LegalEvent ==
  ASSUME NEW L \in Seq(Line), NEW e \in Event, NEW c,
         Legal(L, e, c), Supports(L, e.target, e.from, c)
  PROVE  /\ EventOK(L, e)
         /\ Supports(Append(L, e), e.target, e.to,
                     IF e.kind = "candidate_artifact" THEN e.candidate ELSE c)
         /\ Supports(Append(L, e), e.target, e.from, c)
<1> DEFINE M == Append(L, e)
           t == e.target
<1>1. \A kind, verdict :
        e.kind # "candidate_artifact" /\ e.kind # kind /\ Standing(L, t, kind, verdict)
          => Standing(M, t, kind, verdict)
  BY StandingKept
<1>2. e.kind # "candidate_artifact" /\ BoundTo(L, t, c) => BoundTo(M, t, c)
  BY BoundKept
<1>3. e.to # "accepted" /\ ~Accepts(L, t) => ~Accepts(M, t)
  BY AcceptsAppend
<1> HIDE DEF M, t
<1>4. CASE /\ e.kind \in Quiet
           /\ e.to \in {"queued", "attempting", "abandoned"}
           /\ e.from \notin {"audited", "accepted"}
           /\ e.kind \in {"requeue_decision", "abandon_decision"} =>
                e.from \in {"kernel-rejected", "checker-error", "audit-rejected"}
  <2>1. ~Accepts(L, t) /\ ~Accepts(M, t)  BY <1>3, <1>4 DEF Supports, t
  <2>2. EventOK(L, e)  BY <1>4, <2>1 DEF EventOK, AcceptanceRests, DecisionRests, Supports, t
  <2>3. Supports(M, t, e.to, c)  BY <1>4, <2>1 DEF Supports
  <2>4. Supports(M, t, e.from, c)
    BY <1>1, <1>2, <1>4, <2>1 DEF Supports, Quiet, t
  <2>5. QED  BY <1>4, <2>2, <2>3, <2>4 DEF Quiet, M, t
<1>5. CASE /\ e.kind = "candidate_artifact"
           /\ e.from = "attempting"
           /\ e.to = "candidate-produced"
  <2>1. ~Accepts(L, t) /\ ~Accepts(M, t)  BY <1>3, <1>5 DEF Supports, t
  <2>2. BoundTo(M, t, e.candidate)  BY <1>5, BoundNew DEF M, t
  <2>3. EventOK(L, e)  BY <1>5, <2>1 DEF EventOK, AcceptanceRests, DecisionRests, t
  <2>4. QED  BY <1>5, <2>1, <2>2, <2>3 DEF Supports, M, t
<1>6. CASE /\ e.kind = "kernel_receipt"
           /\ e.from = "candidate-produced"
           /\ e.candidate = c
           /\ \/ e.verdict = "accepted" /\ e.to = "kernel-checked"
              \/ e.verdict = "error" /\ e.to = "checker-error"
              \/ e.verdict = "rejected" /\ e.to = "kernel-rejected"
  <2>1. ~Accepts(L, t) /\ ~Accepts(M, t)  BY <1>3, <1>6 DEF Supports, t
  <2>2. BoundTo(L, t, c) /\ BoundTo(M, t, c)  BY <1>2, <1>6 DEF Supports, t
  <2>3. Standing(M, t, "kernel_receipt", e.verdict)  BY <1>6, <2>2, StandingNew DEF M, t
  <2>4. EventOK(L, e)  BY <1>6, <2>1 DEF EventOK, AcceptanceRests, DecisionRests, t
  <2>5. QED  BY <1>6, <2>1, <2>2, <2>3, <2>4 DEF Supports, M, t
<1>7. CASE /\ e.kind = "audit_verdict"
           /\ e.from = "kernel-checked"
           /\ e.to = "audited"
           /\ e.candidate = c
  <2>1. ~Accepts(L, t) /\ ~Accepts(M, t)  BY <1>3, <1>7 DEF Supports, t
  <2>2. BoundTo(M, t, c)  BY <1>2, <1>7 DEF Supports, t
  <2>3. Standing(M, t, "kernel_receipt", "accepted")  BY <1>1, <1>7 DEF Supports, t
  <2>4. EventOK(L, e)  BY <1>7, <2>1 DEF EventOK, AcceptanceRests, DecisionRests, t
  <2>5. QED  BY <1>7, <2>1, <2>2, <2>3, <2>4 DEF Supports, M, t
<1>8. CASE /\ e.kind = "audit_verdict"
           /\ e.from = "audited"
           /\ e.candidate = c
           /\ HalfAudited(L, e.target, c, e.verdict)
           /\ \/ e.verdict = "pass" /\ e.to = "accepted"
              \/ e.verdict = "fail" /\ e.to = "audit-rejected"
  <2>1. ~Accepts(L, t) /\ BoundTo(L, t, c)  BY <1>8 DEF HalfAudited, t
  <2>2. EventOK(L, e)
    BY <1>8, <2>1 DEF EventOK, AcceptanceRests, DecisionRests, HalfAudited, t
  <2>3. Standing(M, t, "audit_verdict", e.verdict)  BY <1>8, <2>1, StandingNew DEF M, t
  <2>4. QED  BY <1>3, <1>8, <2>1, <2>2, <2>3 DEF Supports, M, t
<1>9. QED  BY <1>4, <1>5, <1>6, <1>7, <1>8 DEF Legal

(* The first append of record_audit leaves the log halfway. *)
LEMMA FirstHop ==
  ASSUME NEW L \in Seq(Line), NEW e \in Event, NEW c,
         e.kind = "audit_verdict", e.to = "audited", e.candidate = c,
         Supports(L, e.target, "kernel-checked", c)
  PROVE  HalfAudited(Append(L, e), e.target, c, e.verdict)
<1>1. BoundTo(L, e.target, c) /\ ~Accepts(L, e.target)
      /\ Standing(L, e.target, "kernel_receipt", "accepted")
  BY DEF Supports
<1>2. BoundTo(Append(L, e), e.target, c)  BY <1>1, BoundKept
<1>3. Standing(Append(L, e), e.target, "kernel_receipt", "accepted")  BY <1>1, StandingKept
<1>4. Standing(Append(L, e), e.target, "audit_verdict", e.verdict)  BY <1>1, StandingNew
<1>5. ~Accepts(Append(L, e), e.target)  BY <1>1, AcceptsAppend
<1>6. QED  BY <1>2, <1>3, <1>4, <1>5 DEF HalfAudited

(* An event about one target takes no support from another. *)
LEMMA SupportsKept ==
  ASSUME NEW L \in Seq(Line), NEW e \in Event, NEW t, NEW s, NEW c,
         t # e.target, Supports(L, t, s, c)
  PROVE  Supports(Append(L, e), t, s, c)
<1>1. BoundTo(L, t, c) => BoundTo(Append(L, e), t, c)  BY BoundKept
<1>2. \A kind, verdict : Standing(L, t, kind, verdict) => Standing(Append(L, e), t, kind, verdict)
  BY StandingKept
<1>3. ~Accepts(L, t) => ~Accepts(Append(L, e), t)  BY AcceptsAppend
<1>4. QED  BY <1>1, <1>2, <1>3 DEF Supports

(* The log half of the inductive invariant. *)
LogInv(lines) ==
  /\ HasLast(lines)
  /\ ChainOK(lines)
  /\ \A t \in Targets : Supports(lines, t, FoldState(lines)[t], FoldCandidates(lines)[t])

(* A legal event keeps the log half of the invariant. *)
LEMMA LogInvAppend ==
  ASSUME NEW L \in Seq(Line), NEW e \in Event, NEW c,
         LogInv(L), Legal(L, e, c), Supports(L, e.target, e.from, c)
  PROVE  LogInv(Append(L, e))
<1> DEFINE M == Append(L, e)
           d == IF e.kind = "candidate_artifact" THEN e.candidate ELSE c
<1>1. /\ EventOK(L, e)
      /\ Supports(M, e.target, e.to, d)
  BY LegalEvent
<1>2. HasLast(M)  BY HasLastAppend DEF LogInv
<1>3. ChainOK(M)
  <2>1. SUFFICES ASSUME NEW k \in DOMAIN M  PROVE EventOK(Prior(M, k), M[k])
    BY DEF ChainOK
  <2>2. /\ Len(L) \in Nat /\ DOMAIN L = 1..Len(L) /\ DOMAIN M = 1..(Len(L) + 1)
        /\ M[Len(L) + 1] = e
        /\ \A i \in 1..Len(L) : M[i] = L[i]
    BY AppendFacts
  <2>3. CASE k \in 1..Len(L)
    <3>1. Prior(M, k) = Prior(L, k) /\ M[k] = L[k]  BY <2>2, <2>3, PriorAppend
    <3>2. EventOK(Prior(L, k), L[k])  BY <2>2, <2>3 DEF LogInv, ChainOK
    <3>3. QED  BY <3>1, <3>2
  <2>4. CASE k = Len(L) + 1
    <3>1. Prior(M, Len(L) + 1) = L  BY PriorAppend
    <3>2. QED  BY <1>1, <2>2, <2>4, <3>1
  <2>5. QED  BY <2>2, <2>3, <2>4
<1>4. ASSUME NEW t \in Targets
      PROVE  Supports(M, t, FoldState(M)[t], FoldCandidates(M)[t])
  <2>1. HasLast(L) /\ Supports(L, t, FoldState(L)[t], FoldCandidates(L)[t])  BY DEF LogInv
  <2>2. /\ FoldState(M) = [FoldState(L) EXCEPT ![e.target] = e.to]
        /\ FoldCandidates(M) = IF e.kind = "candidate_artifact"
                                 THEN [FoldCandidates(L) EXCEPT ![e.target] = e.candidate]
                                 ELSE FoldCandidates(L)
    BY <2>1, FoldAppend
  <2>3. e.target \in Targets  BY DEF Event
  <2>4. CASE t = e.target
    <3>1. FoldState(M)[t] = e.to  BY <2>2, <2>4 DEF FoldState
    <3>2. BoundTo(M, t, d) => FoldCandidates(M)[t] = d  BY AppendFacts, BoundIsFold
    <3>3. e.to \notin {"candidate-produced", "kernel-checked"} \/ BoundTo(M, t, d)
      BY <1>1, <2>4 DEF Supports
    <3>4. QED  BY <1>1, <2>4, <3>1, <3>2, <3>3 DEF Supports
  <2>5. CASE t # e.target
    <3>1. FoldState(M)[t] = FoldState(L)[t] /\ FoldCandidates(M)[t] = FoldCandidates(L)[t]
      BY <2>2, <2>3, <2>5 DEF FoldState, FoldCandidates
    <3>2. QED  BY <2>1, <2>5, <3>1, SupportsKept
  <2>6. QED  BY <2>4, <2>5
<1>5. QED  BY <1>2, <1>3, <1>4 DEF LogInv

-------------------------------------------------------------------------------
(* The inductive invariant: as long as the log can be read, the log supports
   its own fold, and it supports the cache of a queue that is up.  The second
   half is not CacheIsFold: an append that raised may have left the cache
   behind the log. *)

MemInv(lines) == \A t \in Targets : Supports(lines, t, state[t], candidate[t])

QueueInv ==
  /\ TypeOK
  /\ Readable(file) => LogInv(file.lines) /\ (up => MemInv(file.lines))

(* A log is a sequence of lines whatever it holds. *)
LEMMA FileFacts ==
  ASSUME NEW f \in Files(Event)
  PROVE  f.lines \in Seq(Line)
BY DEF Files, Line

(* What one append does, whichever way it ends, on a file f that a readable
   log and a cache s support: the file f2 it leaves, and the cache s2, c2 of
   a queue that is still up. *)
LEMMA AppendOutcome ==
  ASSUME NEW f \in Files(Event), NEW e \in Event,
         NEW s, NEW c,
         NEW f2, f2 = Written(f, e) \/ (\E w \in Outcomes : f2 = Interrupted(f, e, w)),
         Readable(f2),
         Readable(f) => /\ LogInv(f.lines)
                        /\ \A t \in Targets : Supports(f.lines, t, s[t], c[t])
                        /\ Legal(f.lines, e, c[e.target])
                        /\ s[e.target] = e.from
  PROVE  /\ LogInv(f2.lines)
         /\ \A t \in Targets : Supports(f2.lines, t, s[t], c[t])
         /\ f2 = Written(f, e) =>
              /\ \A t \in Targets \ {e.target} : Supports(f2.lines, t, s[t], c[t])
              /\ Supports(f2.lines, e.target, e.to,
                          IF e.kind = "candidate_artifact" THEN e.candidate ELSE c[e.target])
<1> DEFINE L == f.lines
           M == Append(L, e)
           d == IF e.kind = "candidate_artifact" THEN e.candidate ELSE c[e.target]
<1>1. L \in Seq(Line) /\ e.target \in Targets  BY FileFacts DEF Event
<1>2. /\ Readable(f)
      /\ f2.lines = L \/ f2.lines = M
      /\ f2 = Written(f, e) => f2.lines = M
  BY WrittenExtends, InterruptedExtends DEF Extends
<1>3. /\ LogInv(L)
      /\ \A t \in Targets : Supports(L, t, s[t], c[t])
      /\ Legal(L, e, c[e.target])
      /\ s[e.target] = e.from
  BY <1>2
<1>4. Supports(L, e.target, e.from, c[e.target])  BY <1>1, <1>3
<1>5. LogInv(M)  BY <1>1, <1>3, <1>4, LogInvAppend
<1>6. /\ Supports(M, e.target, e.to, d)
      /\ Supports(M, e.target, e.from, c[e.target])
  BY <1>1, <1>3, <1>4, LegalEvent
<1>7. \A t \in Targets \ {e.target} : Supports(M, t, s[t], c[t])
  BY <1>1, <1>3, SupportsKept
<1>8. \A t \in Targets : Supports(M, t, s[t], c[t])  BY <1>3, <1>6, <1>7
<1>9. QED  BY <1>2, <1>3, <1>5, <1>6, <1>7, <1>8

(* The type of what a single append leaves. *)
LEMMA FailedInv ==
  ASSUME TypeOK, NEW f \in Files(Event), NEW e \in Event,
         NEW s \in [Targets -> States \cup {"absent"}],
         Readable(f) => /\ LogInv(f.lines)
                        /\ \A t \in Targets : Supports(f.lines, t, s[t], candidate[t])
                        /\ Legal(f.lines, e, candidate[e.target])
                        /\ s[e.target] = e.from,
         Failed(f, s, e)
  PROVE  QueueInv'
<1>1. \E w \in Outcomes : file' = Interrupted(f, e, w)
  BY OutcomesAssumption DEF Failed
<1>2. file' \in Files(Event)  BY <1>1, WriteType
<1>3. faults' \in 0..MaxFaults  BY BoundsAssumption DEF TypeOK, Failed
<1>4. \/ state' = s /\ candidate' = candidate /\ up' = up
      \/ Down
  BY DEF Failed
<1>5. TypeOK'  BY <1>2, <1>3, <1>4 DEF TypeOK, Down, Blank, Unbound
<1>6. ASSUME Readable(file')
      PROVE  /\ LogInv(file'.lines)
             /\ \A t \in Targets : Supports(file'.lines, t, s[t], candidate[t])
  BY <1>1, <1>6, AppendOutcome
<1>7. (Readable(file) => LogInv(file.lines) /\ (up => MemInv(file.lines)))'
  BY <1>4, <1>6 DEF Down, MemInv
<1>8. QED  BY <1>5, <1>7 DEF QueueInv

(* An append that returns and moves the cache with it. *)
LEMMA CommittedInv ==
  ASSUME QueueInv, up, NEW e \in Event, e.from = state[e.target],
         Readable(file) => Legal(file.lines, e, candidate[e.target]),
         Committed(e),
         candidate' = IF e.kind = "candidate_artifact"
                        THEN [candidate EXCEPT ![e.target] = e.candidate]
                        ELSE candidate
  PROVE  QueueInv'
<1>1. TypeOK /\ e.target \in Targets /\ e.to \in States
      /\ e.candidate \in Candidates \cup {NoCandidate}
  BY DEF QueueInv, Event
<1>2. file' = Written(file, e) /\ state' = [state EXCEPT ![e.target] = e.to]
      /\ up' = up /\ faults' = faults
  BY DEF Committed
<1>3. file \in Files(Event) /\ file' \in Files(Event)  BY <1>1, <1>2, WriteType DEF TypeOK
<1>4. TypeOK'  BY <1>1, <1>2, <1>3 DEF TypeOK
<1>5. Readable(file) => /\ LogInv(file.lines)
                        /\ \A t \in Targets : Supports(file.lines, t, state[t], candidate[t])
                        /\ Legal(file.lines, e, candidate[e.target])
                        /\ state[e.target] = e.from
  BY DEF QueueInv, MemInv
<1>6. ASSUME Readable(file')
      PROVE  LogInv(file'.lines) /\ MemInv(file.lines)'
  <2>1. /\ LogInv(file'.lines)
        /\ \A t \in Targets \ {e.target} : Supports(file'.lines, t, state[t], candidate[t])
        /\ Supports(file'.lines, e.target, e.to,
                    IF e.kind = "candidate_artifact" THEN e.candidate ELSE candidate[e.target])
    BY <1>2, <1>3, <1>5, <1>6, AppendOutcome
  <2>2. /\ state'[e.target] = e.to
        /\ candidate'[e.target] =
             IF e.kind = "candidate_artifact" THEN e.candidate ELSE candidate[e.target]
        /\ \A t \in Targets \ {e.target} : state'[t] = state[t] /\ candidate'[t] = candidate[t]
    BY <1>1, <1>2 DEF TypeOK
  <2>3. QED  BY <2>1, <2>2 DEF MemInv
<1>7. QED  BY <1>4, <1>6 DEF QueueInv

(* One call of _append that is the whole effect of its method. *)
LEMMA LogAppendInv ==
  ASSUME QueueInv, NEW e \in Event, e.from = state[e.target],
         e.kind # "candidate_artifact",
         Readable(file) => Legal(file.lines, e, candidate[e.target]),
         LogAppend(e)
  PROVE  QueueInv'
<1>1. up  BY DEF LogAppend
<1>2. CASE Committed(e) /\ UNCHANGED candidate
  BY <1>1, <1>2, CommittedInv
<1>3. CASE Failed(file, state, e)
  <2>1. TypeOK /\ file \in Files(Event) /\ state \in [Targets -> States \cup {"absent"}]
    BY DEF QueueInv, TypeOK
  <2>2. QED  BY <1>1, <1>3, <2>1, FailedInv DEF QueueInv, MemInv
<1>4. QED  BY <1>2, <1>3 DEF LogAppend

(* An event that carries no evidence about a candidate, written from a state
   the cache is in. *)
LEMMA PlainInv ==
  ASSUME QueueInv, NEW t \in Targets,
         NEW from \in States \cup {"absent"}, NEW to \in {"queued", "attempting", "abandoned"},
         NEW kind \in Quiet,
         from \notin {"audited", "accepted"},
         kind \in {"requeue_decision", "abandon_decision"} =>
           from \in {"kernel-rejected", "checker-error", "audit-rejected"},
         state[t] = from,
         LogAppend(Plain(t, from, to, kind))
  PROVE  QueueInv'
<1> DEFINE e == Plain(t, from, to, kind)
<1>1. /\ e \in Event /\ e.target = t /\ e.from = from /\ e.to = to /\ e.kind = kind
  BY DEF Plain, Hop, Event, States, Quiet
<1>2. Legal(file.lines, e, candidate[t])  BY <1>1 DEF Legal
<1>3. e.kind # "candidate_artifact"  BY <1>1 DEF Quiet
<1> HIDE DEF e
<1>4. LogAppend(e)  BY DEF e
<1>5. QED  BY <1>1, <1>2, <1>3, <1>4, LogAppendInv

(* record_candidate. *)
LEMMA RecordCandidateInv ==
  ASSUME QueueInv, NEW t \in Targets, NEW c \in Candidates, RecordCandidate(t, c)
  PROVE  QueueInv'
<1> DEFINE e == Hop(t, "attempting", "candidate-produced", "candidate_artifact", c, "none")
<1>1. /\ e \in Event /\ e.target = t /\ e.from = "attempting" /\ e.to = "candidate-produced"
      /\ e.kind = "candidate_artifact" /\ e.candidate = c
  BY DEF Hop, Event, States
<1>2. Legal(file.lines, e, candidate[t])  BY <1>1 DEF Legal
<1>3. /\ up /\ state[t] = "attempting"
      /\ \/ Committed(e) /\ candidate' = [candidate EXCEPT ![t] = c]
         \/ Failed(file, state, e)
  BY DEF RecordCandidate
<1> HIDE DEF e
<1>4. CASE Committed(e) /\ candidate' = [candidate EXCEPT ![t] = c]
  BY <1>1, <1>2, <1>3, <1>4, CommittedInv
<1>5. CASE Failed(file, state, e)
  <2>1. TypeOK /\ file \in Files(Event) /\ state \in [Targets -> States \cup {"absent"}]
    BY DEF QueueInv, TypeOK
  <2>2. QED  BY <1>1, <1>2, <1>3, <1>5, <2>1, FailedInv DEF QueueInv, MemInv
<1>6. QED  BY <1>3, <1>4, <1>5

(* record_kernel_receipt. *)
LEMMA RecordKernelReceiptInv ==
  ASSUME QueueInv, NEW t \in Targets, NEW r \in Receipts, RecordKernelReceipt(t, r)
  PROVE  QueueInv'
<1> DEFINE e == Hop(t, "candidate-produced", Ruling(r.verdict), "kernel_receipt",
                    r.candidate, r.verdict)
<1>1. /\ r.candidate \in Candidates
      /\ \/ r.verdict = "accepted" /\ Ruling(r.verdict) = "kernel-checked"
         \/ r.verdict = "error" /\ Ruling(r.verdict) = "checker-error"
         \/ r.verdict = "rejected" /\ Ruling(r.verdict) = "kernel-rejected"
  BY DEF Receipts, Ruling
<1>2. /\ e \in Event /\ e.target = t /\ e.from = "candidate-produced"
      /\ e.to = Ruling(r.verdict) /\ e.kind = "kernel_receipt"
      /\ e.candidate = r.candidate /\ e.verdict = r.verdict
  BY <1>1 DEF Hop, Event, States
<1>3. /\ state[t] = "candidate-produced" /\ r.candidate = candidate[t] /\ LogAppend(e)
  BY DEF RecordKernelReceipt, IsActive
<1> HIDE DEF e
<1>4. Legal(file.lines, e, candidate[t])  BY <1>1, <1>2, <1>3 DEF Legal
<1>5. QED  BY <1>2, <1>3, <1>4, LogAppendInv

(* record_audit: both appends return, the first does not, or the second. *)
LEMMA RecordAuditInv ==
  ASSUME QueueInv, NEW t \in Targets, NEW a \in Audits, RecordAudit(t, a)
  PROVE  QueueInv'
<1> DEFINE final  == IF a.verdict = "pass" THEN "accepted" ELSE "audit-rejected"
           first  == Hop(t, "kernel-checked", "audited", "audit_verdict", a.candidate, a.verdict)
           second == Hop(t, "audited", final, "audit_verdict", a.candidate, a.verdict)
           half   == Written(file, first)
           midway == [state EXCEPT ![t] = "audited"]
<1>1. a.candidate \in Candidates /\ a.verdict \in {"pass", "fail"}  BY DEF Audits
<1>2. /\ first \in Event /\ first.target = t /\ first.from = "kernel-checked"
      /\ first.to = "audited" /\ first.kind = "audit_verdict"
      /\ first.candidate = a.candidate /\ first.verdict = a.verdict
  BY <1>1 DEF Hop, Event, States
<1>3. /\ second \in Event /\ second.target = t /\ second.from = "audited"
      /\ second.to = final /\ second.kind = "audit_verdict"
      /\ second.candidate = a.candidate /\ second.verdict = a.verdict
  BY <1>1 DEF Hop, Event, States
<1>4. /\ up /\ state[t] = "kernel-checked" /\ a.candidate = candidate[t]
      /\ \/ /\ file' = Written(half, second)
            /\ state' = [state EXCEPT ![t] = final]
            /\ UNCHANGED <<up, candidate, faults>>
         \/ Failed(file, state, first)
         \/ Failed(half, midway, second)
  BY DEF RecordAudit, IsActive
<1>5. /\ TypeOK /\ file \in Files(Event) /\ half \in Files(Event)
      /\ state \in [Targets -> States \cup {"absent"}]
      /\ midway \in [Targets -> States \cup {"absent"}]
      /\ midway[t] = "audited"
      /\ \A u \in Targets \ {t} : midway[u] = state[u]
  BY <1>2, WriteType DEF QueueInv, TypeOK, States
<1>6. /\ final \in States
      /\ (a.verdict = "pass" /\ final = "accepted")
         \/ (a.verdict = "fail" /\ final = "audit-rejected")
  BY <1>1 DEF States
<1> HIDE DEF first, second, half, midway, final
<1>7. Readable(file) =>
        /\ LogInv(file.lines)
        /\ \A u \in Targets : Supports(file.lines, u, state[u], candidate[u])
        /\ Legal(file.lines, first, candidate[t])
        /\ state[t] = first.from
  BY <1>2, <1>4 DEF QueueInv, MemInv, Legal
<1>8. Readable(half) =>
        /\ LogInv(half.lines)
        /\ \A u \in Targets : Supports(half.lines, u, midway[u], candidate[u])
        /\ Legal(half.lines, second, candidate[t])
        /\ midway[t] = second.from
  <2>1. SUFFICES ASSUME Readable(half)
                 PROVE  /\ LogInv(half.lines)
                        /\ \A u \in Targets : Supports(half.lines, u, midway[u], candidate[u])
                        /\ Legal(half.lines, second, candidate[t])
    BY <1>3, <1>5
  <2>2. LogInv(half.lines)
    BY <1>2, <1>5, <1>7, <2>1, AppendOutcome DEF half
  <2>3. /\ \A u \in Targets \ {t} : Supports(half.lines, u, state[u], candidate[u])
        /\ Supports(half.lines, t, "audited", candidate[t])
    BY <1>2, <1>5, <1>7, <2>1, AppendOutcome DEF half
  <2>4. Readable(file) /\ half.lines = Append(file.lines, first)
    BY <1>2, <1>5, <2>1, WrittenExtends DEF half
  <2>5. HalfAudited(half.lines, t, candidate[t], a.verdict)
    <3>1. Supports(file.lines, t, "kernel-checked", candidate[t])  BY <1>4, <1>7, <2>4
    <3>2. QED  BY <1>2, <1>4, <1>5, <2>4, <3>1, FirstHop, FileFacts
  <2>6. Legal(half.lines, second, candidate[t])
    BY <1>3, <1>4, <1>6, <2>5 DEF Legal
  <2>7. QED  BY <1>5, <2>2, <2>3, <2>6
<1>9. CASE /\ file' = Written(half, second)
           /\ state' = [state EXCEPT ![t] = final]
           /\ UNCHANGED <<up, candidate, faults>>
  <2>1. file' \in Files(Event)  BY <1>3, <1>5, <1>9, WriteType
  <2>2. TypeOK'  BY <1>5, <1>6, <1>9, <2>1 DEF TypeOK
  <2>3. ASSUME Readable(file')
        PROVE  LogInv(file'.lines) /\ MemInv(file.lines)'
    <3>1. /\ LogInv(file'.lines)
          /\ \A u \in Targets \ {t} : Supports(file'.lines, u, midway[u], candidate[u])
          /\ Supports(file'.lines, t, final, candidate[t])
      BY <1>3, <1>5, <1>8, <1>9, <2>3, AppendOutcome
    <3>2. /\ state'[t] = final /\ candidate' = candidate
          /\ \A u \in Targets \ {t} : state'[u] = midway[u]
      BY <1>5, <1>9
    <3>3. QED  BY <3>1, <3>2 DEF MemInv
  <2>4. QED  BY <2>2, <2>3 DEF QueueInv
<1>10. CASE Failed(file, state, first)
  BY <1>2, <1>5, <1>7, <1>10, FailedInv
<1>11. CASE Failed(half, midway, second)
  BY <1>3, <1>5, <1>8, <1>11, FailedInv
<1>12. QED  BY <1>4, <1>9, <1>10, <1>11

(* A queue that starts over from its log: the cache is the fold. *)
LEMMA ReplayInv ==
  ASSUME QueueInv, Replay
  PROVE  QueueInv'
<1>1. /\ Readable(file) /\ file' = file /\ faults' = faults /\ up' = TRUE
      /\ state' = FoldState(file.lines) /\ candidate' = FoldCandidates(file.lines)
      /\ TypeOK /\ LogInv(file.lines)
  BY DEF Replay, QueueInv
<1>2. \A i \in DOMAIN file.lines : file.lines[i] \in Event
  <2>1. file.lines \in Seq(Line)  BY <1>1, FileFacts DEF TypeOK
  <2>2. QED  BY <1>1, <2>1, LenProperties, ElementOfSeq DEF Readable, Line
<1>3. \A t \in Targets :
        /\ About(file.lines, t) # {} => LastOf(About(file.lines, t)) \in DOMAIN file.lines
        /\ Bindings(file.lines, t) # {} => LastOf(Bindings(file.lines, t)) \in DOMAIN file.lines
  BY <1>1 DEF LogInv, HasLast, LastOf, About, Bindings
<1>4. /\ FoldState(file.lines) \in [Targets -> States \cup {"absent"}]
      /\ FoldCandidates(file.lines) \in [Targets -> Candidates \cup {NoCandidate}]
  BY <1>2, <1>3 DEF FoldState, FoldCandidates, Event
<1>5. TypeOK'  BY <1>1, <1>4 DEF TypeOK
<1>6. MemInv(file.lines)'  BY <1>1 DEF LogInv, MemInv
<1>7. QED  BY <1>1, <1>5, <1>6 DEF QueueInv

(* The invariant holds of an empty log. *)
LEMMA QueueInvInit ==
  ASSUME Init
  PROVE  QueueInv
<1>1. file.lines = <<>> /\ ~file.open /\ file \in Files(Event)
  BY EmptySeq DEF Init, EmptyFile, Files
<1>2. TypeOK  BY <1>1, BoundsAssumption DEF Init, TypeOK, Blank, Unbound
<1>3. DOMAIN file.lines = {}  BY <1>1
<1>4. \A t : About(file.lines, t) = {} /\ Bindings(file.lines, t) = {}
  BY <1>3 DEF About, Bindings
<1>5. HasLast(file.lines) /\ ChainOK(file.lines)  BY <1>3, <1>4 DEF HasLast, ChainOK
<1>6. \A t \in Targets : FoldState(file.lines)[t] = "absent"  BY <1>4 DEF FoldState
<1>7. \A c : \A t \in Targets : Supports(file.lines, t, "absent", c)
  BY <1>4 DEF Supports, Accepts
<1>8. QED  BY <1>2, <1>5, <1>6, <1>7 DEF QueueInv, LogInv, MemInv, Init, Blank

(* Every step of the queue keeps the invariant. *)
LEMMA QueueInvNext ==
  ASSUME QueueInv, [Next]_vars
  PROVE  QueueInv'
<1> USE DEF States, Quiet
<1>1. ASSUME NEW t \in Targets, Enqueue(t)  PROVE QueueInv'
  BY <1>1, PlainInv DEF Enqueue
<1>2. ASSUME NEW t \in Targets, StartAttempt(t)  PROVE QueueInv'
  BY <1>2, PlainInv DEF StartAttempt
<1>3. ASSUME NEW t \in Targets, NEW c \in Candidates, RecordCandidate(t, c)  PROVE QueueInv'
  BY <1>3, RecordCandidateInv
<1>4. ASSUME NEW t \in Targets, NEW abandon \in BOOLEAN, RecordNoCandidate(t, abandon)
      PROVE  QueueInv'
  BY <1>4, PlainInv DEF RecordNoCandidate
<1>5. ASSUME NEW t \in Targets, NEW r \in Receipts, RecordKernelReceipt(t, r)
      PROVE  QueueInv'
  BY <1>5, RecordKernelReceiptInv
<1>6. ASSUME NEW t \in Targets, NEW a \in Audits, RecordAudit(t, a)  PROVE QueueInv'
  BY <1>6, RecordAuditInv
<1>7. ASSUME NEW t \in Targets, Decide(t)  PROVE QueueInv'
  <2>1. CASE RequeueFromKernelRejected(t)
    BY <2>1, PlainInv DEF RequeueFromKernelRejected
  <2>2. CASE AbandonFromKernelRejected(t)
    BY <2>2, PlainInv DEF AbandonFromKernelRejected
  <2>3. CASE RequeueFromCheckerError(t)
    BY <2>3, PlainInv DEF RequeueFromCheckerError
  <2>4. CASE AbandonFromCheckerError(t)
    BY <2>4, PlainInv DEF AbandonFromCheckerError
  <2>5. CASE RequeueFromAuditRejected(t)
    BY <2>5, PlainInv DEF RequeueFromAuditRejected
  <2>6. CASE AbandonFromAuditRejected(t)
    BY <2>6, PlainInv DEF AbandonFromAuditRejected
  <2>7. QED  BY <1>7, <2>1, <2>2, <2>3, <2>4, <2>5, <2>6 DEF Decide
<1>8. CASE Stop
  BY <1>8 DEF Stop, Down, QueueInv, TypeOK, Blank, Unbound, MemInv
<1>9. CASE Replay
  BY <1>9, ReplayInv
<1>10. CASE UNCHANGED vars
  BY <1>10 DEF vars, QueueInv, TypeOK, MemInv
<1>11. QED
  BY <1>1, <1>2, <1>3, <1>4, <1>5, <1>6, <1>7, <1>8, <1>9, <1>10 DEF Next

-------------------------------------------------------------------------------
(* The theorems *)

(* The inductive invariant holds in every reachable state. *)
THEOREM QueueInvariant == Spec => []QueueInv
<1>1. Init => QueueInv  BY QueueInvInit
<1>2. QueueInv /\ [Next]_vars => QueueInv'  BY QueueInvNext
<1>3. QED  BY <1>1, <1>2, PTL DEF Spec

(* Every variable keeps its type, whatever the appends do (queue.py,
   TargetQueue). *)
THEOREM TypeCorrect == Spec => []TypeOK
<1>1. QueueInv => TypeOK  BY DEF QueueInv
<1>2. QED  BY <1>1, QueueInvariant, PTL

(* No acceptance without the whole chain of evidence about one candidate
   (record_kernel_receipt, record_audit and _require_active_candidate). *)
THEOREM AcceptanceIsEarned == Spec => []EvidenceChain
<1>1. QueueInv => EvidenceChain
  BY DEF QueueInv, LogInv, ChainOK, EventOK, EvidenceChain
<1>2. QED  BY <1>1, QueueInvariant, PTL

(* No decision to retry or abandon without the verdict it answers (the six
   requeue_from and abandon_from methods). *)
THEOREM DecisionsAreEarned == Spec => []DecisionsAnswerVerdicts
<1>1. QueueInv => DecisionsAnswerVerdicts
  BY DEF QueueInv, LogInv, ChainOK, EventOK, DecisionsAnswerVerdicts
<1>2. QED  BY <1>1, QueueInvariant, PTL

(* No event about a target after its acceptance. *)
THEOREM AcceptanceIsFinal == Spec => []NothingAfterAcceptance
<1>1. QueueInv => NothingAfterAcceptance
  BY DEF QueueInv, LogInv, ChainOK, EventOK, NothingAfterAcceptance
<1>2. QED  BY <1>1, QueueInvariant, PTL

-------------------------------------------------------------------------------
(* A process that hears of every record that reached the disk *)

Walk(lines) ==
  \A k \in DOMAIN lines : lines[k].from = FoldState(Prior(lines, k))[lines[k].target]

FailStopInv == CacheIsFold /\ LogIsWalk

(* An event that leaves the state the log folds to extends the walk. *)
LEMMA WalkAppend ==
  ASSUME NEW L \in Seq(Line), NEW e \in Event,
         Walk(L), e.from = FoldState(L)[e.target]
  PROVE  Walk(Append(L, e))
<1>1. /\ Len(L) \in Nat /\ DOMAIN L = 1..Len(L) /\ DOMAIN Append(L, e) = 1..(Len(L) + 1)
      /\ Append(L, e)[Len(L) + 1] = e
      /\ \A i \in 1..Len(L) : Append(L, e)[i] = L[i]
  BY AppendFacts
<1>2. /\ \A k \in 1..Len(L) : Prior(Append(L, e), k) = Prior(L, k)
      /\ Prior(Append(L, e), Len(L) + 1) = L
  BY PriorAppend
<1>3. QED  BY <1>1, <1>2 DEF Walk

(* Whichever way it ends, an append of an event that leaves the state the log
   folds to keeps the walk, and one that returns moves the fold with it. *)
LEMMA WalkOutcome ==
  ASSUME NEW f \in Files(Event), NEW e \in Event,
         NEW f2, f2 = Written(f, e) \/ (\E w \in Outcomes : f2 = Interrupted(f, e, w)),
         Readable(f2),
         Readable(f) => /\ HasLast(f.lines)
                        /\ Walk(f.lines)
                        /\ e.from = FoldState(f.lines)[e.target]
  PROVE  /\ Walk(f2.lines)
         /\ f2 = Written(f, e) =>
              /\ HasLast(f2.lines)
              /\ FoldState(f2.lines) = [FoldState(f.lines) EXCEPT ![e.target] = e.to]
              /\ FoldCandidates(f2.lines) =
                   IF e.kind = "candidate_artifact"
                     THEN [FoldCandidates(f.lines) EXCEPT ![e.target] = e.candidate]
                     ELSE FoldCandidates(f.lines)
<1>1. f.lines \in Seq(Line)  BY FileFacts
<1>2. /\ Readable(f)
      /\ f2.lines = f.lines \/ f2.lines = Append(f.lines, e)
      /\ f2 = Written(f, e) => f2.lines = Append(f.lines, e)
  BY WrittenExtends, InterruptedExtends DEF Extends
<1>3. Walk(Append(f.lines, e))  BY <1>1, <1>2, WalkAppend
<1>4. /\ HasLast(Append(f.lines, e))
      /\ FoldState(Append(f.lines, e)) = [FoldState(f.lines) EXCEPT ![e.target] = e.to]
      /\ FoldCandidates(Append(f.lines, e)) =
           IF e.kind = "candidate_artifact"
             THEN [FoldCandidates(f.lines) EXCEPT ![e.target] = e.candidate]
             ELSE FoldCandidates(f.lines)
  BY <1>1, <1>2, HasLastAppend, FoldAppend
<1>5. QED  BY <1>2, <1>3, <1>4

(* An append that raises leaves the queue as it was over the log as it was, or
   over one nobody can read; one that dies takes the queue with it. *)
LEMMA FailedFailStop ==
  ASSUME Raises \subseteq Unwritten, NEW f \in Files(Event), NEW e \in Event, NEW s,
         Readable(f) => /\ HasLast(f.lines)
                        /\ Walk(f.lines)
                        /\ s = FoldState(f.lines)
                        /\ candidate = FoldCandidates(f.lines)
                        /\ e.from = FoldState(f.lines)[e.target],
         Failed(f, s, e)
  PROVE  FailStopInv'
<1>1. PICK w \in Outcomes : file' = Interrupted(f, e, w)
  BY OutcomesAssumption DEF Failed
<1>2. Readable(file') => Walk(file'.lines)  BY <1>1, WalkOutcome
<1>3. CASE /\ \E v \in Raises : file' = Interrupted(f, e, v)
           /\ state' = s
           /\ UNCHANGED <<up, candidate>>
  <2>1. file' = f \/ file' = AddLine(f, Torn, TRUE)  BY <1>3 DEF Unwritten, Interrupted
  <2>2. ~Readable(AddLine(f, Torn, TRUE))  BY AddLineExtends
  <2>3. QED  BY <1>2, <1>3, <2>1, <2>2 DEF FailStopInv, CacheIsFold, LogIsWalk, Walk
<1>4. CASE Down
  BY <1>2, <1>4 DEF Down, FailStopInv, CacheIsFold, LogIsWalk, Walk
<1>5. QED  BY <1>3, <1>4 DEF Failed

(* A single append, with the binding record_candidate adds to it. *)
LEMMA AppendFailStop ==
  ASSUME Raises \subseteq Unwritten, QueueInv, FailStopInv, up, NEW e \in Event, e.from = state[e.target],
         \/ /\ Committed(e)
            /\ candidate' = IF e.kind = "candidate_artifact"
                              THEN [candidate EXCEPT ![e.target] = e.candidate]
                              ELSE candidate
         \/ Failed(file, state, e)
  PROVE  FailStopInv'
<1>1. file \in Files(Event)  BY DEF QueueInv, TypeOK
<1>2. Readable(file) => /\ HasLast(file.lines)
                        /\ Walk(file.lines)
                        /\ state = FoldState(file.lines)
                        /\ candidate = FoldCandidates(file.lines)
                        /\ e.from = FoldState(file.lines)[e.target]
  BY DEF QueueInv, LogInv, FailStopInv, CacheIsFold, LogIsWalk, Walk
<1>3. CASE /\ Committed(e)
           /\ candidate' = IF e.kind = "candidate_artifact"
                             THEN [candidate EXCEPT ![e.target] = e.candidate]
                             ELSE candidate
  <2>1. file' = Written(file, e) /\ state' = [state EXCEPT ![e.target] = e.to]
    BY <1>3 DEF Committed
  <2>2. ASSUME Readable(file')
        PROVE  /\ Walk(file'.lines)
               /\ state' = FoldState(file'.lines)
               /\ candidate' = FoldCandidates(file'.lines)
    <3>1. Readable(file)  BY <1>1, <2>1, <2>2, WrittenExtends
    <3>2. QED  BY <1>1, <1>2, <1>3, <2>1, <2>2, <3>1, WalkOutcome
  <2>3. QED  BY <2>2 DEF FailStopInv, CacheIsFold, LogIsWalk, Walk
<1>4. CASE Failed(file, state, e)
  BY <1>1, <1>2, <1>4, FailedFailStop
<1>5. QED  BY <1>3, <1>4

(* A method whose whole effect is one append. *)
LEMMA LogAppendFailStop ==
  ASSUME Raises \subseteq Unwritten, QueueInv, FailStopInv, NEW e \in Event, e.from = state[e.target],
         e.kind # "candidate_artifact", LogAppend(e)
  PROVE  FailStopInv'
BY AppendFailStop DEF LogAppend

(* record_audit. *)
LEMMA RecordAuditFailStop ==
  ASSUME Raises \subseteq Unwritten, QueueInv, FailStopInv,
         NEW t \in Targets, NEW a \in Audits, RecordAudit(t, a)
  PROVE  FailStopInv'
<1> DEFINE final  == IF a.verdict = "pass" THEN "accepted" ELSE "audit-rejected"
           first  == Hop(t, "kernel-checked", "audited", "audit_verdict", a.candidate, a.verdict)
           second == Hop(t, "audited", final, "audit_verdict", a.candidate, a.verdict)
           half   == Written(file, first)
<1>1. a.candidate \in Candidates /\ a.verdict \in {"pass", "fail"}  BY DEF Audits
<1>2. /\ first \in Event /\ first.target = t /\ first.from = "kernel-checked"
      /\ first.to = "audited" /\ first.kind = "audit_verdict"
  BY <1>1 DEF Hop, Event, States
<1>3. /\ second \in Event /\ second.target = t /\ second.from = "audited"
      /\ second.to = final /\ second.kind = "audit_verdict"
  BY <1>1 DEF Hop, Event, States
<1>4. /\ up /\ state[t] = "kernel-checked"
      /\ \/ /\ file' = Written(half, second)
            /\ state' = [state EXCEPT ![t] = final]
            /\ UNCHANGED <<up, candidate, faults>>
         \/ Failed(file, state, first)
         \/ Failed(half, [state EXCEPT ![t] = "audited"], second)
  BY DEF RecordAudit
<1>5. file \in Files(Event) /\ half \in Files(Event)
      /\ state \in [Targets -> States \cup {"absent"}]
  BY <1>2, WriteType DEF QueueInv, TypeOK
<1> HIDE DEF first, second, half, final
<1>6. Readable(file) => /\ HasLast(file.lines)
                        /\ Walk(file.lines)
                        /\ state = FoldState(file.lines)
                        /\ candidate = FoldCandidates(file.lines)
                        /\ first.from = FoldState(file.lines)[first.target]
  BY <1>2, <1>4 DEF QueueInv, LogInv, FailStopInv, CacheIsFold, LogIsWalk, Walk
<1>7. Readable(half) => /\ Readable(file)
                        /\ HasLast(half.lines)
                        /\ Walk(half.lines)
                        /\ FoldState(half.lines) = [state EXCEPT ![t] = "audited"]
                        /\ candidate = FoldCandidates(half.lines)
                        /\ second.from = FoldState(half.lines)[second.target]
  <2>1. SUFFICES ASSUME Readable(half)
                 PROVE  /\ Readable(file)
                        /\ HasLast(half.lines)
                        /\ Walk(half.lines)
                        /\ FoldState(half.lines) = [state EXCEPT ![t] = "audited"]
                        /\ candidate = FoldCandidates(half.lines)
                        /\ second.from = FoldState(half.lines)[second.target]
    OBVIOUS
  <2>2. Readable(file)  BY <1>2, <1>5, <2>1, WrittenExtends DEF half
  <2>3. /\ HasLast(half.lines)
        /\ Walk(half.lines)
        /\ FoldState(half.lines) = [state EXCEPT ![t] = "audited"]
        /\ candidate = FoldCandidates(half.lines)
    <3>1. /\ Walk(half.lines)
          /\ HasLast(half.lines)
          /\ FoldState(half.lines) = [FoldState(file.lines) EXCEPT ![first.target] = first.to]
          /\ FoldCandidates(half.lines) =
               IF first.kind = "candidate_artifact"
                 THEN [FoldCandidates(file.lines) EXCEPT ![first.target] = first.candidate]
                 ELSE FoldCandidates(file.lines)
      BY <1>2, <1>5, <1>6, <2>1, WalkOutcome DEF half
    <3>2. first.kind # "candidate_artifact" /\ first.to = "audited" /\ first.target = t
      BY <1>2
    <3>3. QED  BY <1>6, <2>2, <3>1, <3>2
  <2>4. QED  BY <1>3, <1>5, <2>2, <2>3
<1>8. CASE /\ file' = Written(half, second)
           /\ state' = [state EXCEPT ![t] = final]
           /\ UNCHANGED <<up, candidate, faults>>
  <2>1. ASSUME Readable(file')
        PROVE  /\ Walk(file'.lines)
               /\ state' = FoldState(file'.lines)
               /\ candidate' = FoldCandidates(file'.lines)
    <3>1. Readable(half)  BY <1>3, <1>5, <1>8, <2>1, WrittenExtends
    <3>2. /\ Walk(file'.lines)
          /\ FoldState(file'.lines) = [FoldState(half.lines) EXCEPT ![t] = final]
          /\ FoldCandidates(file'.lines) = FoldCandidates(half.lines)
      <4>1. /\ Walk(file'.lines)
            /\ FoldState(file'.lines) = [FoldState(half.lines) EXCEPT ![second.target] = second.to]
            /\ FoldCandidates(file'.lines) =
                 IF second.kind = "candidate_artifact"
                   THEN [FoldCandidates(half.lines) EXCEPT ![second.target] = second.candidate]
                   ELSE FoldCandidates(half.lines)
        BY <1>3, <1>5, <1>7, <1>8, <2>1, WalkOutcome
      <4>2. second.kind # "candidate_artifact" /\ second.to = final /\ second.target = t
        BY <1>3
      <4>3. QED  BY <4>1, <4>2
    <3>3. [[state EXCEPT ![t] = "audited"] EXCEPT ![t] = final] = [state EXCEPT ![t] = final]
      BY <1>5
    <3>4. QED  BY <1>7, <1>8, <3>1, <3>2, <3>3
  <2>2. QED  BY <2>1 DEF FailStopInv, CacheIsFold, LogIsWalk, Walk
<1>9. CASE Failed(file, state, first)
  BY <1>2, <1>5, <1>6, <1>9, FailedFailStop
<1>10. CASE Failed(half, [state EXCEPT ![t] = "audited"], second)
  BY <1>3, <1>5, <1>7, <1>10, FailedFailStop
<1>11. QED  BY <1>4, <1>8, <1>9, <1>10

(* Every step of a fail-stop queue keeps its cache equal to the fold. *)
LEMMA FailStopNext ==
  ASSUME Raises \subseteq Unwritten, QueueInv, FailStopInv, [Next]_vars
  PROVE  FailStopInv'
<1> USE DEF States, Quiet
<1>1. ASSUME NEW t \in Targets, NEW from \in States \cup {"absent"},
             NEW to \in States, NEW kind \in Quiet,
             state[t] = from, LogAppend(Plain(t, from, to, kind))
      PROVE  FailStopInv'
  <2>1. /\ Plain(t, from, to, kind) \in Event /\ Plain(t, from, to, kind).target = t
        /\ Plain(t, from, to, kind).from = from /\ Plain(t, from, to, kind).kind = kind
    BY DEF Plain, Hop, Event
  <2>2. QED  BY <1>1, <2>1, LogAppendFailStop
<1>2. ASSUME NEW t \in Targets,
             \/ Enqueue(t) \/ StartAttempt(t)
             \/ \E abandon \in BOOLEAN : RecordNoCandidate(t, abandon)
             \/ Decide(t)
      PROVE  FailStopInv'
  <2>1. CASE Enqueue(t)  BY <2>1, <1>1 DEF Enqueue
  <2>2. CASE StartAttempt(t)  BY <2>2, <1>1 DEF StartAttempt
  <2>3. CASE \E abandon \in BOOLEAN : RecordNoCandidate(t, abandon)
    BY <2>3, <1>1 DEF RecordNoCandidate
  <2>4. CASE RequeueFromKernelRejected(t)  BY <2>4, <1>1 DEF RequeueFromKernelRejected
  <2>5. CASE AbandonFromKernelRejected(t)  BY <2>5, <1>1 DEF AbandonFromKernelRejected
  <2>6. CASE RequeueFromCheckerError(t)  BY <2>6, <1>1 DEF RequeueFromCheckerError
  <2>7. CASE AbandonFromCheckerError(t)  BY <2>7, <1>1 DEF AbandonFromCheckerError
  <2>8. CASE RequeueFromAuditRejected(t)  BY <2>8, <1>1 DEF RequeueFromAuditRejected
  <2>9. CASE AbandonFromAuditRejected(t)  BY <2>9, <1>1 DEF AbandonFromAuditRejected
  <2>10. QED  BY <1>2, <2>1, <2>2, <2>3, <2>4, <2>5, <2>6, <2>7, <2>8, <2>9 DEF Decide
<1>3. ASSUME NEW t \in Targets, NEW c \in Candidates, RecordCandidate(t, c)
      PROVE  FailStopInv'
  <2> DEFINE e == Hop(t, "attempting", "candidate-produced", "candidate_artifact", c, "none")
  <2>1. /\ e \in Event /\ e.target = t /\ e.from = "attempting"
        /\ e.kind = "candidate_artifact" /\ e.candidate = c
    BY DEF Hop, Event
  <2>2. /\ up /\ state[t] = "attempting"
        /\ \/ Committed(e) /\ candidate' = [candidate EXCEPT ![t] = c]
           \/ Failed(file, state, e)
    BY <1>3 DEF RecordCandidate
  <2> HIDE DEF e
  <2>3. QED  BY <2>1, <2>2, AppendFailStop
<1>4. ASSUME NEW t \in Targets, NEW r \in Receipts, RecordKernelReceipt(t, r)
      PROVE  FailStopInv'
  <2> DEFINE e == Hop(t, "candidate-produced", Ruling(r.verdict), "kernel_receipt",
                      r.candidate, r.verdict)
  <2>1. r.candidate \in Candidates /\ r.verdict \in {"accepted", "rejected", "error"}
        /\ Ruling(r.verdict) \in States
    BY DEF Receipts, Ruling
  <2>2. e \in Event /\ e.target = t /\ e.from = "candidate-produced"
        /\ e.kind = "kernel_receipt"
    BY <2>1 DEF Hop, Event
  <2>3. state[t] = "candidate-produced" /\ LogAppend(e)  BY <1>4 DEF RecordKernelReceipt
  <2> HIDE DEF e
  <2>4. QED  BY <2>2, <2>3, LogAppendFailStop
<1>5. ASSUME NEW t \in Targets, NEW a \in Audits, RecordAudit(t, a)  PROVE FailStopInv'
  BY <1>5, RecordAuditFailStop
<1>6. CASE Stop
  BY <1>6 DEF Stop, Down, FailStopInv, CacheIsFold, LogIsWalk
<1>7. CASE Replay
  BY <1>7 DEF Replay, FailStopInv, CacheIsFold, LogIsWalk
<1>8. CASE UNCHANGED vars
  BY <1>8 DEF vars, FailStopInv, CacheIsFold, LogIsWalk
<1>9. QED  BY <1>2, <1>3, <1>4, <1>5, <1>6, <1>7, <1>8 DEF Next

(* While an append that raises has left no whole record behind, the cache and
   the walk stand together, however appends die. *)
THEOREM FailStopQueue ==
  Raises \subseteq Unwritten /\ Spec => []FailStopInv
<1>1. Init => FailStopInv
  <2>1. SUFFICES ASSUME Init PROVE FailStopInv  OBVIOUS
  <2>2. DOMAIN file.lines = {}  BY <2>1 DEF Init, EmptyFile
  <2>3. \A t : About(file.lines, t) = {} /\ Bindings(file.lines, t) = {}
    BY <2>2 DEF About, Bindings
  <2>4. FoldState(file.lines) = Blank /\ FoldCandidates(file.lines) = Unbound
    BY <2>3 DEF FoldState, FoldCandidates, Blank, Unbound
  <2>5. QED  BY <2>1, <2>2, <2>4 DEF Init, FailStopInv, CacheIsFold, LogIsWalk
<1>2. Raises \subseteq Unwritten /\ QueueInv /\ FailStopInv /\ [Next]_vars => FailStopInv'
  BY FailStopNext
<1>3. SUFFICES ASSUME Raises \subseteq Unwritten  PROVE Spec => []FailStopInv  OBVIOUS
<1>4. QED  BY <1>1, <1>2, <1>3, QueueInvariant, PTL DEF Spec

(* The two dictionaries are at all times the fold of the log, so a restart is
   not noticed ("the dict below is just a cache of the fold", queue.py:222). *)
THEOREM CacheIsTheFold ==
  Raises \subseteq Unwritten /\ Spec => []CacheIsFold
<1>1. FailStopInv => CacheIsFold  BY DEF FailStopInv
<1>2. QED  BY <1>1, FailStopQueue, PTL

(* The log of each target is a walk: no event leaves a state the log before it
   does not show. *)
THEOREM TheLogIsAWalk ==
  Raises \subseteq Unwritten /\ Spec => []LogIsWalk
<1>1. FailStopInv => LogIsWalk  BY DEF FailStopInv
<1>2. QED  BY <1>1, FailStopQueue, PTL

-------------------------------------------------------------------------------
(* The refinement of the diagram *)

(* What the refinement mapping reads: the log as far as it can be read. *)
Kept == Whole(file.lines)

DiagramStep ==
  [Diagram!Next]_<<FoldState(Whole(file.lines)), FoldCandidates(Whole(file.lines))>>

(* What the refinement needs of a state. *)
RefinementInv == QueueInv /\ FailStopInv /\ OpenIsTorn(file)

(* An append to f, however it ends, leaves f as far as it can be read as it
   was, or with the event at its end. *)
LEMMA AppendGrows ==
  ASSUME Raises \subseteq Unwritten, "unterminated" \notin Crashes,
         NEW f \in Files(Event), OpenIsTorn(f), NEW e \in Event,
         file' = Written(f, e) \/ \E s : Failed(f, s, e)
  PROVE  /\ OpenIsTorn(file')
         /\ \/ Kept' = Whole(f.lines)
            \/ Readable(f) /\ Kept' = Append(f.lines, e)
<1>1. \/ file' = Written(f, e)
      \/ \E w \in Outcomes \ {"unterminated"} : file' = Interrupted(f, e, w)
  BY OutcomesAssumption DEF Failed, Unwritten
<1>2. /\ OpenIsTorn(file')
      /\ \/ Whole(file'.lines) = Whole(f.lines)
         \/ Readable(f) /\ Whole(file'.lines) = Append(f.lines, e)
  BY <1>1, WriteWhole
<1>3. QED  BY <1>2 DEF Kept

(* A step after which the log reads as before is a stutter of the diagram. *)
LEMMA Stutters ==
  ASSUME Kept' = Kept
  PROVE  DiagramStep
BY DEF DiagramStep, Kept

(* The diagram may step as it says. *)
LEMMA DiagramSteps ==
  \A t \in Targets :
    Diagram!Move(t) \/ Diagram!Propose(t) \/ Diagram!Judge(t) \/ Diagram!Audit(t) => DiagramStep
BY DEF DiagramStep, Diagram!Next

(* What the cache of a running queue says of a readable log, and what one
   event does to the mapped variables. *)
LEMMA OneHop ==
  ASSUME RefinementInv, up, Readable(file), NEW e \in Event, Kept' = Append(file.lines, e)
  PROVE  /\ FoldState(Whole(file.lines)) = state
         /\ FoldCandidates(Whole(file.lines)) = candidate
         /\ FoldState(Whole(file.lines))' = [state EXCEPT ![e.target] = e.to]
         /\ FoldCandidates(Whole(file.lines))' =
              IF e.kind = "candidate_artifact"
                THEN [candidate EXCEPT ![e.target] = e.candidate] ELSE candidate
<1>1. file \in Files(Event) /\ file.lines \in Seq(Line) /\ HasLast(file.lines)
  BY FileFacts DEF RefinementInv, QueueInv, TypeOK, LogInv
<1>2. Whole(file.lines) = file.lines  BY WholeReadable
<1>3. state = FoldState(file.lines) /\ candidate = FoldCandidates(file.lines)
  BY DEF RefinementInv, FailStopInv, CacheIsFold
<1>4. /\ FoldState(Append(file.lines, e)) = [FoldState(file.lines) EXCEPT ![e.target] = e.to]
      /\ FoldCandidates(Append(file.lines, e)) =
           IF e.kind = "candidate_artifact"
             THEN [FoldCandidates(file.lines) EXCEPT ![e.target] = e.candidate]
             ELSE FoldCandidates(file.lines)
  BY <1>1, FoldAppend
<1>5. Whole(file.lines)' = Append(file.lines, e)  BY DEF Kept
<1>6. QED  BY <1>2, <1>3, <1>4, <1>5

(* A method with one append is one arrow of the diagram. *)
LEMMA AppendRefines ==
  ASSUME Raises \subseteq Unwritten, "unterminated" \notin Crashes, RefinementInv, up,
         NEW e \in Event, file' = Written(file, e) \/ (\E s : Failed(file, s, e)),
         e.from = state[e.target],
         e.kind = "candidate_artifact" =>
           e.from = "attempting" /\ e.to = "candidate-produced" /\ e.candidate \in Candidates,
         e.kind # "candidate_artifact" =>
           \/ <<e.from, e.to>> \in Diagram!Arrows
           \/ /\ e.from = "candidate-produced" /\ e.to \in Diagram!Rulings
              /\ candidate[e.target] # NoCandidate
  PROVE  OpenIsTorn(file') /\ DiagramStep
<1>1. file \in Files(Event) /\ OpenIsTorn(file)
  BY DEF RefinementInv, QueueInv, TypeOK
<1>2. /\ OpenIsTorn(file')
      /\ \/ Kept' = Whole(file.lines)
         \/ Readable(file) /\ Kept' = Append(file.lines, e)
  BY <1>1, AppendGrows
<1>3. ASSUME Readable(file), Kept' = Append(file.lines, e)  PROVE DiagramStep
  <2> DEFINE t == e.target
  <2>1. t \in Targets  BY DEF Event
  <2>2. /\ FoldState(Whole(file.lines)) = state
        /\ FoldCandidates(Whole(file.lines)) = candidate
        /\ FoldState(Whole(file.lines))' = [state EXCEPT ![t] = e.to]
        /\ FoldCandidates(Whole(file.lines))' =
             IF e.kind = "candidate_artifact"
               THEN [candidate EXCEPT ![t] = e.candidate] ELSE candidate
    BY <1>3, OneHop
  <2>3. candidate[t] \in Candidates \cup {NoCandidate}
    BY <2>1 DEF RefinementInv, QueueInv, TypeOK
  <2> HIDE DEF t
  <2>4. CASE e.kind = "candidate_artifact"
    <3>1. Diagram!Propose(t)  BY <2>2, <2>4 DEF Diagram!Propose, t
    <3>2. QED  BY <2>1, <3>1, DiagramSteps
  <2>5. CASE e.kind # "candidate_artifact" /\ <<e.from, e.to>> \in Diagram!Arrows
    <3>1. e.to \in {a[2] : a \in {b \in Diagram!Arrows : b[1] = state[t]}}
      <4>1. <<e.from, e.to>>[1] = e.from /\ <<e.from, e.to>>[2] = e.to  OBVIOUS
      <4>2. e.from = state[t]  BY DEF t
      <4>3. QED  BY <2>5, <4>1, <4>2
    <3>2. Diagram!Move(t)  BY <2>2, <2>5, <3>1 DEF Diagram!Move
    <3>3. QED  BY <2>1, <3>2, DiagramSteps
  <2>6. CASE /\ e.kind # "candidate_artifact"
             /\ e.from = "candidate-produced" /\ e.to \in Diagram!Rulings
             /\ candidate[t] # NoCandidate
    <3>1. Diagram!Judge(t)  BY <2>2, <2>3, <2>6 DEF Diagram!Judge, t
    <3>2. QED  BY <2>1, <3>1, DiagramSteps
  <2>7. QED  BY <2>4, <2>5, <2>6 DEF t
<1>4. QED  BY <1>2, <1>3, Stutters DEF Kept

(* record_audit goes all the way, or halfway when its second append does not
   return, or nowhere. *)
LEMMA AuditRefines ==
  ASSUME Raises \subseteq Unwritten, "unterminated" \notin Crashes, RefinementInv,
         NEW t \in Targets, NEW a \in Audits, RecordAudit(t, a)
  PROVE  OpenIsTorn(file') /\ DiagramStep
<1> DEFINE final  == IF a.verdict = "pass" THEN "accepted" ELSE "audit-rejected"
           first  == Hop(t, "kernel-checked", "audited", "audit_verdict", a.candidate, a.verdict)
           second == Hop(t, "audited", final, "audit_verdict", a.candidate, a.verdict)
           half   == Written(file, first)
<1>1. a.candidate \in Candidates /\ a.verdict \in {"pass", "fail"}  BY DEF Audits
<1>2. /\ first \in Event /\ first.target = t /\ first.to = "audited"
      /\ first.kind # "candidate_artifact"
  BY <1>1 DEF Hop, Event, States
<1>3. /\ second \in Event /\ second.target = t
      /\ second.to \in {"accepted", "audit-rejected"} /\ second.kind # "candidate_artifact"
  BY <1>1 DEF Hop, Event, States
<1>4. /\ up /\ state[t] = "kernel-checked" /\ candidate[t] # NoCandidate
      /\ \/ file' = Written(half, second)
         \/ Failed(file, state, first)
         \/ Failed(half, [state EXCEPT ![t] = "audited"], second)
  BY DEF RecordAudit, IsActive
<1>5. /\ file \in Files(Event) /\ OpenIsTorn(file) /\ half \in Files(Event)
      /\ file.lines \in Seq(Line) /\ (Readable(file) => HasLast(file.lines))
      /\ state \in [Targets -> States \cup {"absent"}]
      /\ candidate[t] \in Candidates \cup {NoCandidate}
  BY <1>2, WriteType, FileFacts DEF RefinementInv, QueueInv, TypeOK, LogInv
<1> HIDE DEF first, second, half, final
<1>6. /\ OpenIsTorn(half)
      /\ \/ Whole(half.lines) = Kept
         \/ Readable(file) /\ Whole(half.lines) = Append(file.lines, first)
  BY <1>2, <1>5, WriteWhole DEF half, Kept
<1>7. ASSUME Readable(file), NEW to \in {"audited", "accepted", "audit-rejected"},
             FoldState(Whole(file.lines)) = state, FoldCandidates(Whole(file.lines)) = candidate,
             FoldState(Whole(file.lines))' = [state EXCEPT ![t] = to],
             FoldCandidates(Whole(file.lines))' = candidate
      PROVE  DiagramStep
  <2>1. Diagram!Audit(t)  BY <1>4, <1>5, <1>7 DEF Diagram!Audit
  <2>2. QED  BY <2>1, DiagramSteps
<1>8. ASSUME Readable(file), Kept' = Append(file.lines, first)  PROVE DiagramStep
  <2>1. /\ FoldState(Whole(file.lines)) = state
        /\ FoldCandidates(Whole(file.lines)) = candidate
        /\ FoldState(Whole(file.lines))' = [state EXCEPT ![first.target] = first.to]
        /\ FoldCandidates(Whole(file.lines))' =
             IF first.kind = "candidate_artifact"
               THEN [candidate EXCEPT ![first.target] = first.candidate] ELSE candidate
    BY <1>2, <1>4, <1>8, OneHop
  <2>2. QED  BY <1>2, <1>7, <1>8, <2>1
<1>9. ASSUME Readable(half), Kept' = Append(half.lines, second)  PROVE DiagramStep
  <2>1. Readable(file) /\ half.lines = Append(file.lines, first)
    BY <1>2, <1>5, <1>9, WrittenExtends DEF half
  <2>2. /\ FoldState(Whole(file.lines)) = state
        /\ FoldCandidates(Whole(file.lines)) = candidate
        /\ FoldState(file.lines) = state
        /\ FoldCandidates(file.lines) = candidate
    BY <1>4, <2>1, WholeReadable DEF RefinementInv, FailStopInv, CacheIsFold
  <2>3. /\ HasLast(half.lines) /\ half.lines \in Seq(Line)
        /\ FoldState(half.lines) = [state EXCEPT ![t] = "audited"]
        /\ FoldCandidates(half.lines) = candidate
    <3>1. /\ FoldState(Append(file.lines, first)) =
               [FoldState(file.lines) EXCEPT ![first.target] = first.to]
          /\ FoldCandidates(Append(file.lines, first)) =
               IF first.kind = "candidate_artifact"
                 THEN [FoldCandidates(file.lines) EXCEPT ![first.target] = first.candidate]
                 ELSE FoldCandidates(file.lines)
          /\ HasLast(Append(file.lines, first))
      BY <1>2, <1>5, <2>1, FoldAppend, HasLastAppend
    <3>2. half.lines \in Seq(Line)  BY <1>5, FileFacts
    <3>3. QED  BY <1>2, <2>1, <2>2, <3>1, <3>2
  <2>4. /\ FoldState(Append(half.lines, second)) =
             [FoldState(half.lines) EXCEPT ![second.target] = second.to]
        /\ FoldCandidates(Append(half.lines, second)) =
             IF second.kind = "candidate_artifact"
               THEN [FoldCandidates(half.lines) EXCEPT ![second.target] = second.candidate]
               ELSE FoldCandidates(half.lines)
    BY <1>3, <2>3, FoldAppend
  <2>5. [[state EXCEPT ![t] = "audited"] EXCEPT ![t] = second.to] = [state EXCEPT ![t] = second.to]
    BY <1>5
  <2>6. Whole(file.lines)' = Append(half.lines, second)  BY <1>9 DEF Kept
  <2>7. /\ FoldState(Whole(file.lines))' = [state EXCEPT ![t] = second.to]
        /\ FoldCandidates(Whole(file.lines))' = candidate
    BY <1>3, <2>3, <2>4, <2>5, <2>6
  <2>8. QED  BY <1>3, <1>7, <2>1, <2>2, <2>7
<1>10. CASE Failed(file, state, first)
  <2>1. /\ OpenIsTorn(file')
        /\ \/ Kept' = Whole(file.lines)
           \/ Readable(file) /\ Kept' = Append(file.lines, first)
    BY <1>2, <1>5, <1>10, AppendGrows
  <2>2. QED  BY <1>8, <2>1, Stutters DEF Kept
<1>11. CASE file' = Written(half, second) \/ \E s : Failed(half, s, second)
  <2>1. /\ OpenIsTorn(file')
        /\ \/ Kept' = Whole(half.lines)
           \/ Readable(half) /\ Kept' = Append(half.lines, second)
    BY <1>3, <1>5, <1>6, <1>11, AppendGrows
  <2>2. QED  BY <1>6, <1>8, <1>9, <2>1, Stutters
<1>12. QED  BY <1>4, <1>10, <1>11 DEF half, second, final

(* Every step of the queue is a step of the diagram, or none. *)
LEMMA NextRefines ==
  ASSUME Raises \subseteq Unwritten, "unterminated" \notin Crashes,
         RefinementInv, [Next]_vars
  PROVE  OpenIsTorn(file') /\ DiagramStep
<1> DEFINE Goal == OpenIsTorn(file') /\ DiagramStep
<1>1. ASSUME NEW t \in Targets, NEW from \in States \cup {"absent"},
             NEW to \in States, NEW kind \in Quiet,
             <<from, to>> \in Diagram!Arrows,
             state[t] = from, LogAppend(Plain(t, from, to, kind))
      PROVE  Goal
  <2> DEFINE e == Plain(t, from, to, kind)
  <2>1. /\ e \in Event /\ e.target = t /\ e.from = from /\ e.to = to
        /\ e.kind # "candidate_artifact"
    BY DEF Plain, Hop, Event, Quiet
  <2>2. up /\ (file' = Written(file, e) \/ \E s : Failed(file, s, e))
    BY <1>1 DEF LogAppend, Committed
  <2> HIDE DEF e
  <2>3. QED  BY <1>1, <2>1, <2>2, AppendRefines
<1>2. /\ States = {"queued", "attempting", "candidate-produced", "kernel-checked",
                   "kernel-rejected", "checker-error", "audited", "accepted",
                   "audit-rejected", "abandoned"}
      /\ Quiet = {"target_entry", "attempt_started", "no_candidate_produced",
                  "requeue_decision", "abandon_decision"}
  BY DEF States, Quiet
<1>3. /\ <<"absent", "queued">> \in Diagram!Arrows
      /\ <<"queued", "attempting">> \in Diagram!Arrows
      /\ \A from \in {"attempting", "kernel-rejected", "checker-error", "audit-rejected"} :
           <<from, "queued">> \in Diagram!Arrows /\ <<from, "abandoned">> \in Diagram!Arrows
  BY DEF Diagram!Arrows
<1> HIDE DEF Goal
<1>4. ASSUME NEW t \in Targets, Enqueue(t)  PROVE Goal
  BY <1>1, <1>2, <1>3, <1>4 DEF Enqueue
<1>5. ASSUME NEW t \in Targets, StartAttempt(t)  PROVE Goal
  BY <1>1, <1>2, <1>3, <1>5 DEF StartAttempt
<1>6. ASSUME NEW t \in Targets, NEW abandon \in BOOLEAN, RecordNoCandidate(t, abandon)
      PROVE  Goal
  <2>1. CASE abandon  BY <1>1, <1>2, <1>3, <1>6, <2>1 DEF RecordNoCandidate
  <2>2. CASE ~abandon  BY <1>1, <1>2, <1>3, <1>6, <2>2 DEF RecordNoCandidate
  <2>3. QED  BY <2>1, <2>2
<1>7. ASSUME NEW t \in Targets, Decide(t)  PROVE Goal
  <2>1. CASE RequeueFromKernelRejected(t)
    BY <1>1, <1>2, <1>3, <2>1 DEF RequeueFromKernelRejected
  <2>2. CASE AbandonFromKernelRejected(t)
    BY <1>1, <1>2, <1>3, <2>2 DEF AbandonFromKernelRejected
  <2>3. CASE RequeueFromCheckerError(t)
    BY <1>1, <1>2, <1>3, <2>3 DEF RequeueFromCheckerError
  <2>4. CASE AbandonFromCheckerError(t)
    BY <1>1, <1>2, <1>3, <2>4 DEF AbandonFromCheckerError
  <2>5. CASE RequeueFromAuditRejected(t)
    BY <1>1, <1>2, <1>3, <2>5 DEF RequeueFromAuditRejected
  <2>6. CASE AbandonFromAuditRejected(t)
    BY <1>1, <1>2, <1>3, <2>6 DEF AbandonFromAuditRejected
  <2>7. QED  BY <1>7, <2>1, <2>2, <2>3, <2>4, <2>5, <2>6 DEF Decide
<1>8. ASSUME NEW t \in Targets, NEW c \in Candidates, RecordCandidate(t, c)  PROVE Goal
  <2> DEFINE e == Hop(t, "attempting", "candidate-produced", "candidate_artifact", c, "none")
  <2>1. /\ e \in Event /\ e.target = t /\ e.from = "attempting" /\ e.to = "candidate-produced"
        /\ e.kind = "candidate_artifact" /\ e.candidate \in Candidates
    BY DEF Hop, Event, States
  <2>2. /\ up /\ state[t] = "attempting"
        /\ file' = Written(file, e) \/ \E s : Failed(file, s, e)
    BY <1>8 DEF RecordCandidate, Committed
  <2> HIDE DEF e
  <2>3. QED  BY <2>1, <2>2, AppendRefines DEF Goal
<1>9. ASSUME NEW t \in Targets, NEW r \in Receipts, RecordKernelReceipt(t, r)  PROVE Goal
  <2> DEFINE e == Hop(t, "candidate-produced", Ruling(r.verdict), "kernel_receipt",
                      r.candidate, r.verdict)
  <2>1. /\ r.candidate \in Candidates /\ r.verdict \in {"accepted", "rejected", "error"}
        /\ Ruling(r.verdict) \in Diagram!Rulings /\ Ruling(r.verdict) \in States
    BY DEF Receipts, Ruling, Diagram!Rulings, States
  <2>2. /\ e \in Event /\ e.target = t /\ e.from = "candidate-produced"
        /\ e.to \in Diagram!Rulings /\ e.kind # "candidate_artifact"
    BY <2>1 DEF Hop, Event, States
  <2>3. /\ up /\ state[t] = "candidate-produced" /\ candidate[t] # NoCandidate
        /\ file' = Written(file, e) \/ \E s : Failed(file, s, e)
    BY <1>9 DEF RecordKernelReceipt, IsActive, LogAppend, Committed
  <2> HIDE DEF e
  <2>4. QED  BY <2>2, <2>3, AppendRefines DEF Goal
<1>10. ASSUME NEW t \in Targets, NEW a \in Audits, RecordAudit(t, a)  PROVE Goal
  BY <1>10, AuditRefines DEF Goal
<1>11. CASE file' = file
  <2>1. Kept' = Kept  BY <1>11 DEF Kept
  <2>2. QED  BY <1>11, <2>1, Stutters DEF RefinementInv, Goal
<1>12. QED
  BY <1>4, <1>5, <1>6, <1>7, <1>8, <1>9, <1>10, <1>11 DEF Next, Stop, Replay, vars, Goal

(* A queue whose appends leave no record behind when they raise, and none
   without its newline when they die, implements the diagram of
   ARCHITECTURE.md section 2, however often it dies and is replayed. *)
THEOREM QueueRefines ==
  Raises \subseteq Unwritten /\ "unterminated" \notin Crashes /\ Spec => ImplementsDiagram
<1>1. SUFFICES ASSUME Raises \subseteq Unwritten, "unterminated" \notin Crashes
               PROVE  Spec => ImplementsDiagram
  OBVIOUS
<1>2. Init => OpenIsTorn(file)  BY DEF Init, EmptyFile, OpenIsTorn
<1>3. Init => Diagram!Init
  <2>1. SUFFICES ASSUME Init  PROVE Diagram!Init  OBVIOUS
  <2>2. Whole(file.lines) = <<>>  BY <2>1 DEF Init, EmptyFile, Whole
  <2>3. \A t : About(<<>>, t) = {} /\ Bindings(<<>>, t) = {}  BY DEF About, Bindings
  <2>4. QED  BY <2>2, <2>3 DEF Diagram!Init, FoldState, FoldCandidates
<1>4. QueueInv /\ FailStopInv /\ OpenIsTorn(file) /\ [Next]_vars
        => OpenIsTorn(file)' /\ DiagramStep
  BY <1>1, NextRefines DEF RefinementInv
<1>5. Spec => []QueueInv  BY QueueInvariant
<1>6. Spec => []FailStopInv  BY <1>1, FailStopQueue
<1>7. Spec => []OpenIsTorn(file)
  BY <1>2, <1>4, <1>5, <1>6, PTL DEF Spec
<1>8. QED
  BY <1>3, <1>4, <1>5, <1>6, <1>7, PTL DEF Spec, DiagramStep, ImplementsDiagram, Diagram!Spec

===============================================================================
