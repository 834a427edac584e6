----------------------------- MODULE PipelineProofs -----------------------------
(***************************************************************************)
(* What run_target keeps true over its four files, whatever raises and     *)
(* however often the process dies: the ratchet never runs ahead of the     *)
(* queue, every event of the queue rests on an artifact that is on disk,   *)
(* and a temporary file has a live writer or a dead one.  The queue's own  *)
(* inductive invariant comes from TargetQueueProofs, by instantiation.     *)
(***************************************************************************)
EXTENDS Pipeline, SequenceTheorems, TLAPS

QP == INSTANCE TargetQueueProofs WITH
        file <- qfile, up <- alive, state <- qstate, candidate <- qcand

-------------------------------------------------------------------------------
(* The queue of the pipeline is the queue those proofs are about *)

(* What TargetQueue assumes of its constants. *)
LEMMA QueueAssumptions ==
  /\ NoCandidate \notin Candidates
  /\ Raises \subseteq QP!Outcomes /\ Crashes \subseteq QP!Outcomes
  /\ MaxEvents \in Nat /\ MaxFaults \in Nat
BY CandidatesAssumption, OutcomesAssumption, BoundsAssumption DEF Q!Outcomes, QP!Outcomes

(* The two logs are written, cut short and read alike. *)
LEMMA SameLog ==
  /\ \A f, e : Q!Written(f, e) = QP!Written(f, e) /\ R!Written(f, e) = QP!Written(f, e)
  /\ \A f, e, w : /\ Q!Interrupted(f, e, w) = QP!Interrupted(f, e, w)
                  /\ R!Interrupted(f, e, w) = QP!Interrupted(f, e, w)
  /\ \A f : (Q!Readable(f) <=> QP!Readable(f)) /\ (R!Readable(f) <=> QP!Readable(f))
<1>1. \A f, line, open : /\ Q!AddLine(f, line, open) = QP!AddLine(f, line, open)
                         /\ R!AddLine(f, line, open) = QP!AddLine(f, line, open)
  BY DEF Q!AddLine, R!AddLine, QP!AddLine
<1>2. \A f, e : Q!Written(f, e) = QP!Written(f, e) /\ R!Written(f, e) = QP!Written(f, e)
  BY <1>1 DEF Q!Written, R!Written, QP!Written
<1>3. \A f, e, w : /\ Q!Interrupted(f, e, w) = QP!Interrupted(f, e, w)
                   /\ R!Interrupted(f, e, w) = QP!Interrupted(f, e, w)
  BY <1>1, Zenon DEF Q!Interrupted, R!Interrupted, QP!Interrupted
<1>4. \A f : (Q!Readable(f) <=> QP!Readable(f)) /\ (R!Readable(f) <=> QP!Readable(f))
  BY DEF Q!Readable, R!Readable, QP!Readable
<1>5. QED  BY <1>2, <1>3, <1>4

(* The two queues have the same events, folds, types and initial state. *)
LEMMA SameQueue ==
  /\ Q!Event = QP!Event
  /\ \A t, from, to, kind, c, v : Q!Hop(t, from, to, kind, c, v) = QP!Hop(t, from, to, kind, c, v)
  /\ \A t, from, to, kind : Q!Plain(t, from, to, kind) = QP!Plain(t, from, to, kind)
  /\ \A L : Q!FoldState(L) = QP!FoldState(L) /\ Q!FoldCandidates(L) = QP!FoldCandidates(L)
  /\ \A S : Q!Files(S) = QP!Files(S)
  /\ Q!TypeOK <=> QP!TypeOK
  /\ Q!Init <=> QP!Init
  /\ Q!Blank = QP!Blank /\ Q!Unbound = QP!Unbound
<1>1. Q!Event = QP!Event  BY DEF Q!Event, QP!Event, Q!States, QP!States
<1>2. \A t, from, to, kind, c, v : Q!Hop(t, from, to, kind, c, v) = QP!Hop(t, from, to, kind, c, v)
  BY DEF Q!Hop, QP!Hop
<1>3. \A t, from, to, kind : Q!Plain(t, from, to, kind) = QP!Plain(t, from, to, kind)
  BY <1>2 DEF Q!Plain, QP!Plain
<1>4. \A L : Q!FoldState(L) = QP!FoldState(L) /\ Q!FoldCandidates(L) = QP!FoldCandidates(L)
  BY Zenon DEF Q!FoldState, QP!FoldState, Q!FoldCandidates, QP!FoldCandidates,
     Q!About, QP!About, Q!Bindings, QP!Bindings, Q!LastOf, QP!LastOf, Q!IsLast, QP!IsLast
<1>5. \A S : Q!Files(S) = QP!Files(S)  BY Zenon DEF Q!Files, QP!Files
<1>6. Q!TypeOK <=> QP!TypeOK  BY <1>1, <1>5 DEF Q!TypeOK, QP!TypeOK, Q!States, QP!States
<1>7. Q!Blank = QP!Blank /\ Q!Unbound = QP!Unbound
  BY DEF Q!Blank, QP!Blank, Q!Unbound, QP!Unbound
<1>8. Q!Init <=> QP!Init  BY <1>7 DEF Q!Init, QP!Init, Q!EmptyFile, QP!EmptyFile
<1>9. QED  BY <1>1, <1>2, <1>3, <1>4, <1>5, <1>6, <1>7, <1>8

(* ... and the same methods. *)
LEMMA SameAppends ==
  /\ \A e : Q!LogAppend(e) <=> QP!LogAppend(e)
  /\ \A f, s, e : Q!Failed(f, s, e) <=> QP!Failed(f, s, e)
  /\ \A e : Q!Committed(e) <=> QP!Committed(e)
<1>1. Q!Down <=> QP!Down  BY SameQueue DEF Q!Down, QP!Down
<1>2. \A f, s, e : Q!Failed(f, s, e) <=> QP!Failed(f, s, e)
  BY <1>1, SameLog, Zenon DEF Q!Failed, QP!Failed
<1>3. \A e : Q!Committed(e) <=> QP!Committed(e)
  BY SameLog, Zenon DEF Q!Committed, QP!Committed
<1>4. \A e : Q!LogAppend(e) <=> QP!LogAppend(e)
  BY <1>2, <1>3, Zenon DEF Q!LogAppend, QP!LogAppend, Q!Room, QP!Room
<1>5. QED  BY <1>2, <1>3, <1>4

(* The two queues have the same methods. *)
LEMMA SameCalls ==
  /\ \A t : Q!Enqueue(t) <=> QP!Enqueue(t)
  /\ \A t : Q!StartAttempt(t) <=> QP!StartAttempt(t)
  /\ \A t, c : Q!RecordCandidate(t, c) <=> QP!RecordCandidate(t, c)
  /\ \A t, abandon : Q!RecordNoCandidate(t, abandon) <=> QP!RecordNoCandidate(t, abandon)
  /\ \A t, r : Q!RecordKernelReceipt(t, r) <=> QP!RecordKernelReceipt(t, r)
  /\ \A t, a : Q!RecordAudit(t, a) <=> QP!RecordAudit(t, a)
  /\ \A t : Q!RequeueFromKernelRejected(t) <=> QP!RequeueFromKernelRejected(t)
  /\ \A t : Q!RequeueFromCheckerError(t) <=> QP!RequeueFromCheckerError(t)
  /\ \A t : Q!RequeueFromAuditRejected(t) <=> QP!RequeueFromAuditRejected(t)
  /\ \A t : Q!Decide(t) <=> QP!Decide(t)
  /\ Q!Replay <=> QP!Replay
<1> USE SameQueue, SameAppends, SameLog
<1>1. \A t : Q!Enqueue(t) <=> QP!Enqueue(t)  BY Zenon DEF Q!Enqueue, QP!Enqueue
<1>2. \A t : Q!StartAttempt(t) <=> QP!StartAttempt(t)
  BY Zenon DEF Q!StartAttempt, QP!StartAttempt
<1>3. \A t, c : Q!RecordCandidate(t, c) <=> QP!RecordCandidate(t, c)
  BY Zenon DEF Q!RecordCandidate, QP!RecordCandidate, Q!Room, QP!Room
<1>4. \A t, abandon : Q!RecordNoCandidate(t, abandon) <=> QP!RecordNoCandidate(t, abandon)
  BY Zenon DEF Q!RecordNoCandidate, QP!RecordNoCandidate
<1>5. \A t, r : Q!RecordKernelReceipt(t, r) <=> QP!RecordKernelReceipt(t, r)
  <2>1. \A v : Q!Ruling(v) = QP!Ruling(v)  BY Zenon DEF Q!Ruling, QP!Ruling
  <2>2. QED
    BY <2>1, Zenon DEF Q!RecordKernelReceipt, QP!RecordKernelReceipt, Q!IsActive, QP!IsActive
<1>6. \A t, a : Q!RecordAudit(t, a) <=> QP!RecordAudit(t, a)
  BY DEF Q!RecordAudit, QP!RecordAudit, Q!IsActive, QP!IsActive, Q!Room, QP!Room
<1>7. \A t : Q!RequeueFromKernelRejected(t) <=> QP!RequeueFromKernelRejected(t)
  BY Zenon DEF Q!RequeueFromKernelRejected, QP!RequeueFromKernelRejected
<1>8. \A t : Q!RequeueFromCheckerError(t) <=> QP!RequeueFromCheckerError(t)
  BY Zenon DEF Q!RequeueFromCheckerError, QP!RequeueFromCheckerError
<1>9. \A t : Q!RequeueFromAuditRejected(t) <=> QP!RequeueFromAuditRejected(t)
  BY Zenon DEF Q!RequeueFromAuditRejected, QP!RequeueFromAuditRejected
<1>10. \A t : /\ Q!AbandonFromKernelRejected(t) <=> QP!AbandonFromKernelRejected(t)
              /\ Q!AbandonFromCheckerError(t) <=> QP!AbandonFromCheckerError(t)
              /\ Q!AbandonFromAuditRejected(t) <=> QP!AbandonFromAuditRejected(t)
  BY Zenon DEF Q!AbandonFromKernelRejected, QP!AbandonFromKernelRejected,
     Q!AbandonFromCheckerError, QP!AbandonFromCheckerError,
     Q!AbandonFromAuditRejected, QP!AbandonFromAuditRejected
<1>11. \A t : Q!Decide(t) <=> QP!Decide(t)
  BY <1>7, <1>8, <1>9, <1>10, Zenon DEF Q!Decide, QP!Decide
<1>12. Q!Replay <=> QP!Replay  BY DEF Q!Replay, QP!Replay
<1>13. QED  BY <1>1, <1>2, <1>3, <1>4, <1>5, <1>6, <1>7, <1>8, <1>9, <1>11, <1>12, Zenon

-------------------------------------------------------------------------------
(* The inductive invariant *)

(* The artifacts an event of the queue's log rests on are on disk. *)
Backed(e) ==
  LET tc == <<e.target, e.candidate>> IN
  /\ e.kind = "kernel_receipt" => kernelFile[tc] # NoFile
  /\ e.kind = "audit_verdict" => auditFile[tc] # NoFile
  /\ e.to = "accepted" =>
       /\ kernelFile[tc] = [verdict |-> "accepted", established |-> TRUE]
       /\ auditFile[tc] = "pass"
  /\ e.kind \in {"kernel_receipt", "audit_verdict"} \/ e.to = "accepted" =>
       tc \in Targets \X Candidates

(* EvidenceOnDisk, and every event that rests on an artifact names a candidate. *)
EvidenceInv ==
  QP!Readable(qfile) => \A k \in DOMAIN qfile.lines : Backed(qfile.lines[k])

(* What a ratchet log rl says is accepted, a queue log L has accepted. *)
Follows(L, rl) ==
  \A i \in DOMAIN rl :
    /\ QP!FoldState(L)[rl[i].target] = "accepted"
    /\ QP!FoldCandidates(L)[rl[i].target] = rl[i].candidate

(* The queue's log has accepted t, bound to c. *)
Admissible(t, c) ==
  QP!Readable(qfile) =>
    QP!FoldState(qfile.lines)[t] = "accepted" /\ QP!FoldCandidates(qfile.lines)[t] = c

AfterCheck == {"write receipt", "place receipt", "receipt", "requeue", "audit",
               "write audit", "place audit", "verdict", "requeue-audit", "ratchet"}

AfterReceipt == AfterCheck \ {"write receipt", "place receipt"}

AfterAccepted == {"audit", "write audit", "place audit", "verdict", "ratchet"}

AfterAudit == {"write audit", "place audit", "verdict", "ratchet"}

(* What the rest of run_target relies on between two of its calls: where the
   queue has the target, what the local variables hold, and which artifact is
   on disk already. *)
Progress ==
  LET t == run.target IN
  /\ alive
  /\ pc = "candidate" => qstate[t] = "attempting"
  /\ pc \in {"check", "write receipt", "place receipt", "receipt"} =>
       qstate[t] = "candidate-produced"
  /\ pc \in {"audit", "write audit", "place audit", "verdict"} => qstate[t] = "kernel-checked"
  /\ pc \in AfterCheck => run.receipt \in Receipts
  /\ pc \in AfterReceipt => kernelFile[Here] = run.receipt
  /\ pc \in AfterAccepted => run.receipt.verdict = "accepted"
  /\ pc \in AfterAudit => /\ run.audit \in {"pass", "fail"}
                          /\ run.audit = "pass" => run.receipt.established
  /\ pc = "verdict" => auditFile[Here] = run.audit
  /\ pc = "ratchet" => /\ qstate[t] = "accepted" /\ qcand[t] = run.candidate
                       /\ run.audit = "pass" /\ Admissible(t, run.candidate)

PipelineInv ==
  /\ QP!QueueInv
  /\ TypeOK
  /\ pc # "idle" => Progress
  /\ OnlyTheDeadLeaveTemps
  /\ RatchetFollowsQueue
  /\ EvidenceInv

-------------------------------------------------------------------------------
(* When the queue's log grows *)

(* A log with one more event was sound before it, and had not accepted the
   event's target. *)
LEMMA ChainBack ==
  ASSUME NEW L \in Seq(QP!Line), NEW e \in QP!Event, QP!ChainOK(Append(L, e))
  PROVE  QP!ChainOK(L) /\ ~QP!Accepts(L, e.target)
<1> DEFINE M == Append(L, e)
           n == Len(L)
<1>1. /\ n \in Nat /\ DOMAIN L = 1..n /\ DOMAIN M = 1..(n + 1) /\ M[n + 1] = e
      /\ \A i \in 1..n : M[i] = L[i]
  BY QueueAssumptions, QP!AppendFacts
<1>2. (\A k \in 1..n : QP!Prior(M, k) = QP!Prior(L, k)) /\ QP!Prior(M, n + 1) = L
  BY QueueAssumptions, QP!PriorAppend
<1>3. \A k \in 1..(n + 1) : QP!EventOK(QP!Prior(M, k), M[k])  BY <1>1 DEF QP!ChainOK
<1> HIDE DEF M, n
<1>4. \A k \in 1..n : QP!EventOK(QP!Prior(L, k), L[k])  BY <1>1, <1>2, <1>3
<1>5. QP!EventOK(L, e)  BY <1>1, <1>2, <1>3
<1>6. QED  BY <1>1, <1>4, <1>5 DEF QP!ChainOK, QP!EventOK

(* Every log has its last events. *)
LEMMA LogsHaveLast ==
  ASSUME NEW L \in Seq(QP!Line)
  PROVE  QP!HasLast(L)
<1>1. Len(L) \in Nat /\ DOMAIN L = 1..Len(L)  BY LenProperties
<1>2. ASSUME NEW t
      PROVE  QP!About(L, t) \in SUBSET (1..Len(L)) /\ QP!Bindings(L, t) \in SUBSET (1..Len(L))
  BY <1>1 DEF QP!About, QP!Bindings
<1>3. QED  BY <1>1, <1>2, QueueAssumptions, QP!LastExists DEF QP!HasLast

(* What a log has accepted, for which candidate, outlives an event about a
   target it has not accepted. *)
LEMMA AcceptedStays ==
  ASSUME NEW L \in Seq(QP!Line), NEW e \in QP!Event, ~QP!Accepts(L, e.target),
         NEW t \in Targets, QP!FoldState(L)[t] = "accepted"
  PROVE  /\ QP!FoldState(Append(L, e))[t] = "accepted"
         /\ QP!FoldCandidates(Append(L, e))[t] = QP!FoldCandidates(L)[t]
<1>1. QP!HasLast(L)  BY LogsHaveLast
<1>2. QP!Accepts(L, t)
  <2>1. QP!About(L, t) # {} /\ L[QP!LastOf(QP!About(L, t))].to = "accepted"
    BY DEF QP!FoldState
  <2>2. QP!LastOf(QP!About(L, t)) \in QP!About(L, t)
    BY <1>1, <2>1 DEF QP!HasLast, QP!LastOf, QP!IsLast
  <2>3. QED  BY <2>1, <2>2 DEF QP!Accepts
<1>3. e.target # t  BY <1>2
<1>4. /\ QP!FoldState(Append(L, e)) = [QP!FoldState(L) EXCEPT ![e.target] = e.to]
      /\ QP!FoldCandidates(Append(L, e)) =
           IF e.kind = "candidate_artifact"
             THEN [QP!FoldCandidates(L) EXCEPT ![e.target] = e.candidate]
             ELSE QP!FoldCandidates(L)
  BY <1>1, QueueAssumptions, QP!FoldAppend
<1>5. QED  BY <1>3, <1>4 DEF QP!FoldState, QP!FoldCandidates

(* One event, or none, appended to a log: nothing the two logs agree on is
   lost, and nothing the new log says is without its artifact. *)
LEMMA GrowsOnce ==
  ASSUME NEW L \in Seq(QP!Line), NEW M, NEW e \in QP!Event, M = L \/ M = Append(L, e),
         QP!ChainOK(M),
         NEW rl \in Seq(R!Event)
  PROVE  /\ M \in Seq(QP!Line)
         /\ QP!ChainOK(L)
         /\ Follows(L, rl) => Follows(M, rl)
         /\ Backed(e) /\ (\A k \in DOMAIN L : Backed(L[k])) => \A k \in DOMAIN M : Backed(M[k])
<1>1. CASE M = L
  BY <1>1
<1>2. CASE M = Append(L, e)
  <2>1. QP!ChainOK(L) /\ ~QP!Accepts(L, e.target)  BY <1>2, ChainBack
  <2>2. ASSUME Follows(L, rl)  PROVE Follows(M, rl)
    <3>1. \A i \in DOMAIN rl : rl[i].target \in Targets
      <4>1. \A i \in DOMAIN rl : rl[i] \in R!Event  BY ElementOfSeq, LenProperties
      <4>2. \A e2 \in R!Event : e2.target \in Targets  BY DEF R!Event
      <4>3. QED  BY <4>1, <4>2
    <3>2. QED  BY <1>2, <2>1, <2>2, <3>1, AcceptedStays DEF Follows
  <2>3. /\ Len(L) \in Nat /\ DOMAIN L = 1..Len(L) /\ M \in Seq(QP!Line)
        /\ DOMAIN M = 1..(Len(L) + 1) /\ M[Len(L) + 1] = e
        /\ \A i \in 1..Len(L) : M[i] = L[i]
    BY <1>2, QueueAssumptions, QP!AppendFacts
  <2>4. ASSUME Backed(e), \A k \in DOMAIN L : Backed(L[k]), NEW k \in DOMAIN M
        PROVE  Backed(M[k])
    <3>1. CASE k \in 1..Len(L)  BY <2>3, <2>4, <3>1
    <3>2. CASE k = Len(L) + 1  BY <2>3, <2>4, <3>2
    <3>3. QED  BY <2>3, <3>1, <3>2
  <2>5. QED  BY <2>1, <2>2, <2>3, <2>4
<1>3. QED  BY <1>1, <1>2

(* The lines of a ratchet log that can be read are events. *)
LEMMA RatchetLines ==
  ASSUME TypeOK, QP!Readable(rfile)
  PROVE  rfile.lines \in Seq(R!Event)
<1>1. rfile.lines \in Seq(R!Event \cup {Torn})  BY DEF TypeOK, R!Files
<1>2. \A i \in 1..Len(rfile.lines) : rfile.lines[i] \in R!Event
  BY <1>1, ElementOfSeq, LenProperties DEF QP!Readable
<1>3. rfile.lines = [i \in 1..Len(rfile.lines) |-> rfile.lines[i]] /\ Len(rfile.lines) \in Nat
  BY <1>1, LenProperties
<1>4. QED  BY <1>2, <1>3, IsASeq

(* A call that appends up to two events, each with its artifacts on disk, and
   touches no other file. *)
LEMMA LogGrows ==
  ASSUME PipelineInv, QP!QueueInv',
         NEW e1 \in QP!Event, NEW e2 \in QP!Event, NEW g \in QP!Files(QP!Event),
         QP!Extends(qfile, g, e1), QP!Extends(g, qfile', e2),
         Backed(e1), Backed(e2),
         UNCHANGED <<rfile, kernelFile, auditFile>>
  PROVE  RatchetFollowsQueue' /\ EvidenceInv'
<1>1. QP!Readable(rfile)' <=> QP!Readable(rfile)  BY DEF QP!Readable
<1>2. ASSUME QP!Readable(qfile)'
      PROVE  /\ QP!Readable(rfile) => Follows(qfile.lines, rfile.lines)'
             /\ (\A k \in DOMAIN qfile.lines : Backed(qfile.lines[k]))'
  <2>1. /\ QP!Readable(g) /\ QP!Readable(qfile)
        /\ g.lines = qfile.lines \/ g.lines = Append(qfile.lines, e1)
        /\ qfile'.lines = g.lines \/ qfile'.lines = Append(g.lines, e2)
    BY <1>2 DEF QP!Extends, QP!Readable
  <2>2. qfile.lines \in Seq(QP!Line) /\ g.lines \in Seq(QP!Line)
    BY QueueAssumptions, QP!FileFacts DEF PipelineInv, QP!QueueInv, QP!TypeOK
  <2>3. QP!ChainOK(qfile'.lines)
    BY <1>2 DEF QP!QueueInv, QP!LogInv, QP!Readable
  <2> DEFINE L == qfile.lines
             G == g.lines
             M == qfile'.lines
             Sound(S) == \A k \in DOMAIN S : Backed(S[k])
  <2>4. Sound(L) /\ (QP!Readable(rfile) => Follows(L, rfile.lines))
    BY <2>1, SameLog, SameQueue
    DEF PipelineInv, EvidenceInv, RatchetFollowsQueue, QueueReadable, RatchetReadable,
        Backed, Follows
  <2>5. ASSUME NEW rl \in Seq(R!Event)
        PROVE  (Follows(L, rl) => Follows(M, rl)) /\ Sound(M)
    <3>1. /\ QP!ChainOK(G)
          /\ Follows(G, rl) => Follows(M, rl)
          /\ Sound(G) => Sound(M)
      <4>1. M = G \/ M = Append(G, e2)  BY <2>1
      <4> HIDE DEF M
      <4>2. QED  BY <2>2, <2>3, <4>1, GrowsOnce DEF M
    <3>2. /\ Follows(L, rl) => Follows(G, rl)
          /\ Sound(L) => Sound(G)
      BY <2>1, <2>2, <3>1, GrowsOnce
    <3>3. QED  BY <2>4, <3>1, <3>2
  <2>6. Sound(M)
    <3>1. <<>> \in Seq(R!Event)  OBVIOUS
    <3>2. QED  BY <2>5, <3>1
  <2>7. QP!Readable(rfile) => Follows(M, rfile.lines)
    BY <2>4, <2>5, RatchetLines DEF PipelineInv
  <2>8. QED  BY <2>6, <2>7 DEF Follows, Backed, QP!FoldState, QP!FoldCandidates
<1>3. QED
  BY <1>1, <1>2, SameLog, SameQueue
  DEF EvidenceInv, RatchetFollowsQueue, QueueReadable, RatchetReadable, Backed, Follows,
      QP!Readable

(* One append by a call that touches no file but the queue's log, and what
   memory holds if it returns. *)
LEMMA AppendGrows ==
  ASSUME PipelineInv, NEW e \in QP!Event, QP!LogAppend(e), QP!QueueInv', Backed(e),
         UNCHANGED <<rfile, kernelFile, auditFile>>
  PROVE  /\ RatchetFollowsQueue' /\ EvidenceInv'
         /\ faults' \in {faults, faults + 1}
         /\ faults' = faults => /\ alive' = alive /\ qcand' = qcand
                                /\ qstate' = [qstate EXCEPT ![e.target] = e.to]
<1>1. qfile \in QP!Files(QP!Event) /\ qfile' \in QP!Files(QP!Event) /\ faults \in Nat
  BY QueueAssumptions DEF PipelineInv, QP!QueueInv, QP!TypeOK
<1>2. CASE QP!Committed(e) /\ UNCHANGED qcand
  <2>1. QP!Extends(qfile, qfile', e)
    BY <1>1, <1>2, QueueAssumptions, QP!WrittenExtends DEF QP!Committed, QP!Extends
  <2>2. QP!Extends(qfile', qfile', e)  BY DEF QP!Extends
  <2>3. RatchetFollowsQueue' /\ EvidenceInv'  BY <1>1, <2>1, <2>2, LogGrows
  <2>4. QED  BY <1>2, <2>3 DEF QP!Committed
<1>3. CASE QP!Failed(qfile, qstate, e)
  <2>1. \E w \in QP!Outcomes : qfile' = QP!Interrupted(qfile, e, w)
    BY <1>3, QueueAssumptions DEF QP!Failed
  <2>2. QP!Extends(qfile, qfile', e)
    BY <1>1, <2>1, QueueAssumptions, QP!InterruptedExtends
  <2>3. QP!Extends(qfile', qfile', e)  BY DEF QP!Extends
  <2>4. RatchetFollowsQueue' /\ EvidenceInv'  BY <1>1, <2>2, <2>3, LogGrows
  <2>5. faults' = faults + 1  BY <1>3 DEF QP!Failed
  <2>6. QED  BY <1>1, <2>4, <2>5
<1>4. QED  BY <1>2, <1>3 DEF QP!LogAppend

(* The arithmetic of the counter of failures. *)
LEMMA Counting ==
  /\ \A f \in 0..MaxFaults : f \in Nat /\ f + 1 \in Nat
  /\ \A f, g \in Nat : g <= f => g <= f + 1
BY BoundsAssumption

(* A call of the queue moves run_target on when it returns and ends the run
   when it does not; the invariant asks for no more than this. *)
LEMMA CallInv ==
  ASSUME PipelineInv, QP!QueueInv', RatchetFollowsQueue', EvidenceInv',
         UNCHANGED <<rfile, files>>,
         accepted' = IF alive' THEN accepted ELSE R!Nobody,
         pc \notin {"place receipt", "place audit"},
         faults' \in {faults, faults + 1},
         NEW next, Goto(IF faults' = faults THEN next ELSE "idle"),
         \/ next = "idle"
         \/ /\ next \in Steps \ Writing /\ pc # "idle"
            /\ faults' = faults => Progress'
  PROVE  PipelineInv'
<1>1. Q!TypeOK' /\ faults' \in Nat /\ faults \in Nat
  <2>1. faults \in Nat /\ faults' \in Nat
    <3>1. faults \in 0..MaxFaults  BY DEF PipelineInv, QP!QueueInv, QP!TypeOK
    <3>2. QED  BY <3>1, Counting, Zenon
  <2>2. QP!TypeOK'  BY DEF QP!QueueInv
  <2>3. Q!TypeOK'
    BY <2>2, SameQueue DEF Q!TypeOK, QP!TypeOK, Q!States, QP!States
  <2>4. QED  BY <2>1, <2>3
<1>2. TypeOK'
  <2>1. R!Nobody \in [Targets -> Candidates \cup {NoCandidate}]  BY DEF R!Nobody
  <2>2. \/ pc' = "idle" /\ run' = NoRun
        \/ pc' \in Steps /\ run' \in Runs
    BY DEF PipelineInv, TypeOK, Goto
  <2>3. QED  BY <1>1, <2>1, <2>2 DEF PipelineInv, TypeOK, files
<1>3. (pc # "idle" => Progress)'  BY DEF Goto
<1>4. OnlyTheDeadLeaveTemps'
  <2>1. temp = FALSE /\ temp' = FALSE
    BY DEF PipelineInv, TypeOK, OnlyTheDeadLeaveTemps, files
  <2>2. strays \in Nat /\ strays' = strays /\ strays <= faults
    BY DEF PipelineInv, TypeOK, OnlyTheDeadLeaveTemps, files
  <2>3. strays' <= faults'  BY <1>1, <2>2, Counting, Zenon
  <2>4. QED  BY <2>1, <2>3 DEF OnlyTheDeadLeaveTemps
<1>5. QED  BY <1>2, <1>3, <1>4 DEF PipelineInv

-------------------------------------------------------------------------------
(* Steps that leave both logs and both objects alone *)

(* The queue's invariant does not look at what such a step changes. *)
LEMMA QueueStays ==
  ASSUME QP!QueueInv, qfile' = qfile, faults' \in 0..MaxFaults,
         \/ alive' = alive /\ qstate' = qstate /\ qcand' = qcand
         \/ alive' = FALSE /\ qstate' = QP!Blank /\ qcand' = QP!Unbound
  PROVE  QP!QueueInv'
<1>1. CASE alive' = alive /\ qstate' = qstate /\ qcand' = qcand
  BY <1>1 DEF QP!QueueInv, QP!TypeOK, QP!MemInv
<1>2. CASE alive' = FALSE /\ qstate' = QP!Blank /\ qcand' = QP!Unbound
  <2>1. /\ QP!Blank \in [Targets -> QP!States \cup {"absent"}]
        /\ QP!Unbound \in [Targets -> Candidates \cup {NoCandidate}]
    BY DEF QP!Blank, QP!Unbound
  <2>2. QP!TypeOK'  BY <1>2, <2>1 DEF QP!QueueInv, QP!TypeOK
  <2>3. QED  BY <1>2, <2>2 DEF QP!QueueInv
<1>3. QED  BY <1>1, <1>2

(* What the queue, the ratchet and the counters need when only the artifacts,
   the temporary file and the run move. *)
LEMMA LocalInv ==
  ASSUME PipelineInv, UNCHANGED <<alive, queue, ratchet>>,
         faults' \in 0..MaxFaults, faults' \in {faults, faults + 1}, strays' = strays,
         \/ temp' = FALSE
         \/ temp' = TRUE /\ alive' /\ pc' \in {"place receipt", "place audit"},
         kernelFile' \in [Targets \X Candidates -> Receipts \cup {NoFile}],
         auditFile' \in [Targets \X Candidates -> {"pass", "fail", NoFile}],
         EvidenceInv',
         \/ pc' = "idle" /\ run' = NoRun
         \/ pc' \in Steps /\ run' \in Runs /\ Progress'
  PROVE  PipelineInv'
<1>1. /\ alive' = alive /\ qfile' = qfile /\ qstate' = qstate /\ qcand' = qcand
      /\ rfile' = rfile /\ accepted' = accepted
  BY DEF queue, ratchet
<1>2. QP!QueueInv'  BY <1>1, QueueStays DEF PipelineInv
<1>3. strays \in Nat /\ faults \in 0..MaxFaults /\ strays <= faults
  BY DEF PipelineInv, TypeOK, OnlyTheDeadLeaveTemps, QP!QueueInv, QP!TypeOK
<1>4. strays' <= faults' /\ strays' \in Nat  BY <1>3, Counting, Zenon
<1>5. Q!TypeOK'
  BY <1>2, SameQueue DEF QP!QueueInv, Q!TypeOK, QP!TypeOK, Q!States, QP!States
<1>6. TypeOK'  BY <1>1, <1>4, <1>5 DEF PipelineInv, TypeOK
<1>7. OnlyTheDeadLeaveTemps'  BY <1>4 DEF OnlyTheDeadLeaveTemps
<1>8. RatchetFollowsQueue'
  BY <1>1 DEF PipelineInv, RatchetFollowsQueue, QueueReadable, RatchetReadable
<1>9. QED  BY <1>2, <1>6, <1>7, <1>8 DEF PipelineInv

(* An exception that is not about a log. *)
LEMMA ExceptionInv ==
  ASSUME PipelineInv, Exception
  PROVE  PipelineInv'
<1>1. /\ UNCHANGED <<alive, queue, ratchet>> /\ strays' = strays
      /\ kernelFile' = kernelFile /\ auditFile' = auditFile
      /\ temp' = FALSE /\ faults' = faults + 1 /\ faults < MaxFaults
      /\ pc' = "idle" /\ run' = NoRun
  BY DEF Exception, Goto
<1>2. faults \in 0..MaxFaults  BY DEF PipelineInv, QP!QueueInv, QP!TypeOK
<1>3. faults' \in 0..MaxFaults  BY <1>1, <1>2, BoundsAssumption
<1>4. EvidenceInv'
  BY <1>1 DEF PipelineInv, EvidenceInv, Backed, QP!Readable, queue
<1>5. QED  BY <1>1, <1>3, <1>4, LocalInv DEF PipelineInv, TypeOK

(* A call that refuses to start. *)
LEMMA RefusedInv ==
  ASSUME PipelineInv, Refused, pc \notin {"place receipt", "place audit"}
  PROVE  PipelineInv'
<1>1. /\ UNCHANGED <<alive, queue, ratchet, files, faults>> /\ pc' = "idle" /\ run' = NoRun
  BY DEF Refused, Goto
<1>2. temp' = FALSE /\ kernelFile' = kernelFile /\ auditFile' = auditFile /\ strays' = strays
  BY <1>1 DEF PipelineInv, TypeOK, OnlyTheDeadLeaveTemps, files
<1>3. EvidenceInv'
  BY <1>1, <1>2 DEF PipelineInv, EvidenceInv, Backed, QP!Readable, queue
<1>4. faults' \in 0..MaxFaults /\ faults' = faults
  BY <1>1 DEF PipelineInv, QP!QueueInv, QP!TypeOK
<1>5. QED  BY <1>1, <1>2, <1>3, <1>4, LocalInv DEF PipelineInv, TypeOK

(* A step of the running call that moves no file: Begin, the checker's answer,
   the audit's, and the writing of a temporary file. *)
LEMMA AdvanceInv ==
  ASSUME PipelineInv, UNCHANGED <<alive, queue, ratchet, kernelFile, auditFile, strays, faults>>,
         \/ temp' = FALSE
         \/ temp' = TRUE /\ alive' /\ pc' \in {"place receipt", "place audit"},
         pc' \in Steps, run' \in Runs, Progress'
  PROVE  PipelineInv'
<1>1. faults' \in 0..MaxFaults /\ faults' = faults
  BY DEF PipelineInv, QP!QueueInv, QP!TypeOK
<1>2. EvidenceInv'
  BY DEF PipelineInv, EvidenceInv, Backed, QP!Readable, queue
<1>3. QED  BY <1>1, <1>2, LocalInv DEF PipelineInv, TypeOK

(* Begin. *)
LEMMA BeginInv ==
  ASSUME PipelineInv, NEW t \in Targets, NEW c \in Candidates, Begin(t, c)
  PROVE  PipelineInv'
<1>1. /\ alive /\ pc = "idle" /\ pc' \in {"enqueue", "start"}
      /\ run' = [target |-> t, candidate |-> c, receipt |-> NoFile, audit |-> NoFile]
      /\ UNCHANGED <<alive, queue, ratchet, files, faults>>
  BY DEF Begin, At
<1>2. run' \in Runs /\ pc' \in Steps  BY <1>1 DEF Runs, Steps
<1>3. temp' = FALSE  BY <1>1 DEF PipelineInv, TypeOK, OnlyTheDeadLeaveTemps, files
<1>4. Progress'
  BY <1>1 DEF Progress, AfterCheck, AfterReceipt, AfterAccepted, AfterAudit
<1>5. QED  BY <1>1, <1>2, <1>3, <1>4, AdvanceInv DEF files

(* Check. *)
LEMMA CheckInv ==
  ASSUME PipelineInv, Check
  PROVE  PipelineInv'
<1>1. CASE Exception  BY <1>1, ExceptionInv
<1>2. ASSUME NEW r \in Receipts,
             run' = [run EXCEPT !.receipt = r], pc' = "write receipt",
             UNCHANGED <<alive, queue, ratchet, files, faults>>
      PROVE  PipelineInv'
  <2>1. /\ alive /\ pc = "check" /\ run \in Runs /\ Progress /\ temp = FALSE
    BY DEF Check, At, PipelineInv, TypeOK, OnlyTheDeadLeaveTemps
  <2>2. /\ run' \in Runs /\ pc' \in Steps
        /\ run'.target = run.target /\ run'.receipt = r
    BY <1>2, <2>1 DEF Runs, Steps, Writing
  <2>3. Progress'
    BY <1>2, <2>1, <2>2
    DEF Progress, AfterCheck, AfterReceipt, AfterAccepted, AfterAudit, queue
  <2>4. QED  BY <1>2, <2>1, <2>2, <2>3, AdvanceInv DEF files
<1>3. QED  BY <1>1, <1>2 DEF Check

(* WriteReceipt, before and after the receipt is in place.  A retry under the
   candidate id of an earlier attempt overwrites that attempt's receipt, but
   never one an acceptance rests on: the target is not accepted yet. *)
LEMMA WriteReceiptInv ==
  ASSUME PipelineInv, WriteReceipt
  PROVE  PipelineInv'
<1>1. CASE At("write receipt") /\ WriteTemp("place receipt")
  <2>1. CASE Exception  BY <2>1, ExceptionInv
  <2>2. CASE /\ temp' = TRUE /\ Goto("place receipt")
             /\ UNCHANGED <<alive, queue, ratchet, kernelFile, auditFile, strays, faults>>
    <3>1. /\ alive /\ pc = "write receipt" /\ run \in Runs /\ Progress
          /\ pc' = "place receipt" /\ run' = run
      BY <1>1, <2>2 DEF At, Goto, PipelineInv, TypeOK
    <3>2. Progress'
      BY <2>2, <3>1
      DEF Progress, AfterCheck, AfterReceipt, AfterAccepted, AfterAudit, queue
    <3>3. pc' \in Steps /\ run' \in Runs  BY <3>1 DEF Steps, Writing
    <3>4. QED  BY <2>2, <3>1, <3>2, <3>3, AdvanceInv
  <2>3. QED  BY <1>1, <2>1, <2>2 DEF WriteTemp
<1>2. CASE At("place receipt") /\ Exception  BY <1>2, ExceptionInv
<1>3. CASE /\ At("place receipt") /\ Place("receipt")
           /\ kernelFile' = [kernelFile EXCEPT ![Here] = run.receipt]
           /\ UNCHANGED auditFile
  <2>1. /\ alive /\ pc = "place receipt" /\ run \in Runs /\ Progress
        /\ pc' = "receipt" /\ run' = run /\ temp' = FALSE
        /\ UNCHANGED <<alive, queue, ratchet, strays, faults>>
    BY <1>3 DEF At, Place, Goto, PipelineInv, TypeOK
  <2>2. /\ run.target \in Targets /\ Here \in Targets \X Candidates /\ Here' = Here
        /\ run.receipt \in Receipts /\ qstate[run.target] = "candidate-produced"
    BY <2>1 DEF Runs, Here, Progress, AfterCheck
  <2>3. kernelFile \in [Targets \X Candidates -> Receipts \cup {NoFile}]
    BY DEF PipelineInv, TypeOK
  <2>4. kernelFile' \in [Targets \X Candidates -> Receipts \cup {NoFile}] /\ kernelFile'[Here] = run.receipt
        /\ \A tc \in Targets \X Candidates : tc # Here => kernelFile'[tc] = kernelFile[tc]
    BY <1>3, <2>2, <2>3
  <2>5. Progress'
    BY <2>1, <2>2, <2>4
    DEF Progress, AfterCheck, AfterReceipt, AfterAccepted, AfterAudit, queue
  <2>6. EvidenceInv'
    <3>1. SUFFICES ASSUME QP!Readable(qfile), NEW k \in DOMAIN qfile.lines
                   PROVE  Backed(qfile.lines[k])'
      BY <2>1, SameLog DEF EvidenceInv, QueueReadable, Backed, queue
    <3> DEFINE e == qfile.lines[k]
               tc == <<e.target, e.candidate>>
    <3>2. Backed(e)
      BY <3>1, SameLog DEF PipelineInv, EvidenceInv, QueueReadable, Backed
    <3>3. run.receipt # NoFile  BY <2>2, NoFileAssumption
    <3>4. e.to = "accepted" => tc # Here
      <4>1. QP!MemInv(qfile.lines)  BY <2>1, <3>1 DEF PipelineInv, QP!QueueInv
      <4>2. ~QP!Accepts(qfile.lines, run.target)
        BY <2>2, <4>1 DEF QP!MemInv, QP!Supports
      <4>3. QED  BY <4>2 DEF QP!Accepts, QP!About, Here
    <3>5. QED  BY <1>3, <2>1, <2>4, <3>2, <3>3, <3>4 DEF Backed, queue
  <2>7. faults' \in 0..MaxFaults /\ faults' = faults
    BY <2>1 DEF PipelineInv, QP!QueueInv, QP!TypeOK
  <2>8. pc' \in Steps  BY <2>1 DEF Steps
  <2>9. QED
    BY <1>3, <2>1, <2>4, <2>5, <2>6, <2>7, <2>8, LocalInv DEF PipelineInv, TypeOK
<1>4. QED  BY <1>1, <1>2, <1>3 DEF WriteReceipt

(* Audit: it reads the receipt run_target holds, which is the one on disk. *)
LEMMA AuditInv ==
  ASSUME PipelineInv, Audit
  PROVE  PipelineInv'
<1>1. CASE Exception  BY <1>1, ExceptionInv
<1>2. ASSUME NEW clean \in BOOLEAN,
             run' = [run EXCEPT !.audit = RunAudit(run.receipt, clean)], pc' = "write audit",
             UNCHANGED <<alive, queue, ratchet, files, faults>>
      PROVE  PipelineInv'
  <2>1. /\ alive /\ pc = "audit" /\ run \in Runs /\ Progress /\ temp = FALSE
    BY DEF Audit, At, PipelineInv, TypeOK, OnlyTheDeadLeaveTemps
  <2> DEFINE a == RunAudit(run.receipt, clean)
  <2>2. a \in {"pass", "fail"} /\ (a = "pass" => run.receipt.established)
    BY Zenon DEF RunAudit
  <2> HIDE DEF a
  <2>3. /\ run' \in Runs /\ pc' \in Steps
        /\ run'.target = run.target /\ run'.receipt = run.receipt
        /\ run'.candidate = run.candidate /\ run'.audit = a
    BY <1>2, <2>1, <2>2 DEF Runs, Steps, Writing, a
  <2>4. /\ run.receipt \in Receipts /\ kernelFile[Here] = run.receipt
        /\ run.receipt.verdict = "accepted" /\ qstate[run.target] = "kernel-checked"
        /\ Here' = Here
    BY <2>1, <2>3 DEF Progress, AfterCheck, AfterReceipt, AfterAccepted, Here
  <2>5. Progress'
    <3>1. a = "pass" => run'.receipt.established  BY <2>2, <2>3, Zenon
    <3>2. QED
      BY <1>2, <2>1, <2>2, <2>3, <2>4, <3>1
      DEF Progress, AfterCheck, AfterReceipt, AfterAccepted, AfterAudit, queue, files
  <2>6. QED  BY <1>2, <2>1, <2>3, <2>5, AdvanceInv DEF files
<1>3. QED  BY <1>1, <1>2 DEF Audit

(* WriteAudit, likewise. *)
LEMMA WriteAuditInv ==
  ASSUME PipelineInv, WriteAudit
  PROVE  PipelineInv'
<1>1. CASE At("write audit") /\ WriteTemp("place audit")
  <2>1. CASE Exception  BY <2>1, ExceptionInv
  <2>2. CASE /\ temp' = TRUE /\ Goto("place audit")
             /\ UNCHANGED <<alive, queue, ratchet, kernelFile, auditFile, strays, faults>>
    <3>1. /\ alive /\ pc = "write audit" /\ run \in Runs /\ Progress
          /\ pc' = "place audit" /\ run' = run
      BY <1>1, <2>2 DEF At, Goto, PipelineInv, TypeOK
    <3>2. Progress'
      BY <2>2, <3>1
      DEF Progress, AfterCheck, AfterReceipt, AfterAccepted, AfterAudit, Here, queue
    <3>3. pc' \in Steps /\ run' \in Runs  BY <3>1 DEF Steps, Writing
    <3>4. QED  BY <2>2, <3>1, <3>2, <3>3, AdvanceInv
  <2>3. QED  BY <1>1, <2>1, <2>2 DEF WriteTemp
<1>2. CASE At("place audit") /\ Exception  BY <1>2, ExceptionInv
<1>3. CASE /\ At("place audit") /\ Place("verdict")
           /\ auditFile' = [auditFile EXCEPT ![Here] = run.audit]
           /\ UNCHANGED kernelFile
  <2>1. /\ alive /\ pc = "place audit" /\ run \in Runs /\ Progress
        /\ pc' = "verdict" /\ run' = run /\ temp' = FALSE
        /\ UNCHANGED <<alive, queue, ratchet, strays, faults>>
    BY <1>3 DEF At, Place, Goto, PipelineInv, TypeOK
  <2>2. /\ run.target \in Targets /\ Here \in Targets \X Candidates /\ Here' = Here
        /\ run.audit \in {"pass", "fail"} /\ qstate[run.target] = "kernel-checked"
        /\ kernelFile[Here] = run.receipt
    BY <2>1 DEF Runs, Here, Progress, AfterAudit, AfterReceipt, AfterCheck
  <2>3. auditFile \in [Targets \X Candidates -> {"pass", "fail", NoFile}]
    BY DEF PipelineInv, TypeOK
  <2>4. /\ auditFile' \in [Targets \X Candidates -> {"pass", "fail", NoFile}]
        /\ auditFile'[Here] = run.audit
        /\ \A tc \in Targets \X Candidates : tc # Here => auditFile'[tc] = auditFile[tc]
    BY <1>3, <2>2, <2>3
  <2>5. Progress'
    BY <1>3, <2>1, <2>2, <2>4
    DEF Progress, AfterCheck, AfterReceipt, AfterAccepted, AfterAudit, queue
  <2>6. EvidenceInv'
    <3>1. SUFFICES ASSUME QP!Readable(qfile), NEW k \in DOMAIN qfile.lines
                   PROVE  Backed(qfile.lines[k])'
      BY <2>1 DEF EvidenceInv, QP!Readable, Backed, queue
    <3> DEFINE e == qfile.lines[k]
               tc == <<e.target, e.candidate>>
    <3>2. Backed(e)  BY <3>1 DEF PipelineInv, EvidenceInv
    <3>3. run.audit # NoFile  BY <2>2, NoFileAssumption
    <3>4. e.to = "accepted" => tc # Here
      <4>1. QP!MemInv(qfile.lines)  BY <2>1, <3>1 DEF PipelineInv, QP!QueueInv
      <4>2. ~QP!Accepts(qfile.lines, run.target)
        BY <2>2, <4>1 DEF QP!MemInv, QP!Supports
      <4>3. QED  BY <4>2 DEF QP!Accepts, QP!About, Here
    <3>5. QED  BY <1>3, <2>1, <2>4, <3>2, <3>3, <3>4 DEF Backed, queue
  <2>7. faults' \in 0..MaxFaults /\ faults' = faults
    BY <2>1 DEF PipelineInv, QP!QueueInv, QP!TypeOK
  <2>8. pc' \in Steps  BY <2>1 DEF Steps
  <2>9. QED
    BY <1>3, <2>1, <2>4, <2>5, <2>6, <2>7, <2>8, LocalInv DEF PipelineInv, TypeOK
<1>4. QED  BY <1>1, <1>2, <1>3 DEF WriteAudit

-------------------------------------------------------------------------------
(* The calls of the queue *)

(* A method of the queue keeps the queue's invariant. *)
LEMMA QueueMethod ==
  ASSUME PipelineInv, QP!Next
  PROVE  QP!QueueInv'
BY QueueAssumptions, QP!QueueInvNext DEF PipelineInv, QP!vars

(* A method that is one append. *)
LEMMA AppendCallInv ==
  ASSUME PipelineInv, NEW e \in QP!Event, QP!LogAppend(e), QP!Next, Backed(e),
         UNCHANGED <<rfile, files>>,
         accepted' = IF alive' THEN accepted ELSE R!Nobody,
         pc \notin {"place receipt", "place audit"},
         NEW next, Goto(IF faults' = faults THEN next ELSE "idle"),
         \/ next = "idle"
         \/ /\ next \in Steps \ Writing /\ pc # "idle"
            /\ /\ pc' = next /\ run' = run /\ alive' = alive /\ qcand' = qcand
               /\ qstate' = [qstate EXCEPT ![e.target] = e.to]
               => Progress'
  PROVE  PipelineInv'
<1>1. QP!QueueInv'  BY QueueMethod
<1>2. UNCHANGED <<rfile, kernelFile, auditFile>>  BY DEF files
<1>3. /\ RatchetFollowsQueue' /\ EvidenceInv'
      /\ faults' \in {faults, faults + 1}
      /\ faults' = faults => /\ alive' = alive /\ qcand' = qcand
                             /\ qstate' = [qstate EXCEPT ![e.target] = e.to]
  BY <1>1, <1>2, AppendGrows
<1>4. next # "idle" /\ faults' = faults => pc' = next /\ run' = run  BY DEF Goto
<1>5. "idle" \notin Steps  BY DEF Steps, Writing
<1>6. \/ next = "idle"
      \/ /\ next \in Steps \ Writing /\ pc # "idle"
         /\ faults' = faults => Progress'
  BY <1>3, <1>4, <1>5
<1>7. QED  BY <1>1, <1>3, <1>6, CallInv

(* An event that rests on no artifact. *)
LEMMA PlainBacked ==
  ASSUME NEW t \in Targets, NEW from \in QP!States \cup {"absent"},
         NEW to \in {"queued", "attempting", "abandoned"}, NEW kind \in QP!Quiet
  PROVE  /\ QP!Plain(t, from, to, kind) \in QP!Event
         /\ Backed(QP!Plain(t, from, to, kind))
         /\ QP!Plain(t, from, to, kind).target = t /\ QP!Plain(t, from, to, kind).to = to
<1> DEFINE e == QP!Plain(t, from, to, kind)
<1>1. /\ e \in QP!Event /\ e.target = t /\ e.to = to /\ e.kind = kind
  BY DEF QP!Plain, QP!Hop, QP!Event, QP!States, QP!Quiet
<1> HIDE DEF e
<1>2. Backed(e)  BY <1>1 DEF Backed, QP!Quiet
<1>3. QED  BY <1>1, <1>2 DEF e

(* Enqueue and StartAttempt. *)
LEMMA OpeningInv ==
  ASSUME PipelineInv, Enqueue \/ StartAttempt
  PROVE  PipelineInv'
<1>1. CASE Enqueue
  <2>1. /\ alive /\ pc = "enqueue" /\ run \in Runs /\ run.target \in Targets
        /\ QP!Enqueue(run.target)
        /\ Goto(IF faults' = faults THEN "start" ELSE "idle")
        /\ UNCHANGED <<rfile, files>> /\ accepted' = IF alive' THEN accepted ELSE R!Nobody
    BY <1>1, SameCalls DEF Enqueue, At, QueueCall, PipelineInv, TypeOK, Runs
  <2> DEFINE e == QP!Plain(run.target, "absent", "queued", "target_entry")
  <2>2. QP!Next  BY <2>1 DEF QP!Next
  <2>3. e \in QP!Event /\ Backed(e) /\ e.target = run.target /\ e.to = "queued"
    BY <2>1, PlainBacked DEF QP!Quiet
  <2>4. QP!LogAppend(e)  BY <2>1 DEF QP!Enqueue
  <2> HIDE DEF e
  <2>5. "start" \in Steps \ Writing  BY DEF Steps, Writing
  <2>6. pc' = "start" /\ run' = run /\ alive' = alive => Progress'
    BY <2>1 DEF Progress, AfterCheck, AfterReceipt, AfterAccepted, AfterAudit
  <2>7. QED  BY <2>1, <2>2, <2>3, <2>4, <2>5, <2>6, AppendCallInv
<1>2. CASE StartAttempt
  <2>1. alive /\ pc = "start" /\ run \in Runs /\ run.target \in Targets
    BY <1>2 DEF StartAttempt, At, PipelineInv, TypeOK, Runs
  <2>2. CASE Refused  BY <2>1, <2>2, RefusedInv
  <2>3. CASE QueueCall(Q!StartAttempt(run.target), "candidate")
    <3>1. /\ QP!StartAttempt(run.target)
          /\ Goto(IF faults' = faults THEN "candidate" ELSE "idle")
          /\ UNCHANGED <<rfile, files>> /\ accepted' = IF alive' THEN accepted ELSE R!Nobody
      BY <2>3, SameCalls DEF QueueCall
    <3> DEFINE e == QP!Plain(run.target, "queued", "attempting", "attempt_started")
    <3>2. QP!Next  BY <2>1, <3>1 DEF QP!Next
    <3>3. e \in QP!Event /\ Backed(e) /\ e.target = run.target /\ e.to = "attempting"
      BY <2>1, PlainBacked DEF QP!Quiet, QP!States
    <3>4. QP!LogAppend(e)  BY <3>1 DEF QP!StartAttempt
    <3> HIDE DEF e
    <3>5. "candidate" \in Steps \ Writing  BY DEF Steps, Writing
    <3>6. qstate \in [Targets -> QP!States \cup {"absent"}]
      BY DEF PipelineInv, QP!QueueInv, QP!TypeOK
    <3>7. /\ pc' = "candidate" /\ run' = run /\ alive' = alive
          /\ qstate' = [qstate EXCEPT ![e.target] = e.to]
          => Progress'
      BY <2>1, <3>3, <3>6 DEF Progress, AfterCheck, AfterReceipt, AfterAccepted, AfterAudit
    <3>8. QED  BY <2>1, <3>1, <3>2, <3>3, <3>4, <3>5, <3>7, AppendCallInv
  <2>4. QED  BY <1>2, <2>2, <2>3 DEF StartAttempt
<1>3. QED  BY <1>1, <1>2

(* RecordCandidate: the append, and a binding in memory. *)
LEMMA RecordCandidateInv ==
  ASSUME PipelineInv, RecordCandidate
  PROVE  PipelineInv'
<1>1. /\ alive /\ pc = "candidate" /\ run \in Runs /\ Progress
      /\ run.target \in Targets /\ run.candidate \in Candidates
      /\ QP!RecordCandidate(run.target, run.candidate)
      /\ Goto(IF faults' = faults THEN "check" ELSE "idle")
      /\ UNCHANGED <<rfile, files>> /\ accepted' = IF alive' THEN accepted ELSE R!Nobody
  BY SameCalls DEF RecordCandidate, At, QueueCall, PipelineInv, TypeOK, Runs
<1> DEFINE e == QP!Hop(run.target, "attempting", "candidate-produced",
                       "candidate_artifact", run.candidate, "none")
<1>2. /\ e \in QP!Event /\ e.target = run.target /\ e.to = "candidate-produced"
      /\ e.kind = "candidate_artifact"
  BY <1>1 DEF QP!Hop, QP!Event, QP!States
<1>3. \/ QP!Committed(e) /\ qcand' = [qcand EXCEPT ![run.target] = run.candidate]
      \/ QP!Failed(qfile, qstate, e)
  BY <1>1 DEF QP!RecordCandidate
<1> HIDE DEF e
<1>4. Backed(e)  BY <1>2 DEF Backed
<1>5. QP!Next  BY <1>1 DEF QP!Next
<1>6. QP!QueueInv'  BY <1>5, QueueMethod
<1>7. qfile \in QP!Files(QP!Event) /\ qfile' \in QP!Files(QP!Event)
  BY <1>6 DEF PipelineInv, QP!QueueInv, QP!TypeOK
<1>8. QP!Extends(qfile, qfile', e) /\ QP!Extends(qfile', qfile', e)
  <2>1. CASE QP!Committed(e)
    BY <1>2, <1>7, <2>1, QueueAssumptions, QP!WrittenExtends DEF QP!Committed, QP!Extends
  <2>2. CASE QP!Failed(qfile, qstate, e)
    <3>1. \E w \in QP!Outcomes : qfile' = QP!Interrupted(qfile, e, w)
      BY <2>2, QueueAssumptions DEF QP!Failed
    <3>2. QED
      BY <1>2, <1>7, <3>1, QueueAssumptions, QP!InterruptedExtends DEF QP!Extends
  <2>3. QED  BY <1>3, <2>1, <2>2
<1>9. RatchetFollowsQueue' /\ EvidenceInv'
  BY <1>1, <1>2, <1>4, <1>6, <1>7, <1>8, LogGrows DEF files
<1>10. faults \in Nat
  <2>1. faults \in 0..MaxFaults  BY DEF PipelineInv, QP!QueueInv, QP!TypeOK
  <2>2. QED  BY <2>1, Counting
<1>11. /\ faults' \in {faults, faults + 1}
       /\ faults' = faults => alive' = alive /\ qstate' = [qstate EXCEPT ![e.target] = e.to]
  BY <1>3, <1>10 DEF QP!Committed, QP!Failed
<1>12. qstate \in [Targets -> QP!States \cup {"absent"}]
  BY DEF PipelineInv, QP!QueueInv, QP!TypeOK
<1>13. "check" \in Steps \ Writing  BY DEF Steps, Writing
<1>14. faults' = faults => Progress'
  <2>1. SUFFICES ASSUME faults' = faults  PROVE Progress'  OBVIOUS
  <2>2. pc' = "check" /\ run' = run /\ alive' /\ qstate'[run.target] = "candidate-produced"
    BY <1>1, <1>2, <1>11, <1>12, <2>1 DEF Goto
  <2>3. QED  BY <2>2 DEF Progress, AfterCheck, AfterReceipt, AfterAccepted, AfterAudit
<1>15. QED  BY <1>1, <1>6, <1>9, <1>11, <1>13, <1>14, CallInv

(* RecordKernelReceipt: the receipt is in place when its event is written. *)
LEMMA RecordKernelReceiptInv ==
  ASSUME PipelineInv, RecordKernelReceipt
  PROVE  PipelineInv'
<1> DEFINE next == IF run.receipt.verdict = "accepted" THEN "audit" ELSE "requeue"
           v == run.receipt.verdict
           e == QP!Hop(run.target, "candidate-produced", QP!Ruling(v), "kernel_receipt",
                       run.candidate, v)
<1>1. /\ alive /\ pc = "receipt" /\ run \in Runs /\ Progress
      /\ run.target \in Targets /\ run.candidate \in Candidates
      /\ QP!RecordKernelReceipt(run.target, Filed)
      /\ Goto(IF faults' = faults THEN next ELSE "idle")
      /\ UNCHANGED <<rfile, files>> /\ accepted' = IF alive' THEN accepted ELSE R!Nobody
  BY SameCalls DEF RecordKernelReceipt, At, QueueCall, PipelineInv, TypeOK, Runs
<1>2. run.receipt \in Receipts /\ kernelFile[Here] = run.receipt
  BY <1>1 DEF Progress, AfterCheck, AfterReceipt
<1>3. v \in {"accepted", "rejected", "error"} /\ run.receipt # NoFile
  BY <1>2, NoFileAssumption DEF Receipts
<1>4. /\ QP!Ruling(v) \in {"kernel-checked", "checker-error", "kernel-rejected"}
      /\ QP!Ruling(v) = "kernel-checked" <=> v = "accepted"
  BY <1>3 DEF QP!Ruling
<1>5. /\ e \in QP!Event /\ e.target = run.target /\ e.candidate = run.candidate
      /\ e.to = QP!Ruling(v) /\ e.kind = "kernel_receipt"
  BY <1>1, <1>3, <1>4 DEF QP!Hop, QP!Event, QP!States
<1>6. Filed \in QP!Receipts /\ Filed.verdict = v /\ Filed.candidate = run.candidate
  BY <1>1, <1>3 DEF Filed, QP!Receipts
<1>7. QP!LogAppend(e)  BY <1>1, <1>6 DEF QP!RecordKernelReceipt
<1>8. QP!Next  BY <1>1, <1>6 DEF QP!Next
<1> HIDE DEF e, v
<1>9. Backed(e)
  BY <1>1, <1>2, <1>3, <1>4, <1>5 DEF Backed, Here
<1>10. qstate \in [Targets -> QP!States \cup {"absent"}]
  BY DEF PipelineInv, QP!QueueInv, QP!TypeOK
<1>11. next \in Steps \ Writing /\ next \in {"audit", "requeue"}
       /\ (next = "audit" <=> v = "accepted")
  BY DEF Steps, Writing, v
<1> HIDE DEF next
<1>12. ASSUME pc' = next, run' = run, alive' = alive, qcand' = qcand,
              qstate' = [qstate EXCEPT ![e.target] = e.to]
       PROVE  Progress'
  <2>1. next = "audit" => qstate'[run.target] = "kernel-checked"
    BY <1>1, <1>4, <1>5, <1>10, <1>11, <1>12
  <2>2. kernelFile'[Here] = run.receipt /\ alive'  BY <1>1, <1>2, <1>12 DEF Here, files
  <2>3. pc' = "audit" => run.receipt.verdict = "accepted"  BY <1>11, <1>12 DEF v
  <2>4. QED
    BY <1>2, <1>11, <1>12, <2>1, <2>2, <2>3
    DEF Progress, AfterCheck, AfterReceipt, AfterAccepted, AfterAudit, Here
<1>13. QED  BY <1>1, <1>5, <1>7, <1>8, <1>9, <1>11, <1>12, AppendCallInv

(* A decision, or the end of an attempt without a candidate. *)
LEMMA DecisionInv ==
  ASSUME PipelineInv, NEW t \in Targets, NEW from \in QP!States,
         NEW to \in {"queued", "abandoned"}, NEW kind \in QP!Quiet,
         QP!LogAppend(QP!Plain(t, from, to, kind)), QP!Next,
         Goto("idle"), UNCHANGED <<rfile, files>>,
         accepted' = IF alive' THEN accepted ELSE R!Nobody,
         pc \notin {"place receipt", "place audit"}
  PROVE  PipelineInv'
<1> DEFINE e == QP!Plain(t, from, to, kind)
<1>1. e \in QP!Event /\ Backed(e)  BY PlainBacked
<1>2. QP!LogAppend(e)  OBVIOUS
<1> HIDE DEF e
<1> DEFINE next == "idle"
<1>3. Goto(IF faults' = faults THEN next ELSE "idle")  BY DEF Goto
<1>4. QED  BY <1>1, <1>2, <1>3, AppendCallInv

(* The six decisions. *)
LEMMA DecideInv ==
  ASSUME PipelineInv, NEW t \in Targets, QP!Decide(t),
         Goto("idle"), UNCHANGED <<rfile, files>>,
         accepted' = IF alive' THEN accepted ELSE R!Nobody,
         pc \notin {"place receipt", "place audit"}
  PROVE  PipelineInv'
<1>1. QP!Next  BY DEF QP!Next
<1> USE DEF QP!States, QP!Quiet
<1>2. CASE QP!RequeueFromKernelRejected(t)
  BY <1>1, <1>2, DecisionInv DEF QP!RequeueFromKernelRejected
<1>3. CASE QP!AbandonFromKernelRejected(t)
  BY <1>1, <1>3, DecisionInv DEF QP!AbandonFromKernelRejected
<1>4. CASE QP!RequeueFromCheckerError(t)
  BY <1>1, <1>4, DecisionInv DEF QP!RequeueFromCheckerError
<1>5. CASE QP!AbandonFromCheckerError(t)
  BY <1>1, <1>5, DecisionInv DEF QP!AbandonFromCheckerError
<1>6. CASE QP!RequeueFromAuditRejected(t)
  BY <1>1, <1>6, DecisionInv DEF QP!RequeueFromAuditRejected
<1>7. CASE QP!AbandonFromAuditRejected(t)
  BY <1>1, <1>7, DecisionInv DEF QP!AbandonFromAuditRejected
<1>8. QED  BY <1>2, <1>3, <1>4, <1>5, <1>6, <1>7 DEF QP!Decide

(* Requeue and RequeueAudit. *)
LEMMA RequeueInv ==
  ASSUME PipelineInv, Requeue \/ RequeueAudit
  PROVE  PipelineInv'
<1>1. /\ pc \in {"requeue", "requeue-audit"} /\ run.target \in Targets
      /\ QP!Decide(run.target)
      /\ Goto("idle") /\ UNCHANGED <<rfile, files>>
      /\ accepted' = IF alive' THEN accepted ELSE R!Nobody
  <2>1. pc \in {"requeue", "requeue-audit"} /\ run.target \in Targets
    BY DEF Requeue, RequeueAudit, At, PipelineInv, TypeOK, Runs
  <2>2. /\ \/ QP!RequeueFromCheckerError(run.target)
           \/ QP!RequeueFromKernelRejected(run.target)
           \/ QP!RequeueFromAuditRejected(run.target)
        /\ Goto(IF faults' = faults THEN "idle" ELSE "idle") /\ UNCHANGED <<rfile, files>>
        /\ accepted' = IF alive' THEN accepted ELSE R!Nobody
    BY SameCalls DEF Requeue, RequeueAudit, QueueCall
  <2>3. QED  BY <2>1, <2>2 DEF QP!Decide, Goto
<1>2. QED  BY <1>1, DecideInv

(* What the caller does between two runs. *)
LEMMA CallerInv ==
  ASSUME PipelineInv, NEW t \in Targets, Caller(t)
  PROVE  PipelineInv'
<1>1. /\ pc = "idle" /\ Goto("idle") /\ UNCHANGED <<rfile, files>>
      /\ accepted' = IF alive' THEN accepted ELSE R!Nobody
  BY DEF Caller, QueueCall, Goto, At
<1>2. \/ QP!Enqueue(t) \/ QP!Decide(t)
      \/ \E abandon \in BOOLEAN : QP!RecordNoCandidate(t, abandon)
  BY SameCalls DEF Caller, QueueCall
<1>3. CASE QP!Decide(t)  BY <1>1, <1>3, DecideInv
<1>4. CASE QP!Enqueue(t)
  <2> DEFINE e == QP!Plain(t, "absent", "queued", "target_entry")
             next == "idle"
  <2>1. e \in QP!Event /\ Backed(e)  BY PlainBacked DEF QP!Quiet
  <2>2. QP!LogAppend(e) /\ QP!Next  BY <1>4 DEF QP!Enqueue, QP!Next
  <2> HIDE DEF e
  <2>3. Goto(IF faults' = faults THEN next ELSE "idle")  BY <1>1
  <2>4. QED  BY <1>1, <2>1, <2>2, <2>3, AppendCallInv
<1>5. ASSUME NEW abandon \in BOOLEAN, QP!RecordNoCandidate(t, abandon)
      PROVE  PipelineInv'
  <2> DEFINE to == IF abandon THEN "abandoned" ELSE "queued"
  <2>1. QP!Next  BY <1>5 DEF QP!Next
  <2>2. to \in {"queued", "abandoned"}  OBVIOUS
  <2>3. QP!LogAppend(QP!Plain(t, "attempting", to, "no_candidate_produced"))
    BY <1>5 DEF QP!RecordNoCandidate
  <2> HIDE DEF to
  <2>4. "attempting" \in QP!States /\ "no_candidate_produced" \in QP!Quiet
    BY DEF QP!States, QP!Quiet
  <2>5. QED  BY <1>1, <2>1, <2>2, <2>3, <2>4, DecisionInv
<1>6. QED  BY <1>2, <1>3, <1>4, <1>5

(* What a queue that has accepted a target says of it: the fold of its log. *)
LEMMA AuditAccepts ==
  ASSUME NEW L \in Seq(QP!Line), NEW e1 \in QP!Event, NEW e2 \in QP!Event,
         NEW t \in Targets, NEW c, QP!BoundTo(L, t, c),
         e1.target = t, e2.target = t, e2.to = "accepted",
         e1.kind = "audit_verdict", e2.kind = "audit_verdict"
  PROVE  /\ QP!FoldState(Append(Append(L, e1), e2))[t] = "accepted"
         /\ QP!FoldCandidates(Append(Append(L, e1), e2))[t] = c
<1> DEFINE M == Append(L, e1)
<1>1. M \in Seq(QP!Line)  BY QueueAssumptions, QP!AppendFacts
<1>2. QP!HasLast(L) /\ QP!HasLast(M)  BY <1>1, LogsHaveLast
<1>3. QP!FoldCandidates(M) = QP!FoldCandidates(L)
  BY <1>2, QueueAssumptions, QP!FoldAppend
<1> HIDE DEF M
<1>4. /\ QP!FoldState(Append(M, e2)) = [QP!FoldState(M) EXCEPT ![e2.target] = e2.to]
      /\ QP!FoldCandidates(Append(M, e2)) = QP!FoldCandidates(M)
  BY <1>1, <1>2, QueueAssumptions, QP!FoldAppend
<1>5. QP!FoldState(Append(M, e2))[t] = "accepted"  BY <1>4 DEF QP!FoldState
<1>6. QP!FoldCandidates(L)[t] = c  BY QueueAssumptions, QP!BoundIsFold
<1>7. QED  BY <1>3, <1>4, <1>5, <1>6 DEF M

(* RecordAudit: two events, with the verdict in place before the first. *)
LEMMA RecordAuditInv ==
  ASSUME PipelineInv, RecordAudit
  PROVE  PipelineInv'
<1> DEFINE next == IF run.audit = "pass" THEN "ratchet" ELSE "requeue-audit"
           final == IF run.audit = "pass" THEN "accepted" ELSE "audit-rejected"
           e1 == QP!Hop(run.target, "kernel-checked", "audited", "audit_verdict",
                        run.candidate, run.audit)
           e2 == QP!Hop(run.target, "audited", final, "audit_verdict",
                        run.candidate, run.audit)
           mid == QP!Written(qfile, e1)
<1>1. /\ alive /\ pc = "verdict" /\ run \in Runs /\ Progress
      /\ run.target \in Targets /\ run.candidate \in Candidates
      /\ QP!RecordAudit(run.target, Verdict)
      /\ Goto(IF faults' = faults THEN next ELSE "idle")
      /\ UNCHANGED <<rfile, files>> /\ accepted' = IF alive' THEN accepted ELSE R!Nobody
  BY SameCalls DEF RecordAudit, At, QueueCall, PipelineInv, TypeOK, Runs
<1>2. /\ run.receipt \in Receipts /\ kernelFile[Here] = run.receipt
      /\ run.receipt.verdict = "accepted" /\ auditFile[Here] = run.audit
      /\ run.audit \in {"pass", "fail"} /\ (run.audit = "pass" => run.receipt.established)
      /\ qstate[run.target] = "kernel-checked"
  BY <1>1 DEF Progress, AfterCheck, AfterReceipt, AfterAccepted, AfterAudit
<1>3. /\ e1 \in QP!Event /\ e1.target = run.target /\ e1.candidate = run.candidate
      /\ e1.to = "audited" /\ e1.kind = "audit_verdict"
      /\ e2 \in QP!Event /\ e2.target = run.target /\ e2.candidate = run.candidate
      /\ e2.to = final /\ e2.kind = "audit_verdict"
      /\ final \in {"accepted", "audit-rejected"} /\ (final = "accepted" <=> run.audit = "pass")
  BY <1>1, <1>2 DEF QP!Hop, QP!Event, QP!States
<1>4. /\ Verdict \in QP!Audits /\ Verdict.verdict = run.audit
      /\ Verdict.candidate = run.candidate
  BY <1>1, <1>2 DEF Verdict, QP!Audits
<1>5. QP!Next  BY <1>1, <1>4 DEF QP!Next
<1>6. /\ run.candidate = qcand[run.target]
      /\ \/ /\ qfile' = QP!Written(mid, e2)
            /\ qstate' = [qstate EXCEPT ![run.target] = final]
            /\ UNCHANGED <<alive, qcand, faults>>
         \/ QP!Failed(qfile, qstate, e1)
         \/ QP!Failed(mid, [qstate EXCEPT ![run.target] = "audited"], e2)
  <2> DEFINE c == Verdict.candidate
             v == Verdict.verdict
             f == IF v = "pass" THEN "accepted" ELSE "audit-rejected"
             g1 == QP!Hop(run.target, "kernel-checked", "audited", "audit_verdict", c, v)
             g2 == QP!Hop(run.target, "audited", f, "audit_verdict", c, v)
  <2>1. /\ c = qcand[run.target]
        /\ \/ /\ qfile' = QP!Written(QP!Written(qfile, g1), g2)
              /\ qstate' = [qstate EXCEPT ![run.target] = f]
              /\ UNCHANGED <<alive, qcand, faults>>
           \/ QP!Failed(qfile, qstate, g1)
           \/ QP!Failed(QP!Written(qfile, g1), [qstate EXCEPT ![run.target] = "audited"], g2)
    BY <1>1 DEF QP!RecordAudit, QP!IsActive
  <2>2. g1 = e1 /\ g2 = e2 /\ c = run.candidate /\ f = final  BY <1>4, Zenon
  <2> HIDE DEF g1, g2, e1, e2, c, f, final
  <2>3. QED  BY <2>1, <2>2
<1> HIDE DEF e1, e2, final
<1>7. Backed(e1) /\ Backed(e2)
  <2>1. auditFile[Here] # NoFile  BY <1>2, NoFileAssumption
  <2>2. run.audit = "pass" => run.receipt = [verdict |-> "accepted", established |-> TRUE]
    <3>1. SUFFICES ASSUME run.audit = "pass"
                   PROVE  run.receipt = [verdict |-> "accepted", established |-> TRUE]
      OBVIOUS
    <3>2. run.receipt.verdict = "accepted" /\ run.receipt.established = TRUE
      <4>1. run.receipt.established \in BOOLEAN  BY <1>2 DEF Receipts
      <4>2. QED  BY <1>2, <3>1, <4>1, Zenon
    <3>3. QED  BY <1>2, <3>2 DEF Receipts
  <2>3. Here \in Targets \X Candidates  BY <1>1 DEF Here
  <2>4. QED  BY <1>2, <1>3, <2>1, <2>2, <2>3 DEF Backed, Here
<1>8. QP!QueueInv'  BY <1>5, QueueMethod
<1>9. qfile \in QP!Files(QP!Event) /\ mid \in QP!Files(QP!Event)
      /\ qfile' \in QP!Files(QP!Event)
  <2>1. qfile \in QP!Files(QP!Event) /\ qfile' \in QP!Files(QP!Event)
    BY <1>8 DEF PipelineInv, QP!QueueInv, QP!TypeOK
  <2>2. QED  BY <1>3, <2>1, QueueAssumptions, QP!WriteType
<1>10. QP!Extends(qfile, mid, e1)
  BY <1>3, <1>9, QueueAssumptions, QP!WrittenExtends DEF QP!Extends
<1> HIDE DEF mid
<1>11. RatchetFollowsQueue' /\ EvidenceInv'
  <2>1. UNCHANGED <<rfile, kernelFile, auditFile>>  BY <1>1 DEF files
  <2>2. CASE qfile' = QP!Written(mid, e2)
    <3>1. QP!Extends(mid, qfile', e2)
      BY <1>3, <1>9, <2>2, QueueAssumptions, QP!WrittenExtends DEF QP!Extends
    <3>2. QED  BY <1>3, <1>7, <1>8, <1>9, <1>10, <2>1, <3>1, LogGrows
  <2>3. CASE QP!Failed(qfile, qstate, e1)
    <3>1. \E w \in QP!Outcomes : qfile' = QP!Interrupted(qfile, e1, w)
      BY <2>3, QueueAssumptions DEF QP!Failed
    <3>2. QP!Extends(qfile, qfile', e1)
      BY <1>3, <1>9, <3>1, QueueAssumptions, QP!InterruptedExtends
    <3>3. QP!Extends(qfile', qfile', e1)  BY DEF QP!Extends
    <3>4. QED  BY <1>3, <1>7, <1>8, <1>9, <2>1, <3>2, <3>3, LogGrows
  <2>4. CASE QP!Failed(mid, [qstate EXCEPT ![run.target] = "audited"], e2)
    <3>1. \E w \in QP!Outcomes : qfile' = QP!Interrupted(mid, e2, w)
      BY <2>4, QueueAssumptions DEF QP!Failed
    <3>2. QP!Extends(mid, qfile', e2)
      BY <1>3, <1>9, <3>1, QueueAssumptions, QP!InterruptedExtends
    <3>3. QED  BY <1>3, <1>7, <1>8, <1>9, <1>10, <2>1, <3>2, LogGrows
  <2>5. QED  BY <1>6, <2>2, <2>3, <2>4
<1>12. /\ faults' \in {faults, faults + 1}
       /\ faults' = faults => /\ qfile' = QP!Written(mid, e2)
                              /\ alive' = alive /\ qcand' = qcand
                              /\ qstate' = [qstate EXCEPT ![run.target] = final]
  <2>1. faults \in 0..MaxFaults  BY DEF PipelineInv, QP!QueueInv, QP!TypeOK
  <2>2. faults \in Nat  BY <2>1, Counting
  <2>3. QED  BY <1>6, <2>2 DEF QP!Failed
<1>13. next \in Steps \ Writing /\ next \in {"ratchet", "requeue-audit"}
       /\ (next = "ratchet" <=> run.audit = "pass")
  BY DEF Steps, Writing
<1> HIDE DEF next
<1>14. faults' = faults => Progress'
  <2>1. SUFFICES ASSUME faults' = faults  PROVE Progress'  OBVIOUS
  <2>2. pc' = next /\ run' = run /\ alive' /\ kernelFile' = kernelFile /\ Here' = Here
    BY <1>1, <1>12, <1>13, <2>1 DEF Goto, files, Here
  <2>3. ASSUME next = "ratchet"  PROVE Admissible(run.target, run.candidate)'
    <3>1. SUFFICES ASSUME QP!Readable(qfile')
                   PROVE  /\ QP!FoldState(qfile'.lines)[run.target] = "accepted"
                          /\ QP!FoldCandidates(qfile'.lines)[run.target] = run.candidate
      BY <2>2 DEF Admissible, QP!Readable, QP!FoldState, QP!FoldCandidates
    <3>2. qfile' = QP!Written(mid, e2)  BY <1>12, <2>1
    <3>3. QP!Readable(mid) /\ qfile'.lines = Append(mid.lines, e2)
      BY <1>3, <1>9, <3>1, <3>2, QueueAssumptions, QP!WrittenExtends
    <3>4. QP!Readable(qfile) /\ mid.lines = Append(qfile.lines, e1)
      BY <1>3, <1>9, <3>3, QueueAssumptions, QP!WrittenExtends DEF mid
    <3>5. QP!BoundTo(qfile.lines, run.target, run.candidate)
      <4>1. QP!MemInv(qfile.lines)  BY <1>1, <3>4 DEF PipelineInv, QP!QueueInv
      <4>2. QED  BY <1>1, <1>2, <1>6, <4>1 DEF QP!MemInv, QP!Supports
    <3>6. qfile.lines \in Seq(QP!Line)  BY <1>9, QueueAssumptions, QP!FileFacts
    <3>7. e2.to = "accepted"  BY <1>3, <1>13, <2>3
    <3>8. QED  BY <1>1, <1>3, <3>3, <3>4, <3>5, <3>6, <3>7, AuditAccepts
  <2>4. qstate'[run.target] = final /\ qcand'[run.target] = run.candidate
    <3>1. qstate \in [Targets -> QP!States \cup {"absent"}]
      BY DEF PipelineInv, QP!QueueInv, QP!TypeOK
    <3>2. QED  BY <1>1, <1>6, <1>12, <2>1, <3>1
  <2>5. Progress'
    BY <1>2, <1>3, <1>13, <2>2, <2>3, <2>4
    DEF Progress, AfterCheck, AfterReceipt, AfterAccepted, AfterAudit
  <2>6. QED  BY <2>5
<1>15. QED  BY <1>1, <1>8, <1>11, <1>12, <1>13, <1>14, CallInv

-------------------------------------------------------------------------------
(* The ratchet, deaths and restarts *)

(* What Accept does to the ratchet's log and to the rest, whichever way its
   append ends. *)
LEMMA AcceptOutcome ==
  ASSUME Ratchet
  PROVE  LET e == R!Entry("accept", run.target, run.candidate, "none") IN
         /\ alive /\ pc = "ratchet" /\ Goto("idle") /\ UNCHANGED <<qfile, files>>
         /\ \/ /\ rfile' = QP!Written(rfile, e)
               /\ accepted' = [accepted EXCEPT ![run.target] = run.candidate]
               /\ UNCHANGED <<alive, faults, qstate, qcand>>
            \/ /\ \E w \in QP!Outcomes : rfile' = QP!Interrupted(rfile, e, w)
               /\ faults < MaxFaults /\ faults' = faults + 1
               /\ \/ UNCHANGED <<alive, accepted, qstate, qcand>>
                  \/ /\ alive' = FALSE /\ accepted' = R!Nobody
                     /\ qstate' = QP!Blank /\ qcand' = QP!Unbound
<1> DEFINE e == R!Entry("accept", run.target, run.candidate, "none")
           r == Filed
<1>1. r.target = run.target /\ r.candidate = run.candidate  BY DEF Filed
<1>2. /\ alive /\ pc = "ratchet" /\ Goto("idle") /\ UNCHANGED <<qfile, files>>
      /\ R!Accept(r, Verdict)
      /\ qstate' = IF alive' THEN qstate ELSE QP!Blank
      /\ qcand' = IF alive' THEN qcand ELSE QP!Unbound
  BY SameQueue DEF Ratchet, At, RatchetCall, Goto
<1> HIDE DEF r
<1>3. \/ /\ rfile' = R!Written(rfile, e)
         /\ accepted' = [accepted EXCEPT ![run.target] = run.candidate]
         /\ UNCHANGED <<alive, faults>>
      \/ /\ faults < MaxFaults /\ faults' = faults + 1
         /\ \/ /\ \E w \in Raises : rfile' = R!Interrupted(rfile, e, w)
               /\ UNCHANGED <<alive, accepted>>
            \/ /\ \E w \in Crashes : rfile' = R!Interrupted(rfile, e, w)
               /\ alive' = FALSE /\ accepted' = R!Nobody
  BY <1>1, <1>2, Zenon DEF R!Accept, R!LogAppend, R!Failed, R!Down
<1> HIDE DEF e
<1>4. CASE /\ rfile' = R!Written(rfile, e)
           /\ accepted' = [accepted EXCEPT ![run.target] = run.candidate]
           /\ UNCHANGED <<alive, faults>>
  <2>1. rfile' = QP!Written(rfile, e)  BY <1>4, SameLog
  <2>2. qstate' = qstate /\ qcand' = qcand  BY <1>2, <1>4
  <2>3. QED  BY <1>2, <1>4, <2>1, <2>2 DEF e
<1>5. CASE /\ faults < MaxFaults /\ faults' = faults + 1
           /\ \E w \in Raises : rfile' = R!Interrupted(rfile, e, w)
           /\ UNCHANGED <<alive, accepted>>
  <2>1. \E w \in QP!Outcomes : rfile' = QP!Interrupted(rfile, e, w)
    BY <1>5, SameLog, QueueAssumptions
  <2>2. qstate' = qstate /\ qcand' = qcand  BY <1>2, <1>5
  <2>3. QED  BY <1>2, <1>5, <2>1, <2>2 DEF e
<1>6. CASE /\ faults < MaxFaults /\ faults' = faults + 1
           /\ \E w \in Crashes : rfile' = R!Interrupted(rfile, e, w)
           /\ alive' = FALSE /\ accepted' = R!Nobody
  <2>1. \E w \in QP!Outcomes : rfile' = QP!Interrupted(rfile, e, w)
    BY <1>6, SameLog, QueueAssumptions
  <2>2. qstate' = QP!Blank /\ qcand' = QP!Unbound  BY <1>2, <1>6
  <2>3. QED  BY <1>2, <1>6, <2>1, <2>2 DEF e
<1>7. QED  BY <1>3, <1>4, <1>5, <1>6

(* A ratchet log with one more line still follows the queue's, when the queue
   has accepted what the line admits. *)
LEMMA FollowsOnce ==
  ASSUME NEW L, NEW S, NEW rl \in Seq(S), NEW e \in S, NEW rm, rm = rl \/ rm = Append(rl, e),
         Follows(L, rl),
         QP!FoldState(L)[e.target] = "accepted",
         QP!FoldCandidates(L)[e.target] = e.candidate
  PROVE  Follows(L, rm)
<1>1. CASE rm = rl  BY <1>1
<1>2. CASE rm = Append(rl, e)
  <2>1. /\ Len(rl) \in Nat /\ DOMAIN rl = 1..Len(rl)
        /\ DOMAIN rm = 1..(Len(rl) + 1) /\ rm[Len(rl) + 1] = e
        /\ \A i \in 1..Len(rl) : rm[i] = rl[i]
    BY <1>2, AppendProperties, LenProperties
  <2>2. SUFFICES ASSUME NEW i \in DOMAIN rm
                 PROVE  /\ QP!FoldState(L)[rm[i].target] = "accepted"
                        /\ QP!FoldCandidates(L)[rm[i].target] = rm[i].candidate
    BY DEF Follows
  <2>3. CASE i \in 1..Len(rl)  BY <2>1, <2>3 DEF Follows
  <2>4. CASE i = Len(rl) + 1  BY <2>1, <2>4
  <2>5. QED  BY <2>1, <2>3, <2>4
<1>3. QED  BY <1>1, <1>2

(* Ratchet. *)
LEMMA RatchetInv ==
  ASSUME PipelineInv, Ratchet
  PROVE  PipelineInv'
<1> DEFINE e == R!Entry("accept", run.target, run.candidate, "none")
<1>1. /\ alive /\ pc = "ratchet" /\ pc' = "idle" /\ run' = NoRun
      /\ qfile' = qfile /\ UNCHANGED files
      /\ \/ /\ rfile' = QP!Written(rfile, e)
            /\ accepted' = [accepted EXCEPT ![run.target] = run.candidate]
            /\ UNCHANGED <<alive, faults, qstate, qcand>>
         \/ /\ \E w \in QP!Outcomes : rfile' = QP!Interrupted(rfile, e, w)
            /\ faults < MaxFaults /\ faults' = faults + 1
            /\ \/ UNCHANGED <<alive, accepted, qstate, qcand>>
               \/ /\ alive' = FALSE /\ accepted' = R!Nobody
                  /\ qstate' = QP!Blank /\ qcand' = QP!Unbound
  BY AcceptOutcome DEF Goto
<1>2. run \in Runs /\ Progress  BY <1>1 DEF PipelineInv, TypeOK
<1>3. /\ e \in R!Event /\ e.target = run.target /\ e.candidate = run.candidate
      /\ run.target \in Targets /\ run.candidate \in Candidates
  BY <1>2 DEF Runs, R!Entry, R!Event
<1> HIDE DEF e
<1>4. rfile \in QP!Files(R!Event) /\ rfile' \in QP!Files(R!Event)
  <2>1. rfile \in QP!Files(R!Event)  BY DEF PipelineInv, TypeOK, R!Files, QP!Files
  <2>2. QED  BY <1>1, <1>3, <2>1, QueueAssumptions, QP!WriteType
<1>5. faults \in 0..MaxFaults /\ faults' \in 0..MaxFaults /\ faults' \in {faults, faults + 1}
  <2>1. faults \in 0..MaxFaults  BY DEF PipelineInv, QP!QueueInv, QP!TypeOK
  <2>2. \A f \in 0..MaxFaults : f < MaxFaults => f + 1 \in 0..MaxFaults
    BY BoundsAssumption
  <2>3. CASE faults' = faults  BY <2>1, <2>3
  <2>4. CASE faults < MaxFaults /\ faults' = faults + 1  BY <2>1, <2>2, <2>4
  <2>5. QED  BY <1>1, <2>3, <2>4
<1>6. QP!QueueInv'
  <2>1. \/ alive' = alive /\ qstate' = qstate /\ qcand' = qcand
        \/ alive' = FALSE /\ qstate' = QP!Blank /\ qcand' = QP!Unbound
    BY <1>1
  <2>2. QED  BY <1>1, <1>5, <2>1, QueueStays DEF PipelineInv
<1>7. Q!TypeOK'
  BY <1>6, SameQueue DEF QP!QueueInv, Q!TypeOK, QP!TypeOK, Q!States, QP!States
<1>8. TypeOK'
  <2>1. accepted \in [Targets -> Candidates \cup {NoCandidate}]  BY DEF PipelineInv, TypeOK
  <2>2. accepted' \in [Targets -> Candidates \cup {NoCandidate}]
    BY <1>1, <1>3, <2>1 DEF R!Nobody
  <2>3. rfile' \in R!Files(R!Event)  BY <1>4 DEF QP!Files, R!Files
  <2>4. QED  BY <1>1, <1>7, <2>2, <2>3 DEF PipelineInv, TypeOK, files
<1>9. OnlyTheDeadLeaveTemps'
  <2>1. temp' = FALSE /\ strays' = strays /\ strays \in Nat /\ strays <= faults
    BY <1>1 DEF PipelineInv, TypeOK, OnlyTheDeadLeaveTemps, files
  <2>2. strays' <= faults'  BY <1>5, <2>1, Counting, Zenon
  <2>3. QED  BY <2>1, <2>2 DEF OnlyTheDeadLeaveTemps
<1>10. RatchetFollowsQueue'
  <2>1. SUFFICES ASSUME QP!Readable(qfile), QP!Readable(rfile')
                 PROVE  Follows(qfile.lines, rfile'.lines)
    BY <1>1, SameLog, SameQueue
    DEF RatchetFollowsQueue, QueueReadable, RatchetReadable, Follows
  <2>2. QP!Extends(rfile, rfile', e)
    <3>1. CASE rfile' = QP!Written(rfile, e)
      <4>1. QP!Readable(QP!Written(rfile, e)) =>
              QP!Readable(rfile) /\ QP!Written(rfile, e).lines = Append(rfile.lines, e)
        BY <1>3, <1>4, QueueAssumptions, QP!WrittenExtends
      <4>2. QED  BY <3>1, <4>1 DEF QP!Extends
    <3>2. CASE \E w \in QP!Outcomes : rfile' = QP!Interrupted(rfile, e, w)
      BY <1>3, <1>4, <3>2, QueueAssumptions, QP!InterruptedExtends
    <3>3. QED  BY <1>1, <3>1, <3>2
  <2>3. /\ QP!Readable(rfile)
        /\ rfile'.lines = rfile.lines \/ rfile'.lines = Append(rfile.lines, e)
    BY <2>1, <2>2 DEF QP!Extends
  <2>4. rfile.lines \in Seq(R!Event)  BY <2>3, RatchetLines DEF PipelineInv
  <2>5. Follows(qfile.lines, rfile.lines)
    BY <2>1, <2>3, SameLog, SameQueue
    DEF PipelineInv, RatchetFollowsQueue, QueueReadable, RatchetReadable, Follows
  <2>6. /\ QP!FoldState(qfile.lines)[e.target] = "accepted"
        /\ QP!FoldCandidates(qfile.lines)[e.target] = e.candidate
    BY <1>1, <1>2, <1>3, <2>1 DEF Progress, Admissible
  <2>7. QED  BY <1>3, <2>3, <2>4, <2>5, <2>6, FollowsOnce
<1>11. EvidenceInv'
  BY <1>1 DEF PipelineInv, EvidenceInv, Backed, QP!Readable, files
<1>12. QED  BY <1>1, <1>6, <1>8, <1>9, <1>10, <1>11 DEF PipelineInv

(* Die: whatever the process was doing, the logs and the artifacts stay. *)
LEMMA DieInv ==
  ASSUME PipelineInv, Die
  PROVE  PipelineInv'
<1>1. /\ alive' = FALSE /\ qstate' = QP!Blank /\ qcand' = QP!Unbound /\ accepted' = R!Nobody
      /\ faults < MaxFaults /\ faults' = faults + 1
      /\ strays' \in {strays, strays + 1} /\ temp' = FALSE
      /\ pc' = "idle" /\ run' = NoRun
      /\ qfile' = qfile /\ rfile' = rfile /\ kernelFile' = kernelFile /\ auditFile' = auditFile
  BY SameQueue DEF Die, Q!Down, Goto
<1>2. /\ faults \in 0..MaxFaults /\ strays \in Nat /\ strays <= faults
  BY DEF PipelineInv, TypeOK, OnlyTheDeadLeaveTemps, QP!QueueInv, QP!TypeOK
<1>3. faults' \in 0..MaxFaults /\ strays' \in Nat /\ strays' <= faults'
  BY <1>1, <1>2, BoundsAssumption
<1>4. QP!QueueInv'  BY <1>1, <1>3, QueueStays DEF PipelineInv
<1>5. Q!TypeOK'
  BY <1>4, SameQueue DEF QP!QueueInv, Q!TypeOK, QP!TypeOK, Q!States, QP!States
<1>6. TypeOK'  BY <1>1, <1>3, <1>5 DEF PipelineInv, TypeOK, R!Nobody
<1>7. OnlyTheDeadLeaveTemps'  BY <1>1, <1>3 DEF OnlyTheDeadLeaveTemps
<1>8. RatchetFollowsQueue'
  BY <1>1 DEF PipelineInv, RatchetFollowsQueue, QueueReadable, RatchetReadable
<1>9. EvidenceInv'
  BY <1>1 DEF PipelineInv, EvidenceInv, Backed, QP!Readable
<1>10. QED  BY <1>1, <1>4, <1>6, <1>7, <1>8, <1>9 DEF PipelineInv

(* Restart: a log that can be read is one the ratchet's set can be folded
   from. *)
LEMMA RestartInv ==
  ASSUME PipelineInv, Restart
  PROVE  PipelineInv'
<1>1. /\ ~alive /\ QP!Replay /\ alive' = TRUE /\ qfile' = qfile /\ faults' = faults
      /\ QP!Readable(rfile) /\ accepted' = R!FoldAccepted(rfile.lines)
      /\ UNCHANGED <<rfile, kernelFile, auditFile, temp, strays, pc, run>>
  BY SameCalls, SameLog DEF Restart, Q!Replay, R!Replay, files
<1>2. pc = "idle" /\ run = NoRun /\ temp = FALSE
  <2>1. pc = "idle"  BY <1>1 DEF PipelineInv, Progress
  <2>2. "idle" \notin Steps  BY DEF Steps, Writing
  <2>3. QED  BY <2>1, <2>2 DEF PipelineInv, TypeOK, OnlyTheDeadLeaveTemps
<1>3. QP!QueueInv'
  <2>1. QP!Next  BY <1>1 DEF QP!Next
  <2>2. QED  BY <2>1, QueueMethod
<1>4. Q!TypeOK'
  BY <1>3, SameQueue DEF QP!QueueInv, Q!TypeOK, QP!TypeOK, Q!States, QP!States
<1>5. accepted' \in [Targets -> Candidates \cup {NoCandidate}]
  <2> DEFINE L == rfile.lines
             S(t) == R!MembershipOf(L, t)
  <2>1. L \in Seq(R!Event)  BY <1>1, RatchetLines DEF PipelineInv
  <2>2. Len(L) \in Nat /\ DOMAIN L = 1..Len(L) /\ \A i \in DOMAIN L : L[i] \in R!Event
    BY <2>1, LenProperties, ElementOfSeq
  <2>3. \A i \in DOMAIN L : L[i].candidate \in Candidates \cup {NoCandidate}
    BY <2>2 DEF R!Event
  <2>4. ASSUME NEW t \in Targets, S(t) # {}
        PROVE  R!LastOf(S(t)) \in DOMAIN L
    <3>1. S(t) \in SUBSET (1..Len(L))  BY <2>2 DEF R!MembershipOf
    <3>2. \E i \in S(t) : QP!IsLast(S(t), i)
      <4> HIDE DEF S, L
      <4>1. QED  BY <2>2, <2>4, <3>1, QueueAssumptions, QP!LastExists
    <3>3. \E i \in S(t) : R!IsLast(S(t), i)  BY <3>2 DEF QP!IsLast, R!IsLast
    <3>4. R!LastOf(S(t)) \in S(t)
      <4> HIDE DEF S
      <4>1. QED  BY <3>3 DEF R!LastOf, R!IsLast
    <3>5. QED  BY <2>2, <3>1, <3>4
  <2>5. QED  BY <1>1, <2>3, <2>4 DEF R!FoldAccepted
<1>6. TypeOK'  BY <1>1, <1>2, <1>4, <1>5 DEF PipelineInv, TypeOK
<1>7. OnlyTheDeadLeaveTemps'
  BY <1>1, <1>2 DEF PipelineInv, OnlyTheDeadLeaveTemps
<1>8. RatchetFollowsQueue'
  BY <1>1 DEF PipelineInv, RatchetFollowsQueue, QueueReadable, RatchetReadable
<1>9. EvidenceInv'
  BY <1>1 DEF PipelineInv, EvidenceInv, Backed, QP!Readable
<1>10. QED  BY <1>1, <1>2, <1>3, <1>6, <1>7, <1>8, <1>9 DEF PipelineInv

-------------------------------------------------------------------------------
(* The theorems *)

(* The invariant holds before the first run. *)
LEMMA PipelineInvInit ==
  ASSUME Init
  PROVE  PipelineInv
<1>1. QP!QueueInv
  BY SameQueue, QueueAssumptions, QP!QueueInvInit DEF Init
<1>2. Q!TypeOK  BY <1>1, SameQueue DEF QP!QueueInv
<1>3. qfile.lines = <<>> /\ rfile = [lines |-> <<>>, open |-> FALSE] /\ accepted = R!Nobody
  BY DEF Init, Q!Init, R!Init, Q!EmptyFile, R!EmptyFile
<1>4. rfile \in R!Files(R!Event)
  <2>1. <<>> \in Seq(R!Event \cup {Torn})  OBVIOUS
  <2>2. QED  BY <1>3, <2>1 DEF R!Files
<1>5. TypeOK  BY <1>2, <1>3, <1>4 DEF Init, TypeOK, R!Nobody
<1>6. OnlyTheDeadLeaveTemps
  BY DEF Init, OnlyTheDeadLeaveTemps, Q!Init
<1>7. RatchetFollowsQueue /\ EvidenceInv
  BY <1>3 DEF RatchetFollowsQueue, EvidenceInv
<1>8. QED  BY <1>1, <1>5, <1>6, <1>7 DEF Init, PipelineInv

(* Every step keeps it. *)
LEMMA PipelineInvNext ==
  ASSUME PipelineInv, [Next]_vars
  PROVE  PipelineInv'
<1>1. ASSUME NEW t \in Targets, NEW c \in Candidates, Begin(t, c)  PROVE PipelineInv'
  BY <1>1, BeginInv
<1>2. CASE RunTarget
  BY <1>2, OpeningInv, RecordCandidateInv, CheckInv, WriteReceiptInv, RecordKernelReceiptInv,
     RequeueInv, AuditInv, WriteAuditInv, RecordAuditInv, RatchetInv
  DEF RunTarget
<1>3. ASSUME NEW t \in Targets, Caller(t)  PROVE PipelineInv'
  BY <1>3, CallerInv
<1>4. CASE Die  BY <1>4, DieInv
<1>5. CASE Restart  BY <1>5, RestartInv
<1>6. CASE UNCHANGED vars
  <2>1. /\ alive' = alive /\ qfile' = qfile /\ qstate' = qstate /\ qcand' = qcand
        /\ rfile' = rfile /\ accepted' = accepted /\ kernelFile' = kernelFile
        /\ auditFile' = auditFile /\ temp' = temp /\ strays' = strays
        /\ pc' = pc /\ run' = run /\ faults' = faults
    BY <1>6 DEF vars, queue, ratchet, files
  <2>2. faults \in 0..MaxFaults  BY DEF PipelineInv, QP!QueueInv, QP!TypeOK
  <2>3. QP!QueueInv'  BY <2>1, <2>2, QueueStays DEF PipelineInv
  <2>4. TypeOK'  BY <2>1 DEF PipelineInv, TypeOK, Q!TypeOK
  <2>5. (pc # "idle" => Progress)'
    <3>1. Admissible(run.target, run.candidate)' <=> Admissible(run.target, run.candidate)
      BY <2>1 DEF Admissible, QP!Readable, QP!FoldState, QP!FoldCandidates
    <3>2. Here' = Here  BY <2>1 DEF Here
    <3>3. pc = "idle" \/ Progress  BY DEF PipelineInv
    <3>4. QED  BY <2>1, <3>1, <3>2, <3>3 DEF Progress
  <2>6. OnlyTheDeadLeaveTemps'  BY <2>1 DEF PipelineInv, OnlyTheDeadLeaveTemps
  <2>7. RatchetFollowsQueue'
    BY <2>1 DEF PipelineInv, RatchetFollowsQueue, QueueReadable, RatchetReadable
  <2>8. EvidenceInv'  BY <2>1 DEF PipelineInv, EvidenceInv, Backed, QP!Readable
  <2>9. QED  BY <2>3, <2>4, <2>5, <2>6, <2>7, <2>8 DEF PipelineInv
<1>7. QED  BY <1>1, <1>2, <1>3, <1>4, <1>5, <1>6 DEF Next

(* The inductive invariant holds in every reachable state. *)
THEOREM PipelineInvariant == Spec => []PipelineInv
<1>1. Init => PipelineInv  BY PipelineInvInit
<1>2. PipelineInv /\ [Next]_vars => PipelineInv'  BY PipelineInvNext
<1>3. QED  BY <1>1, <1>2, PTL DEF Spec

(* Every variable keeps its type, and run_target's local variables exist only
   while it executes (pipeline.py, run_target). *)
THEOREM TypeCorrect == Spec => []TypeOK
<1>1. PipelineInv => TypeOK  BY DEF PipelineInv
<1>2. QED  BY <1>1, PipelineInvariant, PTL

(* The ratchet's log admits only what the queue's log has accepted, for the
   candidate it is bound to: ratchet.accept is the last call of run_target,
   and the queue writes nothing about a target after its acceptance. *)
THEOREM RatchetIsNeverAhead == Spec => []RatchetFollowsQueue
<1>1. PipelineInv => RatchetFollowsQueue  BY DEF PipelineInv
<1>2. QED  BY <1>1, PipelineInvariant, PTL

(* Every event that rests on an artifact has it on disk, and no retry ever
   overwrites the evidence of an acceptance (write_receipt and write_json
   before each record_* of run_target). *)
THEOREM EvidenceStays == Spec => []EvidenceOnDisk
<1>1. PipelineInv => EvidenceOnDisk
  BY SameLog DEF PipelineInv, EvidenceInv, Backed, EvidenceOnDisk, QueueReadable
<1>2. QED  BY <1>1, PipelineInvariant, PTL

(* A live process leaves no temporary file behind (atomic_write_json). *)
THEOREM TempsHaveAnExcuse == Spec => []OnlyTheDeadLeaveTemps
<1>1. PipelineInv => OnlyTheDeadLeaveTemps  BY DEF PipelineInv
<1>2. QED  BY <1>1, PipelineInvariant, PTL

(* The queue inside the pipeline keeps its own promise: no acceptance without
   the whole chain of evidence about one candidate. *)
THEOREM PipelineAcceptsOnEvidence == Spec => [](Q!EvidenceChain /\ Q!NothingAfterAcceptance)
<1>1. /\ \A L, k : Q!Prior(L, k) = QP!Prior(L, k)
      /\ \A L, t : Q!About(L, t) = QP!About(L, t)
      /\ \A L, t : Q!Bindings(L, t) = QP!Bindings(L, t)
      /\ \A L, t, kind : Q!OfKind(L, t, kind) = QP!OfKind(L, t, kind)
      /\ \A S, i : Q!IsLast(S, i) <=> QP!IsLast(S, i)
  BY Zenon DEF Q!Prior, QP!Prior, Q!About, QP!About, Q!Bindings, QP!Bindings,
     Q!OfKind, QP!OfKind, Q!IsLast, QP!IsLast
<1>2. \A L, t, c : Q!BoundTo(L, t, c) <=> QP!BoundTo(L, t, c)
  BY <1>1, Zenon DEF Q!BoundTo, QP!BoundTo
<1>3. \A L, t, kind, v : Q!Standing(L, t, kind, v) <=> QP!Standing(L, t, kind, v)
  BY <1>1, SMTT(30) DEF Q!Standing, QP!Standing
<1>4. \A L, e : Q!AcceptanceRests(L, e) <=> QP!AcceptanceRests(L, e)
  BY <1>2, <1>3, Zenon DEF Q!AcceptanceRests, QP!AcceptanceRests
<1>5. \A L, t : Q!Accepts(L, t) <=> QP!Accepts(L, t)
  BY <1>1, Zenon DEF Q!Accepts, QP!Accepts
<1>6. PipelineInv => Q!EvidenceChain /\ Q!NothingAfterAcceptance
  BY <1>1, <1>4, <1>5, SameLog
  DEF PipelineInv, QP!QueueInv, QP!LogInv, QP!ChainOK, QP!EventOK,
      Q!EvidenceChain, Q!NothingAfterAcceptance
<1>7. QED  BY <1>6, PipelineInvariant, PTL
===============================================================================
