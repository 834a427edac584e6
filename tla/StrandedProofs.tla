----------------------------- MODULE StrandedProofs -----------------------------
(***************************************************************************)
(* One failure strands at most one target (OneFailureOneTarget of          *)
(* Pipeline).  The invariant counts: there is a set of at most as many     *)
(* targets as there were failures, outside which every target no run is    *)
(* working on is settled, in memory and, what a restart will make of it,   *)
(* in the two logs.                                                        *)
(*                                                                         *)
(* At the end, that a run which met no failure settles its target.         *)
(***************************************************************************)
EXTENDS PipelineProofs, FiniteSetTheorems

(* The target of a run that got past start_attempt. *)
Exempt(t) == pc \notin {"idle", "enqueue", "start"} /\ run.target = t

(* What the two logs say settles t. *)
SettledOnDisk(t) ==
  \/ QP!FoldState(qfile.lines)[t] \in {"absent", "queued", "abandoned"}
  \/ /\ QP!FoldState(qfile.lines)[t] = "accepted"
     /\ R!FoldAccepted(rfile.lines)[t] = QP!FoldCandidates(qfile.lines)[t]

Calm(t) ==
  /\ alive => Settled(t)
  /\ QP!Readable(qfile) /\ QP!Readable(rfile) => SettledOnDisk(t)

StrandedInv ==
  \E M \in SUBSET Targets :
    /\ IsFiniteSet(M)
    /\ Cardinality(M) <= faults
    /\ \A t \in Targets \ M : ~Exempt(t) => Calm(t)

-------------------------------------------------------------------------------
(* Counting *)

(* Every target stranded in a live process is one of the counted ones. *)
LEMMA StrandedCounted ==
  ASSUME PipelineInv, StrandedInv
  PROVE  OneFailureOneTarget
<1>1. SUFFICES ASSUME alive  PROVE Cardinality(Stranded) <= faults
  BY DEF OneFailureOneTarget
<1>2. PICK M \in SUBSET Targets :
        /\ IsFiniteSet(M)
        /\ Cardinality(M) <= faults
        /\ \A t \in Targets \ M : ~Exempt(t) => Calm(t)
  BY DEF StrandedInv
<1>3. Stranded \subseteq M
  <2>1. SUFFICES ASSUME NEW t \in Stranded, t \notin M  PROVE FALSE  OBVIOUS
  <2>2. t \in Targets /\ ~Settled(t) /\ (run # NoRun => run.target # t)  BY <2>1 DEF Stranded
  <2>3. ~Exempt(t)
    <3>1. pc = "idle" \/ run \in Runs  BY DEF PipelineInv, TypeOK
    <3>2. QED  BY <2>2, <3>1, NoRunAssumption DEF Exempt
  <2>4. QED  BY <1>1, <1>2, <2>1, <2>2, <2>3 DEF Calm
<1>4. IsFiniteSet(Stranded) /\ Cardinality(Stranded) <= Cardinality(M)
  BY <1>2, <1>3, FS_Subset
<1>5. Cardinality(M) \in Nat /\ Cardinality(Stranded) \in Nat
  BY <1>2, <1>4, FS_CardinalityType
<1>6. faults \in Nat
  <2>1. faults \in 0..MaxFaults  BY DEF PipelineInv, QP!QueueInv, QP!TypeOK
  <2>2. QED  BY <2>1, Counting
<1>7. QED  BY <1>2, <1>4, <1>5, <1>6

(* A step after which every target no run is working on is calm if it was calm
   or was being worked on needs no new name in the set. *)
LEMMA QuietInv ==
  ASSUME PipelineInv, StrandedInv, faults' \in {faults, faults + 1},
         \A t \in Targets : (~Exempt(t) => Calm(t)) /\ ~Exempt(t)' => Calm(t)'
  PROVE  StrandedInv'
<1>1. PICK M \in SUBSET Targets :
        /\ IsFiniteSet(M)
        /\ Cardinality(M) <= faults
        /\ \A t \in Targets \ M : ~Exempt(t) => Calm(t)
  BY DEF StrandedInv
<1>2. \A t \in Targets \ M : (~Exempt(t) => Calm(t))'  BY <1>1
<1>3. Cardinality(M) <= faults'
  <2>1. faults \in 0..MaxFaults  BY DEF PipelineInv, QP!QueueInv, QP!TypeOK
  <2>2. faults \in Nat  BY <2>1, Counting
  <2>3. Cardinality(M) \in Nat  BY <1>1, FS_CardinalityType
  <2>4. \A a, f \in Nat : a <= f => a <= f + 1  OBVIOUS
  <2>5. QED  BY <1>1, <2>2, <2>3, <2>4, Zenon
<1>4. QED  BY <1>1, <1>2, <1>3 DEF StrandedInv

(* A step that ends the run with a failure, and disturbs no other target. *)
LEMMA FaultInv ==
  ASSUME PipelineInv, StrandedInv, faults' = faults + 1, NEW u \in Targets,
         \A t \in Targets \ {u} : ~Exempt(t),
         \A t \in Targets \ {u} : Calm(t) => Calm(t)'
  PROVE  StrandedInv'
<1>1. PICK M \in SUBSET Targets :
        /\ IsFiniteSet(M)
        /\ Cardinality(M) <= faults
        /\ \A t \in Targets \ M : ~Exempt(t) => Calm(t)
  BY DEF StrandedInv
<1> DEFINE N == M \cup {u}
<1>2. N \in SUBSET Targets  OBVIOUS
<1>3. IsFiniteSet(N) /\ Cardinality(N) <= Cardinality(M) + 1
  <2>1. IsFiniteSet(N) /\ Cardinality(N) = IF u \in M THEN Cardinality(M) ELSE Cardinality(M) + 1
    BY <1>1, FS_AddElement
  <2>2. Cardinality(M) \in Nat  BY <1>1, FS_CardinalityType
  <2>3. QED  BY <2>1, <2>2
<1>4. Cardinality(N) <= faults'
  <2>1. faults \in 0..MaxFaults  BY DEF PipelineInv, QP!QueueInv, QP!TypeOK
  <2>2. faults \in Nat  BY <2>1, Counting
  <2>3. Cardinality(M) \in Nat /\ Cardinality(N) \in Nat  BY <1>1, <1>3, FS_CardinalityType
  <2>4. \A a, b, f \in Nat : a <= f /\ b <= a + 1 => b <= f + 1  OBVIOUS
  <2>5. QED  BY <1>1, <1>3, <2>2, <2>3, <2>4, Zenon
<1>5. \A t \in Targets \ N : Calm(t)'  BY <1>1
<1> HIDE DEF N
<1>6. QED  BY <1>2, <1>3, <1>4, <1>5 DEF StrandedInv

(* Any call about u, whichever way it ends: it may fail and add u to the set,
   as long as it leaves u calm, or still worked on, when it does not. *)
LEMMA CallKept ==
  ASSUME PipelineInv, StrandedInv, faults' \in {faults, faults + 1}, NEW u \in Targets,
         \A t \in Targets \ {u} : ~Exempt(t),
         \A t \in Targets \ {u} : Calm(t) => Calm(t)',
         faults' = faults => Exempt(u)' \/ Calm(u)'
  PROVE  StrandedInv'
<1>1. CASE faults' = faults
  <2>1. \A t \in Targets : (~Exempt(t) => Calm(t)) /\ ~Exempt(t)' => Calm(t)'
    BY <1>1
  <2>2. QED  BY <2>1, QuietInv
<1>2. CASE faults' = faults + 1  BY <1>2, FaultInv
<1>3. QED  BY <1>1, <1>2

-------------------------------------------------------------------------------
(* What one step does to the targets it is not about *)

(* Calm after a step, in terms of the variables after it. *)
LEMMA CalmNext ==
  ASSUME NEW t
  PROVE  Calm(t)' <=>
           /\ alive' => \/ qstate'[t] \in {"absent", "queued", "abandoned"}
                        \/ qstate'[t] = "accepted" /\ accepted'[t] = qcand'[t]
           /\ QP!Readable(qfile') /\ QP!Readable(rfile') =>
                \/ QP!FoldState(qfile'.lines)[t] \in {"absent", "queued", "abandoned"}
                \/ /\ QP!FoldState(qfile'.lines)[t] = "accepted"
                   /\ R!FoldAccepted(rfile'.lines)[t] = QP!FoldCandidates(qfile'.lines)[t]
BY DEF Calm, Settled, SettledOnDisk, QP!Readable, QP!FoldState, QP!FoldCandidates,
   R!FoldAccepted

(* One event, or none, says nothing of a target it is not about. *)
LEMMA FoldOff ==
  ASSUME NEW L \in Seq(QP!Line), NEW e \in QP!Event, NEW M, M = L \/ M = Append(L, e),
         NEW t \in Targets, t # e.target
  PROVE  /\ M \in Seq(QP!Line)
         /\ QP!FoldState(M)[t] = QP!FoldState(L)[t]
         /\ QP!FoldCandidates(M)[t] = QP!FoldCandidates(L)[t]
<1>1. CASE M = L  BY <1>1
<1>2. CASE M = Append(L, e)
  <2>1. M \in Seq(QP!Line)  BY <1>2, QueueAssumptions, QP!AppendFacts
  <2>2. QP!HasLast(L)  BY LogsHaveLast
  <2>3. /\ QP!FoldState(Append(L, e)) = [QP!FoldState(L) EXCEPT ![e.target] = e.to]
        /\ QP!FoldCandidates(Append(L, e)) =
             IF e.kind = "candidate_artifact"
               THEN [QP!FoldCandidates(L) EXCEPT ![e.target] = e.candidate]
               ELSE QP!FoldCandidates(L)
    BY <2>2, QueueAssumptions, QP!FoldAppend
  <2>4. QED  BY <1>2, <2>1, <2>3 DEF QP!FoldState, QP!FoldCandidates
<1>3. QED  BY <1>1, <1>2

(* A call of the queue that appends up to two events about u. *)
LEMMA QueueOthers ==
  ASSUME PipelineInv, NEW u \in Targets,
         NEW e1 \in QP!Event, NEW e2 \in QP!Event, e1.target = u, e2.target = u,
         NEW g \in QP!Files(QP!Event),
         QP!Extends(qfile, g, e1), QP!Extends(g, qfile', e2), rfile' = rfile,
         \/ /\ alive' = alive /\ accepted' = accepted
            /\ \A t \in Targets \ {u} : qstate'[t] = qstate[t] /\ qcand'[t] = qcand[t]
         \/ alive' = FALSE
  PROVE  \A t \in Targets \ {u} : Calm(t) => Calm(t)'
<1>1. SUFFICES ASSUME NEW t \in Targets \ {u}, Calm(t)  PROVE Calm(t)'  OBVIOUS
<1>2. alive' => \/ qstate'[t] \in {"absent", "queued", "abandoned"}
                \/ qstate'[t] = "accepted" /\ accepted'[t] = qcand'[t]
  BY <1>1 DEF Calm, Settled
<1>3. ASSUME QP!Readable(qfile'), QP!Readable(rfile')
      PROVE  \/ QP!FoldState(qfile'.lines)[t] \in {"absent", "queued", "abandoned"}
             \/ /\ QP!FoldState(qfile'.lines)[t] = "accepted"
                /\ R!FoldAccepted(rfile'.lines)[t] = QP!FoldCandidates(qfile'.lines)[t]
  <2>1. /\ QP!Readable(g) /\ QP!Readable(qfile)
        /\ g.lines = qfile.lines \/ g.lines = Append(qfile.lines, e1)
        /\ qfile'.lines = g.lines \/ qfile'.lines = Append(g.lines, e2)
    BY <1>3 DEF QP!Extends
  <2>2. qfile.lines \in Seq(QP!Line)
    BY QueueAssumptions, QP!FileFacts DEF PipelineInv, QP!QueueInv, QP!TypeOK
  <2>3. /\ g.lines \in Seq(QP!Line)
        /\ QP!FoldState(g.lines)[t] = QP!FoldState(qfile.lines)[t]
        /\ QP!FoldCandidates(g.lines)[t] = QP!FoldCandidates(qfile.lines)[t]
    BY <1>1, <2>1, <2>2, FoldOff
  <2>4. /\ QP!FoldState(qfile'.lines)[t] = QP!FoldState(g.lines)[t]
        /\ QP!FoldCandidates(qfile'.lines)[t] = QP!FoldCandidates(g.lines)[t]
    BY <1>1, <2>1, <2>3, FoldOff
  <2>5. SettledOnDisk(t)  BY <1>1, <1>3, <2>1 DEF Calm
  <2>6. QED  BY <2>3, <2>4, <2>5 DEF SettledOnDisk
<1>4. QED  BY <1>2, <1>3, CalmNext

(* One append about u, whichever way it ends. *)
LEMMA AppendOthers ==
  ASSUME PipelineInv, PipelineInv', alive, NEW u \in Targets,
         NEW e \in QP!Event, e.target = u, rfile' = rfile,
         accepted' = IF alive' THEN accepted ELSE R!Nobody,
         \/ QP!Committed(e) /\ \A t \in Targets \ {u} : qcand'[t] = qcand[t]
         \/ QP!Failed(qfile, qstate, e)
  PROVE  /\ faults' \in {faults, faults + 1}
         /\ faults' = faults => QP!Committed(e)
         /\ \A t \in Targets \ {u} : Calm(t) => Calm(t)'
<1>1. /\ qfile \in QP!Files(QP!Event) /\ qfile' \in QP!Files(QP!Event)
      /\ qstate \in [Targets -> QP!States \cup {"absent"}]
  BY DEF PipelineInv, QP!QueueInv, QP!TypeOK
<1>2. faults \in Nat
  <2>1. faults \in 0..MaxFaults  BY DEF PipelineInv, QP!QueueInv, QP!TypeOK
  <2>2. QED  BY <2>1, Counting
<1>3. QP!Extends(qfile, qfile', e) /\ QP!Extends(qfile', qfile', e)
  <2>1. CASE QP!Committed(e)
    BY <1>1, <2>1, QueueAssumptions, QP!WrittenExtends DEF QP!Committed, QP!Extends
  <2>2. CASE QP!Failed(qfile, qstate, e)
    <3>1. \E w \in QP!Outcomes : qfile' = QP!Interrupted(qfile, e, w)
      BY <2>2, QueueAssumptions DEF QP!Failed
    <3>2. QED  BY <1>1, <3>1, QueueAssumptions, QP!InterruptedExtends DEF QP!Extends
  <2>3. QED  BY <2>1, <2>2
<1>4. CASE QP!Committed(e) /\ \A t \in Targets \ {u} : qcand'[t] = qcand[t]
  <2>1. alive' = alive /\ accepted' = accepted /\ faults' = faults
        /\ qstate' = [qstate EXCEPT ![e.target] = e.to]
    BY <1>4 DEF QP!Committed
  <2>2. \A t \in Targets \ {u} : qstate'[t] = qstate[t] /\ qcand'[t] = qcand[t]
    BY <1>1, <1>4, <2>1
  <2>3. \A t \in Targets \ {u} : Calm(t) => Calm(t)'
    BY <1>1, <1>3, <2>1, <2>2, QueueOthers
  <2>4. QED  BY <1>4, <2>1, <2>3
<1>5. CASE QP!Failed(qfile, qstate, e)
  <2>1. /\ faults' = faults + 1
        /\ \/ alive' = alive /\ qstate' = qstate /\ qcand' = qcand
           \/ alive' = FALSE
    BY <1>5 DEF QP!Failed, QP!Down
  <2>2. \/ /\ alive' = alive /\ accepted' = accepted
           /\ \A t \in Targets \ {u} : qstate'[t] = qstate[t] /\ qcand'[t] = qcand[t]
        \/ alive' = FALSE
    BY <2>1
  <2>3. \A t \in Targets \ {u} : Calm(t) => Calm(t)'
    BY <1>1, <1>3, <2>2, QueueOthers
  <2>4. QED  BY <1>2, <2>1, <2>3
<1>6. QED  BY <1>4, <1>5

(* An append that returned and leads back to the queue, or to the end of the
   diagram, settles its target. *)
LEMMA AppendSettles ==
  ASSUME PipelineInv, NEW e \in QP!Event, QP!Committed(e),
         e.to \in {"queued", "abandoned"}
  PROVE  Calm(e.target)'
<1>1. /\ qfile \in QP!Files(QP!Event) /\ e.target \in Targets
      /\ qstate \in [Targets -> QP!States \cup {"absent"}]
  BY DEF PipelineInv, QP!QueueInv, QP!TypeOK, QP!Event
<1>2. qstate'[e.target] \in {"queued", "abandoned"}  BY <1>1 DEF QP!Committed
<1>3. ASSUME QP!Readable(qfile')
      PROVE  QP!FoldState(qfile'.lines)[e.target] \in {"queued", "abandoned"}
  <2>1. qfile'.lines = Append(qfile.lines, e)
    BY <1>1, <1>3, QueueAssumptions, QP!WrittenExtends DEF QP!Committed
  <2>2. qfile.lines \in Seq(QP!Line)  BY <1>1, QueueAssumptions, QP!FileFacts
  <2>3. QP!HasLast(qfile.lines)  BY <2>2, LogsHaveLast
  <2>4. QP!FoldState(Append(qfile.lines, e)) = [QP!FoldState(qfile.lines) EXCEPT ![e.target] = e.to]
    BY <2>2, <2>3, QueueAssumptions, QP!FoldAppend
  <2>5. QED  BY <1>1, <2>1, <2>4 DEF QP!FoldState
<1>4. QED  BY <1>2, <1>3, CalmNext

(* A step that touches neither the logs nor the objects, nor takes a run off
   its target. *)
LEMMA LocalKept ==
  ASSUME PipelineInv, StrandedInv, UNCHANGED <<alive, queue, ratchet, faults>>,
         \A t \in Targets : Exempt(t) => Exempt(t)'
  PROVE  StrandedInv'
<1>1. \A t : Calm(t) => Calm(t)'
  BY CalmNext DEF Calm, Settled, SettledOnDisk, queue, ratchet
<1>2. QED  BY <1>1, QuietInv

(* Only the target of a run in progress is exempt. *)
LEMMA ExemptTarget ==
  ASSUME PipelineInv, NEW t, Exempt(t)
  PROVE  t \in Targets /\ run.target = t /\ alive
BY DEF PipelineInv, TypeOK, Progress, Runs, Exempt

(* An exception that is not about a log ends a run past start_attempt. *)
LEMMA ExceptionKept ==
  ASSUME PipelineInv, StrandedInv, Exception, pc # "idle"
  PROVE  StrandedInv'
<1>1. run.target \in Targets  BY DEF PipelineInv, TypeOK, Runs
<1>2. UNCHANGED <<alive, queue, ratchet>> /\ faults' = faults + 1  BY DEF Exception
<1>3. \A t : Calm(t) => Calm(t)'
  BY <1>2, CalmNext DEF Calm, Settled, SettledOnDisk, queue, ratchet
<1>4. \A t \in Targets \ {run.target} : ~Exempt(t)  BY DEF Exempt
<1>5. QED  BY <1>1, <1>2, <1>3, <1>4, FaultInv

-------------------------------------------------------------------------------
(* The actions *)

(* A method of one append, called by run_target about its own target. *)
LEMMA MethodKept ==
  ASSUME PipelineInv, PipelineInv', StrandedInv, alive, run \in Runs, pc # "idle",
         NEW e \in QP!Event, e.target = run.target, rfile' = rfile,
         accepted' = IF alive' THEN accepted ELSE R!Nobody,
         \/ QP!Committed(e) /\ \A t \in Targets \ {run.target} : qcand'[t] = qcand[t]
         \/ QP!Failed(qfile, qstate, e),
         NEW next, Goto(IF faults' = faults THEN next ELSE "idle"),
         next \notin {"idle", "enqueue", "start"} \/ e.to \in {"queued", "abandoned"}
  PROVE  StrandedInv'
<1> DEFINE u == e.target
<1>1. u \in Targets /\ u = run.target  BY DEF Runs
<1>2. /\ faults' \in {faults, faults + 1}
      /\ faults' = faults => QP!Committed(e)
      /\ \A t \in Targets \ {u} : Calm(t) => Calm(t)'
  <2>1. \/ QP!Committed(e) /\ \A t \in Targets \ {u} : qcand'[t] = qcand[t]
        \/ QP!Failed(qfile, qstate, e)
    BY <1>1
  <2>2. QED  BY <1>1, <2>1, AppendOthers
<1>3. ASSUME faults' = faults  PROVE Exempt(u)' \/ Calm(u)'
  <2>1. CASE e.to \in {"queued", "abandoned"}
    <3>1. Calm(e.target)'  BY <1>2, <1>3, <2>1, AppendSettles
    <3>2. QED  BY <3>1
  <2>2. CASE next \notin {"idle", "enqueue", "start"}
    <3>1. pc' = next /\ run' = run  BY <1>3, <2>2 DEF Goto
    <3>2. QED  BY <1>1, <2>2, <3>1 DEF Exempt
  <2>3. QED  BY <2>1, <2>2
<1>4. \A t \in Targets \ {u} : ~Exempt(t)  BY <1>1 DEF Exempt
<1> HIDE DEF u
<1>5. QED  BY <1>1, <1>2, <1>3, <1>4, CallKept

(* An event of LogAppend, as MethodKept wants it. *)
LEMMA OneAppend ==
  ASSUME NEW e, QP!LogAppend(e)
  PROVE  \/ QP!Committed(e) /\ \A t \in Targets \ {run.target} : qcand'[t] = qcand[t]
         \/ QP!Failed(qfile, qstate, e)
BY DEF QP!LogAppend

(* Begin: the run is not past start_attempt yet. *)
LEMMA BeginKept ==
  ASSUME PipelineInv, StrandedInv, NEW t \in Targets, NEW c \in Candidates, Begin(t, c)
  PROVE  StrandedInv'
<1>1. UNCHANGED <<alive, queue, ratchet, faults>> /\ pc = "idle"  BY DEF Begin, At
<1>2. \A v \in Targets : ~Exempt(v)  BY <1>1 DEF Exempt
<1>3. QED  BY <1>1, <1>2, LocalKept

(* Enqueue and StartAttempt. *)
LEMMA OpeningKept ==
  ASSUME PipelineInv, PipelineInv', StrandedInv, Enqueue \/ StartAttempt
  PROVE  StrandedInv'
<1>1. CASE Enqueue
  <2>1. /\ alive /\ pc = "enqueue" /\ run \in Runs /\ run.target \in Targets
        /\ QP!Enqueue(run.target)
        /\ Goto(IF faults' = faults THEN "start" ELSE "idle")
        /\ rfile' = rfile /\ accepted' = IF alive' THEN accepted ELSE R!Nobody
    BY <1>1, SameCalls DEF Enqueue, At, QueueCall, PipelineInv, TypeOK, Runs
  <2> DEFINE e == QP!Plain(run.target, "absent", "queued", "target_entry")
             next == "start"
  <2>2. e \in QP!Event /\ e.target = run.target /\ e.to = "queued"
    BY <2>1, PlainBacked DEF QP!Quiet
  <2>3. QP!LogAppend(e)  BY <2>1 DEF QP!Enqueue
  <2>4. Goto(IF faults' = faults THEN next ELSE "idle")  BY <2>1
  <2> HIDE DEF e, next
  <2>5. QED  BY <2>1, <2>2, <2>3, <2>4, OneAppend, MethodKept
<1>2. CASE StartAttempt
  <2>1. alive /\ pc = "start" /\ run \in Runs /\ run.target \in Targets
    BY <1>2 DEF StartAttempt, At, PipelineInv, TypeOK, Runs
  <2>2. CASE Refused
    <3>1. UNCHANGED <<alive, queue, ratchet, faults>>  BY <2>2 DEF Refused
    <3>2. \A t \in Targets : ~Exempt(t)  BY <2>1 DEF Exempt
    <3>3. QED  BY <3>1, <3>2, LocalKept
  <2>3. CASE QueueCall(Q!StartAttempt(run.target), "candidate")
    <3> DEFINE e == QP!Plain(run.target, "queued", "attempting", "attempt_started")
               next == "candidate"
    <3>1. /\ QP!StartAttempt(run.target)
          /\ Goto(IF faults' = faults THEN next ELSE "idle")
          /\ rfile' = rfile /\ accepted' = IF alive' THEN accepted ELSE R!Nobody
      BY <2>3, SameCalls DEF QueueCall
    <3>2. e \in QP!Event /\ e.target = run.target
      BY <2>1, PlainBacked DEF QP!Quiet, QP!States
    <3>3. QP!LogAppend(e)  BY <3>1 DEF QP!StartAttempt
    <3>4. next \notin {"idle", "enqueue", "start"}  OBVIOUS
    <3> HIDE DEF e, next
    <3>5. QED  BY <2>1, <3>1, <3>2, <3>3, <3>4, OneAppend, MethodKept
  <2>4. QED  BY <1>2, <2>2, <2>3 DEF StartAttempt
<1>3. QED  BY <1>1, <1>2

(* RecordCandidate. *)
LEMMA RecordCandidateKept ==
  ASSUME PipelineInv, PipelineInv', StrandedInv, RecordCandidate
  PROVE  StrandedInv'
<1> DEFINE e == QP!Hop(run.target, "attempting", "candidate-produced",
                       "candidate_artifact", run.candidate, "none")
           next == "check"
<1>1. /\ alive /\ pc = "candidate" /\ run \in Runs
      /\ run.target \in Targets /\ run.candidate \in Candidates
      /\ QP!RecordCandidate(run.target, run.candidate)
      /\ Goto(IF faults' = faults THEN next ELSE "idle")
      /\ rfile' = rfile /\ accepted' = IF alive' THEN accepted ELSE R!Nobody
  BY SameCalls DEF RecordCandidate, At, QueueCall, PipelineInv, TypeOK, Runs
<1>2. e \in QP!Event /\ e.target = run.target
  BY <1>1 DEF QP!Hop, QP!Event, QP!States
<1>3. \/ QP!Committed(e) /\ qcand' = [qcand EXCEPT ![run.target] = run.candidate]
      \/ QP!Failed(qfile, qstate, e)
  BY <1>1 DEF QP!RecordCandidate
<1>4. next \notin {"idle", "enqueue", "start"}  OBVIOUS
<1> HIDE DEF e, next
<1>5. qcand \in [Targets -> Candidates \cup {NoCandidate}]
  BY DEF PipelineInv, QP!QueueInv, QP!TypeOK
<1>6. \/ QP!Committed(e) /\ \A t \in Targets \ {run.target} : qcand'[t] = qcand[t]
      \/ QP!Failed(qfile, qstate, e)
  BY <1>3, <1>5
<1>7. QED  BY <1>1, <1>2, <1>4, <1>6, MethodKept

(* RecordKernelReceipt. *)
LEMMA RecordKernelReceiptKept ==
  ASSUME PipelineInv, PipelineInv', StrandedInv, RecordKernelReceipt
  PROVE  StrandedInv'
<1> DEFINE next == IF run.receipt.verdict = "accepted" THEN "audit" ELSE "requeue"
           v == run.receipt.verdict
           e == QP!Hop(run.target, "candidate-produced", QP!Ruling(v), "kernel_receipt",
                       run.candidate, v)
<1>1. /\ alive /\ pc = "receipt" /\ run \in Runs /\ Progress
      /\ run.target \in Targets /\ run.candidate \in Candidates
      /\ QP!RecordKernelReceipt(run.target, Filed)
      /\ Goto(IF faults' = faults THEN next ELSE "idle")
      /\ rfile' = rfile /\ accepted' = IF alive' THEN accepted ELSE R!Nobody
  BY SameCalls DEF RecordKernelReceipt, At, QueueCall, PipelineInv, TypeOK, Runs
<1>2. v \in {"accepted", "rejected", "error"}
  BY <1>1 DEF Progress, AfterCheck, Receipts
<1>3. QP!Ruling(v) \in {"kernel-checked", "checker-error", "kernel-rejected"}
  BY <1>2 DEF QP!Ruling
<1>4. e \in QP!Event /\ e.target = run.target
  BY <1>1, <1>2, <1>3 DEF QP!Hop, QP!Event, QP!States
<1>5. Filed.verdict = v /\ Filed.candidate = run.candidate  BY DEF Filed
<1>6. QP!LogAppend(e)  BY <1>1, <1>5 DEF QP!RecordKernelReceipt
<1>7. next \notin {"idle", "enqueue", "start"}  OBVIOUS
<1> HIDE DEF e, v, next
<1>8. QED  BY <1>1, <1>4, <1>6, <1>7, OneAppend, MethodKept

(* The gate, the audit, and the writing of their artifacts. *)
LEMMA ArtifactsKept ==
  ASSUME PipelineInv, StrandedInv, Check \/ WriteReceipt \/ Audit \/ WriteAudit
  PROVE  StrandedInv'
<1>1. pc \in {"check", "write receipt", "place receipt", "audit", "write audit", "place audit"}
      /\ run \in Runs
  BY DEF Check, WriteReceipt, Audit, WriteAudit, At, PipelineInv, TypeOK
<1>2. \/ Exception
      \/ /\ UNCHANGED <<alive, queue, ratchet, faults>>
         /\ pc' \in {"write receipt", "place receipt", "receipt", "write audit", "place audit",
                     "verdict"}
         /\ run'.target = run.target
  <2>1. CASE Check
    BY <1>1, <2>1 DEF Check, Runs
  <2>2. CASE Audit
    BY <1>1, <2>2 DEF Audit, Runs
  <2>3. CASE WriteReceipt
    BY <2>3 DEF WriteReceipt, WriteTemp, Place, Goto
  <2>4. CASE WriteAudit
    BY <2>4 DEF WriteAudit, WriteTemp, Place, Goto
  <2>5. QED  BY <2>1, <2>2, <2>3, <2>4
<1>3. CASE Exception  BY <1>1, <1>3, ExceptionKept
<1>4. CASE /\ UNCHANGED <<alive, queue, ratchet, faults>>
           /\ pc' \in {"write receipt", "place receipt", "receipt", "write audit", "place audit",
                       "verdict"}
           /\ run'.target = run.target
  <2>1. \A t \in Targets : Exempt(t) => Exempt(t)'  BY <1>4 DEF Exempt
  <2>2. QED  BY <1>4, <2>1, LocalKept
<1>5. QED  BY <1>2, <1>3, <1>4

(* An append about t that leads back to the queue or to the end of the
   diagram: what every decision does, and enqueue. *)
LEMMA SettlingKept ==
  ASSUME PipelineInv, PipelineInv', StrandedInv, alive, NEW t \in Targets,
         \A v \in Targets \ {t} : ~Exempt(v),
         NEW from \in QP!States \cup {"absent"}, NEW to \in {"queued", "abandoned"},
         NEW kind \in QP!Quiet, QP!LogAppend(QP!Plain(t, from, to, kind)),
         rfile' = rfile, accepted' = IF alive' THEN accepted ELSE R!Nobody
  PROVE  StrandedInv'
<1> DEFINE e == QP!Plain(t, from, to, kind)
<1>1. e \in QP!Event /\ e.target = t /\ e.to \in {"queued", "abandoned"}  BY PlainBacked
<1>2. \/ QP!Committed(e) /\ \A v \in Targets \ {t} : qcand'[v] = qcand[v]
      \/ QP!Failed(qfile, qstate, e)
  BY DEF QP!LogAppend
<1> HIDE DEF e
<1>3. /\ faults' \in {faults, faults + 1}
      /\ faults' = faults => QP!Committed(e)
      /\ \A v \in Targets \ {t} : Calm(v) => Calm(v)'
  BY <1>1, <1>2, AppendOthers
<1>4. faults' = faults => Calm(t)'
  <2>1. QP!Committed(e) => \A v : v = e.target => Calm(v)'  BY <1>1, AppendSettles
  <2>2. QED  BY <1>1, <1>3, <2>1
<1>5. QED  BY <1>3, <1>4, CallKept

(* The six decisions. *)
LEMMA DecideKept ==
  ASSUME PipelineInv, PipelineInv', StrandedInv, alive, NEW t \in Targets, QP!Decide(t),
         \A v \in Targets \ {t} : ~Exempt(v),
         rfile' = rfile, accepted' = IF alive' THEN accepted ELSE R!Nobody
  PROVE  StrandedInv'
<1>1. \E from \in QP!States, to \in {"queued", "abandoned"}, kind \in QP!Quiet :
        QP!LogAppend(QP!Plain(t, from, to, kind))
  <2> USE DEF QP!States, QP!Quiet
  <2>1. CASE QP!RequeueFromKernelRejected(t)  BY <2>1 DEF QP!RequeueFromKernelRejected
  <2>2. CASE QP!AbandonFromKernelRejected(t)  BY <2>2 DEF QP!AbandonFromKernelRejected
  <2>3. CASE QP!RequeueFromCheckerError(t)  BY <2>3 DEF QP!RequeueFromCheckerError
  <2>4. CASE QP!AbandonFromCheckerError(t)  BY <2>4 DEF QP!AbandonFromCheckerError
  <2>5. CASE QP!RequeueFromAuditRejected(t)  BY <2>5 DEF QP!RequeueFromAuditRejected
  <2>6. CASE QP!AbandonFromAuditRejected(t)  BY <2>6 DEF QP!AbandonFromAuditRejected
  <2>7. QED  BY <2>1, <2>2, <2>3, <2>4, <2>5, <2>6 DEF QP!Decide
<1>2. QED  BY <1>1, SettlingKept

(* Requeue and RequeueAudit: the run gives its target back. *)
LEMMA RequeueKept ==
  ASSUME PipelineInv, PipelineInv', StrandedInv, Requeue \/ RequeueAudit
  PROVE  StrandedInv'
<1>1. alive /\ run.target \in Targets
  BY DEF Requeue, RequeueAudit, At, PipelineInv, TypeOK, Runs
<1>2. /\ QP!Decide(run.target) /\ rfile' = rfile
      /\ accepted' = IF alive' THEN accepted ELSE R!Nobody
  <2>1. /\ \/ QP!RequeueFromCheckerError(run.target)
           \/ QP!RequeueFromKernelRejected(run.target)
           \/ QP!RequeueFromAuditRejected(run.target)
        /\ rfile' = rfile
        /\ accepted' = IF alive' THEN accepted ELSE R!Nobody
    BY SameCalls DEF Requeue, RequeueAudit, QueueCall
  <2>2. QED  BY <2>1 DEF QP!Decide
<1>3. \A v \in Targets \ {run.target} : ~Exempt(v)  BY DEF Exempt
<1>4. QED  BY <1>1, <1>2, <1>3, DecideKept

(* What the caller does between two runs. *)
LEMMA CallerKept ==
  ASSUME PipelineInv, PipelineInv', StrandedInv, NEW t \in Targets, Caller(t)
  PROVE  StrandedInv'
<1>1. /\ alive /\ pc = "idle" /\ rfile' = rfile
      /\ accepted' = IF alive' THEN accepted ELSE R!Nobody
  BY DEF Caller, QueueCall, At
<1>2. \/ QP!Enqueue(t) \/ QP!Decide(t)
      \/ \E abandon \in BOOLEAN : QP!RecordNoCandidate(t, abandon)
  BY SameCalls DEF Caller, QueueCall
<1>3. \A v \in Targets \ {t} : ~Exempt(v)  BY <1>1 DEF Exempt
<1>4. CASE QP!Decide(t)  BY <1>1, <1>3, <1>4, DecideKept
<1>5. CASE QP!Enqueue(t)
  <2>1. QP!LogAppend(QP!Plain(t, "absent", "queued", "target_entry"))
    BY <1>5 DEF QP!Enqueue
  <2>2. "target_entry" \in QP!Quiet  BY DEF QP!Quiet
  <2>3. QED  BY <1>1, <1>3, <2>1, <2>2, SettlingKept
<1>6. ASSUME NEW abandon \in BOOLEAN, QP!RecordNoCandidate(t, abandon)
      PROVE  StrandedInv'
  <2> DEFINE to == IF abandon THEN "abandoned" ELSE "queued"
  <2>1. to \in {"queued", "abandoned"}  OBVIOUS
  <2>2. QP!LogAppend(QP!Plain(t, "attempting", to, "no_candidate_produced"))
    BY <1>6 DEF QP!RecordNoCandidate
  <2> HIDE DEF to
  <2>3. "attempting" \in QP!States /\ "no_candidate_produced" \in QP!Quiet
    BY DEF QP!States, QP!Quiet
  <2>4. QED  BY <1>1, <1>3, <2>1, <2>2, <2>3, SettlingKept
<1>7. QED  BY <1>2, <1>4, <1>5, <1>6

(* RecordAudit: whichever of its two appends fails, the run that ends was its
   target's. *)
LEMMA RecordAuditKept ==
  ASSUME PipelineInv, PipelineInv', StrandedInv, RecordAudit
  PROVE  StrandedInv'
<1> DEFINE next == IF run.audit = "pass" THEN "ratchet" ELSE "requeue-audit"
           final == IF run.audit = "pass" THEN "accepted" ELSE "audit-rejected"
           e1 == QP!Hop(run.target, "kernel-checked", "audited", "audit_verdict",
                        run.candidate, run.audit)
           e2 == QP!Hop(run.target, "audited", final, "audit_verdict",
                        run.candidate, run.audit)
           mid == QP!Written(qfile, e1)
<1>1. /\ alive /\ pc = "verdict" /\ run \in Runs
      /\ run.target \in Targets /\ run.candidate \in Candidates
      /\ QP!RecordAudit(run.target, Verdict)
      /\ Goto(IF faults' = faults THEN next ELSE "idle")
      /\ rfile' = rfile /\ accepted' = IF alive' THEN accepted ELSE R!Nobody
  BY SameCalls DEF RecordAudit, At, QueueCall, PipelineInv, TypeOK, Runs
<1>2. run.audit \in {"pass", "fail"}
  BY <1>1 DEF PipelineInv, Progress, AfterAudit
<1>3. /\ e1 \in QP!Event /\ e1.target = run.target
      /\ e2 \in QP!Event /\ e2.target = run.target
  BY <1>1, <1>2 DEF QP!Hop, QP!Event, QP!States
<1>4. \/ /\ qfile' = QP!Written(mid, e2)
         /\ qstate' = [qstate EXCEPT ![run.target] = final]
         /\ UNCHANGED <<alive, qcand, faults>>
      \/ QP!Failed(qfile, qstate, e1)
      \/ QP!Failed(mid, [qstate EXCEPT ![run.target] = "audited"], e2)
  <2>1. Verdict.candidate = run.candidate /\ Verdict.verdict = run.audit  BY DEF Verdict
  <2>2. QED  BY <1>1, <2>1 DEF QP!RecordAudit
<1>5. next \notin {"idle", "enqueue", "start"}  OBVIOUS
<1> HIDE DEF e1, e2, mid, final, next
<1>6. /\ qfile \in QP!Files(QP!Event) /\ qfile' \in QP!Files(QP!Event)
      /\ mid \in QP!Files(QP!Event)
      /\ qstate \in [Targets -> QP!States \cup {"absent"}]
  <2>1. /\ qfile \in QP!Files(QP!Event) /\ qfile' \in QP!Files(QP!Event)
        /\ qstate \in [Targets -> QP!States \cup {"absent"}]
    BY DEF PipelineInv, QP!QueueInv, QP!TypeOK
  <2>2. QED  BY <1>3, <2>1, QueueAssumptions, QP!WriteType DEF mid
<1>7. QP!Extends(qfile, mid, e1)
  BY <1>3, <1>6, QueueAssumptions, QP!WrittenExtends DEF QP!Extends, mid
<1>8. PICK u \in Targets : u = run.target  BY <1>1
<1>9. faults \in Nat
  <2>1. faults \in 0..MaxFaults  BY DEF PipelineInv, QP!QueueInv, QP!TypeOK
  <2>2. QED  BY <2>1, Counting
<1>10. /\ faults' \in {faults, faults + 1}
       /\ \/ /\ alive' = alive /\ accepted' = accepted
             /\ \A t \in Targets \ {u} : qstate'[t] = qstate[t] /\ qcand'[t] = qcand[t]
          \/ alive' = FALSE
  BY <1>1, <1>4, <1>6, <1>8 DEF QP!Failed, QP!Down
<1>11. \A t \in Targets \ {u} : Calm(t) => Calm(t)'
  <2>1. CASE qfile' = QP!Written(mid, e2)
    <3>1. QP!Extends(mid, qfile', e2)
      BY <1>3, <1>6, <2>1, QueueAssumptions, QP!WrittenExtends DEF QP!Extends
    <3>2. QED  BY <1>1, <1>3, <1>6, <1>7, <1>8, <1>10, <3>1, QueueOthers
  <2>2. CASE QP!Failed(qfile, qstate, e1)
    <3>1. \E w \in QP!Outcomes : qfile' = QP!Interrupted(qfile, e1, w)
      BY <2>2, QueueAssumptions DEF QP!Failed
    <3>2. QP!Extends(qfile, qfile', e1)
      BY <1>3, <1>6, <3>1, QueueAssumptions, QP!InterruptedExtends
    <3>3. QP!Extends(qfile', qfile', e1)  BY DEF QP!Extends
    <3>4. QED  BY <1>1, <1>3, <1>6, <1>8, <1>10, <3>2, <3>3, QueueOthers
  <2>3. CASE QP!Failed(mid, [qstate EXCEPT ![run.target] = "audited"], e2)
    <3>1. \E w \in QP!Outcomes : qfile' = QP!Interrupted(mid, e2, w)
      BY <2>3, QueueAssumptions DEF QP!Failed
    <3>2. QP!Extends(mid, qfile', e2)
      BY <1>3, <1>6, <3>1, QueueAssumptions, QP!InterruptedExtends
    <3>3. QED  BY <1>1, <1>3, <1>6, <1>7, <1>8, <1>10, <3>2, QueueOthers
  <2>4. QED  BY <1>4, <2>1, <2>2, <2>3
<1>12. faults' = faults => Exempt(u)'
  <2>1. faults' = faults => pc' = next /\ run' = run  BY <1>5, <1>1 DEF Goto
  <2>2. QED  BY <1>5, <1>8, <2>1 DEF Exempt
<1>13. \A t \in Targets \ {u} : ~Exempt(t)  BY <1>8 DEF Exempt
<1>14. QED  BY <1>10, <1>11, <1>12, <1>13, CallKept

(* The accepted set of a ratchet log with an acceptance at its end: that
   target is in it for that candidate, and no other target is concerned. *)
LEMMA AcceptedAppend ==
  ASSUME NEW L \in Seq(R!Event), NEW e \in R!Event, e.type = "accept", NEW t \in Targets
  PROVE  R!FoldAccepted(Append(L, e))[t] =
           IF e.target = t THEN e.candidate ELSE R!FoldAccepted(L)[t]
<1> DEFINE n == Len(L)
           M == Append(L, e)
           S == R!MembershipOf(L, t)
           T == R!MembershipOf(M, t)
<1>1. /\ n \in Nat /\ DOMAIN L = 1..n /\ DOMAIN M = 1..n \cup {n + 1} /\ n + 1 \notin 1..n
      /\ M[n + 1] = e /\ \A i \in 1..n : M[i] = L[i]
  <2>1. \A m \in Nat : 1..(m + 1) = 1..m \cup {m + 1} /\ m + 1 \notin 1..m  OBVIOUS
  <2>2. QED  BY <2>1, AppendProperties, LenProperties
<1> HIDE DEF n, M
<1>2. /\ S \in SUBSET (1..n)
      /\ T = IF e.target = t THEN S \cup {n + 1} ELSE S
  BY <1>1 DEF R!MembershipOf, R!Membership
<1> HIDE DEF S, T
<1>3. \A V : R!LastOf(V) = QP!LastOf(V)
  BY Zenon DEF R!LastOf, QP!LastOf, R!IsLast, QP!IsLast
<1>4. CASE e.target = t
  <2>1. QP!LastOf(S \cup {n + 1}) = n + 1  BY <1>1, <1>2, QueueAssumptions, QP!LastFacts
  <2>2. T # {} /\ R!LastOf(T) = n + 1  BY <1>2, <1>3, <1>4, <2>1
  <2>3. QED  BY <1>1, <1>4, <2>2 DEF R!FoldAccepted, T, M
<1>5. CASE e.target # t
  <2>1. T = S  BY <1>2, <1>5
  <2>2. S # {} => R!LastOf(S) \in 1..n
    <3>1. S # {} => QP!LastOf(S) \in S  BY <1>1, <1>2, QueueAssumptions, QP!LastFound
    <3>2. QED  BY <1>2, <1>3, <3>1
  <2>3. R!FoldAccepted(M)[t] = R!FoldAccepted(L)[t]
    BY <1>1, <2>1, <2>2 DEF R!FoldAccepted, S, T
  <2>4. QED  BY <1>5, <2>3 DEF M
<1>6. QED  BY <1>4, <1>5

(* Ratchet: the accepted target is settled once its entry is written, in the
   set and in both logs. *)
LEMMA RatchetKept ==
  ASSUME PipelineInv, PipelineInv', StrandedInv, Ratchet
  PROVE  StrandedInv'
<1> DEFINE e == R!Entry("accept", run.target, run.candidate, "none")
<1>1. /\ alive /\ pc = "ratchet" /\ qfile' = qfile
      /\ \/ /\ rfile' = QP!Written(rfile, e)
            /\ accepted' = [accepted EXCEPT ![run.target] = run.candidate]
            /\ UNCHANGED <<alive, faults, qstate, qcand>>
         \/ /\ \E w \in QP!Outcomes : rfile' = QP!Interrupted(rfile, e, w)
            /\ faults' = faults + 1
            /\ \/ UNCHANGED <<alive, accepted, qstate, qcand>>
               \/ alive' = FALSE
  BY AcceptOutcome
<1>2. run \in Runs /\ Progress  BY <1>1 DEF PipelineInv, TypeOK
<1>3. /\ e \in R!Event /\ e.type = "accept" /\ e.target = run.target
      /\ e.candidate = run.candidate
      /\ run.target \in Targets /\ run.candidate \in Candidates
  BY <1>2 DEF Runs, R!Entry, R!Event
<1> HIDE DEF e
<1>4. rfile \in QP!Files(R!Event)  BY DEF PipelineInv, TypeOK, R!Files, QP!Files
<1>5. accepted \in [Targets -> Candidates \cup {NoCandidate}]  BY DEF PipelineInv, TypeOK
<1>6. faults \in Nat
  <2>1. faults \in 0..MaxFaults  BY DEF PipelineInv, QP!QueueInv, QP!TypeOK
  <2>2. QED  BY <2>1, Counting
<1>7. PICK u \in Targets : u = run.target  BY <1>3
<1>8. QP!Extends(rfile, rfile', e)
  <2>1. CASE rfile' = QP!Written(rfile, e)
    BY <1>3, <1>4, <2>1, QueueAssumptions, QP!WrittenExtends DEF QP!Extends
  <2>2. CASE \E w \in QP!Outcomes : rfile' = QP!Interrupted(rfile, e, w)
    BY <1>3, <1>4, <2>2, QueueAssumptions, QP!InterruptedExtends
  <2>3. QED  BY <1>1, <2>1, <2>2
<1>9. ASSUME NEW t \in Targets \ {u}, Calm(t)  PROVE Calm(t)'
  <2>1. alive' => \/ qstate'[t] \in {"absent", "queued", "abandoned"}
                  \/ qstate'[t] = "accepted" /\ accepted'[t] = qcand'[t]
    <3>1. alive' => qstate' = qstate /\ qcand' = qcand /\ accepted'[t] = accepted[t]
      BY <1>1, <1>5, <1>7, <1>9
    <3>2. QED  BY <1>1, <1>9, <3>1 DEF Calm, Settled
  <2>2. ASSUME QP!Readable(qfile'), QP!Readable(rfile')
        PROVE  \/ QP!FoldState(qfile'.lines)[t] \in {"absent", "queued", "abandoned"}
               \/ /\ QP!FoldState(qfile'.lines)[t] = "accepted"
                  /\ R!FoldAccepted(rfile'.lines)[t] = QP!FoldCandidates(qfile'.lines)[t]
    <3>1. /\ QP!Readable(rfile)
          /\ rfile'.lines = rfile.lines \/ rfile'.lines = Append(rfile.lines, e)
      BY <1>8, <2>2 DEF QP!Extends
    <3>2. rfile.lines \in Seq(R!Event)  BY <3>1, RatchetLines DEF PipelineInv
    <3>3. R!FoldAccepted(rfile'.lines)[t] = R!FoldAccepted(rfile.lines)[t]
      <4>1. t \in Targets /\ e.target # t  BY <1>3, <1>7, <1>9
      <4>2. R!FoldAccepted(Append(rfile.lines, e))[t] = R!FoldAccepted(rfile.lines)[t]
        BY <1>3, <3>2, <4>1, AcceptedAppend
      <4>3. QED  BY <3>1, <4>2
    <3>4. SettledOnDisk(t)  BY <1>1, <1>9, <2>2, <3>1 DEF Calm
    <3>5. QED  BY <1>1, <3>3, <3>4 DEF SettledOnDisk
  <2>3. QED  BY <2>1, <2>2, CalmNext
<1>10. ASSUME faults' = faults  PROVE Calm(u)'
  <2>1. /\ rfile' = QP!Written(rfile, e) /\ alive' = alive /\ qstate' = qstate /\ qcand' = qcand
        /\ accepted' = [accepted EXCEPT ![run.target] = run.candidate]
    <3>1. faults' # faults + 1  BY <1>6, <1>10
    <3>2. QED  BY <1>1, <3>1, Zenon
  <2>2. /\ qstate[u] = "accepted" /\ qcand[u] = run.candidate
        /\ Admissible(u, run.candidate)
    BY <1>1, <1>2, <1>7 DEF Progress
  <2>3. qstate'[u] = "accepted" /\ accepted'[u] = qcand'[u]  BY <1>5, <1>7, <2>1, <2>2
  <2>4. ASSUME QP!Readable(qfile'), QP!Readable(rfile')
        PROVE  /\ QP!FoldState(qfile'.lines)[u] = "accepted"
               /\ R!FoldAccepted(rfile'.lines)[u] = QP!FoldCandidates(qfile'.lines)[u]
    <3>1. QP!Readable(rfile) /\ rfile'.lines = Append(rfile.lines, e)
      BY <1>3, <1>4, <2>1, <2>4, QueueAssumptions, QP!WrittenExtends
    <3>2. rfile.lines \in Seq(R!Event)  BY <3>1, RatchetLines DEF PipelineInv
    <3>3. R!FoldAccepted(rfile'.lines)[u] = run.candidate
      BY <1>3, <1>7, <3>1, <3>2, AcceptedAppend
    <3>4. QED  BY <1>1, <2>2, <2>4, <3>3 DEF Admissible
  <2>5. QED  BY <2>3, <2>4, CalmNext
<1>11. \A t \in Targets \ {u} : ~Exempt(t)  BY <1>7 DEF Exempt
<1>12. faults' \in {faults, faults + 1}  BY <1>1
<1>13. QED  BY <1>9, <1>10, <1>11, <1>12, CallKept

(* Die: the logs stay, and so does what they settle. *)
LEMMA DieKept ==
  ASSUME PipelineInv, StrandedInv, Die
  PROVE  StrandedInv'
<1>1. alive' = FALSE /\ qfile' = qfile /\ rfile' = rfile /\ faults' = faults + 1
  BY DEF Die, Q!Down
<1>2. \A t : Calm(t) => Calm(t)'
  BY <1>1, CalmNext DEF Calm, SettledOnDisk
<1>3. CASE pc = "idle"
  <2>1. \A t \in Targets : ~Exempt(t)  BY <1>3 DEF Exempt
  <2>2. QED  BY <1>1, <1>2, <2>1, QuietInv
<1>4. CASE pc # "idle"
  <2>1. run.target \in Targets  BY <1>4 DEF PipelineInv, TypeOK, Runs
  <2>2. \A t \in Targets \ {run.target} : ~Exempt(t)  BY DEF Exempt
  <2>3. QED  BY <1>1, <1>2, <2>1, <2>2, FaultInv
<1>5. QED  BY <1>3, <1>4

(* Restart: what the two logs settle is what the new process finds settled. *)
LEMMA RestartKept ==
  ASSUME PipelineInv, StrandedInv, Restart
  PROVE  StrandedInv'
<1>1. /\ ~alive /\ qfile' = qfile /\ rfile' = rfile /\ faults' = faults
      /\ QP!Readable(qfile) /\ QP!Readable(rfile)
      /\ qstate' = QP!FoldState(qfile.lines) /\ qcand' = QP!FoldCandidates(qfile.lines)
      /\ accepted' = R!FoldAccepted(rfile.lines)
  BY SameCalls, SameLog DEF Restart, QP!Replay, R!Replay
<1>2. pc = "idle"  BY <1>1 DEF PipelineInv, Progress
<1>3. \A t \in Targets : ~Exempt(t)  BY <1>2 DEF Exempt
<1>4. \A t : Calm(t) => Calm(t)'
  BY <1>1, CalmNext DEF Calm, SettledOnDisk
<1>5. QED  BY <1>1, <1>3, <1>4, QuietInv

-------------------------------------------------------------------------------
(* The theorem *)

(* Nobody has failed and nothing is stranded. *)
LEMMA StrandedInvInit ==
  ASSUME Init
  PROVE  StrandedInv
<1>1. /\ alive /\ qstate = QP!Blank /\ faults = 0 /\ qfile.lines = <<>>
  BY DEF Init, Q!Init, Q!EmptyFile, Q!Blank, QP!Blank
<1>2. ASSUME NEW t \in Targets  PROVE Calm(t)
  <2>1. Settled(t)  BY <1>1 DEF Settled, QP!Blank
  <2>2. QP!About(qfile.lines, t) = {}  BY <1>1 DEF QP!About
  <2>3. SettledOnDisk(t)  BY <2>2 DEF SettledOnDisk, QP!FoldState
  <2>4. QED  BY <2>1, <2>3 DEF Calm
<1>3. {} \in SUBSET Targets /\ IsFiniteSet({}) /\ Cardinality({}) <= faults
  BY <1>1, FS_EmptySet
<1>4. QED  BY <1>2, <1>3 DEF StrandedInv

(* Every step of the pipeline keeps the count. *)
LEMMA StrandedInvNext ==
  ASSUME PipelineInv, PipelineInv', StrandedInv, [Next]_vars
  PROVE  StrandedInv'
<1>1. ASSUME NEW t \in Targets, NEW c \in Candidates, Begin(t, c)  PROVE StrandedInv'
  BY <1>1, BeginKept
<1>2. CASE RunTarget
  BY <1>2, OpeningKept, RecordCandidateKept, ArtifactsKept, RecordKernelReceiptKept,
     RequeueKept, RecordAuditKept, RatchetKept
  DEF RunTarget
<1>3. ASSUME NEW t \in Targets, Caller(t)  PROVE StrandedInv'
  BY <1>3, CallerKept
<1>4. CASE Die  BY <1>4, DieKept
<1>5. CASE Restart  BY <1>5, RestartKept
<1>6. CASE UNCHANGED vars
  <2>1. UNCHANGED <<alive, queue, ratchet, faults>> /\ pc' = pc /\ run' = run
    BY <1>6 DEF vars
  <2>2. \A t \in Targets : Exempt(t) => Exempt(t)'  BY <2>1 DEF Exempt
  <2>3. QED  BY <2>1, <2>2, LocalKept
<1>7. QED  BY <1>1, <1>2, <1>3, <1>4, <1>5, <1>6 DEF Next

(* One failure strands at most the one target whose run it ended, for any
   number of targets and failures, whatever raises and whatever a failed write
   leaves behind (run_target, and _append of both logs). *)
THEOREM OneFailureStrandsOne == Spec => []OneFailureOneTarget
<1>1. Init => StrandedInv  BY StrandedInvInit
<1>2. PipelineInv /\ PipelineInv' /\ StrandedInv /\ [Next]_vars => StrandedInv'
  BY StrandedInvNext
<1>3. PipelineInv /\ StrandedInv => OneFailureOneTarget  BY StrandedCounted
<1>4. QED  BY <1>1, <1>2, <1>3, PipelineInvariant, PTL DEF Spec

-------------------------------------------------------------------------------
(* Runs that end without a failure *)

(* Such a run ended in one of three calls. *)
LEMMA LastCalls ==
  ASSUME PipelineInv, [Next]_vars,
         pc \notin {"idle", "enqueue", "start"}, pc' = "idle", faults' = faults
  PROVE  Requeue \/ RequeueAudit \/ Ratchet
<1>1. faults # faults + 1
  <2>1. faults \in 0..MaxFaults  BY DEF PipelineInv, QP!QueueInv, QP!TypeOK
  <2>2. \A f \in 0..MaxFaults : f # f + 1  BY BoundsAssumption
  <2>3. QED  BY <2>1, <2>2
<1>2. ~Exception /\ ~Die  BY <1>1, Zenon DEF Exception, Die
<1>3. ~(pc' = pc)  OBVIOUS
<1>4. ~(UNCHANGED vars)  BY <1>3, Zenon DEF vars
<1>5. ~Restart  BY <1>3, Zenon DEF Restart
<1>6. /\ \A t \in Targets, c \in Candidates : ~Begin(t, c)
      /\ \A t \in Targets : ~Caller(t)
      /\ ~Enqueue /\ ~StartAttempt
  BY Zenon DEF Begin, Caller, Enqueue, StartAttempt, At
<1>7. \A next : Goto(IF faults' = faults THEN next ELSE "idle") => pc' = next
  BY DEF Goto
<1>8. ~RecordCandidate  BY <1>7 DEF RecordCandidate, QueueCall
<1>9. ~RecordKernelReceipt  BY <1>7 DEF RecordKernelReceipt, QueueCall
<1>10. ~RecordAudit  BY <1>7 DEF RecordAudit, QueueCall
<1>11. ~Check /\ ~Audit  BY <1>2 DEF Check, Audit
<1>12. ~WriteReceipt /\ ~WriteAudit
  BY <1>2 DEF WriteReceipt, WriteAudit, WriteTemp, Place, Goto
<1>13. QED
  BY <1>2, <1>4, <1>5, <1>6, <1>8, <1>9, <1>10, <1>11, <1>12 DEF Next, RunTarget

(* An append of the queue that changed no counter of failures returned. *)
LEMMA Returned ==
  ASSUME PipelineInv, NEW e, QP!LogAppend(e), faults' = faults
  PROVE  QP!Committed(e)
<1>1. faults # faults + 1
  <2>1. faults \in 0..MaxFaults  BY DEF PipelineInv, QP!QueueInv, QP!TypeOK
  <2>2. \A f \in 0..MaxFaults : f # f + 1  BY BoundsAssumption
  <2>3. QED  BY <2>1, <2>2
<1>2. QED  BY <1>1, Zenon DEF QP!LogAppend, QP!Failed

(* A run that got past start_attempt and ended without a failure has settled
   its target: run_target's three last calls each do (pipeline.py, the requeue
   branches and the call of ratchet.accept). *)
THEOREM RunsSettleTheirTargets == Spec => SettledOnReturn
<1> DEFINE A == pc \notin {"idle", "enqueue", "start"} /\ pc' = "idle" /\ faults' = faults =>
                  \/ qstate'[run.target] = "queued"
                  \/ qstate'[run.target] = "accepted" /\ accepted'[run.target] = run.candidate
<1>1. PipelineInv /\ [Next]_vars => [A]_vars
  <2>1. SUFFICES ASSUME PipelineInv, [Next]_vars, pc \notin {"idle", "enqueue", "start"},
                        pc' = "idle", faults' = faults
                 PROVE  \/ qstate'[run.target] = "queued"
                        \/ /\ qstate'[run.target] = "accepted"
                           /\ accepted'[run.target] = run.candidate
    OBVIOUS
  <2>2. run.target \in Targets /\ Progress  BY <2>1 DEF PipelineInv, TypeOK, Runs
  <2>3. qstate \in [Targets -> QP!States \cup {"absent"}]
        /\ accepted \in [Targets -> Candidates \cup {NoCandidate}]
    BY <2>1 DEF PipelineInv, TypeOK, QP!QueueInv, QP!TypeOK
  <2>4. CASE Requeue \/ RequeueAudit
    <3>1. \/ QP!RequeueFromCheckerError(run.target)
          \/ QP!RequeueFromKernelRejected(run.target)
          \/ QP!RequeueFromAuditRejected(run.target)
      BY <2>4, SameCalls DEF Requeue, RequeueAudit, QueueCall
    <3>2. \E from \in QP!States, kind \in QP!Quiet :
            QP!LogAppend(QP!Plain(run.target, from, "queued", kind))
      BY <3>1 DEF QP!RequeueFromCheckerError, QP!RequeueFromKernelRejected,
         QP!RequeueFromAuditRejected, QP!States, QP!Quiet
    <3>3. PICK from \in QP!States, kind \in QP!Quiet :
            QP!Committed(QP!Plain(run.target, from, "queued", kind))
      BY <2>1, <3>2, Returned
    <3>4. qstate' = [qstate EXCEPT ![run.target] = "queued"]
      BY <3>3 DEF QP!Committed, QP!Plain, QP!Hop
    <3>5. QED  BY <2>2, <2>3, <3>4
  <2>5. CASE Ratchet
    <3>1. faults # faults + 1
      <4>1. faults \in 0..MaxFaults  BY <2>1 DEF PipelineInv, QP!QueueInv, QP!TypeOK
      <4>2. \A f \in 0..MaxFaults : f # f + 1  BY BoundsAssumption
      <4>3. QED  BY <4>1, <4>2
    <3>2. /\ pc = "ratchet"
          /\ \/ /\ accepted' = [accepted EXCEPT ![run.target] = run.candidate]
                /\ qstate' = qstate
             \/ faults' = faults + 1
      BY <2>5, AcceptOutcome
    <3>3. accepted' = [accepted EXCEPT ![run.target] = run.candidate] /\ qstate' = qstate
      BY <2>1, <3>1, <3>2, Zenon
    <3>4. QED  BY <2>2, <2>3, <3>2, <3>3 DEF Progress
  <2>6. QED  BY <2>1, <2>4, <2>5, LastCalls
<1>2. QED  BY <1>1, PipelineInvariant, PTL DEF Spec, SettledOnReturn

===============================================================================
