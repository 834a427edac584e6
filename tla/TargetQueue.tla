------------------------------ MODULE TargetQueue ------------------------------
(***************************************************************************)
(* The target queue of queue.py: one evidence-driven state machine per     *)
(* target, persisted as an append-only event log, with two in-memory       *)
(* dictionaries (_state and _candidate) that cache the fold of that log.   *)
(*                                                                         *)
(* Every action is one public method.  Its append may return, raise (the   *)
(* disk is full, fsync fails) or be cut short by the death of the process; *)
(* in the last two cases the file holds any of the outcomes of EventLog,   *)
(* and the two fault models are separate constants.                        *)
(***************************************************************************)
EXTENDS EventLog

CONSTANTS
  Targets,       \* target ids
  Candidates,    \* candidate ids
  NoCandidate,   \* stands for the absent key of _candidate
  Raises,        \* outcomes an append that raises may leave on disk
  Crashes,       \* outcomes an append that dies may leave on disk
  MaxEvents,     \* bound: lines in the log
  MaxFaults      \* bound: appends that do not return

ASSUME CandidatesAssumption == NoCandidate \notin Candidates
ASSUME OutcomesAssumption == Raises \subseteq Outcomes /\ Crashes \subseteq Outcomes
ASSUME BoundsAssumption == MaxEvents \in Nat /\ MaxFaults \in Nat

VARIABLES
  file,          \* the log on disk
  up,            \* is there a TargetQueue object in memory?
  state,         \* its _state; "absent" is a key that is not there
  candidate,     \* its _candidate
  faults         \* appends that did not return so far

vars == <<file, up, state, candidate, faults>>

-------------------------------------------------------------------------------
(* Events and evidence *)

States == {"queued", "attempting", "candidate-produced", "kernel-checked",
           "kernel-rejected", "checker-error", "audited", "accepted",
           "audit-rejected", "abandoned"}

Receipts == [target : Targets, candidate : Candidates,
             verdict : {"accepted", "rejected", "error"}]

Audits == [target : Targets, candidate : Candidates, verdict : {"pass", "fail"}]

Event == [target    : Targets,
          from      : States \cup {"absent"},
          to        : States,
          kind      : {"target_entry", "attempt_started", "candidate_artifact",
                       "no_candidate_produced", "kernel_receipt", "audit_verdict",
                       "requeue_decision", "abandon_decision"},
          candidate : Candidates \cup {NoCandidate},
          verdict   : {"none", "accepted", "rejected", "error", "pass", "fail"}]

Hop(t, from, to, kind, c, v) ==
  [target |-> t, from |-> from, to |-> to, kind |-> kind, candidate |-> c, verdict |-> v]

(* Mutant: the two states of an event swapped. *)
Plain_Swapped(t, from, to, kind) == Hop(t, to, from, kind, NoCandidate, "none")

(* An event whose evidence names neither a candidate nor a verdict. *)
Plain(t, from, to, kind) == Hop(t, from, to, kind, NoCandidate, "none")

-------------------------------------------------------------------------------
(* The fold: the last event about a target decides.  About and LastOf are the
   loop over the log, said without recursion. *)

About(lines, t) == {i \in DOMAIN lines : lines[i].target = t}

Bindings(lines, t) == {i \in About(lines, t) : lines[i].kind = "candidate_artifact"}

FoldState(lines) ==
  [t \in Targets |->
     IF About(lines, t) = {} THEN "absent"
     ELSE lines[LastOf(About(lines, t))].to]

FoldCandidates(lines) ==
  [t \in Targets |->
     IF Bindings(lines, t) = {} THEN NoCandidate
     ELSE lines[LastOf(Bindings(lines, t))].candidate]

-------------------------------------------------------------------------------
(* One append *)

Blank   == [t \in Targets |-> "absent"]
Unbound == [t \in Targets |-> NoCandidate]

Init ==
  /\ file = EmptyFile
  /\ up = TRUE
  /\ state = Blank
  /\ candidate = Unbound
  /\ faults = 0

Room(n) == Len(file.lines) + n <= MaxEvents

Down == up' = FALSE /\ state' = Blank /\ candidate' = Unbound

(* The append of e to f does not return.  When it raises, the caller keeps
   the object as it was before the append (s); when the process dies, memory
   is gone. *)
Failed(f, s, e) ==
  /\ faults < MaxFaults
  /\ faults' = faults + 1
  /\ \/ /\ \E w \in Raises : file' = Interrupted(f, e, w)
        /\ state' = s
        /\ UNCHANGED <<up, candidate>>
     \/ /\ \E w \in Crashes : file' = Interrupted(f, e, w)
        /\ Down

(* The append of e returns: disk first, then the cache. *)
Committed(e) ==
  /\ file' = Written(file, e)
  /\ state' = [state EXCEPT ![e.target] = e.to]
  /\ UNCHANGED <<up, faults>>

LogAppend(e) ==
  /\ up
  /\ Room(1)
  /\ \/ Committed(e) /\ UNCHANGED candidate
     \/ Failed(file, state, e)

-------------------------------------------------------------------------------
(* The public methods *)

(* Mutant: enqueue without its "already enqueued" test. *)
Enqueue_Unguarded(t) == LogAppend(Plain(t, "absent", "queued", "target_entry"))

Enqueue(t) ==
  /\ state[t] = "absent"
  /\ LogAppend(Plain(t, "absent", "queued", "target_entry"))

StartAttempt(t) ==
  /\ state[t] = "queued"
  /\ LogAppend(Plain(t, "queued", "attempting", "attempt_started"))

(* Mutant: record_candidate forgets to rebind the target in memory. *)
RecordCandidate_Unbound(t, c) ==
  /\ state[t] = "attempting"
  /\ LogAppend(Hop(t, "attempting", "candidate-produced", "candidate_artifact", c, "none"))

(* The binding follows the append, in memory only. *)
RecordCandidate(t, c) ==
  LET e == Hop(t, "attempting", "candidate-produced", "candidate_artifact", c, "none") IN
  /\ up
  /\ Room(1)
  /\ state[t] = "attempting"
  /\ \/ Committed(e) /\ candidate' = [candidate EXCEPT ![t] = c]
     \/ Failed(file, state, e)

(* Mutant: record_no_candidate without its _require_state. *)
RecordNoCandidate_Anywhere(t, abandon) ==
  LogAppend(Plain(t, "attempting", IF abandon THEN "abandoned" ELSE "queued",
                  "no_candidate_produced"))

RecordNoCandidate(t, abandon) ==
  /\ state[t] = "attempting"
  /\ LogAppend(Plain(t, "attempting", IF abandon THEN "abandoned" ELSE "queued",
                     "no_candidate_produced"))

(* Mutant: any candidate will do once one is bound. *)
IsActive_Any(t, c) == candidate[t] # NoCandidate

(* _require_active_candidate *)
IsActive(t, c) == candidate[t] # NoCandidate /\ c = candidate[t]

(* Mutant: a checker that gave no verdict is filed as a rejection. *)
Ruling_Collapsed(verdict) == IF verdict = "accepted" THEN "kernel-checked" ELSE "kernel-rejected"

Ruling(verdict) ==
  CASE verdict = "accepted" -> "kernel-checked"
    [] verdict = "error"    -> "checker-error"
    [] OTHER                -> "kernel-rejected"

RecordKernelReceipt(t, r) ==
  /\ state[t] = "candidate-produced"
  /\ r.target = t
  /\ IsActive(t, r.candidate)
  /\ LogAppend(Hop(t, "candidate-produced", Ruling(r.verdict), "kernel_receipt",
                   r.candidate, r.verdict))

RequeueFromKernelRejected(t) ==
  /\ state[t] = "kernel-rejected"
  /\ LogAppend(Plain(t, "kernel-rejected", "queued", "requeue_decision"))

AbandonFromKernelRejected(t) ==
  /\ state[t] = "kernel-rejected"
  /\ LogAppend(Plain(t, "kernel-rejected", "abandoned", "abandon_decision"))

RequeueFromCheckerError(t) ==
  /\ state[t] = "checker-error"
  /\ LogAppend(Plain(t, "checker-error", "queued", "requeue_decision"))

AbandonFromCheckerError(t) ==
  /\ state[t] = "checker-error"
  /\ LogAppend(Plain(t, "checker-error", "abandoned", "abandon_decision"))

RequeueFromAuditRejected(t) ==
  /\ state[t] = "audit-rejected"
  /\ LogAppend(Plain(t, "audit-rejected", "queued", "requeue_decision"))

AbandonFromAuditRejected(t) ==
  /\ state[t] = "audit-rejected"
  /\ LogAppend(Plain(t, "audit-rejected", "abandoned", "abandon_decision"))

(* Two appends from one artifact.  The second can fail after the first
   returned. *)
RecordAudit(t, a) ==
  LET first  == Hop(t, "kernel-checked", "audited", "audit_verdict", a.candidate, a.verdict)
      final  == IF a.verdict = "pass" THEN "accepted" ELSE "audit-rejected"
      second == Hop(t, "audited", final, "audit_verdict", a.candidate, a.verdict)
  IN /\ up
     /\ Room(2)
     /\ state[t] = "kernel-checked"
     /\ a.target = t
     /\ IsActive(t, a.candidate)
     /\ \/ /\ file' = Written(Written(file, first), second)
           /\ state' = [state EXCEPT ![t] = final]
           /\ UNCHANGED <<up, candidate, faults>>
        \/ Failed(file, state, first)
        \/ Failed(Written(file, first), [state EXCEPT ![t] = "audited"], second)

(* The process ends between two calls. *)
Stop == up /\ Down /\ UNCHANGED <<file, faults>>

(* replay, and the constructor: the log is the only input. *)
Replay ==
  /\ ~up
  /\ Readable(file)
  /\ up' = TRUE
  /\ state' = FoldState(file.lines)
  /\ candidate' = FoldCandidates(file.lines)
  /\ UNCHANGED <<file, faults>>

Decide(t) ==
  \/ RequeueFromKernelRejected(t) \/ AbandonFromKernelRejected(t)
  \/ RequeueFromCheckerError(t)   \/ AbandonFromCheckerError(t)
  \/ RequeueFromAuditRejected(t)  \/ AbandonFromAuditRejected(t)

Next ==
  \/ \E t \in Targets :
       \/ Enqueue(t)
       \/ StartAttempt(t)
       \/ \E c \in Candidates : RecordCandidate(t, c)
       \/ \E abandon \in BOOLEAN : RecordNoCandidate(t, abandon)
       \/ \E r \in Receipts : RecordKernelReceipt(t, r)
       \/ \E a \in Audits : RecordAudit(t, a)
       \/ Decide(t)
  \/ Stop
  \/ Replay

Spec == Init /\ [][Next]_vars

-------------------------------------------------------------------------------
(* Properties *)

(* Every variable has its type; in particular the log holds nothing but well
   formed events and torn lines. *)
TypeOK ==
  /\ file \in Files(Event)
  /\ up \in BOOLEAN
  /\ state \in [Targets -> States \cup {"absent"}]
  /\ candidate \in [Targets -> Candidates \cup {NoCandidate}]
  /\ faults \in 0..MaxFaults

(* The log as it stood before line k was written. *)
Prior(lines, k) == SubSeq(lines, 1, k - 1)

OfKind(lines, t, kind) == {i \in About(lines, t) : lines[i].kind = kind}

(* What a log says of t: it is bound to c, and the latest artifact of this
   kind, recorded since that binding and naming the same candidate, carries
   this verdict. *)
BoundTo(lines, t, c) ==
  \E i \in DOMAIN lines : IsLast(Bindings(lines, t), i) /\ lines[i].candidate = c

Standing(lines, t, kind, verdict) ==
  \E i, j \in DOMAIN lines :
    /\ IsLast(Bindings(lines, t), i)
    /\ IsLast(OfKind(lines, t, kind), j)
    /\ i < j
    /\ lines[j].candidate = lines[i].candidate
    /\ lines[j].verdict = verdict

(* An acceptance recorded on a log that says lines. *)
AcceptanceRests(lines, e) ==
  e.to = "accepted" =>
    /\ e.kind = "audit_verdict"
    /\ e.verdict = "pass"
    /\ BoundTo(lines, e.target, e.candidate)
    /\ Standing(lines, e.target, "kernel_receipt", "accepted")
    /\ Standing(lines, e.target, "audit_verdict", "pass")

(* A decision to retry or abandon recorded on a log that says lines. *)
DecisionRests(lines, e) ==
  e.kind \in {"requeue_decision", "abandon_decision"} =>
    \/ /\ e.from = "kernel-rejected"
       /\ Standing(lines, e.target, "kernel_receipt", "rejected")
    \/ /\ e.from = "checker-error"
       /\ Standing(lines, e.target, "kernel_receipt", "error")
    \/ /\ e.from = "audit-rejected"
       /\ Standing(lines, e.target, "audit_verdict", "fail")

(* No acceptance without the whole chain of evidence about ONE candidate: in
   any log that can be read, an accepted event follows the candidate the
   target was last bound to, the checker's last word about it was "accepted",
   and the passing verdict the event itself records names that candidate too.
   It is what _require_state and _require_active_candidate are for, across
   retries, crashes, replays and appends that raised after reaching the disk. *)
EvidenceChain ==
  Readable(file) =>
    \A k \in DOMAIN file.lines : AcceptanceRests(Prior(file.lines, k), file.lines[k])

(* A decision to retry or to give up answers the verdict it claims to answer:
   kernel-rejected only after a rejected receipt, checker-error only after an
   error (which State's comment says must never be routed as a refutation),
   audit-rejected only after a failing audit, each the latest one, each about
   the candidate the target was bound to. *)
DecisionsAnswerVerdicts ==
  Readable(file) =>
    \A k \in DOMAIN file.lines : DecisionRests(Prior(file.lines, k), file.lines[k])

Accepts(lines, t) == \E i \in About(lines, t) : lines[i].to = "accepted"

(* An accepted target is final: whatever fails, restarts or is retried, no
   event of a readable log is about a target the log had accepted before. *)
NothingAfterAcceptance ==
  Readable(file) =>
    \A k \in DOMAIN file.lines : ~Accepts(Prior(file.lines, k), file.lines[k].target)

(* The two dictionaries are nothing but a cache of the fold of the log: a
   queue replayed from the file at any moment answers state_of and
   active_candidate as the running one does (_append's comment, queue.py:222).
   It holds as long as an append that raises leaves no whole record behind,
   however appends die, and not when fsync fails after the line is written. *)
CacheIsFold ==
  up /\ Readable(file) =>
    state = FoldState(file.lines) /\ candidate = FoldCandidates(file.lines)

(* The log of each target is a walk: every event leaves the state the log
   before it folds to, so no restart, however the process died, resumes from
   a state the log does not show. *)
LogIsWalk ==
  Readable(file) =>
    \A k \in DOMAIN file.lines :
      file.lines[k].from = FoldState(Prior(file.lines, k))[file.lines[k].target]

(* The queue implements the diagram.  A target's stage is the fold of the
   log, never the cache, so a crash, a restart and an event that reached the
   disk as the process died all map to a step or a stutter.  An append that
   raises leaves no whole record behind, and one that dies none without its
   newline; a line cut short ends the log, for nothing can be replayed from it. *)
Diagram == INSTANCE QueueDiagram WITH
             stage <- FoldState(Whole(file.lines)),
             bound <- FoldCandidates(Whole(file.lines))
ImplementsDiagram == Diagram!Spec

(* What the module docstring promises of record_audit, "both appended
   atomically within one call" (queue.py:24): no queue is ever seen between
   two calls with a target resting in audited. *)
AuditIsAtomic == \A t \in Targets : state[t] # "audited"
===============================================================================
