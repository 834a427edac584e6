-------------------------------- MODULE Pipeline --------------------------------
(***************************************************************************)
(* Pipeline.run_target of pipeline.py: one process that owns a TargetQueue *)
(* and a Ratchet, drives one target at a time through queue, kernel gate,  *)
(* audit and ratchet, and leaves a receipt and an audit verdict on disk.   *)
(*                                                                         *)
(* run_target is straight-line code over four files that are not written   *)
(* together.  Every call it makes is a step; a step can raise, which ends  *)
(* the run with an exception nobody in run_target catches, or be cut short *)
(* by the death of the process, after which a new process replays both     *)
(* logs.  Between runs the caller may use the queue directly.              *)
(***************************************************************************)
EXTENDS Naturals, Sequences, FiniteSets

CONSTANTS
  Targets,       \* target ids
  Candidates,    \* candidate ids
  Attempts,      \* the pairs of target and candidate run_target is called with
  NoCandidate,   \* stands for the absent key of a dictionary
  NoRun,         \* no run_target is executing
  NoFile,        \* a receipt or verdict that is not on disk
  Torn,          \* a line of a log that cannot be read
  Raises,        \* outcomes an append that raises may leave on disk
  Crashes,       \* outcomes an append that dies may leave on disk
  MaxEvents,     \* bound: lines in a log
  MaxFaults      \* bound: calls that raise or die, deaths between calls

VARIABLES
  alive,         \* is there a process?
  qfile, qstate, qcand,     \* the queue: its log, _state and _candidate
  rfile, accepted,          \* the ratchet: its log and _accepted
  kernelFile,    \* receipts_dir/{target}.{candidate}.kernel.json
  auditFile,     \* receipts_dir/{target}.{candidate}.audit.json
  temp,          \* is there a temporary file the running process made?
  strays,        \* temporary files of processes that died
  pc, run,       \* the next call of run_target, and its local variables
  faults         \* failures so far

queue   == <<qfile, qstate, qcand>>
ratchet == <<rfile, accepted>>
files   == <<kernelFile, auditFile, temp, strays>>
vars    == <<alive, queue, ratchet, files, pc, run, faults>>

Q == INSTANCE TargetQueue WITH
       file <- qfile, up <- alive, state <- qstate, candidate <- qcand

(* Dependencies and re-verification are not run_target's business. *)
R == INSTANCE Ratchet WITH
       file <- rfile, up <- alive,
       marked <- [t \in Targets |-> {}], blocking <- [td \in {} |-> 0],
       Deps <- {}, NoArtifact <- NoFile, MembersOnly <- TRUE

(* What the gate can put on a receipt, as far as what follows can tell: the
   verdict, and whether every obligation was established.  A checker that
   gave no verdict established none. *)
Receipts ==
  {r \in [verdict : {"accepted", "rejected", "error"}, established : BOOLEAN] :
     r.verdict = "error" => ~r.established}

Runs == [target : Targets, candidate : Candidates,
         receipt : Receipts \cup {NoFile}, audit : {"pass", "fail", NoFile}]

ASSUME CandidatesAssumption == NoCandidate \notin Candidates
ASSUME OutcomesAssumption == Raises \subseteq Q!Outcomes /\ Crashes \subseteq Q!Outcomes
ASSUME BoundsAssumption == MaxEvents \in Nat /\ MaxFaults \in Nat
ASSUME NoFileAssumption == NoFile \notin Receipts \cup {"pass", "fail"}
ASSUME NoRunAssumption == NoRun \notin Runs

Writing == {"write receipt", "place receipt", "write audit", "place audit"}

Steps == {"enqueue", "start", "candidate", "check", "receipt", "requeue", "audit",
          "verdict", "requeue-audit", "ratchet"} \cup Writing

-------------------------------------------------------------------------------
(* A call of run_target *)

Init ==
  /\ Q!Init
  /\ R!Init
  /\ kernelFile = [tc \in Targets \X Candidates |-> NoFile]
  /\ auditFile = [tc \in Targets \X Candidates |-> NoFile]
  /\ temp = FALSE
  /\ strays = 0
  /\ pc = "idle"
  /\ run = NoRun

At(step) == alive /\ pc = step

(* Mutant: the local variables outlive the run. *)
Goto_Keeps(step) == pc' = step /\ UNCHANGED run

Goto(step) == pc' = step /\ run' = IF step = "idle" THEN NoRun ELSE run

(* Mutant: an exception out of a queue call is swallowed. *)
QueueCall_Swallowed(call, next) ==
  /\ call
  /\ Goto(IF alive' THEN next ELSE "idle")
  /\ accepted' = IF alive' THEN accepted ELSE R!Nobody
  /\ UNCHANGED <<rfile, files>>

(* A call that did not return ends the run, and in a dead process there is
   no ratchet either. *)
QueueCall(call, next) ==
  /\ call
  /\ Goto(IF faults' = faults THEN next ELSE "idle")
  /\ accepted' = IF alive' THEN accepted ELSE R!Nobody
  /\ UNCHANGED <<rfile, files>>

RatchetCall(call, next) ==
  /\ call
  /\ Goto(IF faults' = faults THEN next ELSE "idle")
  /\ qstate' = IF alive' THEN qstate ELSE Q!Blank
  /\ qcand' = IF alive' THEN qcand ELSE Q!Unbound
  /\ UNCHANGED <<qfile, files>>

(* An exception that is not about a log leaves everything as it was. *)
Refused == Goto("idle") /\ UNCHANGED <<alive, queue, ratchet, files, faults>>

(* Mutant: the temporary file is not removed on the way out. *)
Exception_Stray ==
  /\ faults < MaxFaults
  /\ faults' = faults + 1
  /\ Goto("idle")
  /\ UNCHANGED <<alive, queue, ratchet, files>>

(* Any other exception; atomic_write_json removes its temporary file. *)
Exception ==
  /\ faults < MaxFaults
  /\ faults' = faults + 1
  /\ temp' = FALSE
  /\ Goto("idle")
  /\ UNCHANGED <<alive, queue, ratchet, kernelFile, auditFile, strays>>

-------------------------------------------------------------------------------
(* atomic_write_json: a temporary file is written and synced, and then put in
   place of whatever has the final name. *)

WriteTemp(next) ==
  \/ /\ temp' = TRUE
     /\ Goto(next)
     /\ UNCHANGED <<alive, queue, ratchet, kernelFile, auditFile, strays, faults>>
  \/ Exception

Place(next) ==
  /\ temp' = FALSE
  /\ Goto(next)
  /\ UNCHANGED <<alive, queue, ratchet, strays, faults>>

-------------------------------------------------------------------------------
(* The body of run_target *)

(* Room for one whole run in the logs. *)
Begin(t, c) ==
  /\ At("idle")
  /\ <<t, c>> \in Attempts
  /\ Len(qfile.lines) + 7 <= MaxEvents
  /\ Len(rfile.lines) + 1 <= MaxEvents
  /\ pc' = IF qstate[t] = "absent" THEN "enqueue" ELSE "start"
  /\ run' = [target |-> t, candidate |-> c, receipt |-> NoFile, audit |-> NoFile]
  /\ UNCHANGED <<alive, queue, ratchet, files, faults>>

Enqueue == At("enqueue") /\ QueueCall(Q!Enqueue(run.target), "start")

(* start_attempt raises InvalidTransition on a target that is not queued. *)
StartAttempt ==
  /\ At("start")
  /\ \/ QueueCall(Q!StartAttempt(run.target), "candidate")
     \/ qstate[run.target] # "queued" /\ Refused

RecordCandidate ==
  At("candidate") /\ QueueCall(Q!RecordCandidate(run.target, run.candidate), "check")

Here == <<run.target, run.candidate>>

(* gate.check; a checker that fails is answered for with a verdict of its own,
   so what raises here is the gate itself. *)
Check ==
  /\ At("check")
  /\ \/ \E r \in Receipts :
          /\ run' = [run EXCEPT !.receipt = r]
          /\ pc' = "write receipt"
          /\ UNCHANGED <<alive, queue, ratchet, files, faults>>
     \/ Exception

(* write_receipt: what it validates it either writes whole or not at all. *)
WriteReceipt ==
  \/ At("write receipt") /\ WriteTemp("place receipt")
  \/ /\ At("place receipt")
     /\ \/ Place("receipt") /\ kernelFile' = [kernelFile EXCEPT ![Here] = run.receipt]
                            /\ UNCHANGED auditFile
        \/ Exception

Filed == [target |-> run.target, candidate |-> run.candidate,
          verdict |-> run.receipt.verdict]

RecordKernelReceipt ==
  /\ At("receipt")
  /\ QueueCall(Q!RecordKernelReceipt(run.target, Filed),
               IF run.receipt.verdict = "accepted" THEN "audit" ELSE "requeue")

(* Mutant: every receipt that is not accepted takes the rejected branch. *)
Requeue_AsRejected ==
  /\ At("requeue")
  /\ \/ QueueCall(Q!RequeueFromKernelRejected(run.target), "idle")
     \/ qstate[run.target] # "kernel-rejected" /\ Refused

(* The two branches; each call demands the state its branch tests. *)
Requeue ==
  /\ At("requeue")
  /\ QueueCall(\/ Q!RequeueFromCheckerError(run.target)
               \/ Q!RequeueFromKernelRejected(run.target),
               "idle")

(* Mutant: the audit is not shown the receipt. *)
RunAudit_Blind(receipt, clean) == IF clean THEN "pass" ELSE "fail"

(* The checks of the receipt's obligations and of the target's provenance;
   clean is what the latter make of a provenance the caller supplies. *)
RunAudit(receipt, clean) == IF receipt.established /\ clean THEN "pass" ELSE "fail"

Audit ==
  /\ At("audit")
  /\ \/ \E clean \in BOOLEAN :
          /\ run' = [run EXCEPT !.audit = RunAudit(run.receipt, clean)]
          /\ pc' = "write audit"
          /\ UNCHANGED <<alive, queue, ratchet, files, faults>>
     \/ Exception

WriteAudit ==
  \/ At("write audit") /\ WriteTemp("place audit")
  \/ /\ At("place audit")
     /\ \/ Place("verdict") /\ auditFile' = [auditFile EXCEPT ![Here] = run.audit]
                            /\ UNCHANGED kernelFile
        \/ Exception

Verdict == [target |-> run.target, candidate |-> run.candidate, verdict |-> run.audit]

RecordAudit ==
  /\ At("verdict")
  /\ QueueCall(Q!RecordAudit(run.target, Verdict),
               IF run.audit = "pass" THEN "ratchet" ELSE "requeue-audit")

RequeueAudit ==
  At("requeue-audit") /\ QueueCall(Q!RequeueFromAuditRejected(run.target), "idle")

Ratchet == At("ratchet") /\ RatchetCall(R!Accept(Filed, Verdict), "idle")

-------------------------------------------------------------------------------
(* Everything else *)

(* The caller, between runs: it enqueues targets, and settles by hand what an
   earlier run left unsettled. *)
Caller(t) ==
  /\ At("idle")
  /\ QueueCall(\/ Q!Enqueue(t)
               \/ Q!Decide(t)
               \/ \E abandon \in BOOLEAN : Q!RecordNoCandidate(t, abandon),
               "idle")

(* The process ends between two calls, or in the middle of writing a temporary
   file, which nobody removes then. *)
Die ==
  /\ alive
  /\ faults < MaxFaults
  /\ faults' = faults + 1
  /\ Q!Down
  /\ accepted' = R!Nobody
  /\ \E left \in IF pc \in {"write receipt", "write audit"} THEN BOOLEAN ELSE {temp} :
       strays' = IF left THEN strays + 1 ELSE strays
  /\ temp' = FALSE
  /\ Goto("idle")
  /\ UNCHANGED <<qfile, rfile, kernelFile, auditFile>>

(* A new process replays both logs. *)
Restart == Q!Replay /\ R!Replay /\ UNCHANGED <<files, pc, run>>

RunTarget ==
  \/ Enqueue \/ StartAttempt \/ RecordCandidate \/ Check \/ WriteReceipt
  \/ RecordKernelReceipt \/ Requeue \/ Audit \/ WriteAudit \/ RecordAudit \/ RequeueAudit \/ Ratchet

Next ==
  \/ \E t \in Targets, c \in Candidates : Begin(t, c)
  \/ RunTarget
  \/ \E t \in Targets : Caller(t)
  \/ Die
  \/ Restart

Spec == Init /\ [][Next]_vars

(* run_target has no loop and waits for nothing but the checker, which the
   gate runs under a timeout: a run that has begun takes its next call. *)
FairSpec == Spec /\ WF_vars(RunTarget)

-------------------------------------------------------------------------------
(* Properties *)

(* Every variable has its type, and local variables exist only in a run. *)
TypeOK ==
  /\ Q!TypeOK
  /\ rfile \in R!Files(R!Event)
  /\ accepted \in [Targets -> Candidates \cup {NoCandidate}]
  /\ kernelFile \in [Targets \X Candidates -> Receipts \cup {NoFile}]
  /\ auditFile \in [Targets \X Candidates -> {"pass", "fail", NoFile}]
  /\ temp \in BOOLEAN /\ strays \in Nat
  /\ \/ pc = "idle" /\ run = NoRun
     \/ pc \in Steps /\ run \in Runs

QueueReadable == Q!Readable(qfile)

RatchetReadable == R!Readable(rfile)

(* The ratchet is never ahead of the queue: what its log admits, the queue's
   log has accepted, for the candidate it is bound to and for good.  The two
   logs are written one after the other, with a crash possible in between and
   inside either. *)
RatchetFollowsQueue ==
  QueueReadable /\ RatchetReadable =>
    \A i \in DOMAIN rfile.lines :
      LET t == rfile.lines[i].target IN
      /\ Q!FoldState(qfile.lines)[t] = "accepted"
      /\ Q!FoldCandidates(qfile.lines)[t] = rfile.lines[i].candidate

(* "Every boundary crossed writes a schema-validated receipt/verdict to
   receipts_dir before the queue state that depends on it is advanced"
   (pipeline.py:101): every event of the queue's log that rests on an artifact
   has that artifact on disk, and although a retry under the same candidate id
   overwrites the file, the evidence of an acceptance is still there, accepted
   by the checker with every obligation established and passed by the audit. *)
EvidenceOnDisk ==
  QueueReadable =>
    \A k \in DOMAIN qfile.lines :
      LET e  == qfile.lines[k]
          tc == <<e.target, e.candidate>>
      IN /\ e.kind = "kernel_receipt" => kernelFile[tc] # NoFile
         /\ e.kind = "audit_verdict" => auditFile[tc] # NoFile
         /\ e.to = "accepted" =>
              /\ kernelFile[tc] = [verdict |-> "accepted", established |-> TRUE]
              /\ auditFile[tc] = "pass"

(* "Never leave a stray temp file behind on failure" (receipts.py:746): a live
   process has a temporary file only between writing it and putting it in place,
   whatever raised before, so those that stay were left by processes that died,
   one each at most. *)
OnlyTheDeadLeaveTemps ==
  /\ temp => alive /\ pc \in {"place receipt", "place audit"}
  /\ strays <= faults

Settled(t) ==
  \/ qstate[t] \in {"absent", "queued", "abandoned"}
  \/ qstate[t] = "accepted" /\ accepted[t] = qcand[t]

(* Targets no run is working on that a new run would not take, and that are
   not in the accepted set either. *)
Stranded == {t \in Targets : ~Settled(t) /\ (run # NoRun => run.target # t)}

(* One failure strands at most the one target whose run it ended: no target is
   ever left in mid-air by somebody else's failure, by a restart, or by a run
   that met no failure at all. *)
OneFailureOneTarget == alive => Cardinality(Stranded) <= faults

(* A run that got past start_attempt and ends without a failure leaves its
   target settled: back in the queue, or accepted and ratcheted together. *)
SettledOnReturn ==
  [][pc \notin {"idle", "enqueue", "start"} /\ pc' = "idle" /\ faults' = faults =>
       \/ qstate'[run.target] = "queued"
       \/ qstate'[run.target] = "accepted" /\ accepted'[run.target] = run.candidate]_vars

(* Every run ends, and one that met no failure leaves its target settled. *)
RunSettles == (pc # "idle" ~> pc = "idle") /\ SettledOnReturn

(* What ARCHITECTURE.md:68 and the example's table say of the final state,
   "accepted (ratcheted)": between runs, a target the queue has accepted is in
   the ratchet's set. *)
AcceptedMeansRatcheted ==
  At("idle") => \A t \in Targets : qstate[t] = "accepted" => accepted[t] # NoCandidate
===============================================================================
