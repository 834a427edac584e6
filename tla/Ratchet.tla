-------------------------------- MODULE Ratchet --------------------------------
(***************************************************************************)
(* The ratchet of ratchet.py: the monotone accepted set, the marks that    *)
(* say which accepted results are owed a re-verification after which       *)
(* dependency changed, and the blocking events a failed one raises.  All   *)
(* three are dictionaries in memory over an append-only event log.         *)
(*                                                                         *)
(* Every action is one public method; its appends may return, raise or be  *)
(* cut short by the death of the process, as in TargetQueue.               *)
(***************************************************************************)
EXTENDS EventLog, FiniteSets

CONSTANTS
  Targets,       \* target ids
  Candidates,    \* candidate ids
  Deps,          \* what results depend on
  NoCandidate,   \* stands for the absent key of _accepted
  NoArtifact,    \* stands for None: a re-verification that produced nothing
  Raises,        \* outcomes an append that raises may leave on disk
  Crashes,       \* outcomes an append that dies may leave on disk
  MembersOnly,   \* do callers report re-checks of accepted targets only?
  MaxEvents,     \* bound: lines in the log
  MaxFaults      \* bound: appends that do not return

ASSUME CandidatesAssumption == NoCandidate \notin Candidates
ASSUME OutcomesAssumption == Raises \subseteq Outcomes /\ Crashes \subseteq Outcomes
ASSUME MembersOnlyAssumption == MembersOnly \in BOOLEAN
ASSUME BoundsAssumption == MaxEvents \in Nat /\ MaxFaults \in Nat

VARIABLES
  file,          \* the log on disk
  up,            \* is there a Ratchet object in memory?
  accepted,      \* its _accepted: target -> candidate of the entry
  marked,        \* its _marked_for_recheck: target -> dependencies
  blocking,      \* its _blocking, as how many events per target and dependency
  faults         \* appends that did not return so far

vars == <<file, up, accepted, marked, blocking, faults>>

Receipts == [target : Targets, candidate : Candidates,
             verdict : {"accepted", "rejected", "error"}]

Audits == [target : Targets, candidate : Candidates, verdict : {"pass", "fail"}]

ASSUME ArtifactAssumption == NoArtifact \notin Receipts \cup Audits

Event == [type : {"accept", "remove", "recheck_marked", "recheck_confirmed",
                  "blocking_event"},
          target    : Targets,
          candidate : Candidates \cup {NoCandidate},
          dep       : Deps \cup {"none"}]

ASSUME TornAssumption == Torn \notin Event

Entry(type, t, c, d) == [type |-> type, target |-> t, candidate |-> c, dep |-> d]

-------------------------------------------------------------------------------
(* The fold *)

(* Mutant: the fold forgets that a blocking event ends membership. *)
Membership_NotBlocked == {"accept", "remove", "recheck_confirmed"}

Membership == {"accept", "remove", "recheck_confirmed", "blocking_event"}

MembershipOf(lines, t) ==
  {i \in DOMAIN lines : lines[i].target = t /\ lines[i].type \in Membership}

(* The last event about membership decides, and carries the candidate. *)
FoldAccepted(lines) ==
  [t \in Targets |->
     IF MembershipOf(lines, t) = {} THEN NoCandidate
     ELSE lines[LastOf(MembershipOf(lines, t))].candidate]

(* Mutant: the fold forgets that a new acceptance clears the marks. *)
Discharges_NotAccept(e, t, d) ==
  /\ e.target = t
  /\ \/ e.type \in {"remove", "blocking_event"}
     \/ e.type = "recheck_confirmed" /\ e.dep = d

(* Does event e take the mark of t for d away? *)
Discharges(e, t, d) ==
  /\ e.target = t
  /\ \/ e.type \in {"accept", "remove", "blocking_event"}
     \/ e.type = "recheck_confirmed" /\ e.dep = d

(* A mark stands until an event discharges it. *)
FoldMarked(lines) ==
  [t \in Targets |->
     {d \in Deps : \E i \in DOMAIN lines :
        /\ lines[i].type = "recheck_marked" /\ lines[i].target = t /\ lines[i].dep = d
        /\ \A j \in DOMAIN lines : j > i => ~Discharges(lines[j], t, d)}]

FoldBlocking(lines) ==
  [td \in Targets \X Deps |->
     Cardinality({i \in DOMAIN lines :
       lines[i].type = "blocking_event" /\ <<lines[i].target, lines[i].dep>> = td})]

-------------------------------------------------------------------------------
(* One append *)

Nobody   == [t \in Targets |-> NoCandidate]
Unmarked == [t \in Targets |-> {}]
Silence  == [td \in Targets \X Deps |-> 0]

Init ==
  /\ file = EmptyFile
  /\ up = TRUE
  /\ accepted = Nobody
  /\ marked = Unmarked
  /\ blocking = Silence
  /\ faults = 0

Room(n) == Len(file.lines) + n <= MaxEvents

Down == up' = FALSE /\ accepted' = Nobody /\ marked' = Unmarked /\ blocking' = Silence

(* The append of e to f does not return: either the caller hears of it, with
   marks m in memory and the rest as it was, or the process is gone. *)
Failed(f, m, e) ==
  /\ faults < MaxFaults
  /\ faults' = faults + 1
  /\ \/ /\ \E w \in Raises : file' = Interrupted(f, e, w)
        /\ marked' = m
        /\ UNCHANGED <<up, accepted, blocking>>
     \/ /\ \E w \in Crashes : file' = Interrupted(f, e, w)
        /\ Down

(* A method that appends e and then updates memory. *)
LogAppend(e, accepted2, marked2, blocking2) ==
  /\ up
  /\ Room(1)
  /\ \/ /\ file' = Written(file, e)
        /\ accepted' = accepted2 /\ marked' = marked2 /\ blocking' = blocking2
        /\ UNCHANGED <<up, faults>>
     \/ Failed(file, marked, e)

-------------------------------------------------------------------------------
(* The public methods *)

Justifies(r, a) == r.verdict = "accepted" /\ a.verdict = "pass"

SameArtifact(r, a) == r.target = a.target /\ r.candidate = a.candidate

Accept(r, a) ==
  /\ SameArtifact(r, a)
  /\ Justifies(r, a)
  /\ LogAppend(Entry("accept", r.target, r.candidate, "none"),
               [accepted EXCEPT ![r.target] = r.candidate],
               [marked EXCEPT ![r.target] = {}],
               blocking)

(* remove leaves _marked_for_recheck alone; the fold of its event does not. *)
Remove(t) ==
  /\ accepted[t] # NoCandidate
  /\ LogAppend(Entry("remove", t, NoCandidate, "none"),
               [accepted EXCEPT ![t] = NoCandidate], marked, blocking)

(* Mutant: the dependency written where the candidate goes. *)
Mark_Swapped(t, d) == Entry("recheck_marked", t, d, NoCandidate)

Mark(t, d) == Entry("recheck_marked", t, NoCandidate, d)

MarkedFor(m, S, d) == [t \in Targets |-> IF t \in S THEN m[t] \cup {d} ELSE m[t]]

(* Every way to go through a set of dependents once. *)
Orders(S) == {o \in [1..Cardinality(S) -> S] : \A i, j \in DOMAIN o : o[i] = o[j] => i = j}

(* Mutant: every dependent is marked, accepted or not. *)
Markable_All(dependents) == dependents

Markable(dependents) == {t \in dependents : accepted[t] # NoCandidate}

(* One append per accepted dependent, in the order of the caller's iterable;
   append number n may be the one that does not return. *)
RecheckDependents(d, dependents) ==
  LET members == Markable(dependents) IN
  /\ up
  /\ members # {}
  /\ Room(Cardinality(members))
  /\ \E o \in Orders(members) :
       \/ /\ file' = WrittenAll(file, [i \in DOMAIN o |-> Mark(o[i], d)])
          /\ marked' = MarkedFor(marked, members, d)
          /\ UNCHANGED <<up, accepted, blocking, faults>>
       \/ \E n \in DOMAIN o :
            Failed(WrittenAll(file, [i \in 1..(n - 1) |-> Mark(o[i], d)]),
                   MarkedFor(marked, {o[i] : i \in 1..(n - 1)}, d),
                   Mark(o[n], d))

(* Both present: they must be about one artifact, and about t.  With one of
   them missing neither is looked at. *)
Comparable(t, r, a) ==
  r # NoArtifact /\ a # NoArtifact => SameArtifact(r, a) /\ r.target = t

Holds(r, a) == r # NoArtifact /\ a # NoArtifact /\ Justifies(r, a)

(* Mutant: any outstanding mark will do. *)
Owed_Any(t, d) == marked[t] # {}

(* The guard asks for a mark, never for membership. *)
Owed(t, d) == d \in marked[t]

(* Mutant: the first confirmation clears every mark. *)
Confirmed_All(m, t, d) == [m EXCEPT ![t] = {}]

Confirmed(m, t, d) == [m EXCEPT ![t] = @ \ {d}]

RecordRecheckResult(t, d, r, a) ==
  /\ Owed(t, d)
  /\ MembersOnly => accepted[t] # NoCandidate
  /\ Comparable(t, r, a)
  /\ \/ /\ Holds(r, a)
        /\ LogAppend(Entry("recheck_confirmed", t, r.candidate, d),
                     [accepted EXCEPT ![t] = r.candidate],
                     Confirmed(marked, t, d),
                     blocking)
     \/ /\ ~Holds(r, a)
        /\ LogAppend(Entry("blocking_event", t, NoCandidate, d),
                     [accepted EXCEPT ![t] = NoCandidate],
                     [marked EXCEPT ![t] = {}],
                     [blocking EXCEPT ![<<t, d>>] = @ + 1])

(* The process ends between two calls. *)
Stop == up /\ Down /\ UNCHANGED <<file, faults>>

(* The constructor on an existing log. *)
Replay ==
  /\ ~up
  /\ Readable(file)
  /\ up' = TRUE
  /\ accepted' = FoldAccepted(file.lines)
  /\ marked' = FoldMarked(file.lines)
  /\ blocking' = FoldBlocking(file.lines)
  /\ UNCHANGED <<file, faults>>

Next ==
  \/ \E r \in Receipts, a \in Audits : Accept(r, a)
  \/ \E t \in Targets : Remove(t)
  \/ \E d \in Deps, dependents \in SUBSET Targets : RecheckDependents(d, dependents)
  \/ \E t \in Targets, d \in Deps, r \in Receipts \cup {NoArtifact}, a \in Audits \cup {NoArtifact} :
       RecordRecheckResult(t, d, r, a)
  \/ Stop
  \/ Replay

Spec == Init /\ [][Next]_vars

-------------------------------------------------------------------------------
(* Properties *)

(* Every variable has its type. *)
TypeOK ==
  /\ file \in Files(Event)
  /\ up \in BOOLEAN
  /\ accepted \in [Targets -> Candidates \cup {NoCandidate}]
  /\ marked \in [Targets -> SUBSET Deps]
  /\ blocking \in [Targets \X Deps -> Nat]
  /\ faults \in 0..MaxFaults

(* What a restart gives back of the accepted set and the blocking events is
   what the process had, "both derived by folding" the log (ratchet.py:20),
   however the process died. *)
AcceptedIsFold ==
  up /\ Readable(file) =>
    accepted = FoldAccepted(file.lines) /\ blocking = FoldBlocking(file.lines)

(* No owed re-verification is forgotten: a mark no later event of the log
   discharges is in memory, so a target marked for two dependencies stays
   marked for the second when the first is confirmed, and a restart in the
   middle of recheck_dependents loses none that was logged. *)
OwedIsRemembered ==
  up /\ Readable(file) =>
    \A t \in Targets : FoldMarked(file.lines)[t] \subseteq marked[t]

(* A re-verification answers a mark, and only members are marked: in any log
   that can be read, every outcome recorded for t and d comes after a mark of
   t for d, which comes after an admission of t.  A target "never accepted, or
   never marked by recheck_dependents, has no re-verification to record"
   (ratchet.py:294), across restarts and appends that raised. *)
RechecksAnswerMarks ==
  Readable(file) =>
    \A k \in DOMAIN file.lines :
      file.lines[k].type \in {"recheck_confirmed", "blocking_event"} =>
        \E i, j \in DOMAIN file.lines :
          /\ i < j /\ j < k
          /\ file.lines[i].type \in {"accept", "recheck_confirmed"}
          /\ file.lines[i].target = file.lines[k].target
          /\ file.lines[j] = Mark(file.lines[k].target, file.lines[k].dep)

(* While callers report re-checks of accepted targets only, an accepted
   target owes exactly what the log says it owes. *)
MarkedIsFoldForMembers ==
  MembersOnly /\ up /\ Readable(file) =>
    \A t \in Targets :
      accepted[t] # NoCandidate => marked[t] = FoldMarked(file.lines)[t]

(* What the module docstring says of record_recheck_result, "it can refresh
   an entry, never create one" (ratchet.py:19): a target that is not in the
   set enters it through accept and nothing else. *)
OnlyAcceptAdmits ==
  [][\A t \in Targets :
       /\ up /\ up' /\ Readable(file')
       /\ accepted[t] = NoCandidate /\ accepted'[t] # NoCandidate
       => file'.lines[Len(file'.lines)].type = "accept"]_vars

(* The ratchet implements the monotone set.  Membership and debts are read off
   the log, so a restart is a stutter; a line cut short ends it. *)
Promise == INSTANCE MonotoneSet WITH
             member <- FoldAccepted(Whole(file.lines)), owed <- FoldMarked(Whole(file.lines))
ImplementsMonotoneSet == Promise!Spec
===============================================================================
