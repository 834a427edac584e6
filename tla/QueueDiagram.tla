------------------------------ MODULE QueueDiagram ------------------------------
(***************************************************************************)
(* The diagram of ARCHITECTURE.md section 2, as queue.py refines it with a *)
(* checker-error state, with no log, no cache, no process and no failure:  *)
(* the stage each target is at and the candidate its evidence is about.    *)
(*                                                                         *)
(* One arrow is one step, and an arrow fires on one artifact.  The audit   *)
(* is the exception: from kernel-checked it may go the whole way, or rest  *)
(* in audited, which has no way out.                                       *)
(***************************************************************************)
CONSTANTS Targets, Candidates, NoCandidate

VARIABLES stage, bound

Init ==
  /\ stage = [t \in Targets |-> "absent"]
  /\ bound = [t \in Targets |-> NoCandidate]

(* The arrows that bind no candidate and rest on none. *)
Arrows ==
  {<<"absent", "queued">>,
   <<"queued", "attempting">>,
   <<"attempting", "queued">>,          <<"attempting", "abandoned">>,
   <<"kernel-rejected", "queued">>,     <<"kernel-rejected", "abandoned">>,
   <<"checker-error", "queued">>,       <<"checker-error", "abandoned">>,
   <<"audit-rejected", "queued">>,      <<"audit-rejected", "abandoned">>}

Rulings == {"kernel-checked", "kernel-rejected", "checker-error"}

Move(t) ==
  /\ \E to \in {a[2] : a \in {b \in Arrows : b[1] = stage[t]}} :
       stage' = [stage EXCEPT ![t] = to]
  /\ UNCHANGED bound

Propose(t) ==
  /\ stage[t] = "attempting"
  /\ stage' = [stage EXCEPT ![t] = "candidate-produced"]
  /\ \E c \in Candidates : bound' = [bound EXCEPT ![t] = c]

Judge(t) ==
  /\ stage[t] = "candidate-produced"
  /\ bound[t] \in Candidates
  /\ \E to \in Rulings : stage' = [stage EXCEPT ![t] = to]
  /\ UNCHANGED bound

Audit(t) ==
  /\ stage[t] = "kernel-checked"
  /\ bound[t] \in Candidates
  /\ \E to \in {"audited", "accepted", "audit-rejected"} :
       stage' = [stage EXCEPT ![t] = to]
  /\ UNCHANGED bound

Next == \E t \in Targets : Move(t) \/ Propose(t) \/ Judge(t) \/ Audit(t)

Spec == Init /\ [][Next]_<<stage, bound>>
===============================================================================
