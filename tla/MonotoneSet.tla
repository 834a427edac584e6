------------------------------ MODULE MonotoneSet ------------------------------
(***************************************************************************)
(* What ARCHITECTURE.md section 6 promises of the ratchet, as ratchet.py   *)
(* fixes the details: a set that grows by admission only, shrinks only by  *)
(* an explicit removal or a failed re-verification, and remembers for each *)
(* member which changed dependencies it still owes a re-verification for.  *)
(* There is no log, no cache and no failure here.                          *)
(***************************************************************************)
CONSTANTS Targets, Candidates, Deps, NoCandidate

VARIABLES member, owed

Init ==
  /\ member = [t \in Targets |-> NoCandidate]
  /\ owed = [t \in Targets |-> {}]

Members == {t \in Targets : member[t] # NoCandidate}

Admit(t) ==
  /\ \E c \in Candidates : member' = [member EXCEPT ![t] = c]
  /\ owed' = [owed EXCEPT ![t] = {}]

(* A removal, or a failed re-verification of a member that owed one. *)
Expel(t) ==
  /\ t \in Members
  /\ member' = [member EXCEPT ![t] = NoCandidate]
  /\ owed' = [owed EXCEPT ![t] = {}]

(* Only members can be marked; marking expels nobody. *)
Change(d, S) ==
  /\ S \subseteq Members
  /\ owed' = [t \in Targets |-> IF t \in S THEN owed[t] \cup {d} ELSE owed[t]]
  /\ UNCHANGED member

(* A re-verification discharges its own dependency and keeps a member a
   member. *)
Refresh(t, d) ==
  /\ t \in Members
  /\ d \in owed[t]
  /\ \E c \in Candidates : member' = [member EXCEPT ![t] = c]
  /\ owed' = [owed EXCEPT ![t] = @ \ {d}]

Next ==
  \/ \E t \in Targets : Admit(t) \/ Expel(t)
  \/ \E d \in Deps, S \in SUBSET Targets : Change(d, S)
  \/ \E t \in Targets, d \in Deps : Refresh(t, d)

Spec == Init /\ [][Next]_<<member, owed>>
===============================================================================
