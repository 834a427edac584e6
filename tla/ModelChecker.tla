------------------------------ MODULE ModelChecker ------------------------------
(***************************************************************************)
(* The bounded model checker of model_checker.py: a breadth-first search   *)
(* of at most bound states of a transition system, and the reduction of    *)
(* what it saw to one status per obligation.                               *)
(*                                                                         *)
(* The search is a state machine, one iteration of a loop per step, over   *)
(* any system; the code's visited set and its list of visited states grow  *)
(* together, so the list stands for both.                                  *)
(***************************************************************************)
EXTENDS Naturals, Sequences, FiniteSets, Functions

CONSTANTS
  State,         \* states of the systems
  Systems,       \* the systems a search may be given
  Bounds         \* the bounds it may be given

(* A system: its initial states without repetition, as dict.fromkeys leaves
   them, and the list of successors of each state. *)
ASSUME SystemsAssumption ==
  \A y \in Systems :
    /\ y.initial \in Seq(State)
    /\ \A i, j \in DOMAIN y.initial : y.initial[i] = y.initial[j] => i = j
    /\ y.successors \in [State -> Seq(State)]

(* explore refuses a bound below 1. *)
ASSUME BoundsAssumption == Bounds \subseteq Nat \ {0}

VARIABLES
  system, bound, \* the arguments of explore
  frontier,      \* states found and not yet looked at, oldest first
  order,         \* states visited, in the order of their visit
  pending,       \* successors of the last of them still to be looked at
  outcome        \* "searching", or what explore returned as exhaustive

exploreVars == <<system, bound, frontier, order, pending, outcome>>

Visited == Range(order)

Init ==
  /\ system \in Systems
  /\ bound \in Bounds
  /\ frontier = system.initial
  /\ order = <<>>
  /\ pending = <<>>
  /\ outcome = "searching"

(* The head of the loop: a state of the frontier is looked at. *)
Looking ==
  /\ outcome = "searching"
  /\ pending = <<>>
  /\ UNCHANGED <<system, bound>>

(* Mutant: what is left of the frontier does not count when the bound is met. *)
Truncate_Quiet ==
  /\ Looking
  /\ frontier # <<>>
  /\ Len(order) >= bound
  /\ outcome' = "exhaustive"
  /\ UNCHANGED <<frontier, order, pending>>

Truncate ==
  /\ Looking
  /\ frontier # <<>>
  /\ Len(order) >= bound
  /\ outcome' = "truncated"
  /\ UNCHANGED <<frontier, order, pending>>

Skip ==
  /\ Looking
  /\ frontier # <<>>
  /\ Len(order) < bound
  /\ Head(frontier) \in Visited
  /\ frontier' = Tail(frontier)
  /\ UNCHANGED <<order, pending, outcome>>

(* Mutant: the state visited is not remembered. *)
Visit_Forgotten ==
  /\ Looking
  /\ frontier # <<>>
  /\ Len(order) < bound
  /\ Head(frontier) \notin Visited
  /\ frontier' = Tail(frontier)
  /\ pending' = system.successors[Head(frontier)]
  /\ UNCHANGED <<order, outcome>>

Visit ==
  /\ Looking
  /\ frontier # <<>>
  /\ Len(order) < bound
  /\ Head(frontier) \notin Visited
  /\ order' = Append(order, Head(frontier))
  /\ frontier' = Tail(frontier)
  /\ pending' = system.successors[Head(frontier)]
  /\ UNCHANGED outcome

(* Mutant: the list of successors is appended as if it were one of them. *)
Enqueued_AsOne(n) == Append(frontier, pending)

(* Mutant: a new state is looked at first. *)
Enqueued_First(n) == <<n>> \o frontier

Enqueued(n) == Append(frontier, n)

(* The next successor of the state just visited. *)
Expand ==
  /\ outcome = "searching"
  /\ pending # <<>>
  /\ pending' = Tail(pending)
  /\ \/ /\ Head(pending) \in Visited
        /\ UNCHANGED frontier
     \/ /\ Head(pending) \notin Visited
        /\ frontier' = Enqueued(Head(pending))
  /\ UNCHANGED <<system, bound, order, outcome>>

Exhaust ==
  /\ Looking
  /\ frontier = <<>>
  /\ outcome' = "exhaustive"
  /\ UNCHANGED <<frontier, order, pending>>

Explore == Truncate \/ Skip \/ Visit \/ Expand \/ Exhaust

Spec == Init /\ [][Explore]_exploreVars

-------------------------------------------------------------------------------
(* The reduction.  A predicate is the set of states it holds of; an obligation
   has a precondition and a property, and Unconditional for the precondition it
   may lack. *)

CONSTANT Unconditional

ASSUME UnconditionalAssumption == \A p \in SUBSET State : p # Unconditional

Applicable(o) == IF o.precondition = Unconditional THEN Visited ELSE Visited \cap o.precondition

(* Mutant: a precondition that held nowhere is vacuous whatever was searched. *)
Unseen_Vacuous(how) == "vacuous"

Unseen(how) == IF how = "exhaustive" THEN "vacuous" ELSE "not-exercised"

(* check_obligations *)
Status(o) ==
  CASE Applicable(o) = {}                                       -> Unseen(outcome)
    [] Applicable(o) # {} /\ ~(Applicable(o) \subseteq o.property) -> "failed"
    [] OTHER                                                    -> "held"

(* hypothesis_coverage: how the visited states split over the precondition. *)
Coverage(o) ==
  IF o.precondition = Unconditional
    THEN [conditional |-> FALSE, satisfying |-> 0, violating |-> 0]
    ELSE [conditional |-> TRUE,
          satisfying  |-> Cardinality(Visited \cap o.precondition),
          violating   |-> Cardinality(Visited \ o.precondition)]

-------------------------------------------------------------------------------
(* Properties of the search *)

(* The variables of the search have their types. *)
SearchTypeOK ==
  /\ system \in Systems
  /\ bound \in Bounds
  /\ frontier \in Seq(State)
  /\ order \in Seq(State)
  /\ pending \in Seq(State)
  /\ outcome \in {"searching", "exhaustive", "truncated"}

Closed(S) ==
  /\ Range(system.initial) \subseteq S
  /\ \A s \in S : Range(system.successors[s]) \subseteq S

(* What is reachable, by definition: in every closed set. *)
Reachable == {s \in State : \A S \in SUBSET State : Closed(S) => s \in S}

(* "`exhaustive` flag is True iff BFS ran to a fixed point ... i.e. the
   returned `visited_order` really is the system's complete reachable set"
   (model_checker.py:137): an exhaustive search saw what is reachable and
   nothing else, and a truncated one saw as many distinct reachable states as
   its bound allowed. *)
ExhaustiveIsReachable ==
  /\ Visited \subseteq Reachable
  /\ outcome = "exhaustive" => Visited = Reachable
  /\ outcome = "truncated" => Len(order) = bound /\ Cardinality(Visited) = bound

(* Reachable in at most n steps. *)
Layer ==
  LET layer[n \in Nat] ==
        IF n = 0 THEN Range(system.initial)
        ELSE layer[n - 1] \cup UNION {Range(system.successors[s]) : s \in layer[n - 1]}
  IN layer

(* "every state actually visited, in BFS discovery order" (model_checker.py:116):
   no state is visited before one that is nearer, so what a bound cuts off is
   never nearer than what it kept. *)
BreadthFirst ==
  \A n \in 0..Cardinality(State) :
    /\ \A j \in DOMAIN order : order[j] \in Layer[n] => \A i \in 1..j : order[i] \in Layer[n]
    /\ outcome = "truncated" /\ Visited \ Layer[n] # {} => Layer[n] \subseteq Visited

Waiting == 2 * Len(pending) + Len(frontier)

(* The search of any system ends, cyclic, infinite or with states that wait in the
   frontier many times over ("visiting at most `bound` distinct states",
   model_checker.py:132): every step returns, or visits one more state within the
   bound, or has less left to look at before the next visit. *)
SearchAdvances ==
  [][\/ outcome' # "searching"
     \/ Len(order') = Len(order) + 1 /\ Len(order') <= bound
     \/ order' = order /\ Waiting' < Waiting]_exploreVars

===============================================================================
