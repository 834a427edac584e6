--------------------------- MODULE ModelCheckerProofs ---------------------------
(***************************************************************************)
(* The search of ModelChecker is right for every system, finite or not, and *)
(* every bound: what it calls exhaustive is what is reachable, it ends, and *)
(* it visits what is nearest first.                                        *)
(*                                                                         *)
(* The first invariant says where the reachable states can be.  The        *)
(* initial states and the successors of the visited ones are visited, in   *)
(* the frontier or pending, and all those are reachable; so when nothing   *)
(* is in the frontier or pending, the visited states are closed under the  *)
(* system and Reachable, the least closed set, is neither more nor less.   *)
(*                                                                         *)
(* The second one orders them: a state of some layer comes before any that *)
(* is further, among the visited states and in the frontier behind them.   *)
(***************************************************************************)
EXTENDS ModelChecker, TLAPS, SequenceTheorems, FunctionTheorems, FiniteSetTheorems

(* The states found. *)
Found == Visited \cup Range(frontier) \cup Range(pending)

(* Nothing reachable is lost: what a found state leads to is found, the
   successors of the one being visited apart from those still pending. *)
NothingLost ==
  /\ Range(system.initial) \subseteq Found
  /\ \A s \in Visited : Range(system.successors[s]) \subseteq Found

(* Nothing else is found. *)
NothingStray == Found \subseteq Reachable

(* A state is visited once. *)
VisitedOnce == \A i, j \in DOMAIN order : order[i] = order[j] => i = j

(* The bound is kept, and met by a search it cut short. *)
WithinBound ==
  /\ Len(order) <= bound
  /\ outcome = "truncated" => Len(order) = bound

(* A search that calls itself exhaustive has nothing left to look at. *)
NothingLeft == outcome = "exhaustive" => frontier = <<>> /\ pending = <<>>

SearchInv ==
  /\ SearchTypeOK
  /\ NothingLost
  /\ NothingStray
  /\ VisitedOnce
  /\ WithinBound
  /\ NothingLeft

-------------------------------------------------------------------------------
(* Lists *)

(* The elements of a list with one more, and of a list without its first. *)
LEMMA Elements ==
  ASSUME NEW q \in Seq(State)
  PROVE  /\ Range(q) \subseteq State
         /\ \A x \in State : /\ Append(q, x) \in Seq(State)
                             /\ Range(Append(q, x)) = Range(q) \cup {x}
         /\ q # <<>> => /\ Head(q) \in State
                        /\ Tail(q) \in Seq(State)
                        /\ Range(q) = {Head(q)} \cup Range(Tail(q))
         /\ q = <<>> => Range(q) = {}
<1>1. /\ Len(q) \in Nat /\ DOMAIN q = 1..Len(q) /\ \A i \in 1..Len(q) : q[i] \in State
  BY LenProperties, ElementOfSeq
<1>2. Range(q) = {q[i] : i \in 1..Len(q)}
  BY <1>1 DEF Range
<1>3. ASSUME NEW x \in State
      PROVE  /\ Append(q, x) \in Seq(State)
             /\ Range(Append(q, x)) = Range(q) \cup {x}
  <2>1. /\ Append(q, x) \in Seq(State)
        /\ Len(Append(q, x)) = Len(q) + 1
        /\ \A i \in 1..Len(q) : Append(q, x)[i] = q[i]
        /\ Append(q, x)[Len(q) + 1] = x
        /\ DOMAIN Append(q, x) = 1..(Len(q) + 1)
    BY AppendProperties, LenProperties
  <2>2. 1..(Len(q) + 1) = 1..Len(q) \cup {Len(q) + 1}
    BY <1>1
  <2>3. QED  BY <1>1, <1>2, <2>1, <2>2 DEF Range
<1>4. ASSUME q # <<>>
      PROVE  /\ Head(q) \in State /\ Tail(q) \in Seq(State)
             /\ Range(q) = {Head(q)} \cup Range(Tail(q))
  <2>1. /\ Tail(q) \in Seq(State)
        /\ Len(Tail(q)) = Len(q) - 1
        /\ \A i \in 1..Len(Tail(q)) : Tail(q)[i] = q[i + 1]
        /\ Head(q) = q[1]
        /\ Len(q) # 0
        /\ Head(q) \in State
    BY <1>4, HeadTailProperties, EmptySeq, LenProperties
  <2>2. Range(Tail(q)) = {q[i + 1] : i \in 1..(Len(q) - 1)}
    BY <1>1, <2>1, LenProperties DEF Range
  <2>3. \A i \in 1..Len(q) : i = 1 \/ (i - 1 \in 1..(Len(q) - 1) /\ q[i] = q[(i - 1) + 1])
    BY <1>1
  <2>4. 1 \in 1..Len(q) /\ \A i \in 1..(Len(q) - 1) : i + 1 \in 1..Len(q)
    BY <1>1, <2>1
  <2>5. Range(q) \subseteq {Head(q)} \cup Range(Tail(q))
    <3>1. ASSUME NEW i \in 1..Len(q) PROVE q[i] \in {q[1]} \cup Range(Tail(q))
      <4>1. CASE i = 1  BY <4>1
      <4>2. CASE i - 1 \in 1..(Len(q) - 1) /\ q[i] = q[(i - 1) + 1]  BY <4>2, <2>2
      <4>3. QED  BY <2>3, <4>1, <4>2
    <3>2. QED  BY <1>2, <2>1, <3>1
  <2>6. {Head(q)} \cup Range(Tail(q)) \subseteq Range(q)
    BY <1>2, <2>1, <2>2, <2>4
  <2>7. QED  BY <2>1, <2>5, <2>6
<1>5. QED  BY <1>1, <1>2, <1>3, <1>4, EmptySeq

(* Systems are systems. *)
LEMMA SystemTypes ==
  ASSUME SearchTypeOK
  PROVE  /\ system.initial \in Seq(State)
         /\ \A s \in State : system.successors[s] \in Seq(State)
         /\ bound \in Nat /\ bound >= 1
BY SystemsAssumption, BoundsAssumption DEF SearchTypeOK

(* What is reachable contains the initial states and is closed. *)
LEMMA ReachableClosed ==
  ASSUME SearchTypeOK
  PROVE  Closed(Reachable)
<1>1. Range(system.initial) \subseteq State
  BY SystemTypes, Elements
<1>2. \A s \in State : Range(system.successors[s]) \subseteq State
  BY SystemTypes, Elements
<1>3. QED  BY <1>1, <1>2 DEF Reachable, Closed

-------------------------------------------------------------------------------

(* No state has been found before the initial ones. *)
LEMMA SearchInit == Init => SearchInv
<1> SUFFICES ASSUME Init PROVE SearchInv  OBVIOUS
<1>1. SearchTypeOK
  BY SystemsAssumption DEF Init, SearchTypeOK
<1>2. /\ Range(order) = {} /\ Range(pending) = {} /\ Found = Range(system.initial)
  BY <1>1, Elements DEF Init, Found, Visited, SearchTypeOK
<1>3. NothingLost  BY <1>2 DEF NothingLost, Visited
<1>4. NothingStray  BY <1>1, <1>2, ReachableClosed DEF NothingStray, Closed
<1>5. DOMAIN order = {} /\ Len(order) = 0  BY DEF Init
<1>6. VisitedOnce  BY <1>5 DEF VisitedOnce
<1>7. WithinBound  BY <1>1, <1>5, SystemTypes DEF WithinBound, Init
<1>8. NothingLeft  BY DEF NothingLeft, Init
<1>9. QED  BY <1>1, <1>3, <1>4, <1>6, <1>7, <1>8 DEF SearchInv

(* Every iteration of explore's loop keeps the invariant. *)
LEMMA SearchStep == SearchInv /\ [Explore]_exploreVars => SearchInv'
<1> SUFFICES ASSUME SearchInv, [Explore]_exploreVars PROVE SearchInv'  OBVIOUS
<1> USE DEF SearchInv
<1>0. /\ SearchTypeOK
      /\ frontier \in Seq(State) /\ order \in Seq(State) /\ pending \in Seq(State)
      /\ Len(order) \in Nat
  BY LenProperties DEF SearchTypeOK
<1>1. CASE Truncate
  <2>1. SearchTypeOK' /\ Found' = Found /\ Visited' = Visited
    BY <1>1 DEF Truncate, Looking, SearchTypeOK, Found, Visited
  <2>2. NothingLost'  BY <1>1, <2>1 DEF Truncate, Looking, NothingLost
  <2>3. NothingStray'  BY <1>1, <2>1 DEF Truncate, Looking, NothingStray, Reachable, Closed
  <2>4. VisitedOnce'  BY <1>1 DEF Truncate, VisitedOnce
  <2>5. WithinBound'
    BY <1>0, <1>1, SystemTypes DEF Truncate, Looking, WithinBound
  <2>6. NothingLeft'  BY <1>1 DEF Truncate, NothingLeft
  <2>7. QED  BY <2>1, <2>2, <2>3, <2>4, <2>5, <2>6
<1>2. CASE Skip
  <2>1. SearchTypeOK' /\ Found' = Found /\ Visited' = Visited
    BY <1>0, <1>2, Elements DEF Skip, Looking, SearchTypeOK, Found, Visited
  <2>2. NothingLost'  BY <1>2, <2>1 DEF Skip, Looking, NothingLost
  <2>3. NothingStray'  BY <1>2, <2>1 DEF Skip, Looking, NothingStray, Reachable, Closed
  <2>4. VisitedOnce'  BY <1>2 DEF Skip, VisitedOnce
  <2>5. WithinBound'  BY <1>2 DEF Skip, Looking, WithinBound
  <2>6. NothingLeft'  BY <1>2 DEF Skip, Looking, NothingLeft
  <2>7. QED  BY <2>1, <2>2, <2>3, <2>4, <2>5, <2>6
<1>3. CASE Visit
  <2> DEFINE s == Head(frontier)
  <2>1. /\ s \in State /\ s \notin Visited
        /\ system' = system /\ bound' = bound /\ outcome' = outcome
        /\ pending = <<>> /\ frontier # <<>> /\ Len(order) < bound
        /\ order' = Append(order, s) /\ frontier' = Tail(frontier)
        /\ pending' = system.successors[s]
    BY <1>0, <1>3, Elements DEF Visit, Looking
  <2> HIDE DEF s
  <2>2. pending' \in Seq(State) /\ frontier' \in Seq(State) /\ order' \in Seq(State)
    BY <1>0, <1>3, <2>1, SystemTypes, Elements DEF s
  <2>3. SearchTypeOK'  BY <2>1, <2>2 DEF SearchTypeOK
  <2>4. /\ Visited' = Visited \cup {s}
        /\ Range(frontier) = {s} \cup Range(frontier')
        /\ Range(pending) = {}
    BY <1>0, <2>1, Elements DEF Visited, s
  <2>5. Found' = Found \cup Range(system.successors[s])
    BY <2>1, <2>4 DEF Found
  <2>6. NothingLost'  BY <2>1, <2>4, <2>5 DEF NothingLost
  <2>7. s \in Reachable  BY <2>4 DEF Found, NothingStray
  <2>8. NothingStray'
    <3>1. Reachable' = Reachable  BY <2>1 DEF Reachable, Closed
    <3>2. Found' \subseteq Reachable
      BY <1>0, <2>5, <2>7, ReachableClosed DEF NothingStray, Closed
    <3>3. QED  BY <3>1, <3>2 DEF NothingStray
  <2>9. VisitedOnce'
    <3>1. /\ DOMAIN order = 1..Len(order) /\ DOMAIN order' = 1..(Len(order) + 1)
          /\ order'[Len(order) + 1] = s
          /\ \A i \in 1..Len(order) : order'[i] = order[i]
      BY <1>0, <2>1, AppendProperties, LenProperties
    <3>2. \A i \in 1..Len(order) : order[i] # s
      BY <2>1, <3>1 DEF Visited, Range
    <3>3. \A i \in 1..(Len(order) + 1) : i \in 1..Len(order) \/ i = Len(order) + 1
      BY <1>0
    <3>4. QED  BY <3>1, <3>2, <3>3 DEF VisitedOnce
  <2>10. WithinBound'
    <3>1. Len(order') = Len(order) + 1  BY <1>0, <2>1, AppendProperties
    <3>2. outcome = "searching"  BY <1>3 DEF Visit, Looking
    <3>3. QED  BY <1>0, <2>1, <3>1, <3>2, SystemTypes DEF WithinBound
  <2>11. NothingLeft'  BY <1>3 DEF Visit, Looking, NothingLeft
  <2>12. QED  BY <2>3, <2>6, <2>8, <2>9, <2>10, <2>11
<1>4. CASE Expand
  <2> DEFINE n == Head(pending)
  <2>1. /\ n \in State
        /\ system' = system /\ bound' = bound /\ outcome' = outcome /\ order' = order
        /\ pending' = Tail(pending) /\ pending' \in Seq(State)
        /\ Range(pending) = {n} \cup Range(pending')
    BY <1>0, <1>4, Elements DEF Expand
  <2>2. /\ frontier' \in Seq(State)
        /\ \/ n \in Visited /\ frontier' = frontier
           \/ Range(frontier') = Range(frontier) \cup {n}
    <3>1. CASE n \in Visited
      BY <1>0, <1>4, <3>1 DEF Expand
    <3>2. CASE n \notin Visited
      <4>1. frontier' = Append(frontier, n)  BY <1>4, <3>2 DEF Expand, Enqueued
      <4>2. QED  BY <1>0, <2>1, <4>1, Elements
    <3>3. QED  BY <3>1, <3>2
  <2> HIDE DEF n
  <2>3. SearchTypeOK'  BY <2>1, <2>2 DEF SearchTypeOK
  <2>4. Visited' = Visited /\ Found' = Found
    BY <2>1, <2>2 DEF Visited, Found
  <2>5. NothingLost'  BY <2>1, <2>4 DEF NothingLost
  <2>6. NothingStray'  BY <2>1, <2>4 DEF NothingStray, Reachable, Closed
  <2>7. VisitedOnce'  BY <2>1 DEF VisitedOnce
  <2>8. WithinBound'  BY <2>1 DEF WithinBound
  <2>9. NothingLeft'  BY <1>4 DEF Expand, NothingLeft
  <2>10. QED  BY <2>3, <2>5, <2>6, <2>7, <2>8, <2>9
<1>5. CASE Exhaust
  <2>1. SearchTypeOK' /\ Found' = Found /\ Visited' = Visited
    BY <1>5 DEF Exhaust, Looking, SearchTypeOK, Found, Visited
  <2>2. NothingLost'  BY <1>5, <2>1 DEF Exhaust, Looking, NothingLost
  <2>3. NothingStray'  BY <1>5, <2>1 DEF Exhaust, Looking, NothingStray, Reachable, Closed
  <2>4. VisitedOnce'  BY <1>5 DEF Exhaust, VisitedOnce
  <2>5. WithinBound'  BY <1>5 DEF Exhaust, Looking, WithinBound
  <2>6. NothingLeft'  BY <1>5 DEF Exhaust, Looking, NothingLeft
  <2>7. QED  BY <2>1, <2>2, <2>3, <2>4, <2>5, <2>6
<1>6. CASE UNCHANGED exploreVars
  <2> USE <1>6 DEF exploreVars
  <2>1. SearchTypeOK' /\ Found' = Found /\ Visited' = Visited
    BY DEF SearchTypeOK, Found, Visited
  <2>2. NothingLost'  BY <2>1 DEF NothingLost
  <2>3. NothingStray'  BY <2>1 DEF NothingStray, Reachable, Closed
  <2>4. VisitedOnce' /\ WithinBound' /\ NothingLeft'
    BY DEF VisitedOnce, WithinBound, NothingLeft
  <2>5. QED  BY <2>1, <2>2, <2>3, <2>4
<1>7. QED  BY <1>1, <1>2, <1>3, <1>4, <1>5, <1>6 DEF Explore

(* A list without repetition has as many elements as places. *)
LEMMA DistinctCount ==
  ASSUME SearchTypeOK, VisitedOnce
  PROVE  Cardinality(Visited) = Len(order)
<1>1. Len(order) \in Nat /\ DOMAIN order = 1..Len(order) /\ order \in [1..Len(order) -> State]
  BY LenProperties DEF SearchTypeOK
<1>2. order \in [1..Len(order) -> Visited]  BY <1>1 DEF Visited, Range
<1>3. order \in Surjection(1..Len(order), Visited)
  BY <1>1, <1>2 DEF Surjection, Visited, Range
<1>4. order \in Injection(1..Len(order), Visited)
  BY <1>1, <1>2 DEF Injection, IsInjective, VisitedOnce
<1>5. IsFiniteSet(1..Len(order)) /\ Cardinality(1..Len(order)) = Len(order)
  BY <1>1, FS_Interval
<1>6. QED  BY <1>3, <1>4, <1>5, FS_Surjection

(* When nothing is left to look at, the visited states are closed. *)
LEMMA SearchExact == SearchInv => ExhaustiveIsReachable
<1> SUFFICES ASSUME SearchInv PROVE ExhaustiveIsReachable  OBVIOUS
<1> USE DEF SearchInv
<1>1. Visited \subseteq Reachable  BY DEF NothingStray, Found
<1>2. ASSUME outcome = "exhaustive" PROVE Visited = Reachable
  <2>1. Range(frontier) = {} /\ Range(pending) = {} /\ Visited \subseteq State
    BY <1>2, Elements DEF NothingLeft, SearchTypeOK, Visited
  <2>2. Closed(Visited)  BY <2>1 DEF NothingLost, Found, Closed
  <2>3. Reachable \subseteq Visited  BY <2>1, <2>2 DEF Reachable
  <2>4. QED  BY <1>1, <2>3
<1>3. ASSUME outcome = "truncated" PROVE Len(order) = bound /\ Cardinality(Visited) = bound
  BY <1>3, DistinctCount DEF WithinBound
<1>4. QED  BY <1>1, <1>2, <1>3 DEF ExhaustiveIsReachable

(* A search that reports itself exhaustive visited every reachable state and
   no other, one cut short visited as many distinct reachable states as its
   bound: explore, for every system and bound. *)
THEOREM ExhaustiveIsExact == Spec => []ExhaustiveIsReachable
<1>1. Spec => []SearchInv  BY SearchInit, SearchStep, PTL DEF Spec
<1>2. QED  BY <1>1, SearchExact, PTL
-------------------------------------------------------------------------------

(* What each iteration of explore's loop uses up. *)
LEMMA StepAdvances ==
  ASSUME SearchInv, Explore
  PROVE  \/ outcome' # "searching"
         \/ Len(order') = Len(order) + 1 /\ Len(order') <= bound
         \/ order' = order /\ Waiting' < Waiting
<1>0. /\ frontier \in Seq(State) /\ order \in Seq(State) /\ pending \in Seq(State)
      /\ Len(frontier) \in Nat /\ Len(order) \in Nat /\ Len(pending) \in Nat
      /\ bound \in Nat
  BY LenProperties, SystemTypes DEF SearchInv, SearchTypeOK
<1>1. ASSUME NEW q \in Seq(State), q # <<>>
      PROVE  Head(q) \in State /\ Len(Tail(q)) = Len(q) - 1
  BY <1>1, HeadTailProperties
<1>2. CASE Truncate \/ Exhaust
  BY <1>2 DEF Truncate, Exhaust
<1>3. CASE Skip
  <2>1. /\ order' = order /\ pending' = pending
        /\ frontier # <<>> /\ frontier' = Tail(frontier)
    BY <1>3 DEF Skip
  <2>2. QED  BY <1>0, <1>1, <2>1 DEF Waiting
<1>4. CASE Visit
  <2>1. /\ Head(frontier) \in State
        /\ order' = Append(order, Head(frontier))
        /\ Len(order) < bound
    BY <1>0, <1>1, <1>4 DEF Visit
  <2>2. Len(order') = Len(order) + 1
    BY <1>0, <2>1, AppendProperties
  <2>3. QED  BY <1>0, <2>1, <2>2
<1>5. CASE Expand
  <2>1. /\ order' = order /\ Head(pending) \in State
        /\ Len(pending') = Len(pending) - 1
    BY <1>0, <1>1, <1>5 DEF Expand
  <2>2. Len(frontier') = Len(frontier) \/ Len(frontier') = Len(frontier) + 1
    <3>1. CASE frontier' = frontier
      BY <3>1
    <3>2. CASE frontier' = Append(frontier, Head(pending))
      BY <1>0, <2>1, <3>2, AppendProperties
    <3>3. QED  BY <1>5, <3>1, <3>2 DEF Expand, Enqueued
  <2>3. QED  BY <1>0, <2>1, <2>2 DEF Waiting
<1>6. QED  BY <1>2, <1>3, <1>4, <1>5 DEF Explore

(* No search goes on for ever, on an infinite or a cyclic system either: every
   iteration returns, or visits one more state within the bound, or leaves less to
   look at before the next visit. *)
THEOREM SearchEnds == Spec => SearchAdvances
<1>1. Spec => []SearchInv  BY SearchInit, SearchStep, PTL DEF Spec
<1>2. SearchInv /\ [Explore]_exploreVars =>
        [\/ outcome' # "searching"
         \/ Len(order') = Len(order) + 1 /\ Len(order') <= bound
         \/ order' = order /\ Waiting' < Waiting]_exploreVars
  BY StepAdvances
<1>3. QED  BY <1>1, <1>2, PTL DEF Spec, SearchAdvances
-------------------------------------------------------------------------------
(* Layers *)

(* A set of naturals with 0 and the successor of each of its elements is Nat. *)
LEMMA Induction ==
  ASSUME NEW T \in SUBSET Nat, 0 \in T, \A n \in T : n + 1 \in T
  PROVE  T = Nat
<1> DEFINE Missing == {1..n : n \in Nat \ T}
<1>1. SUFFICES ASSUME NEW miss \in Nat \ T PROVE FALSE  OBVIOUS
<1>2. Missing \subseteq FiniteSubsetsOf(Nat) /\ Missing # {}
  <2>1. \A n \in Nat : 1..n \in SUBSET Nat /\ IsFiniteSet(1..n)  BY FS_Interval
  <2>2. 1..miss \in Missing  OBVIOUS
  <2>3. QED  BY <2>1, <2>2 DEF FiniteSubsetsOf
<1>3. IsWellFoundedOn(StrictSubsetOrdering(Nat), FiniteSubsetsOf(Nat))
  BY FS_StrictSubsetOrderingWellFounded
<1> HIDE DEF Missing
<1>4. PICK m \in Missing : \A k \in Missing : ~(<<k, m>> \in StrictSubsetOrdering(Nat))
  BY <1>2, <1>3, WFMin
<1>5. PICK n \in Nat \ T : m = 1..n  BY DEF Missing
<1>6. n # 0 /\ n - 1 \in Nat /\ (n - 1) + 1 = n  OBVIOUS
<1>7. n - 1 \notin T  BY <1>6
<1>8. 1..(n - 1) \in Missing  BY <1>6, <1>7 DEF Missing
<1>9. n \in 1..n /\ n \notin 1..(n - 1) /\ 1..(n - 1) \subseteq 1..n  BY <1>6
<1>10. <<1..(n - 1), m>> \in StrictSubsetOrdering(Nat)
  BY <1>5, <1>6, <1>9 DEF StrictSubsetOrdering
<1>11. QED  BY <1>4, <1>8, <1>10

(* The states that take one step more. *)
Further(S) == S \cup UNION {Range(system.successors[s]) : s \in S}

(* The layers up to the n-th, as a function of their number. *)
LayersUpTo(n, l) ==
  /\ l = [k \in 0..n |-> l[k]]
  /\ l[0] = Range(system.initial)
  /\ \A k \in 1..n : l[k] = Further(l[k - 1])

(* There is such a function for every n. *)
LEMMA LayersExist == \A n \in Nat : \E l : LayersUpTo(n, l)
<1> DEFINE T == {n \in Nat : \E l : LayersUpTo(n, l)}
<1>1. 0 \in T
  <2> DEFINE l == [k \in 0..0 |-> Range(system.initial)]
  <2>1. l[0] = Range(system.initial) /\ 0..0 = {0} /\ 1..0 = {}  OBVIOUS
  <2>2. l = [k \in 0..0 |-> l[k]]  OBVIOUS
  <2> HIDE DEF l
  <2>3. LayersUpTo(0, l)  BY <2>1, <2>2 DEF LayersUpTo
  <2>4. QED  BY <2>3
<1>2. ASSUME NEW n \in T PROVE n + 1 \in T
  <2>1. PICK l : LayersUpTo(n, l)  OBVIOUS
  <2> DEFINE m == [k \in 0..(n + 1) |-> IF k = n + 1 THEN Further(l[n]) ELSE l[k]]
  <2>2. n \in Nat  OBVIOUS
  <2>3. \A k \in 0..n : m[k] = l[k]  BY <2>2
  <2>4. m[n + 1] = Further(l[n])  BY <2>2
  <2>5. m = [k \in 0..(n + 1) |-> m[k]]  OBVIOUS
  <2> HIDE DEF m
  <2>6. m[0] = Range(system.initial)  BY <2>1, <2>2, <2>3 DEF LayersUpTo
  <2>7. ASSUME NEW k \in 1..(n + 1) PROVE m[k] = Further(m[k - 1])
    <3>1. CASE k = n + 1
      <4>1. k - 1 = n /\ n \in 0..n  BY <2>2, <3>1
      <4>2. QED  BY <2>3, <2>4, <3>1, <4>1
    <3>2. CASE k # n + 1
      <4>1. k \in 1..n /\ k \in 0..n /\ k - 1 \in 0..n  BY <2>2, <3>2
      <4>2. l[k] = Further(l[k - 1])  BY <2>1, <4>1 DEF LayersUpTo
      <4>3. QED  BY <2>3, <4>1, <4>2
    <3>3. QED  BY <3>1, <3>2
  <2>8. LayersUpTo(n + 1, m)  BY <2>5, <2>6, <2>7 DEF LayersUpTo
  <2>9. QED  BY <2>2, <2>8
<1> HIDE DEF T
<1>3. T = Nat
  <2>1. T \in SUBSET Nat  BY DEF T
  <2>2. QED  BY <1>1, <1>2, <2>1, Induction
<1>4. QED  BY <1>3 DEF T

(* Two of them agree on the layers both have. *)
LEMMA LayersAgree ==
  ASSUME NEW n \in Nat, NEW m \in Nat, NEW l, NEW k, LayersUpTo(n, l), LayersUpTo(m, k)
  PROVE  \A i \in 0..n : i \in 0..m => l[i] = k[i]
<1> DEFINE T == {i \in Nat : i \in 0..n /\ i \in 0..m => l[i] = k[i]}
<1>1. 0 \in T  BY DEF LayersUpTo
<1>2. ASSUME NEW i \in T PROVE i + 1 \in T
  <2>1. SUFFICES ASSUME i + 1 \in 0..n, i + 1 \in 0..m PROVE l[i + 1] = k[i + 1]
    OBVIOUS
  <2>2. /\ i \in 0..n /\ i \in 0..m /\ i + 1 \in 1..n /\ i + 1 \in 1..m
        /\ (i + 1) - 1 = i
    BY <2>1
  <2>3. l[i] = k[i]  BY <2>2
  <2>4. l[i + 1] = Further(l[i]) /\ k[i + 1] = Further(k[i])
    BY <2>2 DEF LayersUpTo
  <2>5. QED  BY <2>3, <2>4
<1> HIDE DEF T
<1>3. T = Nat
  <2>1. T \in SUBSET Nat  BY DEF T
  <2>2. QED  BY <1>1, <1>2, <2>1, Induction
<1>4. QED  BY <1>3 DEF T

(* The recursion that defines Layer has a solution, so Layer is one. *)
LEMMA LayerUnfolds ==
  /\ Layer[0] = Range(system.initial)
  /\ \A n \in Nat \ {0} : Layer[n] = Further(Layer[n - 1])
<1> DEFINE Solves(f) ==
      f = [n \in Nat |-> IF n = 0 THEN Range(system.initial)
                         ELSE f[n - 1] \cup UNION {Range(system.successors[s]) : s \in f[n - 1]}]
           upTo(n) == CHOOSE l : LayersUpTo(n, l)
           all == [n \in Nat |-> upTo(n)[n]]
<1>1. \A n \in Nat : LayersUpTo(n, upTo(n))  BY LayersExist
<1> HIDE DEF upTo
<1>2. ASSUME NEW n \in Nat \ {0} PROVE all[n] = Further(all[n - 1])
  <2>1. /\ n \in Nat /\ n - 1 \in Nat /\ n \in 1..n /\ n - 1 \in 0..n
        /\ n - 1 \in 0..(n - 1)
    OBVIOUS
  <2>2. upTo(n)[n] = Further(upTo(n)[n - 1])  BY <1>1, <2>1 DEF LayersUpTo
  <2>3. upTo(n)[n - 1] = upTo(n - 1)[n - 1]
    <3>1. LayersUpTo(n, upTo(n)) /\ LayersUpTo(n - 1, upTo(n - 1))  BY <1>1, <2>1
    <3>2. QED  BY <2>1, <3>1, LayersAgree
  <2>4. all[n] = upTo(n)[n] /\ all[n - 1] = upTo(n - 1)[n - 1]  BY <2>1
  <2> HIDE DEF all
  <2>5. QED  BY <2>2, <2>3, <2>4
<1>3. all[0] = Range(system.initial)  BY <1>1 DEF LayersUpTo
<1>4. DOMAIN all = Nat /\ all = [n \in Nat |-> all[n]]  OBVIOUS
<1> HIDE DEF all
<1>5. Solves(all)
  <2>1. ASSUME NEW n \in Nat
        PROVE  all[n] = IF n = 0 THEN Range(system.initial)
                        ELSE all[n - 1] \cup UNION {Range(system.successors[s]) : s \in all[n - 1]}
    <3>1. CASE n = 0  BY <1>3, <3>1
    <3>2. CASE n # 0  BY <1>2, <3>2 DEF Further
    <3>3. QED  BY <3>1, <3>2
  <2>2. QED  BY <1>4, <2>1
<1>6. Layer = CHOOSE f : Solves(f)  BY DEF Layer
<1>7. Solves(CHOOSE f : Solves(f))  BY <1>5
<1>8. Solves(Layer)  BY <1>6, <1>7
<1>9. Layer[0] = Range(system.initial)  BY <1>8
<1>10. ASSUME NEW n \in Nat \ {0} PROVE Layer[n] = Further(Layer[n - 1])
  BY <1>8 DEF Further
<1>11. QED  BY <1>9, <1>10
-------------------------------------------------------------------------------
(* Breadth first *)

(* A state of the n-th layer is visited before any that is further. *)
VisitedNearestFirst ==
  \A n \in Nat : \A j \in DOMAIN order :
    order[j] \notin Layer[n] => Layer[n] \subseteq {order[i] : i \in 1..(j - 1)}

(* Every state of the n-th layer is visited, or waits in the frontier before any
   that is further.  States may wait there more than once, and again behind
   further ones; it is the first place that counts. *)
QueuedNearestFirst ==
  \A n \in Nat : \A j \in DOMAIN frontier :
    frontier[j] \notin Layer[n] =>
      Layer[n] \subseteq Visited \cup {frontier[i] : i \in 1..(j - 1)}

(* Pending is what remains of the successors of the last state visited; those of
   the others, and the initial states, are visited or in the frontier. *)
LookedAt ==
  /\ Range(system.initial) \subseteq Visited \cup Range(frontier)
  /\ \A i \in DOMAIN order :
       i # Len(order) =>
         Range(system.successors[order[i]]) \subseteq Visited \cup Range(frontier)
  /\ order = <<>> => pending = <<>>
  /\ order # <<>> =>
       /\ Range(pending) \subseteq Range(system.successors[order[Len(order)]])
       /\ Range(system.successors[order[Len(order)]])
            \subseteq Visited \cup Range(frontier) \cup Range(pending)

LayersInv ==
  /\ VisitedNearestFirst
  /\ QueuedNearestFirst
  /\ LookedAt

(* The first layer is in every other. *)
LEMMA LayersGrow == \A n \in Nat : Layer[0] \subseteq Layer[n]
<1> DEFINE T == {n \in Nat : Layer[0] \subseteq Layer[n]}
<1>1. 0 \in T  OBVIOUS
<1>2. ASSUME NEW n \in T PROVE n + 1 \in T
  <2>1. n + 1 \in Nat \ {0} /\ (n + 1) - 1 = n /\ Layer[0] \subseteq Layer[n]  OBVIOUS
  <2>2. Layer[n + 1] = Further(Layer[n])  BY <2>1, LayerUnfolds
  <2>3. Layer[0] \subseteq Layer[n + 1]  BY <2>1, <2>2 DEF Further
  <2>4. QED  BY <2>1, <2>3
<1> HIDE DEF T
<1>3. T = Nat
  <2>1. T \in SUBSET Nat  BY DEF T
  <2>2. QED  BY <1>1, <1>2, <2>1, Induction
<1>4. QED  BY <1>3 DEF T

(* What a list holds, by its places, and what it holds without its first element
   or with one more. *)
LEMMA Places ==
  ASSUME NEW q \in Seq(State)
  PROVE  /\ Len(q) \in Nat /\ DOMAIN q = 1..Len(q)
         /\ Range(q) = {q[i] : i \in 1..Len(q)}
         /\ q # <<>> => /\ Len(q) >= 1
                        /\ Head(q) = q[1] /\ Head(q) \in State
                        /\ Len(Tail(q)) = Len(q) - 1
                        /\ DOMAIN Tail(q) = 1..(Len(q) - 1)
                        /\ \A i \in 1..(Len(q) - 1) : Tail(q)[i] = q[i + 1]
         /\ \A x \in State : /\ Len(Append(q, x)) = Len(q) + 1
                             /\ DOMAIN Append(q, x) = 1..(Len(q) + 1)
                             /\ \A i \in 1..Len(q) : Append(q, x)[i] = q[i]
                             /\ Append(q, x)[Len(q) + 1] = x
<1>1. Len(q) \in Nat /\ DOMAIN q = 1..Len(q) /\ Range(q) = {q[i] : i \in 1..Len(q)}
  BY LenProperties DEF Range
<1>2. ASSUME q # <<>>
      PROVE  /\ Len(q) >= 1
             /\ Head(q) = q[1] /\ Head(q) \in State
             /\ Len(Tail(q)) = Len(q) - 1
             /\ DOMAIN Tail(q) = 1..(Len(q) - 1)
             /\ \A i \in 1..(Len(q) - 1) : Tail(q)[i] = q[i + 1]
  <2>1. /\ Head(q) = q[1] /\ Tail(q) \in Seq(State)
        /\ Len(Tail(q)) = Len(q) - 1
        /\ \A i \in 1..Len(Tail(q)) : Tail(q)[i] = q[i + 1]
    BY <1>2, HeadTailProperties
  <2>2. Len(q) # 0  BY <1>2, EmptySeq
  <2>3. Head(q) \in State  BY <1>2, Elements
  <2>4. QED  BY <1>1, <2>1, <2>2, <2>3, LenProperties
<1>3. ASSUME NEW x \in State
      PROVE  /\ Len(Append(q, x)) = Len(q) + 1
             /\ DOMAIN Append(q, x) = 1..(Len(q) + 1)
             /\ \A i \in 1..Len(q) : Append(q, x)[i] = q[i]
             /\ Append(q, x)[Len(q) + 1] = x
  BY AppendProperties, LenProperties
<1>4. QED  BY <1>1, <1>2, <1>3

(* The frontier starts as the first layer. *)
LEMMA LayersInit == Init => LayersInv
<1> SUFFICES ASSUME Init PROVE LayersInv  OBVIOUS
<1>1. /\ order = <<>> /\ pending = <<>> /\ frontier = system.initial
      /\ frontier \in Seq(State) /\ pending \in Seq(State)
  BY SystemsAssumption DEF Init
<1>2. DOMAIN order = {} /\ VisitedNearestFirst  BY <1>1 DEF VisitedNearestFirst
<1>3. QueuedNearestFirst
  <2>1. ASSUME NEW n \in Nat, NEW j \in DOMAIN frontier PROVE frontier[j] \in Layer[n]
    BY <1>1, LayerUnfolds, LayersGrow DEF Range
  <2>2. QED  BY <2>1 DEF QueuedNearestFirst
<1>4. LookedAt  BY <1>1, <1>2 DEF LookedAt
<1>5. QED  BY <1>2, <1>3, <1>4 DEF LayersInv

(* The first place of the frontier is given up by a state that is visited. *)
LEMMA QueueAdvances ==
  ASSUME SearchTypeOK, LayersInv, system' = system, frontier # <<>>,
         frontier' = Tail(frontier), Visited' = Visited \cup {Head(frontier)}
  PROVE  /\ QueuedNearestFirst'
         /\ Visited' \cup Range(frontier') = Visited \cup Range(frontier)
<1>0. frontier \in Seq(State) /\ Layer' = Layer
  BY DEF SearchTypeOK, Layer
<1>1. /\ Len(frontier) \in Nat /\ DOMAIN frontier = 1..Len(frontier)
      /\ Head(frontier) = frontier[1] /\ Len(frontier) >= 1
      /\ DOMAIN frontier' = 1..(Len(frontier) - 1)
      /\ \A i \in 1..(Len(frontier) - 1) : frontier'[i] = frontier[i + 1]
  BY <1>0, Places
<1>2. ASSUME NEW n \in Nat, NEW j \in DOMAIN frontier', frontier'[j] \notin Layer[n],
             NEW x \in Layer[n]
      PROVE  x \in Visited' \cup {frontier'[i] : i \in 1..(j - 1)}
  <2>1. /\ j \in 1..(Len(frontier) - 1) /\ j + 1 \in 1..Len(frontier) /\ (j + 1) - 1 = j
        /\ frontier[j + 1] \notin Layer[n]
    BY <1>1, <1>2
  <2>2. x \in Visited \cup {frontier[i] : i \in 1..j}
    BY <1>1, <1>2, <2>1 DEF LayersInv, QueuedNearestFirst
  <2>3. CASE x \in Visited  BY <2>3
  <2>4. CASE x \notin Visited
    <3>1. PICK i \in 1..j : x = frontier[i]  BY <2>2, <2>4
    <3>2. CASE i = 1  BY <1>1, <3>1, <3>2
    <3>3. CASE i # 1
      <4>1. i - 1 \in 1..(j - 1) /\ i - 1 \in 1..(Len(frontier) - 1) /\ (i - 1) + 1 = i
        BY <2>1, <3>3
      <4>2. x = frontier'[i - 1]  BY <1>1, <3>1, <4>1
      <4>3. QED  BY <4>1, <4>2
    <3>4. QED  BY <3>2, <3>3
  <2>5. QED  BY <2>3, <2>4
<1>3. QueuedNearestFirst'
  BY <1>0, <1>2 DEF QueuedNearestFirst
<1>4. Range(frontier) = {Head(frontier)} \cup Range(frontier')
  BY <1>0, Elements
<1>5. QED  BY <1>3, <1>4

(* Visiting takes the nearest state that is left, and looking at its successors
   puts behind it states that are one layer further at most. *)
LEMMA LayersStep == SearchInv /\ LayersInv /\ [Explore]_exploreVars => LayersInv'
<1> SUFFICES ASSUME SearchInv, LayersInv, [Explore]_exploreVars PROVE LayersInv'
  OBVIOUS
<1>0. /\ SearchTypeOK
      /\ frontier \in Seq(State) /\ order \in Seq(State) /\ pending \in Seq(State)
      /\ system' = system /\ Layer' = Layer
  <2>1. system' = system
    BY DEF Explore, Truncate, Skip, Visit, Expand, Exhaust, Looking, exploreVars
  <2>2. QED  BY <2>1 DEF SearchInv, SearchTypeOK, Layer
<1>1. CASE frontier' = frontier /\ order' = order /\ pending' = pending
  BY <1>0, <1>1 DEF LayersInv, VisitedNearestFirst, QueuedNearestFirst, LookedAt, Visited
<1>2. CASE Skip
  <2>1. /\ order' = order /\ pending' = pending /\ Visited' = Visited
        /\ frontier # <<>> /\ frontier' = Tail(frontier) /\ Head(frontier) \in Visited
    BY <1>2 DEF Skip, Visited
  <2>2. Visited' = Visited \cup {Head(frontier)}  BY <2>1
  <2>3. QueuedNearestFirst' /\ Visited' \cup Range(frontier') = Visited \cup Range(frontier)
    BY <1>0, <2>1, <2>2, QueueAdvances
  <2>4. VisitedNearestFirst'
    BY <1>0, <2>1 DEF LayersInv, VisitedNearestFirst
  <2>5. LookedAt'
    BY <1>0, <2>1, <2>3 DEF LayersInv, LookedAt
  <2>6. QED  BY <2>3, <2>4, <2>5 DEF LayersInv
<1>3. CASE Visit
  <2> DEFINE s == Head(frontier)
  <2>1. /\ pending = <<>> /\ frontier # <<>> /\ frontier' = Tail(frontier)
        /\ order' = Append(order, s) /\ pending' = system.successors[s]
    BY <1>3 DEF Visit, Looking
  <2>2. s \in State /\ s = frontier[1] /\ 1 \in DOMAIN frontier
    BY <1>0, <2>1, Places
  <2> HIDE DEF s
  <2>3. /\ Visited' = Visited \cup {s}
        /\ Range(pending) = {}
    BY <1>0, <2>1, <2>2, Elements DEF Visited
  <2>4. QueuedNearestFirst' /\ Visited' \cup Range(frontier') = Visited \cup Range(frontier)
    BY <1>0, <2>1, <2>3, QueueAdvances DEF s
  <2>5. /\ Len(order) \in Nat /\ DOMAIN order = 1..Len(order)
        /\ Visited = {order[i] : i \in 1..Len(order)}
        /\ DOMAIN order' = 1..(Len(order) + 1) /\ Len(order') = Len(order) + 1
        /\ \A i \in 1..Len(order) : order'[i] = order[i]
        /\ order'[Len(order) + 1] = s
    BY <1>0, <2>1, <2>2, Places DEF Visited
  <2>6. VisitedNearestFirst'
    <3>1. SUFFICES ASSUME NEW n \in Nat, NEW j \in DOMAIN order', order'[j] \notin Layer[n]
                   PROVE  Layer[n] \subseteq {order'[i] : i \in 1..(j - 1)}
      BY <1>0 DEF VisitedNearestFirst
    <3>2. CASE j = Len(order) + 1
      <4>1. s \notin Layer[n] /\ j - 1 = Len(order)  BY <2>5, <3>1, <3>2
      <4>2. 1..(1 - 1) = {}  OBVIOUS
      <4>3. Layer[n] \subseteq Visited
        BY <2>2, <4>1, <4>2 DEF LayersInv, QueuedNearestFirst
      <4>4. QED  BY <2>5, <4>1, <4>3
    <3>3. CASE j # Len(order) + 1
      <4>1. j \in 1..Len(order) /\ 1..(j - 1) \subseteq 1..Len(order)  BY <2>5, <3>3
      <4>2. order[j] \notin Layer[n]  BY <2>5, <3>1, <4>1
      <4>3. Layer[n] \subseteq {order[i] : i \in 1..(j - 1)}
        BY <2>5, <4>1, <4>2 DEF LayersInv, VisitedNearestFirst
      <4>4. QED  BY <2>5, <4>1, <4>3
    <3>4. QED  BY <3>2, <3>3
  <2>7. LookedAt'
    <3>1. ASSUME NEW i \in DOMAIN order', i # Len(order')
          PROVE  Range(system.successors[order'[i]]) \subseteq Visited' \cup Range(frontier')
      <4>1. i \in 1..Len(order) /\ order'[i] = order[i]  BY <2>5, <3>1
      <4>2. order # <<>>  BY <4>1
      <4>3. Range(system.successors[order[i]]) \subseteq Visited \cup Range(frontier)
        BY <2>3, <2>5, <4>1, <4>2 DEF LayersInv, LookedAt
      <4>4. QED  BY <2>4, <4>1, <4>3
    <3>2. order' # <<>> /\ order'[Len(order')] = s  BY <2>5
    <3>3. Range(system.initial) \subseteq Visited' \cup Range(frontier')
      BY <2>4 DEF LayersInv, LookedAt
    <3>4. QED  BY <1>0, <2>1, <3>1, <3>2, <3>3 DEF LookedAt
  <2>8. QED  BY <2>4, <2>6, <2>7 DEF LayersInv
<1>4. CASE Expand
  <2> DEFINE n == Head(pending)
  <2>1. /\ order' = order /\ Visited' = Visited
        /\ pending # <<>> /\ pending' = Tail(pending) /\ n \in State
        /\ Range(pending) = {n} \cup Range(pending')
        /\ \/ n \in Visited /\ frontier' = frontier
           \/ frontier' = Append(frontier, n)
    BY <1>0, <1>4, Elements DEF Expand, Enqueued, Visited
  <2> HIDE DEF n
  <2>2. VisitedNearestFirst'  BY <1>0, <2>1 DEF LayersInv, VisitedNearestFirst
  <2>3. Visited \cup Range(frontier') = Visited \cup Range(frontier) \cup {n}
    <3>1. CASE n \in Visited /\ frontier' = frontier  BY <3>1
    <3>2. CASE frontier' = Append(frontier, n)
      <4>1. Range(frontier') = Range(frontier) \cup {n}  BY <1>0, <2>1, <3>2, Elements
      <4>2. QED  BY <4>1
    <3>3. QED  BY <2>1, <3>1, <3>2
  <2>4. LookedAt'
    BY <1>0, <2>1, <2>3 DEF LayersInv, LookedAt
  <2>5. order # <<>>  BY <2>1 DEF LayersInv, LookedAt
  <2>6. /\ Len(order) \in Nat /\ DOMAIN order = 1..Len(order)
        /\ Len(order) \in DOMAIN order
        /\ n \in Range(system.successors[order[Len(order)]])
    <3>1. Len(order) \in Nat /\ Len(order) >= 1 /\ DOMAIN order = 1..Len(order)
      BY <1>0, <2>5, Places
    <3>2. QED  BY <2>1, <2>5, <3>1 DEF LayersInv, LookedAt
  <2>7. ASSUME NEW k \in Nat, n \notin Layer[k]
        PROVE  Layer[k] \subseteq Visited \cup Range(frontier)
    <3>1. CASE k = 0
      BY <3>1, LayerUnfolds DEF LayersInv, LookedAt
    <3>2. CASE k # 0
      <4>1. k - 1 \in Nat /\ Layer[k] = Further(Layer[k - 1])  BY <3>2, LayerUnfolds
      <4>2. order[Len(order)] \notin Layer[k - 1]
        BY <2>6, <2>7, <4>1 DEF Further
      <4>3. Layer[k - 1] \subseteq {order[i] : i \in 1..(Len(order) - 1)}
        BY <2>6, <4>1, <4>2 DEF LayersInv, VisitedNearestFirst
      <4>4. ASSUME NEW x \in Layer[k - 1]
            PROVE  /\ x \in Visited
                   /\ Range(system.successors[x]) \subseteq Visited \cup Range(frontier)
        <5>1. PICK i \in 1..(Len(order) - 1) : x = order[i]  BY <4>3
        <5>2. Len(order) \in Nat /\ DOMAIN order = 1..Len(order)  BY <2>6
        <5>3. i \in DOMAIN order /\ i # Len(order)
          <6>1. \A m \in Nat : \A h \in 1..(m - 1) : h \in 1..m /\ h # m  OBVIOUS
          <6>2. QED  BY <5>2, <6>1
        <5>4. x \in Visited  BY <5>1, <5>3 DEF Visited, Range
        <5>5. Range(system.successors[order[i]]) \subseteq Visited \cup Range(frontier)
          BY <5>3 DEF LayersInv, LookedAt
        <5>6. QED  BY <5>1, <5>4, <5>5
      <4>5. QED  BY <4>1, <4>4 DEF Further
    <3>3. QED  BY <3>1, <3>2
  <2>8. QueuedNearestFirst'
    <3>1. CASE frontier' = frontier
      <4>1. Visited' = Visited  BY <2>1
      <4>2. QED  BY <1>0, <3>1, <4>1 DEF LayersInv, QueuedNearestFirst
    <3>2. CASE frontier' = Append(frontier, n)
      <4>1. /\ Len(frontier) \in Nat /\ DOMAIN frontier = 1..Len(frontier)
            /\ Range(frontier) = {frontier[i] : i \in 1..Len(frontier)}
            /\ DOMAIN frontier' = 1..(Len(frontier) + 1)
            /\ \A i \in 1..Len(frontier) : frontier'[i] = frontier[i]
            /\ frontier'[Len(frontier) + 1] = n
        BY <1>0, <2>1, <3>2, Places
      <4>2. SUFFICES ASSUME NEW k \in Nat, NEW j \in DOMAIN frontier',
                            frontier'[j] \notin Layer[k]
                     PROVE  Layer[k] \subseteq Visited \cup {frontier'[i] : i \in 1..(j - 1)}
        BY <1>0, <2>1 DEF QueuedNearestFirst
      <4>3. CASE j = Len(frontier) + 1
        <5>1. n \notin Layer[k] /\ j - 1 = Len(frontier)  BY <4>1, <4>2, <4>3
        <5>2. Layer[k] \subseteq Visited \cup Range(frontier)  BY <2>7, <5>1
        <5>3. QED  BY <4>1, <5>1, <5>2
      <4>4. CASE j # Len(frontier) + 1
        <5>1. j \in 1..Len(frontier) /\ 1..(j - 1) \subseteq 1..Len(frontier)  BY <4>1, <4>4
        <5>2. frontier[j] \notin Layer[k]  BY <4>1, <4>2, <5>1
        <5>3. Layer[k] \subseteq Visited \cup {frontier[i] : i \in 1..(j - 1)}
          BY <4>1, <5>1, <5>2 DEF LayersInv, QueuedNearestFirst
        <5>4. QED  BY <4>1, <5>1, <5>3
      <4>5. QED  BY <4>3, <4>4
    <3>3. QED  BY <2>1, <3>1, <3>2
  <2>9. QED  BY <2>2, <2>4, <2>8 DEF LayersInv
<1>5. QED
  BY <1>1, <1>2, <1>3, <1>4 DEF Explore, Truncate, Exhaust, exploreVars

(* A state visited after one outside a layer it belongs to would have been
   visited twice. *)
LEMMA LayersOrder == SearchInv /\ LayersInv => BreadthFirst
<1> SUFFICES ASSUME SearchInv, LayersInv, NEW n \in 0..Cardinality(State)
             PROVE  /\ \A j \in DOMAIN order :
                         order[j] \in Layer[n] => \A i \in 1..j : order[i] \in Layer[n]
                    /\ outcome = "truncated" /\ Visited \ Layer[n] # {} =>
                         Layer[n] \subseteq Visited
  BY DEF BreadthFirst
<1>0. n \in Nat  OBVIOUS
<1>1. Len(order) \in Nat /\ DOMAIN order = 1..Len(order)
  BY Places DEF SearchInv, SearchTypeOK
<1>2. ASSUME NEW j \in DOMAIN order, order[j] \in Layer[n], NEW i \in 1..j,
             order[i] \notin Layer[n]
      PROVE  FALSE
  <2>1. i \in DOMAIN order /\ 1..(i - 1) \subseteq DOMAIN order  BY <1>1
  <2>2. PICK h \in 1..(i - 1) : order[j] = order[h]
    BY <1>0, <1>2, <2>1 DEF LayersInv, VisitedNearestFirst
  <2>3. j = h  BY <2>1, <2>2 DEF SearchInv, VisitedOnce
  <2>4. QED  BY <1>1, <2>3
<1>3. ASSUME NEW s \in Visited, s \notin Layer[n] PROVE Layer[n] \subseteq Visited
  <2>1. PICK j \in DOMAIN order : s = order[j]  BY DEF Visited, Range
  <2>2. 1..(j - 1) \subseteq DOMAIN order  BY <1>1
  <2>3. QED  BY <1>0, <1>3, <2>1, <2>2 DEF LayersInv, VisitedNearestFirst, Visited, Range
<1>4. QED  BY <1>2, <1>3

(* A search visits the states nearest to the initial ones first, and one cut
   short by its bound kept no state while a nearer one was left out: the order in
   which explore lists what it visited, for every system and bound. *)
THEOREM NearestFirst == Spec => []BreadthFirst
<1>1. Spec => []SearchInv  BY SearchInit, SearchStep, PTL DEF Spec
<1>2. Spec => [](SearchInv /\ LayersInv)
  BY <1>1, LayersInit, LayersStep, PTL DEF Spec
<1>3. QED  BY <1>2, LayersOrder, PTL
===============================================================================
