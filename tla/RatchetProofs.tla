----------------------------- MODULE RatchetProofs -----------------------------
(***************************************************************************)
(* Proofs about Ratchet, for every set of targets, candidates and          *)
(* dependencies, infinite ones included, and every bound.                  *)
(*                                                                         *)
(* First what one more event, or the marks of one recheck_dependents, do   *)
(* to the three folds.  Then the invariant of any fault model, then the    *)
(* one of a process that hears of every record that reached the disk, then *)
(* the refinement of the monotone set.                                     *)
(***************************************************************************)
EXTENDS Ratchet, EventLogProofs

Line == Event \cup {Torn}

(* The lines of a log with one more event. *)
LEMMA AppendFacts ==
  ASSUME NEW L \in Seq(Line), NEW e \in Event
  PROVE  /\ Len(L) \in Nat
         /\ DOMAIN L = 1..Len(L)
         /\ Append(L, e) \in Seq(Line)
         /\ Len(Append(L, e)) = Len(L) + 1
         /\ DOMAIN Append(L, e) = 1..Len(L) \cup {Len(L) + 1}
         /\ Len(L) + 1 \notin 1..Len(L)
         /\ Append(L, e)[Len(L) + 1] = e
         /\ \A i \in 1..Len(L) : Append(L, e)[i] = L[i]
<1>1. \A n \in Nat : 1..(n + 1) = 1..n \cup {n + 1} /\ n + 1 \notin 1..n  OBVIOUS
<1>2. QED  BY <1>1, AppendProperties, LenProperties DEF Line

(* The accepted set of a log with one more event: a membership event decides
   for its target, and nothing else changes anything. *)
LEMMA FoldAcceptedAppend ==
  ASSUME NEW L \in Seq(Line), NEW e \in Event
  PROVE  FoldAccepted(Append(L, e)) =
           IF e.type \in Membership
             THEN [FoldAccepted(L) EXCEPT ![e.target] = e.candidate]
             ELSE FoldAccepted(L)
<1> DEFINE n == Len(L)
           M == Append(L, e)
<1>1. /\ n \in Nat /\ DOMAIN L = 1..n /\ DOMAIN M = 1..n \cup {n + 1} /\ n + 1 \notin 1..n
      /\ M[n + 1] = e /\ \A i \in 1..n : M[i] = L[i]
  BY AppendFacts
<1> HIDE DEF M, n
<1>2. ASSUME NEW t
      PROVE  /\ MembershipOf(M, t) = IF e.target = t /\ e.type \in Membership
                                       THEN MembershipOf(L, t) \cup {n + 1}
                                       ELSE MembershipOf(L, t)
             /\ MembershipOf(L, t) \in SUBSET (1..n)
  BY <1>1 DEF MembershipOf
<1>3. ASSUME NEW t \in Targets
      PROVE  FoldAccepted(M)[t] = IF e.target = t /\ e.type \in Membership
                                    THEN e.candidate ELSE FoldAccepted(L)[t]
  <2>1. CASE e.target = t /\ e.type \in Membership
    <3>1. LastOf(MembershipOf(M, t)) = n + 1  BY <1>1, <1>2, <2>1, LastFacts
    <3>2. MembershipOf(M, t) # {}  BY <1>2, <2>1
    <3>3. QED  BY <1>1, <2>1, <3>1, <3>2 DEF FoldAccepted
  <2>2. CASE ~(e.target = t /\ e.type \in Membership)
    <3>1. MembershipOf(M, t) = MembershipOf(L, t)  BY <1>2, <2>2
    <3>2. MembershipOf(L, t) # {} => LastOf(MembershipOf(L, t)) \in 1..n
      BY <1>1, <1>2, LastFound
    <3>3. FoldAccepted(M)[t] = FoldAccepted(L)[t]  BY <1>1, <3>1, <3>2 DEF FoldAccepted
    <3>4. QED  BY <2>2, <3>3
  <2>3. QED  BY <2>1, <2>2
<1>4. QED  BY <1>3 DEF FoldAccepted, M

(* The marks of a log with one more event: those it discharges go, and the one
   it sets comes. *)
LEMMA FoldMarkedAppend ==
  ASSUME NEW L \in Seq(Line), NEW e \in Event, NEW t \in Targets
  PROVE  FoldMarked(Append(L, e))[t] =
           {d \in FoldMarked(L)[t] : ~Discharges(e, t, d)}
             \cup {d \in Deps : e.type = "recheck_marked" /\ e.target = t /\ e.dep = d}
<1> DEFINE n == Len(L)
           M == Append(L, e)
           Sets(N, i, d) == N[i].type = "recheck_marked" /\ N[i].target = t /\ N[i].dep = d
           Stands(N, d) == \E i \in DOMAIN N :
             Sets(N, i, d) /\ \A j \in DOMAIN N : j > i => ~Discharges(N[j], t, d)
<1>1. /\ n \in Nat /\ DOMAIN L = 1..n /\ DOMAIN M = 1..n \cup {n + 1} /\ n + 1 \notin 1..n
      /\ M[n + 1] = e /\ \A i \in 1..n : M[i] = L[i]
  BY AppendFacts
<1>2. \A N : FoldMarked(N)[t] = {d \in Deps : Stands(N, d)}  BY DEF FoldMarked
<1>3. \A i \in 1..n : n + 1 > i /\ ~(i > n + 1)  BY <1>1
<1>4. ~(n + 1 > n + 1)  BY <1>1
<1> HIDE DEF M, n
<1>5. ASSUME NEW d \in Deps
      PROVE  Stands(M, d) <=> \/ Stands(L, d) /\ ~Discharges(e, t, d)
                              \/ Sets(M, n + 1, d)
  <2>1. ASSUME NEW i \in 1..n
        PROVE  (Sets(M, i, d) /\ \A j \in DOMAIN M : j > i => ~Discharges(M[j], t, d))
                 <=> (/\ Sets(L, i, d) /\ \A j \in DOMAIN L : j > i => ~Discharges(L[j], t, d)
                      /\ ~Discharges(e, t, d))
    BY <1>1, <1>3
  <2>2. \A j \in DOMAIN M : j > n + 1 => ~Discharges(M[j], t, d)  BY <1>1, <1>3, <1>4
  <2>3. QED  BY <1>1, <2>1, <2>2
<1>6. \A d : Sets(M, n + 1, d) <=> e.type = "recheck_marked" /\ e.target = t /\ e.dep = d
  BY <1>1
<1>7. FoldMarked(M)[t] = {d \in Deps : Stands(M, d)} /\ FoldMarked(L)[t] = {d \in Deps : Stands(L, d)}
  BY <1>2
<1> HIDE DEF Stands, Sets
<1>8. QED  BY <1>5, <1>6, <1>7 DEF M

(* An event that marks nothing leaves its target no mark, or, if it confirms a
   re-verification, all marks but one. *)
LEMMA FoldMarkedAfter ==
  ASSUME NEW L \in Seq(Line), NEW e \in Event, e.type # "recheck_marked", NEW t \in Targets
  PROVE  FoldMarked(Append(L, e))[t] =
           IF t # e.target THEN FoldMarked(L)[t]
           ELSE IF e.type = "recheck_confirmed" THEN FoldMarked(L)[t] \ {e.dep} ELSE {}
<1> DEFINE F == FoldMarked(L)[t]
           G == FoldMarked(Append(L, e))[t]
<1>1. G = {d \in F : ~Discharges(e, t, d)}
            \cup {d \in Deps : e.type = "recheck_marked" /\ e.target = t /\ e.dep = d}
  BY FoldMarkedAppend
<1>2. \A d : Discharges(e, t, d) <=>
              t = e.target /\ (e.type = "recheck_confirmed" => e.dep = d)
  BY DEF Discharges, Event
<1> HIDE DEF F, G
<1>3. G = {d \in F : ~(t = e.target /\ (e.type = "recheck_confirmed" => e.dep = d))}
  BY <1>1, <1>2
<1>4. QED  BY <1>3 DEF F, G

(* The blocking events of a log are counted, so they are finitely many. *)
LEMMA BlockingFinite ==
  ASSUME NEW L \in Seq(Line), NEW td
  PROVE  LET S == {i \in DOMAIN L :
                     L[i].type = "blocking_event" /\ <<L[i].target, L[i].dep>> = td}
         IN  IsFiniteSet(S) /\ Cardinality(S) \in Nat
<1> DEFINE S == {i \in DOMAIN L : L[i].type = "blocking_event" /\ <<L[i].target, L[i].dep>> = td}
<1>1. Len(L) \in Nat /\ DOMAIN L = 1..Len(L)  BY LenProperties
<1>2. IsFiniteSet(1..Len(L))  BY <1>1, FS_Interval
<1>3. S \in SUBSET (1..Len(L))  BY <1>1
<1> HIDE DEF S
<1>4. IsFiniteSet(S)  BY <1>2, <1>3, FS_Subset
<1>5. Cardinality(S) \in Nat  BY <1>4, FS_CardinalityType
<1>6. QED  BY <1>4, <1>5 DEF S

(* The blocking events of a log with one more event. *)
LEMMA FoldBlockingAppend ==
  ASSUME NEW L \in Seq(Line), NEW e \in Event
  PROVE  FoldBlocking(Append(L, e)) =
           IF e.type = "blocking_event"
             THEN [FoldBlocking(L) EXCEPT ![<<e.target, e.dep>>] = @ + 1]
             ELSE FoldBlocking(L)
<1> DEFINE n == Len(L)
           M == Append(L, e)
           At(N, td) == {i \in DOMAIN N :
             N[i].type = "blocking_event" /\ <<N[i].target, N[i].dep>> = td}
<1>1. /\ n \in Nat /\ DOMAIN L = 1..n /\ DOMAIN M = 1..n \cup {n + 1} /\ n + 1 \notin 1..n
      /\ M[n + 1] = e /\ \A i \in 1..n : M[i] = L[i]
  BY AppendFacts
<1>2. \A N : FoldBlocking(N) = [td \in Targets \X Deps |-> Cardinality(At(N, td))]
  BY DEF FoldBlocking
<1> HIDE DEF M, n
<1>3. ASSUME NEW td
      PROVE  /\ At(M, td) = IF e.type = "blocking_event" /\ <<e.target, e.dep>> = td
                              THEN At(L, td) \cup {n + 1} ELSE At(L, td)
             /\ n + 1 \notin At(L, td)
  BY <1>1
<1>4. \A td : IsFiniteSet(At(L, td)) /\ Cardinality(At(L, td)) \in Nat  BY BlockingFinite
<1> HIDE DEF At
<1>5. ASSUME NEW td
      PROVE  Cardinality(At(M, td)) =
               IF e.type = "blocking_event" /\ <<e.target, e.dep>> = td
                 THEN Cardinality(At(L, td)) + 1 ELSE Cardinality(At(L, td))
  BY <1>3, <1>4, FS_AddElement
<1>6. CASE e.type = "blocking_event"
  BY <1>2, <1>5, <1>6 DEF M
<1>7. CASE e.type # "blocking_event"
  BY <1>2, <1>5, <1>7 DEF M
<1>8. QED  BY <1>6, <1>7

-------------------------------------------------------------------------------
(* The appends of recheck_dependents *)

MarksOf(o, n, d) == [i \in 1..n |-> Mark(o[i], d)]

(* The targets an order has gone through after n of them. *)
Gone(o, n) == {o[i] : i \in 1..n}

(* What the marks of a loop over dependents are. *)
LEMMA MarksFacts ==
  ASSUME NEW d \in Deps, NEW m \in Nat, NEW o \in [1..m -> Targets], NEW n \in 0..m
  PROVE  /\ MarksOf(o, n, d) \in Seq(Event)
         /\ Len(MarksOf(o, n, d)) = n
         /\ \A i \in 1..n : /\ MarksOf(o, n, d)[i] = Mark(o[i], d)
                            /\ o[i] \in Targets
         /\ Gone(o, n) \subseteq Targets
<1>1. n \in Nat /\ \A i \in 1..n : o[i] \in Targets  OBVIOUS
<1>2. \A i \in 1..n : Mark(o[i], d) \in Event  BY <1>1 DEF Mark, Entry, Event
<1>3. MarksOf(o, n, d) \in [1..n -> Event]  BY <1>2 DEF MarksOf
<1>4. MarksOf(o, n, d) \in Seq(Event)  BY <1>1, <1>3
<1>5. Len(MarksOf(o, n, d)) = n
  <2>1. DOMAIN MarksOf(o, n, d) = 1..n  BY <1>3
  <2>2. QED  BY <1>1, <1>4, <2>1, LenProperties
<1>6. QED  BY <1>1, <1>3, <1>4, <1>5 DEF MarksOf, Gone

(* M is L with the marks of the first n of order o at its end. *)
WithMarks(L, o, n, d, M) ==
  /\ Len(L) \in Nat
  /\ M \in Seq(Line)
  /\ DOMAIN L = 1..Len(L)
  /\ DOMAIN M = 1..(Len(L) + n)
  /\ \A i \in 1..Len(L) : M[i] = L[i]
  /\ \A i \in 1..n : M[Len(L) + i] = Mark(o[i], d)
  /\ \A k \in DOMAIN M : k \in 1..Len(L) \/ \E i \in 1..n : k = Len(L) + i
  /\ \A i \in 1..n : ~(Len(L) + i \in 1..Len(L)) /\ Len(L) + i \in DOMAIN M
  /\ 1..Len(L) \subseteq DOMAIN M

(* A log with such marks at its end. *)
LEMMA ConcatMarks ==
  ASSUME NEW L \in Seq(Line), NEW d \in Deps,
         NEW m \in Nat, NEW o \in [1..m -> Targets], NEW n \in 0..m
  PROVE  WithMarks(L, o, n, d, L \o MarksOf(o, n, d))
<1> DEFINE es == MarksOf(o, n, d)
           M == L \o es
<1>1. es \in Seq(Line) /\ Len(es) = n /\ \A i \in 1..n : es[i] = Mark(o[i], d)
  BY MarksFacts, SeqMonotonic DEF Line
<1> HIDE DEF es
<1>2. /\ Len(L) \in Nat /\ M \in Seq(Line) /\ DOMAIN L = 1..Len(L)
      /\ DOMAIN M = 1..(Len(L) + n)
      /\ \A i \in 1..Len(L) : M[i] = L[i]
      /\ \A i \in 1..n : M[Len(L) + i] = es[i]
  <2>1. M \in Seq(Line) /\ Joined(L, es, M)  BY <1>1, ConcatFacts
  <2> HIDE DEF M
  <2>2. QED  BY <1>1, <2>1 DEF Joined
<1> HIDE DEF M
<1>3. ASSUME NEW a \in Nat, NEW b \in Nat
      PROVE  /\ \A k \in 1..(a + b) : k \in 1..a \/ (k - a \in 1..b /\ k = a + (k - a))
             /\ \A i \in 1..b : ~(a + i \in 1..a) /\ a + i \in 1..(a + b)
             /\ 1..a \subseteq 1..(a + b)
  <2>1. \A k \in 1..(a + b) : k \in 1..a \/ (k - a \in 1..b /\ k = a + (k - a))  OBVIOUS
  <2>2. \A i \in 1..b : ~(a + i \in 1..a) /\ a + i \in 1..(a + b)  OBVIOUS
  <2>3. 1..a \subseteq 1..(a + b)  OBVIOUS
  <2>4. QED  BY <2>1, <2>2, <2>3
<1>4. n \in Nat  OBVIOUS
<1>5. /\ \A k \in 1..(Len(L) + n) : k \in 1..Len(L) \/ \E i \in 1..n : k = Len(L) + i
      /\ \A i \in 1..n : ~(Len(L) + i \in 1..Len(L)) /\ Len(L) + i \in 1..(Len(L) + n)
      /\ 1..Len(L) \subseteq 1..(Len(L) + n)
  <2>1. ASSUME NEW k \in 1..(Len(L) + n), k \notin 1..Len(L)
        PROVE  \E i \in 1..n : k = Len(L) + i
    <3>1. k - Len(L) \in 1..n /\ k = Len(L) + (k - Len(L))  BY <1>2, <1>3, <1>4, <2>1
    <3>2. QED  BY <3>1
  <2>2. QED  BY <1>2, <1>3, <1>4, <2>1
<1>6. WithMarks(L, o, n, d, M)  BY <1>1, <1>2, <1>5 DEF WithMarks
<1>7. QED  BY <1>6 DEF M, es

(* The folds of M are those of L with a mark for d on each target of S. *)
MarkedOnly(L, S, d, M) ==
  /\ FoldAccepted(M) = FoldAccepted(L)
  /\ FoldBlocking(M) = FoldBlocking(L)
  /\ \A t \in Targets :
       FoldMarked(M)[t] = IF t \in S THEN FoldMarked(L)[t] \cup {d} ELSE FoldMarked(L)[t]

(* Marks change neither the accepted set nor the blocking events, and mark
   exactly the targets gone through. *)
LEMMA FoldMarks ==
  ASSUME NEW L \in Seq(Line), NEW d \in Deps,
         NEW m \in Nat, NEW o \in [1..m -> Targets], NEW n \in 0..m
  PROVE  MarkedOnly(L, Gone(o, n), d, L \o MarksOf(o, n, d))
<1> DEFINE M == L \o MarksOf(o, n, d)
           a == Len(L)
<1>1. /\ a \in Nat /\ M \in Seq(Line) /\ DOMAIN L = 1..a
      /\ \A i \in 1..a : M[i] = L[i]
      /\ \A i \in 1..n : M[a + i] = Mark(o[i], d)
      /\ \A k \in DOMAIN M : k \in 1..a \/ \E i \in 1..n : k = a + i
      /\ \A i \in 1..n : ~(a + i \in 1..a) /\ a + i \in DOMAIN M
      /\ 1..a \subseteq DOMAIN M
  <2>1. WithMarks(L, o, n, d, M)  BY ConcatMarks
  <2> HIDE DEF M
  <2>2. QED  BY <2>1 DEF WithMarks
<1> HIDE DEF M, a
<1>2. \A i \in 1..n : /\ M[a + i].type = "recheck_marked" /\ M[a + i].target = o[i]
                      /\ M[a + i].dep = d
  <2>1. \A t : /\ Mark(t, d).type = "recheck_marked" /\ Mark(t, d).target = t
               /\ Mark(t, d).dep = d
    BY DEF Mark, Entry
  <2>2. QED  BY <1>1, <2>1
<1>3. ASSUME NEW k \in DOMAIN M
      PROVE  \/ k \in 1..a /\ M[k] = L[k]
             \/ /\ M[k].type = "recheck_marked" /\ M[k].dep = d
                /\ k \notin 1..a
                /\ \E i \in 1..n : M[k].target = o[i]
  BY <1>1, <1>2
<1>4. FoldAccepted(M) = FoldAccepted(L)
  <2>1. ASSUME NEW t  PROVE MembershipOf(M, t) = MembershipOf(L, t)
    BY <1>1, <1>3 DEF MembershipOf, Membership
  <2>2. ASSUME NEW t, MembershipOf(L, t) # {}
        PROVE  M[LastOf(MembershipOf(L, t))] = L[LastOf(MembershipOf(L, t))]
    <3>1. MembershipOf(L, t) \in SUBSET (1..a)  BY <1>1 DEF MembershipOf
    <3>2. LastOf(MembershipOf(L, t)) \in 1..a  BY <1>1, <2>2, <3>1, LastFound
    <3>3. QED  BY <1>1, <3>2
  <2>3. QED  BY <2>1, <2>2 DEF FoldAccepted
<1>5. FoldBlocking(M) = FoldBlocking(L)
  <2> DEFINE At(N, td) == {i \in DOMAIN N :
               N[i].type = "blocking_event" /\ <<N[i].target, N[i].dep>> = td}
  <2>1. ASSUME NEW td  PROVE At(M, td) = At(L, td)
    BY <1>1, <1>3
  <2>2. \A N : FoldBlocking(N) = [td \in Targets \X Deps |-> Cardinality(At(N, td))]
    BY DEF FoldBlocking
  <2> HIDE DEF At
  <2>3. QED  BY <2>1, <2>2
<1>6. ASSUME NEW t \in Targets
      PROVE  FoldMarked(M)[t] =
               IF t \in Gone(o, n) THEN FoldMarked(L)[t] \cup {d} ELSE FoldMarked(L)[t]
  <2> DEFINE Sets(N, i, x) == N[i].type = "recheck_marked" /\ N[i].target = t /\ N[i].dep = x
             Stands(N, x) == \E i \in DOMAIN N :
               Sets(N, i, x) /\ \A j \in DOMAIN N : j > i => ~Discharges(N[j], t, x)
  <2>1. \A N : FoldMarked(N)[t] = {x \in Deps : Stands(N, x)}  BY DEF FoldMarked
  <2>2. \A k \in DOMAIN M : k \notin 1..a => \A x : ~Discharges(M[k], t, x)
    BY <1>3 DEF Discharges
  <2>3. ASSUME NEW x \in Deps
        PROVE  Stands(M, x) <=> Stands(L, x) \/ (x = d /\ t \in Gone(o, n))
    <3>1. ASSUME NEW i \in 1..a
          PROVE  (Sets(M, i, x) /\ \A j \in DOMAIN M : j > i => ~Discharges(M[j], t, x))
                   <=> (Sets(L, i, x) /\ \A j \in DOMAIN L : j > i => ~Discharges(L[j], t, x))
      BY <1>1, <1>3, <2>2
    <3>2. ASSUME NEW i \in 1..n
          PROVE  (Sets(M, a + i, x) /\ \A j \in DOMAIN M : j > a + i => ~Discharges(M[j], t, x))
                   <=> (o[i] = t /\ x = d)
      <4>1. \A j \in DOMAIN M : j > a + i => j \notin 1..a  BY <1>1
      <4>2. Sets(M, a + i, x) <=> o[i] = t /\ x = d  BY <1>2
      <4>3. QED  BY <2>2, <4>1, <4>2
    <3>3. t \in Gone(o, n) <=> \E i \in 1..n : o[i] = t  BY DEF Gone
    <3>4. ASSUME Stands(M, x)  PROVE Stands(L, x) \/ (x = d /\ t \in Gone(o, n))
      <4>1. PICK k \in DOMAIN M : Sets(M, k, x) /\ \A j \in DOMAIN M : j > k => ~Discharges(M[j], t, x)
        BY <3>4
      <4>2. CASE k \in 1..a  BY <1>1, <3>1, <4>1, <4>2
      <4>3. CASE \E i \in 1..n : k = a + i  BY <3>2, <3>3, <4>1, <4>3
      <4>4. QED  BY <1>1, <4>2, <4>3
    <3>5. ASSUME Stands(L, x)  PROVE Stands(M, x)
      <4>1. PICK k \in DOMAIN L : Sets(L, k, x) /\ \A j \in DOMAIN L : j > k => ~Discharges(L[j], t, x)
        BY <3>5
      <4>2. QED  BY <1>1, <3>1, <4>1
    <3>6. ASSUME x = d, t \in Gone(o, n)  PROVE Stands(M, x)
      <4>1. PICK i \in 1..n : o[i] = t  BY <3>3, <3>6
      <4>2. QED  BY <1>1, <3>2, <3>6, <4>1
    <3>7. QED  BY <3>4, <3>5, <3>6
  <2>4. FoldMarked(M)[t] = {x \in Deps : Stands(M, x)} /\ FoldMarked(L)[t] = {x \in Deps : Stands(L, x)}
    BY <2>1
  <2> HIDE DEF Stands, Sets
  <2>5. QED  BY <2>3, <2>4
<1>7. QED  BY <1>4, <1>5, <1>6 DEF MarkedOnly, M

(* Every accepted result in memory is one of finitely many. *)
Members == {t \in Targets : accepted[t] # NoCandidate}

(* What recheck_dependents does: the first k marks of some order over the
   dependents that are accepted are written and in memory, and either that is
   all of them or the next append does not return. *)
LEMMA RecheckShape ==
  ASSUME TypeOK, IsFiniteSet(Members), NEW d \in Deps, NEW dependents \in SUBSET Targets,
         RecheckDependents(d, dependents)
  PROVE  \E m \in Nat : \E o \in [1..m -> Targets], k \in 0..m :
           /\ up
           /\ Gone(o, m) \subseteq Members
           /\ \/ /\ file' = WrittenAll(file, MarksOf(o, k, d))
                 /\ marked' = MarkedFor(marked, Gone(o, k), d)
                 /\ UNCHANGED <<up, accepted, blocking, faults>>
              \/ /\ k + 1 \in 1..m
                 /\ Failed(WrittenAll(file, MarksOf(o, k, d)),
                           MarkedFor(marked, Gone(o, k), d), Mark(o[k + 1], d))
<1> DEFINE members == Markable(dependents)
           m == Cardinality(members)
<1>1. members \in SUBSET Members /\ members \subseteq Targets  BY DEF Markable, Members
<1>2. IsFiniteSet(members) /\ m \in Nat
  <2> HIDE DEF members
  <2>1. IsFiniteSet(members)  BY <1>1, FS_Subset
  <2>2. QED  BY <2>1, FS_CardinalityType
<1>3. PICK o \in Orders(members) :
       \/ /\ file' = WrittenAll(file, [i \in DOMAIN o |-> Mark(o[i], d)])
          /\ marked' = MarkedFor(marked, members, d)
          /\ UNCHANGED <<up, accepted, blocking, faults>>
       \/ \E n \in DOMAIN o :
            Failed(WrittenAll(file, [i \in 1..(n - 1) |-> Mark(o[i], d)]),
                   MarkedFor(marked, {o[i] : i \in 1..(n - 1)}, d),
                   Mark(o[n], d))
  BY DEF RecheckDependents
<1>4. up  BY DEF RecheckDependents
<1> HIDE DEF members
<1>5. o \in [1..m -> members] /\ \A i, j \in 1..m : o[i] = o[j] => i = j
  BY <1>3 DEF Orders
<1>6. o \in [1..m -> Targets] /\ DOMAIN o = 1..m /\ Gone(o, m) \subseteq Members
  BY <1>1, <1>5 DEF Gone
<1>7. Gone(o, m) = members
  <2>1. o \in Injection(1..m, members)  BY <1>5 DEF Injection, IsInjective
  <2>2. Cardinality(1..m) = m  BY <1>2, FS_Interval
  <2>3. o \in Surjection(1..m, members)  BY <1>2, <2>1, <2>2, FS_Injection
  <2>4. QED  BY <2>3 DEF Surjection, Gone
<1>8. CASE /\ file' = WrittenAll(file, [i \in DOMAIN o |-> Mark(o[i], d)])
           /\ marked' = MarkedFor(marked, members, d)
           /\ UNCHANGED <<up, accepted, blocking, faults>>
  <2>1. m \in 0..m  BY <1>2
  <2>2. file' = WrittenAll(file, MarksOf(o, m, d))  BY <1>6, <1>8 DEF MarksOf
  <2> HIDE DEF m
  <2>3. QED  BY <1>2, <1>4, <1>6, <1>7, <1>8, <2>1, <2>2
<1>9. CASE \E n \in DOMAIN o :
            Failed(WrittenAll(file, [i \in 1..(n - 1) |-> Mark(o[i], d)]),
                   MarkedFor(marked, {o[i] : i \in 1..(n - 1)}, d),
                   Mark(o[n], d))
  <2>1. PICK n \in DOMAIN o :
            Failed(WrittenAll(file, [i \in 1..(n - 1) |-> Mark(o[i], d)]),
                   MarkedFor(marked, {o[i] : i \in 1..(n - 1)}, d),
                   Mark(o[n], d))
    BY <1>9
  <2> DEFINE k == n - 1
  <2> HIDE DEF m
  <2>2. k \in 0..m /\ k + 1 = n /\ k + 1 \in 1..m  BY <1>2, <1>6
  <2>3. Failed(WrittenAll(file, MarksOf(o, k, d)), MarkedFor(marked, Gone(o, k), d), Mark(o[k + 1], d))
    BY <2>1, <2>2 DEF MarksOf, Gone
  <2> HIDE DEF k
  <2>4. QED  BY <1>2, <1>4, <1>6, <2>2, <2>3
<1>10. QED  BY <1>3, <1>8, <1>9

-------------------------------------------------------------------------------
(* The invariant of any fault model *)

Admits(e, t) == e.type \in {"accept", "recheck_confirmed"} /\ e.target = t

(* What event e needs of the first n lines of a log. *)
Rests(L, n, e) ==
  /\ e.type \in {"remove", "blocking_event", "recheck_marked"} => e.candidate = NoCandidate
  /\ e.type = "recheck_marked" =>
       /\ e = Mark(e.target, e.dep)
       /\ \E i \in 1..n : Admits(L[i], e.target)
  /\ e.type \in {"recheck_confirmed", "blocking_event"} =>
       \E j \in 1..n : L[j] = Mark(e.target, e.dep)

(* Every event of a log rests on what was there before it. *)
LogOK(L) == \A k \in DOMAIN L : Rests(L, k - 1, L[k])

(* The log vouches for what is in memory: an accepted target was admitted, a
   mark was logged.  Memory need not be the fold for that. *)
Vouched(L, acc, mk) ==
  \A t \in Targets :
    /\ acc[t] # NoCandidate => \E i \in DOMAIN L : Admits(L[i], t)
    /\ \A d \in mk[t] : \E j \in DOMAIN L : L[j] = Mark(t, d)

RatchetInv ==
  /\ TypeOK
  /\ IsFiniteSet(Members)
  /\ Readable(file) => LogOK(file.lines) /\ Vouched(file.lines, accepted, marked)

(* What rests on a log still does when the log grows. *)
LEMMA RestsAppend ==
  ASSUME NEW L \in Seq(Line), NEW e \in Event, LogOK(L), Rests(L, Len(L), e)
  PROVE  LogOK(Append(L, e))
<1> DEFINE n == Len(L)
           M == Append(L, e)
<1>1. /\ n \in Nat /\ DOMAIN L = 1..n /\ DOMAIN M = 1..n \cup {n + 1}
      /\ M[n + 1] = e /\ \A i \in 1..n : M[i] = L[i]
  BY AppendFacts
<1> HIDE DEF M, n
<1>2. ASSUME NEW k \in 0..n, NEW x, Rests(L, k, x)  PROVE Rests(M, k, x)
  <2>1. \A i \in 1..k : M[i] = L[i]  BY <1>1
  <2>2. QED  BY <1>2, <2>1 DEF Rests
<1>3. Rests(M, n, e)
  <2>1. n \in 0..n  BY <1>1
  <2>2. QED  BY <1>2, <2>1 DEF n
<1>4. ASSUME NEW k \in 1..n  PROVE Rests(M, k - 1, M[k])
  <2>1. k - 1 \in 0..n /\ Rests(L, k - 1, L[k]) /\ M[k] = L[k]  BY <1>1 DEF LogOK
  <2>2. QED  BY <1>2, <2>1
<1>5. (n + 1) - 1 = n  BY <1>1
<1>6. LogOK(M)  BY <1>1, <1>3, <1>4, <1>5 DEF LogOK
<1>7. QED  BY <1>6 DEF M

(* Memory a log vouches for is vouched for by a longer one, and so is what one
   more event puts there. *)
LEMMA VouchedAppend ==
  ASSUME NEW L \in Seq(Line), NEW e \in Event, NEW acc, NEW mk, Vouched(L, acc, mk)
  PROVE  /\ Vouched(Append(L, e), acc, mk)
         /\ \A acc2, mk2 :
              /\ \A t \in Targets : acc2[t] # NoCandidate => acc[t] # NoCandidate \/ Admits(e, t)
              /\ \A t \in Targets : mk2[t] \subseteq mk[t]
              => Vouched(Append(L, e), acc2, mk2)
<1>1. /\ DOMAIN L = 1..Len(L) /\ DOMAIN Append(L, e) = 1..Len(L) \cup {Len(L) + 1}
      /\ Append(L, e)[Len(L) + 1] = e /\ \A i \in 1..Len(L) : Append(L, e)[i] = L[i]
  BY AppendFacts
<1> DEFINE n == Len(L)
           M == Append(L, e)
<1>2. /\ DOMAIN L = 1..n /\ DOMAIN M = 1..n \cup {n + 1}
      /\ M[n + 1] = e /\ \A i \in 1..n : M[i] = L[i]
  BY <1>1
<1> HIDE DEF M, n
<1>3. Vouched(M, acc, mk)  BY <1>2 DEF Vouched
<1>4. ASSUME NEW acc2, NEW mk2,
             \A t \in Targets : acc2[t] # NoCandidate => acc[t] # NoCandidate \/ Admits(e, t),
             \A t \in Targets : mk2[t] \subseteq mk[t]
      PROVE  Vouched(M, acc2, mk2)
  BY <1>2, <1>3, <1>4 DEF Vouched
<1>5. QED  BY <1>3, <1>4 DEF M

(* The same of the marks of recheck_dependents, for accepted targets. *)
LEMMA MarksVouched ==
  ASSUME TypeOK, NEW L \in Seq(Line), NEW d \in Deps,
         NEW m \in Nat, NEW o \in [1..m -> Targets], NEW n \in 0..m,
         Gone(o, m) \subseteq Members, LogOK(L), Vouched(L, accepted, marked)
  PROVE  /\ LogOK(L \o MarksOf(o, n, d))
         /\ Vouched(L \o MarksOf(o, n, d), accepted, MarkedFor(marked, Gone(o, n), d))
         /\ \A i \in 1..m : Rests(L \o MarksOf(o, n, d), Len(L \o MarksOf(o, n, d)), Mark(o[i], d))
<1> DEFINE M == L \o MarksOf(o, n, d)
           a == Len(L)
<1>1. WithMarks(L, o, n, d, M)  BY ConcatMarks
<1>2. M \in Seq(Line) /\ Len(M) \in Nat /\ DOMAIN M = 1..Len(M)
  <2>1. M \in Seq(Line)  BY <1>1 DEF WithMarks
  <2> HIDE DEF M
  <2>2. QED  BY <2>1, LenProperties
<1> HIDE DEF M
<1>3. /\ a \in Nat /\ n \in Nat /\ DOMAIN L = 1..a /\ DOMAIN M = 1..(a + n)
      /\ \A i \in 1..a : M[i] = L[i]
      /\ \A i \in 1..n : M[a + i] = Mark(o[i], d)
      /\ \A k \in DOMAIN M : k \in 1..a \/ \E i \in 1..n : k = a + i
      /\ \A i \in 1..n : ~(a + i \in 1..a) /\ a + i \in DOMAIN M
      /\ 1..a \subseteq DOMAIN M
  BY <1>1 DEF WithMarks
<1> HIDE DEF a
<1>4. \A t : /\ Mark(t, d).type = "recheck_marked" /\ Mark(t, d).target = t
             /\ Mark(t, d).dep = d /\ Mark(t, d).candidate = NoCandidate
  BY DEF Mark, Entry
<1>5. \A i \in 1..m : o[i] \in Targets /\ \E j \in 1..a : Admits(L[j], o[i])
  <2>1. \A i \in 1..m : o[i] \in Members  BY DEF Gone
  <2>2. QED  BY <1>3, <2>1 DEF Vouched, Members
<1>6. ASSUME NEW i \in 1..m, NEW k, 1..a \subseteq 1..k  PROVE Rests(M, k, Mark(o[i], d))
  <2>1. PICK j \in 1..a : Admits(L[j], o[i])  BY <1>5
  <2>2. j \in 1..k /\ M[j] = L[j]  BY <1>3, <1>6
  <2>3. Admits(M[j], o[i])  BY <2>1, <2>2
  <2>4. QED  BY <1>4, <2>2, <2>3 DEF Rests
<1>7. ASSUME NEW k \in DOMAIN M  PROVE Rests(M, k - 1, M[k])
  <2>1. CASE k \in 1..a
    <3>1. \A j \in 1..(k - 1) : M[j] = L[j]  BY <1>3, <2>1
    <3>2. Rests(L, k - 1, L[k])  BY <1>3, <2>1 DEF LogOK
    <3>3. M[k] = L[k]  BY <1>3, <2>1
    <3>4. QED  BY <3>1, <3>2, <3>3 DEF Rests
  <2>2. ASSUME NEW i \in 1..n, k = a + i  PROVE Rests(M, k - 1, M[k])
    <3>1. i \in 1..m /\ 1..a \subseteq 1..(k - 1)  BY <1>3, <2>2
    <3>2. Rests(M, k - 1, Mark(o[i], d))  BY <1>6, <3>1
    <3>3. M[k] = Mark(o[i], d)  BY <1>3, <2>2
    <3>4. QED  BY <3>2, <3>3
  <2>3. QED  BY <1>3, <2>1, <2>2
<1>8. LogOK(M)  BY <1>7 DEF LogOK
<1>9. \A i \in 1..m : Rests(M, Len(M), Mark(o[i], d))
  <2>1. 1..a \subseteq 1..Len(M)  BY <1>2, <1>3
  <2>2. QED  BY <1>6, <2>1
<1>10. Vouched(M, accepted, MarkedFor(marked, Gone(o, n), d))
  <2>1. ASSUME NEW t \in Targets, accepted[t] # NoCandidate
        PROVE  \E i \in DOMAIN M : Admits(M[i], t)
    <3>1. PICK i \in 1..a : Admits(L[i], t)  BY <1>3, <2>1 DEF Vouched
    <3>2. QED  BY <1>3, <3>1
  <2>2. ASSUME NEW t \in Targets, NEW x \in MarkedFor(marked, Gone(o, n), d)[t]
        PROVE  \E j \in DOMAIN M : M[j] = Mark(t, x)
    <3>1. CASE x \in marked[t]
      <4>1. PICK j \in 1..a : L[j] = Mark(t, x)  BY <1>3, <3>1 DEF Vouched
      <4>2. QED  BY <1>3, <4>1
    <3>2. CASE x = d /\ t \in Gone(o, n)
      <4>1. PICK i \in 1..n : o[i] = t  BY <3>2 DEF Gone
      <4>2. QED  BY <1>3, <3>2, <4>1
    <3>3. QED  BY <2>2, <3>1, <3>2 DEF MarkedFor
  <2>3. QED  BY <2>1, <2>2 DEF Vouched
<1>11. QED  BY <1>8, <1>9, <1>10 DEF M

(* An append that does not return. *)
LEMMA FailedInv ==
  ASSUME TypeOK, IsFiniteSet(Members), NEW f \in Files(Event), NEW e \in Event,
         NEW m \in [Targets -> SUBSET Deps],
         Readable(f) => /\ LogOK(f.lines) /\ Vouched(f.lines, accepted, m)
                        /\ Rests(f.lines, Len(f.lines), e),
         Failed(f, m, e)
  PROVE  RatchetInv'
<1>1. PICK w \in Outcomes : file' = Interrupted(f, e, w)
  BY OutcomesAssumption DEF Failed
<1>2. file' \in Files(Event)  BY <1>1, WriteType
<1>3. faults' \in 0..MaxFaults  BY BoundsAssumption DEF Failed, TypeOK
<1>4. ASSUME Readable(file')
      PROVE  LogOK(file'.lines) /\ Vouched(file'.lines, accepted, m)
  <2>1. Readable(f) /\ (file'.lines = f.lines \/ file'.lines = Append(f.lines, e))
    BY <1>1, <1>4, InterruptedExtends DEF Extends
  <2>2. f.lines \in Seq(Line)  BY DEF Files, Line
  <2>3. LogOK(Append(f.lines, e)) /\ Vouched(Append(f.lines, e), accepted, m)
    BY <2>1, <2>2, RestsAppend, VouchedAppend
  <2>4. QED  BY <2>1, <2>3
<1>5. CASE marked' = m /\ UNCHANGED <<up, accepted, blocking>>
  <2>1. TypeOK'  BY <1>2, <1>3, <1>5 DEF TypeOK
  <2>2. Members' = Members  BY <1>5 DEF Members
  <2>3. QED  BY <1>4, <1>5, <2>1, <2>2 DEF RatchetInv
<1>6. CASE Down
  <2>1. TypeOK'  BY <1>2, <1>3, <1>6 DEF TypeOK, Down, Nobody, Unmarked, Silence
  <2>2. Members' = {}  BY <1>6 DEF Members, Down, Nobody
  <2>3. Readable(file') => Vouched(file'.lines, accepted', marked')
    BY <1>6 DEF Down, Nobody, Unmarked, Vouched
  <2>4. QED  BY <1>4, <2>1, <2>2, <2>3, FS_EmptySet DEF RatchetInv
<1>7. QED  BY <1>5, <1>6 DEF Failed

(* A method that appends one event and then updates memory. *)
LEMMA LogAppendInv ==
  ASSUME RatchetInv, NEW e \in Event,
         NEW acc \in [Targets -> Candidates \cup {NoCandidate}],
         NEW mk \in [Targets -> SUBSET Deps],
         NEW bl \in [Targets \X Deps -> Nat],
         \A t \in Targets \ {e.target} : acc[t] = accepted[t],
         \A t \in Targets : acc[t] # NoCandidate => accepted[t] # NoCandidate \/ Admits(e, t),
         \A t \in Targets : mk[t] \subseteq marked[t],
         Readable(file) => Rests(file.lines, Len(file.lines), e),
         LogAppend(e, acc, mk, bl)
  PROVE  RatchetInv'
<1>1. TypeOK /\ IsFiniteSet(Members) /\ file \in Files(Event)
  BY DEF RatchetInv, TypeOK
<1>2. CASE /\ file' = Written(file, e)
           /\ accepted' = acc /\ marked' = mk /\ blocking' = bl
           /\ UNCHANGED <<up, faults>>
  <2>1. file' \in Files(Event)  BY <1>1, <1>2, WriteType
  <2>2. TypeOK'  BY <1>1, <1>2, <2>1 DEF TypeOK
  <2>3. IsFiniteSet(Members')
    <3>1. Members' \subseteq Members \cup {e.target}  BY <1>2 DEF Members
    <3>2. IsFiniteSet(Members \cup {e.target})  BY <1>1, FS_AddElement
    <3>3. QED  BY <3>1, <3>2, FS_Subset
  <2>4. ASSUME Readable(file')
        PROVE  LogOK(file'.lines) /\ Vouched(file'.lines, acc, mk)
    <3>1. Readable(file) /\ file'.lines = Append(file.lines, e)
      BY <1>1, <1>2, <2>4, WrittenExtends
    <3>2. file.lines \in Seq(Line)  BY <1>1 DEF Files, Line
    <3>3. LogOK(file.lines) /\ Vouched(file.lines, accepted, marked)
      BY <3>1 DEF RatchetInv
    <3>4. LogOK(Append(file.lines, e))  BY <3>1, <3>2, <3>3, RestsAppend
    <3>5. Vouched(Append(file.lines, e), acc, mk)  BY <3>2, <3>3, VouchedAppend
    <3>6. QED  BY <3>1, <3>4, <3>5
  <2>5. QED  BY <1>2, <2>2, <2>3, <2>4 DEF RatchetInv
<1>3. CASE Failed(file, marked, e)
  <2>1. marked \in [Targets -> SUBSET Deps]  BY <1>1 DEF TypeOK
  <2>2. QED  BY <1>1, <1>3, <2>1, FailedInv DEF RatchetInv
<1>4. QED  BY <1>2, <1>3 DEF LogAppend

(* accept. *)
LEMMA AcceptInv ==
  ASSUME RatchetInv, NEW r \in Receipts, NEW a \in Audits, Accept(r, a)
  PROVE  RatchetInv'
<1> DEFINE e == Entry("accept", r.target, r.candidate, "none")
           acc == [accepted EXCEPT ![r.target] = r.candidate]
           mk == [marked EXCEPT ![r.target] = {}]
<1>1. r.target \in Targets /\ r.candidate \in Candidates  BY DEF Receipts
<1>2. e \in Event /\ e.type = "accept" /\ e.target = r.target  BY <1>1 DEF Entry, Event
<1>3. /\ accepted \in [Targets -> Candidates \cup {NoCandidate}]
      /\ marked \in [Targets -> SUBSET Deps]
      /\ blocking \in [Targets \X Deps -> Nat]
  BY DEF RatchetInv, TypeOK
<1>4. /\ acc \in [Targets -> Candidates \cup {NoCandidate}]
      /\ mk \in [Targets -> SUBSET Deps]
      /\ \A t \in Targets \ {e.target} : acc[t] = accepted[t]
      /\ \A t \in Targets : acc[t] # NoCandidate => accepted[t] # NoCandidate \/ Admits(e, t)
      /\ \A t \in Targets : mk[t] \subseteq marked[t]
  BY <1>1, <1>2, <1>3 DEF Admits
<1>5. Readable(file) => Rests(file.lines, Len(file.lines), e)  BY <1>2 DEF Rests
<1>6. LogAppend(e, acc, mk, blocking)  BY DEF Accept
<1> HIDE DEF e, acc, mk
<1>7. QED  BY <1>2, <1>3, <1>4, <1>5, <1>6, LogAppendInv

(* remove. *)
LEMMA RemoveInv ==
  ASSUME RatchetInv, NEW t \in Targets, Remove(t)
  PROVE  RatchetInv'
<1> DEFINE e == Entry("remove", t, NoCandidate, "none")
           acc == [accepted EXCEPT ![t] = NoCandidate]
<1>1. e \in Event /\ e.type = "remove" /\ e.target = t /\ e.candidate = NoCandidate
  BY DEF Entry, Event
<1>2. /\ accepted \in [Targets -> Candidates \cup {NoCandidate}]
      /\ marked \in [Targets -> SUBSET Deps]
      /\ blocking \in [Targets \X Deps -> Nat]
  BY DEF RatchetInv, TypeOK
<1>3. /\ acc \in [Targets -> Candidates \cup {NoCandidate}]
      /\ \A u \in Targets \ {e.target} : acc[u] = accepted[u]
      /\ \A u \in Targets : acc[u] # NoCandidate => accepted[u] # NoCandidate \/ Admits(e, u)
      /\ \A u \in Targets : marked[u] \subseteq marked[u]
  BY <1>1, <1>2
<1>4. Readable(file) => Rests(file.lines, Len(file.lines), e)  BY <1>1 DEF Rests
<1>5. LogAppend(e, acc, marked, blocking)  BY DEF Remove
<1> HIDE DEF e, acc
<1>6. QED  BY <1>1, <1>2, <1>3, <1>4, <1>5, LogAppendInv

(* recheck_dependents, whichever of its appends fails. *)
LEMMA RecheckDependentsInv ==
  ASSUME RatchetInv, NEW d \in Deps, NEW dependents \in SUBSET Targets,
         RecheckDependents(d, dependents)
  PROVE  RatchetInv'
<1>1. TypeOK /\ IsFiniteSet(Members) /\ file \in Files(Event)
  BY DEF RatchetInv, TypeOK
<1>2. PICK m \in Nat : \E o \in [1..m -> Targets], k \in 0..m :
           /\ up
           /\ Gone(o, m) \subseteq Members
           /\ \/ /\ file' = WrittenAll(file, MarksOf(o, k, d))
                 /\ marked' = MarkedFor(marked, Gone(o, k), d)
                 /\ UNCHANGED <<up, accepted, blocking, faults>>
              \/ /\ k + 1 \in 1..m
                 /\ Failed(WrittenAll(file, MarksOf(o, k, d)),
                           MarkedFor(marked, Gone(o, k), d), Mark(o[k + 1], d))
  BY <1>1, RecheckShape
<1>3. PICK o \in [1..m -> Targets], k \in 0..m :
           /\ Gone(o, m) \subseteq Members
           /\ \/ /\ file' = WrittenAll(file, MarksOf(o, k, d))
                 /\ marked' = MarkedFor(marked, Gone(o, k), d)
                 /\ UNCHANGED <<up, accepted, blocking, faults>>
              \/ /\ k + 1 \in 1..m
                 /\ Failed(WrittenAll(file, MarksOf(o, k, d)),
                           MarkedFor(marked, Gone(o, k), d), Mark(o[k + 1], d))
  BY <1>2
<1> DEFINE es == MarksOf(o, k, d)
           f == WrittenAll(file, es)
           mk == MarkedFor(marked, Gone(o, k), d)
<1>4. es \in Seq(Event)  BY MarksFacts
<1>5. mk \in [Targets -> SUBSET Deps]  BY <1>1 DEF TypeOK, MarkedFor
<1>6. /\ f \in Files(Event)
      /\ Readable(f) => Readable(file) /\ f.lines = file.lines \o es
  BY <1>1, <1>4, WrittenAllExtends
<1>7. ASSUME Readable(f)
      PROVE  /\ LogOK(f.lines) /\ Vouched(f.lines, accepted, mk)
             /\ \A i \in 1..m : Rests(f.lines, Len(f.lines), Mark(o[i], d))
  <2>1. file.lines \in Seq(Line)  BY <1>1 DEF Files, Line
  <2>2. LogOK(file.lines) /\ Vouched(file.lines, accepted, marked)
    BY <1>6, <1>7 DEF RatchetInv
  <2>3. f.lines = file.lines \o es  BY <1>6, <1>7
  <2>4. /\ LogOK(file.lines \o es) /\ Vouched(file.lines \o es, accepted, mk)
        /\ \A i \in 1..m : Rests(file.lines \o es, Len(file.lines \o es), Mark(o[i], d))
    BY <1>1, <1>3, <2>1, <2>2, MarksVouched
  <2> HIDE DEF f, es, mk
  <2>5. QED  BY <2>3, <2>4
<1>8. CASE /\ file' = f
           /\ marked' = mk
           /\ UNCHANGED <<up, accepted, blocking, faults>>
  <2> HIDE DEF f, es, mk
  <2>1. TypeOK'  BY <1>1, <1>5, <1>6, <1>8 DEF TypeOK
  <2>2. Members' = Members  BY <1>8 DEF Members
  <2>3. QED  BY <1>1, <1>7, <1>8, <2>1, <2>2 DEF RatchetInv
<1>9. CASE /\ k + 1 \in 1..m
           /\ Failed(f, mk, Mark(o[k + 1], d))
  <2>1. Mark(o[k + 1], d) \in Event
    <3>1. o[k + 1] \in Targets  BY <1>9
    <3>2. QED  BY <3>1 DEF Mark, Entry, Event
  <2> HIDE DEF f, es, mk
  <2>2. QED  BY <1>1, <1>5, <1>6, <1>7, <1>9, <2>1, FailedInv
<1>10. QED  BY <1>3, <1>8, <1>9

(* record_recheck_result: the mark it answers was logged. *)
LEMMA RecordRecheckResultInv ==
  ASSUME RatchetInv, NEW t \in Targets, NEW d \in Deps,
         NEW r \in Receipts \cup {NoArtifact}, NEW a \in Audits \cup {NoArtifact},
         RecordRecheckResult(t, d, r, a)
  PROVE  RatchetInv'
<1>1. /\ accepted \in [Targets -> Candidates \cup {NoCandidate}]
      /\ marked \in [Targets -> SUBSET Deps]
      /\ blocking \in [Targets \X Deps -> Nat]
      /\ file \in Files(Event)
  BY DEF RatchetInv, TypeOK
<1>2. d \in marked[t]  BY DEF RecordRecheckResult, Owed
<1>3. Readable(file) => \E j \in 1..Len(file.lines) : file.lines[j] = Mark(t, d)
  <2>1. DOMAIN file.lines = 1..Len(file.lines)  BY <1>1, LenProperties DEF Files
  <2>2. QED  BY <1>2, <2>1 DEF RatchetInv, Vouched
<1>4. CASE /\ Holds(r, a)
           /\ LogAppend(Entry("recheck_confirmed", t, r.candidate, d),
                        [accepted EXCEPT ![t] = r.candidate],
                        Confirmed(marked, t, d), blocking)
  <2> DEFINE e == Entry("recheck_confirmed", t, r.candidate, d)
             acc == [accepted EXCEPT ![t] = r.candidate]
             mk == Confirmed(marked, t, d)
  <2>1. r.candidate \in Candidates  BY <1>4 DEF Holds, Receipts
  <2>2. e \in Event /\ e.type = "recheck_confirmed" /\ e.target = t /\ e.dep = d
    BY <2>1 DEF Entry, Event
  <2>3. /\ acc \in [Targets -> Candidates \cup {NoCandidate}]
        /\ mk \in [Targets -> SUBSET Deps]
        /\ \A u \in Targets \ {e.target} : acc[u] = accepted[u]
        /\ \A u \in Targets : acc[u] # NoCandidate => accepted[u] # NoCandidate \/ Admits(e, u)
        /\ \A u \in Targets : mk[u] \subseteq marked[u]
    BY <1>1, <2>1, <2>2 DEF Admits, Confirmed
  <2>4. Readable(file) => Rests(file.lines, Len(file.lines), e)
    BY <1>3, <2>2 DEF Rests
  <2> HIDE DEF e, acc, mk
  <2>5. LogAppend(e, acc, mk, blocking)  BY <1>4 DEF e, acc, mk
  <2>6. QED  BY <1>1, <2>2, <2>3, <2>4, <2>5, LogAppendInv
<1>5. CASE LogAppend(Entry("blocking_event", t, NoCandidate, d),
                     [accepted EXCEPT ![t] = NoCandidate],
                     [marked EXCEPT ![t] = {}],
                     [blocking EXCEPT ![<<t, d>>] = @ + 1])
  <2> DEFINE e == Entry("blocking_event", t, NoCandidate, d)
             acc == [accepted EXCEPT ![t] = NoCandidate]
             mk == [marked EXCEPT ![t] = {}]
             bl == [blocking EXCEPT ![<<t, d>>] = @ + 1]
  <2>1. /\ e \in Event /\ e.type = "blocking_event" /\ e.target = t /\ e.dep = d
        /\ e.candidate = NoCandidate
    BY DEF Entry, Event
  <2>2. /\ acc \in [Targets -> Candidates \cup {NoCandidate}]
        /\ mk \in [Targets -> SUBSET Deps]
        /\ \A u \in Targets \ {e.target} : acc[u] = accepted[u]
        /\ \A u \in Targets : acc[u] # NoCandidate => accepted[u] # NoCandidate \/ Admits(e, u)
        /\ \A u \in Targets : mk[u] \subseteq marked[u]
    BY <1>1, <2>1
  <2>3. bl \in [Targets \X Deps -> Nat]
    <3>1. <<t, d>> \in Targets \X Deps  OBVIOUS
    <3>2. blocking[<<t, d>>] \in Nat  BY <1>1, <3>1
    <3>3. QED  BY <1>1, <3>2
  <2>4. Readable(file) => Rests(file.lines, Len(file.lines), e)
    BY <1>3, <2>1 DEF Rests
  <2> HIDE DEF e, acc, mk, bl
  <2>5. LogAppend(e, acc, mk, bl)  BY <1>5 DEF e, acc, mk, bl
  <2>6. QED  BY <2>1, <2>2, <2>3, <2>4, <2>5, LogAppendInv
<1>6. QED  BY <1>4, <1>5 DEF RecordRecheckResult

(* A ratchet that starts over from its log: the last membership event carries
   a candidate only if it is an admission. *)
LEMMA ReplayInv ==
  ASSUME RatchetInv, Replay
  PROVE  RatchetInv'
<1> DEFINE L == file.lines
           n == Len(L)
<1>1. /\ Readable(file) /\ file' = file /\ faults' = faults /\ up' = TRUE
      /\ accepted' = FoldAccepted(L) /\ marked' = FoldMarked(L) /\ blocking' = FoldBlocking(L)
      /\ TypeOK /\ LogOK(L) /\ L \in Seq(Line)
  BY DEF Replay, RatchetInv, TypeOK, Files, Line
<1>2. n \in Nat /\ DOMAIN L = 1..n  BY <1>1, LenProperties
<1>3. \A i \in 1..n : L[i] \in Event
  BY <1>1, <1>2, ElementOfSeq DEF Readable, Line
<1> HIDE DEF L, n
<1>4. ASSUME NEW t \in Targets
      PROVE  /\ FoldAccepted(L)[t] \in Candidates \cup {NoCandidate}
             /\ FoldAccepted(L)[t] # NoCandidate => \E i \in 1..n : Admits(L[i], t)
  <2>1. CASE MembershipOf(L, t) = {}  BY <2>1 DEF FoldAccepted
  <2>2. CASE MembershipOf(L, t) # {}
    <3> DEFINE i == LastOf(MembershipOf(L, t))
    <3>1. MembershipOf(L, t) \in SUBSET (1..n)  BY <1>2 DEF MembershipOf
    <3>2. i \in MembershipOf(L, t)  BY <1>2, <2>2, <3>1, LastFound
    <3>3. FoldAccepted(L)[t] = L[i].candidate  BY <2>2 DEF FoldAccepted
    <3> HIDE DEF i
    <3>4. i \in 1..n /\ L[i].target = t /\ L[i].type \in Membership
      BY <1>2, <3>2 DEF MembershipOf
    <3>5. L[i].candidate \in Candidates \cup {NoCandidate}  BY <1>3, <3>4 DEF Event
    <3>6. L[i].type \in {"remove", "blocking_event"} => L[i].candidate = NoCandidate
      BY <1>1, <1>2, <3>4 DEF LogOK, Rests
    <3>7. QED  BY <3>3, <3>4, <3>5, <3>6 DEF Membership, Admits
  <2>3. QED  BY <2>1, <2>2
<1>5. ASSUME NEW t \in Targets, NEW d \in FoldMarked(L)[t]
      PROVE  \E j \in 1..n : L[j] = Mark(t, d)
  <2>1. PICK j \in DOMAIN L : L[j].type = "recheck_marked" /\ L[j].target = t /\ L[j].dep = d
    BY <1>5 DEF FoldMarked
  <2>2. L[j] = Mark(t, d)  BY <1>1, <2>1 DEF LogOK, Rests
  <2>3. QED  BY <1>2, <2>1, <2>2
<1>6. FoldAccepted(L) \in [Targets -> Candidates \cup {NoCandidate}]
  BY <1>4 DEF FoldAccepted
<1>7. FoldMarked(L) \in [Targets -> SUBSET Deps]  BY DEF FoldMarked
<1>8. FoldBlocking(L) \in [Targets \X Deps -> Nat]
  BY <1>1, BlockingFinite DEF FoldBlocking
<1>9. TypeOK'  BY <1>1, <1>6, <1>7, <1>8 DEF TypeOK
<1>10. IsFiniteSet(Members')
  <2> DEFINE g == [i \in 1..n |-> L[i].target]
             T == {g[i] : i \in 1..n}
  <2>1. IsFiniteSet(1..n)  BY <1>2, FS_Interval
  <2>2. g \in Surjection(1..n, T)  BY DEF Surjection
  <2>3. Members' \subseteq T  BY <1>1, <1>4 DEF Members, Admits
  <2> HIDE DEF g, T
  <2>4. IsFiniteSet(T)  BY <2>1, <2>2, FS_Surjection
  <2>5. QED  BY <2>3, <2>4, FS_Subset
<1>11. Vouched(L, FoldAccepted(L), FoldMarked(L))  BY <1>2, <1>4, <1>5 DEF Vouched
<1>12. QED  BY <1>1, <1>9, <1>10, <1>11 DEF RatchetInv, L

(* The invariant holds of an empty log. *)
LEMMA RatchetInvInit ==
  ASSUME Init
  PROVE  RatchetInv
<1>1. file.lines = <<>> /\ ~file.open /\ file \in Files(Event)
  BY EmptySeq DEF Init, EmptyFile, Files
<1>2. TypeOK  BY <1>1, BoundsAssumption DEF Init, TypeOK, Nobody, Unmarked, Silence
<1>3. Members = {}  BY DEF Init, Members, Nobody
<1>4. LogOK(file.lines)  BY <1>1 DEF LogOK
<1>5. Vouched(file.lines, accepted, marked)  BY DEF Init, Nobody, Unmarked, Vouched
<1>6. QED  BY <1>2, <1>3, <1>4, <1>5, FS_EmptySet DEF RatchetInv

(* Every step of the ratchet keeps the invariant. *)
LEMMA RatchetInvNext ==
  ASSUME RatchetInv, [Next]_vars
  PROVE  RatchetInv'
<1>1. ASSUME NEW r \in Receipts, NEW a \in Audits, Accept(r, a)  PROVE RatchetInv'
  BY <1>1, AcceptInv
<1>2. ASSUME NEW t \in Targets, Remove(t)  PROVE RatchetInv'
  BY <1>2, RemoveInv
<1>3. ASSUME NEW d \in Deps, NEW dependents \in SUBSET Targets, RecheckDependents(d, dependents)
      PROVE  RatchetInv'
  BY <1>3, RecheckDependentsInv
<1>4. ASSUME NEW t \in Targets, NEW d \in Deps,
             NEW r \in Receipts \cup {NoArtifact}, NEW a \in Audits \cup {NoArtifact},
             RecordRecheckResult(t, d, r, a)
      PROVE  RatchetInv'
  BY <1>4, RecordRecheckResultInv
<1>5. CASE Stop
  <2>1. TypeOK'  BY <1>5 DEF RatchetInv, TypeOK, Stop, Down, Nobody, Unmarked, Silence
  <2>2. Members' = {}  BY <1>5 DEF Members, Stop, Down, Nobody
  <2>3. Vouched(file'.lines, accepted', marked')
    BY <1>5 DEF Stop, Down, Nobody, Unmarked, Vouched
  <2>4. file' = file  BY <1>5 DEF Stop
  <2>5. QED  BY <2>1, <2>2, <2>3, <2>4, FS_EmptySet DEF RatchetInv
<1>6. CASE Replay
  BY <1>6, ReplayInv
<1>7. CASE UNCHANGED vars
  BY <1>7 DEF vars, RatchetInv, TypeOK, Members
<1>8. QED  BY <1>1, <1>2, <1>3, <1>4, <1>5, <1>6, <1>7 DEF Next

(* The inductive invariant holds in every reachable state. *)
THEOREM RatchetInvariant == Spec => []RatchetInv
<1>1. Init => RatchetInv  BY RatchetInvInit
<1>2. RatchetInv /\ [Next]_vars => RatchetInv'  BY RatchetInvNext
<1>3. QED  BY <1>1, <1>2, PTL DEF Spec

(* Every variable keeps its type, whatever the appends do (ratchet.py,
   Ratchet). *)
THEOREM TypeCorrect == Spec => []TypeOK
<1>1. RatchetInv => TypeOK  BY DEF RatchetInv
<1>2. QED  BY <1>1, RatchetInvariant, PTL

(* Every re-verification in a readable log answers a mark, and every mark an
   admission, whatever the appends do (recheck_dependents and
   record_recheck_result). *)
THEOREM RechecksAreAnswers == Spec => []RechecksAnswerMarks
<1>1. RatchetInv => RechecksAnswerMarks
  <2>1. SUFFICES ASSUME RatchetInv, Readable(file), NEW k \in DOMAIN file.lines,
                        file.lines[k].type \in {"recheck_confirmed", "blocking_event"}
                 PROVE  \E i, j \in DOMAIN file.lines :
                          /\ i < j /\ j < k
                          /\ file.lines[i].type \in {"accept", "recheck_confirmed"}
                          /\ file.lines[i].target = file.lines[k].target
                          /\ file.lines[j] = Mark(file.lines[k].target, file.lines[k].dep)
    BY DEF RechecksAnswerMarks
  <2> DEFINE L == file.lines
             n == Len(L)
             t == L[k].target
             d == L[k].dep
  <2>2. n \in Nat /\ DOMAIN L = 1..n /\ LogOK(L)
    BY <2>1, LenProperties DEF RatchetInv, TypeOK, Files
  <2>3. \A x : Mark(t, x).type = "recheck_marked" /\ Mark(t, x).target = t
    BY DEF Mark, Entry
  <2>4. L[k].type \in {"recheck_confirmed", "blocking_event"}  BY <2>1
  <2> HIDE DEF L, n, t, d
  <2>5. k \in 1..n  BY <2>1, <2>2 DEF L
  <2>6. PICK j \in 1..(k - 1) : L[j] = Mark(t, d)
    BY <2>2, <2>4, <2>5 DEF LogOK, Rests, t, d
  <2>7. j \in 1..n /\ j < k  BY <2>2, <2>5, <2>6
  <2>8. L[j].type = "recheck_marked" /\ L[j].target = t  BY <2>3, <2>6
  <2>9. PICK i \in 1..(j - 1) : Admits(L[i], t)
    BY <2>2, <2>7, <2>8 DEF LogOK, Rests
  <2>10. i \in 1..n /\ i < j  BY <2>2, <2>7, <2>9
  <2>11. QED  BY <2>2, <2>6, <2>7, <2>9, <2>10 DEF Admits, L, t, d
<1>2. QED  BY <1>1, RatchetInvariant, PTL

-------------------------------------------------------------------------------
(* The invariant of a process that hears of every record that reached the disk *)

(* Memory is the fold of the log, except that remove leaves marks behind: they
   are more than the log's, and no more than the log's for a member as long as
   only members' re-checks are reported. *)
FoldInv(L, acc, mk, bl) ==
  /\ acc = FoldAccepted(L) /\ bl = FoldBlocking(L)
  /\ \A t \in Targets :
       /\ FoldMarked(L)[t] \subseteq mk[t]
       /\ MembersOnly /\ acc[t] # NoCandidate => mk[t] = FoldMarked(L)[t]

FailStopInv == up /\ Readable(file) => FoldInv(file.lines, accepted, marked, blocking)

(* An append that raises leaves memory as it was and the log as it was, or one
   nobody can read; after one that dies there is no memory. *)
LEMMA FailedFailStop ==
  ASSUME Raises \subseteq Unwritten, NEW f \in Files(Event), NEW e \in Event, NEW m,
         Readable(f) => FoldInv(f.lines, accepted, m, blocking),
         Failed(f, m, e)
  PROVE  FailStopInv'
<1>1. CASE /\ \E w \in Raises : file' = Interrupted(f, e, w)
           /\ marked' = m
           /\ UNCHANGED <<up, accepted, blocking>>
  <2>1. file' = f \/ file' = AddLine(f, Torn, TRUE)  BY <1>1 DEF Unwritten, Interrupted
  <2>2. ~Readable(AddLine(f, Torn, TRUE))  BY AddLineExtends
  <2>3. QED  BY <1>1, <2>1, <2>2 DEF FailStopInv
<1>2. CASE Down  BY <1>2 DEF Down, FailStopInv
<1>3. QED  BY <1>1, <1>2 DEF Failed

(* A method whose change of memory is what its event does to the folds. *)
LEMMA LogAppendFailStop ==
  ASSUME Raises \subseteq Unwritten, RatchetInv, FailStopInv,
         NEW e \in Event, NEW acc, NEW mk, NEW bl,
         LET L == file.lines
         IN  Readable(file) /\ L \in Seq(Line) /\ FoldInv(L, accepted, marked, blocking)
               => FoldInv(Append(L, e), acc, mk, bl),
         LogAppend(e, acc, mk, bl)
  PROVE  FailStopInv'
<1>1. file \in Files(Event) /\ file.lines \in Seq(Line)
  BY DEF RatchetInv, TypeOK, Files, Line
<1>2. Readable(file) => FoldInv(file.lines, accepted, marked, blocking)
  BY DEF LogAppend, FailStopInv
<1>3. CASE /\ file' = Written(file, e)
           /\ accepted' = acc /\ marked' = mk /\ blocking' = bl
  <2>1. Readable(file') => Readable(file) /\ file'.lines = Append(file.lines, e)
    BY <1>1, <1>3, WrittenExtends
  <2>2. QED  BY <1>1, <1>2, <1>3, <2>1 DEF FailStopInv
<1>4. CASE Failed(file, marked, e)
  BY <1>1, <1>2, <1>4, FailedFailStop
<1>5. QED  BY <1>3, <1>4 DEF LogAppend

(* accept: the new entry, and no mark left. *)
LEMMA AcceptFailStop ==
  ASSUME Raises \subseteq Unwritten, RatchetInv, FailStopInv,
         NEW r \in Receipts, NEW a \in Audits, Accept(r, a)
  PROVE  FailStopInv'
<1> DEFINE e == Entry("accept", r.target, r.candidate, "none")
           acc == [accepted EXCEPT ![r.target] = r.candidate]
           mk == [marked EXCEPT ![r.target] = {}]
<1>1. r.target \in Targets /\ r.candidate \in Candidates  BY DEF Receipts
<1>2. /\ e \in Event /\ e.type = "accept" /\ e.target = r.target
      /\ e.candidate = r.candidate
  BY <1>1 DEF Entry, Event
<1>3. marked \in [Targets -> SUBSET Deps]  BY DEF RatchetInv, TypeOK
<1>4. \A t \in Targets : /\ mk[t] = IF t = e.target THEN {} ELSE marked[t]
                         /\ t # e.target => acc[t] = accepted[t]
  BY <1>2, <1>3, <1>1
<1>5. acc = [accepted EXCEPT ![e.target] = e.candidate]  BY <1>2
<1>6. LogAppend(e, acc, mk, blocking)  BY DEF Accept
<1> HIDE DEF e, acc, mk
<1>7. ASSUME NEW L \in Seq(Line), FoldInv(L, accepted, marked, blocking)
      PROVE  FoldInv(Append(L, e), acc, mk, blocking)
  <2>1. FoldAccepted(Append(L, e)) = acc
    BY <1>2, <1>5, <1>7, FoldAcceptedAppend DEF FoldInv, Membership
  <2>2. FoldBlocking(Append(L, e)) = blocking
    BY <1>2, <1>7, FoldBlockingAppend DEF FoldInv
  <2>3. ASSUME NEW t \in Targets
        PROVE  FoldMarked(Append(L, e))[t] = IF t = e.target THEN {} ELSE FoldMarked(L)[t]
    BY <1>2, FoldMarkedAfter
  <2>4. QED  BY <1>4, <1>7, <2>1, <2>2, <2>3 DEF FoldInv
<1>8. QED  BY <1>2, <1>6, <1>7, LogAppendFailStop

(* remove: the marks the log forgets stay in memory, for a target that is not a
   member any more. *)
LEMMA RemoveFailStop ==
  ASSUME Raises \subseteq Unwritten, RatchetInv, FailStopInv,
         NEW t \in Targets, Remove(t)
  PROVE  FailStopInv'
<1> DEFINE e == Entry("remove", t, NoCandidate, "none")
           acc == [accepted EXCEPT ![t] = NoCandidate]
<1>1. e \in Event /\ e.type = "remove" /\ e.target = t /\ e.candidate = NoCandidate
  BY DEF Entry, Event
<1>2. accepted \in [Targets -> Candidates \cup {NoCandidate}]  BY DEF RatchetInv, TypeOK
<1>3. \A u \in Targets : acc[u] = IF u = t THEN NoCandidate ELSE accepted[u]
  BY <1>2
<1>4. LogAppend(e, acc, marked, blocking)  BY DEF Remove
<1>5. acc = [accepted EXCEPT ![e.target] = e.candidate]  BY <1>1
<1> HIDE DEF e, acc
<1>6. ASSUME NEW L \in Seq(Line), FoldInv(L, accepted, marked, blocking)
      PROVE  FoldInv(Append(L, e), acc, marked, blocking)
  <2>1. FoldAccepted(Append(L, e)) = acc
    BY <1>1, <1>5, <1>6, FoldAcceptedAppend DEF FoldInv, Membership
  <2>2. FoldBlocking(Append(L, e)) = blocking
    BY <1>1, <1>6, FoldBlockingAppend DEF FoldInv
  <2>3. ASSUME NEW u \in Targets
        PROVE  FoldMarked(Append(L, e))[u] = IF u = t THEN {} ELSE FoldMarked(L)[u]
    BY <1>1, FoldMarkedAfter
  <2>4. QED  BY <1>3, <1>6, <2>1, <2>2, <2>3 DEF FoldInv
<1>7. QED  BY <1>1, <1>4, <1>6, LogAppendFailStop

(* recheck_dependents, in whichever of its appends it stops. *)
LEMMA RecheckDependentsFailStop ==
  ASSUME Raises \subseteq Unwritten, RatchetInv, FailStopInv,
         NEW d \in Deps, NEW dependents \in SUBSET Targets, RecheckDependents(d, dependents)
  PROVE  FailStopInv'
<1>1. TypeOK /\ IsFiniteSet(Members) /\ file \in Files(Event) /\ file.lines \in Seq(Line)
  BY DEF RatchetInv, TypeOK, Files, Line
<1>2. PICK m \in Nat : \E o \in [1..m -> Targets], k \in 0..m :
           /\ up
           /\ Gone(o, m) \subseteq Members
           /\ \/ /\ file' = WrittenAll(file, MarksOf(o, k, d))
                 /\ marked' = MarkedFor(marked, Gone(o, k), d)
                 /\ UNCHANGED <<up, accepted, blocking, faults>>
              \/ /\ k + 1 \in 1..m
                 /\ Failed(WrittenAll(file, MarksOf(o, k, d)),
                           MarkedFor(marked, Gone(o, k), d), Mark(o[k + 1], d))
  BY <1>1, RecheckShape
<1>3. PICK o \in [1..m -> Targets], k \in 0..m :
           /\ up
           /\ \/ /\ file' = WrittenAll(file, MarksOf(o, k, d))
                 /\ marked' = MarkedFor(marked, Gone(o, k), d)
                 /\ UNCHANGED <<up, accepted, blocking, faults>>
              \/ /\ k + 1 \in 1..m
                 /\ Failed(WrittenAll(file, MarksOf(o, k, d)),
                           MarkedFor(marked, Gone(o, k), d), Mark(o[k + 1], d))
  BY <1>2
<1> DEFINE es == MarksOf(o, k, d)
           f == WrittenAll(file, es)
           mk == MarkedFor(marked, Gone(o, k), d)
<1>4. es \in Seq(Event)  BY MarksFacts
<1>5. /\ f \in Files(Event)
      /\ Readable(f) => Readable(file) /\ f.lines = file.lines \o es
  BY <1>1, <1>4, WrittenAllExtends
<1>6. Readable(f) => FoldInv(f.lines, accepted, mk, blocking)
  <2>1. SUFFICES ASSUME Readable(f)  PROVE FoldInv(f.lines, accepted, mk, blocking)
    OBVIOUS
  <2>2. FoldInv(file.lines, accepted, marked, blocking)
    BY <1>3, <1>5, <2>1 DEF FailStopInv
  <2>3. MarkedOnly(file.lines, Gone(o, k), d, file.lines \o es)
    BY <1>1, FoldMarks
  <2>4. \A t \in Targets : mk[t] = IF t \in Gone(o, k) THEN marked[t] \cup {d} ELSE marked[t]
    BY DEF MarkedFor
  <2> HIDE DEF es, mk
  <2>5. FoldInv(file.lines \o es, accepted, mk, blocking)  BY <2>2, <2>3, <2>4 DEF FoldInv, MarkedOnly
  <2>6. QED  BY <1>5, <2>1, <2>5
<1>7. CASE /\ file' = f
           /\ marked' = mk
           /\ UNCHANGED <<up, accepted, blocking, faults>>
  <2> HIDE DEF f, es, mk
  <2>1. QED  BY <1>6, <1>7 DEF FailStopInv
<1>8. CASE /\ k + 1 \in 1..m
           /\ Failed(f, mk, Mark(o[k + 1], d))
  <2>1. Mark(o[k + 1], d) \in Event
    <3>1. o[k + 1] \in Targets  BY <1>8
    <3>2. QED  BY <3>1 DEF Mark, Entry, Event
  <2> HIDE DEF f, es, mk
  <2>2. QED  BY <1>5, <1>6, <1>8, <2>1, FailedFailStop
<1>9. QED  BY <1>3, <1>7, <1>8

(* record_recheck_result: a confirmation discharges one dependency, a failure
   all of them, in memory and in the fold alike. *)
LEMMA RecordRecheckResultFailStop ==
  ASSUME Raises \subseteq Unwritten, RatchetInv, FailStopInv,
         NEW t \in Targets, NEW d \in Deps,
         NEW r \in Receipts \cup {NoArtifact}, NEW a \in Audits \cup {NoArtifact},
         RecordRecheckResult(t, d, r, a)
  PROVE  FailStopInv'
<1>1. /\ accepted \in [Targets -> Candidates \cup {NoCandidate}]
      /\ marked \in [Targets -> SUBSET Deps]
  BY DEF RatchetInv, TypeOK
<1>2. MembersOnly => accepted[t] # NoCandidate  BY DEF RecordRecheckResult
<1>3. CASE /\ Holds(r, a)
           /\ LogAppend(Entry("recheck_confirmed", t, r.candidate, d),
                        [accepted EXCEPT ![t] = r.candidate],
                        Confirmed(marked, t, d), blocking)
  <2> DEFINE e == Entry("recheck_confirmed", t, r.candidate, d)
             acc == [accepted EXCEPT ![t] = r.candidate]
             mk == Confirmed(marked, t, d)
  <2>1. r.candidate \in Candidates  BY <1>3 DEF Holds, Receipts
  <2>2. /\ e \in Event /\ e.type = "recheck_confirmed" /\ e.target = t /\ e.dep = d
        /\ e.candidate = r.candidate
    BY <2>1 DEF Entry, Event
  <2>3. \A u \in Targets : /\ mk[u] = IF u = t THEN marked[u] \ {d} ELSE marked[u]
                           /\ u # t => acc[u] = accepted[u]
    BY <1>1 DEF Confirmed
  <2>4. acc = [accepted EXCEPT ![e.target] = e.candidate]  BY <2>2
  <2> HIDE DEF e, acc, mk
  <2>5. LogAppend(e, acc, mk, blocking)  BY <1>3 DEF e, acc, mk
  <2>6. ASSUME NEW L \in Seq(Line), FoldInv(L, accepted, marked, blocking)
        PROVE  FoldInv(Append(L, e), acc, mk, blocking)
    <3>1. FoldAccepted(Append(L, e)) = acc
      BY <2>2, <2>4, <2>6, FoldAcceptedAppend DEF FoldInv, Membership
    <3>2. FoldBlocking(Append(L, e)) = blocking
      BY <2>2, <2>6, FoldBlockingAppend DEF FoldInv
    <3>3. ASSUME NEW u \in Targets
          PROVE  FoldMarked(Append(L, e))[u] =
                   IF u = t THEN FoldMarked(L)[u] \ {d} ELSE FoldMarked(L)[u]
      <4>1. e.type # "recheck_marked" /\ e \in Event  BY <2>2
      <4>2. FoldMarked(Append(L, e))[u] =
              IF u # e.target THEN FoldMarked(L)[u]
              ELSE IF e.type = "recheck_confirmed" THEN FoldMarked(L)[u] \ {e.dep} ELSE {}
        BY <4>1, FoldMarkedAfter
      <4>3. QED  BY <2>2, <4>2
    <3>4. QED  BY <1>2, <2>3, <2>6, <3>1, <3>2, <3>3 DEF FoldInv
  <2>7. QED  BY <2>2, <2>5, <2>6, LogAppendFailStop
<1>4. CASE LogAppend(Entry("blocking_event", t, NoCandidate, d),
                     [accepted EXCEPT ![t] = NoCandidate],
                     [marked EXCEPT ![t] = {}],
                     [blocking EXCEPT ![<<t, d>>] = @ + 1])
  <2> DEFINE e == Entry("blocking_event", t, NoCandidate, d)
             acc == [accepted EXCEPT ![t] = NoCandidate]
             mk == [marked EXCEPT ![t] = {}]
             bl == [blocking EXCEPT ![<<t, d>>] = @ + 1]
  <2>1. /\ e \in Event /\ e.type = "blocking_event" /\ e.target = t /\ e.dep = d
        /\ e.candidate = NoCandidate
    BY DEF Entry, Event
  <2>2. \A u \in Targets : /\ mk[u] = IF u = t THEN {} ELSE marked[u]
                           /\ u # t => acc[u] = accepted[u]
    BY <1>1
  <2>3. /\ acc = [accepted EXCEPT ![e.target] = e.candidate]
        /\ bl = [blocking EXCEPT ![<<e.target, e.dep>>] = @ + 1]
    BY <2>1
  <2> HIDE DEF e, acc, mk, bl
  <2>4. LogAppend(e, acc, mk, bl)  BY <1>4 DEF e, acc, mk, bl
  <2>5. ASSUME NEW L \in Seq(Line), FoldInv(L, accepted, marked, blocking)
        PROVE  FoldInv(Append(L, e), acc, mk, bl)
    <3>1. FoldAccepted(Append(L, e)) = acc
      BY <2>1, <2>3, <2>5, FoldAcceptedAppend DEF FoldInv, Membership
    <3>2. FoldBlocking(Append(L, e)) = bl
      BY <2>1, <2>3, <2>5, FoldBlockingAppend DEF FoldInv
    <3>3. ASSUME NEW u \in Targets
          PROVE  FoldMarked(Append(L, e))[u] = IF u = t THEN {} ELSE FoldMarked(L)[u]
      BY <2>1, FoldMarkedAfter
    <3>4. QED  BY <2>2, <2>5, <3>1, <3>2, <3>3 DEF FoldInv
  <2>6. QED  BY <2>1, <2>4, <2>5, LogAppendFailStop
<1>5. QED  BY <1>3, <1>4 DEF RecordRecheckResult

(* The folds of an empty log. *)
LEMMA FoldInvEmpty == FoldInv(<<>>, Nobody, Unmarked, Silence)
<1>1. FoldAccepted(<<>>) = Nobody
  BY DEF FoldAccepted, MembershipOf, Nobody
<1>2. FoldBlocking(<<>>) = Silence
  BY FS_EmptySet DEF FoldBlocking, Silence
<1>3. \A t \in Targets : FoldMarked(<<>>)[t] = {} /\ Unmarked[t] = {}
  BY DEF FoldMarked, Unmarked
<1>4. QED  BY <1>1, <1>2, <1>3 DEF FoldInv

(* Every step keeps memory and log together. *)
LEMMA FailStopNext ==
  ASSUME Raises \subseteq Unwritten, RatchetInv, FailStopInv, [Next]_vars
  PROVE  FailStopInv'
<1>1. ASSUME NEW r \in Receipts, NEW a \in Audits, Accept(r, a)  PROVE FailStopInv'
  BY <1>1, AcceptFailStop
<1>2. ASSUME NEW t \in Targets, Remove(t)  PROVE FailStopInv'
  BY <1>2, RemoveFailStop
<1>3. ASSUME NEW d \in Deps, NEW dependents \in SUBSET Targets, RecheckDependents(d, dependents)
      PROVE  FailStopInv'
  BY <1>3, RecheckDependentsFailStop
<1>4. ASSUME NEW t \in Targets, NEW d \in Deps,
             NEW r \in Receipts \cup {NoArtifact}, NEW a \in Audits \cup {NoArtifact},
             RecordRecheckResult(t, d, r, a)
      PROVE  FailStopInv'
  BY <1>4, RecordRecheckResultFailStop
<1>5. CASE Stop  BY <1>5 DEF Stop, Down, FailStopInv
<1>6. CASE Replay  BY <1>6 DEF Replay, FailStopInv, FoldInv
<1>7. CASE UNCHANGED vars  BY <1>7 DEF vars, FailStopInv
<1>8. QED  BY <1>1, <1>2, <1>3, <1>4, <1>5, <1>6, <1>7 DEF Next

(* While an append that raises has left no whole record behind, memory and log
   stay together, however appends die. *)
THEOREM FailStopRatchet ==
  Raises \subseteq Unwritten /\ Spec => []FailStopInv
<1>1. Init => FailStopInv
  BY FoldInvEmpty DEF Init, EmptyFile, FailStopInv
<1>2. Raises \subseteq Unwritten /\ RatchetInv /\ FailStopInv /\ [Next]_vars => FailStopInv'
  BY FailStopNext
<1>3. SUFFICES ASSUME Raises \subseteq Unwritten  PROVE Spec => []FailStopInv  OBVIOUS
<1>4. QED  BY <1>1, <1>2, <1>3, RatchetInvariant, PTL DEF Spec

(* A restart gives back the accepted set and the blocking events the process
   had: "both derived by folding" the log (ratchet.py:20). *)
THEOREM RestartKeepsAccepted ==
  Raises \subseteq Unwritten /\ Spec => []AcceptedIsFold
<1>1. FailStopInv => AcceptedIsFold  BY DEF FailStopInv, FoldInv, AcceptedIsFold
<1>2. QED  BY <1>1, FailStopRatchet, PTL

(* No re-verification the log says is owed is forgotten by the process
   (recheck_dependents, record_recheck_result). *)
THEOREM DebtsAreKept ==
  Raises \subseteq Unwritten /\ Spec => []OwedIsRemembered
<1>1. FailStopInv => OwedIsRemembered  BY DEF FailStopInv, FoldInv, OwedIsRemembered
<1>2. QED  BY <1>1, FailStopRatchet, PTL

(* While only members' re-checks are reported, a member owes exactly what the
   log says. *)
THEOREM MembersOweTheLog ==
  Raises \subseteq Unwritten /\ Spec => []MarkedIsFoldForMembers
<1>1. FailStopInv => MarkedIsFoldForMembers
  BY DEF FailStopInv, FoldInv, MarkedIsFoldForMembers
<1>2. QED  BY <1>1, FailStopRatchet, PTL

-------------------------------------------------------------------------------
(* The refinement of the monotone set *)

(* What the refinement mapping reads: the log as far as it can be read. *)
Kept == Whole(file.lines)

(* How a step may change it: not at all, or from a log read whole. *)
Grows(L, M) == Kept' = Kept \/ (Readable(file) /\ Kept = L /\ Kept' = M)

(* An append, however it ends, leaves the log as far as it can be read as it
   was, or with the event at its end. *)
LEMMA LogAppendGrows ==
  ASSUME Raises \subseteq Unwritten, "unterminated" \notin Crashes,
         file \in Files(Event), OpenIsTorn(file),
         NEW e \in Event, NEW acc, NEW mk, NEW bl, LogAppend(e, acc, mk, bl)
  PROVE  OpenIsTorn(file') /\ Grows(file.lines, Append(file.lines, e))
<1>1. \/ file' = Written(file, e)
      \/ \E w \in Outcomes \ {"unterminated"} : file' = Interrupted(file, e, w)
  BY OutcomesAssumption DEF LogAppend, Failed, Unwritten
<1>2. /\ OpenIsTorn(file')
      /\ \/ Whole(file'.lines) = Whole(file.lines)
         \/ Readable(file) /\ Whole(file'.lines) = Append(file.lines, e)
  BY <1>1, WriteWhole
<1>3. QED  BY <1>2, WholeReadable DEF Grows, Kept

(* One more mark. *)
LEMMA MarkedOnlyAppend ==
  ASSUME NEW L \in Seq(Line), NEW M \in Seq(Line), NEW S, NEW d \in Deps, MarkedOnly(L, S, d, M),
         NEW t \in Targets
  PROVE  MarkedOnly(L, S \cup {t}, d, Append(M, Mark(t, d)))
<1> DEFINE e == Mark(t, d)
<1>1. /\ e \in Event /\ e.type = "recheck_marked" /\ e.target = t /\ e.dep = d
  BY DEF Mark, Entry, Event
<1> HIDE DEF e
<1>2. FoldAccepted(Append(M, e)) = FoldAccepted(M)
  BY <1>1, FoldAcceptedAppend DEF Membership
<1>3. FoldBlocking(Append(M, e)) = FoldBlocking(M)  BY <1>1, FoldBlockingAppend
<1>4. ASSUME NEW u \in Targets
      PROVE  FoldMarked(Append(M, e))[u] =
               IF u = t THEN FoldMarked(M)[u] \cup {d} ELSE FoldMarked(M)[u]
  <2>1. FoldMarked(Append(M, e))[u] =
          {x \in FoldMarked(M)[u] : ~Discharges(e, u, x)}
             \cup {x \in Deps : e.type = "recheck_marked" /\ e.target = u /\ e.dep = x}
    BY <1>1, FoldMarkedAppend
  <2>2. \A x : ~Discharges(e, u, x)  BY <1>1 DEF Discharges
  <2>3. QED  BY <1>1, <2>1, <2>2
<1>5. MarkedOnly(L, S \cup {t}, d, Append(M, e))
  BY <1>2, <1>3, <1>4 DEF MarkedOnly
<1>6. QED  BY <1>5 DEF e

(* What the mapped variables are. *)
LEMMA FoldsAreFunctions ==
  ASSUME NEW L
  PROVE  /\ FoldAccepted(L) = [t \in Targets |-> FoldAccepted(L)[t]]
         /\ FoldMarked(L) = [t \in Targets |-> FoldMarked(L)[t]]
BY DEF FoldAccepted, FoldMarked

(* A step that changes nothing the mapping reads is a stutter, and one that
   discharges everything its target owes admits or expels it. *)
LEMMA Settles ==
  ASSUME NEW e \in Event, e.type \in {"accept", "remove", "blocking_event"},
         NEW L \in Seq(Line), Kept = L, Kept' = Append(L, e)
  PROVE  /\ FoldAccepted(Kept)' = [FoldAccepted(Kept) EXCEPT ![e.target] = e.candidate]
         /\ FoldMarked(Kept)' = [FoldMarked(Kept) EXCEPT ![e.target] = {}]
<1>1. FoldAccepted(Append(L, e)) = [FoldAccepted(L) EXCEPT ![e.target] = e.candidate]
  BY FoldAcceptedAppend DEF Membership
<1>2. FoldMarked(Append(L, e)) = [FoldMarked(L) EXCEPT ![e.target] = {}]
  <2>1. \A t \in Targets : FoldMarked(Append(L, e))[t] =
                             IF t = e.target THEN {} ELSE FoldMarked(L)[t]
    <3>1. SUFFICES ASSUME NEW t \in Targets
                   PROVE  FoldMarked(Append(L, e))[t] =
                            IF t = e.target THEN {} ELSE FoldMarked(L)[t]
      OBVIOUS
    <3>2. FoldMarked(Append(L, e))[t] =
            IF t # e.target THEN FoldMarked(L)[t]
            ELSE IF e.type = "recheck_confirmed" THEN FoldMarked(L)[t] \ {e.dep} ELSE {}
      BY FoldMarkedAfter
    <3>3. QED  BY <3>2
  <2> DEFINE F == FoldMarked(L)
             G == FoldMarked(Append(L, e))
  <2>2. F = [t \in Targets |-> F[t]] /\ G = [t \in Targets |-> G[t]]  BY FoldsAreFunctions
  <2>3. \A t \in Targets : G[t] = IF t = e.target THEN {} ELSE F[t]  BY <2>1
  <2> HIDE DEF F, G
  <2>4. G = [F EXCEPT ![e.target] = {}]  BY <2>2, <2>3
  <2>5. QED  BY <2>4 DEF F, G
<1>3. QED  BY <1>1, <1>2

PromiseStep ==
  [Promise!Next]_<<FoldAccepted(Whole(file.lines)), FoldMarked(Whole(file.lines))>>

(* A step after which the log reads as before is a stutter of the set. *)
LEMMA Stutters ==
  ASSUME Kept' = Kept
  PROVE  PromiseStep
BY DEF PromiseStep, Kept

(* The set may change as it promises. *)
LEMMA PromiseSteps ==
  /\ \A t \in Targets : Promise!Admit(t) \/ Promise!Expel(t) => PromiseStep
  /\ \A d \in Deps : \A S \in SUBSET Targets : Promise!Change(d, S) => PromiseStep
  /\ \A t \in Targets, d \in Deps : Promise!Refresh(t, d) => PromiseStep
BY DEF PromiseStep, Promise!Next

(* What the refinement needs of a state. *)
RefinementInv == RatchetInv /\ FailStopInv /\ OpenIsTorn(file)

(* accept admits. *)
LEMMA AcceptRefines ==
  ASSUME Raises \subseteq Unwritten, "unterminated" \notin Crashes, RefinementInv,
         NEW r \in Receipts, NEW a \in Audits, Accept(r, a)
  PROVE  OpenIsTorn(file') /\ PromiseStep
<1> DEFINE e == Entry("accept", r.target, r.candidate, "none")
<1>1. r.target \in Targets /\ r.candidate \in Candidates  BY DEF Receipts
<1>2. /\ e \in Event /\ e.type = "accept" /\ e.target = r.target
      /\ e.candidate = r.candidate
  BY <1>1 DEF Entry, Event
<1>3. file \in Files(Event) /\ file.lines \in Seq(Line) /\ OpenIsTorn(file)
  BY DEF RefinementInv, RatchetInv, TypeOK, Files, Line
<1>4. LogAppend(e, [accepted EXCEPT ![r.target] = r.candidate],
                [marked EXCEPT ![r.target] = {}], blocking)
  BY DEF Accept
<1> HIDE DEF e
<1>5. OpenIsTorn(file') /\ Grows(file.lines, Append(file.lines, e))
  BY <1>2, <1>3, <1>4, LogAppendGrows
<1>6. ASSUME Kept = file.lines, Kept' = Append(file.lines, e)  PROVE PromiseStep
  <2>1. /\ FoldAccepted(Kept)' = [FoldAccepted(Kept) EXCEPT ![e.target] = e.candidate]
        /\ FoldMarked(Kept)' = [FoldMarked(Kept) EXCEPT ![e.target] = {}]
    BY <1>2, <1>3, <1>6, Settles
  <2>2. Promise!Admit(r.target)  BY <1>1, <1>2, <2>1 DEF Promise!Admit, Kept
  <2>3. QED  BY <1>1, <2>2, PromiseSteps
<1>7. QED  BY <1>5, <1>6, Stutters DEF Grows

(* remove, and a re-verification that fails, expel a member. *)
LEMMA ExpelRefines ==
  ASSUME Raises \subseteq Unwritten, "unterminated" \notin Crashes, RefinementInv,
         NEW e \in Event, e.type \in {"remove", "blocking_event"}, e.candidate = NoCandidate,
         accepted[e.target] # NoCandidate,
         NEW acc, NEW mk, NEW bl, LogAppend(e, acc, mk, bl)
  PROVE  OpenIsTorn(file') /\ PromiseStep
<1>1. file \in Files(Event) /\ file.lines \in Seq(Line) /\ OpenIsTorn(file)
  BY DEF RefinementInv, RatchetInv, TypeOK, Files, Line
<1>2. OpenIsTorn(file') /\ Grows(file.lines, Append(file.lines, e))
  BY <1>1, LogAppendGrows
<1>3. ASSUME Readable(file), Kept = file.lines, Kept' = Append(file.lines, e)
      PROVE  PromiseStep
  <2>1. accepted = FoldAccepted(Kept)
    BY <1>3 DEF LogAppend, RefinementInv, FailStopInv, FoldInv
  <2>2. e.target \in Targets  BY DEF Event
  <2>3. /\ FoldAccepted(Kept)' = [FoldAccepted(Kept) EXCEPT ![e.target] = NoCandidate]
        /\ FoldMarked(Kept)' = [FoldMarked(Kept) EXCEPT ![e.target] = {}]
    BY <1>1, <1>3, Settles
  <2>4. Promise!Expel(e.target)
    BY <2>1, <2>2, <2>3 DEF Promise!Expel, Promise!Members, Kept
  <2>5. QED  BY <2>2, <2>4, PromiseSteps
<1>4. QED  BY <1>2, <1>3, Stutters DEF Grows

(* A re-verification that holds discharges what it was owed for.  It keeps a
   member: this is where only members' re-checks may be reported, for the
   guard of record_recheck_result asks for a mark and not for membership. *)
LEMMA RefreshRefines ==
  ASSUME Raises \subseteq Unwritten, "unterminated" \notin Crashes, MembersOnly, RefinementInv,
         NEW t \in Targets, NEW d \in Deps, NEW c \in Candidates,
         accepted[t] # NoCandidate, d \in marked[t],
         NEW acc, NEW mk, NEW bl,
         LogAppend(Entry("recheck_confirmed", t, c, d), acc, mk, bl)
  PROVE  OpenIsTorn(file') /\ PromiseStep
<1> DEFINE e == Entry("recheck_confirmed", t, c, d)
           L == file.lines
<1>1. file \in Files(Event) /\ L \in Seq(Line) /\ OpenIsTorn(file)
  BY DEF RefinementInv, RatchetInv, TypeOK, Files, Line
<1>2. /\ e \in Event /\ e.type = "recheck_confirmed" /\ e.target = t
      /\ e.candidate = c /\ e.dep = d
  BY DEF Entry, Event
<1>3. LogAppend(e, acc, mk, bl)  OBVIOUS
<1> HIDE DEF e
<1>4. OpenIsTorn(file') /\ Grows(L, Append(L, e))  BY <1>1, <1>2, <1>3, LogAppendGrows
<1>5. ASSUME Readable(file), Kept = L, Kept' = Append(L, e)
      PROVE  PromiseStep
  <2>1. accepted = FoldAccepted(L) /\ marked[t] = FoldMarked(L)[t]
    BY <1>3, <1>5 DEF LogAppend, RefinementInv, FailStopInv, FoldInv
  <2> DEFINE F == FoldMarked(L)
             G == FoldMarked(Append(L, e))
  <2>2. G = [F EXCEPT ![t] = @ \ {d}]
    <3>1. F = [u \in Targets |-> F[u]] /\ G = [u \in Targets |-> G[u]]  BY FoldsAreFunctions
    <3>2. ASSUME NEW u \in Targets  PROVE G[u] = IF u = t THEN F[u] \ {d} ELSE F[u]
      <4>1. e.type # "recheck_marked" /\ e \in Event /\ L \in Seq(Line)  BY <1>1, <1>2
      <4>2. G[u] = IF u # e.target THEN F[u]
                   ELSE IF e.type = "recheck_confirmed" THEN F[u] \ {e.dep} ELSE {}
        BY <4>1, FoldMarkedAfter
      <4>3. QED  BY <1>2, <4>2
    <3> HIDE DEF F, G
    <3>3. QED  BY <3>1, <3>2
  <2>3. FoldAccepted(Append(L, e)) = [FoldAccepted(L) EXCEPT ![t] = c]
    BY <1>1, <1>2, FoldAcceptedAppend DEF Membership
  <2>4. Promise!Refresh(t, d)
    BY <1>5, <2>1, <2>2, <2>3 DEF Promise!Refresh, Promise!Members, Kept
  <2>5. QED  BY <2>4, PromiseSteps
<1>6. QED  BY <1>4, <1>5, Stutters DEF Grows

(* recheck_dependents marks the members it went through, and the one whose
   mark reached the disk as the process died. *)
LEMMA ChangeRefines ==
  ASSUME Raises \subseteq Unwritten, "unterminated" \notin Crashes, RefinementInv,
         NEW d \in Deps, NEW dependents \in SUBSET Targets, RecheckDependents(d, dependents)
  PROVE  OpenIsTorn(file') /\ PromiseStep
<1> DEFINE L == file.lines
<1>1. /\ TypeOK /\ IsFiniteSet(Members) /\ file \in Files(Event)
      /\ L \in Seq(Line) /\ OpenIsTorn(file)
  BY DEF RefinementInv, RatchetInv, TypeOK, Files, Line
<1>2. PICK m \in Nat : \E o \in [1..m -> Targets], k \in 0..m :
           /\ up
           /\ Gone(o, m) \subseteq Members
           /\ \/ /\ file' = WrittenAll(file, MarksOf(o, k, d))
                 /\ marked' = MarkedFor(marked, Gone(o, k), d)
                 /\ UNCHANGED <<up, accepted, blocking, faults>>
              \/ /\ k + 1 \in 1..m
                 /\ Failed(WrittenAll(file, MarksOf(o, k, d)),
                           MarkedFor(marked, Gone(o, k), d), Mark(o[k + 1], d))
  BY <1>1, RecheckShape
<1>3. PICK o \in [1..m -> Targets], k \in 0..m :
           /\ up
           /\ Gone(o, m) \subseteq Members
           /\ \/ file' = WrittenAll(file, MarksOf(o, k, d))
              \/ /\ k + 1 \in 1..m
                 /\ Failed(WrittenAll(file, MarksOf(o, k, d)),
                           MarkedFor(marked, Gone(o, k), d), Mark(o[k + 1], d))
  BY <1>2
<1> DEFINE es == MarksOf(o, k, d)
           f == WrittenAll(file, es)
<1>4. es \in Seq(Event)  BY MarksFacts
<1>5. /\ f \in Files(Event)
      /\ OpenIsTorn(f)
      /\ Whole(f.lines) = IF Readable(file) THEN L \o es ELSE Whole(L)
      /\ Readable(f) => Readable(file) /\ f.lines = L \o es
  BY <1>1, <1>4, WrittenAllExtends, WrittenAllWhole, TornAssumption
<1>6. MarkedOnly(L, Gone(o, k), d, L \o es)  BY <1>1, FoldMarks
<1>7. L \o es \in Seq(Line)
  <2>1. es \in Seq(Line)  BY <1>4, SeqMonotonic DEF Line
  <2>2. QED  BY <1>1, <2>1, ConcatProperties
<1> HIDE DEF es, f
<1>8. \A i \in 0..m : Gone(o, i) \subseteq Gone(o, m)
  BY DEF Gone
<1>9. ASSUME Readable(file), NEW S \in SUBSET Gone(o, m), MarkedOnly(L, S, d, Kept')
      PROVE  PromiseStep
  <2>1. accepted = FoldAccepted(L) /\ Kept = L
    BY <1>3, <1>9, WholeReadable DEF RefinementInv, FailStopInv, FoldInv, Kept
  <2>2. S \in SUBSET Targets /\ S \subseteq Promise!Members
    BY <1>3, <1>9, <2>1 DEF Members, Promise!Members, Kept
  <2>3. FoldAccepted(Kept)' = FoldAccepted(Kept)  BY <1>9, <2>1 DEF MarkedOnly
  <2>4. FoldMarked(Kept)' = [t \in Targets |-> IF t \in S THEN FoldMarked(Kept)[t] \cup {d}
                                               ELSE FoldMarked(Kept)[t]]
    <3> DEFINE F == FoldMarked(L)
               G == FoldMarked(Kept')
    <3>1. G = [t \in Targets |-> G[t]]  BY FoldsAreFunctions
    <3>2. \A t \in Targets : G[t] = IF t \in S THEN F[t] \cup {d} ELSE F[t]
      BY <1>9 DEF MarkedOnly
    <3> HIDE DEF F, G
    <3>3. G = [t \in Targets |-> IF t \in S THEN F[t] \cup {d} ELSE F[t]]  BY <3>1, <3>2
    <3>4. QED  BY <2>1, <3>3 DEF F, G
  <2>5. Promise!Change(d, S)  BY <2>2, <2>3, <2>4 DEF Promise!Change, Kept
  <2>6. QED  BY <2>2, <2>5, PromiseSteps
<1>10. CASE file' = f
  <2>1. CASE Readable(file)
    <3>1. Kept' = L \o es  BY <1>5, <1>10, <2>1 DEF Kept
    <3>2. Gone(o, k) \in SUBSET Gone(o, m)  BY <1>8
    <3>3. QED  BY <1>5, <1>6, <1>9, <1>10, <2>1, <3>1, <3>2
  <2>2. CASE ~Readable(file)
    <3>1. Kept' = Kept  BY <1>5, <1>10, <2>2 DEF Kept
    <3>2. QED  BY <1>5, <1>10, <3>1, Stutters
  <2>3. QED  BY <2>1, <2>2
<1>11. CASE /\ k + 1 \in 1..m
            /\ Failed(f, MarkedFor(marked, Gone(o, k), d), Mark(o[k + 1], d))
  <2> DEFINE t == o[k + 1]
  <2>1. t \in Targets /\ Gone(o, k) \cup {t} \in SUBSET Gone(o, m)
    BY <1>8, <1>11 DEF Gone
  <2>2. Mark(t, d) \in Event  BY <2>1 DEF Mark, Entry, Event
  <2>3. \E w \in Outcomes \ {"unterminated"} : file' = Interrupted(f, Mark(t, d), w)
    BY <1>11, OutcomesAssumption DEF Failed, Unwritten
  <2>4. /\ OpenIsTorn(file')
        /\ \/ Whole(file'.lines) = Whole(f.lines)
           \/ Readable(f) /\ Whole(file'.lines) = Append(f.lines, Mark(t, d))
    BY <1>5, <2>2, <2>3, WriteWhole
  <2> HIDE DEF t
  <2>5. CASE ~Readable(file)
    <3>1. Kept' = Kept  BY <1>5, <2>4, <2>5 DEF Kept
    <3>2. QED  BY <2>4, <3>1, Stutters
  <2>6. CASE Readable(file) /\ Whole(file'.lines) = Whole(f.lines)
    <3>1. Kept' = L \o es  BY <1>5, <2>6 DEF Kept
    <3>2. Gone(o, k) \in SUBSET Gone(o, m)  BY <1>8
    <3>3. QED  BY <1>6, <1>9, <2>4, <2>6, <3>1, <3>2
  <2>7. CASE Readable(f) /\ Whole(file'.lines) = Append(f.lines, Mark(t, d))
    <3>1. Readable(file) /\ Kept' = Append(L \o es, Mark(t, d))
      BY <1>5, <2>7 DEF Kept
    <3>2. MarkedOnly(L, Gone(o, k) \cup {t}, d, Append(L \o es, Mark(t, d)))
      BY <1>1, <1>6, <1>7, <2>1, MarkedOnlyAppend
    <3>3. QED  BY <1>9, <2>1, <2>4, <3>1, <3>2
  <2>8. QED  BY <2>4, <2>5, <2>6, <2>7
<1>12. QED  BY <1>3, <1>10, <1>11 DEF f, es

(* Every step of the ratchet is a step of the set, or none. *)
LEMMA NextRefines ==
  ASSUME Raises \subseteq Unwritten, "unterminated" \notin Crashes, MembersOnly,
         RefinementInv, [Next]_vars
  PROVE  OpenIsTorn(file') /\ PromiseStep
<1>1. ASSUME NEW r \in Receipts, NEW a \in Audits, Accept(r, a)
      PROVE  OpenIsTorn(file') /\ PromiseStep
  BY <1>1, AcceptRefines
<1>2. ASSUME NEW t \in Targets, Remove(t)  PROVE OpenIsTorn(file') /\ PromiseStep
  <2> DEFINE e == Entry("remove", t, NoCandidate, "none")
  <2>1. /\ e \in Event /\ e.type = "remove" /\ e.target = t /\ e.candidate = NoCandidate
    BY DEF Entry, Event
  <2>2. accepted[t] # NoCandidate  BY <1>2 DEF Remove
  <2>3. LogAppend(e, [accepted EXCEPT ![t] = NoCandidate], marked, blocking)
    BY <1>2 DEF Remove
  <2> HIDE DEF e
  <2>4. QED  BY <2>1, <2>2, <2>3, ExpelRefines
<1>3. ASSUME NEW d \in Deps, NEW dependents \in SUBSET Targets, RecheckDependents(d, dependents)
      PROVE  OpenIsTorn(file') /\ PromiseStep
  BY <1>3, ChangeRefines
<1>4. ASSUME NEW t \in Targets, NEW d \in Deps,
             NEW r \in Receipts \cup {NoArtifact}, NEW a \in Audits \cup {NoArtifact},
             RecordRecheckResult(t, d, r, a)
      PROVE  OpenIsTorn(file') /\ PromiseStep
  <2>1. d \in marked[t] /\ accepted[t] # NoCandidate
    BY <1>4 DEF RecordRecheckResult, Owed
  <2>2. CASE /\ Holds(r, a)
             /\ LogAppend(Entry("recheck_confirmed", t, r.candidate, d),
                          [accepted EXCEPT ![t] = r.candidate],
                          Confirmed(marked, t, d), blocking)
    <3>1. r.candidate \in Candidates  BY <2>2 DEF Holds, Receipts
    <3>2. QED  BY <2>1, <2>2, <3>1, RefreshRefines
  <2>3. CASE LogAppend(Entry("blocking_event", t, NoCandidate, d),
                       [accepted EXCEPT ![t] = NoCandidate],
                       [marked EXCEPT ![t] = {}],
                       [blocking EXCEPT ![<<t, d>>] = @ + 1])
    <3> DEFINE e == Entry("blocking_event", t, NoCandidate, d)
    <3>1. /\ e \in Event /\ e.type = "blocking_event" /\ e.target = t
          /\ e.candidate = NoCandidate
      BY DEF Entry, Event
    <3>2. LogAppend(e, [accepted EXCEPT ![t] = NoCandidate],
                    [marked EXCEPT ![t] = {}],
                    [blocking EXCEPT ![<<t, d>>] = @ + 1])
      BY <2>3
    <3> HIDE DEF e
    <3>3. QED  BY <2>1, <3>1, <3>2, ExpelRefines
  <2>4. QED  BY <1>4, <2>2, <2>3 DEF RecordRecheckResult
<1>5. CASE file' = file
  <2>1. Kept' = Kept  BY <1>5 DEF Kept
  <2>2. QED  BY <1>5, <2>1, Stutters DEF RefinementInv
<1>6. QED  BY <1>1, <1>2, <1>3, <1>4, <1>5 DEF Next, Stop, Replay, vars

(* A ratchet whose appends leave no record behind when they raise, none without
   its newline when they die, and whose callers report re-checks of members
   only, implements the monotone set, however often it dies: a set that grows
   by admission and shrinks by removal or a failed re-verification. *)
THEOREM RatchetRefines ==
  Raises \subseteq Unwritten /\ "unterminated" \notin Crashes /\ MembersOnly /\ Spec
    => ImplementsMonotoneSet
<1>1. SUFFICES ASSUME Raises \subseteq Unwritten, "unterminated" \notin Crashes, MembersOnly
               PROVE  Spec => ImplementsMonotoneSet
  OBVIOUS
<1>2. Init => OpenIsTorn(file)  BY DEF Init, EmptyFile, OpenIsTorn
<1>3. Init => Promise!Init
  <2>1. SUFFICES ASSUME Init  PROVE Promise!Init  OBVIOUS
  <2>2. Whole(file.lines) = <<>>  BY <2>1 DEF Init, EmptyFile, Whole
  <2>3. FoldAccepted(<<>>) = [t \in Targets |-> NoCandidate]
    BY FoldInvEmpty DEF FoldInv, Nobody
  <2>4. FoldMarked(<<>>) = [t \in Targets |-> {}]
    BY DEF FoldMarked
  <2>5. QED  BY <2>2, <2>3, <2>4 DEF Promise!Init
<1>4. RatchetInv /\ FailStopInv /\ OpenIsTorn(file) /\ [Next]_vars
        => OpenIsTorn(file)' /\ PromiseStep
  BY <1>1, NextRefines DEF RefinementInv
<1>5. Spec => []RatchetInv  BY RatchetInvariant
<1>6. Spec => []FailStopInv  BY <1>1, FailStopRatchet
<1>7. Spec => []OpenIsTorn(file)
  BY <1>2, <1>4, <1>5, <1>6, PTL DEF Spec
<1>8. QED
  BY <1>3, <1>4, <1>5, <1>6, <1>7, PTL DEF Spec, PromiseStep, ImplementsMonotoneSet, Promise!Spec

===============================================================================
