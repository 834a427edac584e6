---------------------------- MODULE EventLogProofs ----------------------------
(***************************************************************************)
(* What a write does to an event log, for every log: it keeps the type, it *)
(* never repairs a torn log, and as far as a reader can tell it either     *)
(* adds the record at the end or adds nothing.  Before that, the facts     *)
(* about numbers and sequences that every proof over a log needs.          *)
(***************************************************************************)
EXTENDS EventLog, SequenceTheorems, FiniteSetTheorems, TLAPS

(* A set of natural numbers with a member has a least one.  The intervals up
   to its members are finite sets, and inclusion is well founded on those. *)
LEMMA LeastNatural ==
  ASSUME NEW T \in SUBSET Nat, T # {}
  PROVE  \E x \in T : \A y \in T : x <= y
<1> DEFINE Up == {1..n : n \in T}
<1>1. Up \subseteq FiniteSubsetsOf(Nat) /\ Up # {}
  <2>1. \A n \in T : 1..n \in SUBSET Nat /\ IsFiniteSet(1..n)  BY FS_Interval
  <2>2. QED  BY <2>1 DEF FiniteSubsetsOf
<1>2. IsWellFoundedOn(StrictSubsetOrdering(Nat), FiniteSubsetsOf(Nat))
  BY FS_StrictSubsetOrderingWellFounded
<1> HIDE DEF Up
<1>3. PICK m \in Up : \A k \in Up : ~(<<k, m>> \in StrictSubsetOrdering(Nat))
  BY <1>1, <1>2, WFMin
<1>4. PICK x \in T : m = 1..x  BY DEF Up
<1>5. ASSUME NEW y \in T  PROVE x <= y
  <2>1. 1..y \in Up /\ 1..y \in SUBSET Nat /\ 1..x \in SUBSET Nat  BY DEF Up
  <2>2. ~(1..y \subseteq 1..x /\ 1..y # 1..x)
    BY <1>3, <1>4, <2>1 DEF StrictSubsetOrdering
  <2>3. CASE y < x
    <3>1. x \in 1..x /\ x \notin 1..y  BY <2>3
    <3>2. 1..y \subseteq 1..x  BY <2>3
    <3>3. QED  BY <2>2, <3>1, <3>2
  <2>4. QED  BY <2>3
<1>6. QED  BY <1>5

(* There is only one of them. *)
LEMMA LeastUnique ==
  ASSUME NEW T \in SUBSET Nat, NEW i \in T, \A j \in T : i <= j
  PROVE  (CHOOSE k \in T : \A j \in T : k <= j) = i
<1> DEFINE k == CHOOSE k \in T : \A j \in T : k <= j
<1>1. k \in T /\ \A j \in T : k <= j  OBVIOUS
<1> HIDE DEF k
<1>2. k <= i /\ i <= k /\ k \in Int /\ i \in Int  BY <1>1
<1>3. k = i  BY <1>2
<1>4. QED  BY <1>3 DEF k

(* A set of positions has a last one, so the folds' CHOOSE finds the line the
   loop over the log would have stopped at. *)
LEMMA LastExists ==
  ASSUME NEW n \in Nat, NEW S \in SUBSET (1..n), S # {}
  PROVE  \E i \in S : IsLast(S, i)
<1> DEFINE T == {n - i : i \in S}
<1>1. T \in SUBSET Nat /\ T # {}
  <2>1. \A i \in S : n - i \in Nat  OBVIOUS
  <2>2. QED  BY <2>1
<1>2. PICK x \in T : \A y \in T : x <= y
  <2> HIDE DEF T
  <2>1. QED  BY <1>1, LeastNatural
<1>3. PICK i \in S : x = n - i  OBVIOUS
<1>4. ASSUME NEW j \in S  PROVE j <= i
  <2>1. n - j \in T  OBVIOUS
  <2>2. n - i <= n - j  BY <1>2, <1>3, <2>1
  <2>3. QED  BY <2>2
<1>5. QED  BY <1>4 DEF IsLast

(* An index beyond a set of indices is the last of the two together, and a
   set of indices has at most one last element. *)
LEMMA LastFacts ==
  ASSUME NEW n \in Nat, NEW S \in SUBSET (1..n)
  PROVE  /\ IsLast(S \cup {n + 1}, n + 1)
         /\ LastOf(S \cup {n + 1}) = n + 1
         /\ \A i, j : IsLast(S, i) /\ IsLast(S, j) => i = j
         /\ \A i : IsLast(S, i) => LastOf(S) = i
<1>1. \A T \in SUBSET Nat : \A i, j : IsLast(T, i) /\ IsLast(T, j) => i = j
  BY DEF IsLast
<1>2. S \in SUBSET Nat /\ S \cup {n + 1} \in SUBSET Nat  OBVIOUS
<1>3. IsLast(S \cup {n + 1}, n + 1)  BY DEF IsLast
<1>4. \A T \in SUBSET Nat : \A i : IsLast(T, i) => LastOf(T) = i
  <2>1. SUFFICES ASSUME NEW T \in SUBSET Nat, NEW i, IsLast(T, i)
                 PROVE  LastOf(T) = i
    OBVIOUS
  <2>2. i \in T  BY <2>1 DEF IsLast
  <2>3. IsLast(T, LastOf(T))  BY <2>1, <2>2 DEF LastOf
  <2>4. QED  BY <1>1, <2>1, <2>3
<1>5. QED  BY <1>1, <1>2, <1>3, <1>4

(* The same of a set that has members: its last one is found. *)
LEMMA LastFound ==
  ASSUME NEW n \in Nat, NEW S \in SUBSET (1..n), S # {}
  PROVE  LastOf(S) \in S /\ \A j \in S : j <= LastOf(S)
<1>1. PICK i \in S : IsLast(S, i)  BY LastExists
<1>2. LastOf(S) = i  BY <1>1, LastFacts
<1>3. QED  BY <1>1, <1>2 DEF IsLast

(* M is L with es at its end, position by position. *)
Joined(L, es, M) ==
  /\ Len(L) \in Nat /\ Len(es) \in Nat
  /\ DOMAIN L = 1..Len(L) /\ DOMAIN es = 1..Len(es)
  /\ DOMAIN M = 1..(Len(L) + Len(es))
  /\ \A i \in 1..Len(L) : M[i] = L[i]
  /\ \A i \in 1..Len(es) : M[Len(L) + i] = es[i]

(* The positions of a log, and of the log with more lines. *)
LEMMA ConcatFacts ==
  ASSUME NEW R, NEW L \in Seq(R), NEW es \in Seq(R)
  PROVE  L \o es \in Seq(R) /\ Joined(L, es, L \o es)
<1>1. /\ Len(L) \in Nat /\ Len(es) \in Nat
      /\ DOMAIN L = 1..Len(L) /\ DOMAIN es = 1..Len(es)
  BY LenProperties
<1>2. /\ L \o es \in Seq(R) /\ Len(L \o es) = Len(L) + Len(es)
      /\ \A i \in 1..(Len(L) + Len(es)) :
           (L \o es)[i] = IF i <= Len(L) THEN L[i] ELSE es[i - Len(L)]
  BY ConcatProperties
<1>3. DOMAIN (L \o es) = 1..(Len(L) + Len(es))  BY <1>2, LenProperties
<1> DEFINE n == Len(L)
           m == Len(es)
<1> HIDE DEF n, m
<1>4. n \in Nat /\ m \in Nat
      /\ \A i \in 1..(n + m) : (L \o es)[i] = IF i <= n THEN L[i] ELSE es[i - n]
  BY <1>1, <1>2 DEF n, m
<1>5. \A i \in 1..n : (L \o es)[i] = L[i]
  <2>1. \A i \in 1..n : i \in 1..(n + m) /\ i <= n  BY <1>4
  <2>2. QED  BY <1>4, <2>1
<1>6. \A i \in 1..m : (L \o es)[n + i] = es[i]
  <2>1. SUFFICES ASSUME NEW i \in 1..m  PROVE (L \o es)[n + i] = es[i]  OBVIOUS
  <2>2. n + i \in 1..(n + m) /\ ~(n + i <= n) /\ (n + i) - n = i  BY <1>4
  <2>3. (L \o es)[n + i] = IF n + i <= n THEN L[n + i] ELSE es[(n + i) - n]
    BY <1>4, <2>2
  <2>4. QED  BY <2>2, <2>3
<1>7. QED  BY <1>1, <1>2, <1>3, <1>5, <1>6 DEF n, m, Joined

-------------------------------------------------------------------------------
(* One write *)

(* A reader of g, if it can read g at all, sees f or f with e at the end. *)
Extends(f, g, e) ==
  Readable(g) => /\ Readable(f)
                 /\ g.lines = f.lines \/ g.lines = Append(f.lines, e)

(* Adding one line keeps the type of the file (the text mode append of
   _append). *)
LEMMA AddLineType ==
  ASSUME NEW Record, NEW f \in Files(Record),
         NEW line \in Record \cup {Torn}, NEW open \in BOOLEAN
  PROVE  AddLine(f, line, open) \in Files(Record)
<1> DEFINE R == Record \cup {Torn}
           L == f.lines
           n == Len(L)
<1>1. L \in Seq(R) /\ f.open \in BOOLEAN /\ (f.open => L # <<>>)  BY DEF Files
<1>2. Append(L, line) \in Seq(R) /\ Append(L, line) # <<>>
  <2>1. Append(L, line) \in Seq(R) /\ Len(Append(L, line)) = n + 1
    BY <1>1, AppendProperties
  <2>2. n \in Nat /\ Len(<<>>) = 0  BY <1>1, LenProperties, EmptySeq
  <2>3. n + 1 # 0  BY <2>2
  <2>4. QED  BY <2>1, <2>2, <2>3
<1>3. L # <<>> => [L EXCEPT ![n] = Torn] \in Seq(R) /\ [L EXCEPT ![n] = Torn] # <<>>
  <2>1. SUFFICES ASSUME L # <<>>
                 PROVE  [L EXCEPT ![n] = Torn] \in Seq(R) /\ [L EXCEPT ![n] = Torn] # <<>>
    OBVIOUS
  <2>2. n \in 1..n  BY <1>1, <2>1, EmptySeq
  <2>3. [L EXCEPT ![n] = Torn] \in Seq(R) /\ Len([L EXCEPT ![n] = Torn]) = n
    BY <1>1, <2>2, ExceptSeq
  <2>4. QED  BY <2>2, <2>3, EmptySeq
<1>4. QED  BY <1>1, <1>2, <1>3 DEF Files, AddLine

(* A write that returns, and one that does not, keep the type of the file. *)
LEMMA WriteType ==
  ASSUME NEW Record, NEW f \in Files(Record), NEW e \in Record
  PROVE  /\ Written(f, e) \in Files(Record)
         /\ \A w \in Outcomes : Interrupted(f, e, w) \in Files(Record)
<1>1. /\ AddLine(f, e, TRUE) \in Files(Record)
      /\ AddLine(f, e, FALSE) \in Files(Record)
      /\ AddLine(f, Torn, TRUE) \in Files(Record)
  BY AddLineType
<1>2. QED  BY <1>1 DEF Written, Interrupted, Outcomes

(* A line added to a log leaves a readable log only if the log was readable,
   the line is, and it became a line of its own, the last one. *)
LEMMA AddLineExtends ==
  ASSUME NEW Record, NEW f \in Files(Record),
         NEW line \in Record \cup {Torn}, NEW open \in BOOLEAN,
         Readable(AddLine(f, line, open))
  PROVE  /\ Readable(f)
         /\ AddLine(f, line, open).lines = Append(f.lines, line)
         /\ line # Torn
<1> DEFINE L == f.lines
           n == Len(L)
<1>1. L \in Seq(Record \cup {Torn}) /\ (f.open => L # <<>>)  BY DEF Files
<1>2. n \in Nat /\ DOMAIN L = 1..n  BY <1>1, LenProperties
<1>3. ~f.open
  <2>1. SUFFICES ASSUME f.open PROVE FALSE  OBVIOUS
  <2>2. n \in 1..n  BY <1>1, <1>2, <2>1, EmptySeq
  <2>3. AddLine(f, line, open).lines = [L EXCEPT ![n] = Torn]  BY <2>1 DEF AddLine
  <2>4. n \in DOMAIN [L EXCEPT ![n] = Torn] /\ [L EXCEPT ![n] = Torn][n] = Torn
    BY <1>1, <1>2, <2>2
  <2>5. QED  BY <2>3, <2>4 DEF Readable
<1>4. AddLine(f, line, open).lines = Append(L, line)  BY <1>3 DEF AddLine
<1>5. /\ DOMAIN Append(L, line) = 1..(n + 1)
      /\ Append(L, line)[n + 1] = line
      /\ \A i \in 1..n : Append(L, line)[i] = L[i]
  BY <1>1, <1>2, AppendProperties
<1>6. \A i \in 1..(n + 1) : Append(L, line)[i] # Torn
  BY <1>4, <1>5 DEF Readable
<1>7. Readable(f)  BY <1>2, <1>5, <1>6 DEF Readable
<1>8. line # Torn  BY <1>2, <1>5, <1>6
<1>9. QED  BY <1>4, <1>7, <1>8

(* What a reader sees after a write that returned: the record at the end of
   what was there, or a log that cannot be read. *)
LEMMA WrittenExtends ==
  ASSUME NEW Record, NEW f \in Files(Record), NEW e \in Record,
         Readable(Written(f, e))
  PROVE  Readable(f) /\ Written(f, e).lines = Append(f.lines, e)
BY AddLineExtends, ZenonT(40) DEF Written

(* What a reader sees after a write that did not return: what was there, with
   or without the record, or a log that cannot be read. *)
LEMMA InterruptedExtends ==
  ASSUME NEW Record, NEW f \in Files(Record), NEW e \in Record,
         NEW w \in Outcomes
  PROVE  Extends(f, Interrupted(f, e, w), e)
<1>1. CASE w = "nothing"
  BY <1>1 DEF Interrupted, Extends
<1>2. CASE w = "prefix"
  <2>1. ~Readable(AddLine(f, Torn, TRUE))  BY AddLineExtends, ZenonT(40)
  <2>2. Interrupted(f, e, w) = AddLine(f, Torn, TRUE)  BY <1>2 DEF Interrupted
  <2>3. QED  BY <2>1, <2>2 DEF Extends
<1>3. CASE w = "unterminated"
  <2>1. Readable(AddLine(f, e, TRUE)) =>
          Readable(f) /\ AddLine(f, e, TRUE).lines = Append(f.lines, e)
    BY AddLineExtends, ZenonT(40)
  <2>2. Interrupted(f, e, w) = AddLine(f, e, TRUE)  BY <1>3 DEF Interrupted
  <2>3. QED  BY <2>1, <2>2 DEF Extends
<1>4. CASE w = "complete"
  <2>1. Readable(AddLine(f, e, FALSE)) =>
          Readable(f) /\ AddLine(f, e, FALSE).lines = Append(f.lines, e)
    BY AddLineExtends, ZenonT(40)
  <2>2. Interrupted(f, e, w) = AddLine(f, e, FALSE)  BY <1>4 DEF Interrupted
  <2>3. QED  BY <2>1, <2>2 DEF Extends
<1>5. QED  BY <1>1, <1>2, <1>3, <1>4 DEF Outcomes

(* The lines of several writes that all returned, when the log can be read:
   the records, in their order, at the end of what was there. *)
LEMMA WrittenAllExtends ==
  ASSUME NEW Record, NEW f \in Files(Record), NEW es \in Seq(Record)
  PROVE  /\ WrittenAll(f, es) \in Files(Record)
         /\ Readable(WrittenAll(f, es)) =>
              Readable(f) /\ WrittenAll(f, es).lines = f.lines \o es
<1> DEFINE R == Record \cup {Torn}
           g == WrittenAll(f, es)
<1>1. f.lines \in Seq(R)  BY DEF Files
<1>2. es \in Seq(R)  BY SeqMonotonic
<1>3. CASE es = <<>>
  <2>1. g = f  BY <1>3 DEF WrittenAll
  <2>2. f.lines \o es = f.lines  BY <1>1, <1>3, ConcatEmptySeq
  <2>3. QED  BY <2>1, <2>2
<1>4. CASE es # <<>>
  <2> DEFINE h == Written(f, Head(es))
  <2>1. Head(es) \in Record /\ Tail(es) \in Seq(Record)  BY <1>4, HeadTailProperties
  <2>2. h \in Files(Record)  BY <2>1, WriteType
  <2>3. h.lines \in Seq(R) /\ Tail(es) \in Seq(R)  BY <2>1, <2>2, SeqMonotonic DEF Files
  <2>4. g = [lines |-> h.lines \o Tail(es), open |-> FALSE]  BY <1>4 DEF WrittenAll
  <2> HIDE DEF h, g
  <2>5. h.lines \o Tail(es) \in Seq(R)  BY <2>3, ConcatProperties
  <2>6. g \in Files(Record)  BY <2>4, <2>5 DEF Files
  <2>7. ASSUME Readable(g)  PROVE Readable(f) /\ g.lines = f.lines \o es
    <3>1. Readable(h)
      <4>1. /\ DOMAIN h.lines = 1..Len(h.lines) /\ Len(h.lines) \in Nat
            /\ Len(Tail(es)) \in Nat
            /\ DOMAIN g.lines = 1..(Len(h.lines) + Len(Tail(es)))
            /\ \A i \in 1..Len(h.lines) : g.lines[i] = h.lines[i]
        BY <2>3, <2>4, ConcatFacts DEF Joined
      <4>2. \A a, b \in Nat : \A i \in 1..a : i \in 1..(a + b)  OBVIOUS
      <4>3. \A i \in 1..Len(h.lines) : g.lines[i] # Torn  BY <2>7, <4>1, <4>2 DEF Readable
      <4>4. QED  BY <4>1, <4>3 DEF Readable
    <3>2. Readable(f) /\ h.lines = Append(f.lines, Head(es))
      BY <2>1, <3>1, WrittenExtends DEF h
    <3>3. h.lines = f.lines \o <<Head(es)>>
      BY <1>1, <2>1, <3>2, AppendIsConcat
    <3>4. es = <<Head(es)>> \o Tail(es)
      <4>1. Len(es) \in Nat \ {0}  BY <1>4, EmptySeq
      <4>2. SubSeq(es, 1, Len(es)) = <<es[1]>> \o SubSeq(es, 2, Len(es))
        <5>1. 1 \in 1..Len(es) /\ Len(es) \in 1..Len(es)  BY <4>1
        <5>2. QED  BY <5>1, SubSeqRecursiveFirst
      <4>3. SubSeq(es, 1, Len(es)) = es  BY SubSeqFull
      <4>4. Head(es) = es[1] /\ Tail(es) = SubSeq(es, 2, Len(es))
        BY <1>4, TailIsSubSeq
      <4>5. QED  BY <4>2, <4>3, <4>4
    <3>5. (f.lines \o <<Head(es)>>) \o Tail(es) = f.lines \o (<<Head(es)>> \o Tail(es))
      <4>1. <<Head(es)>> \in Seq(R)  BY <2>1
      <4>2. QED  BY <1>1, <2>3, <4>1, ConcatAssociative
    <3>6. QED  BY <2>4, <3>2, <3>3, <3>4, <3>5
  <2>8. QED  BY <2>6, <2>7 DEF g
<1>5. QED  BY <1>3, <1>4

-------------------------------------------------------------------------------
(* What _read_log makes of a log, readable or not *)

(* A log that can be read is read whole. *)
LEMMA WholeReadable ==
  ASSUME NEW f, Readable(f)
  PROVE  Whole(f.lines) = f.lines
BY DEF Whole, Readable

(* Lines that follow a torn one are never reached. *)
LEMMA WholeTorn ==
  ASSUME NEW R, NEW L \in Seq(R), NEW M \in Seq(R), Len(L) <= Len(M),
         \A i \in 1..Len(L) : M[i] = L[i],
         \E i \in DOMAIN L : L[i] = Torn
  PROVE  Whole(M) = Whole(L)
<1> DEFINE n == Len(L)
           torn == {i \in DOMAIN L : L[i] = Torn}
           tornM == {i \in DOMAIN M : M[i] = Torn}
           First(S) == CHOOSE i \in S : \A j \in S : i <= j
<1>1. /\ n \in Nat /\ DOMAIN L = 1..n /\ Len(M) \in Nat /\ DOMAIN M = 1..Len(M)
      /\ 1..n \subseteq 1..Len(M)
  BY LenProperties
<1>2. /\ Whole(L) = IF torn = {} THEN L ELSE SubSeq(L, 1, First(torn) - 1)
      /\ Whole(M) = IF tornM = {} THEN M ELSE SubSeq(M, 1, First(tornM) - 1)
  BY DEF Whole
<1>3. torn # {} /\ torn \in SUBSET Nat /\ tornM \in SUBSET Nat  BY <1>1
<1>4. torn \subseteq tornM /\ \A j \in tornM : j \in torn \/ n < j  BY <1>1
<1>5. torn \subseteq 1..n  BY <1>1
<1> HIDE DEF torn, tornM
<1>6. PICK i \in torn : \A j \in torn : i <= j  BY <1>3, LeastNatural
<1>7. First(torn) = i  BY <1>3, <1>6, LeastUnique
<1>8. i \in tornM /\ \A j \in tornM : i <= j  BY <1>1, <1>3, <1>4, <1>5, <1>6
<1>9. First(tornM) = i  BY <1>3, <1>8, LeastUnique
<1>10. SubSeq(M, 1, i - 1) = SubSeq(L, 1, i - 1)
  <2> DEFINE k == i - 1
  <2>1. k \in Int /\ 1 \in Int /\ \A j \in 1..k : j \in 1..n /\ j \in 1..Len(M)
    BY <1>1, <1>5, <1>6
  <2>2. \A j \in 1..k : L[j] \in R /\ M[j] \in R /\ M[j] = L[j]  BY <2>1, ElementOfSeq
  <2> HIDE DEF k
  <2>3. /\ SubSeq(L, 1, k) \in Seq(R) /\ Len(SubSeq(L, 1, k)) = IF 1 <= k THEN k - 1 + 1 ELSE 0
        /\ \A j \in 1..(k - 1 + 1) : SubSeq(L, 1, k)[j] = L[1 + j - 1]
    BY <2>1, <2>2, SubSeqProperties
  <2>4. /\ SubSeq(M, 1, k) \in Seq(R) /\ Len(SubSeq(M, 1, k)) = IF 1 <= k THEN k - 1 + 1 ELSE 0
        /\ \A j \in 1..(k - 1 + 1) : SubSeq(M, 1, k)[j] = M[1 + j - 1]
    BY <2>1, <2>2, SubSeqProperties
  <2>5. \A j \in 1..Len(SubSeq(L, 1, k)) : SubSeq(L, 1, k)[j] = SubSeq(M, 1, k)[j]
    <3>1. SUFFICES ASSUME NEW j \in 1..Len(SubSeq(L, 1, k))
                   PROVE  SubSeq(L, 1, k)[j] = SubSeq(M, 1, k)[j]
      OBVIOUS
    <3>2. j \in 1..k /\ k - 1 + 1 = k /\ 1 + j - 1 = j  BY <2>1, <2>3, <3>1
    <3>3. QED  BY <2>2, <2>3, <2>4, <3>2
  <2>6. SubSeq(M, 1, k) = SubSeq(L, 1, k)  BY <2>3, <2>4, <2>5, SeqEqual
  <2>7. QED  BY <2>6 DEF k
<1>11. QED  BY <1>2, <1>3, <1>7, <1>8, <1>9, <1>10

(* One more line is read at the end of a log that is read whole, or not at
   all. *)
LEMMA WholeAppend ==
  ASSUME NEW R, NEW L \in Seq(R), NEW line \in R
  PROVE  Whole(Append(L, line)) =
           IF line # Torn /\ \A i \in DOMAIN L : L[i] # Torn
             THEN Append(L, line) ELSE Whole(L)
<1> DEFINE n == Len(L)
           M == Append(L, line)
<1>1. /\ n \in Nat /\ DOMAIN L = 1..n /\ M \in Seq(R) /\ Len(M) = n + 1
      /\ DOMAIN M = 1..(n + 1) /\ M[n + 1] = line /\ \A i \in 1..n : M[i] = L[i]
  BY AppendProperties, LenProperties
<1>2. 1..(n + 1) = 1..n \cup {n + 1} /\ n <= n + 1  BY <1>1
<1> HIDE DEF M, n
<1>3. CASE \E i \in DOMAIN L : L[i] = Torn
  <2>1. Whole(M) = Whole(L)  BY <1>1, <1>2, <1>3, WholeTorn DEF n
  <2>2. QED  BY <1>3, <2>1 DEF M
<1>4. CASE line # Torn /\ \A i \in DOMAIN L : L[i] # Torn
  <2>1. \A i \in DOMAIN M : M[i] # Torn  BY <1>1, <1>2, <1>4
  <2>2. Whole(M) = M  BY <2>1 DEF Whole
  <2>3. QED  BY <1>4, <2>2 DEF M
<1>5. CASE line = Torn /\ \A i \in DOMAIN L : L[i] # Torn
  <2> DEFINE torn == {i \in DOMAIN M : M[i] = Torn}
             first == CHOOSE i \in torn : \A j \in torn : i <= j
  <2>1. torn = {n + 1}  BY <1>1, <1>2, <1>5
  <2>2. first = n + 1
    <3> HIDE DEF torn
    <3>1. torn \in SUBSET Nat /\ n + 1 \in torn /\ \A j \in torn : n + 1 <= j  BY <1>1, <2>1
    <3>2. QED  BY <3>1, LeastUnique
  <2>3. Whole(M) = SubSeq(M, 1, first - 1)  BY <2>1 DEF Whole
  <2>4. (n + 1) - 1 = n  BY <1>1
  <2>5. Whole(M) = SubSeq(M, 1, n)  BY <2>2, <2>3, <2>4
  <2>6. SubSeq(M, 1, n) = L
    <3>1. M = L \o <<line>> /\ <<line>> \in Seq(R)  BY AppendIsConcat DEF M
    <3>2. CASE n = 0
      <4>1. SubSeq(M, 1, n) = <<>>  BY <3>2, SubSeqEmpty
      <4>2. L = <<>>  BY <3>2, EmptySeq DEF n
      <4>3. QED  BY <4>1, <4>2
    <3>3. CASE n # 0
      <4>1. 1 \in 1..n /\ n \in 1..n  BY <1>1, <3>3
      <4>2. SubSeq(L \o <<line>>, 1, n) = SubSeq(L, 1, n)
        BY <3>1, <4>1, SubSeqOfConcat1 DEF n
      <4>3. QED  BY <3>1, <4>2, SubSeqFull DEF n
    <3>4. QED  BY <3>2, <3>3
  <2>7. Whole(L) = L  BY <1>5 DEF Whole
  <2>8. QED  BY <1>5, <2>5, <2>6, <2>7 DEF M
<1>6. QED  BY <1>3, <1>4, <1>5

(* While no record is left complete without its newline, a line that lacks it
   is torn. *)
OpenIsTorn(f) == f.open => f.lines[Len(f.lines)] = Torn

(* A line added to such a log is read at its end or not at all, and what was
   read before is read still. *)
LEMMA AddLineWhole ==
  ASSUME NEW Record, NEW f \in Files(Record), OpenIsTorn(f),
         NEW line \in Record \cup {Torn}, NEW open \in BOOLEAN,
         open => line = Torn
  PROVE  /\ OpenIsTorn(AddLine(f, line, open))
         /\ Whole(AddLine(f, line, open).lines) =
              IF Readable(f) /\ line # Torn THEN Append(f.lines, line) ELSE Whole(f.lines)
<1> DEFINE L == f.lines
           n == Len(L)
           R == Record \cup {Torn}
           g == AddLine(f, line, open)
<1>1. L \in Seq(R) /\ f.open \in BOOLEAN /\ (f.open => L # <<>>)  BY DEF Files
<1>2. n \in Nat /\ DOMAIN L = 1..n  BY <1>1, LenProperties
<1>3. CASE f.open
  <2>1. n \in 1..n  BY <1>1, <1>2, <1>3, EmptySeq
  <2>2. L[n] = Torn  BY <1>3 DEF OpenIsTorn
  <2>3. [L EXCEPT ![n] = Torn] = L
    <3>1. L \in [1..n -> R]  BY <1>1, LenProperties
    <3>2. QED  BY <2>1, <2>2, <3>1
  <2>4. g.lines = L /\ g.open = open  BY <1>3, <2>3 DEF AddLine
  <2>5. ~Readable(f)  BY <1>2, <2>1, <2>2 DEF Readable
  <2>6. QED  BY <2>2, <2>4, <2>5 DEF OpenIsTorn
<1>4. CASE ~f.open
  <2>1. g.lines = Append(L, line) /\ g.open = open  BY <1>4 DEF AddLine
  <2>2. Len(Append(L, line)) = n + 1 /\ Append(L, line)[n + 1] = line
    BY <1>1, AppendProperties
  <2>3. OpenIsTorn(g)  BY <2>1, <2>2 DEF OpenIsTorn
  <2>4. Whole(Append(L, line)) =
          IF line # Torn /\ \A i \in DOMAIN L : L[i] # Torn THEN Append(L, line) ELSE Whole(L)
    BY <1>1, WholeAppend
  <2>5. QED  BY <2>1, <2>3, <2>4 DEF Readable
<1>5. QED  BY <1>1, <1>3, <1>4

(* However a write ends, short of the one outcome that leaves a whole record
   without its newline, a reader that stops at the first bad line sees what it
   saw, or that and the record; the record only if the log could be read. *)
LEMMA WriteWhole ==
  ASSUME NEW Record, NEW f \in Files(Record), OpenIsTorn(f), NEW e \in Record,
         NEW g, \/ g = Written(f, e)
                \/ \E w \in Outcomes \ {"unterminated"} : g = Interrupted(f, e, w)
  PROVE  /\ OpenIsTorn(g)
         /\ \/ Whole(g.lines) = Whole(f.lines)
            \/ Readable(f) /\ Whole(g.lines) = Append(f.lines, e)
<1>1. CASE g = f  BY <1>1
<1>2. CASE g = AddLine(f, e, FALSE)  BY <1>2, AddLineWhole
<1>3. CASE g = AddLine(f, Torn, TRUE)  BY <1>3, AddLineWhole
<1>4. g = f \/ g = AddLine(f, e, FALSE) \/ g = AddLine(f, Torn, TRUE)
  BY DEF Outcomes, Interrupted, Written
<1>5. QED  BY <1>1, <1>2, <1>3, <1>4

(* The same of several writes that all returned. *)
LEMMA WrittenAllWhole ==
  ASSUME NEW Record, Torn \notin Record, NEW f \in Files(Record), OpenIsTorn(f),
         NEW es \in Seq(Record)
  PROVE  /\ OpenIsTorn(WrittenAll(f, es))
         /\ Whole(WrittenAll(f, es).lines) =
              IF Readable(f) THEN f.lines \o es ELSE Whole(f.lines)
<1> DEFINE R == Record \cup {Torn}
           L == f.lines
           g == WrittenAll(f, es)
<1>1. L \in Seq(R) /\ f.open \in BOOLEAN  BY DEF Files
<1>2. CASE es = <<>>
  <2>1. g = f  BY <1>2 DEF WrittenAll
  <2>2. L \o es = L  BY <1>1, <1>2, ConcatEmptySeq
  <2>3. QED  BY <2>1, <2>2, WholeReadable
<1>3. CASE es # <<>>
  <2> DEFINE h == Written(f, Head(es))
  <2>1. Head(es) \in Record /\ Tail(es) \in Seq(Record)  BY <1>3, HeadTailProperties
  <2>2. h \in Files(Record)  BY <2>1, WriteType
  <2>3. h.lines \in Seq(R) /\ Tail(es) \in Seq(R)  BY <2>1, <2>2, SeqMonotonic DEF Files
  <2>4. g = [lines |-> h.lines \o Tail(es), open |-> FALSE]  BY <1>3 DEF WrittenAll
  <2>5. OpenIsTorn(g)  BY <2>4 DEF OpenIsTorn
  <2>6. Whole(h.lines) = IF Readable(f) /\ Head(es) # Torn THEN Append(L, Head(es)) ELSE Whole(L)
    BY <2>1, AddLineWhole DEF Written
  <2> HIDE DEF h, g
  <2>7. /\ Len(h.lines) \in Nat /\ Len(Tail(es)) \in Nat
        /\ DOMAIN h.lines = 1..Len(h.lines) /\ DOMAIN Tail(es) = 1..Len(Tail(es))
        /\ g.lines \in Seq(R)
        /\ DOMAIN g.lines = 1..(Len(h.lines) + Len(Tail(es)))
        /\ \A i \in 1..Len(h.lines) : g.lines[i] = h.lines[i]
        /\ \A i \in 1..Len(Tail(es)) : g.lines[Len(h.lines) + i] = Tail(es)[i]
    BY <2>3, <2>4, ConcatFacts DEF Joined
  <2>8. CASE ~Readable(h)
    <3>1. Len(h.lines) <= Len(g.lines)
      <4>1. Len(g.lines) = Len(h.lines) + Len(Tail(es))
        BY <2>3, <2>4, ConcatProperties
      <4>2. \A a, b \in Nat : a <= a + b  OBVIOUS
      <4>3. Len(h.lines) \in Nat /\ Len(Tail(es)) \in Nat  BY <2>7
      <4>4. Len(h.lines) <= Len(h.lines) + Len(Tail(es))  BY <4>2, <4>3
      <4>5. QED  BY <4>1, <4>4
    <3>2. \E i \in DOMAIN h.lines : h.lines[i] = Torn  BY <2>8 DEF Readable
    <3>3. Whole(g.lines) = Whole(h.lines)  BY <2>3, <2>7, <3>1, <3>2, WholeTorn
    <3>4. ~Readable(f)
      <4>1. SUFFICES ASSUME Readable(f)  PROVE Readable(h)  BY <2>8
      <4>2. Whole(h.lines) = Append(L, Head(es))  BY <2>1, <2>6, <4>1
      <4>3. ~f.open
        <5>1. SUFFICES ASSUME f.open  PROVE FALSE  OBVIOUS
        <5>2. L # <<>> /\ L[Len(L)] = Torn  BY <5>1 DEF Files, OpenIsTorn
        <5>3. Len(L) \in 1..Len(L) /\ DOMAIN L = 1..Len(L)
          BY <1>1, <5>2, EmptySeq, LenProperties
        <5>4. QED  BY <4>1, <5>2, <5>3 DEF Readable
      <4>4. h.lines = Append(L, Head(es))  BY <4>3 DEF h, Written, AddLine
      <4>5. /\ Len(L) \in Nat /\ DOMAIN L = 1..Len(L)
            /\ DOMAIN Append(L, Head(es)) = 1..(Len(L) + 1)
            /\ Append(L, Head(es))[Len(L) + 1] = Head(es)
            /\ \A i \in 1..Len(L) : Append(L, Head(es))[i] = L[i]
        BY <1>1, <2>1, AppendProperties, LenProperties
      <4>6. \A n \in Nat : 1..(n + 1) = 1..n \cup {n + 1}  OBVIOUS
      <4>7. DOMAIN Append(L, Head(es)) = 1..Len(L) \cup {Len(L) + 1}  BY <4>5, <4>6
      <4>8. QED  BY <2>1, <4>1, <4>4, <4>5, <4>7 DEF Readable
    <3>5. QED  BY <2>5, <2>6, <3>3, <3>4 DEF g
  <2>9. CASE Readable(h)
    <3>1. Readable(f) /\ h.lines = Append(L, Head(es))
      BY <2>1, <2>9, WrittenExtends DEF h
    <3>2. Readable(g)
      <4>1. \A i \in 1..Len(Tail(es)) : Tail(es)[i] # Torn  BY <2>1, ElementOfSeq
      <4>2. \A a, b \in Nat : \A i \in 1..(a + b) : i \in 1..a \/ (i - a \in 1..b /\ a + (i - a) = i)
        OBVIOUS
      <4>3. SUFFICES ASSUME NEW i \in 1..(Len(h.lines) + Len(Tail(es)))
                     PROVE  g.lines[i] # Torn
        BY <2>7 DEF Readable
      <4>4. CASE i \in 1..Len(h.lines)  BY <2>7, <2>9, <4>4 DEF Readable
      <4>5. CASE /\ i - Len(h.lines) \in 1..Len(Tail(es))
                 /\ Len(h.lines) + (i - Len(h.lines)) = i
        BY <2>7, <4>1, <4>5
      <4>6. QED  BY <2>7, <4>2, <4>4, <4>5
    <3>3. Whole(g.lines) = g.lines  BY <3>2, WholeReadable
    <3>4. g.lines = L \o es  BY <3>2, WrittenAllExtends DEF g
    <3>5. QED  BY <2>5, <3>1, <3>3, <3>4 DEF g
  <2>10. QED  BY <2>8, <2>9
<1>4. QED  BY <1>2, <1>3
===============================================================================
