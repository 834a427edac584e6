------------------------------ MODULE KaniLogProofs -----------------------------
(***************************************************************************)
(* Proofs about KaniLog: whatever the interleaving of the verifier's lines *)
(* and wherever the log ends, receipts that are returned say of each       *)
(* harness what the verifier found out about it.                           *)
(***************************************************************************)
EXTENDS KaniLog, SequenceTheorems, FunctionTheorems, FiniteSetTheorems, TLAPS

-------------------------------------------------------------------------------
(* Sequences *)

(* A set of naturals with 0 and the successor of each of its elements is Nat. *)
LEMMA Induction ==
  ASSUME NEW T \in SUBSET Nat, 0 \in T, \A n \in T : n + 1 \in T
  PROVE  T = Nat
<1> DEFINE Missing == {1..n : n \in Nat \ T}
<1>1. SUFFICES ASSUME NEW miss \in Nat \ T PROVE FALSE  OBVIOUS
<1>2. Missing \subseteq FiniteSubsetsOf(Nat) /\ Missing # {}
  <2>1. \A n \in Nat : 1..n \in SUBSET Nat /\ IsFiniteSet(1..n)  BY FS_Interval
  <2>2. 1..miss \in Missing  OBVIOUS
  <2>3. QED  BY <2>1, <2>2 DEF FiniteSubsetsOf
<1>3. IsWellFoundedOn(StrictSubsetOrdering(Nat), FiniteSubsetsOf(Nat))
  BY FS_StrictSubsetOrderingWellFounded
<1> HIDE DEF Missing
<1>4. PICK m \in Missing : \A k \in Missing : ~(<<k, m>> \in StrictSubsetOrdering(Nat))
  BY <1>2, <1>3, WFMin
<1>5. PICK n \in Nat \ T : m = 1..n  BY DEF Missing
<1>6. n # 0 /\ n - 1 \in Nat /\ (n - 1) + 1 = n  OBVIOUS
<1>7. n - 1 \notin T  BY <1>6
<1>8. 1..(n - 1) \in Missing  BY <1>6, <1>7 DEF Missing
<1>9. n \in 1..n /\ n \notin 1..(n - 1) /\ 1..(n - 1) \subseteq 1..n  BY <1>6
<1>10. <<1..(n - 1), m>> \in StrictSubsetOrdering(Nat)
  BY <1>5, <1>6, <1>9 DEF StrictSubsetOrdering
<1>11. QED  BY <1>4, <1>8, <1>10

(* A function on 1..n is a sequence of length n. *)
LEMMA FunctionIsSeq ==
  ASSUME NEW S, NEW n \in Nat, NEW f \in [1..n -> S]
  PROVE  f \in Seq(S) /\ Len(f) = n
<1>1. f \in Seq(S)  BY SeqDef
<1>2. Len(f) \in Nat /\ 1..Len(f) = 1..n  BY <1>1, LenProperties
<1>3. Len(f) = n  BY <1>2
<1>4. QED  BY <1>1, <1>3

(* A line, then a sequence. *)
LEMMA FirstThen ==
  ASSUME NEW S, NEW e \in S, NEW s \in Seq(S)
  PROVE  /\ <<e>> \o s \in Seq(S) /\ <<e>> \o s # <<>>
         /\ Head(<<e>> \o s) = e /\ Tail(<<e>> \o s) = s
         /\ Len(<<e>> \o s) = Len(s) + 1
         /\ (<<e>> \o s)[1] = e
         /\ \A i \in 1..Len(s) : (<<e>> \o s)[i + 1] = s[i]
<1> DEFINE t == <<e>> \o s
<1>1. <<e>> \in Seq(S) /\ Len(<<e>>) = 1 /\ <<e>>[1] = e  OBVIOUS
<1>2. Len(s) \in Nat  BY LenProperties
<1>3. /\ t \in Seq(S) /\ Len(t) = 1 + Len(s)
      /\ \A i \in 1..(1 + Len(s)) : t[i] = IF i <= 1 THEN <<e>>[i] ELSE s[i - 1]
  BY <1>1, ConcatProperties
<1> HIDE DEF t
<1>4. t[1] = e /\ \A i \in 1..Len(s) : t[i + 1] = s[i]
  <2>1. 1 \in 1..(1 + Len(s))  BY <1>2
  <2>2. \A i \in 1..Len(s) : i + 1 \in 1..(1 + Len(s)) /\ ~(i + 1 <= 1) /\ (i + 1) - 1 = i
    BY <1>2
  <2>3. QED  BY <1>1, <1>3, <2>1, <2>2
<1>5. t # <<>>  BY <1>2, <1>3, EmptySeq
<1>6. Head(t) = e  BY <1>4
<1>7. Tail(t) = s
  <2>1. /\ Tail(t) \in Seq(S) /\ Len(Tail(t)) = Len(s)
        /\ \A i \in 1..Len(Tail(t)) : Tail(t)[i] = t[i + 1]
    BY <1>2, <1>3, <1>5, HeadTailProperties
  <2>2. QED  BY <1>4, <2>1, SeqEqual
<1>8. QED  BY <1>2, <1>3, <1>4, <1>5, <1>6, <1>7 DEF t

(* A sequence that is not empty is its head and then its tail. *)
LEMMA HeadFirst ==
  ASSUME NEW S, NEW s \in Seq(S), s # <<>>
  PROVE  /\ Len(s) \in Nat /\ Len(s) >= 1 /\ Head(s) = s[1] /\ Head(s) \in S
         /\ Tail(s) \in Seq(S) /\ Len(Tail(s)) = Len(s) - 1
         /\ \A i \in 1..(Len(s) - 1) : Tail(s)[i] = s[i + 1]
<1>1. Len(s) \in Nat \ {0}  BY EmptySeq
<1>2. Head(s) = s[1]  OBVIOUS
<1>3. /\ Head(s) \in S /\ Tail(s) \in Seq(S) /\ Len(Tail(s)) = Len(s) - 1
      /\ \A i \in 1..Len(Tail(s)) : Tail(s)[i] = s[i + 1]
  BY HeadTailProperties
<1>4. QED  BY <1>1, <1>2, <1>3

(* What FlattenSeq puts together, one sequence after the other. *)
Flattens(g, F, n) ==
  /\ g[0] = <<>>
  /\ \A i \in 1..n : g[i] = g[i - 1] \o F[i]

(* The parts of a list can be put together as far as one likes. *)
LEMMA FlattensExist ==
  ASSUME NEW F, NEW n \in Nat
  PROVE  \E g : Flattens(g, F, n)
<1> DEFINE T == {i \in Nat : \E g : Flattens(g, F, i)}
<1>1. 0 \in T
  <2>1. Flattens([i \in {0} |-> <<>>], F, 0)  BY DEF Flattens
  <2>2. QED  BY <2>1
<1>2. ASSUME NEW i \in T PROVE i + 1 \in T
  <2>1. PICK g : Flattens(g, F, i)  OBVIOUS
  <2> DEFINE k == [j \in 0..(i + 1) |-> IF j = i + 1 THEN g[i] \o F[i + 1] ELSE g[j]]
  <2>2. k[0] = g[0]  OBVIOUS
  <2>3. ASSUME NEW j \in 1..(i + 1) PROVE k[j] = k[j - 1] \o F[j]
    <3>1. CASE j = i + 1
      <4>1. k[j] = g[i] \o F[i + 1] /\ k[j - 1] = g[i]  BY <3>1
      <4>2. QED  BY <3>1, <4>1
    <3>2. CASE j # i + 1
      <4>1. j \in 1..i /\ k[j] = g[j] /\ k[j - 1] = g[j - 1]  BY <3>2
      <4>2. QED  BY <2>1, <4>1 DEF Flattens
    <3>3. QED  BY <3>1, <3>2
  <2> HIDE DEF k
  <2>4. Flattens(k, F, i + 1)  BY <2>1, <2>2, <2>3 DEF Flattens
  <2>5. QED  BY <2>4
<1> HIDE DEF T
<1>3. T = Nat
  <2>1. T \in SUBSET Nat  BY DEF T
  <2>2. QED  BY <1>1, <1>2, <2>1, Induction
<1>4. QED  BY <1>3 DEF T

(* FlattenSeq puts its sequences together in their order. *)
LEMMA FlattenUnfolds ==
  ASSUME NEW S, NEW n \in Nat, NEW F \in [1..n -> Seq(S)]
  PROVE  \E g : Flattens(g, F, n) /\ FlattenSeq(F) = g[n]
<1>1. Len(F) = n  BY FunctionIsSeq
<1>2. CASE n = 0
  <2>1. F = <<>>  BY <1>1, <1>2, EmptySeq, FunctionIsSeq
  <2>2. FlattenSeq(F) = <<>>  BY <1>1, <1>2, <2>1 DEF FlattenSeq
  <2>3. PICK g : Flattens(g, F, 0)  BY FlattensExist
  <2>4. QED  BY <1>2, <2>2, <2>3 DEF Flattens
<1>3. CASE n # 0
  <2> DEFINE Solves(f) == f = [i \in 1..n |-> IF i = 1 THEN F[i] ELSE f[i - 1] \o F[i]]
             flat == CHOOSE f : Solves(f)
  <2>1. PICK g : Flattens(g, F, n)  BY FlattensExist
  <2>2. g[1] = F[1]
    <3>1. 1 \in 1..n  BY <1>3
    <3>2. g[1] = g[1 - 1] \o F[1] /\ g[0] = <<>>  BY <2>1, <3>1, Zenon DEF Flattens
    <3>3. F[1] \in Seq(S)  BY <3>1
    <3>4. 1 - 1 = 0  OBVIOUS
    <3>5. QED  BY <3>2, <3>3, <3>4, ConcatEmptySeq
  <2>3. Solves([i \in 1..n |-> g[i]])
    <3>1. \A i \in 1..n : i # 1 => i - 1 \in 1..n  OBVIOUS
    <3>2. \A i \in 1..n : g[i] = IF i = 1 THEN F[i] ELSE [j \in 1..n |-> g[j]][i - 1] \o F[i]
      BY <2>1, <2>2, <3>1 DEF Flattens
    <3>3. QED  BY <3>2
  <2> HIDE DEF Solves
  <2>4. Solves(flat)  BY <2>3
  <2>5. flat = [i \in 1..n |-> IF i = 1 THEN F[i] ELSE flat[i - 1] \o F[i]]  BY <2>4 DEF Solves
  <2>6. FlattenSeq(F) = flat[n]
    BY <1>1, <1>3 DEF FlattenSeq, flat, Solves
  <2> HIDE DEF flat
  <2> DEFINE k == [i \in 0..n |-> IF i = 0 THEN <<>> ELSE flat[i]]
  <2>7. k[0] = <<>> /\ k[n] = flat[n]  BY <1>3
  <2>8. ASSUME NEW i \in 1..n PROVE k[i] = k[i - 1] \o F[i]
    <3>1. CASE i = 1
      <4>1. F[1] \in Seq(S) /\ k[1] = flat[1] /\ flat[1] = F[1] /\ k[0] = <<>>  BY <2>5, <3>1
      <4>2. QED  BY <3>1, <4>1, ConcatEmptySeq
    <3>2. CASE i # 1
      <4>1. i - 1 \in 1..n /\ k[i] = flat[i] /\ k[i - 1] = flat[i - 1]  BY <3>2
      <4>2. flat[i] = flat[i - 1] \o F[i]  BY <2>5, <3>2
      <4>3. QED  BY <4>1, <4>2
    <3>3. QED  BY <3>1, <3>2
  <2> HIDE DEF k
  <2>9. Flattens(k, F, n)  BY <2>7, <2>8 DEF Flattens
  <2>10. QED  BY <2>6, <2>7, <2>9
<1>4. QED  BY <1>2, <1>3

-------------------------------------------------------------------------------
(* Reading one harness, with nothing in between *)

Workers == Threads \cup {Main}

HarnessLines == [kind : {"harness"}, worker : Workers, name : Harnesses]

ThreadLines == [kind : {"thread"}, worker : Threads]

BodyLines ==
  [kind : {"section", "file", "blank"}]
  \cup [kind : {"check"}, id : Ids]
  \cup [kind : {"status"}, status : Answers]
  \cup [kind : {"description"}, text : Texts, open : BOOLEAN]
  \cup [kind : {"end of description", "failed check"}, text : Texts]
  \cup [kind : {"summary"}, failed : Nat]
  \cup [kind : {"covers"}, satisfied : Nat, total : Nat]

VerdictLines == [kind : {"verdict"}, result : {"SUCCESSFUL", "FAILED"}, panics : BOOLEAN]

ClosingLines ==
  [kind : {"failed for"}, name : Harnesses]
  \cup [kind : {"trailer"}, successful : Nat, failures : Nat, total : Nat]

Lines == HarnessLines \cup ThreadLines \cup BodyLines \cup VerdictLines \cup ClosingLines

(* A block as far as it was read, the check it waits for, and what is open. *)
Start == [block |-> BlankBlock, number |-> 0, buffer |-> NoBuffer]

Reads(p, line, q) ==
  \/ /\ p.buffer = NoBuffer /\ line.kind \in {"section", "blank"}
     /\ q = p
  \/ /\ p.buffer = NoBuffer /\ line.kind = "check"
     /\ q = [block |-> [p.block EXCEPT !.checks =
                          Append(@, [id |-> line.id, status |-> None, text |-> "plain"])],
             number |-> Len(p.block.checks) + 1, buffer |-> NoBuffer]
  \/ /\ p.buffer = NoBuffer /\ line.kind = "status" /\ p.number \in DOMAIN p.block.checks
     /\ q = [block |-> [p.block EXCEPT !.checks[p.number].status = line.status],
             number |-> p.number, buffer |-> NoBuffer]
  \/ /\ p.buffer = NoBuffer /\ line.kind = "description" /\ ~line.open
     /\ p.number \in DOMAIN p.block.checks
     /\ q = [block |-> [p.block EXCEPT !.checks[p.number].text = line.text],
             number |-> p.number, buffer |-> NoBuffer]
  \/ /\ p.buffer = NoBuffer /\ line.kind = "description" /\ line.open
     /\ q = [block |-> p.block, number |-> p.number,
             buffer |-> [of |-> "description", text |-> line.text]]
  \/ /\ p.buffer.of = "description" /\ line.kind = "end of description"
     /\ p.number \in DOMAIN p.block.checks
     /\ q = [block |-> [p.block EXCEPT !.checks[p.number].text = Text(p.buffer.text, line)],
             number |-> p.number, buffer |-> NoBuffer]
  \/ /\ p.buffer = NoBuffer /\ line.kind = "summary"
     /\ q = [block |-> [p.block EXCEPT !.failed = line.failed],
             number |-> p.number, buffer |-> NoBuffer]
  \/ /\ p.buffer = NoBuffer /\ line.kind = "failed check"
     /\ q = [block |-> p.block, number |-> p.number,
             buffer |-> [of |-> "message", text |-> line.text]]
  \/ /\ p.buffer.of = "message" /\ line.kind = "file"
     /\ q = [block |-> [p.block EXCEPT !.messages = Append(@, p.buffer.text)],
             number |-> p.number, buffer |-> NoBuffer]
  \/ /\ p.buffer = NoBuffer /\ line.kind = "covers"
     /\ q = [block |-> [p.block EXCEPT !.covers =
                          [satisfied |-> line.satisfied, total |-> line.total]],
             number |-> p.number, buffer |-> NoBuffer]
  \/ /\ p.buffer = NoBuffer /\ line.kind = "verdict" /\ p.block.result = None
     /\ q = [block |-> [p.block EXCEPT !.result = line.result, !.panics = line.panics],
             number |-> p.number, buffer |-> NoBuffer]

(* A check as it is in a block once all its lines were read. *)
ReadOf(c) == [id |-> c.id, status |-> c.status, text |-> c.text]

(* The messages are the texts of the failing checks among the first n. *)
Names(messages, checks, n) ==
  /\ Len(messages) = Cardinality({i \in Failing(checks) : i <= n})
  /\ \A text \in Texts :
       (\E i \in DOMAIN messages : messages[i] = text)
         <=> \E i \in Failing(checks) : i <= n /\ checks[i].text = text

(* Whoever tells r in full leaves this block. *)
Faithful(b, r) ==
  /\ b.checks = IF terse THEN <<>>
                ELSE [i \in 1..Len(r.checks) |-> ReadOf(r.checks[i])]
  /\ Names(b.messages, r.checks, Len(r.checks))
  /\ b.failed = Cardinality(Failing(r.checks))
  /\ b.covers = IF Covers(r.checks) = {} THEN None
                ELSE [satisfied |-> Cardinality(Satisfied(r.checks)),
                      total |-> Cardinality(Covers(r.checks))]
  /\ b.result = Result(r) /\ b.panics = r.panics

(* Line after line, this is read from p to q. *)
Parses(p, s, q) ==
  \E t : /\ t[0] = p /\ t[Len(s)] = q
         /\ \A i \in 1..Len(s) : Reads(t[i - 1], s[i], t[i])

(* Without a line nothing changes. *)
LEMMA ParsesNothing ==
  ASSUME NEW p
  PROVE  Parses(p, <<>>, p)
<1>1. Len(<<>>) = 0  BY EmptySeq
<1> DEFINE t == [i \in {0} |-> p]
<1>2. t[0] = p  OBVIOUS
<1> HIDE DEF t
<1>3. \A i \in 1..0 : Reads(t[i - 1], <<>>[i], t[i])  OBVIOUS
<1>4. QED  BY <1>1, <1>2, <1>3 DEF Parses

(* One line. *)
LEMMA ParsesLine ==
  ASSUME NEW p, NEW line, NEW q, Reads(p, line, q)
  PROVE  Parses(p, <<line>>, q)
<1> DEFINE t == [i \in {0, 1} |-> IF i = 0 THEN p ELSE q]
<1>1. Len(<<line>>) = 1 /\ <<line>>[1] = line  OBVIOUS
<1>2. t[0] = p /\ t[1] = q  OBVIOUS
<1> HIDE DEF t
<1>3. ASSUME NEW i \in 1..1 PROVE Reads(t[i - 1], <<line>>[i], t[i])
  <2>1. i = 1 /\ i - 1 = 0  OBVIOUS
  <2>2. QED  BY <1>1, <1>2, <2>1
<1>4. QED  BY <1>1, <1>2, <1>3 DEF Parses

(* Some lines, then others. *)
LEMMA ParsesThen ==
  ASSUME NEW S, NEW s \in Seq(S), NEW u \in Seq(S), NEW p, NEW q, NEW r,
         Parses(p, s, q), Parses(q, u, r)
  PROVE  Parses(p, s \o u, r)
<1> DEFINE n == Len(s)
           m == Len(u)
<1>1. n \in Nat /\ m \in Nat  BY LenProperties
<1>2. /\ Len(s \o u) = n + m
      /\ \A i \in 1..(n + m) : (s \o u)[i] = IF i <= n THEN s[i] ELSE u[i - n]
  BY ConcatProperties
<1>3. PICK t : t[0] = p /\ t[n] = q /\ \A i \in 1..n : Reads(t[i - 1], s[i], t[i])
  BY DEF Parses
<1>4. PICK v : v[0] = q /\ v[m] = r /\ \A i \in 1..m : Reads(v[i - 1], u[i], v[i])
  BY DEF Parses
<1> HIDE DEF n, m
<1> DEFINE k == [i \in 0..(n + m) |-> IF i <= n THEN t[i] ELSE v[i - n]]
<1>5. k[0] = p  BY <1>1, <1>3
<1>6. k[n + m] = r
  <2>1. CASE m = 0
    <3>1. n + m = n /\ n + m \in 0..(n + m) /\ n <= n  BY <1>1, <2>1
    <3>2. k[n + m] = t[n]  BY <3>1
    <3>3. QED  BY <1>3, <1>4, <2>1, <3>2
  <2>2. CASE m # 0
    <3>1. ~(n + m <= n) /\ (n + m) - n = m /\ n + m \in 0..(n + m)  BY <1>1, <2>2
    <3>2. QED  BY <1>4, <3>1
  <2>3. QED  BY <2>1, <2>2
<1>7. ASSUME NEW i \in 1..(n + m) PROVE Reads(k[i - 1], (s \o u)[i], k[i])
  <2>1. i \in 0..(n + m) /\ i - 1 \in 0..(n + m)  BY <1>1
  <2>2. CASE i <= n
    <3>1. i \in 1..n /\ i - 1 <= n  BY <1>1, <2>2
    <3>2. k[i] = t[i] /\ k[i - 1] = t[i - 1] /\ (s \o u)[i] = s[i]  BY <1>2, <2>1, <2>2, <3>1
    <3>3. QED  BY <1>3, <3>1, <3>2
  <2>3. CASE ~(i <= n)
    <3>1. i - n \in 1..m /\ (i - 1) - n = (i - n) - 1  BY <1>1, <2>3
    <3>2. k[i] = v[i - n] /\ (s \o u)[i] = u[i - n]  BY <1>2, <2>1, <2>3
    <3>3. k[i - 1] = v[(i - n) - 1]
      <4>1. CASE i - 1 <= n
        <5>1. i - 1 = n /\ (i - n) - 1 = 0  BY <1>1, <2>3, <4>1
        <5>2. k[i - 1] = t[n]  BY <2>1, <4>1, <5>1
        <5>3. QED  BY <1>3, <1>4, <5>1, <5>2
      <4>2. CASE ~(i - 1 <= n)  BY <2>1, <3>1, <4>2
      <4>3. QED  BY <4>1, <4>2
    <3>4. QED  BY <1>4, <3>1, <3>2, <3>3
  <2>4. QED  BY <2>2, <2>3
<1> HIDE DEF k
<1>8. QED  BY <1>2, <1>5, <1>6, <1>7 DEF Parses

(* The first line, then the others. *)
LEMMA ParsesHead ==
  ASSUME NEW S, NEW s \in Seq(S), s # <<>>, NEW p, NEW q, Parses(p, s, q)
  PROVE  \E m : Reads(p, Head(s), m) /\ Parses(m, Tail(s), q)
<1> DEFINE n == Len(s)
           u == Tail(s)
<1>1. /\ n \in Nat /\ n >= 1 /\ Head(s) = s[1] /\ Len(u) = n - 1
      /\ \A i \in 1..(n - 1) : u[i] = s[i + 1]
  BY HeadFirst
<1>2. PICK t : t[0] = p /\ t[n] = q /\ \A i \in 1..n : Reads(t[i - 1], s[i], t[i])
  BY DEF Parses
<1> HIDE DEF n, u
<1> DEFINE k == [i \in 0..(n - 1) |-> t[i + 1]]
<1>3. Reads(p, Head(s), t[1])
  <2>1. 1 \in 1..n /\ 1 - 1 = 0  BY <1>1
  <2>2. Reads(t[1 - 1], s[1], t[1])  BY <1>2, <2>1
  <2>3. QED  BY <1>1, <1>2, <2>1, <2>2
<1>4. k[0] = t[1] /\ k[n - 1] = q
  <2>1. 0 \in 0..(n - 1) /\ n - 1 \in 0..(n - 1) /\ (n - 1) + 1 = n /\ 0 + 1 = 1  BY <1>1
  <2>2. k[0] = t[0 + 1] /\ k[n - 1] = t[(n - 1) + 1]  BY <2>1
  <2>3. QED  BY <1>2, <2>1, <2>2
<1>5. ASSUME NEW i \in 1..(n - 1) PROVE Reads(k[i - 1], u[i], k[i])
  <2>1. /\ i \in 0..(n - 1) /\ i - 1 \in 0..(n - 1) /\ i + 1 \in 1..n
        /\ (i + 1) - 1 = i /\ (i - 1) + 1 = i
    BY <1>1
  <2>2. Reads(t[(i + 1) - 1], s[i + 1], t[i + 1])  BY <1>2, <2>1
  <2>3. k[i - 1] = t[i] /\ k[i] = t[i + 1] /\ u[i] = s[i + 1]  BY <1>1, <2>1
  <2>4. QED  BY <2>1, <2>2, <2>3
<1> HIDE DEF k
<1>6. Parses(t[1], u, q)  BY <1>1, <1>4, <1>5 DEF Parses
<1>7. QED  BY <1>3, <1>6 DEF u

(* A block before its verdict. *)
Page(checks, messages, failed, covers) ==
  [checks |-> checks, messages |-> messages, failed |-> failed, covers |-> covers,
   result |-> None, panics |-> FALSE]

At(block, number) == [block |-> block, number |-> number, buffer |-> NoBuffer]

(* What is on a page. *)
LEMMA PageFields ==
  ASSUME NEW cs, NEW ms, NEW f, NEW cv
  PROVE  /\ Page(cs, ms, f, cv).checks = cs /\ Page(cs, ms, f, cv).messages = ms
         /\ Page(cs, ms, f, cv).failed = f /\ Page(cs, ms, f, cv).covers = cv
BY DEF Page

(* There is no verdict on a page. *)
LEMMA PageResult ==
  ASSUME NEW cs, NEW ms, NEW f, NEW cv
  PROVE  Page(cs, ms, f, cv).result = None
BY DEF Page

PageOf(cs, ms, f, cv) ==
  [checks : {cs}, messages : {ms}, failed : {f}, covers : {cv}, result : {None}, panics : {FALSE}]

(* A page is told by its fields. *)
LEMMA PageIs ==
  ASSUME NEW cs, NEW ms, NEW f, NEW cv
  PROVE  /\ Page(cs, ms, f, cv) \in PageOf(cs, ms, f, cv)
         /\ \A p \in PageOf(cs, ms, f, cv) : p = Page(cs, ms, f, cv)
<1>1. Page(cs, ms, f, cv) \in PageOf(cs, ms, f, cv)  BY DEF Page, PageOf
<1>2. ASSUME NEW p \in PageOf(cs, ms, f, cv) PROVE p = Page(cs, ms, f, cv)
  BY <1>2 DEF Page, PageOf
<1>3. QED  BY <1>1, <1>2

(* A page with other checks. *)
LEMMA PageExcept ==
  ASSUME NEW cs, NEW ms, NEW f, NEW cv, NEW x
  PROVE  [Page(cs, ms, f, cv) EXCEPT !.checks = x] = Page(x, ms, f, cv)
<1> DEFINE b == Page(cs, ms, f, cv)
<1>1. b \in PageOf(cs, ms, f, cv)  BY PageIs
<1> HIDE DEF b
<1>2. [b EXCEPT !.checks = x] \in PageOf(x, ms, f, cv)  BY <1>1 DEF PageOf
<1>3. QED  BY <1>2, PageIs DEF b

(* A page with other messages. *)
LEMMA PageMessages ==
  ASSUME NEW cs, NEW ms, NEW f, NEW cv, NEW x
  PROVE  [Page(cs, ms, f, cv) EXCEPT !.messages = x] = Page(cs, x, f, cv)
<1> DEFINE b == Page(cs, ms, f, cv)
<1>1. b \in PageOf(cs, ms, f, cv)  BY PageIs
<1> HIDE DEF b
<1>2. [b EXCEPT !.messages = x] \in PageOf(cs, x, f, cv)  BY <1>1 DEF PageOf
<1>3. QED  BY <1>2, PageIs DEF b

(* A page with other summary. *)
LEMMA PageFailed ==
  ASSUME NEW cs, NEW ms, NEW f, NEW cv, NEW x
  PROVE  [Page(cs, ms, f, cv) EXCEPT !.failed = x] = Page(cs, ms, x, cv)
<1> DEFINE b == Page(cs, ms, f, cv)
<1>1. b \in PageOf(cs, ms, f, cv)  BY PageIs
<1> HIDE DEF b
<1>2. [b EXCEPT !.failed = x] \in PageOf(cs, ms, x, cv)  BY <1>1 DEF PageOf
<1>3. QED  BY <1>2, PageIs DEF b

(* A page with other covers. *)
LEMMA PageCovers ==
  ASSUME NEW cs, NEW ms, NEW f, NEW cv, NEW x
  PROVE  [Page(cs, ms, f, cv) EXCEPT !.covers = x] = Page(cs, ms, f, x)
<1> DEFINE b == Page(cs, ms, f, cv)
<1>1. b \in PageOf(cs, ms, f, cv)  BY PageIs
<1> HIDE DEF b
<1>2. [b EXCEPT !.covers = x] \in PageOf(cs, ms, f, x)  BY <1>1 DEF PageOf
<1>3. QED  BY <1>2, PageIs DEF b

WithStatus(cs, n, x) == [cs EXCEPT ![n].status = x]

WithText(cs, n, x) == [cs EXCEPT ![n].text = x]

(* A page with one check replaced. *)
LEMMA PageExceptCheck ==
  ASSUME NEW cs, NEW ms, NEW f, NEW cv, NEW n, NEW x
  PROVE  /\ [Page(cs, ms, f, cv) EXCEPT !.checks[n].status = x]
              = Page(WithStatus(cs, n, x), ms, f, cv)
         /\ [Page(cs, ms, f, cv) EXCEPT !.checks[n].text = x]
              = Page(WithText(cs, n, x), ms, f, cv)
<1> DEFINE b == Page(cs, ms, f, cv)
           OneOf(y) == [checks : {y}, messages : {ms}, failed : {f}, covers : {cv},
                        result : {None}, panics : {FALSE}]
<1>1. b \in OneOf(cs)  BY DEF Page
<1>2. ASSUME NEW y, NEW p \in OneOf(y) PROVE p = Page(y, ms, f, cv)
  BY <1>2 DEF Page
<1> HIDE DEF b
<1>3. /\ [b EXCEPT !.checks[n].status = x] \in OneOf([cs EXCEPT ![n].status = x])
      /\ [b EXCEPT !.checks[n].text = x] \in OneOf([cs EXCEPT ![n].text = x])
  BY <1>1
<1> HIDE DEF OneOf
<1>4. /\ [b EXCEPT !.checks[n].status = x] = Page([cs EXCEPT ![n].status = x], ms, f, cv)
      /\ [b EXCEPT !.checks[n].text = x] = Page([cs EXCEPT ![n].text = x], ms, f, cv)
  BY <1>2, <1>3
<1>5. QED  BY <1>4 DEF b, WithStatus, WithText

(* Where a reader is: block, number and buffer. *)
LEMMA AtFields ==
  ASSUME NEW b, NEW n
  PROVE  At(b, n).block = b /\ At(b, n).number = n /\ At(b, n).buffer = NoBuffer
BY DEF At

(* The last element of a list is changed by changing what was appended. *)
LEMMA AppendThenExcept ==
  ASSUME NEW S, NEW s \in Seq(S), NEW e \in S, NEW d \in S
  PROVE  /\ Len(s) + 1 \in DOMAIN Append(s, e)
         /\ Append(s, e)[Len(s) + 1] = e
         /\ [Append(s, e) EXCEPT ![Len(s) + 1] = d] = Append(s, d)
<1> DEFINE n == Len(s)
           a == Append(s, e)
<1>1. n \in Nat  BY LenProperties
<1>2. /\ Append(s, e) \in Seq(S) /\ Len(Append(s, e)) = n + 1
      /\ \A i \in 1..n : Append(s, e)[i] = s[i]
      /\ Append(s, e)[n + 1] = e
  BY AppendProperties
<1>3. /\ Append(s, d) \in Seq(S) /\ Len(Append(s, d)) = n + 1
      /\ \A i \in 1..n : Append(s, d)[i] = s[i]
      /\ Append(s, d)[n + 1] = d
  BY AppendProperties
<1>4. n + 1 \in 1..Len(Append(s, e)) /\ DOMAIN Append(s, e) = 1..Len(Append(s, e))
  BY <1>1, <1>2, LenProperties
<1> DEFINE t == [a EXCEPT ![n + 1] = d]
<1>5. /\ t \in Seq(S) /\ Len(t) = n + 1
      /\ \A j \in 1..(n + 1) : t[j] = IF j = n + 1 THEN d ELSE a[j]
  <2>1. a \in Seq(S) /\ Len(a) = n + 1 /\ n + 1 \in 1..Len(a)  BY <1>2, <1>4
  <2> HIDE DEF a, n
  <2>2. /\ t \in Seq(S) /\ Len(t) = Len(a)
        /\ \A j \in 1..Len(a) : t[j] = IF j = n + 1 THEN d ELSE a[j]
    BY <2>1, ExceptSeq
  <2>3. QED  BY <2>1, <2>2
<1> HIDE DEF t
<1>6. \A j \in 1..(n + 1) : t[j] = Append(s, d)[j]
  <2>1. \A j \in 1..(n + 1) : j # n + 1 => j \in 1..n  BY <1>1
  <2>2. QED  BY <1>2, <1>3, <1>5, <2>1
<1>7. t = Append(s, d)  BY <1>3, <1>5, <1>6, SeqEqual
<1>8. QED  BY <1>2, <1>4, <1>7 DEF t

(* Two lines and one or two more. *)
LEMMA FewLines ==
  ASSUME NEW a, NEW b, NEW c, NEW d
  PROVE  <<a, b>> \o <<c>> = <<a, b, c>> /\ <<a, b>> \o <<c, d>> = <<a, b, c, d>>
<1> DEFINE S == {a, b, c, d}
<1>1. /\ <<a, b>> \in Seq(S) /\ Len(<<a, b>>) = 2 /\ <<a, b>>[1] = a /\ <<a, b>>[2] = b
      /\ <<c>> \in Seq(S) /\ Len(<<c>>) = 1 /\ <<c>>[1] = c
      /\ <<c, d>> \in Seq(S) /\ Len(<<c, d>>) = 2 /\ <<c, d>>[1] = c /\ <<c, d>>[2] = d
  OBVIOUS
<1>2. /\ <<a, b, c>> \in Seq(S) /\ Len(<<a, b, c>>) = 3
      /\ <<a, b, c>>[1] = a /\ <<a, b, c>>[2] = b /\ <<a, b, c>>[3] = c
  OBVIOUS
<1>3. /\ <<a, b, c, d>> \in Seq(S) /\ Len(<<a, b, c, d>>) = 4
      /\ <<a, b, c, d>>[1] = a /\ <<a, b, c, d>>[2] = b
      /\ <<a, b, c, d>>[3] = c /\ <<a, b, c, d>>[4] = d
  OBVIOUS
<1> DEFINE s == <<a, b>> \o <<c>>
           t == <<a, b>> \o <<c, d>>
<1>4. /\ s \in Seq(S) /\ Len(s) = 3
      /\ \A i \in 1..3 : s[i] = IF i <= 2 THEN <<a, b>>[i] ELSE <<c>>[i - 2]
  BY <1>1, ConcatProperties
<1>5. /\ t \in Seq(S) /\ Len(t) = 4
      /\ \A i \in 1..4 : t[i] = IF i <= 2 THEN <<a, b>>[i] ELSE <<c, d>>[i - 2]
  BY <1>1, ConcatProperties
<1> HIDE DEF s, t
<1>6. \A i \in 1..3 : s[i] = <<a, b, c>>[i]  BY <1>1, <1>2, <1>4
<1>7. \A i \in 1..4 : t[i] = <<a, b, c, d>>[i]  BY <1>1, <1>3, <1>5
<1>8. s = <<a, b, c>>  BY <1>2, <1>4, <1>6, SeqEqual
<1>9. t = <<a, b, c, d>>  BY <1>3, <1>5, <1>7, SeqEqual
<1>10. QED  BY <1>2, <1>3, <1>8, <1>9 DEF s, t

(* The lines of a check, which are lines of a body. *)
LEMMA CheckLinesShape ==
  ASSUME NEW c \in Checks
  PROVE  /\ CheckLines(c) \in Seq(BodyLines)
         /\ c.lines = 1 =>
              CheckLines(c) = <<[kind |-> "check", id |-> c.id],
                                [kind |-> "status", status |-> c.status],
                                [kind |-> "description", text |-> c.text, open |-> FALSE]>>
         /\ c.lines # 1 =>
              CheckLines(c) = <<[kind |-> "check", id |-> c.id],
                                [kind |-> "status", status |-> c.status],
                                [kind |-> "description", text |-> "plain", open |-> TRUE],
                                [kind |-> "end of description", text |-> c.text]>>
<1> DEFINE l1 == [kind |-> "check", id |-> c.id]
           l2 == [kind |-> "status", status |-> c.status]
           l3 == [kind |-> "description", text |-> c.text, open |-> FALSE]
           l4 == [kind |-> "description", text |-> "plain", open |-> TRUE]
           l5 == [kind |-> "end of description", text |-> c.text]
<1>1. /\ l1 \in BodyLines /\ l2 \in BodyLines /\ l3 \in BodyLines
      /\ l4 \in BodyLines /\ l5 \in BodyLines
  <2>1. c.id \in Ids /\ c.status \in Answers /\ c.text \in Texts /\ "plain" \in Texts
    BY DEF Checks, Texts
  <2>2. QED  BY <2>1 DEF BodyLines
<1>2. CheckLines(c) = <<l1, l2>> \o IF c.lines = 1 THEN <<l3>> ELSE <<l4, l5>>
  BY DEF CheckLines
<1> HIDE DEF l1, l2, l3, l4, l5
<1>3. <<l1, l2>> \o <<l3>> = <<l1, l2, l3>> /\ <<l1, l2, l3>> \in Seq(BodyLines)
  <2>1. <<l1, l2>> \o <<l3>> = <<l1, l2, l3>>  BY FewLines
  <2>2. <<l1, l2, l3>> \in Seq(BodyLines)  BY <1>1
  <2>3. QED  BY <2>1, <2>2
<1>4. <<l1, l2>> \o <<l4, l5>> = <<l1, l2, l4, l5>> /\ <<l1, l2, l4, l5>> \in Seq(BodyLines)
  <2>1. <<l1, l2>> \o <<l4, l5>> = <<l1, l2, l4, l5>>  BY FewLines
  <2>2. <<l1, l2, l4, l5>> \in Seq(BodyLines)  BY <1>1
  <2>3. QED  BY <2>1, <2>2
<1>5. CASE c.lines = 1  BY <1>2, <1>3, <1>5 DEF l1, l2, l3
<1>6. CASE c.lines # 1  BY <1>2, <1>4, <1>6 DEF l1, l2, l4, l5
<1>7. QED  BY <1>5, <1>6

(* Two, three and four lines. *)
LEMMA ParsesFew ==
  ASSUME NEW p, NEW q, NEW r, NEW v, NEW u, NEW a, NEW b, NEW c, NEW d,
         Reads(p, a, q), Reads(q, b, r)
  PROVE  /\ Parses(p, <<a, b>>, r)
         /\ Reads(r, c, v) => Parses(p, <<a, b, c>>, v)
         /\ Reads(r, c, v) /\ Reads(v, d, u) => Parses(p, <<a, b, c, d>>, u)
<1> DEFINE t == [i \in 0..4 |-> IF i = 0 THEN p ELSE IF i = 1 THEN q ELSE IF i = 2 THEN r
                                ELSE IF i = 3 THEN v ELSE u]
<1>1. t[0] = p /\ t[1] = q /\ t[2] = r /\ t[3] = v /\ t[4] = u  OBVIOUS
<1> HIDE DEF t
<1>2. /\ Len(<<a, b>>) = 2 /\ <<a, b>>[1] = a /\ <<a, b>>[2] = b
      /\ Len(<<a, b, c>>) = 3
      /\ <<a, b, c>>[1] = a /\ <<a, b, c>>[2] = b /\ <<a, b, c>>[3] = c
      /\ Len(<<a, b, c, d>>) = 4 /\ <<a, b, c, d>>[1] = a /\ <<a, b, c, d>>[2] = b
      /\ <<a, b, c, d>>[3] = c /\ <<a, b, c, d>>[4] = d
  OBVIOUS
<1>3. \A i \in 1..4 : <<i, i - 1>> \in {<<1, 0>>, <<2, 1>>, <<3, 2>>, <<4, 3>>}
  OBVIOUS
<1>4. \A i \in 1..2 : i \in 1..4 /\ i # 3 /\ i # 4  OBVIOUS
<1>5. \A i \in 1..3 : i \in 1..4 /\ i # 4  OBVIOUS
<1>6. \A i \in 1..2 : Reads(t[i - 1], <<a, b>>[i], t[i])  BY <1>1, <1>2, <1>3, <1>4
<1>7. Parses(p, <<a, b>>, r)  BY <1>1, <1>2, <1>6 DEF Parses
<1>8. ASSUME Reads(r, c, v) PROVE Parses(p, <<a, b, c>>, v)
  <2>1. \A i \in 1..3 : Reads(t[i - 1], <<a, b, c>>[i], t[i])  BY <1>1, <1>2, <1>3, <1>5, <1>8
  <2>2. QED  BY <1>1, <1>2, <2>1 DEF Parses
<1>9. ASSUME Reads(r, c, v), Reads(v, d, u) PROVE Parses(p, <<a, b, c, d>>, u)
  <2>1. \A i \in 1..4 : Reads(t[i - 1], <<a, b, c, d>>[i], t[i])  BY <1>1, <1>2, <1>3, <1>9
  <2>2. QED  BY <1>1, <1>2, <2>1 DEF Parses
<1>10. QED  BY <1>7, <1>8, <1>9

(* The lines of a check add it to the page. *)
LEMMA CheckIsRead ==
  ASSUME NEW cs \in Seq(ReadChecks), NEW c \in Checks, NEW ms, NEW f, NEW cv, NEW m
  PROVE  Parses(At(Page(cs, ms, f, cv), m), CheckLines(c),
                At(Page(Append(cs, ReadOf(c)), ms, f, cv), Len(cs) + 1))
<1> DEFINE n == Len(cs) + 1
           e1 == [id |-> c.id, status |-> None, text |-> "plain"]
           e2 == [id |-> c.id, status |-> c.status, text |-> "plain"]
           e3 == ReadOf(c)
           P(e) == At(Page(Append(cs, e), ms, f, cv), n)
           l1 == [kind |-> "check", id |-> c.id]
           l2 == [kind |-> "status", status |-> c.status]
           l3 == [kind |-> "description", text |-> c.text, open |-> FALSE]
           l4 == [kind |-> "description", text |-> "plain", open |-> TRUE]
           l5 == [kind |-> "end of description", text |-> c.text]
<1>1. c.id \in Ids /\ c.status \in Answers /\ c.text \in Texts /\ c.lines \in {1, 2}
  BY DEF Checks
<1>2. e1 \in ReadChecks /\ e2 \in ReadChecks /\ e3 \in ReadChecks
  BY <1>1 DEF ReadChecks, ReadOf, Texts
<1>3. [e1 EXCEPT !.status = c.status] = e2
  <2>1. e1 \in [id : {c.id}, status : {None}, text : {"plain"}]  OBVIOUS
  <2> HIDE DEF e1
  <2>2. [e1 EXCEPT !.status = c.status] \in [id : {c.id}, status : {c.status}, text : {"plain"}]
    BY <2>1
  <2>3. QED  BY <2>2
<1>4. [e2 EXCEPT !.text = c.text] = e3
  <2>1. e2 \in [id : {c.id}, status : {c.status}, text : {"plain"}]  OBVIOUS
  <2> HIDE DEF e2
  <2>2. [e2 EXCEPT !.text = c.text] \in [id : {c.id}, status : {c.status}, text : {c.text}]
    BY <2>1
  <2>3. QED  BY <2>2 DEF ReadOf
<1> HIDE DEF e1, e2, e3
<1>5. /\ n \in DOMAIN Append(cs, e1) /\ n \in DOMAIN Append(cs, e2)
      /\ [Append(cs, e1) EXCEPT ![n].status = c.status] = Append(cs, e2)
      /\ [Append(cs, e2) EXCEPT ![n].text = c.text] = Append(cs, e3)
  <2>1. /\ n \in DOMAIN Append(cs, e1) /\ Append(cs, e1)[n] = e1
        /\ [Append(cs, e1) EXCEPT ![n] = e2] = Append(cs, e2)
    BY <1>2, AppendThenExcept
  <2>2. /\ n \in DOMAIN Append(cs, e2) /\ Append(cs, e2)[n] = e2
        /\ [Append(cs, e2) EXCEPT ![n] = e3] = Append(cs, e3)
    BY <1>2, AppendThenExcept
  <2> HIDE DEF n
  <2>3. [Append(cs, e1) EXCEPT ![n].status = c.status] = [Append(cs, e1) EXCEPT ![n] = e2]
    BY <1>3, <2>1
  <2>4. [Append(cs, e2) EXCEPT ![n].text = c.text] = [Append(cs, e2) EXCEPT ![n] = e3]
    BY <1>4, <2>2
  <2>5. QED  BY <2>1, <2>2, <2>3, <2>4
<1>6. Reads(At(Page(cs, ms, f, cv), m), l1, P(e1))
  <2> DEFINE b == Page(cs, ms, f, cv)
             s == Append(cs, e1)
  <2>1. b.checks = cs /\ [b EXCEPT !.checks = s] = Page(s, ms, f, cv)
    <3> HIDE DEF s
    <3>1. b.checks = cs  BY PageFields
    <3>2. [b EXCEPT !.checks = s] = Page(s, ms, f, cv)  BY PageExcept
    <3>3. QED  BY <3>1, <3>2
  <2>2. l1.kind = "check" /\ [id |-> l1.id, status |-> None, text |-> "plain"] = e1
    BY DEF e1
  <2>3. At(b, m).block = b /\ At(b, m).buffer = NoBuffer  BY AtFields
  <2> DEFINE p == At(b, m)
  <2> HIDE DEF b, s, l1, p, n
  <2>4. p.buffer = NoBuffer /\ p.block = b /\ n = Len(p.block.checks) + 1
    BY <2>1, <2>3 DEF p, n
  <2>5. [p.block EXCEPT !.checks =
           Append(@, [id |-> l1.id, status |-> None, text |-> "plain"])] = Page(s, ms, f, cv)
    BY <2>1, <2>2, <2>4 DEF s
  <2>6. Reads(p, l1, [block |-> Page(s, ms, f, cv), number |-> n, buffer |-> NoBuffer])
    BY <2>2, <2>4, <2>5 DEF Reads
  <2>7. QED  BY <2>6 DEF p, b, s, At, n
<1>7. Reads(P(e1), l2, P(e2))
  <2> DEFINE s == Append(cs, e1)
             b == Page(s, ms, f, cv)
  <2>1. /\ b.checks = s
        /\ [b EXCEPT !.checks[n].status = c.status] = Page(WithStatus(s, n, c.status), ms, f, cv)
    <3> DEFINE a == s
               x == c.status
    <3> HIDE DEF a, n, x
    <3>1. Page(a, ms, f, cv).checks = a  BY PageFields
    <3>2. [Page(a, ms, f, cv) EXCEPT !.checks[n].status = x] = Page(WithStatus(a, n, x), ms, f, cv)
      BY PageExceptCheck
    <3>3. QED  BY <3>1, <3>2 DEF a, x
  <2>2. [b EXCEPT !.checks[n].status = c.status] = Page(Append(cs, e2), ms, f, cv)
    BY <1>5, <2>1 DEF WithStatus, WithText
  <2>3. At(b, n).block = b /\ At(b, n).buffer = NoBuffer /\ At(b, n).number = n  BY AtFields
  <2>4. n \in DOMAIN b.checks  BY <1>5, <2>1
  <2> HIDE DEF b, s, n
  <2>5. QED  BY <2>2, <2>3, <2>4 DEF Reads, At, b, s
<1>8. CASE c.lines = 1
  <2>1. Reads(P(e2), l3, P(e3))
    <3> DEFINE s == Append(cs, e2)
               b == Page(s, ms, f, cv)
    <3>1. /\ b.checks = s
          /\ [b EXCEPT !.checks[n].text = c.text] = Page(WithText(s, n, c.text), ms, f, cv)
      <4> DEFINE a == s
                 x == c.text
      <4> HIDE DEF a, n, x
      <4>1. Page(a, ms, f, cv).checks = a  BY PageFields
      <4>2. [Page(a, ms, f, cv) EXCEPT !.checks[n].text = x] = Page(WithText(a, n, x), ms, f, cv)
        BY PageExceptCheck
      <4>3. QED  BY <4>1, <4>2 DEF a, x
    <3>2. [b EXCEPT !.checks[n].text = c.text] = Page(Append(cs, e3), ms, f, cv)
      BY <1>5, <3>1 DEF WithStatus, WithText
    <3>3. At(b, n).block = b /\ At(b, n).buffer = NoBuffer /\ At(b, n).number = n  BY AtFields
    <3>4. n \in DOMAIN b.checks  BY <1>5, <3>1
    <3> HIDE DEF b, s, n
    <3>5. QED  BY <3>2, <3>3, <3>4 DEF Reads, At, b, s
  <2>2. CheckLines(c) = <<l1, l2, l3>>  BY <1>8, CheckLinesShape
  <2> HIDE DEF P, l1, l2, l3, n
  <2>3. Parses(At(Page(cs, ms, f, cv), m), <<l1, l2, l3>>, P(e3))
    BY <1>6, <1>7, <2>1, ParsesFew
  <2>4. QED  BY <2>2, <2>3 DEF P, n, e3
<1>9. CASE c.lines # 1
  <2> DEFINE b == Page(Append(cs, e2), ms, f, cv)
             p == [block |-> b, number |-> n, buffer |-> [of |-> "description", text |-> "plain"]]
  <2>1. Reads(P(e2), l4, p)
    <3>1. At(b, n).block = b /\ At(b, n).buffer = NoBuffer /\ At(b, n).number = n  BY AtFields
    <3> HIDE DEF b, n
    <3>2. QED  BY <3>1 DEF Reads, b
  <2>2. Reads(p, l5, P(e3))
    <3>1. /\ b.checks = Append(cs, e2)
          /\ [b EXCEPT !.checks[n].text = c.text]
               = Page(WithText(Append(cs, e2), n, c.text), ms, f, cv)
      <4> DEFINE a == Append(cs, e2)
                 x == c.text
      <4> HIDE DEF a, n, x
      <4>1. Page(a, ms, f, cv).checks = a  BY PageFields
      <4>2. [Page(a, ms, f, cv) EXCEPT !.checks[n].text = x] = Page(WithText(a, n, x), ms, f, cv)
        BY PageExceptCheck
      <4>3. QED  BY <4>1, <4>2 DEF a, x
    <3>2. [b EXCEPT !.checks[n].text = c.text] = Page(Append(cs, e3), ms, f, cv)
      BY <1>5, <3>1 DEF WithStatus, WithText
    <3>3. n \in DOMAIN b.checks  BY <1>5, <3>1
    <3>4. Text("plain", l5) = c.text  BY <1>1 DEF Text, Mentions, Texts
    <3> HIDE DEF b, n
    <3>5. QED  BY <3>2, <3>3, <3>4 DEF Reads, At
  <2>3. CheckLines(c) = <<l1, l2, l4, l5>>  BY <1>9, CheckLinesShape
  <2> HIDE DEF P, l1, l2, l4, l5, n, p
  <2>4. Parses(At(Page(cs, ms, f, cv), m), <<l1, l2, l4, l5>>, P(e3))
    BY <1>6, <1>7, <2>1, <2>2, ParsesFew
  <2>5. QED  BY <2>3, <2>4 DEF P, n, e3
<1>10. QED  BY <1>8, <1>9

(* A failed check is named, and what its message says is kept. *)
LEMMA FailureIsRead ==
  ASSUME NEW c \in Checks, NEW cs, NEW ms, NEW f, NEW cv, NEW m
  PROVE  /\ FailureLines(c) \in Seq(BodyLines)
         /\ c.status = "FAILURE" =>
              Parses(At(Page(cs, ms, f, cv), m), FailureLines(c),
                     At(Page(cs, Append(ms, c.text), f, cv), m))
         /\ c.status # "FAILURE" =>
              Parses(At(Page(cs, ms, f, cv), m), FailureLines(c), At(Page(cs, ms, f, cv), m))
<1>1. CASE c.status = "FAILURE"
  <2> DEFINE l1 == [kind |-> "failed check", text |-> c.text]
             l2 == [kind |-> "file"]
             b == Page(cs, ms, f, cv)
             x == Append(ms, c.text)
             q == [block |-> b, number |-> m, buffer |-> [of |-> "message", text |-> c.text]]
  <2>1. FailureLines(c) = <<l1, l2>>  BY <1>1 DEF FailureLines
  <2>2. l1 \in BodyLines /\ l2 \in BodyLines
    <3>1. c.text \in Texts  BY DEF Checks
    <3>2. QED  BY <3>1 DEF BodyLines
  <2>3. At(b, m).block = b /\ At(b, m).number = m /\ At(b, m).buffer = NoBuffer  BY AtFields
  <2>4. Reads(At(b, m), l1, q)
    <3> HIDE DEF b
    <3>1. QED  BY <2>3 DEF Reads
  <2>5. [b EXCEPT !.messages = x] = Page(cs, x, f, cv)
    <3> HIDE DEF x
    <3>1. QED  BY PageMessages
  <2>6. b.messages = ms  BY PageFields
  <2>7. Reads(q, l2, At(Page(cs, x, f, cv), m))
    <3> HIDE DEF b
    <3>1. [b EXCEPT !.messages = Append(@, c.text)] = Page(cs, x, f, cv)  BY <2>5, <2>6
    <3> HIDE DEF x
    <3>2. QED  BY <3>1 DEF Reads, At
  <2>8. Parses(At(b, m), <<l1, l2>>, At(Page(cs, x, f, cv), m))
    <3> HIDE DEF b, x, l1, l2, q
    <3>1. QED  BY <2>4, <2>7, ParsesFew
  <2>9. <<l1, l2>> \in Seq(BodyLines)
    <3> HIDE DEF l1, l2
    <3>1. QED  BY <2>2
  <2>10. QED  BY <1>1, <2>1, <2>8, <2>9
<1>2. CASE c.status # "FAILURE"
  <2>1. FailureLines(c) = <<>>  BY <1>2 DEF FailureLines
  <2>2. QED  BY <1>2, <2>1, ParsesNothing, EmptySeq
<1>3. QED  BY <1>1, <1>2

(* The first k checks, as they are read. *)
FirstRead(checks, k) == [i \in 1..k |-> ReadOf(checks[i])]

(* They are checks of a block, and one more is appended to them. *)
LEMMA FirstReadGrows ==
  ASSUME NEW checks \in Seq(Checks), NEW k \in 0..Len(checks)
  PROVE  /\ FirstRead(checks, k) \in Seq(ReadChecks) /\ Len(FirstRead(checks, k)) = k
         /\ k + 1 <= Len(checks) =>
              Append(FirstRead(checks, k), ReadOf(checks[k + 1])) = FirstRead(checks, k + 1)
<1>1. Len(checks) \in Nat /\ k \in Nat  BY LenProperties
<1>2. \A i \in 1..Len(checks) : ReadOf(checks[i]) \in ReadChecks
  <2>1. \A i \in 1..Len(checks) : checks[i] \in Checks  BY ElementOfSeq
  <2>2. \A c \in Checks : ReadOf(c) \in ReadChecks  BY DEF Checks, ReadChecks, ReadOf
  <2>3. QED  BY <2>1, <2>2
<1>3. \A j \in 0..Len(checks) :
        FirstRead(checks, j) \in Seq(ReadChecks) /\ Len(FirstRead(checks, j)) = j
  <2>1. SUFFICES ASSUME NEW j \in 0..Len(checks)
                 PROVE  FirstRead(checks, j) \in Seq(ReadChecks) /\ Len(FirstRead(checks, j)) = j
    OBVIOUS
  <2>2. j \in Nat /\ \A i \in 1..j : i \in 1..Len(checks)  BY <1>1
  <2>3. FirstRead(checks, j) \in [1..j -> ReadChecks]  BY <1>2, <2>2 DEF FirstRead
  <2>4. QED  BY <2>2, <2>3, FunctionIsSeq
<1>4. ASSUME k + 1 <= Len(checks)
      PROVE  Append(FirstRead(checks, k), ReadOf(checks[k + 1])) = FirstRead(checks, k + 1)
  <2> DEFINE s == FirstRead(checks, k)
             e == ReadOf(checks[k + 1])
             t == FirstRead(checks, k + 1)
             a == Append(s, e)
  <2>1. k + 1 \in 0..Len(checks) /\ k + 1 \in 1..Len(checks)  BY <1>1, <1>4
  <2>2. s \in Seq(ReadChecks) /\ Len(s) = k /\ t \in Seq(ReadChecks) /\ Len(t) = k + 1
    BY <1>3, <2>1
  <2>3. e \in ReadChecks  BY <1>2, <2>1
  <2>4. /\ a \in Seq(ReadChecks) /\ Len(a) = k + 1
        /\ \A i \in 1..k : a[i] = s[i]
        /\ a[k + 1] = e
    <3> HIDE DEF s, e
    <3>1. /\ Append(s, e) \in Seq(ReadChecks) /\ Len(Append(s, e)) = Len(s) + 1
          /\ \A i \in 1..Len(s) : Append(s, e)[i] = s[i]
          /\ Append(s, e)[Len(s) + 1] = e
      BY <2>2, <2>3, AppendProperties
    <3>2. QED  BY <2>2, <3>1
  <2>5. \A i \in 1..k : s[i] = ReadOf(checks[i])  BY DEF FirstRead
  <2>6. \A i \in 1..(k + 1) : t[i] = ReadOf(checks[i])  BY DEF FirstRead
  <2> HIDE DEF s, t, a
  <2>7. \A i \in 1..(k + 1) : a[i] = t[i]
    <3>1. \A i \in 1..(k + 1) : i \in 1..k \/ i = k + 1  BY <1>1
    <3>2. QED  BY <2>4, <2>5, <2>6, <3>1
  <2>8. a = t  BY <2>2, <2>4, <2>7, SeqEqual
  <2>9. QED  BY <2>8 DEF a, s, t
<1>5. QED  BY <1>3, <1>4

(* The lines of all checks put all of them on the page. *)
LEMMA ChecksAreRead ==
  ASSUME NEW checks \in Seq(Checks), NEW ms, NEW f, NEW cv
  PROVE  LET s == FlattenSeq([i \in DOMAIN checks |-> CheckLines(checks[i])])
         IN /\ s \in Seq(BodyLines)
            /\ Parses(At(Page(<<>>, ms, f, cv), 0), s,
                      At(Page(FirstRead(checks, Len(checks)), ms, f, cv), Len(checks)))
<1> DEFINE n == Len(checks)
           F == [i \in DOMAIN checks |-> CheckLines(checks[i])]
           P(k) == At(Page(FirstRead(checks, k), ms, f, cv), k)
<1>1. n \in Nat /\ DOMAIN checks = 1..n  BY LenProperties
<1>2. \A i \in 1..n : checks[i] \in Checks  BY ElementOfSeq
<1>3. F \in [1..n -> Seq(BodyLines)] /\ \A i \in 1..n : F[i] = CheckLines(checks[i])
  BY <1>1, <1>2, CheckLinesShape
<1>4. P(0) = At(Page(<<>>, ms, f, cv), 0)
  <2>1. FirstRead(checks, 0) = <<>>  BY <1>1, FirstReadGrows, EmptySeq
  <2>2. QED  BY <2>1
<1> HIDE DEF n, F
<1>5. PICK g : Flattens(g, F, n) /\ FlattenSeq(F) = g[n]  BY <1>1, <1>3, FlattenUnfolds
<1> DEFINE T == {k \in Nat : k <= n => g[k] \in Seq(BodyLines) /\ Parses(P(0), g[k], P(k))}
<1>6. 0 \in T
  <2>1. g[0] = <<>>  BY <1>5 DEF Flattens
  <2>2. g[0] \in Seq(BodyLines)  BY <2>1, EmptySeq
  <2>3. Parses(P(0), g[0], P(0))  BY <2>1, ParsesNothing
  <2>4. QED  BY <2>2, <2>3
<1>7. ASSUME NEW k \in T PROVE k + 1 \in T
  <2>1. SUFFICES ASSUME k + 1 <= n
                 PROVE  g[k + 1] \in Seq(BodyLines) /\ Parses(P(0), g[k + 1], P(k + 1))
    OBVIOUS
  <2>2. k \in Nat /\ k <= n /\ k \in 0..n /\ k + 1 \in 1..n /\ (k + 1) - 1 = k  BY <1>1, <2>1
  <2>3. g[k] \in Seq(BodyLines) /\ Parses(P(0), g[k], P(k))  BY <2>2
  <2> DEFINE c == checks[k + 1]
  <2>4. c \in Checks /\ F[k + 1] = CheckLines(c) /\ CheckLines(c) \in Seq(BodyLines)
    BY <1>2, <1>3, <2>2
  <2>5. /\ FirstRead(checks, k) \in Seq(ReadChecks) /\ Len(FirstRead(checks, k)) = k
        /\ Append(FirstRead(checks, k), ReadOf(c)) = FirstRead(checks, k + 1)
    BY <2>1, <2>2, FirstReadGrows DEF n
  <2>6. Parses(P(k), CheckLines(c), P(k + 1))
    <3> DEFINE cs == FirstRead(checks, k)
    <3> HIDE DEF c, cs
    <3>1. Parses(At(Page(cs, ms, f, cv), k), CheckLines(c),
                 At(Page(Append(cs, ReadOf(c)), ms, f, cv), Len(cs) + 1))
      BY <2>4, <2>5, CheckIsRead DEF cs
    <3>2. QED  BY <2>5, <3>1 DEF cs
  <2>7. g[k + 1] = g[k] \o CheckLines(c)
    <3>1. g[k + 1] = g[(k + 1) - 1] \o F[k + 1]  BY <1>5, <2>2 DEF Flattens
    <3>2. QED  BY <2>2, <2>4, <3>1
  <2> HIDE DEF P, c
  <2>8. Parses(P(0), g[k] \o CheckLines(c), P(k + 1))  BY <2>3, <2>4, <2>6, ParsesThen
  <2>9. g[k] \o CheckLines(c) \in Seq(BodyLines)  BY <2>3, <2>4, ConcatProperties
  <2>10. QED  BY <2>7, <2>8, <2>9
<1>8. T = Nat
  <2>1. T \in SUBSET Nat  OBVIOUS
  <2> HIDE DEF T
  <2>2. QED  BY <1>6, <1>7, <2>1, Induction
<1>9. g[n] \in Seq(BodyLines) /\ Parses(P(0), g[n], P(n))
  <2>1. n \in T /\ n <= n  BY <1>1, <1>8
  <2>2. QED  BY <2>1
<1>10. QED  BY <1>4, <1>5, <1>9 DEF n, F

(* There are finitely many failing checks and covers. *)
LEMMA FailingIsFinite ==
  ASSUME NEW checks \in Seq(Checks)
  PROVE  /\ IsFiniteSet(Failing(checks)) /\ Cardinality(Failing(checks)) \in Nat
         /\ Cardinality(Failing(checks)) = 0 <=> Failing(checks) = {}
         /\ IsFiniteSet(Covers(checks)) /\ Cardinality(Covers(checks)) \in Nat
         /\ IsFiniteSet(Satisfied(checks)) /\ Cardinality(Satisfied(checks)) \in Nat
         /\ Satisfied(checks) \subseteq Covers(checks)
<1>1. Len(checks) \in Nat /\ DOMAIN checks = 1..Len(checks)  BY LenProperties
<1>2. IsFiniteSet(1..Len(checks))  BY <1>1, FS_Interval
<1>3. /\ Failing(checks) \in SUBSET (1..Len(checks)) /\ Covers(checks) \in SUBSET (1..Len(checks))
      /\ Satisfied(checks) \in SUBSET (1..Len(checks))
  BY <1>1 DEF Failing, Covers, Satisfied
<1>4. /\ IsFiniteSet(Failing(checks)) /\ IsFiniteSet(Covers(checks))
      /\ IsFiniteSet(Satisfied(checks))
  BY <1>2, <1>3, FS_Subset
<1>5. /\ Cardinality(Failing(checks)) \in Nat /\ Cardinality(Covers(checks)) \in Nat
      /\ Cardinality(Satisfied(checks)) \in Nat
  BY <1>4, FS_CardinalityType
<1>6. Cardinality(Failing(checks)) = 0 <=> Failing(checks) = {}  BY <1>4, FS_EmptySet
<1>7. Satisfied(checks) \subseteq Covers(checks)  BY DEF Satisfied
<1>8. QED  BY <1>4, <1>5, <1>6, <1>7

(* One more check: its message is named when it fails. *)
LEMMA NamesGrow ==
  ASSUME NEW checks \in Seq(Checks), NEW k \in Nat, k + 1 <= Len(checks),
         NEW ms \in Seq(Texts), Names(ms, checks, k)
  PROVE  /\ checks[k + 1].status = "FAILURE" =>
              /\ Append(ms, checks[k + 1].text) \in Seq(Texts)
              /\ Names(Append(ms, checks[k + 1].text), checks, k + 1)
         /\ checks[k + 1].status # "FAILURE" => Names(ms, checks, k + 1)
<1> DEFINE c == checks[k + 1]
           old == {i \in Failing(checks) : i <= k}
           new == {i \in Failing(checks) : i <= k + 1}
<1>1. Len(checks) \in Nat /\ DOMAIN checks = 1..Len(checks) /\ k + 1 \in 1..Len(checks)
  BY LenProperties
<1>2. c \in Checks /\ c.text \in Texts  BY <1>1, ElementOfSeq DEF Checks
<1>3. \A i \in Failing(checks) : i \in Nat /\ (i <= k + 1 <=> i <= k \/ i = k + 1)
  BY <1>1 DEF Failing
<1>4. k + 1 \in Failing(checks) <=> c.status = "FAILURE"  BY <1>1 DEF Failing
<1>5. IsFiniteSet(old)
  <2>1. old \in SUBSET Failing(checks)  OBVIOUS
  <2>2. QED  BY <2>1, FailingIsFinite, FS_Subset
<1>6. k + 1 \notin old  OBVIOUS
<1>7. /\ Len(ms) = Cardinality(old)
      /\ \A text \in Texts : (\E i \in DOMAIN ms : ms[i] = text)
                               <=> \E i \in old : checks[i].text = text
  BY DEF Names
<1>8. CASE c.status = "FAILURE"
  <2>1. new = old \cup {k + 1}  BY <1>3, <1>4, <1>8
  <2>2. Cardinality(new) = Cardinality(old) + 1  BY <1>5, <1>6, <2>1, FS_AddElement
  <2> DEFINE a == Append(ms, c.text)
  <2>3. /\ a \in Seq(Texts) /\ Len(a) = Len(ms) + 1
        /\ \A i \in 1..Len(ms) : a[i] = ms[i]
        /\ a[Len(ms) + 1] = c.text
    BY <1>2, AppendProperties
  <2>4. /\ DOMAIN a = 1..(Len(ms) + 1) /\ DOMAIN ms = 1..Len(ms) /\ Len(ms) \in Nat
    BY <2>3, LenProperties
  <2> HIDE DEF a, old, new, c
  <2>5. ASSUME NEW text \in Texts
        PROVE  (\E i \in DOMAIN a : a[i] = text) <=> \E i \in new : checks[i].text = text
    <3>1. (\E i \in DOMAIN a : a[i] = text)
            <=> (\E i \in DOMAIN ms : ms[i] = text) \/ c.text = text
      <4>1. \A i \in DOMAIN a : i \in DOMAIN ms \/ i = Len(ms) + 1  BY <2>4
      <4>2. Len(ms) + 1 \in DOMAIN a /\ \A i \in DOMAIN ms : i \in DOMAIN a  BY <2>4
      <4>3. QED  BY <2>3, <2>4, <4>1, <4>2
    <3>2. (\E i \in new : checks[i].text = text)
            <=> (\E i \in old : checks[i].text = text) \/ c.text = text
      BY <2>1 DEF c
    <3>3. QED  BY <1>7, <3>1, <3>2
  <2>6. Len(a) = Cardinality(new)  BY <1>7, <2>2, <2>3
  <2>7. Names(a, checks, k + 1)  BY <2>5, <2>6 DEF Names, new
  <2>8. QED  BY <1>8, <2>3, <2>7 DEF a, c
<1>9. CASE c.status # "FAILURE"
  <2>1. new = old  BY <1>3, <1>4, <1>9
  <2>2. Len(ms) = Cardinality(new)  BY <1>7, <2>1
  <2>3. \A text \in Texts : (\E i \in DOMAIN ms : ms[i] = text)
                              <=> \E i \in new : checks[i].text = text
    BY <1>7, <2>1
  <2>4. Names(ms, checks, k + 1)  BY <2>2, <2>3 DEF Names
  <2>5. QED  BY <1>9, <2>4
<1>10. QED  BY <1>8, <1>9

(* The lines of all failures keep the message of each. *)
LEMMA MessagesAreRead ==
  ASSUME NEW checks \in Seq(Checks), NEW cs, NEW f, NEW cv, NEW m
  PROVE  LET s == FlattenSeq([i \in DOMAIN checks |-> FailureLines(checks[i])])
         IN /\ s \in Seq(BodyLines)
            /\ \E ms \in Seq(Texts) :
                 /\ Names(ms, checks, Len(checks))
                 /\ Parses(At(Page(cs, <<>>, f, cv), m), s, At(Page(cs, ms, f, cv), m))
<1> DEFINE n == Len(checks)
           F == [i \in DOMAIN checks |-> FailureLines(checks[i])]
           P(ms) == At(Page(cs, ms, f, cv), m)
<1>1. n \in Nat /\ DOMAIN checks = 1..n  BY LenProperties
<1>2. \A i \in 1..n : checks[i] \in Checks  BY ElementOfSeq
<1>3. F \in [1..n -> Seq(BodyLines)] /\ \A i \in 1..n : F[i] = FailureLines(checks[i])
  BY <1>1, <1>2, FailureIsRead
<1> HIDE DEF n, F
<1>4. PICK g : Flattens(g, F, n) /\ FlattenSeq(F) = g[n]  BY <1>1, <1>3, FlattenUnfolds
<1> DEFINE Far(k) == /\ g[k] \in Seq(BodyLines)
                     /\ \E ms \in Seq(Texts) :
                          Names(ms, checks, k) /\ Parses(P(<<>>), g[k], P(ms))
           T == {k \in Nat : k <= n => Far(k)}
<1>5. 0 \in T
  <2>1. g[0] = <<>>  BY <1>4 DEF Flattens
  <2>2. g[0] \in Seq(BodyLines) /\ <<>> \in Seq(Texts)  BY <2>1, EmptySeq
  <2>3. Parses(P(<<>>), g[0], P(<<>>))  BY <2>1, ParsesNothing
  <2>4. Names(<<>>, checks, 0)
    <3>1. \A i \in Failing(checks) : ~(i <= 0)  BY <1>1 DEF Failing
    <3>2. {i \in Failing(checks) : i <= 0} = {}  BY <3>1
    <3>3. Cardinality({}) = 0 /\ Len(<<>>) = 0  BY FS_EmptySet, EmptySeq
    <3>4. \A text : ~ \E i \in DOMAIN <<>> : <<>>[i] = text  OBVIOUS
    <3>5. QED  BY <3>1, <3>2, <3>3, <3>4 DEF Names
  <2>5. QED  BY <2>2, <2>3, <2>4
<1>6. ASSUME NEW k \in T PROVE k + 1 \in T
  <2>1. SUFFICES ASSUME k + 1 <= n PROVE Far(k + 1)
    OBVIOUS
  <2>2. k \in Nat /\ k <= n /\ k + 1 \in 1..n /\ (k + 1) - 1 = k  BY <1>1, <2>1
  <2>3. Far(k)  BY <2>2
  <2> DEFINE c == checks[k + 1]
  <2>4. c \in Checks /\ F[k + 1] = FailureLines(c) /\ FailureLines(c) \in Seq(BodyLines)
    BY <1>2, <1>3, <2>2
  <2>5. g[k + 1] = g[k] \o FailureLines(c)
    <3>1. g[k + 1] = g[(k + 1) - 1] \o F[k + 1]  BY <1>4, <2>2 DEF Flattens
    <3>2. QED  BY <2>2, <2>4, <3>1
  <2>6. PICK ms \in Seq(Texts) : Names(ms, checks, k) /\ Parses(P(<<>>), g[k], P(ms))
    BY <2>3
  <2>7. \E x \in Seq(Texts) : Names(x, checks, k + 1) /\ Parses(P(ms), FailureLines(c), P(x))
    <3>1. CASE c.status = "FAILURE"
      <4>1. /\ Append(ms, c.text) \in Seq(Texts)
            /\ Names(Append(ms, c.text), checks, k + 1)
        BY <2>1, <2>2, <2>6, <3>1, NamesGrow DEF n
      <4>2. Parses(P(ms), FailureLines(c), P(Append(ms, c.text)))
        BY <2>4, <3>1, FailureIsRead
      <4>3. QED  BY <4>1, <4>2
    <3>2. CASE c.status # "FAILURE"
      <4>1. Names(ms, checks, k + 1)  BY <2>1, <2>2, <2>6, <3>2, NamesGrow DEF n
      <4>2. Parses(P(ms), FailureLines(c), P(ms))  BY <2>4, <3>2, FailureIsRead
      <4>3. QED  BY <4>1, <4>2
    <3>3. QED  BY <3>1, <3>2
  <2>8. PICK x \in Seq(Texts) : Names(x, checks, k + 1) /\ Parses(P(ms), FailureLines(c), P(x))
    BY <2>7
  <2>9. g[k] \in Seq(BodyLines)  BY <2>3
  <2> HIDE DEF P, c
  <2>10. Parses(P(<<>>), g[k] \o FailureLines(c), P(x))  BY <2>4, <2>6, <2>8, <2>9, ParsesThen
  <2>11. g[k] \o FailureLines(c) \in Seq(BodyLines)  BY <2>4, <2>9, ConcatProperties
  <2>12. QED  BY <2>5, <2>8, <2>10, <2>11
<1>7. T = Nat
  <2>1. T \in SUBSET Nat  OBVIOUS
  <2> HIDE DEF T
  <2>2. QED  BY <1>5, <1>6, <2>1, Induction
<1>8. Far(n)
  <2>1. n \in T /\ n <= n  BY <1>1, <1>7
  <2>2. QED  BY <2>1
<1>9. QED  BY <1>4, <1>8 DEF n, F

Reports == [panics : BOOLEAN, checks : Seq(Checks)]

(* Told from here on, r is in the block. *)
Leads(p, s, r) ==
  /\ s # <<>>
  /\ \E q : Parses(p, s, q) /\ Faithful(q.block, r) /\ q.buffer = NoBuffer

(* The rest of a body: it ends with the verdict. *)
BodyLike(s) ==
  /\ s \in Seq(BodyLines \cup VerdictLines) /\ s # <<>>
  /\ \A i \in 1..Len(s) : s[i].kind = "verdict" <=> i = Len(s)

(* Of a kind each, the lines of a body are not those around it. *)
LEMMA BodyLineKinds ==
  /\ \A l \in BodyLines : l.kind # "verdict" /\ InBody(l)
  /\ \A l \in VerdictLines : l.kind = "verdict" /\ InBody(l)
  /\ \A l \in ClosingLines : l.kind \in {"failed for", "trailer"}
BY DEF BodyLines, VerdictLines, ClosingLines, InBody

(* Lines of a body, then the verdict. *)
LEMMA VerdictLast ==
  ASSUME NEW s \in Seq(BodyLines), NEW v \in VerdictLines
  PROVE  BodyLike(s \o <<v>>)
<1> DEFINE S == BodyLines \cup VerdictLines
           t == s \o <<v>>
<1>1. s \in Seq(S)  BY SeqMonotonic
<1>2. <<v>> \in Seq(S) /\ Len(<<v>>) = 1 /\ <<v>>[1] = v  OBVIOUS
<1>3. Len(s) \in Nat  BY LenProperties
<1>4. /\ t \in Seq(S) /\ Len(t) = Len(s) + 1
      /\ \A i \in 1..(Len(s) + 1) : t[i] = IF i <= Len(s) THEN s[i] ELSE <<v>>[i - Len(s)]
  <2> HIDE DEF S
  <2>1. QED  BY <1>1, <1>2, ConcatProperties
<1>5. t # <<>>  BY <1>3, <1>4, EmptySeq
<1>6. ASSUME NEW i \in 1..Len(t) PROVE t[i].kind = "verdict" <=> i = Len(t)
  <2>1. CASE i <= Len(s)
    <3>1. i \in 1..Len(s) /\ i # Len(t)  BY <1>3, <1>4, <2>1
    <3>2. s[i] \in BodyLines  BY <3>1, ElementOfSeq
    <3>3. t[i] = s[i]  BY <1>4, <2>1
    <3>4. QED  BY <3>1, <3>2, <3>3, BodyLineKinds
  <2>2. CASE ~(i <= Len(s))
    <3>1. i = Len(t) /\ i - Len(s) = 1  BY <1>3, <1>4, <2>2
    <3>2. t[i] = v  BY <1>2, <1>4, <2>2, <3>1
    <3>3. QED  BY <3>1, <3>2, BodyLineKinds
  <2>3. QED  BY <2>1, <2>2
<1> HIDE DEF t
<1>7. QED  BY <1>4, <1>5, <1>6 DEF BodyLike, t

(* The counts of the covers are read into the block. *)
LEMMA CoversAreRead ==
  ASSUME NEW b, NEW n, NEW line, line.kind = "covers"
  PROVE  Reads(At(b, n), line,
               At([b EXCEPT !.covers = [satisfied |-> line.satisfied, total |-> line.total]], n))
BY DEF Reads, At

(* What comes first stays first. *)
LEMMA StaysFirst ==
  ASSUME NEW S, NEW s \in Seq(S), NEW u \in Seq(S), Len(s) >= 1
  PROVE  Len(s \o u) >= 1 /\ (s \o u)[1] = s[1]
<1>1. /\ Len(s) \in Nat /\ Len(u) \in Nat /\ Len(s \o u) = Len(s) + Len(u)
      /\ \A i \in 1..(Len(s) + Len(u)) :
           (s \o u)[i] = IF i <= Len(s) THEN s[i] ELSE u[i - Len(s)]
  BY ConcatProperties
<1>2. 1 \in 1..(Len(s) + Len(u)) /\ 1 <= Len(s)  BY <1>1
<1>3. QED  BY <1>1, <1>2

(* From a blank page, the body of a report leads to a block that says the same. *)
LEMMA BodyLeads ==
  ASSUME NEW r \in Reports
  PROVE  BodyLike(Body(r)) /\ Leads(Start, Body(r), r) /\ Head(Body(r)).kind = "section"
<1> DEFINE checks == r.checks
           n == Len(checks)
           cs == IF terse THEN <<>> ELSE FirstRead(checks, n)
           m == IF terse THEN 0 ELSE n
           f == Cardinality(Failing(checks))
           cv == IF Covers(checks) = {} THEN None
                 ELSE [satisfied |-> Cardinality(Satisfied(checks)),
                       total |-> Cardinality(Covers(checks))]
           section == [kind |-> "section"]
           blank == [kind |-> "blank"]
           summary == [kind |-> "summary", failed |-> f]
           counts == [kind |-> "covers", satisfied |-> Cardinality(Satisfied(checks)),
                      total |-> Cardinality(Covers(checks))]
           ending == [kind |-> "verdict", result |-> Result(r), panics |-> r.panics]
           A == IF terse THEN <<>>
                ELSE FlattenSeq([i \in DOMAIN checks |-> CheckLines(checks[i])])
           B == FlattenSeq([i \in DOMAIN checks |-> FailureLines(checks[i])])
           C == IF Covers(checks) = {} THEN <<>> ELSE <<counts>>
           p0 == At(Page(<<>>, <<>>, None, None), 0)
           p1 == At(Page(cs, <<>>, None, None), m)
           p2 == At(Page(cs, <<>>, f, None), m)
<1>1. checks \in Seq(Checks) /\ r.panics \in BOOLEAN  BY DEF Reports
<1>2. /\ f \in Nat /\ Cardinality(Satisfied(checks)) \in Nat
      /\ Cardinality(Covers(checks)) \in Nat
  BY <1>1, FailingIsFinite
<1>3. /\ section \in BodyLines /\ blank \in BodyLines /\ summary \in BodyLines
      /\ counts \in BodyLines
  <2> HIDE DEF f
  <2>1. QED  BY <1>2 DEF BodyLines
<1>4. ending \in VerdictLines  BY <1>1 DEF VerdictLines, Result
<1>5. /\ section.kind = "section" /\ blank.kind = "blank"
      /\ summary.kind = "summary" /\ summary.failed = f
      /\ counts.kind = "covers" /\ counts.satisfied = Cardinality(Satisfied(checks))
      /\ counts.total = Cardinality(Covers(checks))
      /\ ending.kind = "verdict" /\ ending.result = Result(r) /\ ending.panics = r.panics
  OBVIOUS
<1>6. Body(r) = <<section>> \o A \o <<summary>> \o B \o <<blank>> \o C \o <<ending>>
  BY DEF Body
<1>7. Start = p0  BY DEF Start, At, Page, BlankBlock
<1> HIDE DEF section, blank, summary, counts, ending
<1>8. A \in Seq(BodyLines) /\ Parses(p0, A, p1)
  <2>1. CASE terse
    <3>1. A = <<>> /\ cs = <<>> /\ m = 0  BY <2>1
    <3>2. Parses(p0, A, p1)  BY <3>1, ParsesNothing
    <3>3. QED  BY <3>1, <3>2, EmptySeq
  <2>2. CASE ~terse
    <3> DEFINE s == FlattenSeq([i \in DOMAIN checks |-> CheckLines(checks[i])])
    <3>1. A = s /\ cs = FirstRead(checks, n) /\ m = n  BY <2>2
    <3>2. /\ s \in Seq(BodyLines)
          /\ Parses(p0, s, At(Page(FirstRead(checks, n), <<>>, None, None), n))
      BY <1>1, ChecksAreRead
    <3> HIDE DEF s, A, cs, m, n
    <3>3. QED  BY <3>1, <3>2
  <2>3. QED  BY <2>1, <2>2
<1>9. /\ B \in Seq(BodyLines)
      /\ \E ms \in Seq(Texts) :
           Names(ms, checks, n) /\ Parses(p2, B, At(Page(cs, ms, f, None), m))
  <2> HIDE DEF cs, m, f
  <2>1. QED  BY <1>1, MessagesAreRead
<1>10. PICK ms \in Seq(Texts) :
         Names(ms, checks, n) /\ Parses(p2, B, At(Page(cs, ms, f, None), m))
  BY <1>9
<1> DEFINE b3 == Page(cs, ms, f, None)
           b4 == Page(cs, ms, f, cv)
           b5 == [b4 EXCEPT !.result = ending.result, !.panics = ending.panics]
<1>11. Parses(p0, <<section>>, p0)
  <2>1. p0.buffer = NoBuffer  BY AtFields
  <2> HIDE DEF p0
  <2>2. Reads(p0, section, p0)  BY <1>5, <2>1 DEF Reads
  <2>3. QED  BY <2>2, ParsesLine
<1>12. Parses(p1, <<summary>>, p2)
  <2> DEFINE b == Page(cs, <<>>, None, None)
  <2>1. At(b, m).block = b /\ At(b, m).number = m /\ At(b, m).buffer = NoBuffer  BY AtFields
  <2>2. [b EXCEPT !.failed = f] = Page(cs, <<>>, f, None)
    <3> HIDE DEF cs, f
    <3>1. QED  BY PageFailed
  <2> HIDE DEF b, cs, m, f
  <2>3. [b EXCEPT !.failed = summary.failed] = Page(cs, <<>>, f, None)  BY <1>5, <2>2
  <2>4. Reads(At(b, m), summary, p2)  BY <1>5, <2>1, <2>3 DEF Reads, At
  <2>5. QED  BY <2>4, ParsesLine DEF b
<1>13. Parses(At(b3, m), <<blank>>, At(b3, m))
  <2>1. At(b3, m).buffer = NoBuffer  BY AtFields
  <2> HIDE DEF b3, m
  <2>2. Reads(At(b3, m), blank, At(b3, m))  BY <1>5, <2>1 DEF Reads
  <2>3. QED  BY <2>2, ParsesLine
<1>14. C \in Seq(BodyLines) /\ Parses(At(b3, m), C, At(b4, m))
  <2>1. CASE Covers(checks) = {}
    <3>1. C = <<>> /\ cv = None  BY <2>1
    <3>2. Parses(At(b3, m), C, At(b4, m))  BY <3>1, ParsesNothing
    <3>3. QED  BY <3>1, <3>2, EmptySeq
  <2>2. CASE Covers(checks) # {}
    <3> DEFINE x == [satisfied |-> counts.satisfied, total |-> counts.total]
    <3>1. C = <<counts>> /\ cv = x  BY <1>5, <2>2
    <3>2. At(b3, m).block = b3 /\ At(b3, m).number = m /\ At(b3, m).buffer = NoBuffer
      BY AtFields
    <3>3. [b3 EXCEPT !.covers = x] = Page(cs, ms, f, x)
      <4> HIDE DEF x, cs, f
      <4>1. QED  BY PageCovers
    <3> HIDE DEF cs, f, cv, b3, m
    <3>4. Reads(At(b3, m), counts, At(Page(cs, ms, f, x), m))
      <4> DEFINE b == Page(cs, ms, f, x)
      <4>1. [b3 EXCEPT !.covers = [satisfied |-> counts.satisfied, total |-> counts.total]] = b
        BY <3>3
      <4>2. Reads(At(b3, m), counts,
                  At([b3 EXCEPT !.covers = [satisfied |-> counts.satisfied,
                                            total |-> counts.total]], m))
        <5> HIDE DEF b
        <5>1. QED  BY <1>5, CoversAreRead
      <4> HIDE DEF b, x
      <4>3. QED  BY <4>1, <4>2 DEF b
    <3>5. Parses(At(b3, m), <<counts>>, At(b4, m))
      <4>1. At(b4, m) = At(Page(cs, ms, f, x), m)  BY <3>1
      <4> HIDE DEF b4, x
      <4>2. QED  BY <3>4, <4>1, ParsesLine
    <3>6. <<counts>> \in Seq(BodyLines)  BY <1>3
    <3> HIDE DEF C, x, b4
    <3>7. QED  BY <3>1, <3>5, <3>6
  <2>3. QED  BY <2>1, <2>2
<1>15. Parses(At(b4, m), <<ending>>, At(b5, m))
  <2>1. At(b4, m).block = b4 /\ At(b4, m).number = m /\ At(b4, m).buffer = NoBuffer
    BY AtFields
  <2>2. b4.result = None
    <3> HIDE DEF cs, f, cv
    <3>1. QED  BY PageResult
  <2> HIDE DEF b4, m
  <2>3. Reads(At(b4, m), ending, At(b5, m))  BY <1>5, <2>1, <2>2 DEF Reads, At
  <2> HIDE DEF b5
  <2>4. QED  BY <2>3, ParsesLine
<1>16. /\ <<section>> \in Seq(BodyLines) /\ <<summary>> \in Seq(BodyLines)
       /\ <<blank>> \in Seq(BodyLines)
  BY <1>3
<1>17. Faithful(b5, r)
  <2>1. /\ b4.checks = cs /\ b4.messages = ms /\ b4.failed = f /\ b4.covers = cv
    <3> HIDE DEF cs, f, cv
    <3>1. QED  BY PageFields
  <2>2. b4 \in PageOf(cs, ms, f, cv)
    <3> HIDE DEF cs, f, cv
    <3>1. QED  BY PageIs
  <2> HIDE DEF b4, cs, f, cv
  <2>3. /\ b5.checks = cs /\ b5.messages = ms /\ b5.failed = f /\ b5.covers = cv
        /\ b5.result = ending.result /\ b5.panics = ending.panics
    BY <2>2 DEF PageOf
  <2> HIDE DEF b5
  <2>4. /\ b5.checks = IF terse THEN <<>> ELSE [i \in 1..Len(r.checks) |-> ReadOf(r.checks[i])]
        /\ b5.failed = Cardinality(Failing(r.checks))
        /\ b5.covers = IF Covers(r.checks) = {} THEN None
                       ELSE [satisfied |-> Cardinality(Satisfied(r.checks)),
                             total |-> Cardinality(Covers(r.checks))]
    BY <2>3 DEF cs, f, cv, FirstRead
  <2>5. Names(b5.messages, r.checks, Len(r.checks))  BY <1>10, <2>3
  <2>6. b5.result = Result(r) /\ b5.panics = r.panics  BY <1>5, <2>3
  <2>7. QED  BY <2>4, <2>5, <2>6 DEF Faithful
<1> DEFINE s1 == <<section>> \o A
           s2 == s1 \o <<summary>>
           s3 == s2 \o B
           s4 == s3 \o <<blank>>
           s5 == s4 \o C
           s6 == s5 \o <<ending>>
           q == At(b5, m)
<1>18. Body(r) = s6  BY <1>6
<1> HIDE DEF A, B, C, p0, p1, p2, b3, b4, b5, m
<1>19. s1 \in Seq(BodyLines) /\ Parses(p0, s1, p1) /\ Len(s1) >= 1 /\ s1[1] = section
  <2>1. Len(<<section>>) = 1 /\ <<section>>[1] = section  OBVIOUS
  <2>2. Len(s1) >= 1 /\ s1[1] = section  BY <1>8, <1>16, <2>1, StaysFirst
  <2>3. QED  BY <1>8, <1>11, <1>16, <2>2, ConcatProperties, ParsesThen
<1> HIDE DEF s1
<1>20. /\ s2 \in Seq(BodyLines) /\ Parses(p0, s2, p2)
       /\ Len(s2) >= 1 /\ s2[1] = section
  BY <1>12, <1>16, <1>19, ConcatProperties, ParsesThen, StaysFirst
<1> HIDE DEF s2
<1>21. s3 \in Seq(BodyLines) /\ Parses(p0, s3, At(b3, m)) /\ Len(s3) >= 1 /\ s3[1] = section
  <2>1. Parses(p2, B, At(b3, m))  BY <1>10 DEF b3
  <2>2. QED  BY <1>9, <1>20, <2>1, ConcatProperties, ParsesThen, StaysFirst
<1> HIDE DEF s3
<1>22. /\ s4 \in Seq(BodyLines) /\ Parses(p0, s4, At(b3, m))
       /\ Len(s4) >= 1 /\ s4[1] = section
  BY <1>13, <1>16, <1>21, ConcatProperties, ParsesThen, StaysFirst
<1> HIDE DEF s4
<1>23. /\ s5 \in Seq(BodyLines) /\ Parses(p0, s5, At(b4, m))
       /\ Len(s5) >= 1 /\ s5[1] = section
  BY <1>14, <1>22, ConcatProperties, ParsesThen, StaysFirst
<1> HIDE DEF s5
<1>24. Parses(p0, s6, q) /\ s6[1] = section
  <2> DEFINE S == BodyLines \cup VerdictLines
  <2>1. s5 \in Seq(S)  BY <1>23, SeqMonotonic
  <2>2. <<ending>> \in Seq(S)  BY <1>4
  <2> HIDE DEF S
  <2>3. Parses(p0, s6, q)  BY <1>15, <1>23, <2>1, <2>2, ParsesThen
  <2>4. s6[1] = section  BY <1>23, <2>1, <2>2, StaysFirst
  <2> HIDE DEF s6, q
  <2>5. QED  BY <2>3, <2>4
<1>25. BodyLike(s6)  BY <1>4, <1>23, VerdictLast
<1>26. s6 # <<>>  BY <1>25 DEF BodyLike
<1>27. q.block = b5 /\ q.buffer = NoBuffer  BY AtFields
<1> HIDE DEF q, s6
<1>28. Leads(p0, s6, r)  BY <1>17, <1>24, <1>26, <1>27 DEF Leads
<1>29. Head(s6).kind = "section"
  <2>1. s6 \in Seq(BodyLines \cup VerdictLines)  BY <1>25 DEF BodyLike
  <2>2. Head(s6) = section  BY <1>24, <1>26, <2>1, HeadFirst
  <2>3. QED  BY <1>5, <2>2
<1>30. QED  BY <1>7, <1>18, <1>25, <1>28, <1>29

-------------------------------------------------------------------------------
(* The verifier's side: how far each worker is with its script *)

(* What follows the line that announces a harness. *)
Rest(w, r) == (IF w = Main THEN <<>> ELSE <<[kind |-> "thread", worker |-> w]>>) \o Body(r)

Working(w) == w \in workers /\ log = "open" /\ job[w] \in DOMAIN found \ waiting

AtHarness(w) == Working(w) /\ script[w] = Block(w, job[w], found[job[w]])

AtThread(w) ==
  /\ Working(w) /\ w # Main
  /\ script[w] = <<[kind |-> "thread", worker |-> w]>> \o Body(found[job[w]])

AtBody(w) == Working(w) /\ BodyLike(script[w])

(* The count line, when it comes, has the numbers of this run. *)
Counts(line) ==
  /\ line.total = Cardinality(DOMAIN found)
  /\ line.successful + line.failures = line.total

AtClosing(w) ==
  /\ w = Main /\ log = "closing"
  /\ script[w] \in Seq(ClosingLines) /\ script[w] # <<>>
  /\ \A i \in 1..Len(script[w]) : script[w][i].kind = "trailer" => Counts(script[w][i])

Stage(w) == script[w] = <<>> \/ AtHarness(w) \/ AtThread(w) \/ AtBody(w) \/ AtClosing(w)

Reading(w) == script[w] # <<>> /\ InBody(Head(script[w]))

(* The harnesses whose body is being printed or was. *)
Begun ==
  {h \in DOMAIN found \ waiting :
     \A w \in Workers : job[w] = h /\ script[w] # <<>> => InBody(Head(script[w]))}

(* The workers are each about a harness of their own. *)
Shared ==
  /\ \A w \in Workers : Stage(w)
  /\ \A w \in Workers : job[w] # None => w \in workers /\ job[w] \in DOMAIN found \ waiting
  /\ \A w, v \in Workers : job[w] = job[v] /\ job[w] # None => w = v

Order ==
  /\ log \in {"open", "closing"}
  /\ log = "closing" => waiting = {} /\ job[Main] = None
  /\ trailer # None => log = "closing" /\ Counts(trailer)
  /\ Shared
  /\ \A h \in Known : Announced(h)

(* The variables of the verifier, and the lines it prints. *)
ToolType ==
  /\ found \in Findings /\ workers \in {{Main}, Threads} /\ waiting \subseteq DOMAIN found
  /\ strict \in BOOLEAN /\ whole \in BOOLEAN /\ terse \in BOOLEAN
  /\ job \in [Workers -> Harnesses \cup {None}]
  /\ script \in [Workers -> Seq(Lines)]
  /\ printing \in Workers \cup {None}

(* What the parser's own types leave open. *)
ReadType == pending \in [name : Harnesses, number : Nat] \cup {None}

TypeInv == TypeOK /\ ToolType /\ ReadType

(* A run finds out something of harnesses, finitely many. *)
LEMMA FoundIsTyped ==
  ASSUME ToolType
  PROVE  /\ DOMAIN found \subseteq Harnesses /\ IsFiniteSet(DOMAIN found)
         /\ \A h \in DOMAIN found : found[h] \in Reports
BY FindingsAssumption DEF ToolType, Reports

(* The line that announces a harness. *)
LEMMA HarnessFirst ==
  ASSUME ToolType, NEW w \in Workers, AtHarness(w)
  PROVE  /\ script[w] # <<>>
         /\ Head(script[w]) = [kind |-> "harness", worker |-> w, name |-> job[w]]
         /\ Tail(script[w]) = Rest(w, found[job[w]])
<1> DEFINE r == found[job[w]]
           line == [kind |-> "harness", worker |-> w, name |-> job[w]]
           thread == [kind |-> "thread", worker |-> w]
           middle == IF w = Main THEN <<>> ELSE <<thread>>
<1>1. r \in Reports /\ job[w] \in Harnesses  BY FoundIsTyped DEF AtHarness, Working
<1>2. Body(r) \in Seq(Lines)
  <2>1. Body(r) \in Seq(BodyLines \cup VerdictLines)  BY <1>1, BodyLeads DEF BodyLike
  <2>2. BodyLines \cup VerdictLines \subseteq Lines  BY DEF Lines
  <2>3. QED  BY <2>1, <2>2, SeqMonotonic
<1>3. line \in Lines  BY <1>1 DEF Lines, HarnessLines
<1>4. middle \in Seq(Lines)
  <2>1. CASE w = Main  BY <2>1, EmptySeq
  <2>2. CASE w # Main
    <3>1. thread \in Lines  BY <2>2 DEF Lines, ThreadLines, Workers
    <3>2. QED  BY <2>2, <3>1
  <2>3. QED  BY <2>1, <2>2
<1>5. script[w] = <<line>> \o middle \o Body(r)  BY DEF AtHarness, Block
<1>6. Rest(w, r) = middle \o Body(r)  BY DEF Rest
<1>7. <<line>> \in Seq(Lines)  BY <1>3
<1> HIDE DEF line, middle, r
<1>8. script[w] = <<line>> \o (middle \o Body(r))
  BY <1>2, <1>4, <1>5, <1>7, ConcatAssociative
<1>9. middle \o Body(r) \in Seq(Lines)  BY <1>2, <1>4, ConcatProperties
<1>10. /\ script[w] # <<>> /\ Head(script[w]) = line
       /\ Tail(script[w]) = middle \o Body(r)
  BY <1>3, <1>8, <1>9, FirstThen
<1>11. QED  BY <1>6, <1>10 DEF line, r

(* The line a thread names itself with. *)
LEMMA ThreadFirst ==
  ASSUME ToolType, NEW w \in Workers, AtThread(w)
  PROVE  /\ script[w] # <<>>
         /\ Head(script[w]) = [kind |-> "thread", worker |-> w]
         /\ Tail(script[w]) = Body(found[job[w]])
<1> DEFINE r == found[job[w]]
           thread == [kind |-> "thread", worker |-> w]
<1>1. r \in Reports  BY FoundIsTyped DEF AtThread, Working
<1>2. Body(r) \in Seq(Lines)
  <2>1. Body(r) \in Seq(BodyLines \cup VerdictLines)  BY <1>1, BodyLeads DEF BodyLike
  <2>2. BodyLines \cup VerdictLines \subseteq Lines  BY DEF Lines
  <2>3. QED  BY <2>1, <2>2, SeqMonotonic
<1>3. thread \in Lines  BY DEF Lines, ThreadLines, Workers, AtThread
<1>4. script[w] = <<thread>> \o Body(r)  BY DEF AtThread
<1> HIDE DEF thread, r
<1>5. QED  BY <1>2, <1>3, <1>4, FirstThen DEF thread, r

(* A line of a body, and what follows it. *)
LEMMA BodyFirst ==
  ASSUME NEW s, BodyLike(s)
  PROVE  /\ s # <<>> /\ Head(s) \in BodyLines \cup VerdictLines /\ InBody(Head(s))
         /\ Head(s).kind = "verdict" <=> Tail(s) = <<>>
         /\ Tail(s) # <<>> => BodyLike(Tail(s))
<1> DEFINE S == BodyLines \cup VerdictLines
           u == Tail(s)
<1>1. s \in Seq(S) /\ s # <<>>
      /\ \A i \in 1..Len(s) : s[i].kind = "verdict" <=> i = Len(s)
  BY DEF BodyLike
<1>2. /\ Len(s) \in Nat /\ Len(s) >= 1 /\ Head(s) = s[1] /\ Head(s) \in S
      /\ u \in Seq(S) /\ Len(u) = Len(s) - 1
      /\ \A i \in 1..(Len(s) - 1) : u[i] = s[i + 1]
  <2> HIDE DEF S
  <2>1. QED  BY <1>1, HeadFirst
<1>3. InBody(Head(s))  BY <1>2, BodyLineKinds
<1>4. Head(s).kind = "verdict" <=> Len(s) = 1
  <2>1. 1 \in 1..Len(s)  BY <1>2
  <2>2. s[1].kind = "verdict" <=> 1 = Len(s)  BY <1>1, <2>1
  <2>3. QED  BY <1>2, <2>2
<1>5. Len(s) = 1 <=> u = <<>>
  <2> HIDE DEF u, S
  <2>1. Len(u) = 0 <=> u = <<>>  BY <1>2, EmptySeq
  <2>2. QED  BY <1>2, <2>1
<1>6. ASSUME u # <<>> PROVE BodyLike(u)
  <2>1. ASSUME NEW i \in 1..Len(u) PROVE u[i].kind = "verdict" <=> i = Len(u)
    <3>1. i \in 1..(Len(s) - 1) /\ i + 1 \in 1..Len(s)  BY <1>2
    <3>2. u[i] = s[i + 1]  BY <1>2, <3>1
    <3>3. s[i + 1].kind = "verdict" <=> i + 1 = Len(s)  BY <1>1, <3>1
    <3>4. i + 1 = Len(s) <=> i = Len(u)  BY <1>2
    <3>5. QED  BY <3>2, <3>3, <3>4
  <2> HIDE DEF u
  <2>2. QED  BY <1>2, <1>6, <2>1 DEF BodyLike
<1> HIDE DEF u
<1>7. QED  BY <1>1, <1>2, <1>3, <1>4, <1>5, <1>6 DEF u

(* A closing line, and what follows it. *)
LEMMA ClosingFirst ==
  ASSUME NEW w, AtClosing(w)
  PROVE  /\ Head(script[w]) \in ClosingLines /\ Tail(script[w]) \in Seq(ClosingLines)
         /\ Head(script[w]).kind = "trailer" => Counts(Head(script[w]))
         /\ \A i \in 1..Len(Tail(script[w])) :
              Tail(script[w])[i].kind = "trailer" => Counts(Tail(script[w])[i])
<1> DEFINE s == script[w]
           u == Tail(s)
<1>1. /\ s \in Seq(ClosingLines) /\ s # <<>>
      /\ \A i \in 1..Len(s) : s[i].kind = "trailer" => Counts(s[i])
  BY DEF AtClosing
<1> HIDE DEF s
<1>2. /\ Len(s) \in Nat /\ Len(s) >= 1 /\ Head(s) = s[1] /\ Head(s) \in ClosingLines
      /\ u \in Seq(ClosingLines) /\ Len(u) = Len(s) - 1
      /\ \A i \in 1..(Len(s) - 1) : u[i] = s[i + 1]
  BY <1>1, HeadFirst
<1> HIDE DEF u
<1>3. ASSUME NEW i \in 1..Len(u) PROVE u[i].kind = "trailer" => Counts(u[i])
  <2>1. i \in 1..(Len(s) - 1) /\ i + 1 \in 1..Len(s)  BY <1>2
  <2>2. QED  BY <1>1, <1>2, <2>1
<1>4. Head(s).kind = "trailer" => Counts(Head(s))  BY <1>1, <1>2
<1>5. QED  BY <1>2, <1>3, <1>4 DEF s, u

(* The kind of the next line tells where a worker is. *)
LEMMA HeadTells ==
  ASSUME ToolType, Shared, NEW w \in Workers, script[w] # <<>>
  PROVE  /\ Head(script[w]).kind = "harness" <=> AtHarness(w)
         /\ Head(script[w]).kind = "thread" <=> AtThread(w)
         /\ InBody(Head(script[w])) <=> AtBody(w)
         /\ Head(script[w]).kind \in {"failed for", "trailer"} <=> AtClosing(w)
<1>1. AtHarness(w) \/ AtThread(w) \/ AtBody(w) \/ AtClosing(w)  BY DEF Shared, Stage
<1>2. AtHarness(w) => Head(script[w]).kind = "harness"
  <2>1. ASSUME AtHarness(w) PROVE Head(script[w]).kind = "harness"
    <3> DEFINE line == [kind |-> "harness", worker |-> w, name |-> job[w]]
    <3>1. Head(script[w]) = line  BY <2>1, HarnessFirst
    <3>2. line.kind = "harness"  OBVIOUS
    <3> HIDE DEF line
    <3>3. QED  BY <3>1, <3>2
  <2>2. QED  BY <2>1
<1>3. AtThread(w) => Head(script[w]).kind = "thread"
  <2>1. ASSUME AtThread(w) PROVE Head(script[w]).kind = "thread"
    <3> DEFINE line == [kind |-> "thread", worker |-> w]
    <3>1. Head(script[w]) = line  BY <2>1, ThreadFirst
    <3>2. line.kind = "thread"  OBVIOUS
    <3> HIDE DEF line
    <3>3. QED  BY <3>1, <3>2
  <2>2. QED  BY <2>1
<1>4. AtBody(w) => InBody(Head(script[w]))  BY BodyFirst DEF AtBody
<1>5. AtClosing(w) => Head(script[w]).kind \in {"failed for", "trailer"}
  BY ClosingFirst, BodyLineKinds
<1>6. QED  BY <1>1, <1>2, <1>3, <1>4, <1>5 DEF InBody

(* What is still to say after the announcement is not nothing. *)
LEMMA RestFirst ==
  ASSUME NEW w \in Workers, NEW r \in Reports
  PROVE  /\ Rest(w, r) # <<>>
         /\ w = Main => Rest(w, r) = Body(r) /\ InBody(Head(Rest(w, r)))
         /\ w # Main => /\ Rest(w, r) = <<[kind |-> "thread", worker |-> w]>> \o Body(r)
                        /\ Head(Rest(w, r)).kind = "thread"
<1>1. BodyLike(Body(r))  BY BodyLeads
<1>2. Body(r) \in Seq(BodyLines \cup VerdictLines) /\ Body(r) # <<>>  BY <1>1 DEF BodyLike
<1>3. CASE w = Main
  <2>1. Rest(w, r) = <<>> \o Body(r)  BY <1>3 DEF Rest
  <2>2. Rest(w, r) = Body(r)  BY <1>2, <2>1, ConcatEmptySeq
  <2>3. QED  BY <1>1, <1>2, <1>3, <2>2, BodyFirst
<1>4. CASE w # Main
  <2> DEFINE thread == [kind |-> "thread", worker |-> w]
  <2>1. thread \in Lines  BY <1>4 DEF Lines, ThreadLines, Workers
  <2>2. BodyLines \cup VerdictLines \subseteq Lines  BY DEF Lines
  <2>3. Body(r) \in Seq(Lines)  BY <1>2, <2>2, SeqMonotonic
  <2>4. Rest(w, r) = <<thread>> \o Body(r)  BY <1>4 DEF Rest
  <2>5. thread.kind = "thread"  OBVIOUS
  <2> HIDE DEF thread
  <2>6. Rest(w, r) # <<>> /\ Head(Rest(w, r)) = thread  BY <2>1, <2>3, <2>4, FirstThen
  <2>7. QED  BY <1>4, <2>4, <2>5, <2>6 DEF thread
<1>5. QED  BY <1>3, <1>4

(* The script of a worker that takes on a harness. *)
LEMMA BlockIsTyped ==
  ASSUME ToolType, NEW w \in Workers, NEW h \in DOMAIN found
  PROVE  /\ Block(w, h, found[h]) \in Seq(Lines) /\ Block(w, h, found[h]) # <<>>
         /\ Head(Block(w, h, found[h])).kind = "harness"
<1> DEFINE r == found[h]
           line == [kind |-> "harness", worker |-> w, name |-> h]
           middle == IF w = Main THEN <<>> ELSE <<[kind |-> "thread", worker |-> w]>>
<1>1. r \in Reports /\ h \in Harnesses  BY FoundIsTyped
<1>2. Body(r) \in Seq(Lines)
  <2>1. Body(r) \in Seq(BodyLines \cup VerdictLines)  BY <1>1, BodyLeads DEF BodyLike
  <2>2. BodyLines \cup VerdictLines \subseteq Lines  BY DEF Lines
  <2>3. QED  BY <2>1, <2>2, SeqMonotonic
<1>3. line \in Lines /\ line.kind = "harness"  BY <1>1 DEF Lines, HarnessLines
<1>4. middle \in Seq(Lines)
  <2>1. CASE w = Main  BY <2>1, EmptySeq
  <2>2. CASE w # Main
    <3>1. [kind |-> "thread", worker |-> w] \in Lines
      BY <2>2 DEF Lines, ThreadLines, Workers
    <3>2. QED  BY <2>2, <3>1
  <2>3. QED  BY <2>1, <2>2
<1>5. Block(w, h, r) = <<line>> \o middle \o Body(r)  BY DEF Block
<1>6. <<line>> \in Seq(Lines)  BY <1>3
<1> HIDE DEF line, middle, r
<1>7. Block(w, h, r) = <<line>> \o (middle \o Body(r))
  BY <1>2, <1>4, <1>5, <1>6, ConcatAssociative
<1>8. middle \o Body(r) \in Seq(Lines)  BY <1>2, <1>4, ConcatProperties
<1>9. /\ Block(w, h, r) \in Seq(Lines) /\ Block(w, h, r) # <<>>
      /\ Head(Block(w, h, r)) = line
  BY <1>3, <1>7, <1>8, FirstThen
<1>10. QED  BY <1>3, <1>9 DEF r

(* The successes and the failures are all the harnesses there are. *)
LEMMA ResultsAddUp ==
  ASSUME ToolType
  PROVE  /\ IsFiniteSet(WithResult("FAILED")) /\ IsFiniteSet(WithResult("SUCCESSFUL"))
         /\ Cardinality(WithResult("FAILED")) \in Nat
         /\ Cardinality(WithResult("SUCCESSFUL")) \in Nat
         /\ Cardinality(WithResult("SUCCESSFUL")) + Cardinality(WithResult("FAILED"))
              = Cardinality(DOMAIN found)
<1> DEFINE F == WithResult("FAILED")
           S == WithResult("SUCCESSFUL")
<1>1. F \subseteq DOMAIN found /\ S \subseteq DOMAIN found  BY DEF WithResult
<1>2. F \cap S = {} /\ F \cup S = DOMAIN found
  <2>1. \A r : Result(r) \in {"SUCCESSFUL", "FAILED"}  BY DEF Result
  <2>2. QED  BY <2>1 DEF WithResult
<1>3. IsFiniteSet(DOMAIN found)  BY FoundIsTyped
<1>4. IsFiniteSet(F) /\ IsFiniteSet(S)  BY <1>1, <1>3, FS_Subset
<1> HIDE DEF F, S
<1>5. Cardinality(F) \in Nat /\ Cardinality(S) \in Nat  BY <1>4, FS_CardinalityType
<1>6. Cardinality(S \cup F) = Cardinality(S) + Cardinality(F) - Cardinality(S \cap F)
  BY <1>4, FS_Union
<1>7. S \cup F = DOMAIN found /\ S \cap F = {}  BY <1>2
<1>8. Cardinality(DOMAIN found) = Cardinality(S) + Cardinality(F) - 0
  BY <1>6, <1>7, FS_EmptySet
<1>9. QED  BY <1>4, <1>5, <1>8 DEF F, S

(* The closing lines: harnesses that failed, then the count line. *)
LEMMA ClosingIsTyped ==
  ASSUME ToolType, NEW failed \in SetToSeqs(WithResult("FAILED"))
  PROVE  LET s == [i \in DOMAIN failed |-> [kind |-> "failed for", name |-> failed[i]]]
                  \o <<[kind |-> "trailer",
                        successful |-> Cardinality(WithResult("SUCCESSFUL")),
                        failures |-> Len(failed), total |-> Cardinality(DOMAIN found)]>>
         IN /\ s \in Seq(ClosingLines) /\ s # <<>>
            /\ \A i \in 1..Len(s) : s[i].kind = "trailer" => Counts(s[i])
<1> DEFINE F == WithResult("FAILED")
           n == Cardinality(F)
           total == Cardinality(DOMAIN found)
           successful == Cardinality(WithResult("SUCCESSFUL"))
           named == [i \in DOMAIN failed |-> [kind |-> "failed for", name |-> failed[i]]]
           line == [kind |-> "trailer", successful |-> successful, failures |-> n,
                    total |-> total]
           s == named \o <<line>>
<1>1. n \in Nat /\ successful \in Nat /\ successful + n = total /\ total \in Nat
  BY ResultsAddUp
<1>2. F \subseteq Harnesses  BY FoundIsTyped DEF WithResult
<1>3. failed \in [1..n -> F]  BY DEF SetToSeqs
<1>4. failed \in Seq(F) /\ Len(failed) = n /\ DOMAIN failed = 1..n
  <2> HIDE DEF F, n
  <2>1. QED  BY <1>1, <1>3, FunctionIsSeq
<1>5. named \in [1..n -> ClosingLines]
  BY <1>2, <1>3, <1>4 DEF ClosingLines
<1>6. \A i \in 1..n : named[i].kind = "failed for"  BY <1>4
<1>7. line \in ClosingLines /\ Counts(line)  BY <1>1 DEF ClosingLines, Counts
<1> HIDE DEF named, line, n, F
<1>8. named \in Seq(ClosingLines) /\ Len(named) = n  BY <1>1, <1>5, FunctionIsSeq
<1>9. <<line>> \in Seq(ClosingLines) /\ Len(<<line>>) = 1 /\ <<line>>[1] = line  BY <1>7
<1>10. /\ s \in Seq(ClosingLines) /\ Len(s) = n + 1
       /\ \A i \in 1..(n + 1) : s[i] = IF i <= n THEN named[i] ELSE <<line>>[i - n]
  BY <1>8, <1>9, ConcatProperties
<1>11. s # <<>>  BY <1>1, <1>10, EmptySeq
<1> HIDE DEF s
<1>12. ASSUME NEW i \in 1..Len(s), s[i].kind = "trailer" PROVE Counts(s[i])
  <2>1. CASE i <= n
    <3>1. i \in 1..n /\ s[i] = named[i]  BY <1>1, <1>10, <2>1
    <3>2. QED  BY <1>6, <1>12, <3>1
  <2>2. CASE ~(i <= n)
    <3>1. i - n = 1 /\ s[i] = <<line>>[i - n]  BY <1>1, <1>10, <2>2
    <3>2. s[i] = line  BY <1>9, <3>1
    <3>3. QED  BY <1>7, <3>2
  <2>3. QED  BY <2>1, <2>2
<1>13. /\ s \in Seq(ClosingLines) /\ s # <<>>
       /\ \A i \in 1..Len(s) : s[i].kind = "trailer" => Counts(s[i])
  BY <1>10, <1>11, <1>12
<1>14. s = [i \in DOMAIN failed |-> [kind |-> "failed for", name |-> failed[i]]]
           \o <<[kind |-> "trailer",
                 successful |-> Cardinality(WithResult("SUCCESSFUL")),
                 failures |-> Len(failed), total |-> Cardinality(DOMAIN found)]>>
  BY <1>4 DEF s, named, line, n, F
<1>15. QED  BY <1>13, <1>14

(* A step of the verifier that prints nothing, as the parser's invariants see it. *)
Quiet ==
  /\ UNCHANGED <<run, found, printing, parser, outcome>>
  /\ Begun' = Begun
  /\ \A h \in Harnesses : (Announced(h)' <=> Announced(h)) /\ (Told(h)' <=> Told(h))
  /\ \A w \in Workers :
       /\ Reading(w)' <=> Reading(w)
       /\ Reading(w) => script'[w] = script[w] /\ job'[w] = job[w]
       /\ script'[w] # <<>> /\ Head(script'[w]).kind = "thread"
            => script'[w] = script[w] /\ job'[w] = job[w]

(* A worker that takes on a harness prints nothing of it yet. *)
LEMMA TakeOnIsQuiet ==
  ASSUME ToolType, Order, NEW w \in workers, NEW h \in Harnesses, TakeOn(w, h)
  PROVE  ToolType' /\ Shared' /\ Quiet
<1> DEFINE block == Block(w, h, found[h])
<1>1. /\ outcome = None /\ script[w] = <<>> /\ h \in waiting
      /\ waiting' = waiting \ {h} /\ job' = [job EXCEPT ![w] = h]
      /\ script' = [script EXCEPT ![w] = block]
      /\ UNCHANGED <<run, found, printing, log, parser, outcome>>
  BY DEF TakeOn
<1>2. /\ w \in Workers /\ workers \subseteq Workers /\ h \in DOMAIN found
      /\ job \in [Workers -> Harnesses \cup {None}] /\ script \in [Workers -> Seq(Lines)]
  BY <1>1 DEF ToolType, Workers
<1>3. block \in Seq(Lines) /\ block # <<>> /\ Head(block).kind = "harness"
  BY <1>2, BlockIsTyped
<1>4. /\ run' = run /\ found' = found /\ printing' = printing /\ log' = log
      /\ strict' = strict /\ whole' = whole /\ terse' = terse /\ workers' = workers
  BY <1>1 DEF run
<1> HIDE DEF block
<1>5. /\ job'[w] = h /\ script'[w] = block
      /\ \A v \in Workers : v # w => job'[v] = job[v] /\ script'[v] = script[v]
      /\ job' \in [Workers -> Harnesses \cup {None}] /\ script' \in [Workers -> Seq(Lines)]
  BY <1>1, <1>2, <1>3
<1>6. ToolType'
  BY <1>1, <1>4, <1>5 DEF ToolType
<1>7. log = "open"
  BY <1>1 DEF Order
<1>8. \A v \in Workers : job[v] # h
  <2>1. h # None  BY NoneAssumption
  <2>2. QED  BY <1>1, <2>1 DEF Order, Shared
<1>9. Shared'
  <2>1. ASSUME NEW v \in Workers PROVE Stage(v)'
    <3>1. CASE v = w
      <4>1. Working(w)'  BY <1>1, <1>2, <1>4, <1>5, <1>7 DEF Working
      <4>2. (script[w] = Block(w, job[w], found[job[w]]))'
        BY <1>4, <1>5 DEF block, Block, Body
      <4>3. Stage(w)'  BY <4>1, <4>2 DEF Stage, AtHarness
      <4>4. QED  BY <3>1, <4>3
    <3>2. CASE v # w
      <4>1. script'[v] = script[v] /\ job'[v] = job[v] /\ Stage(v)
        BY <1>5, <3>2 DEF Order, Shared
      <4>2. Working(v) => Working(v)'  BY <1>1, <1>4, <1>8, <4>1 DEF Working
      <4>3. AtHarness(v) => AtHarness(v)'
        BY <1>4, <4>1, <4>2 DEF AtHarness, Block, Body
      <4>4. AtThread(v) => AtThread(v)'  BY <1>4, <4>1, <4>2 DEF AtThread, Body
      <4>5. AtBody(v) => AtBody(v)'  BY <4>1, <4>2 DEF AtBody
      <4>6. AtClosing(v) => AtClosing(v)'  BY <1>4, <4>1 DEF AtClosing, Counts
      <4>7. QED  BY <4>1, <4>3, <4>4, <4>5, <4>6 DEF Stage
    <3>3. QED  BY <3>1, <3>2
  <2>2. ASSUME NEW v \in Workers, job'[v] # None
        PROVE  v \in workers' /\ job'[v] \in DOMAIN found' \ waiting'
    BY <1>1, <1>2, <1>4, <1>5, <1>8, <2>2 DEF Order, Shared
  <2>3. ASSUME NEW v \in Workers, NEW u \in Workers, job'[v] = job'[u], job'[v] # None
        PROVE  v = u
    BY <1>5, <1>8, <2>3 DEF Order, Shared
  <2>4. QED  BY <2>1, <2>2, <2>3 DEF Shared
<1>10. ~InBody(Head(block)) /\ Head(block).kind # "thread"  BY <1>3 DEF InBody
<1>11. Begun' = Begun
  <2>1. ASSUME NEW g \in DOMAIN found, g # h PROVE g \in Begun' <=> g \in Begun
    <3>1. \A v \in Workers :
            (job'[v] = g /\ script'[v] # <<>> => InBody(Head(script'[v])))
              <=> (job[v] = g /\ script[v] # <<>> => InBody(Head(script[v])))
      BY <1>1, <1>5, <2>1
    <3>2. QED  BY <1>1, <1>4, <2>1, <3>1 DEF Begun
  <2>2. h \notin Begun  BY <1>1 DEF Begun
  <2>3. h \notin Begun'  BY <1>2, <1>3, <1>5, <1>10 DEF Begun
  <2>4. QED  BY <1>4, <2>1, <2>2, <2>3 DEF Begun
<1>12. ASSUME NEW g \in Harnesses PROVE (Announced(g)' <=> Announced(g)) /\ (Told(g)' <=> Told(g))
  <2>1. CASE g = h
    <3>1. ~Announced(h) /\ ~Told(h)  BY <1>1 DEF Announced, Told
    <3>2. ~Announced(h)' /\ ~Told(h)'
      BY <1>3, <1>4, <1>5 DEF Announced, Told
    <3>3. QED  BY <2>1, <3>1, <3>2
  <2>2. CASE g # h
    <3>1. \A v \in workers :
            /\ (job'[v] = g /\ script'[v] # <<>> => Head(script'[v]).kind # "harness")
                 <=> (job[v] = g /\ script[v] # <<>> => Head(script[v]).kind # "harness")
            /\ (job'[v] = g => script'[v] = <<>>) <=> (job[v] = g => script[v] = <<>>)
      BY <1>1, <1>2, <1>5, <2>2
    <3>2. g \in DOMAIN found' \ waiting' <=> g \in DOMAIN found \ waiting
      BY <1>1, <1>4, <2>2
    <3>3. QED  BY <1>4, <3>1, <3>2 DEF Announced, Told
  <2>3. QED  BY <2>1, <2>2
<1>13. ASSUME NEW v \in Workers
       PROVE  /\ Reading(v)' <=> Reading(v)
              /\ Reading(v) => script'[v] = script[v] /\ job'[v] = job[v]
              /\ script'[v] # <<>> /\ Head(script'[v]).kind = "thread"
                   => script'[v] = script[v] /\ job'[v] = job[v]
  BY <1>1, <1>3, <1>5, <1>10 DEF Reading
<1>14. UNCHANGED <<run, found, printing, parser, outcome>>  BY <1>1
<1>15. Quiet  BY <1>11, <1>12, <1>13, <1>14 DEF Quiet
<1>16. QED  BY <1>6, <1>9, <1>15

(* The closing lines are no part of a body. *)
LEMMA CloseIsQuiet ==
  ASSUME ToolType, Order, Close
  PROVE  ToolType' /\ Shared' /\ Quiet /\ log' = "closing" /\ waiting' = {} /\ job'[Main] = None
<1>1. /\ log = "open" /\ waiting = {} /\ \A w \in workers : script[w] = <<>>
      /\ log' = "closing" /\ job' = [job EXCEPT ![Main] = None] /\ waiting' = waiting
      /\ UNCHANGED <<run, found, waiting, printing, parser, outcome>>
  BY DEF Close
<1>2. PICK failed \in SetToSeqs(WithResult("FAILED")) :
        script' = [script EXCEPT ![Main] =
          [i \in DOMAIN failed |-> [kind |-> "failed for", name |-> failed[i]]]
          \o <<[kind |-> "trailer", successful |-> Cardinality(WithResult("SUCCESSFUL")),
                failures |-> Len(failed), total |-> Cardinality(DOMAIN found)]>>]
  BY DEF Close
<1> DEFINE s == [i \in DOMAIN failed |-> [kind |-> "failed for", name |-> failed[i]]]
                \o <<[kind |-> "trailer", successful |-> Cardinality(WithResult("SUCCESSFUL")),
                      failures |-> Len(failed), total |-> Cardinality(DOMAIN found)]>>
<1>3. /\ s \in Seq(ClosingLines) /\ s # <<>>
      /\ \A i \in 1..Len(s) : s[i].kind = "trailer" => Counts(s[i])
  BY ClosingIsTyped
<1>4. script' = [script EXCEPT ![Main] = s]  BY <1>2
<1> HIDE DEF s
<1>5. s \in Seq(Lines)
  <2>1. ClosingLines \subseteq Lines  BY DEF Lines
  <2>2. QED  BY <1>3, <2>1, SeqMonotonic
<1>6. /\ Main \in Workers /\ workers \subseteq Workers
      /\ job \in [Workers -> Harnesses \cup {None}] /\ script \in [Workers -> Seq(Lines)]
  BY DEF ToolType, Workers
<1>7. /\ found' = found /\ printing' = printing
      /\ strict' = strict /\ whole' = whole /\ terse' = terse /\ workers' = workers
  BY <1>1 DEF run
<1>8. /\ job'[Main] = None /\ script'[Main] = s
      /\ \A v \in Workers : v # Main => job'[v] = job[v] /\ script'[v] = script[v]
      /\ job' \in [Workers -> Harnesses \cup {None}] /\ script' \in [Workers -> Seq(Lines)]
  BY <1>1, <1>4, <1>5, <1>6
<1>9. ToolType'  BY <1>1, <1>7, <1>8 DEF ToolType
<1>10. \A v \in Workers : script[v] = <<>>
  BY <1>1 DEF Order, Shared, Stage, AtHarness, AtThread, AtBody, AtClosing, Working
<1>11. Shared'
  <2>1. Stage(Main)'  BY <1>1, <1>3, <1>7, <1>8 DEF Stage, AtClosing, Counts
  <2>2. ASSUME NEW v \in Workers PROVE Stage(v)'
    BY <1>8, <1>10, <2>1 DEF Stage
  <2>3. ASSUME NEW v \in Workers, job'[v] # None
        PROVE  v \in workers' /\ job'[v] \in DOMAIN found' \ waiting'
    BY <1>1, <1>7, <1>8, <2>3 DEF Order, Shared
  <2>4. ASSUME NEW v \in Workers, NEW u \in Workers, job'[v] = job'[u], job'[v] # None
        PROVE  v = u
    BY <1>8, <2>4 DEF Order, Shared
  <2>5. QED  BY <2>2, <2>3, <2>4 DEF Shared
<1>12. ~InBody(Head(s)) /\ Head(s).kind # "thread"
  <2>1. Head(s) \in ClosingLines  BY <1>3, HeadFirst
  <2>2. QED  BY <2>1, BodyLineKinds DEF InBody
<1>13. \A g \in Harnesses : g # None  BY NoneAssumption
<1>14. DOMAIN found \subseteq Harnesses  BY FoundIsTyped
<1>15. Begun' = Begun
  <2>1. ASSUME NEW g \in DOMAIN found PROVE g \in Begun' <=> g \in Begun
    <3>1. \A v \in Workers :
            (job'[v] = g /\ script'[v] # <<>> => InBody(Head(script'[v])))
              <=> (job[v] = g /\ script[v] # <<>> => InBody(Head(script[v])))
      BY <1>8, <1>10, <1>13, <1>14
    <3>2. QED  BY <1>1, <1>7, <3>1 DEF Begun
  <2>2. QED  BY <1>7, <2>1 DEF Begun
<1>16. ASSUME NEW g \in Harnesses
       PROVE  (Announced(g)' <=> Announced(g)) /\ (Told(g)' <=> Told(g))
  <2>1. \A v \in workers :
          /\ (job'[v] = g /\ script'[v] # <<>> => Head(script'[v]).kind # "harness")
               <=> (job[v] = g /\ script[v] # <<>> => Head(script[v]).kind # "harness")
          /\ (job'[v] = g => script'[v] = <<>>) <=> (job[v] = g => script[v] = <<>>)
    BY <1>6, <1>8, <1>10, <1>13
  <2>2. QED  BY <1>1, <1>7, <2>1 DEF Announced, Told
<1>17. ASSUME NEW v \in Workers
       PROVE  /\ Reading(v)' <=> Reading(v)
              /\ Reading(v) => script'[v] = script[v] /\ job'[v] = job[v]
              /\ script'[v] # <<>> /\ Head(script'[v]).kind = "thread"
                   => script'[v] = script[v] /\ job'[v] = job[v]
  BY <1>8, <1>10, <1>12 DEF Reading
<1>18. UNCHANGED <<run, found, printing, parser, outcome>>  BY <1>1
<1>19. Quiet  BY <1>15, <1>16, <1>17, <1>18 DEF Quiet
<1>20. QED  BY <1>1, <1>8, <1>9, <1>11, <1>19

(* The next line of w is the last before a body. *)
Begins(w) == AtThread(w) \/ (AtHarness(w) /\ w = Main)

(* Printing a line takes it off the script, and what is left begins like this. *)
LEMMA EmitLeaves ==
  ASSUME ToolType, Order, NEW w \in Workers, Emit(w, Head(script[w]))
  PROVE  /\ script[w] # <<>> /\ script'[w] = Tail(script[w]) /\ Tail(script[w]) \in Seq(Lines)
         /\ \A v \in Workers \ {w} : script'[v] = script[v]
         /\ script' \in [Workers -> Seq(Lines)]
         /\ UNCHANGED <<run, found, waiting, job, log>>
         /\ UNCHANGED <<strict, whole, terse, workers>>
<1>1. /\ script[w] # <<>> /\ script' = [script EXCEPT ![w] = Tail(@)]
      /\ UNCHANGED <<run, found, waiting, job, log>>
  BY DEF Emit
<1>2. script \in [Workers -> Seq(Lines)]  BY DEF ToolType
<1>3. Tail(script[w]) \in Seq(Lines)
  <2>1. script[w] \in Seq(Lines)  BY <1>2
  <2>2. QED  BY <1>1, <2>1, HeadFirst
<1>4. /\ script'[w] = Tail(script[w])
      /\ \A v \in Workers \ {w} : script'[v] = script[v]
      /\ script' \in [Workers -> Seq(Lines)]
  BY <1>1, <1>2, <1>3
<1>5. QED  BY <1>1, <1>3, <1>4 DEF run

(* Where the worker is then. *)
LEMMA EmitMoves ==
  ASSUME ToolType, Order, NEW w \in Workers, Emit(w, Head(script[w]))
  PROVE  /\ AtHarness(w) => /\ (IF w = Main THEN AtBody(w) ELSE AtThread(w))'
                            /\ Tail(script[w]) = Rest(w, found[job[w]])
                            /\ Reading(w)' <=> w = Main
         /\ AtThread(w) => /\ AtBody(w)' /\ Tail(script[w]) = Body(found[job[w]])
                           /\ Reading(w)'
         /\ AtBody(w) => /\ Tail(script[w]) # <<>> => AtBody(w)'
                         /\ Reading(w)' <=> Tail(script[w]) # <<>>
         /\ AtClosing(w) => Stage(w)' /\ ~Reading(w)'
<1>1. /\ script[w] # <<>> /\ script'[w] = Tail(script[w])
      /\ UNCHANGED <<found, waiting, job, log>> /\ UNCHANGED <<strict, whole, terse, workers>>
  BY EmitLeaves
<1>2. Working(w) => Working(w)'  BY <1>1 DEF Working
<1>3. ASSUME AtHarness(w)
      PROVE  /\ (IF w = Main THEN AtBody(w) ELSE AtThread(w))'
             /\ Tail(script[w]) = Rest(w, found[job[w]])
             /\ Reading(w)' <=> w = Main
  <2> DEFINE r == found[job[w]]
  <2>1. r \in Reports /\ Working(w)  BY <1>3, FoundIsTyped DEF AtHarness, Working
  <2>2. Tail(script[w]) = Rest(w, r)  BY <1>3, HarnessFirst
  <2>3. BodyLike(Body(r))  BY <2>1, BodyLeads
  <2>4. /\ Rest(w, r) # <<>>
        /\ w = Main => Rest(w, r) = Body(r) /\ InBody(Head(Rest(w, r)))
        /\ w # Main => /\ Rest(w, r) = <<[kind |-> "thread", worker |-> w]>> \o Body(r)
                       /\ Head(Rest(w, r)).kind = "thread"
    <3> HIDE DEF r
    <3>1. QED  BY <2>1, RestFirst
  <2>5. Body(r)' = Body(r)  BY <1>1 DEF Body
  <2>6. w = Main => AtBody(w)'  BY <1>1, <1>2, <2>1, <2>2, <2>3, <2>4 DEF AtBody
  <2>7. w # Main => AtThread(w)'
    BY <1>1, <1>2, <2>1, <2>2, <2>4, <2>5 DEF AtThread
  <2>8. Reading(w)' <=> w = Main  BY <1>1, <2>2, <2>4 DEF Reading, InBody
  <2>9. QED  BY <2>2, <2>6, <2>7, <2>8
<1>4. ASSUME AtThread(w)
      PROVE  AtBody(w)' /\ Tail(script[w]) = Body(found[job[w]]) /\ Reading(w)'
  <2>1. found[job[w]] \in Reports /\ Working(w)
    BY <1>4, FoundIsTyped DEF AtThread, Working
  <2>2. Tail(script[w]) = Body(found[job[w]])  BY <1>4, ThreadFirst
  <2>3. BodyLike(Body(found[job[w]]))  BY <2>1, BodyLeads
  <2>4. AtBody(w)'  BY <1>1, <1>2, <2>1, <2>2, <2>3 DEF AtBody
  <2>5. Reading(w)'  BY <1>1, <2>2, <2>3, BodyFirst DEF Reading
  <2>6. QED  BY <2>2, <2>4, <2>5
<1>5. ASSUME AtBody(w)
      PROVE  /\ Tail(script[w]) # <<>> => AtBody(w)'
             /\ Reading(w)' <=> Tail(script[w]) # <<>>
  <2>1. BodyLike(script[w]) /\ Working(w)  BY <1>5 DEF AtBody
  <2>2. Tail(script[w]) # <<>> => BodyLike(Tail(script[w]))  BY <2>1, BodyFirst
  <2>3. Tail(script[w]) # <<>> => AtBody(w)'  BY <1>1, <1>2, <2>1, <2>2 DEF AtBody
  <2>4. Reading(w)' <=> Tail(script[w]) # <<>>
    BY <1>1, <2>2, BodyFirst DEF Reading
  <2>5. QED  BY <2>3, <2>4
<1>6. ASSUME AtClosing(w) PROVE Stage(w)' /\ ~Reading(w)'
  <2>1. /\ Tail(script[w]) \in Seq(ClosingLines)
        /\ \A i \in 1..Len(Tail(script[w])) :
             Tail(script[w])[i].kind = "trailer" => Counts(Tail(script[w])[i])
    BY <1>6, ClosingFirst
  <2>2. script'[w] # <<>> => AtClosing(w)'
    BY <1>1, <1>6, <2>1 DEF AtClosing, Counts
  <2>3. ~Reading(w)'
    <3>1. ASSUME script'[w] # <<>> PROVE Head(script'[w]) \in ClosingLines
      BY <1>1, <2>1, <3>1, HeadFirst
    <3>2. QED  BY <3>1, BodyLineKinds DEF Reading, InBody
  <2>4. QED  BY <2>2, <2>3 DEF Stage
<1>7. QED  BY <1>3, <1>4, <1>5, <1>6

(* The verifier's own bookkeeping survives. *)
LEMMA EmitShares ==
  ASSUME ToolType, Order, NEW w \in Workers, Emit(w, Head(script[w]))
  PROVE  ToolType' /\ Shared'
<1>1. /\ script[w] # <<>> /\ script'[w] = Tail(script[w])
      /\ \A v \in Workers \ {w} : script'[v] = script[v]
      /\ script' \in [Workers -> Seq(Lines)]
      /\ UNCHANGED <<found, waiting, job, log>> /\ UNCHANGED <<strict, whole, terse, workers>>
  BY EmitLeaves
<1>2. printing' \in Workers \cup {None}  BY DEF Emit
<1>3. ToolType'  BY <1>1, <1>2 DEF ToolType
<1>4. ASSUME NEW v \in Workers PROVE Stage(v)'
  <2>1. Stage(v)  BY DEF Order, Shared
  <2>2. CASE v = w
    <3>1. AtHarness(w) => Stage(w)'
      BY EmitMoves DEF Stage
    <3>2. AtThread(w) => Stage(w)'  BY EmitMoves DEF Stage
    <3>3. AtBody(w) => Stage(w)'  BY <1>1, EmitMoves DEF Stage
    <3>4. AtClosing(w) => Stage(w)'  BY EmitMoves
    <3>5. QED  BY <1>1, <2>1, <2>2, <3>1, <3>2, <3>3, <3>4 DEF Stage
  <2>3. CASE v # w
    <3>1. script'[v] = script[v] /\ job'[v] = job[v]  BY <1>1, <2>3
    <3>2. Working(v) => Working(v)'  BY <1>1 DEF Working
    <3>3. AtHarness(v) => AtHarness(v)'
      BY <1>1, <3>1, <3>2 DEF AtHarness, Block, Body
    <3>4. AtThread(v) => AtThread(v)'  BY <1>1, <3>1, <3>2 DEF AtThread, Body
    <3>5. AtBody(v) => AtBody(v)'  BY <3>1, <3>2 DEF AtBody
    <3>6. AtClosing(v) => AtClosing(v)'  BY <1>1, <3>1 DEF AtClosing, Counts
    <3>7. QED  BY <2>1, <3>1, <3>3, <3>4, <3>5, <3>6 DEF Stage
  <2>4. QED  BY <2>2, <2>3
<1>5. QED  BY <1>1, <1>3, <1>4 DEF Order, Shared

(* What has begun, been announced or been told once the line is out. *)
LEMMA EmitTells ==
  ASSUME ToolType, Order, NEW w \in Workers, Emit(w, Head(script[w]))
  PROVE  /\ Begun' = IF Begins(w) THEN Begun \cup {job[w]} ELSE Begun
         /\ Begins(w) => job[w] \in Harnesses \ Begun
         /\ \A h \in Harnesses :
              /\ Announced(h)' <=> Announced(h) \/ (AtHarness(w) /\ h = job[w])
              /\ Told(h)' <=> Told(h) \/ (AtBody(w) /\ Tail(script[w]) = <<>> /\ h = job[w])
         /\ AtHarness(w) => ~Announced(job[w])
<1>1. /\ script[w] # <<>> /\ script'[w] = Tail(script[w])
      /\ \A v \in Workers \ {w} : script'[v] = script[v]
      /\ UNCHANGED <<found, waiting, job, log>> /\ UNCHANGED <<strict, whole, terse, workers>>
  BY EmitLeaves
<1>2. /\ \A h \in Harnesses : h # None
      /\ \A v, u \in Workers : job[v] = job[u] /\ job[v] # None => v = u
      /\ Shared /\ workers \subseteq Workers
  BY NoneAssumption DEF Order, Shared, ToolType, Workers
<1>3. DOMAIN found \subseteq Harnesses  BY FoundIsTyped
<1>4. AtHarness(w) \/ AtThread(w) \/ AtBody(w) \/ AtClosing(w)
  BY <1>1, <1>2 DEF Shared, Stage
<1>5. AtHarness(w) \/ AtThread(w) \/ AtBody(w) =>
        w \in workers /\ job[w] \in DOMAIN found \ waiting
  BY DEF AtHarness, AtThread, AtBody, Working
<1>6. AtClosing(w) => job[w] = None  BY DEF Order, AtClosing
<1>7. /\ Head(script[w]).kind = "harness" <=> AtHarness(w)
      /\ Head(script[w]).kind = "thread" <=> AtThread(w)
      /\ InBody(Head(script[w])) <=> AtBody(w)
  BY <1>1, <1>2, HeadTells
<1>8. ASSUME NEW h \in Harnesses, h # job[w]
      PROVE  /\ h \in Begun' <=> h \in Begun
             /\ Announced(h)' <=> Announced(h)
             /\ Told(h)' <=> Told(h)
  <2>1. \A v \in Workers :
          /\ (job'[v] = h /\ script'[v] # <<>> => InBody(Head(script'[v])))
               <=> (job[v] = h /\ script[v] # <<>> => InBody(Head(script[v])))
          /\ (job'[v] = h /\ script'[v] # <<>> => Head(script'[v]).kind # "harness")
               <=> (job[v] = h /\ script[v] # <<>> => Head(script[v]).kind # "harness")
          /\ (job'[v] = h => script'[v] = <<>>) <=> (job[v] = h => script[v] = <<>>)
    BY <1>1, <1>8
  <2>2. h \in Begun' <=> h \in Begun  BY <1>1, <2>1 DEF Begun
  <2>3. Announced(h)' <=> Announced(h)  BY <1>1, <1>2, <2>1 DEF Announced
  <2>4. Told(h)' <=> Told(h)  BY <1>1, <1>2, <2>1 DEF Told
  <2>5. QED  BY <2>2, <2>3, <2>4
<1>9. ASSUME ~AtClosing(w)
      PROVE  /\ job[w] \in Begun' <=> Reading(w)' \/ script'[w] = <<>>
             /\ job[w] \in Begun <=> AtBody(w)
             /\ Announced(job[w])' <=> (script'[w] # <<>> => Head(script'[w]).kind # "harness")
             /\ Announced(job[w]) <=> ~AtHarness(w)
             /\ Told(job[w])' <=> script'[w] = <<>>
             /\ ~Told(job[w])
  <2> DEFINE h == job[w]
  <2>1. h \in DOMAIN found \ waiting /\ w \in workers /\ h # None  BY <1>2, <1>3, <1>4, <1>5, <1>9
  <2>2. \A v \in Workers : job[v] = h <=> v = w  BY <1>2, <2>1
  <2>3. h \in Begun' <=> Reading(w)' \/ script'[w] = <<>>
    BY <1>1, <2>1, <2>2 DEF Begun, Reading
  <2>4. h \in Begun <=> AtBody(w)  BY <1>1, <1>7, <2>1, <2>2 DEF Begun
  <2>5. Announced(h)' <=> (script'[w] # <<>> => Head(script'[w]).kind # "harness")
    BY <1>1, <1>2, <2>1, <2>2 DEF Announced
  <2>6. Announced(h) <=> ~AtHarness(w)  BY <1>1, <1>2, <1>7, <2>1, <2>2 DEF Announced
  <2>7. Told(h)' <=> script'[w] = <<>>  BY <1>1, <1>2, <2>1, <2>2 DEF Told
  <2>8. ~Told(h)  BY <1>1, <2>1 DEF Told
  <2>9. QED  BY <2>3, <2>4, <2>5, <2>6, <2>7, <2>8
<1>10. Shared' /\ ToolType'  BY EmitShares
<1>11. CASE AtHarness(w)
  <2>1. ~AtClosing(w) /\ ~AtBody(w) /\ ~AtThread(w)
    BY <1>7, <1>11 DEF AtClosing, AtHarness, Working, InBody
  <2>2. Reading(w)' <=> w = Main  BY <1>11, EmitMoves
  <2>3. script'[w] # <<>> /\ Head(script'[w]).kind # "harness"
    <3>1. script'[w] = Rest(w, found[job[w]])  BY <1>1, <1>11, EmitMoves
    <3>2. found[job[w]] \in Reports  BY <1>5, <1>11, FoundIsTyped
    <3> HIDE DEF Rest
    <3>3. QED  BY <3>1, <3>2, RestFirst DEF InBody
  <2>4. QED  BY <1>1, <1>3, <1>5, <1>8, <1>9, <1>11, <2>1, <2>2, <2>3 DEF Begins, Begun
<1>12. CASE AtThread(w)
  <2>1. ~AtClosing(w) /\ ~AtBody(w) /\ ~AtHarness(w)
    BY <1>7, <1>12 DEF AtClosing, AtThread, Working, InBody
  <2>2. Reading(w)'  BY <1>12, EmitMoves
  <2>3. script'[w] # <<>> /\ Head(script'[w]).kind # "harness"  BY <2>2 DEF Reading, InBody
  <2>4. QED  BY <1>1, <1>3, <1>5, <1>8, <1>9, <1>12, <2>1, <2>2, <2>3 DEF Begins, Begun
<1>13. CASE AtBody(w)
  <2>1. ~AtClosing(w) /\ ~AtThread(w) /\ ~AtHarness(w)
    BY <1>7, <1>13 DEF AtClosing, AtBody, Working, InBody
  <2>2. Reading(w)' <=> script'[w] # <<>>  BY <1>1, <1>13, EmitMoves
  <2>3. Reading(w)' => Head(script'[w]).kind # "harness"  BY DEF Reading, InBody
  <2>4. QED  BY <1>1, <1>3, <1>5, <1>8, <1>9, <1>13, <2>1, <2>2, <2>3 DEF Begins, Begun
<1>14. CASE AtClosing(w)
  <2>1. ~AtThread(w) /\ ~AtHarness(w) /\ ~AtBody(w)
    BY <1>14 DEF AtClosing, AtHarness, AtThread, AtBody, Working
  <2>2. job[w] \notin Harnesses  BY <1>2, <1>6, <1>14
  <2>3. Begun' = Begun  BY <1>1, <1>3, <1>8, <2>2 DEF Begun
  <2>4. QED  BY <1>8, <2>1, <2>2, <2>3 DEF Begins
<1>15. QED  BY <1>4, <1>11, <1>12, <1>13, <1>14

-------------------------------------------------------------------------------
(* The parser's side: what a line does *)

(* A block is edited but for its result, and loses no check. *)
Edits ==
  \/ blocks' = blocks
  \/ \E h \in Known, c \in Blocks :
       /\ blocks' = [blocks EXCEPT ![h] = c]
       /\ c.result = blocks[h].result /\ DOMAIN blocks[h].checks \subseteq DOMAIN c.checks

(* With nothing open, the kind of the line tells who reads it. *)
LEMMA ReadBy ==
  ASSUME NEW line, Read(line), buffer = NoBuffer
  PROVE  /\ line.kind = "harness" => ReadHarness(line)
         /\ line.kind = "thread" => ReadThread(line)
         /\ line.kind \in {"section", "check", "covers", "summary", "failed check", "verdict"}
              /\ current = None => Refuse
         /\ current # None =>
              /\ line.kind = "check" => ReadCheck(line)
              /\ line.kind \in {"summary", "covers"} => ReadSummary(line)
              /\ line.kind = "failed check" => ReadFailedCheck(line)
              /\ line.kind = "verdict" => ReadVerdict(line)
              /\ line.kind = "section" => UNCHANGED <<parser, outcome>>
         /\ line.kind = "status" => ReadStatus(line)
         /\ line.kind = "description" => ReadText(line)
         /\ line.kind \in {"failed for", "trailer"} => ReadClosing(line)
         /\ line.kind \in {"end of description", "file", "blank"} => UNCHANGED <<parser, outcome>>
<1>1. buffer.of # "description" /\ buffer.of # "message"  BY DEF NoBuffer
<1>2. ~ReadDescription(line) /\ ~ReadMessage(line)  BY <1>1 DEF ReadDescription, ReadMessage
<1>3. /\ ReadHarness(line) => line.kind = "harness"
      /\ ReadThread(line) => line.kind = "thread"
      /\ ReadStray(line) => /\ Refuse /\ current = None
                            /\ line.kind \in {"section", "check", "covers", "summary",
                                              "failed check", "verdict"}
      /\ ReadCheck(line) => line.kind = "check" /\ current # None
      /\ ReadStatus(line) => line.kind = "status"
      /\ ReadText(line) => line.kind = "description"
      /\ ReadSummary(line) => line.kind \in {"summary", "covers"} /\ current # None
      /\ ReadFailedCheck(line) => line.kind = "failed check" /\ current # None
      /\ ReadVerdict(line) => line.kind = "verdict" /\ current # None
      /\ ReadClosing(line) => line.kind \in {"failed for", "trailer"}
      /\ ReadOther(line) => /\ UNCHANGED <<parser, outcome>>
                            /\ \/ line.kind \in {"end of description", "file", "blank"}
                               \/ line.kind = "section" /\ current # None
  BY DEF Is, ReadHarness, ReadThread, ReadStray, ReadCheck, ReadStatus, ReadText, ReadSummary,
         ReadFailedCheck, ReadVerdict, ReadClosing, ReadOther
<1>4. QED  BY <1>2, <1>3 DEF Read

(* A line that falls into an open description or message is part of it. *)
LEMMA Swallowed ==
  ASSUME NEW line, Read(line), buffer # NoBuffer
  PROVE  ReadDescription(line) \/ ReadMessage(line)
BY DEF Read, Is, ReadHarness, ReadThread, ReadStray, ReadCheck, ReadStatus, ReadText, ReadSummary,
       ReadFailedCheck, ReadVerdict, ReadClosing, ReadOther

(* The fields of a line have their types. *)
LEMMA LineFields ==
  ASSUME NEW line \in Lines
  PROVE  /\ line.kind = "harness" => line.worker \in Workers /\ line.name \in Harnesses
         /\ line.kind = "thread" => line.worker \in Threads
         /\ line.kind = "check" => line.id \in Ids
         /\ line.kind = "status" => line.status \in Answers
         /\ line.kind = "description" => line.text \in Texts
         /\ line.kind = "failed check" => line.text \in Texts
         /\ line.kind = "summary" => line.failed \in Nat
         /\ line.kind = "covers" => line.satisfied \in Nat /\ line.total \in Nat
         /\ line.kind = "verdict" => /\ line.result \in {"SUCCESSFUL", "FAILED"}
                                     /\ line.panics \in BOOLEAN
         /\ line.kind = "failed for" => line.name \in Harnesses
BY DEF Lines, HarnessLines, ThreadLines, BodyLines, VerdictLines, ClosingLines

(* A check of a block is edited in place. *)
LEMMA CheckEdited ==
  ASSUME NEW b \in Blocks, NEW n \in DOMAIN b.checks, NEW x \in Answers, NEW y \in Texts
  PROVE  /\ [b EXCEPT !.checks[n].status = x] \in Blocks
         /\ [b EXCEPT !.checks[n].status = x].result = b.result
         /\ DOMAIN [b EXCEPT !.checks[n].status = x].checks = DOMAIN b.checks
         /\ [b EXCEPT !.checks[n].text = y] \in Blocks
         /\ [b EXCEPT !.checks[n].text = y].result = b.result
         /\ DOMAIN [b EXCEPT !.checks[n].text = y].checks = DOMAIN b.checks
<1> DEFINE cs == b.checks
           c1 == [cs[n] EXCEPT !.status = x]
           c2 == [cs[n] EXCEPT !.text = y]
           s1 == [cs EXCEPT ![n] = c1]
           s2 == [cs EXCEPT ![n] = c2]
<1>1. cs \in Seq(ReadChecks)  BY DEF Blocks
<1>2. n \in 1..Len(cs)  BY <1>1, LenProperties
<1>3. cs[n] \in ReadChecks  BY <1>1, <1>2, ElementOfSeq
<1>4. c1 \in ReadChecks /\ c2 \in ReadChecks
  <2> DEFINE c == cs[n]
  <2>1. c \in [id : Ids, text : Texts, status : Answers \cup {None}]  BY <1>3 DEF ReadChecks
  <2> HIDE DEF c
  <2>2. [c EXCEPT !.status = x] \in ReadChecks  BY <2>1 DEF ReadChecks
  <2>3. [c EXCEPT !.text = y] \in ReadChecks  BY <2>1 DEF ReadChecks
  <2>4. QED  BY <2>2, <2>3 DEF c
<1> HIDE DEF c1, c2
<1>5. s1 \in Seq(ReadChecks) /\ s2 \in Seq(ReadChecks) /\ Len(s1) = Len(cs) /\ Len(s2) = Len(cs)
  BY <1>1, <1>2, <1>4, ExceptSeq
<1>6. DOMAIN s1 = DOMAIN cs /\ DOMAIN s2 = DOMAIN cs  OBVIOUS
<1> HIDE DEF s1, s2
<1>7. /\ [b EXCEPT !.checks = s1] \in Blocks /\ [b EXCEPT !.checks = s1].result = b.result
      /\ [b EXCEPT !.checks = s1].checks = s1
  BY <1>5 DEF Blocks
<1>8. /\ [b EXCEPT !.checks = s2] \in Blocks /\ [b EXCEPT !.checks = s2].result = b.result
      /\ [b EXCEPT !.checks = s2].checks = s2
  BY <1>5 DEF Blocks
<1>9. [b EXCEPT !.checks = s1] = [b EXCEPT !.checks[n].status = x]
  BY DEF s1, c1
<1>10. [b EXCEPT !.checks = s2] = [b EXCEPT !.checks[n].text = y]
  BY DEF s2, c2
<1>11. QED  BY <1>6, <1>7, <1>8, <1>9, <1>10

(* A block gains a check. *)
LEMMA CheckAdded ==
  ASSUME NEW b \in Blocks, NEW id \in Ids
  PROVE  LET c == [b EXCEPT !.checks =
                     Append(@, [id |-> id, status |-> None, text |-> "plain"])]
         IN /\ c \in Blocks /\ c.result = b.result
            /\ DOMAIN b.checks \subseteq DOMAIN c.checks
            /\ Len(b.checks) + 1 \in DOMAIN c.checks /\ Len(b.checks) + 1 \in Nat
<1> DEFINE e == [id |-> id, status |-> None, text |-> "plain"]
           s == Append(b.checks, e)
           c == [b EXCEPT !.checks = s]
<1>1. b.checks \in Seq(ReadChecks)  BY DEF Blocks
<1>2. e \in ReadChecks  BY DEF ReadChecks, Texts
<1> HIDE DEF e
<1>3. s \in Seq(ReadChecks) /\ Len(s) = Len(b.checks) + 1
  BY <1>1, <1>2, AppendProperties
<1>4. Len(b.checks) \in Nat /\ DOMAIN b.checks = 1..Len(b.checks)  BY <1>1, LenProperties
<1>5. DOMAIN s = 1..Len(s)  BY <1>3, LenProperties
<1> HIDE DEF s
<1>6. c \in Blocks /\ c.result = b.result /\ c.checks = s  BY <1>3 DEF Blocks
<1>7. /\ DOMAIN b.checks \subseteq DOMAIN s /\ Len(b.checks) + 1 \in DOMAIN s
      /\ Len(b.checks) + 1 \in Nat
  BY <1>3, <1>4, <1>5
<1> HIDE DEF c
<1>8. QED  BY <1>6, <1>7 DEF c, s, e

(* A block gains a message. *)
LEMMA MessageAdded ==
  ASSUME NEW b \in Blocks, NEW text \in Texts
  PROVE  LET c == [b EXCEPT !.messages = Append(@, text)]
         IN c \in Blocks /\ c.result = b.result /\ c.checks = b.checks
<1>1. b.messages \in Seq(Texts)  BY DEF Blocks
<1>2. Append(b.messages, text) \in Seq(Texts)  BY <1>1, AppendProperties
<1>3. QED  BY <1>2 DEF Blocks

(* A block gains a summary. *)
LEMMA SummarySet ==
  ASSUME NEW b \in Blocks, NEW n \in Nat
  PROVE  LET c == [b EXCEPT !.failed = n]
         IN c \in Blocks /\ c.result = b.result /\ c.checks = b.checks
BY DEF Blocks

(* A block gains the counts of its covers. *)
LEMMA CoversSet ==
  ASSUME NEW b \in Blocks, NEW n \in Nat, NEW k \in Nat
  PROVE  LET c == [b EXCEPT !.covers = [satisfied |-> n, total |-> k]]
         IN c \in Blocks /\ c.result = b.result /\ c.checks = b.checks
BY DEF Blocks

(* A block gains its verdict. *)
Judged(b, line) == [b EXCEPT !.result = line.result, !.panics = line.panics]

(* The verdict is all that changes. *)
LEMMA VerdictSet ==
  ASSUME NEW b \in Blocks, NEW line,
         line.result \in {"SUCCESSFUL", "FAILED"}, line.panics \in BOOLEAN
  PROVE  LET c == Judged(b, line)
         IN c \in Blocks /\ c.result = line.result /\ c.checks = b.checks
BY DEF Blocks, Judged

(* The harnesses whose block has a verdict; is a block being read? *)
Having == {h \in Known : blocks[h].result # None}

Busy == IF current = None THEN 0 ELSE 1

(* What the types say of the blocks and of what refers to them. *)
LEMMA BlocksAreTyped ==
  ASSUME TypeOK, ReadType
  PROVE  /\ Known \subseteq Harnesses
         /\ \A h \in Known : blocks[h] \in Blocks
         /\ current # None => current \in Known
         /\ pending # None => /\ pending.name \in Known /\ pending.number \in Nat
                              /\ pending.number \in DOMAIN blocks[pending.name].checks
         /\ buffer.of = "description" => buffer = [of |-> "description", text |-> buffer.text]
         /\ buffer.of = "message" => buffer = [of |-> "message", text |-> buffer.text]
         /\ buffer # NoBuffer => buffer.text \in Texts /\ buffer.of \in {"description", "message"}
BY DEF TypeOK, ReadType, Known, NoBuffer

(* An edit leaves the blocks that there are, and their verdicts. *)
LEMMA EditsKeep ==
  ASSUME TypeOK, Edits
  PROVE  /\ blocks' \in [Harnesses -> Blocks \cup {None}]
         /\ Known' = Known /\ Having' = Having
         /\ \A h \in Known : /\ blocks'[h].result = blocks[h].result
                             /\ DOMAIN blocks[h].checks \subseteq DOMAIN blocks'[h].checks
<1>1. blocks \in [Harnesses -> Blocks \cup {None}] /\ None \notin Blocks
  BY NoneAssumption DEF TypeOK
<1>2. CASE blocks' = blocks
  BY <1>1, <1>2 DEF Known, Having
<1>3. ASSUME NEW h \in Known, NEW c \in Blocks, blocks' = [blocks EXCEPT ![h] = c],
             c.result = blocks[h].result, DOMAIN blocks[h].checks \subseteq DOMAIN c.checks
      PROVE  /\ blocks' \in [Harnesses -> Blocks \cup {None}]
             /\ Known' = Known /\ Having' = Having
             /\ \A g \in Known : /\ blocks'[g].result = blocks[g].result
                                 /\ DOMAIN blocks[g].checks \subseteq DOMAIN blocks'[g].checks
  <2>1. h \in Harnesses  BY DEF Known
  <2>2. blocks' \in [Harnesses -> Blocks \cup {None}]  BY <1>1, <1>3, <2>1
  <2>3. blocks'[h] = c /\ \A g \in Harnesses : g # h => blocks'[g] = blocks[g]
    BY <1>1, <1>3, <2>1
  <2>4. Known' = Known  BY <1>1, <1>3, <2>3 DEF Known
  <2>5. \A g \in Known : /\ blocks'[g].result = blocks[g].result
                         /\ DOMAIN blocks[g].checks \subseteq DOMAIN blocks'[g].checks
    BY <1>3, <2>3 DEF Known
  <2>6. Having' = Having  BY <2>4, <2>5 DEF Having
  <2>7. QED  BY <2>2, <2>4, <2>5, <2>6
<1>4. QED  BY <1>2, <1>3 DEF Edits

(* What a line does that neither announces, names, judges nor closes, or that
   falls into an open description or message. *)
LEMMA BodyLineEdits ==
  ASSUME TypeOK, ReadType, NEW line \in Lines, Read(line),
         buffer # NoBuffer \/ (InBody(line) /\ line.kind # "verdict")
  PROVE  \/ Refuse
         \/ /\ Edits /\ UNCHANGED <<threadBlock, current, failedFor, trailer, outcome>>
            /\ buffer' \in {NoBuffer} \cup [of : {"description", "message"}, text : Texts]
            /\ \/ pending' = pending
               \/ /\ current \in Known
                  /\ \E n \in Nat : /\ pending' = [name |-> current, number |-> n]
                                    /\ n \in DOMAIN blocks'[current].checks
<1>1. /\ Known \subseteq Harnesses
      /\ \A h \in Known : blocks[h] \in Blocks
      /\ current # None => current \in Known
      /\ pending # None => /\ pending.name \in Known /\ pending.number \in Nat
                           /\ pending.number \in DOMAIN blocks[pending.name].checks
  BY BlocksAreTyped
<1>2. buffer # NoBuffer => buffer.text \in Texts /\ buffer.of \in {"description", "message"}
  BY BlocksAreTyped
<1>3. blocks \in [Harnesses -> Blocks \cup {None}]
      /\ buffer \in {NoBuffer} \cup [of : {"description", "message"}, text : Texts]
  BY DEF TypeOK
<1> DEFINE b == blocks[pending.name]
           n == pending.number
           d == blocks[current]
<1>4. ASSUME pending # None, NEW y \in Texts, NEW x \in Answers
      PROVE  /\ blocks' = [blocks EXCEPT ![pending.name].checks[n].text = y] => Edits
             /\ blocks' = [blocks EXCEPT ![pending.name].checks[n].status = x] => Edits
  <2>1. b \in Blocks /\ n \in DOMAIN b.checks /\ pending.name \in Known  BY <1>1, <1>4
  <2> DEFINE c1 == [b EXCEPT !.checks[n].status = x]
             c2 == [b EXCEPT !.checks[n].text = y]
  <2>2. /\ c1 \in Blocks /\ c1.result = b.result /\ DOMAIN c1.checks = DOMAIN b.checks
        /\ c2 \in Blocks /\ c2.result = b.result /\ DOMAIN c2.checks = DOMAIN b.checks
    <3> HIDE DEF b, n
    <3>1. QED  BY <2>1, CheckEdited
  <2>3. /\ [blocks EXCEPT ![pending.name].checks[n].status = x]
             = [blocks EXCEPT ![pending.name] = c1]
        /\ [blocks EXCEPT ![pending.name].checks[n].text = y]
             = [blocks EXCEPT ![pending.name] = c2]
    OBVIOUS
  <2> HIDE DEF c1, c2
  <2>4. QED  BY <2>1, <2>2, <2>3 DEF Edits
<1>5. ASSUME current # None
      PROVE  /\ \A text \in Texts :
                  blocks' = [blocks EXCEPT ![current].messages = Append(@, text)] => Edits
             /\ \A k \in Nat : blocks' = [blocks EXCEPT ![current].failed = k] => Edits
             /\ \A k, l \in Nat :
                  blocks' = [blocks EXCEPT ![current].covers =
                               [satisfied |-> k, total |-> l]] => Edits
             /\ \A id \in Ids :
                  blocks' = [blocks EXCEPT ![current].checks =
                               Append(@, [id |-> id, status |-> None, text |-> "plain"])]
                    => /\ Edits /\ Len(d.checks) + 1 \in Nat
                       /\ Len(d.checks) + 1 \in DOMAIN blocks'[current].checks
  <2>1. d \in Blocks /\ current \in Known /\ current \in Harnesses  BY <1>1, <1>5
  <2>2. ASSUME NEW text \in Texts,
               blocks' = [blocks EXCEPT ![current].messages = Append(@, text)]
        PROVE  Edits
    <3> DEFINE c == [d EXCEPT !.messages = Append(@, text)]
    <3>1. c \in Blocks /\ c.result = d.result /\ c.checks = d.checks
      <4> HIDE DEF d
      <4>1. QED  BY <2>1, <2>2, MessageAdded
    <3>2. blocks' = [blocks EXCEPT ![current] = c]  BY <2>2
    <3> HIDE DEF c
    <3>3. QED  BY <2>1, <3>1, <3>2 DEF Edits
  <2>3. ASSUME NEW k \in Nat, blocks' = [blocks EXCEPT ![current].failed = k]
        PROVE  Edits
    <3> DEFINE c == [d EXCEPT !.failed = k]
    <3>1. c \in Blocks /\ c.result = d.result /\ c.checks = d.checks
      <4> HIDE DEF d
      <4>1. QED  BY <2>1, <2>3, SummarySet
    <3>2. blocks' = [blocks EXCEPT ![current] = c]  BY <2>3
    <3> HIDE DEF c
    <3>3. QED  BY <2>1, <3>1, <3>2 DEF Edits
  <2>4. ASSUME NEW k \in Nat, NEW l \in Nat,
               blocks' = [blocks EXCEPT ![current].covers = [satisfied |-> k, total |-> l]]
        PROVE  Edits
    <3> DEFINE c == [d EXCEPT !.covers = [satisfied |-> k, total |-> l]]
    <3>1. c \in Blocks /\ c.result = d.result /\ c.checks = d.checks
      <4> HIDE DEF d
      <4>1. QED  BY <2>1, <2>4, CoversSet
    <3>2. blocks' = [blocks EXCEPT ![current] = c]  BY <2>4
    <3> HIDE DEF c
    <3>3. QED  BY <2>1, <3>1, <3>2 DEF Edits
  <2>5. ASSUME NEW id \in Ids,
               blocks' = [blocks EXCEPT ![current].checks =
                            Append(@, [id |-> id, status |-> None, text |-> "plain"])]
        PROVE  /\ Edits /\ Len(d.checks) + 1 \in Nat
               /\ Len(d.checks) + 1 \in DOMAIN blocks'[current].checks
    <3> DEFINE c == [d EXCEPT !.checks =
                       Append(@, [id |-> id, status |-> None, text |-> "plain"])]
    <3>1. /\ c \in Blocks /\ c.result = d.result /\ DOMAIN d.checks \subseteq DOMAIN c.checks
          /\ Len(d.checks) + 1 \in DOMAIN c.checks /\ Len(d.checks) + 1 \in Nat
      <4> HIDE DEF d
      <4>1. QED  BY <2>1, <2>5, CheckAdded
    <3>2. blocks' = [blocks EXCEPT ![current] = c]  BY <2>5
    <3> HIDE DEF c
    <3>3. blocks'[current] = c  BY <1>3, <2>1, <3>2
    <3>4. QED  BY <2>1, <3>1, <3>2, <3>3 DEF Edits
  <2>6. QED  BY <2>2, <2>3, <2>4, <2>5
<1>6. blocks' = blocks => Edits  BY DEF Edits
<1>7. NoBuffer \in {NoBuffer} \cup [of : {"description", "message"}, text : Texts]  OBVIOUS
<1>8. ASSUME NEW line2, NEW t \in Texts PROVE Text(t, line2) \in Texts
  BY DEF Text, Texts
<1> HIDE DEF b, n, d, Edits
<1>9. CASE buffer # NoBuffer
  <2>1. CASE ReadDescription(line)
    <3>1. Text(buffer.text, line) \in Texts /\ buffer.of = "description"
      BY <1>2, <1>8, <1>9, <2>1 DEF ReadDescription
    <3>2. [buffer EXCEPT !.text = Text(@, line)]
            \in [of : {"description", "message"}, text : Texts]
      BY <1>3, <1>9, <3>1
    <3>3. Edits
      <4>1. PICK x \in Answers : TRUE  BY DEF Answers
      <4>2. QED  BY <1>4, <1>6, <2>1, <3>1, <4>1 DEF ReadDescription, n
    <3>4. QED  BY <2>1, <3>2, <3>3 DEF ReadDescription
  <2>2. CASE ReadMessage(line)
    <3>1. Text(buffer.text, line) \in Texts /\ buffer.text \in Texts
      BY <1>2, <1>8, <1>9
    <3>2. [buffer EXCEPT !.text = Text(@, line)]
            \in [of : {"description", "message"}, text : Texts]
      BY <1>3, <1>9, <3>1
    <3>3. Edits
      BY <1>5, <1>6, <2>2, <3>1 DEF ReadMessage
    <3>4. QED  BY <2>2, <3>2, <3>3 DEF ReadMessage
  <2>3. QED  BY <1>9, <2>1, <2>2, Swallowed
<1>10. CASE buffer = NoBuffer
  <2>1. InBody(line) /\ line.kind # "verdict"  BY <1>10
  <2>2. line.kind \in {"section", "check", "status", "description", "end of description",
                       "failed check", "file", "blank", "summary", "covers"}
    BY <2>1 DEF InBody, Lines, HarnessLines, ThreadLines, BodyLines, VerdictLines, ClosingLines
  <2>3. CASE UNCHANGED <<parser, outcome>>
    BY <1>3, <1>6, <2>3 DEF parser
  <2>4. CASE line.kind = "check" /\ ReadCheck(line)
    <3>1. line.id \in Ids  BY <2>4, LineFields
    <3>2. /\ current # None
          /\ blocks' = [blocks EXCEPT ![current].checks =
                          Append(@, [id |-> line.id, status |-> None, text |-> "plain"])]
          /\ pending' = [name |-> current, number |-> Len(blocks[current].checks) + 1]
          /\ UNCHANGED <<threadBlock, current, buffer, failedFor, trailer, outcome>>
      BY <2>4 DEF ReadCheck
    <3>3. /\ Edits /\ Len(d.checks) + 1 \in Nat
          /\ Len(d.checks) + 1 \in DOMAIN blocks'[current].checks
      BY <1>5, <3>1, <3>2
    <3>4. QED  BY <1>1, <1>3, <3>2, <3>3 DEF d
  <2>5. CASE line.kind = "status" /\ ReadStatus(line)
    <3>1. line.status \in Answers  BY <2>5, LineFields
    <3>2. CASE pending = None  BY <2>5, <3>2 DEF ReadStatus
    <3>3. CASE pending # None
      <4>1. /\ blocks' = [blocks EXCEPT ![pending.name].checks[n].status = line.status]
            /\ UNCHANGED <<threadBlock, current, pending, buffer, failedFor, trailer, outcome>>
        BY <2>5, <3>3 DEF ReadStatus, n
      <4>2. PICK y \in Texts : TRUE  BY DEF Texts
      <4>3. Edits  BY <1>4, <3>1, <3>3, <4>1, <4>2
      <4>4. QED  BY <1>3, <4>1, <4>3
    <3>4. QED  BY <3>2, <3>3
  <2>6. CASE line.kind = "description" /\ ReadText(line)
    <3>1. line.text \in Texts  BY <2>6, LineFields
    <3>2. CASE line.open
      BY <1>6, <2>6, <3>1, <3>2 DEF ReadText
    <3>3. CASE ~line.open
      <4>1. PICK x \in Answers : TRUE  BY DEF Answers
      <4>2. Edits  BY <1>4, <1>6, <2>6, <3>1, <3>3, <4>1 DEF ReadText, n
      <4>3. QED  BY <1>3, <2>6, <3>3, <4>2 DEF ReadText
    <3>4. QED  BY <3>2, <3>3
  <2>7. CASE line.kind \in {"summary", "covers"} /\ ReadSummary(line)
    <3>1. /\ line.kind = "summary" => line.failed \in Nat
          /\ line.kind = "covers" => line.satisfied \in Nat /\ line.total \in Nat
      BY LineFields
    <3>2. Edits  BY <1>5, <2>7, <3>1 DEF ReadSummary, Is
    <3>3. QED  BY <1>3, <2>7, <3>2 DEF ReadSummary
  <2>8. CASE line.kind = "failed check" /\ ReadFailedCheck(line)
    <3>1. line.text \in Texts  BY <2>8, LineFields
    <3>2. QED  BY <1>6, <2>8, <3>1 DEF ReadFailedCheck
  <2>9. CASE Refuse  BY <2>9
  <2>10. /\ line.kind \in {"section", "check", "covers", "summary", "failed check", "verdict"}
               /\ current = None => Refuse
         /\ current # None =>
              /\ line.kind = "check" => ReadCheck(line)
              /\ line.kind \in {"summary", "covers"} => ReadSummary(line)
              /\ line.kind = "failed check" => ReadFailedCheck(line)
              /\ line.kind = "section" => UNCHANGED <<parser, outcome>>
         /\ line.kind = "status" => ReadStatus(line)
         /\ line.kind = "description" => ReadText(line)
         /\ line.kind \in {"end of description", "file", "blank"} => UNCHANGED <<parser, outcome>>
    BY <1>10, ReadBy
  <2>11. QED  BY <2>2, <2>3, <2>4, <2>5, <2>6, <2>7, <2>8, <2>9, <2>10
<1>11. QED  BY <1>9, <1>10

(* The lines around a body, and the verdict. *)
LEMMA OtherLineEffects ==
  ASSUME TypeOK, ReadType, NEW line \in Lines, Read(line), buffer = NoBuffer,
         ~InBody(line) \/ line.kind = "verdict"
  PROVE  \/ Refuse
         \/ line.kind = "harness" /\ ReadHarness(line)
         \/ line.kind = "thread" /\ current' \in Known /\ ReadThread(line)
              /\ UNCHANGED <<blocks, threadBlock, pending, buffer, failedFor, trailer, outcome>>
         \/ line.kind = "verdict" /\ current \in Known /\ blocks[current].result = None
              /\ current' = None
              /\ blocks' = [blocks EXCEPT ![current] =
                              [@ EXCEPT !.result = line.result, !.panics = line.panics]]
              /\ UNCHANGED <<threadBlock, pending, buffer, failedFor, trailer, outcome>>
         \/ line.kind \in {"failed for", "trailer"} /\ ReadClosing(line)
<1>1. /\ line.kind = "harness" => ReadHarness(line)
      /\ line.kind = "thread" => ReadThread(line)
      /\ line.kind = "verdict" /\ current = None => Refuse
      /\ current # None => (line.kind = "verdict" => ReadVerdict(line))
      /\ line.kind \in {"failed for", "trailer"} => ReadClosing(line)
  BY ReadBy
<1>2. current # None => current \in Known  BY BlocksAreTyped
<1>3. line.kind \in {"harness", "thread", "verdict", "failed for", "trailer"}
  BY DEF InBody
<1>4. CASE line.kind = "thread"
  <2>1. line.worker \in Threads  BY <1>4, LineFields
  <2>2. threadBlock[line.worker] # None => threadBlock[line.worker] \in Known
    BY <2>1 DEF TypeOK
  <2>3. QED  BY <1>1, <1>4, <2>2 DEF ReadThread
<1>5. CASE line.kind = "verdict"
  BY <1>1, <1>2, <1>5 DEF ReadVerdict
<1>6. QED  BY <1>1, <1>3, <1>4, <1>5

(* Reading a line keeps the types, if an announced harness is new. *)
LEMMA ReadIsTyped ==
  ASSUME TypeOK, ReadType, outcome = None, NEW line \in Lines, Read(line),
         line.kind = "harness" => line.name \notin Known
  PROVE  TypeOK' /\ ReadType'
<1>1. /\ blocks \in [Harnesses -> Blocks \cup {None}]
      /\ threadBlock \in [Threads -> Known \cup {None}]
      /\ current \in Known \cup {None}
      /\ buffer \in {NoBuffer} \cup [of : {"description", "message"}, text : Texts]
      /\ failedFor \subseteq Harnesses
  BY DEF TypeOK
<1>2. /\ Known \subseteq Harnesses
      /\ \A h \in Known : blocks[h] \in Blocks
      /\ pending # None => /\ pending.name \in Known /\ pending.number \in Nat
                           /\ pending.number \in DOMAIN blocks[pending.name].checks
  BY BlocksAreTyped
<1>3. /\ pending \in [name : Harnesses, number : Nat] \cup {None}
      /\ None \notin [name : Harnesses, number : Nat] /\ None \notin Blocks
  BY NoneAssumption DEF ReadType
<1>4. CASE Refuse
  BY <1>1, <1>2, <1>3, <1>4 DEF Refuse, parser, TypeOK, ReadType, Known
<1>5. ASSUME Edits, UNCHANGED <<threadBlock, current, failedFor, trailer, outcome>>,
             buffer' \in {NoBuffer} \cup [of : {"description", "message"}, text : Texts],
             \/ pending' = pending
             \/ /\ current \in Known
                /\ \E n \in Nat : /\ pending' = [name |-> current, number |-> n]
                                  /\ n \in DOMAIN blocks'[current].checks
      PROVE  TypeOK' /\ ReadType'
  <2>1. /\ blocks' \in [Harnesses -> Blocks \cup {None}] /\ Known' = Known
        /\ \A h \in Known : DOMAIN blocks[h].checks \subseteq DOMAIN blocks'[h].checks
    BY <1>5, EditsKeep
  <2>2. /\ pending' # None => /\ pending'.name \in Known'
                              /\ pending'.number \in DOMAIN blocks'[pending'.name].checks
        /\ ReadType'
    <3>1. CASE pending' = pending  BY <1>2, <1>3, <2>1, <3>1 DEF ReadType
    <3>2. CASE pending' # pending
      <4>1. PICK n \in Nat : /\ pending' = [name |-> current, number |-> n]
                             /\ n \in DOMAIN blocks'[current].checks /\ current \in Known
        BY <1>5, <3>2
      <4>2. pending'.name = current /\ pending'.number = n
            /\ pending' \in [name : Harnesses, number : Nat]
        BY <1>2, <4>1
      <4>3. QED  BY <2>1, <4>1, <4>2 DEF ReadType
    <3>3. QED  BY <3>1, <3>2
  <2>3. QED  BY <1>1, <1>5, <2>1, <2>2 DEF TypeOK
<1>6. CASE buffer # NoBuffer \/ (InBody(line) /\ line.kind # "verdict")
  BY <1>4, <1>5, <1>6, BodyLineEdits
<1>7. CASE buffer = NoBuffer /\ (~InBody(line) \/ line.kind = "verdict")
  <2>1. CASE line.kind = "harness" /\ ReadHarness(line)
    <3>1. /\ line.name \in Harnesses \ Known
          /\ line.kind = "harness" => line.worker \in Workers
      BY <2>1, LineFields
    <3>2. BlankBlock \in Blocks  BY EmptySeq DEF BlankBlock, Blocks
    <3>3. /\ blocks' = [blocks EXCEPT ![line.name] = BlankBlock]
          /\ UNCHANGED <<pending, buffer, failedFor, trailer, outcome>>
      BY <2>1 DEF ReadHarness
    <3> HIDE DEF BlankBlock
    <3>4. /\ blocks' \in [Harnesses -> Blocks \cup {None}]
          /\ Known' = Known \cup {line.name}
          /\ \A h \in Known : blocks'[h] = blocks[h]
      BY <1>1, <1>3, <3>1, <3>2, <3>3 DEF Known
    <3>5. /\ threadBlock' \in [Threads -> Known' \cup {None}]
          /\ current' \in Known' \cup {None}
      BY <1>1, <2>1, <3>1, <3>4 DEF ReadHarness, Workers
    <3>6. QED  BY <1>1, <1>2, <1>3, <3>3, <3>4, <3>5 DEF TypeOK, ReadType
  <2>2. CASE /\ line.kind = "thread" /\ current' \in Known
             /\ UNCHANGED <<blocks, threadBlock, pending, buffer, failedFor, trailer, outcome>>
    BY <1>1, <1>2, <1>3, <2>2 DEF TypeOK, ReadType, Known
  <2>3. CASE /\ line.kind = "verdict" /\ current \in Known /\ current' = None
             /\ blocks' = [blocks EXCEPT ![current] =
                             [@ EXCEPT !.result = line.result, !.panics = line.panics]]
             /\ UNCHANGED <<threadBlock, pending, buffer, failedFor, trailer, outcome>>
    <3> DEFINE b == blocks[current]
               c == Judged(b, line)
    <3>1. b \in Blocks  BY <1>2, <2>3
    <3>2. line.result \in {"SUCCESSFUL", "FAILED"} /\ line.panics \in BOOLEAN
      BY <2>3, LineFields
    <3>3. c \in Blocks /\ c.checks = b.checks
      <4> HIDE DEF b
      <4>1. QED  BY <3>1, <3>2, VerdictSet
    <3>4. blocks' = [blocks EXCEPT ![current] = c]  BY <2>3 DEF Judged
    <3> HIDE DEF c
    <3>5. /\ blocks' \in [Harnesses -> Blocks \cup {None}] /\ Known' = Known
          /\ \A h \in Known : blocks'[h].checks = blocks[h].checks
      BY <1>1, <1>2, <1>3, <2>3, <3>3, <3>4 DEF Known
    <3>6. QED  BY <1>1, <1>2, <1>3, <2>3, <3>5 DEF TypeOK, ReadType
  <2>4. CASE line.kind \in {"failed for", "trailer"} /\ ReadClosing(line)
    <3>1. failedFor' \subseteq Harnesses
      BY <1>1, <2>4, LineFields DEF ReadClosing, Is
    <3>2. UNCHANGED <<blocks, threadBlock, current, pending, buffer, outcome>>
      BY <2>4 DEF ReadClosing
    <3>3. QED  BY <1>1, <1>2, <1>3, <3>1, <3>2 DEF TypeOK, ReadType, Known
  <2>5. QED  BY <1>4, <1>7, <2>1, <2>2, <2>3, <2>4, OtherLineEffects
<1>8. QED  BY <1>6, <1>7

(* A block that accounts for itself makes a receipt. *)
LEMMA ReceiptIsTyped ==
  ASSUME NEW b \in Blocks, Accountable(b)
  PROVE  Receipt(b) \in Receipts
<1> DEFINE Of == Ids \cup {"all", "message", "expected panic"}
           S == [of : Of, status : Statuses]
<1>1. VerdictFor(b) \in [verdict : {"accepted", "rejected", "error"},
                         kind : {"tool-error", "unsupported-construct", None}]
  BY DEF VerdictFor
<1>2. b.checks \in Seq(ReadChecks) /\ b.messages \in Seq(Texts)  BY DEF Blocks
<1>3. b.checks # <<>> => ChecksAccount(b) \in Seq(S)
  <2>1. ASSUME b.checks # <<>> PROVE ChecksAccount(b) \in Seq(S)
    <3>1. /\ DOMAIN b.checks = 1..Len(b.checks) /\ Len(b.checks) \in Nat
          /\ \A i \in DOMAIN b.checks : b.checks[i] \in ReadChecks
      BY <1>2, LenProperties, ElementOfSeq
    <3>2. ASSUME NEW i \in 1..Len(b.checks)
          PROVE  [of |-> b.checks[i].id,
                  status |-> StatusTable(b.checks[i])[b.checks[i].status]] \in S
      <4>1. Recognized(b.checks[i])  BY <2>1, <3>1 DEF Accountable
      <4>2. b.checks[i].id \in Ids  BY <3>1 DEF ReadChecks
      <4>3. StatusTable(b.checks[i])[b.checks[i].status] \in Statuses
        BY <4>1 DEF Recognized, StatusTable, CoverStatuses, AssertionStatuses, Statuses
      <4>4. QED  BY <4>2, <4>3
    <3> HIDE DEF S
    <3>3. ChecksAccount(b) \in [1..Len(b.checks) -> S]  BY <3>1, <3>2 DEF ChecksAccount
    <3>4. QED  BY <3>1, <3>3, FunctionIsSeq
  <2>2. QED  BY <2>1
<1>4. TerseAccount(b) \in Seq(S)
  <2> DEFINE first == [of |-> "all", status |-> IF b.failed = 0 THEN "held" ELSE "failed"]
             named == [i \in DOMAIN b.messages |-> [of |-> "message", status |-> "failed"]]
             cover == [of |-> "cover",
                       status |-> IF b.covers.satisfied = b.covers.total
                                  THEN "held" ELSE "vacuous"]
             last == IF b.covers = None THEN <<>> ELSE <<cover>>
  <2>1. first \in S /\ cover \in S  BY DEF Statuses, Ids
  <2>2. DOMAIN b.messages = 1..Len(b.messages) /\ Len(b.messages) \in Nat
    BY <1>2, LenProperties
  <2>3. [of |-> "message", status |-> "failed"] \in S  BY DEF Statuses
  <2>4. named \in [1..Len(b.messages) -> S]
    <3> HIDE DEF S
    <3>1. QED  BY <2>2, <2>3
  <2>5. TerseAccount(b) = <<first>> \o named \o last  BY DEF TerseAccount
  <2> HIDE DEF S, first, named, cover
  <2>6. named \in Seq(S)  BY <2>2, <2>4, FunctionIsSeq
  <2>7. last \in Seq(S)
    <3>1. <<cover>> \in Seq(S) /\ <<>> \in Seq(S)  BY <2>1, EmptySeq
    <3>2. QED  BY <3>1
  <2>8. <<first>> \in Seq(S)  BY <2>1
  <2> HIDE DEF last
  <2>9. <<first>> \o named \in Seq(S)  BY <2>6, <2>8, ConcatProperties
  <2>10. QED  BY <2>5, <2>7, <2>9, ConcatProperties
<1>5. ObligationsFor(b) \in Seq(S)
  <2> DEFINE front == IF b.checks = <<>> THEN TerseAccount(b) ELSE ChecksAccount(b)
             e == [of |-> "expected panic", status |-> "held"]
             back == IF b.result = "SUCCESSFUL" /\ b.panics THEN <<e>> ELSE <<>>
  <2>1. front \in Seq(S)  BY <1>3, <1>4
  <2>2. e \in S  BY DEF Statuses
  <2>3. ObligationsFor(b) = front \o back  BY DEF ObligationsFor
  <2> HIDE DEF S, e, front
  <2>4. back \in Seq(S)
    <3>1. <<e>> \in Seq(S) /\ <<>> \in Seq(S)  BY <2>2, EmptySeq
    <3>2. QED  BY <3>1
  <2> HIDE DEF back
  <2>5. QED  BY <2>1, <2>3, <2>4, ConcatProperties
<1>6. QED  BY <1>1, <1>5 DEF Receipt, Receipts

(* What the parser returns is a receipt for each block, or a refusal. *)
LEMMA EndIsTyped ==
  ASSUME TypeOK, ReadType, EndOfLog
  PROVE  /\ TypeOK' /\ ReadType' /\ Edits /\ outcome' # None
         /\ outcome' # Refused =>
              /\ outcome' = [h \in Known |-> Receipt(blocks'[h])]
              /\ buffer.of # "description" /\ CountsAgree
              /\ \A h \in Known : Accountable(blocks'[h])
<1>1. /\ \A h \in Known : blocks[h] \in Blocks
      /\ current # None => current \in Known
      /\ buffer # NoBuffer => buffer.text \in Texts /\ buffer.of \in {"description", "message"}
      /\ Known \subseteq Harnesses
  BY BlocksAreTyped
<1>2. Edits
  <2>1. CASE buffer.of = "message" /\ current # None
    <3> DEFINE d == blocks[current]
               c == [d EXCEPT !.messages = Append(@, buffer.text)]
    <3>1. d \in Blocks /\ current \in Known /\ buffer.text \in Texts
      BY <1>1, <2>1 DEF NoBuffer
    <3>2. c \in Blocks /\ c.result = d.result /\ c.checks = d.checks
      <4> HIDE DEF d
      <4>1. QED  BY <3>1, MessageAdded
    <3>3. blocks' = [blocks EXCEPT ![current] = c]  BY <2>1 DEF EndOfLog
    <3> HIDE DEF c
    <3>4. QED  BY <3>1, <3>2, <3>3 DEF Edits
  <2>2. CASE ~(buffer.of = "message" /\ current # None)
    BY <2>2 DEF EndOfLog, Edits
  <2>3. QED  BY <2>1, <2>2
<1>3. /\ blocks' \in [Harnesses -> Blocks \cup {None}] /\ Known' = Known
      /\ \A h \in Known : DOMAIN blocks[h].checks \subseteq DOMAIN blocks'[h].checks
  BY <1>2, EditsKeep
<1>4. UNCHANGED <<threadBlock, current, pending, buffer, failedFor, trailer>>
  BY DEF EndOfLog
<1> DEFINE returned == [h \in Known |-> Receipt(blocks'[h])]
<1>5. CASE /\ buffer.of # "description" /\ CountsAgree
           /\ \A h \in Known : Accountable(blocks'[h])
  <2>1. outcome' = returned  BY <1>5 DEF EndOfLog
  <2>2. \A h \in Known : blocks'[h] \in Blocks
    BY <1>1, <1>3 DEF Known
  <2>3. \A h \in Known : Receipt(blocks'[h]) \in Receipts
    BY <1>5, <2>2, ReceiptIsTyped
  <2>4. returned \in [Known -> Receipts]  BY <2>3
  <2>5. None \notin [Known -> Receipts]  BY <1>1, NoneAssumption
  <2> HIDE DEF returned
  <2>6. TypeOK'
    BY <1>3, <1>4, <2>1, <2>4 DEF TypeOK
  <2>7. ReadType'  BY <1>4 DEF ReadType
  <2>8. QED  BY <1>2, <1>5, <2>1, <2>4, <2>5, <2>6, <2>7 DEF returned
<1>6. CASE ~(/\ buffer.of # "description" /\ CountsAgree
             /\ \A h \in Known : Accountable(blocks'[h]))
  <2>1. outcome' = Refused  BY <1>6 DEF EndOfLog
  <2>2. TypeOK'  BY <1>3, <1>4, <2>1 DEF TypeOK
  <2>3. ReadType'  BY <1>4 DEF ReadType
  <2>4. Refused # None  BY NoneAssumption
  <2>5. QED  BY <1>2, <2>1, <2>2, <2>3, <2>4
<1>7. QED  BY <1>5, <1>6

(* What the parser knows of h in the middle of its body. *)
Own(h) ==
  [block |-> blocks[h],
   number |-> IF pending # None /\ pending.name = h THEN pending.number ELSE 0,
   buffer |-> buffer]

(* What a reader of one body alone makes of a line is what this parser does to the
   current block. *)
LEMMA BodyLineIsRead ==
  ASSUME TypeOK, ReadType, NEW line, Read(line), current # None,
         NEW m, Reads(Own(current), line, m)
  PROVE  /\ blocks' = [blocks EXCEPT ![current] = m.block]
         /\ current' = IF line.kind = "verdict" THEN None ELSE current
         /\ UNCHANGED <<threadBlock, failedFor, trailer, outcome>>
         /\ m = [block |-> m.block,
                 number |-> IF pending' # None /\ pending'.name = current
                            THEN pending'.number ELSE 0,
                 buffer |-> buffer']
<1> DEFINE h == current
           p == Own(h)
           b == blocks[h]
<1>1. /\ p.block = b /\ p.buffer = buffer
      /\ p.number = IF pending # None /\ pending.name = h THEN pending.number ELSE 0
      /\ p = [block |-> b, number |-> p.number, buffer |-> buffer]
  BY DEF Own
<1>2. /\ h \in Known /\ b \in Blocks /\ Known \subseteq Harnesses
      /\ blocks \in [Harnesses -> Blocks \cup {None}]
  BY BlocksAreTyped DEF TypeOK
<1>3. [blocks EXCEPT ![h] = b] = blocks  BY <1>2
<1>4. ASSUME p.number \in DOMAIN b.checks
      PROVE  pending # None /\ pending.name = h /\ pending.number = p.number
  <2>1. b.checks \in Seq(ReadChecks)  BY <1>2 DEF Blocks
  <2>2. DOMAIN b.checks = 1..Len(b.checks) /\ Len(b.checks) \in Nat  BY <2>1, LenProperties
  <2>3. p.number # 0  BY <1>4, <2>2
  <2>4. QED  BY <1>1, <2>3
<1>5. buffer = NoBuffer =>
        /\ line.kind = "check" => ReadCheck(line)
        /\ line.kind \in {"summary", "covers"} => ReadSummary(line)
        /\ line.kind = "failed check" => ReadFailedCheck(line)
        /\ line.kind = "verdict" => ReadVerdict(line)
        /\ line.kind = "section" => UNCHANGED <<parser, outcome>>
        /\ line.kind = "status" => ReadStatus(line)
        /\ line.kind = "description" => ReadText(line)
        /\ line.kind = "blank" => UNCHANGED <<parser, outcome>>
  BY ReadBy
<1>6. NoBuffer.of = "nothing"  BY DEF NoBuffer
<1>7. buffer # NoBuffer => ReadDescription(line) \/ ReadMessage(line)  BY Swallowed
<1> DEFINE number == IF pending' # None /\ pending'.name = h THEN pending'.number ELSE 0
<1> HIDE DEF p, b
<1> DEFINE Noise == p.buffer = NoBuffer /\ line.kind \in {"section", "blank"} /\ m = p
           Checked == /\ p.buffer = NoBuffer /\ line.kind = "check"
                      /\ m = [block |-> [p.block EXCEPT !.checks =
                                Append(@, [id |-> line.id, status |-> None, text |-> "plain"])],
                              number |-> Len(p.block.checks) + 1, buffer |-> NoBuffer]
           Answered == /\ p.buffer = NoBuffer /\ line.kind = "status"
                       /\ p.number \in DOMAIN p.block.checks
                       /\ m = [block |-> [p.block EXCEPT !.checks[p.number].status = line.status],
                               number |-> p.number, buffer |-> NoBuffer]
           Described == /\ p.buffer = NoBuffer /\ line.kind = "description" /\ ~line.open
                        /\ p.number \in DOMAIN p.block.checks
                        /\ m = [block |-> [p.block EXCEPT !.checks[p.number].text = line.text],
                                number |-> p.number, buffer |-> NoBuffer]
           Opened == /\ p.buffer = NoBuffer /\ line.kind = "description" /\ line.open
                     /\ m = [block |-> p.block, number |-> p.number,
                             buffer |-> [of |-> "description", text |-> line.text]]
           Ended == /\ p.buffer.of = "description" /\ line.kind = "end of description"
                    /\ p.number \in DOMAIN p.block.checks
                    /\ m = [block |-> [p.block EXCEPT !.checks[p.number].text =
                                         Text(p.buffer.text, line)],
                            number |-> p.number, buffer |-> NoBuffer]
           Summed == /\ p.buffer = NoBuffer /\ line.kind = "summary"
                     /\ m = [block |-> [p.block EXCEPT !.failed = line.failed],
                             number |-> p.number, buffer |-> NoBuffer]
           Failed == /\ p.buffer = NoBuffer /\ line.kind = "failed check"
                     /\ m = [block |-> p.block, number |-> p.number,
                             buffer |-> [of |-> "message", text |-> line.text]]
           Filed == /\ p.buffer.of = "message" /\ line.kind = "file"
                    /\ m = [block |-> [p.block EXCEPT !.messages = Append(@, p.buffer.text)],
                            number |-> p.number, buffer |-> NoBuffer]
           Counted == /\ p.buffer = NoBuffer /\ line.kind = "covers"
                      /\ m = [block |-> [p.block EXCEPT !.covers =
                                           [satisfied |-> line.satisfied, total |-> line.total]],
                              number |-> p.number, buffer |-> NoBuffer]
           Verdict == /\ p.buffer = NoBuffer /\ line.kind = "verdict" /\ p.block.result = None
                      /\ m = [block |-> [p.block EXCEPT !.result = line.result,
                                                        !.panics = line.panics],
                              number |-> p.number, buffer |-> NoBuffer]
<1>8. CASE Noise
  <2>1. UNCHANGED <<parser, outcome>>  BY <1>1, <1>5, <1>8
  <2>2. UNCHANGED <<blocks, threadBlock, current, pending, buffer, failedFor, trailer, outcome>>
    BY <2>1 DEF parser
  <2>3. QED  BY <1>1, <1>3, <1>8, <2>2
<1>9. CASE Checked
  <2>1. ReadCheck(line) /\ buffer = NoBuffer  BY <1>1, <1>5, <1>9
  <2> DEFINE c == [b EXCEPT !.checks =
                     Append(@, [id |-> line.id, status |-> None, text |-> "plain"])]
  <2>2. /\ blocks' = [blocks EXCEPT ![h] = c]
        /\ pending' = [name |-> h, number |-> Len(b.checks) + 1]
        /\ UNCHANGED <<threadBlock, current, buffer, failedFor, trailer, outcome>>
    BY <2>1 DEF ReadCheck, b
  <2>3. m = [block |-> c, number |-> Len(b.checks) + 1, buffer |-> NoBuffer]  BY <1>1, <1>9
  <2> HIDE DEF c
  <2>4. [name |-> h, number |-> Len(b.checks) + 1] # None
    <3>1. h \in Harnesses /\ b.checks \in Seq(ReadChecks)  BY <1>2 DEF Blocks
    <3>2. Len(b.checks) + 1 \in Nat  BY <3>1, LenProperties
    <3>3. QED  BY <3>1, <3>2, NoneAssumption
  <2>5. number = Len(b.checks) + 1  BY <2>2, <2>4
  <2>6. line.kind # "verdict"  BY <1>9
  <2>7. m.block = c  BY <2>3
  <2>8. QED  BY <2>1, <2>2, <2>3, <2>5, <2>6, <2>7
<1>10. CASE Answered
  <2>1. ReadStatus(line) /\ buffer = NoBuffer  BY <1>1, <1>5, <1>10
  <2>2. pending # None /\ pending.name = h /\ pending.number = p.number
    BY <1>1, <1>4, <1>10
  <2> DEFINE c == [b EXCEPT !.checks[p.number].status = line.status]
  <2>3. /\ blocks' = [blocks EXCEPT ![h] = c]
        /\ UNCHANGED <<threadBlock, current, pending, buffer, failedFor, trailer, outcome>>
    BY <2>1, <2>2 DEF ReadStatus, b
  <2>4. m = [block |-> c, number |-> p.number, buffer |-> NoBuffer]  BY <1>1, <1>10
  <2> HIDE DEF c
  <2>5. line.kind # "verdict"  BY <1>10
  <2>6. m.block = c  BY <2>4
  <2>7. QED  BY <2>1, <2>2, <2>3, <2>4, <2>5, <2>6
<1>11. CASE Described
  <2>1. ReadText(line) /\ buffer = NoBuffer  BY <1>1, <1>5, <1>11
  <2>2. pending # None /\ pending.name = h /\ pending.number = p.number
    BY <1>1, <1>4, <1>11
  <2> DEFINE c == [b EXCEPT !.checks[p.number].text = line.text]
  <2>3. /\ blocks' = [blocks EXCEPT ![h] = c]
        /\ UNCHANGED <<threadBlock, current, pending, buffer, failedFor, trailer, outcome>>
    BY <1>11, <2>1, <2>2 DEF ReadText, b
  <2>4. m = [block |-> c, number |-> p.number, buffer |-> NoBuffer]  BY <1>1, <1>11
  <2> HIDE DEF c
  <2>5. line.kind # "verdict"  BY <1>11
  <2>6. m.block = c  BY <2>4
  <2>7. QED  BY <2>1, <2>2, <2>3, <2>4, <2>5, <2>6
<1>12. CASE Opened
  <2>1. ReadText(line)  BY <1>1, <1>5, <1>12
  <2>2. /\ buffer' = [of |-> "description", text |-> line.text]
        /\ UNCHANGED <<blocks, threadBlock, current, pending, failedFor, trailer, outcome>>
    BY <1>12, <2>1 DEF ReadText
  <2>3. m = [block |-> b, number |-> p.number, buffer |-> buffer']  BY <1>1, <1>12, <2>2
  <2>4. line.kind # "verdict"  BY <1>12
  <2>5. m.block = b  BY <2>3
  <2>6. UNCHANGED <<blocks, threadBlock, current, pending, failedFor, trailer, outcome>>  BY <2>2
  <2>7. QED  BY <1>1, <1>3, <2>3, <2>4, <2>5, <2>6
<1>13. CASE Ended
  <2>1. buffer.of = "description" /\ buffer # NoBuffer  BY <1>1, <1>6, <1>13
  <2>2. ReadDescription(line)  BY <1>7, <2>1 DEF ReadMessage
  <2>3. pending # None /\ pending.name = h /\ pending.number = p.number
    BY <1>1, <1>4, <1>13
  <2>4. EndsInQuote(line)  BY <1>13 DEF EndsInQuote
  <2> DEFINE c == [b EXCEPT !.checks[p.number].text = Text(buffer.text, line)]
  <2>5. /\ blocks' = [blocks EXCEPT ![h] = c] /\ buffer' = NoBuffer
        /\ UNCHANGED <<threadBlock, current, pending, failedFor, trailer, outcome>>
    BY <2>2, <2>3, <2>4 DEF ReadDescription, b
  <2>6. m = [block |-> c, number |-> p.number, buffer |-> NoBuffer] /\ number = p.number
    BY <1>1, <1>13, <2>3, <2>5
  <2> HIDE DEF c
  <2>7. line.kind # "verdict"  BY <1>13
  <2>8. m.block = c  BY <2>6
  <2>9. QED  BY <2>3, <2>5, <2>6, <2>7, <2>8
<1>14. CASE Summed
  <2>1. ReadSummary(line) /\ buffer = NoBuffer  BY <1>1, <1>5, <1>14
  <2> DEFINE c == [b EXCEPT !.failed = line.failed]
  <2>2. /\ blocks' = [blocks EXCEPT ![h] = c]
        /\ UNCHANGED <<threadBlock, current, pending, buffer, failedFor, trailer, outcome>>
    BY <1>14, <2>1 DEF ReadSummary, Is, b
  <2>3. m = [block |-> c, number |-> p.number, buffer |-> NoBuffer]  BY <1>1, <1>14
  <2> HIDE DEF c
  <2>4. line.kind # "verdict"  BY <1>14
  <2>5. m.block = c  BY <2>3
  <2>6. QED  BY <1>1, <2>1, <2>2, <2>3, <2>4, <2>5
<1>15. CASE Failed
  <2>1. ReadFailedCheck(line)  BY <1>1, <1>5, <1>15
  <2>2. /\ buffer' = [of |-> "message", text |-> line.text]
        /\ UNCHANGED <<blocks, threadBlock, current, pending, failedFor, trailer, outcome>>
    BY <2>1 DEF ReadFailedCheck
  <2>3. m = [block |-> b, number |-> p.number, buffer |-> buffer']  BY <1>1, <1>15, <2>2
  <2>4. line.kind # "verdict"  BY <1>15
  <2>5. m.block = b  BY <2>3
  <2>6. UNCHANGED <<blocks, threadBlock, current, pending, failedFor, trailer, outcome>>  BY <2>2
  <2>7. QED  BY <1>1, <1>3, <2>3, <2>4, <2>5, <2>6
<1>16. CASE Filed
  <2>1. buffer.of = "message" /\ buffer # NoBuffer  BY <1>1, <1>6, <1>16
  <2>2. ReadMessage(line)  BY <1>7, <2>1 DEF ReadDescription
  <2> DEFINE c == [b EXCEPT !.messages = Append(@, buffer.text)]
  <2>3. /\ blocks' = [blocks EXCEPT ![h] = c] /\ buffer' = NoBuffer
        /\ UNCHANGED <<threadBlock, current, pending, failedFor, trailer, outcome>>
    BY <1>16, <2>2 DEF ReadMessage, b
  <2>4. m = [block |-> c, number |-> p.number, buffer |-> NoBuffer]  BY <1>1, <1>16
  <2> HIDE DEF c
  <2>5. line.kind # "verdict"  BY <1>16
  <2>6. m.block = c  BY <2>4
  <2>7. QED  BY <1>1, <2>3, <2>4, <2>5, <2>6
<1>17. CASE Counted
  <2>1. ReadSummary(line) /\ buffer = NoBuffer  BY <1>1, <1>5, <1>17
  <2> DEFINE c == [b EXCEPT !.covers = [satisfied |-> line.satisfied, total |-> line.total]]
  <2>2. /\ blocks' = [blocks EXCEPT ![h] = c]
        /\ UNCHANGED <<threadBlock, current, pending, buffer, failedFor, trailer, outcome>>
    BY <1>17, <2>1 DEF ReadSummary, Is, b
  <2>3. m = [block |-> c, number |-> p.number, buffer |-> NoBuffer]  BY <1>1, <1>17
  <2> HIDE DEF c
  <2>4. line.kind # "verdict"  BY <1>17
  <2>5. m.block = c  BY <2>3
  <2>6. QED  BY <1>1, <2>1, <2>2, <2>3, <2>4, <2>5
<1>18. CASE Verdict
  <2>1. ReadVerdict(line) /\ buffer = NoBuffer /\ b.result = None  BY <1>1, <1>5, <1>18
  <2> DEFINE c == Judged(b, line)
  <2>2. /\ blocks' = [blocks EXCEPT ![h] = c] /\ current' = None
        /\ UNCHANGED <<threadBlock, pending, buffer, failedFor, trailer, outcome>>
    BY <2>1 DEF ReadVerdict, b, Judged
  <2>3. m = [block |-> c, number |-> p.number, buffer |-> NoBuffer]
    BY <1>1, <1>18 DEF Judged
  <2> HIDE DEF c
  <2>4. line.kind = "verdict"  BY <1>18
  <2>5. m.block = c  BY <2>3
  <2>6. QED  BY <1>1, <2>1, <2>2, <2>3, <2>4, <2>5
<1>19. Reads(p, line, m)  BY DEF p
<1>20. \/ Noise \/ Checked \/ Answered \/ Described \/ Opened \/ Ended
       \/ Summed \/ Failed \/ Filed \/ Counted \/ Verdict
  BY <1>19 DEF Reads
<1> HIDE DEF Noise, Checked, Answered, Described, Opened, Ended, Summed, Failed, Filed,
             Counted, Verdict
<1>21. QED
  BY <1>8, <1>9, <1>10, <1>11, <1>12, <1>13, <1>14, <1>15, <1>16, <1>17, <1>18, <1>20

(* Without a line left, it is over. *)
LEMMA ParsesEnd ==
  ASSUME NEW p, NEW q, Parses(p, <<>>, q)
  PROVE  p = q
<1>1. Len(<<>>) = 0  BY EmptySeq
<1>2. QED  BY <1>1 DEF Parses

(* One line of a body that is read on its own. *)
LEMMA BodyStep ==
  ASSUME TypeOK, ReadType, current # None, NEW s, BodyLike(s), NEW r,
         Leads(Own(current), s, r), Read(Head(s))
  PROVE  /\ UNCHANGED <<threadBlock, failedFor, trailer, outcome>>
         /\ \A h \in Harnesses \ {current} : blocks'[h] = blocks[h]
         /\ Tail(s) # <<>> => /\ current' = current
                              /\ Leads(Own(current)', Tail(s), r)
         /\ Tail(s) = <<>> => /\ current' = None /\ buffer' = NoBuffer
                              /\ Faithful(blocks'[current], r)
<1> DEFINE S == BodyLines \cup VerdictLines
           h == current
<1>1. s \in Seq(S) /\ s # <<>>  BY DEF BodyLike
<1>2. PICK q : Parses(Own(h), s, q) /\ Faithful(q.block, r) /\ q.buffer = NoBuffer
  BY DEF Leads
<1>3. \E m : Reads(Own(h), Head(s), m) /\ Parses(m, Tail(s), q)
  <2> HIDE DEF S
  <2>1. QED  BY <1>1, <1>2, ParsesHead
<1>4. PICK m : Reads(Own(h), Head(s), m) /\ Parses(m, Tail(s), q)  BY <1>3
<1>5. /\ blocks' = [blocks EXCEPT ![h] = m.block]
      /\ current' = IF Head(s).kind = "verdict" THEN None ELSE h
      /\ UNCHANGED <<threadBlock, failedFor, trailer, outcome>>
      /\ m = [block |-> m.block,
              number |-> IF pending' # None /\ pending'.name = h
                         THEN pending'.number ELSE 0,
              buffer |-> buffer']
  BY <1>4, BodyLineIsRead
<1>6. h \in Harnesses /\ blocks \in [Harnesses -> Blocks \cup {None}]
  BY BlocksAreTyped DEF TypeOK
<1>7. blocks'[h] = m.block /\ \A g \in Harnesses \ {h} : blocks'[g] = blocks[g]
  BY <1>5, <1>6
<1>8. Head(s).kind = "verdict" <=> Tail(s) = <<>>  BY BodyFirst
<1>9. CASE Tail(s) = <<>>
  <2>1. m = q  BY <1>4, <1>9, ParsesEnd
  <2>2. m.buffer = buffer'  BY <1>5
  <2>3. QED  BY <1>2, <1>5, <1>7, <1>8, <1>9, <2>1, <2>2
<1>10. CASE Tail(s) # <<>>
  <2>1. Own(h)' = m
    <3>1. current' = h  BY <1>5, <1>8, <1>10
    <3>2. Own(h)' = [block |-> blocks'[h],
                     number |-> IF pending' # None /\ pending'.name = h
                                THEN pending'.number ELSE 0,
                     buffer |-> buffer']
      BY <3>1 DEF Own
    <3>3. QED  BY <1>5, <1>7, <3>2
  <2>2. Leads(m, Tail(s), r)  BY <1>2, <1>4, <1>10 DEF Leads
  <2>3. QED  BY <1>5, <1>7, <1>8, <1>10, <2>1, <2>2
<1>11. QED  BY <1>9, <1>10

-------------------------------------------------------------------------------
(* One line: printed by a worker, read by the parser *)

Prints(w) == script[w] # <<>> /\ Emit(w, Head(script[w])) /\ Read(Head(script[w]))

(* No more blocks have a verdict or are being read than bodies have begun; when
   there are fewer, the counts of the log will not agree. *)
Credit == Cardinality(Having) + Busy <= Cardinality(Begun)

Lost == Cardinality(Having) + Busy < Cardinality(Begun)

(* The line that announces h fell into an open description or message. *)
Missed == \E h \in Harnesses : Announced(h) /\ h \notin Known

(* A harness has a block only once it was announced. *)
LEMMA KnownIsFinite ==
  ASSUME TypeInv, Order
  PROVE  /\ Known \subseteq DOMAIN found /\ Having \subseteq Known /\ Begun \subseteq DOMAIN found
         /\ IsFiniteSet(Known) /\ IsFiniteSet(Having) /\ IsFiniteSet(Begun)
         /\ Cardinality(Known) \in Nat /\ Cardinality(Having) \in Nat
         /\ Cardinality(Begun) \in Nat /\ Cardinality(DOMAIN found) \in Nat
<1>1. IsFiniteSet(DOMAIN found)  BY FoundIsTyped DEF TypeInv
<1>2. /\ Known \subseteq DOMAIN found /\ Having \subseteq DOMAIN found
      /\ Begun \subseteq DOMAIN found /\ Having \subseteq Known
  BY DEF Order, Announced, Having, Begun
<1>3. IsFiniteSet(Known) /\ IsFiniteSet(Having) /\ IsFiniteSet(Begun)  BY <1>1, <1>2, FS_Subset
<1>4. QED  BY <1>1, <1>2, <1>3, FS_CardinalityType

(* A harness announces itself where no description or message is open. *)
LEMMA HarnessStep ==
  ASSUME TypeInv, Order, NEW w \in Workers, Prints(w), AtHarness(w), buffer = NoBuffer
  PROVE  /\ job[w] \in Harnesses \ Known
         /\ blocks' = [blocks EXCEPT ![job[w]] = BlankBlock]
         /\ Known' = Known \cup {job[w]} /\ \A h \in Known : blocks'[h] = blocks[h]
         /\ blocks'[job[w]] = BlankBlock
         /\ w = Main => current' = job[w] /\ threadBlock' = threadBlock
         /\ w # Main => current' = current /\ threadBlock' = [threadBlock EXCEPT ![w] = job[w]]
         /\ UNCHANGED <<pending, buffer, failedFor, trailer, outcome>>
<1> DEFINE line == Head(script[w])
           h == job[w]
<1>1. ToolType /\ TypeOK /\ ReadType  BY DEF TypeInv
<1>2. line = [kind |-> "harness", worker |-> w, name |-> h]  BY <1>1, HarnessFirst
<1>3. line.kind = "harness" /\ line.worker = w /\ line.name = h
  <2> HIDE DEF line, h
  <2>1. QED  BY <1>2
<1>4. Read(line) /\ Emit(w, line)  BY DEF Prints
<1>5. ReadHarness(line)  BY <1>3, <1>4, ReadBy
<1>6. h \in Harnesses \ Known
  <2>1. h \in DOMAIN found  BY DEF AtHarness, Working
  <2>2. ~Announced(h)  BY <1>1, <1>4, EmitTells
  <2>3. QED  BY <1>1, <2>1, <2>2, FoundIsTyped DEF Order
<1>7. blocks \in [Harnesses -> Blocks \cup {None}]  BY <1>1 DEF TypeOK
<1>8. /\ blocks' = [blocks EXCEPT ![h] = BlankBlock]
      /\ w = Main => current' = h /\ threadBlock' = threadBlock
      /\ w # Main => current' = current /\ threadBlock' = [threadBlock EXCEPT ![w] = h]
      /\ UNCHANGED <<pending, buffer, failedFor, trailer, outcome>>
  BY <1>3, <1>5 DEF ReadHarness
<1>9. BlankBlock # None
  <2>1. BlankBlock \in Blocks  BY EmptySeq DEF BlankBlock, Blocks
  <2>2. QED  BY <2>1, NoneAssumption
<1>10. /\ Known' = Known \cup {h} /\ \A g \in Known : blocks'[g] = blocks[g]
       /\ blocks'[h] = BlankBlock
  BY <1>6, <1>7, <1>8, <1>9 DEF Known
<1>11. QED  BY <1>6, <1>8, <1>10

(* A thread names itself where nothing is open. *)
LEMMA ThreadStep ==
  ASSUME TypeInv, Order, NEW w \in Workers, Prints(w), AtThread(w), buffer = NoBuffer,
         outcome' = None
  PROVE  /\ w \in Threads /\ threadBlock[w] \in Known /\ current' = threadBlock[w]
         /\ UNCHANGED <<blocks, threadBlock, pending, buffer, failedFor, trailer, outcome>>
<1> DEFINE line == Head(script[w])
<1>1. ToolType /\ TypeOK /\ ReadType  BY DEF TypeInv
<1>2. line = [kind |-> "thread", worker |-> w]  BY <1>1, ThreadFirst
<1>3. line.kind = "thread" /\ line.worker = w
  <2> HIDE DEF line
  <2>1. QED  BY <1>2
<1>4. w \in Threads  BY DEF AtThread, Workers
<1>5. ReadThread(line)  BY <1>3, ReadBy DEF Prints
<1>6. threadBlock[w] # None => threadBlock[w] \in Known  BY <1>1, <1>4 DEF TypeOK
<1>7. Refused # None  BY NoneAssumption
<1>8. QED  BY <1>3, <1>4, <1>5, <1>6, <1>7 DEF ReadThread, Refuse

(* A verdict where nothing is open. *)
LEMMA VerdictStep ==
  ASSUME TypeInv, Order, NEW w \in Workers, Prints(w), AtBody(w), buffer = NoBuffer,
         Head(script[w]).kind = "verdict", outcome' = None
  PROVE  /\ current \in Known \ Having /\ current' = None
         /\ Having' = Having \cup {current} /\ Known' = Known
         /\ \A h \in Known \ {current} : blocks'[h] = blocks[h]
         /\ UNCHANGED <<threadBlock, pending, buffer, failedFor, trailer, outcome>>
<1> DEFINE line == Head(script[w])
           c == Judged(blocks[current], line)
<1>1. ToolType /\ TypeOK /\ ReadType  BY DEF TypeInv
<1>2. line \in Lines
  <2>1. script[w] \in Seq(Lines) /\ script[w] # <<>>  BY <1>1 DEF ToolType, Prints
  <2>2. QED  BY <2>1, HeadFirst
<1>3. Refused # None  BY NoneAssumption
<1>4. /\ current \in Known /\ blocks[current].result = None /\ current' = None
      /\ blocks' = [blocks EXCEPT ![current] =
                      [@ EXCEPT !.result = line.result, !.panics = line.panics]]
      /\ UNCHANGED <<threadBlock, pending, buffer, failedFor, trailer, outcome>>
  BY <1>1, <1>2, <1>3, OtherLineEffects DEF Prints, Refuse
<1>5. blocks' = [blocks EXCEPT ![current] = c]  BY <1>4 DEF Judged
<1>6. /\ blocks \in [Harnesses -> Blocks \cup {None}] /\ current \in Harnesses
      /\ blocks[current] \in Blocks
  BY <1>1, <1>4, BlocksAreTyped DEF TypeOK
<1>7. line.result \in {"SUCCESSFUL", "FAILED"} /\ line.panics \in BOOLEAN
  BY <1>2, LineFields
<1>8. c \in Blocks /\ c.result = line.result
  <2> HIDE DEF line
  <2>1. QED  BY <1>6, <1>7, VerdictSet
<1> HIDE DEF c, line
<1>9. c # None /\ c.result # None
  <2>1. c # None  BY <1>8, NoneAssumption
  <2>2. "SUCCESSFUL" # None /\ "FAILED" # None  BY NoneAssumption
  <2>3. c.result # None  BY <1>7, <1>8, <2>2
  <2>4. QED  BY <2>1, <2>3
<1>10. /\ blocks'[current] = c /\ \A h \in Harnesses \ {current} : blocks'[h] = blocks[h]
  BY <1>5, <1>6
<1>11. Known' = Known  BY <1>4, <1>6, <1>9, <1>10 DEF Known
<1>12. Having' = Having \cup {current}  BY <1>4, <1>6, <1>9, <1>10, <1>11 DEF Having, Known
<1>13. current \notin Having  BY <1>4 DEF Having
<1>14. QED  BY <1>4, <1>10, <1>11, <1>12, <1>13 DEF Known

(* A closing line where nothing is open. *)
LEMMA ClosingStep ==
  ASSUME TypeInv, Order, NEW w \in Workers, Prints(w), AtClosing(w), buffer = NoBuffer
  PROVE  /\ UNCHANGED <<blocks, threadBlock, current, pending, buffer, outcome>>
         /\ trailer' = trailer \/ Counts(trailer')
<1> DEFINE line == Head(script[w])
<1>1. /\ line \in ClosingLines
      /\ line.kind = "trailer" => Counts(line)
  BY ClosingFirst
<1>2. line.kind \in {"failed for", "trailer"}  BY <1>1, BodyLineKinds
<1>3. ReadClosing(line)  BY <1>2, ReadBy DEF Prints
<1>4. QED  BY <1>1, <1>3 DEF ReadClosing, Is

(* Any other line of a body, or one that falls into an open description or message. *)
LEMMA EditStep ==
  ASSUME TypeInv, Order, NEW w \in Workers, Prints(w), outcome' = None,
         buffer # NoBuffer \/ (AtBody(w) /\ Head(script[w]).kind # "verdict")
  PROVE  /\ Edits /\ UNCHANGED <<threadBlock, current, failedFor, trailer, outcome>>
         /\ Known' = Known /\ Having' = Having
         /\ \A h \in Known : blocks'[h].result = blocks[h].result
<1>1. ToolType /\ TypeOK /\ ReadType /\ Shared  BY DEF TypeInv, Order
<1>2. Head(script[w]) \in Lines
  <2>1. script[w] \in Seq(Lines) /\ script[w] # <<>>  BY <1>1 DEF ToolType, Prints
  <2>2. QED  BY <2>1, HeadFirst
<1>3. AtBody(w) => InBody(Head(script[w]))  BY BodyFirst DEF AtBody
<1>4. Refused # None  BY NoneAssumption
<1>5. Edits /\ UNCHANGED <<threadBlock, current, failedFor, trailer, outcome>>
  BY <1>1, <1>2, <1>3, <1>4, BodyLineEdits DEF Prints, Refuse
<1>6. QED  BY <1>1, <1>5, EditsKeep

(* These are all the cases. *)
LEMMA StepCases ==
  ASSUME TypeInv, Order, NEW w \in Workers, Prints(w)
  PROVE  \/ buffer = NoBuffer /\ (AtHarness(w) \/ AtThread(w) \/ AtClosing(w))
         \/ buffer = NoBuffer /\ AtBody(w) /\ Head(script[w]).kind = "verdict"
         \/ buffer # NoBuffer \/ (AtBody(w) /\ Head(script[w]).kind # "verdict")
BY DEF Prints, Order, Shared, Stage

(* The types survive a line. *)
LEMMA PrintsTyped ==
  ASSUME TypeInv, Order, outcome = None, NEW w \in Workers, Prints(w)
  PROVE  TypeInv'
<1>1. ToolType /\ TypeOK /\ ReadType /\ Shared /\ script[w] # <<>>
  BY DEF TypeInv, Order, Prints
<1>2. Head(script[w]) \in Lines
  <2>1. script[w] \in Seq(Lines)  BY <1>1 DEF ToolType
  <2>2. QED  BY <1>1, <2>1, HeadFirst
<1>3. Head(script[w]).kind = "harness" => Head(script[w]).name \notin Known
  <2>1. ASSUME Head(script[w]).kind = "harness" PROVE Head(script[w]).name \notin Known
    <3>1. AtHarness(w)  BY <1>1, <2>1, HeadTells
    <3>2. Head(script[w]) = [kind |-> "harness", worker |-> w, name |-> job[w]]
      BY <1>1, <3>1, HarnessFirst
    <3>3. Head(script[w]).name = job[w]  BY <3>2
    <3>4. ~Announced(job[w])  BY <1>1, <3>1, EmitTells DEF Prints
    <3>5. QED  BY <3>3, <3>4 DEF Order
  <2>2. QED  BY <2>1
<1>4. TypeOK' /\ ReadType'  BY <1>1, <1>2, <1>3, ReadIsTyped DEF Prints
<1>5. ToolType'  BY <1>1, EmitShares DEF Prints
<1>6. QED  BY <1>4, <1>5 DEF TypeInv

(* What has a block was announced, and the count line is the log's own. *)
LEMMA PrintsOrdered ==
  ASSUME TypeInv, Order, outcome = None, NEW w \in Workers, Prints(w), outcome' = None
  PROVE  Order' /\ (Missed => Missed')
<1>1. ToolType /\ TypeOK /\ ReadType /\ Emit(w, Head(script[w]))  BY DEF TypeInv, Prints
<1>2. Shared'  BY <1>1, EmitShares
<1>3. UNCHANGED <<found, waiting, job, log>>  BY <1>1, EmitLeaves
<1>4. \A h \in Harnesses : Announced(h)' <=> Announced(h) \/ (AtHarness(w) /\ h = job[w])
  BY <1>1, EmitTells
<1>5. AtHarness(w) => ~Announced(job[w])  BY <1>1, EmitTells
<1>6. /\ Known' = Known \/ (AtHarness(w) /\ Known' = Known \cup {job[w]})
      /\ trailer' = trailer \/ (AtClosing(w) /\ Counts(trailer'))
  <2>1. CASE buffer = NoBuffer /\ AtHarness(w)  BY <2>1, HarnessStep
  <2>2. CASE buffer = NoBuffer /\ AtThread(w)
    <3>1. blocks' = blocks /\ trailer' = trailer  BY <2>2, ThreadStep
    <3>2. QED  BY <3>1 DEF Known
  <2>3. CASE buffer = NoBuffer /\ AtClosing(w)
    <3>1. blocks' = blocks /\ (trailer' = trailer \/ Counts(trailer'))  BY <2>3, ClosingStep
    <3>2. QED  BY <2>3, <3>1 DEF Known
  <2>4. CASE buffer = NoBuffer /\ AtBody(w) /\ Head(script[w]).kind = "verdict"
    BY <2>4, VerdictStep
  <2>5. CASE buffer # NoBuffer \/ (AtBody(w) /\ Head(script[w]).kind # "verdict")
    BY <2>5, EditStep
  <2>6. QED  BY <2>1, <2>2, <2>3, <2>4, <2>5, StepCases
<1>7. Known \subseteq Harnesses /\ Known' \subseteq Harnesses  BY DEF Known
<1>8. \A h \in Known' : Announced(h)'  BY <1>4, <1>6, <1>7 DEF Order
<1>9. trailer' # None => log' = "closing" /\ Counts(trailer)'
  BY <1>3, <1>6 DEF Order, Counts, AtClosing
<1>10. Order'  BY <1>2, <1>3, <1>8, <1>9 DEF Order
<1>11. Missed => Missed'  BY <1>4, <1>5, <1>6 DEF Missed
<1>12. QED  BY <1>10, <1>11

(* A body that begins while another is read costs a verdict for good. *)
LEMMA PrintsCredited ==
  ASSUME TypeInv, Order, outcome = None, NEW w \in Workers, Prints(w), outcome' = None, Credit
  PROVE  /\ Credit' /\ (Lost => Lost')
         /\ Begins(w) /\ (current # None \/ buffer # NoBuffer) => Lost'
<1>1. ToolType /\ Emit(w, Head(script[w]))  BY DEF TypeInv, Prints
<1>2. /\ IsFiniteSet(Having) /\ IsFiniteSet(Begun)
      /\ Cardinality(Having) \in Nat /\ Cardinality(Begun) \in Nat
  BY KnownIsFinite
<1>3. /\ Begun' = IF Begins(w) THEN Begun \cup {job[w]} ELSE Begun
      /\ Begins(w) => job[w] \in Harnesses \ Begun
  BY <1>1, EmitTells
<1>4. Cardinality(Begun') = Cardinality(Begun) + IF Begins(w) THEN 1 ELSE 0
  <2>1. CASE Begins(w)  BY <1>2, <1>3, <2>1, FS_AddElement
  <2>2. CASE ~Begins(w)  BY <1>2, <1>3, <2>2
  <2>3. QED  BY <2>1, <2>2
<1>5. Busy \in {0, 1} /\ Busy' \in {0, 1} /\ (Busy = 0 <=> current = None)  BY DEF Busy
<1>6. /\ Having' = Having \/ (current # None /\ current' = None /\ current \notin Having
                              /\ Having' = Having \cup {current})
      /\ Having' = Having => Busy' = Busy \/ (Begins(w) /\ buffer = NoBuffer)
  <2>1. CASE buffer = NoBuffer /\ AtHarness(w)
    <3>1. /\ job[w] \in Harnesses \ Known /\ Known' = Known \cup {job[w]}
          /\ \A h \in Known : blocks'[h] = blocks[h]
          /\ blocks'[job[w]] = BlankBlock /\ (w # Main => current' = current)
      BY <2>1, HarnessStep
    <3>2. BlankBlock.result = None  BY DEF BlankBlock
    <3>3. Having' = Having  BY <3>1, <3>2 DEF Having
    <3>4. Busy' = Busy \/ (Begins(w) /\ buffer = NoBuffer)  BY <2>1, <3>1 DEF Busy, Begins
    <3>5. QED  BY <3>3, <3>4
  <2>2. CASE buffer = NoBuffer /\ AtThread(w)
    <3>1. blocks' = blocks  BY <2>2, ThreadStep
    <3>2. Having' = Having  BY <3>1 DEF Having, Known
    <3>3. QED  BY <2>2, <3>2 DEF Begins
  <2>3. CASE buffer = NoBuffer /\ AtClosing(w)
    <3>1. blocks' = blocks /\ current' = current  BY <2>3, ClosingStep
    <3>2. QED  BY <3>1 DEF Having, Known, Busy
  <2>4. CASE buffer = NoBuffer /\ AtBody(w) /\ Head(script[w]).kind = "verdict"
    <3>1. /\ current \in Known \ Having /\ current' = None
          /\ Having' = Having \cup {current}
      BY <2>4, VerdictStep
    <3>2. None \notin Known  BY NoneAssumption DEF Known
    <3>3. QED  BY <3>1, <3>2
  <2>5. CASE buffer # NoBuffer \/ (AtBody(w) /\ Head(script[w]).kind # "verdict")
    <3>1. Having' = Having /\ current' = current  BY <2>5, EditStep
    <3>2. QED  BY <3>1 DEF Busy
  <2>6. QED  BY <2>1, <2>2, <2>3, <2>4, <2>5, StepCases
<1> DEFINE n == Cardinality(Having)
           k == Cardinality(Begun)
<1>7. CASE Having' = Having
  <2>1. Cardinality(Having') = n  BY <1>7
  <2>2. Busy' <= Busy + (IF Begins(w) THEN 1 ELSE 0)
        /\ (Busy = 1 => Busy' <= Busy) /\ (buffer # NoBuffer => Busy' = Busy)
    BY <1>5, <1>6, <1>7
  <2> HIDE DEF n, k
  <2>3. QED
    BY <1>2, <1>4, <1>5, <2>1, <2>2 DEF Credit, Lost, n, k
<1>8. CASE /\ current # None /\ current' = None /\ current \notin Having
           /\ Having' = Having \cup {current}
  <2>1. Cardinality(Having') = n + 1  BY <1>2, <1>8, FS_AddElement
  <2>2. Busy' = 0 /\ Busy = 1  BY <1>8 DEF Busy
  <2> HIDE DEF n, k
  <2>3. QED  BY <1>2, <1>4, <1>5, <2>1, <2>2 DEF Credit, Lost, n, k
<1>9. QED  BY <1>6, <1>7, <1>8

-------------------------------------------------------------------------------
(* What the parser's state says of the verifier's *)

(* A thread that will name itself has a block under its name. *)
Named ==
  \A w \in Threads :
    script[w] # <<>> /\ Head(script[w]).kind = "thread" => threadBlock[w] = job[w]

(* Whoever prints a body prints the current block, and what it will still print
   completes it. *)
Attentive ==
  \A w \in Workers : Reading(w) =>
    current = job[w] /\ Leads(Own(job[w]), script[w], found[job[w]])

(* Between two bodies nothing is current or open. *)
Calm == (\A w \in Workers : ~Reading(w)) => current = None /\ buffer = NoBuffer

(* What was told is in the block, and what was not is not. *)
Truthful ==
  \A h \in Known :
    IF Told(h) THEN Faithful(blocks[h], found[h])
    ELSE blocks[h].result = None /\ (h \notin Begun => blocks[h] = BlankBlock)

(* So far no body was disturbed. *)
Sound == ~Missed /\ Named /\ Attentive /\ Calm /\ Truthful

(* The body of this harness went to the block of another one. *)
Orphan == \E h \in Known : h \in Begun /\ current # h /\ blocks[h] = BlankBlock

(* Where bodies are not interrupted, only the one that is printed can have begun. *)
Unprinted ==
  printing = None =>
    /\ buffer = NoBuffer
    /\ current # None => blocks[current] = BlankBlock
    /\ \A w \in Workers : Reading(w) => script[w] = Body(found[job[w]])

Printed ==
  printing # None =>
    /\ Reading(printing) /\ current # None
    /\ Leads(Own(current), script[printing], found[job[printing]])
    /\ \A w \in Workers \ {printing} : Reading(w) => script[w] = Body(found[job[w]])

Uninterrupted ==
  /\ ~Missed /\ Named
  /\ current # None => current \in Begun
  /\ \A h \in Known \ Begun : blocks[h] = BlankBlock
  /\ Unprinted /\ Printed

(* Either no body was disturbed, or one was and the log shows it. *)
Dynamics ==
  /\ Order /\ Credit
  /\ Sound \/ Lost \/ Missed
  /\ whole => Uninterrupted /\ (Sound \/ Orphan)

(* Being told in full depends on the output's format alone. *)
LEMMA LeadsStays ==
  ASSUME terse' = terse, NEW p, NEW s, NEW r
  PROVE  Leads(p, s, r)' <=> Leads(p, s, r)
BY DEF Leads, Faithful

(* What is quiet leaves the parser and all it refers to. *)
LEMMA QuietLeaves ==
  ASSUME Quiet
  PROVE  /\ UNCHANGED <<strict, whole, terse, workers, found, printing, blocks, threadBlock,
                        current, pending, buffer, failedFor, trailer, outcome>>
         /\ Known' = Known /\ Having' = Having /\ Busy' = Busy /\ Begun' = Begun
         /\ Missed' <=> Missed
         /\ \A h : Own(h)' = Own(h)
<1>1. UNCHANGED <<strict, whole, terse, workers, found, printing, blocks, threadBlock,
                  current, pending, buffer, failedFor, trailer, outcome>>
  BY DEF Quiet, run, parser
<1>2. Known' = Known  BY <1>1 DEF Known
<1>3. Having' = Having /\ Busy' = Busy  BY <1>1, <1>2 DEF Having, Busy
<1>4. Missed' <=> Missed  BY <1>2 DEF Quiet, Missed
<1>5. \A h : Own(h)' = Own(h)  BY <1>1 DEF Own
<1>6. QED  BY <1>1, <1>2, <1>3, <1>4, <1>5 DEF Quiet

(* So it keeps what is said of them. *)
LEMMA QuietKeeps ==
  ASSUME Quiet
  PROVE  /\ TypeOK /\ ReadType => TypeOK' /\ ReadType'
         /\ (Credit' <=> Credit) /\ (Lost' <=> Lost) /\ (Orphan' <=> Orphan)
         /\ Named => Named'
         /\ Calm => Calm'
<1>1. /\ UNCHANGED <<strict, whole, terse, workers, found, printing, blocks, threadBlock,
                     current, pending, buffer, failedFor, trailer, outcome>>
      /\ Known' = Known /\ Having' = Having /\ Busy' = Busy /\ Begun' = Begun
      /\ Missed' <=> Missed
  BY QuietLeaves
<1>2. TypeOK /\ ReadType => TypeOK' /\ ReadType'  BY <1>1 DEF TypeOK, ReadType
<1>3. (Credit' <=> Credit) /\ (Lost' <=> Lost)  BY <1>1 DEF Credit, Lost
<1>4. Orphan' <=> Orphan  BY <1>1 DEF Orphan
<1>5. Named => Named'  BY <1>1 DEF Quiet, Named, Workers
<1>6. Calm => Calm'  BY <1>1 DEF Quiet, Calm
<1>7. QED  BY <1>2, <1>3, <1>4, <1>5, <1>6

(* And what they say of the verifier. *)
LEMMA QuietSound ==
  ASSUME ToolType, Quiet
  PROVE  (Sound => Sound') /\ (Uninterrupted => Uninterrupted')
<1>1. /\ UNCHANGED <<strict, whole, terse, workers, found, printing, blocks, threadBlock,
                     current, pending, buffer, failedFor, trailer, outcome>>
      /\ Known' = Known /\ Begun' = Begun /\ (Missed' <=> Missed)
      /\ \A h : Own(h)' = Own(h)
  BY QuietLeaves
<1>2. \A w \in Workers :
        /\ Reading(w)' <=> Reading(w)
        /\ Reading(w) => script'[w] = script[w] /\ job'[w] = job[w]
  BY DEF Quiet
<1>3. Known \subseteq Harnesses  BY DEF Known
<1>4. Attentive => Attentive'
  <2> SUFFICES ASSUME Attentive, NEW w \in Workers, Reading(w)'
               PROVE  (current = job[w] /\ Leads(Own(job[w]), script[w], found[job[w]]))'
    BY DEF Attentive, Workers
  <2>1. /\ script'[w] = script[w] /\ job'[w] = job[w] /\ current = job[w]
        /\ Leads(Own(job[w]), script[w], found[job[w]])
    BY <1>2 DEF Attentive
  <2>2. Own(job[w])' = Own(job[w])  BY <1>1, <2>1 DEF Own
  <2>3. Leads(Own(job[w]), script[w], found[job[w]])'  BY <1>1, <2>1, <2>2, LeadsStays
  <2>4. QED  BY <1>1, <2>1, <2>3
<1>5. Truthful => Truthful'  BY <1>1, <1>3 DEF Truthful, Faithful, Quiet
<1>6. Unprinted => Unprinted'  BY <1>1, <1>2 DEF Unprinted, Body
<1>7. Printed => Printed'
  <2> SUFFICES ASSUME Printed, printing' # None
               PROVE  /\ Reading(printing)' /\ current' # None
                      /\ Leads(Own(current), script[printing], found[job[printing]])'
                      /\ \A w \in Workers \ {printing} :
                           Reading(w)' => script'[w] = Body(found[job[w]])'
    BY <1>1 DEF Printed, Workers
  <2>1. /\ Reading(printing) /\ current # None
        /\ Leads(Own(current), script[printing], found[job[printing]])
        /\ \A w \in Workers \ {printing} : Reading(w) => script[w] = Body(found[job[w]])
    BY <1>1 DEF Printed
  <2>2. printing \in Workers /\ printing' = printing  BY <1>1, <2>1 DEF ToolType
  <2>3. script'[printing] = script[printing] /\ job'[printing] = job[printing]
        /\ Reading(printing)'
    <3> DEFINE w == printing
    <3>1. (Reading(w)' <=> Reading(w)) /\ script'[w] = script[w] /\ job'[w] = job[w]
      BY <1>2, <2>1, <2>2
    <3>2. QED  BY <2>1, <2>2, <3>1 DEF Reading
  <2>4. Own(current)' = Own(current)  BY <1>1 DEF Own
  <2>5. Leads(Own(current), script[printing], found[job[printing]])'
    BY <1>1, <2>1, <2>2, <2>3, <2>4, LeadsStays
  <2>6. ASSUME NEW w \in Workers \ {printing}, Reading(w)'
        PROVE  script'[w] = Body(found[job[w]])'
    <3>1. Reading(w) /\ script'[w] = script[w] /\ job'[w] = job[w]  BY <1>2, <2>6
    <3>2. script[w] = Body(found[job[w]])  BY <2>1, <2>6, <3>1
    <3>3. QED  BY <1>1, <3>1, <3>2 DEF Body
  <2>7. QED  BY <1>1, <2>1, <2>2, <2>3, <2>5, <2>6
<1>8. (Named => Named') /\ (Calm => Calm')  BY QuietKeeps
<1>9. Sound => Sound'  BY <1>1, <1>4, <1>5, <1>8 DEF Sound
<1>10. Uninterrupted => Uninterrupted'  BY <1>1, <1>6, <1>7, <1>8 DEF Uninterrupted
<1>11. QED  BY <1>9, <1>10

-------------------------------------------------------------------------------
(* A line that no other body is in the middle of keeps every body whole *)

(* What printing a line leaves of the other workers. *)
LEMMA OthersStay ==
  ASSUME TypeInv, Order, NEW w \in Workers, Prints(w)
  PROVE  /\ UNCHANGED <<strict, whole, terse, workers, found, waiting, job, log>>
         /\ \A v \in Workers \ {w} : script'[v] = script[v] /\ (Reading(v)' <=> Reading(v))
         /\ script'[w] = Tail(script[w])
<1>1. ToolType /\ Emit(w, Head(script[w]))  BY DEF TypeInv, Prints
<1>2. /\ UNCHANGED <<strict, whole, terse, workers, found, waiting, job, log>>
      /\ \A v \in Workers \ {w} : script'[v] = script[v]
      /\ script'[w] = Tail(script[w])
  BY <1>1, EmitLeaves
<1>3. \A v \in Workers \ {w} : Reading(v)' <=> Reading(v)  BY <1>2 DEF Reading
<1>4. QED  BY <1>2, <1>3

(* The one who reads a body is the one about the current harness. *)
LEMMA ReaderIsAtBody ==
  ASSUME TypeInv, Order, NEW w \in Workers, script[w] # <<>>
  PROVE  /\ Reading(w) <=> AtBody(w)
         /\ AtHarness(w) => ~AtBody(w) /\ ~AtThread(w)
         /\ AtThread(w) => ~AtBody(w)
         /\ AtClosing(w) => ~AtBody(w) /\ ~AtHarness(w) /\ ~AtThread(w)
         /\ ~AtClosing(w) => /\ w \in workers /\ job[w] \in Harnesses /\ job[w] # None
                             /\ ~Told(job[w])
<1>1. ToolType /\ Shared  BY DEF TypeInv, Order
<1> DEFINE kind == Head(script[w]).kind
<1>2. /\ kind = "harness" <=> AtHarness(w)
      /\ kind = "thread" <=> AtThread(w)
      /\ InBody(Head(script[w])) <=> AtBody(w)
      /\ kind \in {"failed for", "trailer"} <=> AtClosing(w)
  BY <1>1, HeadTells
<1>3. InBody(Head(script[w])) <=> kind \notin {"harness", "thread", "failed for", "trailer"}
  BY DEF InBody
<1> HIDE DEF kind
<1>4. ASSUME ~AtClosing(w)
      PROVE  w \in workers /\ job[w] \in Harnesses /\ job[w] # None /\ ~Told(job[w])
  <2>1. Working(w)  BY <1>1, <1>4 DEF Shared, Stage, AtHarness, AtThread, AtBody
  <2>2. w \in workers /\ job[w] \in DOMAIN found  BY <2>1 DEF Working
  <2>3. job[w] \in Harnesses  BY <1>1, <2>2, FoundIsTyped
  <2>4. job[w] # None  BY <2>3, NoneAssumption
  <2>5. ~Told(job[w])  BY <2>2 DEF Told
  <2>6. QED  BY <2>2, <2>3, <2>4, <2>5
<1>5. QED  BY <1>2, <1>3, <1>4 DEF Reading

(* No two of them, while no body is disturbed. *)
LEMMA OneReads ==
  ASSUME TypeInv, Order, Attentive, NEW v \in Workers, NEW w \in Workers, Reading(v), Reading(w)
  PROVE  v = w
<1>1. job[v] = job[w]  BY DEF Attentive
<1>2. script[w] # <<>>  BY DEF Reading
<1>3. AtBody(w) /\ ~AtClosing(w)  BY <1>2, ReaderIsAtBody
<1>4. job[w] # None  BY <1>2, <1>3, ReaderIsAtBody
<1>5. QED  BY <1>1, <1>4 DEF Order, Shared

(* A blank block, of which nothing is pending, is where a reader starts. *)
LEMMA StartsBlank ==
  ASSUME TypeOK, ReadType, NEW h \in Known, blocks[h] = BlankBlock, buffer = NoBuffer
  PROVE  Own(h) = Start
<1>1. ASSUME pending # None PROVE pending.name # h
  <2>1. pending.number \in DOMAIN blocks[pending.name].checks  BY <1>1 DEF TypeOK
  <2>2. BlankBlock.checks = <<>>  BY DEF BlankBlock
  <2>3. DOMAIN <<>> = {}  OBVIOUS
  <2>4. QED  BY <2>1, <2>2, <2>3
<1>2. QED  BY <1>1 DEF Own, Start

(* A line that is read for what it is leaves the harnesses and the threads their blocks. *)
LEMMA NamesStay ==
  ASSUME TypeInv, Order, ~Missed, Named, outcome = None, NEW w \in Workers, Prints(w),
         outcome' = None, buffer = NoBuffer \/ AtBody(w)
  PROVE  ~Missed' /\ Named'
<1> DEFINE h == job[w]
           line == Head(script[w])
<1>1. /\ ToolType /\ TypeOK /\ Shared /\ script[w] # <<>> /\ Emit(w, line)
  BY DEF TypeInv, Order, Prints
<1>2. /\ UNCHANGED <<job, found>> /\ script'[w] = Tail(script[w])
      /\ \A v \in Workers \ {w} : script'[v] = script[v]
  BY OthersStay
<1>3. /\ threadBlock' = IF AtHarness(w) /\ w # Main
                        THEN [threadBlock EXCEPT ![w] = h] ELSE threadBlock
      /\ Known' = IF AtHarness(w) THEN Known \cup {h} ELSE Known
  <2>1. CASE AtHarness(w) /\ buffer = NoBuffer  BY <2>1, HarnessStep
  <2>2. CASE AtThread(w) /\ buffer = NoBuffer
    <3>1. ~AtHarness(w)  BY <1>1, <2>2, ReaderIsAtBody
    <3>2. UNCHANGED <<blocks, threadBlock>>  BY <2>2, ThreadStep
    <3>3. QED  BY <3>1, <3>2 DEF Known
  <2>3. CASE AtClosing(w) /\ buffer = NoBuffer
    <3>1. ~AtHarness(w)  BY <1>1, <2>3, ReaderIsAtBody
    <3>2. UNCHANGED <<blocks, threadBlock>>  BY <2>3, ClosingStep
    <3>3. QED  BY <3>1, <3>2 DEF Known
  <2>4. CASE AtBody(w) /\ buffer = NoBuffer /\ line.kind = "verdict"
    <3>1. ~AtHarness(w)  BY <1>1, <2>4, ReaderIsAtBody
    <3>2. QED  BY <2>4, <3>1, VerdictStep
  <2>5. CASE AtBody(w) /\ (buffer # NoBuffer \/ line.kind # "verdict")
    <3>1. ~AtHarness(w)  BY <1>1, <2>5, ReaderIsAtBody
    <3>2. QED  BY <2>5, <3>1, EditStep
  <2>6. QED  BY <1>1, <2>1, <2>2, <2>3, <2>4, <2>5 DEF Shared, Stage
<1>4. ~Missed'
  <2>1. \A g \in Harnesses : Announced(g)' <=> Announced(g) \/ (AtHarness(w) /\ g = h)
    BY <1>1, EmitTells
  <2>2. QED  BY <1>3, <2>1 DEF Missed
<1>5. Named'
  <2> SUFFICES ASSUME NEW v \in Threads, script'[v] # <<>>, Head(script'[v]).kind = "thread"
               PROVE  threadBlock'[v] = job'[v]
    BY DEF Named
  <2>1. v \in Workers /\ v # Main  BY MainAssumption DEF Workers
  <2>2. threadBlock \in [Threads -> Known \cup {None}]  BY <1>1 DEF TypeOK
  <2>3. CASE v # w
    <3>1. threadBlock[v] = job[v]  BY <1>2, <2>1, <2>3 DEF Named
    <3>2. threadBlock'[v] = threadBlock[v]  BY <1>3, <2>2, <2>3
    <3>3. QED  BY <1>2, <3>1, <3>2
  <2>4. CASE v = w
    <3>1. ~InBody(Head(script'[w]))  BY <2>4 DEF InBody
    <3>2. ~Reading(w)'  BY <3>1 DEF Reading
    <3>3. ~AtThread(w) /\ ~AtBody(w)  BY <1>1, <1>2, <2>4, <3>2, EmitMoves
    <3>4. AtHarness(w)  BY <1>1, <2>1, <2>4, <3>3 DEF Shared, Stage, AtClosing
    <3>5. QED  BY <1>2, <1>3, <2>1, <2>2, <2>4, <3>4
  <2>5. QED  BY <2>3, <2>4
<1>6. QED  BY <1>4, <1>5

(* A harness announces itself while nothing is open. *)
LEMMA HarnessSound ==
  ASSUME TypeInv, Order, Sound, outcome = None, NEW w \in Workers, Prints(w), outcome' = None,
         AtHarness(w), buffer = NoBuffer
  PROVE  Sound'
<1> DEFINE h == job[w]
<1>1. /\ ToolType /\ TypeOK /\ ReadType /\ Shared /\ script[w] # <<>>
      /\ Emit(w, Head(script[w]))
  BY DEF TypeInv, Order, Prints
<1>2. /\ h \in Harnesses \ Known
      /\ Known' = Known \cup {h} /\ \A g \in Known : blocks'[g] = blocks[g]
      /\ blocks'[h] = BlankBlock
      /\ w = Main => current' = h /\ threadBlock' = threadBlock
      /\ w # Main => current' = current /\ threadBlock' = [threadBlock EXCEPT ![w] = h]
      /\ UNCHANGED <<pending, buffer, failedFor, trailer, outcome>>
  BY HarnessStep
<1>3. /\ UNCHANGED <<strict, whole, terse, workers, found, waiting, job, log>>
      /\ \A v \in Workers \ {w} : script'[v] = script[v] /\ (Reading(v)' <=> Reading(v))
      /\ script'[w] = Tail(script[w])
  BY OthersStay
<1>4. ~AtBody(w) /\ ~AtThread(w) /\ ~Reading(w) /\ ~Told(h) /\ w \in workers
  BY <1>1, ReaderIsAtBody
<1>5. /\ \A g \in Harnesses : (Announced(g)' <=> Announced(g) \/ g = h)
                              /\ (Told(g)' <=> Told(g))
      /\ Begun \subseteq Begun'
  BY <1>1, <1>4, EmitTells
<1>6. /\ Tail(script[w]) = Rest(w, found[h])
      /\ Reading(w)' <=> w = Main
      /\ h \in DOMAIN found /\ found[h] \in Reports
  <2>1. h \in DOMAIN found  BY DEF AtHarness, Working
  <2>2. QED  BY <1>1, <2>1, EmitMoves, FoundIsTyped
<1>7. TypeInv'  BY PrintsTyped
<1>8. /\ ~Missed /\ Named /\ Attentive /\ Calm /\ Truthful  BY DEF Sound
<1>9. ~Missed' /\ Named'  BY <1>8, NamesStay
<1>11. ASSUME w = Main, NEW v \in Workers, Reading(v) PROVE FALSE
  <2>1. script[v] # <<>>  BY <1>11 DEF Reading
  <2>2. v \in workers  BY <1>11, <2>1, ReaderIsAtBody
  <2>3. workers = {Main}  BY <1>1, <1>4, <1>11, MainAssumption DEF ToolType
  <2>4. QED  BY <1>4, <1>11, <2>2, <2>3
<1>12. Attentive'
  <2> SUFFICES ASSUME NEW v \in Workers, Reading(v)'
               PROVE  (current = job[v] /\ Leads(Own(job[v]), script[v], found[job[v]]))'
    BY DEF Attentive, Workers
  <2>1. CASE v = w
    <3>1. w = Main /\ current' = h  BY <1>2, <1>6, <2>1
    <3>2. script'[w] = Body(found[h])  BY <1>3, <1>6, <3>1, RestFirst
    <3>3. Own(h)' = Start
      <4>1. (Own(h) = Start)'
        <5>1. (TypeOK /\ ReadType)'  BY <1>7 DEF TypeInv
        <5>2. h' = h /\ h \in Known' /\ buffer' = NoBuffer  BY <1>2, <1>3
        <5>3. ASSUME pending' # None PROVE pending'.name # h
          <6>1. pending.name \in Known  BY <1>1, <1>2, <5>3, BlocksAreTyped
          <6>2. QED  BY <1>2, <6>1
        <5>4. QED  BY <1>2, <5>2, <5>3 DEF Own, Start
      <4>2. QED  BY <4>1
    <3>4. Leads(Start, Body(found[h]), found[h])  BY <1>6, BodyLeads
    <3>5. Leads(Own(h)', script'[w], found[h])  BY <3>2, <3>3, <3>4
    <3>6. QED  BY <1>3, <2>1, <3>1, <3>5, LeadsStays
  <2>2. CASE v # w
    <3>1. Reading(v) /\ script'[v] = script[v]  BY <1>3, <2>2
    <3>2. w # Main  BY <1>11, <3>1
    <3>3. current = job[v] /\ Leads(Own(job[v]), script[v], found[job[v]])
      BY <1>8, <3>1 DEF Attentive
    <3>4. job[v] # None
      <4>1. script[v] # <<>>  BY <3>1 DEF Reading
      <4>2. AtBody(v)  BY <3>1, <4>1, ReaderIsAtBody
      <4>3. QED  BY <4>1, <4>2, ReaderIsAtBody
    <3>5. job[v] \in Known  BY <1>1, <3>3, <3>4, BlocksAreTyped
    <3>6. Own(job[v])' = Own(job[v])  BY <1>2, <1>3, <3>5 DEF Own
    <3>7. Leads(Own(job[v]), script[v], found[job[v]])'
      BY <1>3, <3>1, <3>3, <3>6, LeadsStays
    <3>8. QED  BY <1>2, <1>3, <3>2, <3>3, <3>7
  <2>3. QED  BY <2>1, <2>2
<1>13. Calm'
  <2> SUFFICES ASSUME \A v \in Workers : ~Reading(v)' PROVE current' = None /\ buffer' = NoBuffer
    BY DEF Calm, Workers
  <2>1. w # Main  BY <1>6
  <2>2. \A v \in Workers : ~Reading(v)  BY <1>3, <1>4
  <2>3. QED  BY <1>2, <1>8, <2>1, <2>2 DEF Calm
<1>14. Truthful'
  <2> SUFFICES ASSUME NEW g \in Known'
               PROVE  IF Told(g)' THEN Faithful(blocks[g], found[g])'
                      ELSE blocks'[g].result = None /\ (g \notin Begun' => blocks'[g] = BlankBlock)
    BY DEF Truthful
  <2>1. CASE g = h
    <3>1. ~Told(g)'  BY <1>2, <1>4, <1>5, <2>1
    <3>2. BlankBlock.result = None  BY DEF BlankBlock
    <3>3. QED  BY <1>2, <2>1, <3>1, <3>2
  <2>2. CASE g # h
    <3>1. g \in Known /\ blocks'[g] = blocks[g] /\ g \in Harnesses
      BY <1>2, <2>2 DEF Known
    <3>2. Told(g)' <=> Told(g)  BY <1>5, <3>1
    <3>3. IF Told(g) THEN Faithful(blocks[g], found[g])
          ELSE blocks[g].result = None /\ (g \notin Begun => blocks[g] = BlankBlock)
      BY <1>8, <3>1 DEF Truthful
    <3>4. Faithful(blocks[g], found[g])' <=> Faithful(blocks[g], found[g])
      BY <1>3, <3>1 DEF Faithful
    <3>5. QED  BY <1>5, <3>1, <3>2, <3>3, <3>4
  <2>3. QED  BY <2>1, <2>2
<1>15. QED  BY <1>9, <1>12, <1>13, <1>14 DEF Sound

(* A thread names itself while nothing is current or open. *)
LEMMA ThreadSound ==
  ASSUME TypeInv, Order, Sound, outcome = None, NEW w \in Workers, Prints(w), outcome' = None,
         AtThread(w), buffer = NoBuffer, current = None
  PROVE  Sound'
<1> DEFINE h == job[w]
<1>1. /\ ToolType /\ TypeOK /\ ReadType /\ Shared /\ script[w] # <<>>
      /\ Emit(w, Head(script[w]))
  BY DEF TypeInv, Order, Prints
<1>2. /\ w \in Threads /\ threadBlock[w] \in Known /\ current' = threadBlock[w]
      /\ UNCHANGED <<blocks, threadBlock, pending, buffer, failedFor, trailer, outcome>>
  BY ThreadStep
<1>3. /\ UNCHANGED <<strict, whole, terse, workers, found, waiting, job, log>>
      /\ \A v \in Workers \ {w} : script'[v] = script[v] /\ (Reading(v)' <=> Reading(v))
      /\ script'[w] = Tail(script[w])
  BY OthersStay
<1>4. ~AtBody(w) /\ ~AtHarness(w) /\ ~AtClosing(w) /\ ~Told(h)
  BY <1>1, ReaderIsAtBody
<1>5. /\ \A g \in Harnesses : (Announced(g)' <=> Announced(g)) /\ (Told(g)' <=> Told(g))
      /\ Begun \subseteq Begun' /\ h \notin Begun
  BY <1>1, <1>4, EmitTells DEF Begins
<1>6. /\ Tail(script[w]) = Body(found[h]) /\ Reading(w)' /\ AtBody(w)'
      /\ h \in DOMAIN found /\ found[h] \in Reports
  <2>1. h \in DOMAIN found  BY DEF AtThread, Working
  <2>2. QED  BY <1>1, <2>1, EmitMoves, FoundIsTyped
<1>7. ~Missed /\ Named /\ Attentive /\ Calm /\ Truthful  BY DEF Sound
<1>8. Head(script[w]).kind = "thread"  BY <1>1, HeadTells
<1>9. h \in Known /\ current' = h  BY <1>1, <1>2, <1>7, <1>8 DEF Named
<1>10. Known' = Known  BY <1>2 DEF Known
<1>11. ~Missed' /\ Named'  BY <1>7, NamesStay
<1>13. blocks[h] = BlankBlock  BY <1>4, <1>5, <1>7, <1>9 DEF Truthful
<1>14. Attentive'
  <2> SUFFICES ASSUME NEW v \in Workers, Reading(v)'
               PROVE  (current = job[v] /\ Leads(Own(job[v]), script[v], found[job[v]]))'
    BY DEF Attentive, Workers
  <2>1. v = w
    <3>1. ASSUME v # w PROVE FALSE
      <4>1. Reading(v)  BY <1>3, <3>1
      <4>2. script[v] # <<>>  BY <4>1 DEF Reading
      <4>3. job[v] # None  BY <4>1, <4>2, ReaderIsAtBody
      <4>4. QED  BY <1>7, <4>1, <4>3 DEF Attentive
    <3>2. QED  BY <3>1
  <2>2. Own(h) = Start  BY <1>1, <1>9, <1>13, StartsBlank
  <2>3. Own(h)' = Own(h)  BY <1>2, <1>3 DEF Own
  <2>4. Leads(Start, Body(found[h]), found[h])  BY <1>6, BodyLeads
  <2>5. Leads(Own(h)', script'[w], found[h])  BY <1>3, <1>6, <2>2, <2>3, <2>4
  <2>6. QED  BY <1>3, <1>9, <2>1, <2>5, LeadsStays
<1>15. Calm'  BY <1>6 DEF Calm, Workers
<1>16. Truthful'
  <2> SUFFICES ASSUME NEW g \in Known
               PROVE  IF Told(g)' THEN Faithful(blocks[g], found[g])'
                      ELSE blocks'[g].result = None /\ (g \notin Begun' => blocks'[g] = BlankBlock)
    BY <1>10 DEF Truthful
  <2>1. g \in Harnesses  BY DEF Known
  <2>2. Told(g)' <=> Told(g)  BY <1>5, <2>1
  <2>3. IF Told(g) THEN Faithful(blocks[g], found[g])
        ELSE blocks[g].result = None /\ (g \notin Begun => blocks[g] = BlankBlock)
    BY <1>7 DEF Truthful
  <2>4. Faithful(blocks[g], found[g])' <=> Faithful(blocks[g], found[g])
    BY <1>2, <1>3 DEF Faithful
  <2>5. QED  BY <1>2, <1>5, <2>2, <2>3, <2>4
<1>17. QED  BY <1>11, <1>14, <1>15, <1>16 DEF Sound

(* A line of the body that is being read. *)
LEMMA BodySound ==
  ASSUME TypeInv, Order, Sound, outcome = None, NEW w \in Workers, Prints(w), outcome' = None,
         AtBody(w)
  PROVE  Sound'
<1> DEFINE h == job[w]
           s == script[w]
<1>1. /\ ToolType /\ TypeOK /\ ReadType /\ Shared /\ s # <<>>
      /\ Emit(w, Head(s)) /\ Read(Head(s))
  BY DEF TypeInv, Order, Prints
<1>2. ~Missed /\ Named /\ Attentive /\ Calm /\ Truthful  BY DEF Sound
<1>3. Reading(w) /\ ~AtHarness(w) /\ ~AtThread(w) /\ ~AtClosing(w)
  BY <1>1, ReaderIsAtBody
<1>4. h \in Harnesses /\ h # None /\ ~Told(h)  BY <1>1, <1>3, ReaderIsAtBody
<1>5. current = h /\ Leads(Own(h), s, found[h])  BY <1>2, <1>3 DEF Attentive
<1>6. /\ UNCHANGED <<threadBlock, failedFor, trailer, outcome>>
      /\ \A g \in Harnesses \ {h} : blocks'[g] = blocks[g]
      /\ Tail(s) # <<>> => current' = h /\ Leads(Own(h)', Tail(s), found[h])
      /\ Tail(s) = <<>> => /\ current' = None /\ buffer' = NoBuffer
                           /\ Faithful(blocks'[h], found[h])
  <2>1. BodyLike(s)  BY DEF AtBody
  <2>2. current # None  BY <1>4, <1>5
  <2>3. Leads(Own(current), s, found[h]) /\ Read(Head(s))  BY <1>1, <1>5
  <2>4. /\ UNCHANGED <<threadBlock, failedFor, trailer, outcome>>
        /\ \A g \in Harnesses \ {current} : blocks'[g] = blocks[g]
        /\ Tail(s) # <<>> => current' = current /\ Leads(Own(current)', Tail(s), found[h])
        /\ Tail(s) = <<>> => /\ current' = None /\ buffer' = NoBuffer
                             /\ Faithful(blocks'[current], found[h])
    <3> HIDE DEF s
    <3>1. QED  BY <1>1, <2>1, <2>2, <2>3, BodyStep
  <2>5. ASSUME Tail(s) # <<>> PROVE Leads(Own(h)', Tail(s), found[h])
    <3>1. Leads(Own(current)', Tail(s), found[h]) /\ current' = current  BY <2>4, <2>5
    <3>2. Own(current)' = [block |-> blocks'[current'],
                           number |-> IF pending' # None /\ pending'.name = current'
                                      THEN pending'.number ELSE 0,
                           buffer |-> buffer']
      BY DEF Own
    <3>3. job' = job  BY OthersStay
    <3>4. Own(h)' = [block |-> blocks'[h],
                     number |-> IF pending' # None /\ pending'.name = h
                                THEN pending'.number ELSE 0,
                     buffer |-> buffer']
      BY <3>3 DEF Own
    <3>5. Own(current)' = Own(h)'  BY <1>5, <3>1, <3>2, <3>4
    <3>6. QED  BY <3>1, <3>5
  <2>6. QED  BY <1>5, <2>4, <2>5
<1>7. Known' = Known
  <2>1. CASE buffer = NoBuffer /\ Head(s).kind = "verdict"  BY <2>1, VerdictStep
  <2>2. CASE buffer # NoBuffer \/ Head(s).kind # "verdict"  BY <2>2, EditStep
  <2>3. QED  BY <2>1, <2>2
<1>8. /\ UNCHANGED <<strict, whole, terse, workers, found, waiting, job, log>>
      /\ \A v \in Workers \ {w} : script'[v] = script[v] /\ (Reading(v)' <=> Reading(v))
      /\ script'[w] = Tail(s)
  BY OthersStay
<1>9. /\ Reading(w)' <=> Tail(s) # <<>>
      /\ \A g \in Harnesses : /\ Announced(g)' <=> Announced(g)
                              /\ Told(g)' <=> Told(g) \/ (Tail(s) = <<>> /\ g = h)
      /\ Begun' = Begun
  BY <1>1, <1>3, EmitMoves, EmitTells DEF Begins
<1>10. \A v \in Workers \ {w} : ~Reading(v)  BY <1>2, <1>3, OneReads
<1>11. ~Missed' /\ Named'  BY <1>2, NamesStay
<1>13. Attentive'
  <2> SUFFICES ASSUME NEW v \in Workers, Reading(v)'
               PROVE  (current = job[v] /\ Leads(Own(job[v]), script[v], found[job[v]]))'
    BY DEF Attentive, Workers
  <2>1. v = w  BY <1>8, <1>10
  <2>2. Tail(s) # <<>>  BY <1>9, <2>1
  <2>3. Leads(Own(h)', script'[w], found[h]) /\ current' = h  BY <1>6, <1>8, <2>2
  <2>4. QED  BY <1>8, <2>1, <2>3, LeadsStays
<1>14. Calm'
  <2> SUFFICES ASSUME ~Reading(w)' PROVE current' = None /\ buffer' = NoBuffer
    BY DEF Calm, Workers
  <2>1. QED  BY <1>6, <1>9
<1>15. Truthful'
  <2> SUFFICES ASSUME NEW g \in Known
               PROVE  IF Told(g)' THEN Faithful(blocks[g], found[g])'
                      ELSE blocks'[g].result = None /\ (g \notin Begun' => blocks'[g] = BlankBlock)
    BY <1>7 DEF Truthful
  <2>1. g \in Harnesses  BY DEF Known
  <2>2. CASE g # h
    <3>1. blocks'[g] = blocks[g] /\ (Told(g)' <=> Told(g))  BY <1>6, <1>9, <2>1, <2>2
    <3>2. IF Told(g) THEN Faithful(blocks[g], found[g])
          ELSE blocks[g].result = None /\ (g \notin Begun => blocks[g] = BlankBlock)
      BY <1>2 DEF Truthful
    <3>3. Faithful(blocks[g], found[g])' <=> Faithful(blocks[g], found[g])
      BY <1>8, <3>1 DEF Faithful
    <3>4. QED  BY <1>9, <3>1, <3>2, <3>3
  <2>3. CASE g = h /\ Tail(s) = <<>>
    <3>1. Told(g)'  BY <1>9, <2>1, <2>3
    <3>2. Faithful(blocks'[g], found[g])  BY <1>6, <2>3
    <3>3. Faithful(blocks[g], found[g])'  BY <1>8, <3>2 DEF Faithful
    <3>4. QED  BY <3>1, <3>3
  <2>4. CASE g = h /\ Tail(s) # <<>>
    <3>1. ~Told(g)'  BY <1>4, <1>9, <2>1, <2>4
    <3>2. Head(s).kind # "verdict"  BY <2>4, BodyFirst DEF AtBody
    <3>3. blocks'[g].result = blocks[g].result  BY <3>2, EditStep
    <3>4. blocks[g].result = None  BY <1>2, <1>4, <2>4 DEF Truthful
    <3>5. g \in Begun'
      <4>1. h \in DOMAIN found \ waiting  BY DEF AtBody, Working
      <4>2. \A v \in Workers : job[v] = h => v = w  BY <1>1, <1>4 DEF Shared
      <4>3. InBody(Head(s))  BY <1>3 DEF Reading
      <4>4. h \in Begun  BY <4>1, <4>2, <4>3 DEF Begun
      <4>5. QED  BY <1>9, <2>4, <4>4
    <3>6. QED  BY <3>1, <3>3, <3>4, <3>5
  <2>5. QED  BY <2>2, <2>3, <2>4
<1>16. QED  BY <1>11, <1>13, <1>14, <1>15 DEF Sound

(* A closing line: every body is over. *)
LEMMA ClosingSound ==
  ASSUME TypeInv, Order, Sound, outcome = None, NEW w \in Workers, Prints(w), outcome' = None,
         AtClosing(w)
  PROVE  Sound'
<1>1. /\ ToolType /\ TypeOK /\ ReadType /\ Shared /\ script[w] # <<>>
      /\ Emit(w, Head(script[w]))
  BY DEF TypeInv, Order, Prints
<1>2. ~Missed /\ Named /\ Attentive /\ Calm /\ Truthful  BY DEF Sound
<1>3. ~AtBody(w) /\ ~AtHarness(w) /\ ~AtThread(w)  BY <1>1, ReaderIsAtBody
<1>4. \A v \in Workers : ~Reading(v)
  <2> SUFFICES ASSUME NEW v \in Workers, Reading(v) PROVE FALSE
    OBVIOUS
  <2>1. AtBody(v)  BY ReaderIsAtBody DEF Reading
  <2>2. QED  BY <2>1 DEF AtBody, Working, AtClosing
<1>5. current = None /\ buffer = NoBuffer  BY <1>2, <1>4 DEF Calm
<1>6. UNCHANGED <<blocks, threadBlock, current, pending, buffer, outcome>>
  BY <1>5, ClosingStep
<1>7. /\ UNCHANGED <<strict, whole, terse, workers, found, waiting, job, log>>
      /\ \A v \in Workers \ {w} : script'[v] = script[v] /\ (Reading(v)' <=> Reading(v))
      /\ script'[w] = Tail(script[w])
  BY OthersStay
<1>8. /\ \A g \in Harnesses : (Announced(g)' <=> Announced(g)) /\ (Told(g)' <=> Told(g))
      /\ Begun' = Begun /\ ~Reading(w)'
  BY <1>1, <1>3, EmitTells, EmitMoves DEF Begins
<1>9. Known' = Known  BY <1>6 DEF Known
<1>10. ~Missed' /\ Named'  BY <1>2, <1>5, NamesStay
<1>12. Attentive'  BY <1>4, <1>7, <1>8 DEF Attentive, Workers
<1>13. Calm'  BY <1>5, <1>6 DEF Calm
<1>14. Truthful'
  <2> SUFFICES ASSUME NEW g \in Known
               PROVE  IF Told(g)' THEN Faithful(blocks[g], found[g])'
                      ELSE blocks'[g].result = None /\ (g \notin Begun' => blocks'[g] = BlankBlock)
    BY <1>9 DEF Truthful
  <2>1. g \in Harnesses  BY DEF Known
  <2>2. IF Told(g) THEN Faithful(blocks[g], found[g])
        ELSE blocks[g].result = None /\ (g \notin Begun => blocks[g] = BlankBlock)
    BY <1>2 DEF Truthful
  <2>3. Faithful(blocks[g], found[g])' <=> Faithful(blocks[g], found[g])
    BY <1>6, <1>7 DEF Faithful
  <2>4. QED  BY <1>6, <1>8, <2>1, <2>2, <2>3
<1>15. QED  BY <1>10, <1>12, <1>13, <1>14 DEF Sound

(* A harness that announces itself in an open description or message is missed. *)
LEMMA HarnessMissed ==
  ASSUME TypeInv, Order, outcome = None, NEW w \in Workers, Prints(w), outcome' = None,
         AtHarness(w), buffer # NoBuffer
  PROVE  Missed'
<1>1. ToolType /\ Shared /\ script[w] # <<>> /\ Emit(w, Head(script[w]))
  BY DEF TypeInv, Order, Prints
<1>2. ~AtClosing(w) /\ job[w] \in Harnesses
  <2>1. ~AtClosing(w)  BY <1>1, ReaderIsAtBody
  <2>2. QED  BY <1>1, <2>1, ReaderIsAtBody
<1>3. Announced(job[w])' /\ ~Announced(job[w])
  <2>1. \A g \in Harnesses : Announced(g)' <=> Announced(g) \/ g = job[w]
    BY <1>1, EmitTells
  <2>2. job' = job  BY OthersStay
  <2>3. Announced(job[w])'  BY <1>2, <2>1, <2>2
  <2>4. QED  BY <1>1, <2>3, EmitTells
<1>4. Known' = Known  BY EditStep
<1>5. job[w] \notin Known  BY <1>3 DEF Order
<1>6. job' = job  BY OthersStay
<1>7. QED  BY <1>2, <1>3, <1>4, <1>5, <1>6 DEF Missed

(* After a line no body was disturbed, or a verdict or a harness is missing for good. *)
LEMMA PrintsSound ==
  ASSUME TypeInv, Order, Credit, Sound, outcome = None, NEW w \in Workers, Prints(w),
         outcome' = None
  PROVE  Sound' \/ Lost' \/ Missed'
<1>1. CASE AtHarness(w)  BY <1>1, HarnessSound, HarnessMissed
<1>2. CASE AtThread(w)
  <2>1. CASE buffer = NoBuffer /\ current = None  BY <1>2, <2>1, ThreadSound
  <2>2. CASE buffer # NoBuffer \/ current # None  BY <1>2, <2>2, PrintsCredited DEF Begins
  <2>3. QED  BY <2>1, <2>2
<1>3. CASE AtBody(w)  BY <1>3, BodySound
<1>4. CASE AtClosing(w)  BY <1>4, ClosingSound
<1>5. QED  BY <1>1, <1>2, <1>3, <1>4 DEF Prints, Order, Shared, Stage

-------------------------------------------------------------------------------
(* Bodies that are not interrupted *)

(* The lock on the output: whoever is in the middle of a body has it. *)
LEMMA LockStep ==
  ASSUME TypeInv, Order, whole, Uninterrupted, NEW w \in Workers, Prints(w)
  PROVE  /\ printing \in {None, w}
         /\ ~AtBody(w) => printing = None /\ printing' = None /\ buffer = NoBuffer
         /\ AtBody(w) => printing' = IF Tail(script[w]) = <<>> THEN None ELSE w
<1> DEFINE line == Head(script[w])
<1>1. ToolType /\ Shared /\ script[w] # <<>> /\ Emit(w, line)
  BY DEF TypeInv, Order, Prints
<1>2. /\ printing \in {None, w}
      /\ printing' = IF InBody(line) /\ line.kind # "verdict" THEN w ELSE None
  BY <1>1 DEF Emit
<1>3. InBody(line) <=> AtBody(w)  BY <1>1, HeadTells
<1>4. AtBody(w) => (line.kind = "verdict" <=> Tail(script[w]) = <<>>)
  BY BodyFirst DEF AtBody
<1>5. ~AtBody(w) => printing = None /\ buffer = NoBuffer
  <2> SUFFICES ASSUME ~AtBody(w) PROVE printing = None /\ buffer = NoBuffer
    OBVIOUS
  <2>1. ~Reading(w)  BY <1>1, ReaderIsAtBody
  <2>2. printing # None => Reading(printing)  BY DEF Uninterrupted, Printed
  <2>3. printing = None  BY <1>2, <2>1, <2>2
  <2>4. QED  BY <2>3 DEF Uninterrupted, Unprinted
<1> HIDE DEF line
<1>6. QED  BY <1>2, <1>3, <1>4, <1>5

(* A harness announces itself: nobody is in the middle of a body. *)
LEMMA HarnessWhole ==
  ASSUME TypeInv, Order, outcome = None, NEW w \in Workers, Prints(w), outcome' = None,
         AtHarness(w), whole, Uninterrupted
  PROVE  Uninterrupted' /\ (Sound => Sound') /\ (Orphan => Orphan')
<1> DEFINE h == job[w]
<1>1. /\ ToolType /\ TypeOK /\ ReadType /\ Shared /\ script[w] # <<>>
      /\ Emit(w, Head(script[w]))
  BY DEF TypeInv, Order, Prints
<1>2. ~AtBody(w) /\ ~AtThread(w)  BY <1>1, ReaderIsAtBody
<1>3. printing = None /\ printing' = None /\ buffer = NoBuffer  BY <1>2, LockStep
<1>4. /\ h \in Harnesses \ Known
      /\ Known' = Known \cup {h} /\ \A g \in Known : blocks'[g] = blocks[g]
      /\ blocks'[h] = BlankBlock
      /\ w = Main => current' = h
      /\ w # Main => current' = current
      /\ UNCHANGED <<pending, buffer, failedFor, trailer, outcome>>
  BY <1>3, HarnessStep
<1>5. /\ UNCHANGED <<strict, whole, terse, workers, found, waiting, job, log>>
      /\ \A v \in Workers \ {w} : script'[v] = script[v] /\ (Reading(v)' <=> Reading(v))
      /\ script'[w] = Tail(script[w])
  BY OthersStay
<1>6. Begun \subseteq Begun' /\ (w = Main => h \in Begun')
  BY <1>1, EmitTells DEF Begins
<1>7. /\ Reading(w)' => w = Main
      /\ Tail(script[w]) = Rest(w, found[h])
      /\ found[h] \in Reports
  <2>1. h \in DOMAIN found  BY DEF AtHarness, Working
  <2>2. QED  BY <1>1, <2>1, EmitMoves, FoundIsTyped
<1>8. /\ ~Missed /\ Named /\ (current # None => current \in Begun)
      /\ \A g \in Known \ Begun : blocks[g] = BlankBlock
      /\ Unprinted
  BY DEF Uninterrupted
<1>9. ~Missed' /\ Named'  BY <1>3, <1>8, NamesStay
<1>10. current' # None => current' \in Begun'  BY <1>4, <1>6, <1>8
<1>11. \A g \in Known' \ Begun' : blocks'[g] = BlankBlock  BY <1>4, <1>6, <1>8
<1>12. Unprinted'
  <2>1. current' # None => blocks'[current'] = BlankBlock
    <3>1. CASE w = Main  BY <1>4, <3>1
    <3>2. CASE w # Main
      <4>1. current # None => current \in Known  BY <1>1, BlocksAreTyped
      <4>2. QED  BY <1>3, <1>4, <1>8, <3>2, <4>1 DEF Unprinted
    <3>3. QED  BY <3>1, <3>2
  <2>2. ASSUME NEW v \in Workers, Reading(v)' PROVE script'[v] = Body(found[job[v]])'
    <3>1. CASE v = w
      <4>1. script'[w] = Body(found[h])  BY <1>5, <1>7, <2>2, <3>1, RestFirst
      <4>2. QED  BY <1>5, <3>1, <4>1 DEF Body
    <3>2. CASE v # w
      <4>1. script[v] = Body(found[job[v]])  BY <1>3, <1>5, <1>8, <2>2, <3>2 DEF Unprinted
      <4>2. QED  BY <1>5, <3>2, <4>1 DEF Body
    <3>3. QED  BY <3>1, <3>2
  <2>3. QED  BY <1>3, <1>4, <2>1, <2>2 DEF Unprinted, Workers
<1>13. Printed'  BY <1>3 DEF Printed
<1>14. Uninterrupted'  BY <1>9, <1>10, <1>11, <1>12, <1>13 DEF Uninterrupted
<1>15. Sound => Sound'  BY <1>3, HarnessSound
<1>16. Orphan => Orphan'
  <2> SUFFICES ASSUME NEW g \in Known, g \in Begun, current # g, blocks[g] = BlankBlock
               PROVE  Orphan'
    BY DEF Orphan
  <2>1. g # h /\ g \in Known' /\ g \in Begun'  BY <1>4, <1>6
  <2>2. current' # g /\ blocks'[g] = BlankBlock  BY <1>4, <2>1
  <2>3. QED  BY <2>1, <2>2 DEF Orphan
<1>17. QED  BY <1>14, <1>15, <1>16

(* A thread names itself: whose body it cuts off has not been told a line. *)
LEMMA ThreadWhole ==
  ASSUME TypeInv, Order, outcome = None, NEW w \in Workers, Prints(w), outcome' = None,
         AtThread(w), whole, Uninterrupted
  PROVE  Uninterrupted' /\ (Sound \/ Orphan => Sound' \/ Orphan')
<1> DEFINE h == job[w]
<1>1. /\ ToolType /\ TypeOK /\ ReadType /\ Shared /\ script[w] # <<>>
      /\ Emit(w, Head(script[w]))
  BY DEF TypeInv, Order, Prints
<1>2. ~AtBody(w) /\ ~AtHarness(w)  BY <1>1, ReaderIsAtBody
<1>3. printing = None /\ printing' = None /\ buffer = NoBuffer  BY <1>2, LockStep
<1>4. /\ w \in Threads /\ threadBlock[w] \in Known /\ current' = threadBlock[w]
      /\ UNCHANGED <<blocks, threadBlock, pending, buffer, failedFor, trailer, outcome>>
  BY <1>3, ThreadStep
<1>5. /\ UNCHANGED <<strict, whole, terse, workers, found, waiting, job, log>>
      /\ \A v \in Workers \ {w} : script'[v] = script[v] /\ (Reading(v)' <=> Reading(v))
      /\ script'[w] = Tail(script[w])
  BY OthersStay
<1>6. Begun' = Begun \cup {h} /\ h \notin Begun  BY <1>1, EmitTells DEF Begins
<1>7. Tail(script[w]) = Body(found[h])  BY <1>1, EmitMoves
<1>8. /\ ~Missed /\ Named /\ (current # None => current \in Begun)
      /\ \A g \in Known \ Begun : blocks[g] = BlankBlock
      /\ Unprinted
  BY DEF Uninterrupted
<1>9. Head(script[w]).kind = "thread"  BY <1>1, HeadTells
<1>10. h \in Known /\ current' = h /\ Known' = Known  BY <1>1, <1>4, <1>8, <1>9 DEF Named, Known
<1>11. ~Missed' /\ Named'  BY <1>3, <1>8, NamesStay
<1>12. Unprinted'
  <2>1. blocks'[current'] = BlankBlock  BY <1>4, <1>6, <1>8, <1>10
  <2>2. ASSUME NEW v \in Workers, Reading(v)' PROVE script'[v] = Body(found[job[v]])'
    <3>1. CASE v = w  BY <1>5, <1>7, <3>1 DEF Body
    <3>2. CASE v # w
      <4>1. script[v] = Body(found[job[v]])  BY <1>3, <1>5, <1>8, <2>2, <3>2 DEF Unprinted
      <4>2. QED  BY <1>5, <3>2, <4>1 DEF Body
    <3>3. QED  BY <3>1, <3>2
  <2>3. QED  BY <1>3, <1>4, <2>1, <2>2 DEF Unprinted, Workers
<1>13. Printed'  BY <1>3 DEF Printed
<1>14. Uninterrupted'
  <2>1. current' # None => current' \in Begun'  BY <1>6, <1>10
  <2>2. \A g \in Known' \ Begun' : blocks'[g] = BlankBlock  BY <1>4, <1>6, <1>8, <1>10
  <2>3. QED  BY <1>11, <1>12, <1>13, <2>1, <2>2 DEF Uninterrupted
<1>15. (\E g \in Known : g \in Begun /\ blocks[g] = BlankBlock) => Orphan'
  <2> SUFFICES ASSUME NEW g \in Known, g \in Begun, blocks[g] = BlankBlock PROVE Orphan'
    OBVIOUS
  <2>1. g \in Known' /\ g \in Begun' /\ current' # g /\ blocks'[g] = BlankBlock
    BY <1>4, <1>6, <1>10
  <2>2. QED  BY <2>1 DEF Orphan
<1>16. CASE Orphan
  <2>1. \E g \in Known : g \in Begun /\ blocks[g] = BlankBlock  BY <1>16 DEF Orphan
  <2>2. QED  BY <1>14, <1>15, <2>1
<1>17. CASE Sound
  <2>1. CASE current = None  BY <1>3, <1>14, <1>17, <2>1, ThreadSound
  <2>2. CASE current # None
    <3>1. current \in Known  BY <1>1, <2>2, BlocksAreTyped
    <3>2. current \in Begun /\ blocks[current] = BlankBlock
      BY <1>3, <1>8, <2>2 DEF Unprinted
    <3>3. QED  BY <1>14, <1>15, <3>1, <3>2
  <2>3. QED  BY <2>1, <2>2
<1>18. QED  BY <1>14, <1>16, <1>17

(* A body is read from its first line by whoever is current then. *)
LEMMA BodyIsWhole ==
  ASSUME TypeInv, Order, NEW w \in Workers, Prints(w), outcome = None, outcome' = None,
         AtBody(w), whole, Uninterrupted
  PROVE  current # None /\ Leads(Own(current), script[w], found[job[w]])
<1> DEFINE r == found[job[w]]
<1>1. ToolType /\ TypeOK /\ ReadType /\ script[w] # <<>> /\ Read(Head(script[w]))
  BY DEF TypeInv, Order, Prints
<1>2. printing \in {None, w}  BY LockStep
<1>3. Reading(w)  BY <1>1, ReaderIsAtBody
<1>4. CASE printing = None
  <2>1. /\ buffer = NoBuffer /\ (current # None => blocks[current] = BlankBlock)
        /\ script[w] = Body(r)
    BY <1>3, <1>4 DEF Uninterrupted, Unprinted
  <2>2. r \in Reports
    <3>1. job[w] \in DOMAIN found  BY DEF AtBody, Working
    <3>2. QED  BY <1>1, <3>1, FoundIsTyped
  <2>3. Leads(Start, Body(r), r) /\ Head(script[w]).kind = "section"  BY <2>1, <2>2, BodyLeads
  <2>4. current # None
    <3>1. ASSUME current = None PROVE FALSE
      <4>1. Refuse  BY <1>1, <2>1, <2>3, <3>1, ReadBy
      <4>2. Refused # None  BY NoneAssumption
      <4>3. QED  BY <4>1, <4>2 DEF Refuse
    <3>2. QED  BY <3>1
  <2>5. current \in Known  BY <1>1, <2>4, BlocksAreTyped
  <2>6. Own(current) = Start  BY <1>1, <2>1, <2>4, <2>5, StartsBlank
  <2>7. QED  BY <2>1, <2>3, <2>4, <2>6
<1>5. CASE printing = w
  <2>1. w # None  BY NoneAssumption DEF Workers
  <2>2. QED  BY <1>5, <2>1 DEF Uninterrupted, Printed
<1>6. QED  BY <1>2, <1>4, <1>5

(* A line of a body: nobody else is in the middle of one. *)
LEMMA BodyWhole ==
  ASSUME TypeInv, Order, outcome = None, NEW w \in Workers, Prints(w), outcome' = None,
         AtBody(w), whole, Uninterrupted
  PROVE  Uninterrupted' /\ (Sound => Sound') /\ (Orphan => Orphan')
<1> DEFINE s == script[w]
           r == found[job[w]]
<1>1. /\ ToolType /\ TypeOK /\ ReadType /\ Shared /\ s # <<>>
      /\ Emit(w, Head(s)) /\ Read(Head(s))
  BY DEF TypeInv, Order, Prints
<1>2. ~AtHarness(w) /\ ~AtThread(w)  BY <1>1, ReaderIsAtBody
<1>3. /\ printing \in {None, w}
      /\ printing' = IF Tail(s) = <<>> THEN None ELSE w
  BY LockStep
<1>4. current # None /\ Leads(Own(current), s, r)  BY BodyIsWhole
<1>5. /\ UNCHANGED <<threadBlock, failedFor, trailer, outcome>>
      /\ \A g \in Harnesses \ {current} : blocks'[g] = blocks[g]
      /\ Tail(s) # <<>> => current' = current /\ Leads(Own(current)', Tail(s), r)
      /\ Tail(s) = <<>> => current' = None /\ buffer' = NoBuffer
  <2>1. BodyLike(s)  BY DEF AtBody
  <2> HIDE DEF s, r
  <2>2. QED  BY <1>1, <1>4, <2>1, BodyStep
<1>6. Known' = Known
  <2>1. CASE buffer = NoBuffer /\ Head(s).kind = "verdict"  BY <2>1, VerdictStep
  <2>2. CASE buffer # NoBuffer \/ Head(s).kind # "verdict"  BY <2>2, EditStep
  <2>3. QED  BY <2>1, <2>2
<1>7. /\ UNCHANGED <<strict, whole, terse, workers, found, waiting, job, log>>
      /\ \A v \in Workers \ {w} : script'[v] = script[v] /\ (Reading(v)' <=> Reading(v))
      /\ script'[w] = Tail(s)
  BY OthersStay
<1>8. Begun' = Begun /\ (Reading(w)' <=> Tail(s) # <<>>)
  BY <1>1, <1>2, EmitTells, EmitMoves DEF Begins
<1>9. /\ ~Missed /\ Named /\ (current # None => current \in Begun)
      /\ \A g \in Known \ Begun : blocks[g] = BlankBlock
      /\ Unprinted /\ Printed
  BY DEF Uninterrupted
<1>10. ~Missed' /\ Named'  BY <1>9, NamesStay
<1>11. current' \in {current, None}  BY <1>5
<1>12. Known \subseteq Harnesses  BY DEF Known
<1>13. \A g \in Known' \ Begun' : blocks'[g] = BlankBlock
  BY <1>4, <1>5, <1>6, <1>8, <1>9, <1>12
<1>14. ASSUME NEW v \in Workers \ {w}, Reading(v)' PROVE script'[v] = Body(found[job[v]])'
  <2>1. w # None  BY NoneAssumption DEF Workers
  <2>2. Reading(v)  BY <1>7, <1>14
  <2>3. script[v] = Body(found[job[v]])
    <3>1. CASE printing = None  BY <1>9, <2>2, <3>1 DEF Unprinted
    <3>2. CASE printing = w  BY <1>9, <2>1, <2>2, <3>2 DEF Printed
    <3>3. QED  BY <1>3, <3>1, <3>2
  <2>4. QED  BY <1>7, <2>3 DEF Body
<1>15. Unprinted'
  <2>1. CASE Tail(s) = <<>>
    <3>1. \A v \in Workers : Reading(v)' => script'[v] = Body(found[job[v]])'
      BY <1>8, <1>14, <2>1
    <3>2. QED  BY <1>5, <2>1, <3>1 DEF Unprinted, Workers
  <2>2. CASE Tail(s) # <<>>
    <3>1. w # None  BY NoneAssumption DEF Workers
    <3>2. printing' # None  BY <1>3, <2>2, <3>1
    <3>3. QED  BY <3>2 DEF Unprinted
  <2>3. QED  BY <2>1, <2>2
<1>16. Printed'
  <2>1. CASE Tail(s) = <<>>
    <3>1. printing' = None  BY <1>3, <2>1
    <3>2. QED  BY <3>1 DEF Printed
  <2>2. CASE Tail(s) # <<>>
    <3>1. printing' = w /\ Reading(w)' /\ current' = current  BY <1>3, <1>5, <1>8, <2>2
    <3>2. Leads(Own(current)', script'[w], r)  BY <1>5, <1>7, <2>2
    <3>3. Leads(Own(current), script[w], found[job[w]])'  BY <1>7, <3>2, LeadsStays
    <3>4. /\ Reading(printing)' /\ current' # None
          /\ Leads(Own(current), script[printing], found[job[printing]])'
      BY <1>4, <1>7, <3>1, <3>3 DEF Reading
    <3>5. \A v \in Workers \ {w} : Reading(v)' => script'[v] = Body(found[job[v]])'
      BY <1>14
    <3>6. QED  BY <3>1, <3>4, <3>5 DEF Printed, Workers
  <2>3. QED  BY <2>1, <2>2
<1>17. Uninterrupted'
  BY <1>8, <1>9, <1>10, <1>11, <1>13, <1>15, <1>16 DEF Uninterrupted
<1>18. Sound => Sound'  BY BodySound
<1>19. Orphan => Orphan'
  <2> SUFFICES ASSUME NEW g \in Known, g \in Begun, current # g, blocks[g] = BlankBlock
               PROVE  Orphan'
    BY DEF Orphan
  <2>1. g # None  BY NoneAssumption DEF Known
  <2>2. g \in Known' /\ g \in Begun' /\ current' # g  BY <1>6, <1>8, <1>11, <2>1
  <2>3. blocks'[g] = BlankBlock  BY <1>5, <1>12
  <2>4. QED  BY <2>2, <2>3 DEF Orphan
<1>20. QED  BY <1>17, <1>18, <1>19

(* A closing line: every body is over. *)
LEMMA ClosingWhole ==
  ASSUME TypeInv, Order, outcome = None, NEW w \in Workers, Prints(w), outcome' = None,
         AtClosing(w), whole, Uninterrupted
  PROVE  Uninterrupted' /\ (Sound => Sound') /\ (Orphan => Orphan')
<1>1. /\ ToolType /\ TypeOK /\ ReadType /\ Shared /\ script[w] # <<>>
      /\ Emit(w, Head(script[w]))
  BY DEF TypeInv, Order, Prints
<1>2. ~AtBody(w) /\ ~AtThread(w) /\ ~AtHarness(w)  BY <1>1, ReaderIsAtBody
<1>3. printing = None /\ printing' = None /\ buffer = NoBuffer  BY <1>2, LockStep
<1>4. UNCHANGED <<blocks, threadBlock, current, pending, buffer, outcome>>
  BY <1>3, ClosingStep
<1>5. /\ UNCHANGED <<strict, whole, terse, workers, found, waiting, job, log>>
      /\ \A v \in Workers \ {w} : script'[v] = script[v] /\ (Reading(v)' <=> Reading(v))
  BY OthersStay
<1>6. Begun' = Begun /\ ~Reading(w)'  BY <1>1, <1>2, EmitTells, EmitMoves DEF Begins
<1>7. /\ ~Missed /\ Named /\ (current # None => current \in Begun)
      /\ \A g \in Known \ Begun : blocks[g] = BlankBlock
      /\ Unprinted
  BY DEF Uninterrupted
<1>8. Known' = Known  BY <1>4 DEF Known
<1>9. ~Missed' /\ Named'  BY <1>3, <1>7, NamesStay
<1>10. Unprinted'
  <2>1. ASSUME NEW v \in Workers, Reading(v)' PROVE script'[v] = Body(found[job[v]])'
    <3>1. v # w  BY <1>6, <2>1
    <3>2. script[v] = Body(found[job[v]])  BY <1>3, <1>5, <1>7, <2>1, <3>1 DEF Unprinted
    <3>3. QED  BY <1>5, <3>1, <3>2 DEF Body
  <2>2. QED  BY <1>3, <1>4, <1>7, <2>1 DEF Unprinted, Workers
<1>11. Printed'  BY <1>3 DEF Printed
<1>12. Uninterrupted'  BY <1>4, <1>6, <1>7, <1>8, <1>9, <1>10, <1>11 DEF Uninterrupted
<1>13. Sound => Sound'  BY ClosingSound
<1>14. Orphan => Orphan'  BY <1>4, <1>6, <1>8 DEF Orphan
<1>15. QED  BY <1>12, <1>13, <1>14

(* Where bodies are not interrupted, a line never mixes two. *)
LEMMA PrintsWhole ==
  ASSUME TypeInv, Order, outcome = None, NEW w \in Workers, Prints(w), outcome' = None,
         whole, Uninterrupted
  PROVE  Uninterrupted' /\ (Sound \/ Orphan => Sound' \/ Orphan')
<1>1. CASE AtHarness(w)  BY <1>1, HarnessWhole
<1>2. CASE AtThread(w)  BY <1>2, ThreadWhole
<1>3. CASE AtBody(w)  BY <1>3, BodyWhole
<1>4. CASE AtClosing(w)  BY <1>4, ClosingWhole
<1>5. QED  BY <1>1, <1>2, <1>3, <1>4 DEF Prints, Order, Shared, Stage

(* A line, whoever printed it. *)
LEMMA PrintsDynamics ==
  ASSUME TypeInv, Dynamics, outcome = None, NEW w \in Workers, Prints(w), outcome' = None
  PROVE  Dynamics'
<1>1. Order /\ Credit /\ (Sound \/ Lost \/ Missed) /\ (whole => Uninterrupted /\ (Sound \/ Orphan))
  BY DEF Dynamics
<1>2. Order' /\ (Missed => Missed')  BY <1>1, PrintsOrdered
<1>3. Credit' /\ (Lost => Lost')  BY <1>1, PrintsCredited
<1>4. Sound' \/ Lost' \/ Missed'  BY <1>1, <1>2, <1>3, PrintsSound
<1>5. whole' = whole  BY <1>1, OthersStay
<1>6. whole' => Uninterrupted' /\ (Sound' \/ Orphan')  BY <1>1, <1>5, PrintsWhole
<1>7. QED  BY <1>2, <1>3, <1>4, <1>6 DEF Dynamics

-------------------------------------------------------------------------------
(* Every step until the log ends *)

(* Nothing has happened yet. *)
LEMMA InitDynamics ==
  ASSUME Init
  PROVE  TypeInv /\ Dynamics /\ outcome = None
<1>1. /\ strict \in BOOLEAN /\ whole \in BOOLEAN /\ terse \in BOOLEAN
      /\ workers \in {{Main}, Threads} /\ found \in Findings /\ waiting = DOMAIN found
      /\ job = [w \in Workers |-> None] /\ script = [w \in Workers |-> <<>>]
      /\ printing = None /\ log = "open" /\ blocks = [h \in Harnesses |-> None]
      /\ threadBlock = [t \in Threads |-> None] /\ current = None /\ pending = None
      /\ buffer = NoBuffer /\ failedFor = {} /\ trailer = None /\ outcome = None
  BY DEF Init, Workers
<1>2. Known = {} /\ Having = {}  BY <1>1 DEF Known, Having
<1>3. Begun = {}  BY <1>1 DEF Begun
<1>4. \A w \in Workers : script[w] = <<>> /\ job[w] = None /\ ~Reading(w)
  BY <1>1 DEF Reading
<1>5. \A h \in Harnesses : ~Announced(h)  BY <1>1 DEF Announced
<1>6. TypeInv
  <2>1. TypeOK  BY <1>1, <1>2 DEF TypeOK
  <2>2. ToolType  BY <1>1, EmptySeq DEF ToolType
  <2>3. QED  BY <1>1, <2>1, <2>2 DEF TypeInv, ReadType
<1>7. Order  BY <1>1, <1>2, <1>4 DEF Order, Shared, Stage
<1>8. Credit
  <2>1. Busy = 0  BY <1>1 DEF Busy
  <2>2. Cardinality({}) = 0  BY FS_EmptySet
  <2>3. QED  BY <1>2, <1>3, <2>1, <2>2 DEF Credit
<1>9. ~Missed  BY <1>5 DEF Missed
<1>10. Named  BY <1>4 DEF Named, Workers
<1>11. Sound  BY <1>1, <1>2, <1>4, <1>9, <1>10 DEF Sound, Attentive, Calm, Truthful
<1>12. Uninterrupted
  BY <1>1, <1>2, <1>4, <1>9, <1>10 DEF Uninterrupted, Unprinted, Printed
<1>13. QED  BY <1>1, <1>6, <1>7, <1>8, <1>11, <1>12 DEF Dynamics

(* A quiet step that keeps the order of things keeps the rest. *)
LEMMA QuietDynamics ==
  ASSUME TypeInv, Dynamics, ToolType', Order', Quiet
  PROVE  TypeInv' /\ Dynamics'
<1>1. Order /\ Credit /\ (Sound \/ Lost \/ Missed) /\ (whole => Uninterrupted /\ (Sound \/ Orphan))
  BY DEF Dynamics
<1>2. /\ (Credit' <=> Credit) /\ (Lost' <=> Lost) /\ (Orphan' <=> Orphan)
      /\ (TypeOK /\ ReadType => TypeOK' /\ ReadType')
  BY QuietKeeps
<1>3. (Missed' <=> Missed) /\ whole' = whole  BY QuietLeaves
<1>4. (Sound => Sound') /\ (Uninterrupted => Uninterrupted')  BY QuietSound DEF TypeInv
<1>5. QED  BY <1>1, <1>2, <1>3, <1>4 DEF TypeInv, Dynamics

(* The blocks that there are stay announced. *)
LEMMA QuietAnnounced ==
  ASSUME Quiet, Order
  PROVE  \A h \in Known' : Announced(h)'
<1>1. Known' = Known  BY QuietLeaves
<1>2. QED  BY <1>1 DEF Order, Quiet, Known

(* A worker takes on a harness. *)
LEMMA TakeOnDynamics ==
  ASSUME TypeInv, Dynamics, NEW w \in workers, NEW h \in Harnesses, TakeOn(w, h)
  PROVE  TypeInv' /\ Dynamics'
<1>1. ToolType /\ Order  BY DEF TypeInv, Dynamics
<1>2. ToolType' /\ Shared' /\ Quiet  BY <1>1, TakeOnIsQuiet
<1>3. log' = log /\ trailer' = trailer /\ log # "closing"
  BY <1>1 DEF TakeOn, Order, parser
<1>4. Order'  BY <1>1, <1>2, <1>3, QuietAnnounced DEF Order
<1>5. QED  BY <1>2, <1>4, QuietDynamics

(* The verifier writes its summary. *)
LEMMA CloseDynamics ==
  ASSUME TypeInv, Dynamics, Close
  PROVE  TypeInv' /\ Dynamics'
<1>1. ToolType /\ Order  BY DEF TypeInv, Dynamics
<1>2. ToolType' /\ Shared' /\ Quiet /\ log' = "closing" /\ waiting' = {} /\ job'[Main] = None
  BY <1>1, CloseIsQuiet
<1>3. trailer' = trailer /\ log = "open"  BY DEF Close, parser
<1>4. trailer' = None  BY <1>1, <1>3 DEF Order
<1>5. Order'  BY <1>1, <1>2, <1>4, QuietAnnounced DEF Order
<1>6. QED  BY <1>2, <1>5, QuietDynamics

(* Reading a line returns nothing, at most it refuses. *)
LEMMA ReadReturns ==
  ASSUME NEW line, Read(line)
  PROVE  outcome' \in {outcome, Refused}
<1>1. CASE ReadDescription(line)  BY <1>1 DEF ReadDescription, Refuse
<1>2. CASE ReadMessage(line)  BY <1>2 DEF ReadMessage, Refuse
<1>3. CASE ReadHarness(line) \/ ReadThread(line) \/ ReadStray(line)
  BY <1>3 DEF ReadHarness, ReadThread, ReadStray, Refuse
<1>4. CASE ReadCheck(line) \/ ReadStatus(line) \/ ReadText(line)
  BY <1>4 DEF ReadCheck, ReadStatus, ReadText, Refuse
<1>5. CASE ReadSummary(line) \/ ReadFailedCheck(line) \/ ReadVerdict(line)
  BY <1>5 DEF ReadSummary, ReadFailedCheck, ReadVerdict, Refuse
<1>6. CASE ReadClosing(line) \/ ReadOther(line)
  BY <1>6 DEF ReadClosing, ReadOther
<1>7. QED  BY <1>1, <1>2, <1>3, <1>4, <1>5, <1>6 DEF Read

-------------------------------------------------------------------------------
(* The log ends *)

(* The count line is the verifier's own, so that it can only agree with blocks
   that all have their verdict. *)
LEMMA CountsSettle ==
  ASSUME TypeInv, Order, trailer # None, CountsAgree
  PROVE  ~Missed /\ ~Lost /\ \A h \in Known : blocks[h].result # None
<1> DEFINE S == {h \in Known : blocks[h].result = "SUCCESSFUL"}
           F == {h \in Known : blocks[h].result = "FAILED"}
<1>1. /\ Known \subseteq DOMAIN found /\ Having \subseteq Known /\ Begun \subseteq DOMAIN found
      /\ IsFiniteSet(Known) /\ IsFiniteSet(Having) /\ IsFiniteSet(Begun)
      /\ Cardinality(Known) \in Nat /\ Cardinality(Having) \in Nat
      /\ Cardinality(Begun) \in Nat /\ Cardinality(DOMAIN found) \in Nat
  BY KnownIsFinite
<1>2. IsFiniteSet(DOMAIN found)  BY FoundIsTyped DEF TypeInv
<1>3. /\ trailer.total = Cardinality(DOMAIN found)
      /\ trailer.successful + trailer.failures = trailer.total
  BY DEF Order, Counts
<1>4. /\ trailer.total = Cardinality(Known)
      /\ trailer.successful = Cardinality(S) /\ trailer.failures = Cardinality(F)
  BY DEF CountsAgree
<1>5. Known = DOMAIN found  BY <1>1, <1>2, <1>3, <1>4, FS_Subset
<1>6. Having = S \cup F /\ S \cap F = {}
  <2>1. \A h \in Known : blocks[h] \in Blocks  BY BlocksAreTyped DEF TypeInv
  <2>2. \A h \in Known : blocks[h].result \in {"SUCCESSFUL", "FAILED", None}
    BY <2>1 DEF Blocks
  <2>3. "SUCCESSFUL" # None /\ "FAILED" # None  BY NoneAssumption
  <2>4. QED  BY <2>2, <2>3 DEF Having
<1>7. Cardinality(Having) = Cardinality(S) + Cardinality(F)
  <2>1. IsFiniteSet(S) /\ IsFiniteSet(F)
    <3>1. S \subseteq Known /\ F \subseteq Known  OBVIOUS
    <3> HIDE DEF S, F
    <3>2. QED  BY <1>1, <3>1, FS_Subset
  <2> HIDE DEF S, F
  <2>2. Cardinality(S \cap F) = 0  BY <1>6, FS_EmptySet
  <2>3. Cardinality(S) \in Nat /\ Cardinality(F) \in Nat  BY <2>1, FS_CardinalityType
  <2>4. Cardinality(S \cup F) = Cardinality(S) + Cardinality(F) - Cardinality(S \cap F)
    BY <2>1, FS_Union
  <2>5. QED  BY <1>6, <2>2, <2>3, <2>4
<1> HIDE DEF S, F
<1>8. Cardinality(Having) = Cardinality(DOMAIN found)  BY <1>3, <1>4, <1>7
<1>9. Having = DOMAIN found  BY <1>1, <1>2, <1>5, <1>8, FS_Subset
<1>10. Cardinality(Begun) <= Cardinality(Having)  BY <1>1, <1>2, <1>8, FS_Subset
<1>11. ~Lost
  <2>1. Busy \in {0, 1}  BY DEF Busy
  <2>2. QED  BY <1>1, <1>10, <2>1 DEF Lost
<1>12. ~Missed  BY <1>5 DEF Missed, Announced
<1>13. QED  BY <1>5, <1>9, <1>11, <1>12 DEF Having

(* What is returned is the account of blocks that hold what the verifier told. *)
Honest(h, b) ==
  /\ Accountable(b)
  /\ IF Told(h) THEN Faithful(b, found[h]) ELSE ~strict /\ b.result = None

Final ==
  Trusted =>
    /\ DOMAIN outcome = {h \in Harnesses : Announced(h)}
    /\ \A h \in DOMAIN outcome : \E b \in Blocks : outcome[h] = Receipt(b) /\ Honest(h, b)

(* A block that was orphaned gives no account. *)
LEMMA OrphanIsRefused ==
  ASSUME TypeInv, EndOfLog, Orphan
  PROVE  \E h \in Known : ~Accountable(blocks'[h])
<1>1. PICK h \in Known : current # h /\ blocks[h] = BlankBlock  BY DEF Orphan
<1>2. blocks \in [Harnesses -> Blocks \cup {None}] /\ h \in Harnesses
  BY DEF TypeInv, TypeOK, Known
<1>3. blocks'[h] = blocks[h]  BY <1>1, <1>2 DEF EndOfLog
<1>4. BlankBlock.checks = <<>> /\ BlankBlock.failed = None  BY DEF BlankBlock
<1>5. QED  BY <1>1, <1>3, <1>4 DEF Accountable

(* A harness told in full is not current, so that no message is added to its block. *)
LEMMA ToldIsSettled ==
  ASSUME TypeInv, Order, Sound, EndOfLog, NEW h \in Known, Told(h)
  PROVE  blocks'[h] = blocks[h]
<1>1. blocks \in [Harnesses -> Blocks \cup {None}] /\ h \in Harnesses
  BY DEF TypeInv, TypeOK, Known
<1>2. CASE current # h  BY <1>1, <1>2 DEF EndOfLog
<1>3. CASE current = h
  <2>1. current # None  BY <1>1, <1>3, NoneAssumption
  <2>2. PICK w \in Workers : Reading(w)  BY <2>1 DEF Sound, Calm
  <2>3. script[w] # <<>>  BY <2>2 DEF Reading
  <2>4. ~AtClosing(w)  BY <2>2, <2>3, ReaderIsAtBody
  <2>5. ~Told(job[w])  BY <2>3, <2>4, ReaderIsAtBody
  <2>6. current = job[w]  BY <2>2 DEF Sound, Attentive
  <2>7. QED  BY <1>3, <2>5, <2>6
<1>4. QED  BY <1>2, <1>3

(* The receipts of an undisturbed log. *)
LEMMA SoundIsFinal ==
  ASSUME TypeInv, Order, Sound, EndOfLog, outcome' # Refused, strict => \A h \in Known : Told(h)
  PROVE  Final'
<1>1. TypeOK /\ ReadType  BY DEF TypeInv
<1>2. /\ TypeOK' /\ Edits
      /\ outcome' = [h \in Known |-> Receipt(blocks'[h])]
      /\ \A h \in Known : Accountable(blocks'[h])
  BY <1>1, EndIsTyped
<1>3. UNCHANGED <<strict, whole, terse, workers, found, waiting, job, script>>
  BY DEF EndOfLog, run
<1>4. \A h : (Announced(h)' <=> Announced(h)) /\ (Told(h)' <=> Told(h))
  BY <1>3 DEF Announced, Told
<1>5. Known = {h \in Harnesses : Announced(h)}
  BY DEF Order, Sound, Missed, Known
<1>6. /\ blocks' \in [Harnesses -> Blocks \cup {None}]
      /\ Known' = Known
      /\ \A h \in Known : blocks'[h].result = blocks[h].result
  BY <1>1, <1>2, EditsKeep
<1>7. \A h \in Known : h \in Harnesses /\ blocks'[h] \in Blocks
  BY <1>6 DEF Known
<1>8. ASSUME NEW h \in Known PROVE Honest(h, blocks'[h])
  <2>1. Accountable(blocks'[h])  BY <1>2
  <2>2. CASE Told(h)
    <3>1. Faithful(blocks[h], found[h])  BY <2>2 DEF Sound, Truthful
    <3>2. blocks'[h] = blocks[h]  BY <2>2, ToldIsSettled
    <3>3. QED  BY <2>1, <2>2, <3>1, <3>2 DEF Honest
  <2>3. CASE ~Told(h)
    <3>1. blocks[h].result = None  BY <2>3 DEF Sound, Truthful
    <3>2. QED  BY <1>6, <2>1, <2>3, <3>1 DEF Honest
  <2>4. QED  BY <2>2, <2>3
<1>9. DOMAIN outcome' = {h \in Harnesses : Announced(h)}'
  BY <1>2, <1>4, <1>5
<1>10. ASSUME NEW h \in DOMAIN outcome'
       PROVE  \E b \in Blocks : outcome'[h] = Receipt(b) /\ Honest(h, b)'
  <2>1. h \in Known  BY <1>2, <1>10
  <2>2. outcome'[h] = Receipt(blocks'[h]) /\ blocks'[h] \in Blocks  BY <1>2, <1>7, <2>1
  <2>3. Honest(h, blocks'[h])  BY <1>8, <2>1
  <2> DEFINE c == blocks'[h]
  <2> HIDE DEF c
  <2>4. ASSUME NEW b \in Blocks, Honest(h, b) PROVE Honest(h, b)'
    <3>1. h \in Harnesses  BY <1>7, <2>1
    <3>2. Told(h)' <=> Told(h)  BY <1>4
    <3>3. Faithful(b, found[h])' <=> Faithful(b, found[h])  BY <1>3 DEF Faithful
    <3>4. QED  BY <1>3, <2>4, <3>2, <3>3 DEF Honest
  <2>5. outcome'[h] = Receipt(c) /\ c \in Blocks /\ Honest(h, c)  BY <2>2, <2>3 DEF c
  <2>6. QED  BY <2>4, <2>5
<1>11. QED  BY <1>9, <1>10 DEF Final

(* The receipts of a log whose counts agree, or whose bodies were not interrupted. *)
LEMMA EndIsFinal ==
  ASSUME TypeInv, Dynamics, EndOfLog
  PROVE  Final'
<1>1. SUFFICES ASSUME outcome' # Refused, strict \/ whole PROVE Final'
  <2>1. strict' = strict /\ whole' = whole  BY DEF EndOfLog, run
  <2>2. QED  BY <2>1 DEF Final, Trusted
<1>2. Order /\ (Sound \/ Lost \/ Missed) /\ (whole => Uninterrupted /\ (Sound \/ Orphan))
  BY DEF Dynamics
<1>3. CountsAgree /\ \A h \in Known : Accountable(blocks'[h])
  BY <1>1, EndIsTyped DEF TypeInv
<1>4. CASE strict
  <2>1. trailer # None  BY <1>3, <1>4 DEF CountsAgree
  <2>2. ~Missed /\ ~Lost /\ \A h \in Known : blocks[h].result # None
    BY <1>2, <1>3, <2>1, CountsSettle
  <2>3. Sound  BY <1>2, <2>2
  <2>4. \A h \in Known : Told(h)  BY <2>2, <2>3 DEF Sound, Truthful
  <2>5. QED  BY <1>1, <1>2, <2>3, <2>4, SoundIsFinal
<1>5. CASE ~strict
  <2>1. ~Orphan  BY <1>3, OrphanIsRefused
  <2>2. Sound  BY <1>1, <1>2, <1>5, <2>1
  <2>3. QED  BY <1>1, <1>2, <1>5, <2>2, SoundIsFinal
<1>6. QED  BY <1>4, <1>5

-------------------------------------------------------------------------------
(* The invariant *)

IInv == TypeInv /\ (outcome = None => Dynamics) /\ Final

(* It holds where nothing has happened. *)
LEMMA InitInv ==
  ASSUME Init
  PROVE  IInv
<1>1. TypeInv /\ Dynamics /\ outcome = None  BY InitDynamics
<1>2. Final  BY <1>1 DEF Final, Trusted
<1>3. QED  BY <1>1, <1>2 DEF IInv

(* And every step keeps it. *)
LEMMA NextInv ==
  ASSUME IInv, [Next]_vars
  PROVE  IInv'
<1>1. TypeInv /\ (outcome = None => Dynamics) /\ Final  BY DEF IInv
<1>2. CASE UNCHANGED vars
  <2>1. UNCHANGED <<strict, whole, terse, workers, found, waiting, job, script, printing, log,
                    blocks, threadBlock, current, pending, buffer, failedFor, trailer, outcome>>
    BY <1>2 DEF vars, run, tool, parser
  <2>2. Quiet
    <3>1. UNCHANGED <<run, found, printing, parser, outcome>>  BY <2>1 DEF run, parser
    <3>2. Begun' = Begun  BY <2>1 DEF Begun
    <3>3. \A h \in Harnesses : (Announced(h)' <=> Announced(h)) /\ (Told(h)' <=> Told(h))
      BY <2>1 DEF Announced, Told
    <3>4. \A w \in Workers : Reading(w)' <=> Reading(w)  BY <2>1 DEF Reading
    <3>5. QED  BY <2>1, <3>1, <3>2, <3>3, <3>4 DEF Quiet
  <2>3. ToolType' /\ TypeInv'
    <3>1. ToolType'  BY <1>1, <2>1 DEF TypeInv, ToolType
    <3>2. QED  BY <1>1, <2>2, <3>1, QuietKeeps DEF TypeInv
  <2>4. outcome' = None => Dynamics'
    <3> SUFFICES ASSUME outcome = None PROVE Dynamics'
      BY <2>1
    <3>1. Order'
      <4>1. Order  BY <1>1 DEF Dynamics
      <4>2. \A w \in Workers : Stage(w)'
        <5> SUFFICES ASSUME NEW w \in Workers PROVE Stage(w)'
          BY DEF Workers
        <5>1. Stage(w)  BY <4>1 DEF Order, Shared
        <5>2. Working(w) => Working(w)'  BY <2>1 DEF Working
        <5>3. AtHarness(w) => AtHarness(w)'  BY <2>1, <5>2 DEF AtHarness, Block, Body
        <5>4. AtThread(w) => AtThread(w)'  BY <2>1, <5>2 DEF AtThread, Body
        <5>5. AtBody(w) => AtBody(w)'  BY <2>1, <5>2 DEF AtBody
        <5>6. AtClosing(w) => AtClosing(w)'  BY <2>1 DEF AtClosing, Counts
        <5>7. QED  BY <2>1, <5>1, <5>3, <5>4, <5>5, <5>6 DEF Stage
      <4>3. Shared'  BY <2>1, <4>1, <4>2 DEF Order, Shared, Workers
      <4>4. QED  BY <2>1, <2>2, <4>1, <4>3, QuietAnnounced DEF Order, Counts
    <3>2. QED  BY <1>1, <2>2, <2>3, <3>1, QuietDynamics
  <2>5. Final'
    <3> SUFFICES ASSUME Trusted' PROVE Final'
      BY DEF Final
    <3>1. Trusted  BY <2>1 DEF Trusted
    <3>2. \A h : (Announced(h)' <=> Announced(h)) /\ (Told(h)' <=> Told(h))
      BY <2>1 DEF Announced, Told
    <3>3. \A h, b : Honest(h, b)' <=> Honest(h, b)
      BY <2>1, <3>2 DEF Honest, Faithful
    <3>4. QED  BY <1>1, <2>1, <3>1, <3>2, <3>3 DEF Final
  <2>6. QED  BY <2>3, <2>4, <2>5 DEF IInv
<1>3. CASE Next
  <2>1. outcome = None
    BY <1>3 DEF Next, TakeOn, Close, Emit, EndOfLog
  <2>2. Dynamics  BY <1>1, <2>1
  <2>3. ASSUME outcome' \in {None, Refused} PROVE Final'
    BY <2>3 DEF Final, Trusted
  <2>4. ASSUME NEW w \in workers, NEW h \in Harnesses, TakeOn(w, h) PROVE IInv'
    <3>1. TypeInv' /\ Dynamics'  BY <1>1, <2>2, <2>4, TakeOnDynamics
    <3>2. outcome' = None  BY <2>4 DEF TakeOn
    <3>3. QED  BY <2>3, <3>1, <3>2 DEF IInv
  <2>5. CASE Close
    <3>1. TypeInv' /\ Dynamics'  BY <1>1, <2>2, <2>5, CloseDynamics
    <3>2. outcome' = None  BY <2>5 DEF Close
    <3>3. QED  BY <2>3, <3>1, <3>2 DEF IInv
  <2>6. ASSUME NEW w \in Workers, Prints(w) PROVE IInv'
    <3>1. outcome' \in {None, Refused}  BY <2>1, <2>6, ReadReturns DEF Prints
    <3>2. TypeInv'  BY <1>1, <2>1, <2>2, <2>6, PrintsTyped DEF Dynamics
    <3>3. outcome' = None => Dynamics'  BY <1>1, <2>1, <2>2, <2>6, PrintsDynamics
    <3>4. QED  BY <2>3, <3>1, <3>2, <3>3 DEF IInv
  <2>7. CASE EndOfLog
    <3>1. TypeOK' /\ ReadType' /\ outcome' # None  BY <1>1, <2>7, EndIsTyped DEF TypeInv
    <3>2. ToolType'  BY <1>1, <2>7 DEF TypeInv, ToolType, EndOfLog, run
    <3>3. Final'  BY <1>1, <2>2, <2>7, EndIsFinal
    <3>4. QED  BY <3>1, <3>2, <3>3 DEF IInv, TypeInv
  <2>8. \/ \E w \in workers, h \in Harnesses : TakeOn(w, h)
        \/ Close
        \/ \E w \in Workers : Prints(w)
        \/ EndOfLog
    BY <1>3 DEF Next, Prints, Workers
  <2>9. QED  BY <2>4, <2>5, <2>6, <2>7, <2>8
<1>4. QED  BY <1>2, <1>3

(* So it always holds. *)
THEOREM Invariance == Spec => []IInv
<1>1. Init => IInv  BY InitInv
<1>2. IInv /\ [Next]_vars => IInv'  BY NextInv
<1>3. QED  BY <1>1, <1>2, PTL DEF Spec

(* Every variable the parser keeps has its type in every reachable state. *)
THEOREM TypeCorrect == Spec => []TypeOK
<1>1. IInv => TypeOK  BY DEF IInv, TypeInv
<1>2. QED  BY <1>1, Invariance, PTL

-------------------------------------------------------------------------------
(* What a receipt says when its block holds what the verifier told *)

(* The checks of the block are those of the report, or there are none. *)
LEMMA FaithfulChecks ==
  ASSUME NEW b, NEW r \in Reports, Faithful(b, r)
  PROVE  /\ b.checks = <<>> <=> terse \/ r.checks = <<>>
         /\ b.checks # <<>> =>
              /\ Len(b.checks) = Len(r.checks) /\ DOMAIN b.checks = DOMAIN r.checks
              /\ \A i \in DOMAIN r.checks : /\ b.checks[i].id = r.checks[i].id
                                            /\ b.checks[i].text = r.checks[i].text
                                            /\ b.checks[i].status = r.checks[i].status
              /\ Failing(b.checks) = Failing(r.checks)
<1> DEFINE n == Len(r.checks)
<1>1. /\ r.checks \in Seq(Checks) /\ n \in Nat /\ DOMAIN r.checks = 1..n
      /\ r.checks = <<>> <=> n = 0
  <2>1. r.checks \in Seq(Checks)  BY DEF Reports
  <2>2. QED  BY <2>1, LenProperties, EmptySeq
<1>2. b.checks = IF terse THEN <<>> ELSE [i \in 1..n |-> ReadOf(r.checks[i])]
  BY DEF Faithful
<1>3. CASE terse  BY <1>2, <1>3
<1>4. CASE ~terse
  <2>1. b.checks = [i \in 1..n |-> ReadOf(r.checks[i])]  BY <1>2, <1>4
  <2> DEFINE S == {ReadOf(r.checks[j]) : j \in 1..n}
  <2>2. b.checks \in [1..n -> S]  BY <2>1
  <2>3. Len(b.checks) = n /\ b.checks \in Seq(S)
    <3> HIDE DEF S, n
    <3>1. QED  BY <1>1, <2>2, FunctionIsSeq
  <2>4. b.checks = <<>> <=> n = 0  BY <1>1, <2>3, EmptySeq
  <2>5. DOMAIN b.checks = DOMAIN r.checks  BY <1>1, <2>1
  <2>6. \A i \in DOMAIN r.checks : /\ b.checks[i].id = r.checks[i].id
                                   /\ b.checks[i].text = r.checks[i].text
                                   /\ b.checks[i].status = r.checks[i].status
    BY <1>1, <2>1 DEF ReadOf
  <2>7. Failing(b.checks) = Failing(r.checks)  BY <2>5, <2>6 DEF Failing
  <2>8. QED  BY <1>1, <1>4, <2>3, <2>4, <2>5, <2>6, <2>7
<1>5. QED  BY <1>3, <1>4

(* The tool declined to reason of every failure. *)
LEMMA DeclinedAll ==
  ASSUME NEW b \in Blocks, NEW r \in Reports, Faithful(b, r)
  PROVE  Declined(b) = {TRUE} <=> Failing(r.checks) # {} /\ Genuine(r.checks) = {}
<1> DEFINE cs == r.checks
           ms == b.messages
           n == Len(cs)
<1>1. /\ cs \in Seq(Checks) /\ n \in Nat /\ DOMAIN cs = 1..n
      /\ \A i \in DOMAIN cs : cs[i] \in Checks
  <2>1. cs \in Seq(Checks)  BY DEF Reports
  <2>2. QED  BY <2>1, LenProperties, ElementOfSeq
<1>2. \A c \in Checks : c.text \in Texts /\ (c.id = "unsupported" => c.text = "unsupported")
  BY DEF Checks
<1>3. Genuine(cs) = {i \in Failing(cs) : cs[i].text # "unsupported"}
  BY <1>1, <1>2 DEF Genuine, Failing
<1>4. CASE b.checks = <<>>
  <2>1. ms \in Seq(Texts)  BY DEF Blocks
  <2>2. DOMAIN ms = 1..Len(ms) /\ \A j \in DOMAIN ms : ms[j] \in Texts
    BY <2>1, LenProperties, ElementOfSeq
  <2>3. ASSUME NEW text \in Texts
        PROVE  (\E j \in DOMAIN ms : ms[j] = text) <=> \E i \in Failing(cs) : cs[i].text = text
    <3>1. \A i \in Failing(cs) : i <= n  BY <1>1 DEF Failing
    <3>2. (\E j \in DOMAIN ms : ms[j] = text)
            <=> \E i \in Failing(cs) : i <= n /\ cs[i].text = text
      BY DEF Faithful, Names
    <3>3. QED  BY <3>1, <3>2
  <2>4. Declined(b) = {m = "unsupported" : m \in Range(ms)}  BY <1>4 DEF Declined
  <2>5. Range(ms) = {ms[j] : j \in DOMAIN ms}  BY DEF Range
  <2>6. Declined(b) = {TRUE}
          <=> (\E m \in Range(ms) : TRUE) /\ \A m \in Range(ms) : m = "unsupported"
    BY <2>4
  <2>7. (\E m \in Range(ms) : TRUE) <=> Failing(cs) # {}
    <3>1. \A i \in Failing(cs) : cs[i].text \in Texts  BY <1>1, <1>2 DEF Failing
    <3>2. ASSUME NEW m \in Range(ms) PROVE Failing(cs) # {}
      <4>1. PICK j \in DOMAIN ms : ms[j] = m  BY <2>5
      <4>2. \E i \in Failing(cs) : cs[i].text = m  BY <2>2, <2>3, <4>1
      <4>3. QED  BY <4>2
    <3>3. ASSUME NEW i \in Failing(cs) PROVE \E m \in Range(ms) : TRUE
      <4>1. \E j \in DOMAIN ms : ms[j] = cs[i].text  BY <2>3, <3>1
      <4>2. QED  BY <2>5, <4>1
    <3>4. QED  BY <3>2, <3>3
  <2>8. (\A m \in Range(ms) : m = "unsupported") <=> Genuine(cs) = {}
    <3>1. \A i \in Failing(cs) : cs[i].text \in Texts  BY <1>1, <1>2 DEF Failing
    <3>2. QED  BY <1>3, <2>2, <2>3, <2>5, <3>1
  <2>9. QED  BY <2>6, <2>7, <2>8
<1>5. CASE b.checks # <<>>
  <2>1. /\ Failing(b.checks) = Failing(cs)
        /\ \A i \in Failing(cs) : b.checks[i].id = cs[i].id /\ b.checks[i].text = cs[i].text
    BY <1>5, FaithfulChecks DEF Failing
  <2>2. Declined(b) = {IsUnsupported(b.checks[i]) : i \in Failing(cs)}
    BY <1>5, <2>1 DEF Declined
  <2>3. \A i \in Failing(cs) : IsUnsupported(b.checks[i]) <=> cs[i].text = "unsupported"
    BY <1>1, <1>2, <2>1 DEF IsUnsupported, Failing
  <2>4. \A i \in Failing(cs) : IsUnsupported(b.checks[i]) \in BOOLEAN
    BY DEF IsUnsupported
  <2>5. Declined(b) = {TRUE}
          <=> Failing(cs) # {} /\ \A i \in Failing(cs) : IsUnsupported(b.checks[i])
    BY <2>2, <2>4
  <2>6. QED  BY <1>3, <2>3, <2>5
<1>6. QED  BY <1>4, <1>5

(* The verdict of a receipt, by what its block says. *)
LEMMA VerdictCases ==
  ASSUME NEW b
  PROVE  /\ b.result = None => VerdictFor(b) = [verdict |-> "error", kind |-> "tool-error"]
         /\ b.result # None /\ Declined(b) = {TRUE} =>
              VerdictFor(b) = [verdict |-> "error", kind |-> "unsupported-construct"]
         /\ b.result = "FAILED" /\ b.result # None /\ Declined(b) # {TRUE} =>
              VerdictFor(b) = [verdict |-> "rejected", kind |-> None]
         /\ b.result # "FAILED" /\ b.result # None /\ Declined(b) # {TRUE} =>
              VerdictFor(b) = [verdict |-> "accepted", kind |-> None]
<1>1. b.result = None => VerdictFor(b) = [verdict |-> "error", kind |-> "tool-error"]
  <2>1. "FAILED" # None  BY NoneAssumption
  <2>2. QED  BY <2>1 DEF VerdictFor
<1>2. b.result # None /\ Declined(b) = {TRUE} =>
        VerdictFor(b) = [verdict |-> "error", kind |-> "unsupported-construct"]
  BY DEF VerdictFor
<1>3. b.result = "FAILED" /\ b.result # None /\ Declined(b) # {TRUE} =>
        VerdictFor(b) = [verdict |-> "rejected", kind |-> None]
  BY DEF VerdictFor
<1>4. b.result # "FAILED" /\ b.result # None /\ Declined(b) # {TRUE} =>
        VerdictFor(b) = [verdict |-> "accepted", kind |-> None]
  BY DEF VerdictFor
<1>5. QED  BY <1>1, <1>2, <1>3, <1>4

(* The verdict about a harness told in full is the verifier's, and about another
   one the tool did not finish. *)
LEMMA RulingOf ==
  ASSUME TypeInv, NEW h \in DOMAIN found, NEW b \in Blocks, Honest(h, b)
  PROVE  LET ruling  == VerdictFor(b)
             failing == Failing(found[h].checks)
             genuine == Genuine(found[h].checks)
         IN \/ /\ ruling = [verdict |-> "accepted", kind |-> None]
               /\ Told(h) /\ Result(found[h]) = "SUCCESSFUL" /\ (failing # {} => genuine # {})
            \/ /\ ruling = [verdict |-> "rejected", kind |-> None]
               /\ Told(h) /\ Result(found[h]) = "FAILED" /\ (genuine # {} \/ failing = {})
            \/ /\ ruling = [verdict |-> "error", kind |-> "unsupported-construct"]
               /\ Told(h) /\ failing # {} /\ genuine = {}
            \/ /\ ruling = [verdict |-> "error", kind |-> "tool-error"]
               /\ ~Told(h) /\ ~strict
<1> DEFINE r == found[h]
           failing == Failing(r.checks)
           genuine == Genuine(r.checks)
           declined == Declined(b)
<1>1. CASE Told(h)
  <2>1. r \in Reports /\ Faithful(b, r)  BY <1>1, FoundIsTyped DEF TypeInv, Honest
  <2>2. declined = {TRUE} <=> failing # {} /\ genuine = {}  BY <2>1, DeclinedAll
  <2>3. b.result = Result(r) /\ Result(r) \in {"SUCCESSFUL", "FAILED"}
    BY <2>1 DEF Faithful, Result
  <2>4. "SUCCESSFUL" # None /\ "FAILED" # None  BY NoneAssumption
  <2> HIDE DEF failing, genuine, declined, r
  <2>5. CASE declined = {TRUE}
    <3>1. VerdictFor(b) = [verdict |-> "error", kind |-> "unsupported-construct"]
      BY <2>3, <2>4, <2>5, VerdictCases DEF declined
    <3>2. QED  BY <1>1, <2>2, <2>5, <3>1 DEF failing, genuine, r
  <2>6. CASE declined # {TRUE} /\ Result(r) = "FAILED"
    <3>1. b.result = "FAILED" /\ b.result # None /\ Declined(b) # {TRUE}
      BY <2>3, <2>4, <2>6 DEF declined
    <3>2. VerdictFor(b) = [verdict |-> "rejected", kind |-> None]  BY <3>1, VerdictCases
    <3>3. QED  BY <1>1, <2>2, <2>6, <3>2 DEF failing, genuine, r
  <2>7. CASE declined # {TRUE} /\ Result(r) = "SUCCESSFUL"
    <3>1. VerdictFor(b) = [verdict |-> "accepted", kind |-> None]
      BY <2>3, <2>4, <2>7, VerdictCases DEF declined
    <3>2. QED  BY <1>1, <2>2, <2>7, <3>1 DEF failing, genuine, r
  <2>8. QED  BY <2>3, <2>5, <2>6, <2>7
<1>2. CASE ~Told(h)
  <2>1. b.result = None /\ ~strict  BY <1>2 DEF Honest
  <2>2. VerdictFor(b) = [verdict |-> "error", kind |-> "tool-error"]  BY <2>1, VerdictCases
  <2>3. QED  BY <1>2, <2>1, <2>2
<1>3. QED  BY <1>1, <1>2

(* A returned receipt, its block, and what the verifier found. *)
LEMMA ReceiptOf ==
  ASSUME IInv, Trusted, NEW h \in DOMAIN outcome
  PROVE  /\ h \in DOMAIN found /\ found[h] \in Reports
         /\ \E b \in Blocks : /\ outcome[h] = Receipt(b) /\ Honest(h, b)
                              /\ outcome[h].ruling = VerdictFor(b)
                              /\ outcome[h].obligations = ObligationsFor(b)
<1>1. TypeInv /\ Final  BY DEF IInv
<1>2. DOMAIN outcome = {g \in Harnesses : Announced(g)}  BY <1>1 DEF Final
<1>3. h \in DOMAIN found  BY <1>2 DEF Announced
<1>4. found[h] \in Reports  BY <1>1, <1>3, FoundIsTyped DEF TypeInv
<1>5. PICK b \in Blocks : outcome[h] = Receipt(b) /\ Honest(h, b)  BY <1>1 DEF Final
<1>6. Receipt(b).ruling = VerdictFor(b) /\ Receipt(b).obligations = ObligationsFor(b)
  BY DEF Receipt
<1>7. QED  BY <1>3, <1>4, <1>5, <1>6

(* Each harness has its own verdict. *)
LEMMA VerdictsAreOwn ==
  ASSUME IInv
  PROVE  OwnVerdict
<1> SUFFICES ASSUME Trusted
             PROVE  /\ DOMAIN outcome = {h \in Harnesses : Announced(h)}
                    /\ \A h \in DOMAIN outcome :
                         LET ruling  == outcome[h].ruling
                             failing == Failing(found[h].checks)
                         IN CASE ruling.verdict = "accepted" ->
                                   /\ Told(h) /\ Result(found[h]) = "SUCCESSFUL"
                                   /\ failing # {} => Genuine(found[h].checks) # {}
                              [] ruling.verdict = "rejected" -> Refuted(h)
                              [] ruling.kind = "unsupported-construct" ->
                                   Told(h) /\ failing # {} /\ Genuine(found[h].checks) = {}
                              [] ruling.kind = "tool-error" -> ~Told(h) /\ ~strict
                              [] OTHER -> FALSE
  BY DEF OwnVerdict
<1>1. DOMAIN outcome = {h \in Harnesses : Announced(h)}  BY DEF IInv, Final
<1>2. ASSUME NEW h \in DOMAIN outcome
      PROVE  LET ruling  == outcome[h].ruling
                 failing == Failing(found[h].checks)
             IN CASE ruling.verdict = "accepted" ->
                       /\ Told(h) /\ Result(found[h]) = "SUCCESSFUL"
                       /\ failing # {} => Genuine(found[h].checks) # {}
                  [] ruling.verdict = "rejected" -> Refuted(h)
                  [] ruling.kind = "unsupported-construct" ->
                       Told(h) /\ failing # {} /\ Genuine(found[h].checks) = {}
                  [] ruling.kind = "tool-error" -> ~Told(h) /\ ~strict
                  [] OTHER -> FALSE
  <2> DEFINE ruling  == outcome[h].ruling
             failing == Failing(found[h].checks)
             genuine == Genuine(found[h].checks)
  <2>1. PICK b \in Blocks : Honest(h, b) /\ ruling = VerdictFor(b)  BY <1>2, ReceiptOf
  <2>2. h \in DOMAIN found  BY <1>2, ReceiptOf
  <2>3. \/ /\ ruling = [verdict |-> "accepted", kind |-> None]
           /\ Told(h) /\ Result(found[h]) = "SUCCESSFUL" /\ (failing # {} => genuine # {})
        \/ /\ ruling = [verdict |-> "rejected", kind |-> None]
           /\ Told(h) /\ Result(found[h]) = "FAILED" /\ (genuine # {} \/ failing = {})
        \/ /\ ruling = [verdict |-> "error", kind |-> "unsupported-construct"]
           /\ Told(h) /\ failing # {} /\ genuine = {}
        \/ /\ ruling = [verdict |-> "error", kind |-> "tool-error"]
           /\ ~Told(h) /\ ~strict
    BY <2>1, <2>2, RulingOf DEF IInv
  <2>4. Refuted(h) <=> /\ Told(h) /\ Result(found[h]) = "FAILED"
                       /\ (genuine # {} \/ failing = {})
    BY DEF Refuted
  <2>5. "unsupported-construct" # None /\ "tool-error" # None  BY NoneAssumption
  <2> HIDE DEF ruling, failing, genuine
  <2>6. CASE ruling.verdict = "accepted"
    <3>1. Told(h) /\ Result(found[h]) = "SUCCESSFUL" /\ (failing # {} => genuine # {})
      BY <2>3, <2>6
    <3>2. ruling.kind = None  BY <2>3, <2>6
    <3>3. QED  BY <2>5, <2>6, <3>1, <3>2 DEF ruling, failing, genuine
  <2>7. CASE ruling.verdict = "rejected"
    <3>1. Refuted(h) /\ ruling.kind = None  BY <2>3, <2>4, <2>7
    <3>2. QED  BY <2>5, <2>7, <3>1 DEF ruling, failing, genuine
  <2>8. CASE /\ ruling.verdict = "error" /\ ruling.kind = "unsupported-construct"
             /\ Told(h) /\ failing # {} /\ genuine = {}
    BY <2>8 DEF ruling, failing, genuine
  <2>9. CASE ruling.verdict = "error" /\ ruling.kind = "tool-error" /\ ~Told(h) /\ ~strict
    BY <2>9 DEF ruling, failing, genuine
  <2>10. QED  BY <2>3, <2>6, <2>7, <2>8, <2>9
<1>3. QED  BY <1>1, <1>2

(* A contract that passes the control check rests on a refutation. *)
LEMMA RedIsRefuted ==
  ASSUME IInv
  PROVE  ContractRestsOnRefutation
<1> SUFFICES ASSUME Trusted, CheckControls(outcome) PROVE \E h \in DOMAIN outcome : Refuted(h)
  BY DEF ContractRestsOnRefutation
<1>1. PICK h \in DOMAIN outcome : /\ Observed("red", outcome[h]) = "red"
                                  /\ outcome[h].ruling.verdict # "accepted"
  BY DEF CheckControls
<1>2. PICK b \in Blocks : Honest(h, b) /\ outcome[h].ruling = VerdictFor(b)  BY ReceiptOf
<1>3. h \in DOMAIN found  BY ReceiptOf
<1>4. Observed("red", outcome[h]) = Shown(outcome[h].ruling.verdict)  BY DEF Observed
<1> DEFINE ruling == outcome[h].ruling
<1>5. ruling.verdict = "rejected"
  <2>1. Shown(ruling.verdict) = "red"  BY <1>1, <1>4
  <2> HIDE DEF ruling
  <2>2. QED  BY <2>1 DEF Shown
<1>6. \/ /\ ruling.verdict = "rejected"
         /\ Told(h) /\ Result(found[h]) = "FAILED"
         /\ (Genuine(found[h].checks) # {} \/ Failing(found[h].checks) = {})
      \/ ruling.verdict \in {"accepted", "error"}
  <2> HIDE DEF ruling
  <2>1. ruling = VerdictFor(b)  BY <1>2 DEF ruling
  <2>2. QED  BY <1>2, <1>3, <2>1, RulingOf DEF IInv
<1> HIDE DEF ruling
<1>7. Refuted(h)  BY <1>5, <1>6 DEF Refuted
<1>8. QED  BY <1>7

(* One check's obligation. *)
Account(c) == [of |-> c.id, status |-> StatusTable(c)[c.status]]

Panic == [of |-> "expected panic", status |-> "held"]

(* A block of a harness meant to panic, and that did. *)
Panicked(b) == b.result = "SUCCESSFUL" /\ b.panics

(* The status of an obligation is the status of its check. *)
LEMMA AccountMeans ==
  ASSUME NEW c, Recognized(c)
  PROVE  /\ Account(c).of = c.id
         /\ Account(c).status = "failed" <=> c.status = "FAILURE"
         /\ Account(c).status = "held" <=> c.status \in {"SUCCESS", "SATISFIED"}
         /\ Account(c).status = "vacuous" <=> c.id = "cover" /\ c.status = "UNSATISFIABLE"
         /\ Account(c).status = "not-exercised" <=> c.status \in {"UNREACHABLE", "UNDETERMINED"}
         /\ c.id = "cover" => (Account(c).status = "held" <=> c.status = "SATISFIED")
<1>1. CASE c.id = "cover"
  <2>1. StatusTable(c) = CoverStatuses  BY <1>1 DEF StatusTable
  <2>2. c.status \in {"SATISFIED", "UNSATISFIABLE", "UNREACHABLE", "UNDETERMINED"}
    BY <2>1 DEF Recognized, CoverStatuses
  <2>3. Account(c).of = c.id /\ Account(c).status = CoverStatuses[c.status]
    BY <2>1 DEF Account
  <2>4. QED  BY <1>1, <2>2, <2>3 DEF CoverStatuses
<1>2. CASE c.id # "cover"
  <2>1. StatusTable(c) = AssertionStatuses  BY <1>2 DEF StatusTable
  <2>2. c.status \in {"SUCCESS", "FAILURE", "UNREACHABLE", "UNDETERMINED"}
    BY <2>1 DEF Recognized, AssertionStatuses
  <2>3. Account(c).of = c.id /\ Account(c).status = AssertionStatuses[c.status]
    BY <2>1 DEF Account
  <2>4. QED  BY <1>2, <2>2, <2>3 DEF AssertionStatuses
<1>3. QED  BY <1>1, <1>2

(* A list, then one more. *)
LEMMA OneMore ==
  ASSUME NEW S, NEW s \in Seq(S), NEW e \in S
  PROVE  /\ Len(s) \in Nat /\ DOMAIN s = 1..Len(s)
         /\ DOMAIN (s \o <<e>>) = 1..(Len(s) + 1) /\ Len(s \o <<e>>) = Len(s) + 1
         /\ \A i \in 1..Len(s) : (s \o <<e>>)[i] = s[i]
         /\ (s \o <<e>>)[Len(s) + 1] = e
         /\ 1..(Len(s) + 1) = 1..Len(s) \cup {Len(s) + 1}
         /\ Len(s) + 1 \notin 1..Len(s)
         /\ s \o <<e>> \in Seq(S)
<1> DEFINE n == Len(s)
<1>1. n \in Nat /\ DOMAIN s = 1..n  BY LenProperties
<1>2. <<e>> \in Seq(S) /\ Len(<<e>>) = 1 /\ <<e>>[1] = e  OBVIOUS
<1>3. /\ s \o <<e>> \in Seq(S) /\ Len(s \o <<e>>) = n + 1
      /\ \A i \in 1..(n + 1) : (s \o <<e>>)[i] = IF i <= n THEN s[i] ELSE <<e>>[i - n]
  BY <1>2, ConcatProperties
<1>4. DOMAIN (s \o <<e>>) = 1..(n + 1)  BY <1>3, LenProperties
<1> HIDE DEF n
<1>5. /\ \A i \in 1..n : i \in 1..(n + 1) /\ i <= n
      /\ n + 1 \in 1..(n + 1) /\ ~(n + 1 <= n) /\ n + 1 - n = 1
      /\ 1..(n + 1) = 1..n \cup {n + 1} /\ n + 1 \notin 1..n
  BY <1>1
<1>6. \A i \in 1..n : (s \o <<e>>)[i] = s[i]  BY <1>3, <1>5
<1>7. (s \o <<e>>)[n + 1] = e  BY <1>2, <1>3, <1>5
<1>8. QED  BY <1>1, <1>3, <1>4, <1>5, <1>6, <1>7 DEF n

(* The obligations of a block, and last the panic that was expected. *)
WithPanic(b, front) == IF Panicked(b) THEN front \o <<Panic>> ELSE front

(* So it follows these obligations, which are about something else. *)
Follows(b, front, obs) ==
  /\ Len(front) \in Nat
  /\ DOMAIN obs = 1..Len(obs)
  /\ Len(obs) = Len(front) + IF Panicked(b) THEN 1 ELSE 0
  /\ \A i \in 1..Len(front) : obs[i] = front[i]
  /\ Panicked(b) => obs[Len(front) + 1] = Panic
  /\ (\A i \in 1..Len(front) : front[i].of # "expected panic") =>
       Said(obs, "expected panic") = IF Panicked(b) THEN {Len(front) + 1} ELSE {}

(* An expected panic comes last. *)
LEMMA PanicLast ==
  ASSUME NEW S, Panic \in S, NEW front \in Seq(S), NEW b
  PROVE  Follows(b, front, WithPanic(b, front))
<1> DEFINE obs == WithPanic(b, front)
           n == Len(front)
<1>1. Panic.of = "expected panic"  BY DEF Panic
<1>2. /\ n \in Nat /\ DOMAIN front = 1..n
      /\ DOMAIN (front \o <<Panic>>) = 1..(n + 1) /\ Len(front \o <<Panic>>) = n + 1
      /\ \A i \in 1..n : (front \o <<Panic>>)[i] = front[i]
      /\ (front \o <<Panic>>)[n + 1] = Panic
      /\ 1..(n + 1) = 1..n \cup {n + 1} /\ n + 1 \notin 1..n
  BY OneMore
<1>3. CASE Panicked(b)
  <2>1. obs = front \o <<Panic>>  BY <1>3 DEF WithPanic
  <2>2. /\ DOMAIN obs = 1..(n + 1) /\ Len(obs) = n + 1
        /\ \A i \in 1..n : obs[i] = front[i]
        /\ obs[n + 1] = Panic
    <3> HIDE DEF n, obs
    <3>1. QED  BY <1>2, <2>1
  <2> HIDE DEF n, obs
  <2>3. Said(obs, "expected panic") = {i \in 1..n \cup {n + 1} : obs[i].of = "expected panic"}
    BY <1>2, <2>2 DEF Said
  <2>4. (\A i \in 1..n : front[i].of # "expected panic") =>
          Said(obs, "expected panic") = {n + 1}
    BY <1>1, <2>2, <2>3
  <2>5. QED  BY <1>2, <1>3, <2>2, <2>4 DEF n, obs, Follows
<1>4. CASE ~Panicked(b)
  <2>1. obs = front  BY <1>4 DEF WithPanic
  <2> HIDE DEF obs
  <2>2. (\A i \in 1..n : front[i].of # "expected panic") => Said(obs, "expected panic") = {}
    BY <1>2, <2>1 DEF Said
  <2>3. n = n + 0  BY <1>2
  <2>4. QED  BY <1>2, <1>4, <2>1, <2>2, <2>3 DEF obs, Follows
<1>5. QED  BY <1>3, <1>4

(* The account of a block with checks: one obligation for each, in their order. *)
LEMMA ChecksObligations ==
  ASSUME NEW b \in Blocks, Accountable(b), b.checks # <<>>
  PROVE  LET obs == ObligationsFor(b)
             n   == Len(b.checks)
         IN /\ n \in Nat /\ DOMAIN obs = 1..Len(obs)
            /\ Len(obs) = n + IF Panicked(b) THEN 1 ELSE 0
            /\ \A i \in 1..n : Recognized(b.checks[i]) /\ obs[i] = Account(b.checks[i])
            /\ Panicked(b) => obs[n + 1] = Panic
            /\ Said(obs, "expected panic") = IF Panicked(b) THEN {n + 1} ELSE {}
<1> DEFINE n == Len(b.checks)
           T == [of : Ids \cup {"all", "message", "expected panic"}, status : Statuses]
           front == ChecksAccount(b)
<1>1. b.checks \in Seq(ReadChecks)  BY DEF Blocks
<1>2. /\ DOMAIN b.checks = 1..n /\ n \in Nat
      /\ \A i \in DOMAIN b.checks : b.checks[i] \in ReadChecks
  BY <1>1, LenProperties, ElementOfSeq
<1>3. \A i \in 1..n : Recognized(b.checks[i])  BY <1>2 DEF Accountable
<1>4. front = [i \in 1..n |-> Account(b.checks[i])]  BY <1>2 DEF ChecksAccount, Account
<1>5. ASSUME NEW i \in 1..n
      PROVE  Account(b.checks[i]) \in T /\ Account(b.checks[i]).of # "expected panic"
  <2>1. b.checks[i].id \in Ids  BY <1>2 DEF ReadChecks
  <2>2. StatusTable(b.checks[i])[b.checks[i].status] \in Statuses
    BY <1>3 DEF Recognized, StatusTable, CoverStatuses, AssertionStatuses, Statuses
  <2>3. Account(b.checks[i]).of = b.checks[i].id  BY DEF Account
  <2>4. QED  BY <2>1, <2>2, <2>3 DEF Account, Ids
<1>6. Panic \in T  BY DEF Panic, Statuses
<1>7. front \in Seq(T) /\ Len(front) = n
  <2>1. front \in [1..n -> T]
    <3> HIDE DEF T, front, n
    <3>1. QED  BY <1>4, <1>5
  <2> HIDE DEF T, front, n
  <2>2. QED  BY <1>2, <2>1, FunctionIsSeq
<1>8. \A i \in 1..n : front[i] = Account(b.checks[i])
  <2> HIDE DEF front, n
  <2>1. QED  BY <1>4
<1>9. ObligationsFor(b) = IF Panicked(b) THEN front \o <<Panic>> ELSE front
  <2>1. CASE Panicked(b)  BY <2>1 DEF ObligationsFor, Panicked, Panic
  <2>2. CASE ~Panicked(b)
    <3>1. ObligationsFor(b) = front \o <<>>  BY <2>2 DEF ObligationsFor, Panicked
    <3> HIDE DEF front, T
    <3>2. QED  BY <1>7, <2>2, <3>1, ConcatEmptySeq
  <2>3. QED  BY <2>1, <2>2
<1>10. \A i \in 1..Len(front) : front[i].of # "expected panic"
  BY <1>5, <1>7, <1>8
<1> HIDE DEF T, front
<1>11. /\ DOMAIN ObligationsFor(b) = 1..Len(ObligationsFor(b))
       /\ Len(ObligationsFor(b)) = Len(front) + IF Panicked(b) THEN 1 ELSE 0
       /\ \A i \in 1..Len(front) : ObligationsFor(b)[i] = front[i]
       /\ Panicked(b) => ObligationsFor(b)[Len(front) + 1] = Panic
       /\ Said(ObligationsFor(b), "expected panic")
            = IF Panicked(b) THEN {Len(front) + 1} ELSE {}
  <2>1. ObligationsFor(b) = WithPanic(b, front)  BY <1>9 DEF WithPanic
  <2>2. Follows(b, front, WithPanic(b, front))  BY <1>6, <1>7, PanicLast
  <2>3. Follows(b, front, ObligationsFor(b))  BY <2>1, <2>2
  <2>4. QED  BY <1>10, <2>3 DEF Follows
<1>12. QED  BY <1>2, <1>3, <1>7, <1>8, <1>11

(* The obligations of a block without checks. *)
All(b) == [of |-> "all", status |-> IF b.failed = 0 THEN "held" ELSE "failed"]

Failure == [of |-> "message", status |-> "failed"]

CoversOfAll(b) ==
  [of |-> "cover",
   status |-> IF b.covers.satisfied = b.covers.total THEN "held" ELSE "vacuous"]

Obligations == [of : Ids \cup {"all", "message", "expected panic"}, status : Statuses]

(* All checks first, each failure that is named, the covers. *)
LEMMA TerseFront ==
  ASSUME NEW b \in Blocks
  PROVE  /\ TerseAccount(b) \in Seq(Obligations) /\ Len(b.messages) \in Nat
         /\ Len(TerseAccount(b)) = Len(b.messages) + 1 + IF b.covers = None THEN 0 ELSE 1
         /\ TerseAccount(b)[1] = All(b)
         /\ \A i \in 2..(Len(b.messages) + 1) : TerseAccount(b)[i] = Failure
         /\ b.covers # None => TerseAccount(b)[Len(b.messages) + 2] = CoversOfAll(b)
<1> DEFINE m == Len(b.messages)
           mid == [i \in 1..m |-> Failure]
           lead == <<All(b)>> \o mid
<1>1. b.messages \in Seq(Texts)  BY DEF Blocks
<1>2. m \in Nat /\ DOMAIN b.messages = 1..m  BY <1>1, LenProperties
<1>3. TerseAccount(b) = lead \o (IF b.covers = None THEN <<>> ELSE <<CoversOfAll(b)>>)
  BY <1>2 DEF TerseAccount, All, Failure, CoversOfAll
<1>4. All(b) \in Obligations /\ Failure \in Obligations /\ CoversOfAll(b) \in Obligations
  BY DEF All, Failure, CoversOfAll, Obligations, Statuses, Ids
<1>5. mid \in Seq(Obligations) /\ Len(mid) = m
  <2>1. mid \in [1..m -> Obligations]  BY <1>4
  <2> HIDE DEF mid, m
  <2>2. QED  BY <1>2, <2>1, FunctionIsSeq
<1>6. \A i \in 1..m : mid[i] = Failure  OBVIOUS
<1> HIDE DEF mid, m
<1>7. /\ lead \in Seq(Obligations) /\ Len(lead) = m + 1 /\ lead[1] = All(b)
      /\ \A i \in 1..m : lead[i + 1] = mid[i]
  BY <1>4, <1>5, FirstThen
<1> HIDE DEF lead
<1>8. \A i \in 2..(m + 1) : lead[i] = Failure
  <2>1. ASSUME NEW i \in 2..(m + 1) PROVE lead[i] = Failure
    <3>1. i - 1 \in 1..m /\ (i - 1) + 1 = i  BY <1>2
    <3>2. lead[(i - 1) + 1] = mid[i - 1] /\ mid[i - 1] = Failure  BY <1>6, <1>7, <3>1
    <3>3. QED  BY <3>1, <3>2
  <2>2. QED  BY <2>1
<1>9. CASE b.covers = None
  <2>1. TerseAccount(b) = lead  BY <1>3, <1>7, <1>9, ConcatEmptySeq
  <2>2. m + 1 = m + 1 + 0  BY <1>2
  <2>3. QED  BY <1>2, <1>7, <1>8, <1>9, <2>1, <2>2 DEF m
<1>10. CASE b.covers # None
  <2>1. TerseAccount(b) = lead \o <<CoversOfAll(b)>>  BY <1>3, <1>10
  <2> DEFINE l == Len(lead)
  <2>2. /\ lead \o <<CoversOfAll(b)>> \in Seq(Obligations)
        /\ Len(lead \o <<CoversOfAll(b)>>) = l + 1
        /\ \A i \in 1..l : (lead \o <<CoversOfAll(b)>>)[i] = lead[i]
        /\ (lead \o <<CoversOfAll(b)>>)[l + 1] = CoversOfAll(b)
    BY <1>4, <1>7, OneMore
  <2>3. l = m + 1  BY <1>7
  <2> HIDE DEF l
  <2>4. /\ TerseAccount(b) \in Seq(Obligations)
        /\ Len(TerseAccount(b)) = l + 1
        /\ \A i \in 1..l : TerseAccount(b)[i] = lead[i]
        /\ TerseAccount(b)[l + 1] = CoversOfAll(b)
    BY <2>1, <2>2
  <2>5. /\ 1 \in 1..l /\ l + 1 = m + 2 /\ l + 1 = m + 1 + 1
        /\ \A i \in 2..(m + 1) : i \in 1..l
    BY <1>2, <2>3
  <2>6. QED  BY <1>2, <1>7, <1>8, <1>10, <2>4, <2>5 DEF m
<1>11. QED  BY <1>9, <1>10

(* The account of a block without checks. *)
LEMMA TerseObligations ==
  ASSUME NEW b \in Blocks, b.checks = <<>>
  PROVE  LET obs == ObligationsFor(b)
         IN /\ DOMAIN obs = 1..Len(obs) /\ obs[1] = All(b)
            /\ Len(b.messages) \in Nat
            /\ Said(obs, "message") = 2..(Len(b.messages) + 1)
            /\ Said(obs, "cover") = IF b.covers = None THEN {} ELSE {Len(b.messages) + 2}
            /\ b.covers # None => obs[Len(b.messages) + 2] = CoversOfAll(b)
            /\ Said(obs, "expected panic") # {} <=> Panicked(b)
<1> DEFINE m == Len(b.messages)
           front == TerseAccount(b)
           l == Len(front)
           obs == ObligationsFor(b)
<1>1. /\ front \in Seq(Obligations) /\ m \in Nat
      /\ l = m + 1 + IF b.covers = None THEN 0 ELSE 1
      /\ front[1] = All(b)
      /\ \A i \in 2..(m + 1) : front[i] = Failure
      /\ b.covers # None => front[m + 2] = CoversOfAll(b)
  BY TerseFront
<1>2. /\ All(b).of = "all" /\ Failure.of = "message" /\ CoversOfAll(b).of = "cover"
      /\ Panic.of = "expected panic" /\ Panic \in Obligations
  BY DEF All, Failure, CoversOfAll, Panic, Obligations, Statuses
<1>3. obs = WithPanic(b, front)
  <2>1. CASE Panicked(b)
    BY <2>1 DEF ObligationsFor, Panicked, Panic, WithPanic
  <2>2. CASE ~Panicked(b)
    <3>1. obs = front \o <<>>  BY <2>2 DEF ObligationsFor, Panicked
    <3>2. WithPanic(b, front) = front  BY <2>2 DEF WithPanic
    <3> HIDE DEF front, obs
    <3>3. QED  BY <1>1, <3>1, <3>2, ConcatEmptySeq
  <2>3. QED  BY <2>1, <2>2
<1> HIDE DEF front, obs
<1>4. Follows(b, front, WithPanic(b, front))  BY <1>1, <1>2, PanicLast
<1>5. Follows(b, front, obs)  BY <1>3, <1>4
<1>6. /\ DOMAIN obs = 1..Len(obs)
      /\ Len(obs) = l + IF Panicked(b) THEN 1 ELSE 0
      /\ \A i \in 1..l : obs[i] = front[i]
      /\ Panicked(b) => obs[l + 1] = Panic
  BY <1>5 DEF Follows
<1> HIDE DEF m, l
<1>7. CASE b.covers = None
  <2>1. l = m + 1  BY <1>1, <1>7
  <2>2. 1 \in 1..l /\ \A i \in 2..(m + 1) : i \in 1..l  BY <1>1, <2>1
  <2>3. obs[1] = All(b) /\ \A i \in 2..(m + 1) : obs[i] = Failure  BY <1>1, <1>6, <2>2
  <2>4. CASE Panicked(b)
    <3>1. DOMAIN obs = {1} \cup 2..(m + 1) \cup {m + 2}  BY <1>1, <1>6, <2>1, <2>4
    <3>2. obs[m + 2] = Panic
      <4>1. l + 1 = m + 2  BY <1>1, <2>1
      <4>2. QED  BY <1>6, <2>4, <4>1
    <3>3. /\ \A i \in 2..(m + 1) : i # 1 /\ i # m + 2
          /\ 1 # m + 2
      BY <1>1
    <3>4. Said(obs, "message") = 2..(m + 1) /\ Said(obs, "cover") = {}
      BY <1>2, <2>3, <3>1, <3>2, <3>3 DEF Said
    <3>5. m + 2 \in Said(obs, "expected panic")  BY <1>2, <3>1, <3>2 DEF Said
    <3>6. QED  BY <1>1, <1>6, <1>7, <2>3, <2>4, <3>4, <3>5 DEF m, obs
  <2>5. CASE ~Panicked(b)
    <3>1. DOMAIN obs = {1} \cup 2..(m + 1)  BY <1>1, <1>6, <2>1, <2>5
    <3>2. \A i \in 2..(m + 1) : i # 1  BY <1>1
    <3>3. Said(obs, "message") = 2..(m + 1) /\ Said(obs, "cover") = {}
      BY <1>2, <2>3, <3>1, <3>2 DEF Said
    <3>4. Said(obs, "expected panic") = {}  BY <1>2, <2>3, <3>1, <3>2 DEF Said
    <3>5. QED  BY <1>1, <1>6, <1>7, <2>3, <2>5, <3>3, <3>4 DEF m, obs
  <2>6. QED  BY <2>4, <2>5
<1>8. CASE b.covers # None
  <2>1. l = m + 2  BY <1>1, <1>8
  <2>2. /\ 1 \in 1..l /\ m + 2 \in 1..l
        /\ \A i \in 2..(m + 1) : i \in 1..l
    BY <1>1, <2>1
  <2>3. /\ obs[1] = All(b) /\ obs[m + 2] = CoversOfAll(b)
        /\ \A i \in 2..(m + 1) : obs[i] = Failure
    BY <1>1, <1>6, <1>8, <2>2
  <2>4. CASE Panicked(b)
    <3>1. DOMAIN obs = {1} \cup 2..(m + 1) \cup {m + 2} \cup {m + 3}
      BY <1>1, <1>6, <2>1, <2>4
    <3>2. obs[m + 3] = Panic
      <4>1. l + 1 = m + 3  BY <1>1, <2>1
      <4>2. QED  BY <1>6, <2>4, <4>1
    <3>3. /\ \A i \in 2..(m + 1) : i # 1 /\ i # m + 2 /\ i # m + 3
          /\ 1 # m + 2 /\ 1 # m + 3 /\ m + 2 # m + 3
      BY <1>1
    <3>4. Said(obs, "message") = 2..(m + 1) /\ Said(obs, "cover") = {m + 2}
      BY <1>2, <2>3, <3>1, <3>2, <3>3 DEF Said
    <3>5. m + 3 \in Said(obs, "expected panic")  BY <1>2, <3>1, <3>2 DEF Said
    <3>6. QED  BY <1>1, <1>6, <1>8, <2>3, <2>4, <3>4, <3>5 DEF m, obs
  <2>5. CASE ~Panicked(b)
    <3>1. DOMAIN obs = {1} \cup 2..(m + 1) \cup {m + 2}  BY <1>1, <1>6, <2>1, <2>5
    <3>2. /\ \A i \in 2..(m + 1) : i # 1 /\ i # m + 2
          /\ 1 # m + 2
      BY <1>1
    <3>3. Said(obs, "message") = 2..(m + 1) /\ Said(obs, "cover") = {m + 2}
      BY <1>2, <2>3, <3>1, <3>2 DEF Said
    <3>4. Said(obs, "expected panic") = {}  BY <1>2, <2>3, <3>1, <3>2 DEF Said
    <3>5. QED  BY <1>1, <1>6, <1>8, <2>3, <2>5, <3>3, <3>4 DEF m, obs
  <2>6. QED  BY <2>4, <2>5
<1>9. QED  BY <1>7, <1>8
(* The verifier saw the panic it expected. *)
LEMMA PanicMeans ==
  ASSUME NEW b, NEW r \in Reports, Faithful(b, r)
  PROVE  Panicked(b) <=> r.panics /\ Failing(r.checks) # {}
<1>1. r.panics \in BOOLEAN  BY DEF Reports
<1>2. b.result = Result(r) /\ b.panics = r.panics  BY DEF Faithful
<1>3. CASE r.panics  BY <1>2, <1>3 DEF Panicked, Result
<1>4. CASE ~r.panics  BY <1>2, <1>4 DEF Panicked
<1>5. QED  BY <1>1, <1>3, <1>4

(* Without per-check results. *)
LEMMA FaithfulTerse ==
  ASSUME NEW b \in Blocks, NEW r \in Reports, Faithful(b, r), b.checks = <<>>
  PROVE  LET obs == ObligationsFor(b)
         IN /\ DOMAIN obs = 1..Len(obs)
            /\ obs[1].status = IF Failing(r.checks) = {} THEN "held" ELSE "failed"
            /\ Cardinality(Said(obs, "message")) = Cardinality(Failing(r.checks))
            /\ Said(obs, "cover") = {} <=> Covers(r.checks) = {}
            /\ \A i \in Said(obs, "cover") :
                 obs[i].status = IF Satisfied(r.checks) = Covers(r.checks)
                                 THEN "held" ELSE "vacuous"
            /\ Said(obs, "expected panic") # {} <=> r.panics /\ Failing(r.checks) # {}
<1> DEFINE obs == ObligationsFor(b)
           m == Len(b.messages)
           failing == Failing(r.checks)
           covers == Covers(r.checks)
           satisfied == Satisfied(r.checks)
<1>1. /\ DOMAIN obs = 1..Len(obs) /\ obs[1] = All(b) /\ m \in Nat
      /\ Said(obs, "message") = 2..(m + 1)
      /\ Said(obs, "cover") = IF b.covers = None THEN {} ELSE {m + 2}
      /\ b.covers # None => obs[m + 2] = CoversOfAll(b)
      /\ Said(obs, "expected panic") # {} <=> Panicked(b)
  BY TerseObligations
<1>2. /\ Names(b.messages, r.checks, Len(r.checks)) /\ b.failed = Cardinality(failing)
      /\ b.covers = IF covers = {} THEN None
                    ELSE [satisfied |-> Cardinality(satisfied), total |-> Cardinality(covers)]
  BY DEF Faithful
<1>3. r.checks \in Seq(Checks)  BY DEF Reports
<1>4. /\ IsFiniteSet(failing) /\ Cardinality(failing) \in Nat
      /\ Cardinality(failing) = 0 <=> failing = {}
      /\ IsFiniteSet(covers) /\ Cardinality(covers) \in Nat
      /\ Cardinality(satisfied) \in Nat /\ satisfied \subseteq covers
  BY <1>3, FailingIsFinite
<1>5. m = Cardinality(failing)
  <2>1. Len(r.checks) \in Nat /\ DOMAIN r.checks = 1..Len(r.checks)  BY <1>3, LenProperties
  <2>2. {i \in failing : i <= Len(r.checks)} = failing  BY <2>1 DEF Failing
  <2>3. m = Cardinality({i \in failing : i <= Len(r.checks)})  BY <1>2 DEF Names
  <2>4. QED  BY <2>2, <2>3
<1>6. obs[1].status = IF failing = {} THEN "held" ELSE "failed"
  <2>1. obs[1] = All(b)  BY <1>1
  <2> HIDE DEF obs
  <2>2. obs[1].status = IF b.failed = 0 THEN "held" ELSE "failed"  BY <2>1 DEF All
  <2>3. QED  BY <1>2, <1>4, <2>2
<1>7. Cardinality(Said(obs, "message")) = Cardinality(failing)
  <2>1. m \in Nat /\ Said(obs, "message") = 2..(m + 1)  BY <1>1
  <2> HIDE DEF m, obs, failing
  <2>2. 2 \in Int /\ m + 1 \in Int  BY <2>1
  <2>3. Cardinality(2..(m + 1)) = IF 2 > m + 1 THEN 0 ELSE (m + 1) - 2 + 1
    BY <2>2, FS_Interval
  <2>4. Cardinality(2..(m + 1)) = m  BY <2>1, <2>3
  <2>5. QED  BY <1>5, <2>1, <2>4
<1>8. Cardinality(satisfied) = Cardinality(covers) <=> satisfied = covers
  BY <1>4, FS_Subset
<1>9. b.covers = None <=> covers = {}
  <2>1. [satisfied |-> Cardinality(satisfied), total |-> Cardinality(covers)]
          \in [satisfied : Nat, total : Nat]
    BY <1>4
  <2>2. [satisfied |-> Cardinality(satisfied), total |-> Cardinality(covers)] # None
    BY <2>1, NoneAssumption
  <2>3. QED  BY <1>2, <2>2
<1>10. Said(obs, "cover") = {} <=> covers = {}
  <2> HIDE DEF obs, m, covers
  <2>1. QED  BY <1>1, <1>9
<1>11. ASSUME NEW i \in Said(obs, "cover")
       PROVE  obs[i].status = IF satisfied = covers THEN "held" ELSE "vacuous"
  <2>1. b.covers # None /\ i = m + 2 /\ obs[i] = CoversOfAll(b)
    <3> HIDE DEF obs, m
    <3>1. QED  BY <1>1, <1>11
  <2>2. b.covers = [satisfied |-> Cardinality(satisfied), total |-> Cardinality(covers)]
    BY <1>2, <1>9, <2>1
  <2>3. b.covers.satisfied = b.covers.total <=> satisfied = covers  BY <1>8, <2>2
  <2>4. obs[i].status = IF b.covers.satisfied = b.covers.total THEN "held" ELSE "vacuous"
    BY <2>1 DEF CoversOfAll
  <2>5. QED  BY <2>3, <2>4
<1>12. Said(obs, "expected panic") # {} <=> r.panics /\ failing # {}
  BY <1>1, PanicMeans
<1>13. QED  BY <1>1, <1>6, <1>7, <1>10, <1>11, <1>12

(* With them. *)
LEMMA FaithfulInFull ==
  ASSUME NEW b \in Blocks, NEW r \in Reports, Faithful(b, r), b.checks # <<>>, Accountable(b)
  PROVE  LET obs    == ObligationsFor(b)
             panics == Said(obs, "expected panic")
         IN /\ DOMAIN obs = 1..Len(obs) /\ DOMAIN r.checks \subseteq DOMAIN obs
            /\ panics # {} <=> r.panics /\ Failing(r.checks) # {}
            /\ Len(obs) = Len(r.checks) + Cardinality(panics)
            /\ \A i \in DOMAIN r.checks :
                 /\ obs[i].status = "failed" <=> r.checks[i].status = "FAILURE"
                 /\ obs[i].status = "held" <=> r.checks[i].status \in {"SUCCESS", "SATISFIED"}
                 /\ obs[i].status = "vacuous" <=>
                      r.checks[i].id = "cover" /\ r.checks[i].status = "UNSATISFIABLE"
                 /\ obs[i].status = "not-exercised" <=>
                      r.checks[i].status \in {"UNREACHABLE", "UNDETERMINED"}
            /\ Said(obs, "cover") = Covers(r.checks)
            /\ \A i \in Covers(r.checks) :
                 obs[i].status = "held" <=> r.checks[i].status = "SATISFIED"
<1> DEFINE obs == ObligationsFor(b)
           panics == Said(obs, "expected panic")
           n == Len(b.checks)
<1>1. /\ Len(b.checks) = Len(r.checks) /\ DOMAIN b.checks = DOMAIN r.checks
      /\ \A i \in DOMAIN r.checks : /\ b.checks[i].id = r.checks[i].id
                                    /\ b.checks[i].status = r.checks[i].status
  BY FaithfulChecks
<1>2. /\ n \in Nat /\ DOMAIN obs = 1..Len(obs)
      /\ Len(obs) = n + IF Panicked(b) THEN 1 ELSE 0
      /\ \A i \in 1..n : Recognized(b.checks[i]) /\ obs[i] = Account(b.checks[i])
      /\ Panicked(b) => obs[n + 1] = Panic
      /\ panics = IF Panicked(b) THEN {n + 1} ELSE {}
  BY ChecksObligations
<1>3. DOMAIN r.checks = 1..n
  <2>1. b.checks \in Seq(ReadChecks)  BY DEF Blocks
  <2>2. QED  BY <1>1, <2>1, LenProperties
<1> HIDE DEF obs, panics, n
<1>4. ASSUME NEW i \in DOMAIN r.checks
      PROVE  /\ obs[i].of = r.checks[i].id
             /\ obs[i].status = "failed" <=> r.checks[i].status = "FAILURE"
             /\ obs[i].status = "held" <=> r.checks[i].status \in {"SUCCESS", "SATISFIED"}
             /\ obs[i].status = "vacuous" <=>
                  r.checks[i].id = "cover" /\ r.checks[i].status = "UNSATISFIABLE"
             /\ obs[i].status = "not-exercised" <=>
                  r.checks[i].status \in {"UNREACHABLE", "UNDETERMINED"}
             /\ r.checks[i].id = "cover" =>
                  (obs[i].status = "held" <=> r.checks[i].status = "SATISFIED")
  <2> DEFINE c == b.checks[i]
  <2>1. Recognized(c) /\ obs[i] = Account(c)  BY <1>2, <1>3
  <2>2. c.id = r.checks[i].id /\ c.status = r.checks[i].status  BY <1>1
  <2> HIDE DEF c
  <2>3. /\ Account(c).of = c.id
        /\ Account(c).status = "failed" <=> c.status = "FAILURE"
        /\ Account(c).status = "held" <=> c.status \in {"SUCCESS", "SATISFIED"}
        /\ Account(c).status = "vacuous" <=> c.id = "cover" /\ c.status = "UNSATISFIABLE"
        /\ Account(c).status = "not-exercised" <=> c.status \in {"UNREACHABLE", "UNDETERMINED"}
        /\ c.id = "cover" => (Account(c).status = "held" <=> c.status = "SATISFIED")
    BY <2>1, AccountMeans
  <2>4. QED  BY <2>1, <2>2, <2>3
<1>5. Cardinality(panics) = IF Panicked(b) THEN 1 ELSE 0
  BY <1>2, FS_Singleton, FS_EmptySet
<1>6. Len(obs) = Len(r.checks) + Cardinality(panics)  BY <1>1, <1>2, <1>5 DEF n
<1>7. panics # {} <=> r.panics /\ Failing(r.checks) # {}  BY <1>2, PanicMeans
<1>8. DOMAIN r.checks \subseteq DOMAIN obs
  <2>1. CASE Panicked(b)
    <3>1. Len(obs) = n + 1  BY <1>2, <2>1
    <3>2. QED  BY <1>2, <1>3, <3>1
  <2>2. CASE ~Panicked(b)
    <3>1. Len(obs) = n  BY <1>2, <2>2
    <3>2. QED  BY <1>2, <1>3, <3>1
  <2>3. QED  BY <2>1, <2>2
<1>9. Said(obs, "cover") = Covers(r.checks)
  <2>1. ASSUME NEW i \in DOMAIN obs, i \notin DOMAIN r.checks PROVE obs[i].of # "cover"
    <3>1. CASE Panicked(b)
      <4>1. Len(obs) = n + 1  BY <1>2, <3>1
      <4>2. i = n + 1  BY <1>2, <1>3, <2>1, <4>1
      <4>3. obs[i] = Panic  BY <1>2, <3>1, <4>2
      <4>4. Panic.of = "expected panic"  BY DEF Panic
      <4>5. QED  BY <4>3, <4>4
    <3>2. CASE ~Panicked(b)
      <4>1. DOMAIN obs = 1..(n + 0) /\ n \in Nat  BY <1>2, <3>2
      <4>2. DOMAIN obs = DOMAIN r.checks  BY <1>3, <4>1
      <4>3. QED  BY <2>1, <4>2
    <3>3. QED  BY <3>1, <3>2
  <2>2. \A i \in DOMAIN r.checks : obs[i].of = r.checks[i].id  BY <1>4
  <2>3. QED  BY <1>8, <2>1, <2>2 DEF Said, Covers
<1>10. \A i \in Covers(r.checks) : obs[i].status = "held" <=> r.checks[i].status = "SATISFIED"
  BY <1>4 DEF Covers
<1>11. QED  BY <1>2, <1>4, <1>6, <1>7, <1>8, <1>9, <1>10 DEF obs, panics
(* Each harness has its own obligations. *)
LEMMA ObligationsAreOwn ==
  ASSUME IInv
  PROVE  OwnObligations
<1> SUFFICES ASSUME Trusted, NEW h \in DOMAIN outcome, Told(h)
             PROVE  LET r    == found[h]
                        obs  == outcome[h].obligations
                        panics == Said(obs, "expected panic")
                    IN /\ panics # {} <=> (r.panics /\ Failing(r.checks) # {})
                       /\ IF terse \/ r.checks = <<>>
                          THEN /\ obs[1].status =
                                    IF Failing(r.checks) = {} THEN "held" ELSE "failed"
                               /\ Cardinality(Said(obs, "message"))
                                    = Cardinality(Failing(r.checks))
                               /\ (\E i \in Said(obs, "cover") : obs[i].status = "vacuous")
                                    <=> Satisfied(r.checks) # Covers(r.checks)
                          ELSE /\ Len(obs) = Len(r.checks) + Cardinality(panics)
                               /\ \A i \in DOMAIN r.checks :
                                    LET c == r.checks[i] IN
                                    /\ obs[i].status = "failed" <=> c.status = "FAILURE"
                                    /\ obs[i].status = "held"
                                         <=> c.status \in {"SUCCESS", "SATISFIED"}
                                    /\ obs[i].status = "vacuous" <=>
                                         (c.id = "cover" /\ c.status = "UNSATISFIABLE")
                                    /\ obs[i].status = "not-exercised" <=>
                                         c.status \in {"UNREACHABLE", "UNDETERMINED"}
  BY DEF OwnObligations
<1> DEFINE r      == found[h]
           obs    == outcome[h].obligations
           panics == Said(obs, "expected panic")
<1>1. r \in Reports  BY ReceiptOf
<1>2. PICK b \in Blocks : Honest(h, b) /\ obs = ObligationsFor(b)  BY ReceiptOf
<1>3. Accountable(b) /\ Faithful(b, r)  BY <1>2 DEF Honest
<1> HIDE DEF r, obs
<1>4. CASE b.checks = <<>>
  <2>1. terse \/ r.checks = <<>>  BY <1>1, <1>3, <1>4, FaithfulChecks
  <2>2. /\ obs[1].status = IF Failing(r.checks) = {} THEN "held" ELSE "failed"
        /\ Cardinality(Said(obs, "message")) = Cardinality(Failing(r.checks))
        /\ Said(obs, "cover") = {} <=> Covers(r.checks) = {}
        /\ \A i \in Said(obs, "cover") :
             obs[i].status = IF Satisfied(r.checks) = Covers(r.checks)
                             THEN "held" ELSE "vacuous"
        /\ panics # {} <=> r.panics /\ Failing(r.checks) # {}
    BY <1>1, <1>2, <1>3, <1>4, FaithfulTerse
  <2>3. Satisfied(r.checks) \subseteq Covers(r.checks)  BY DEF Satisfied
  <2>4. (\E i \in Said(obs, "cover") : obs[i].status = "vacuous")
          <=> Satisfied(r.checks) # Covers(r.checks)
    BY <2>2, <2>3
  <2>5. QED  BY <2>1, <2>2, <2>4 DEF r, obs
<1>5. CASE b.checks # <<>>
  <2>1. ~(terse \/ r.checks = <<>>)  BY <1>1, <1>3, <1>5, FaithfulChecks
  <2>2. /\ panics # {} <=> r.panics /\ Failing(r.checks) # {}
        /\ Len(obs) = Len(r.checks) + Cardinality(panics)
        /\ \A i \in DOMAIN r.checks :
             /\ obs[i].status = "failed" <=> r.checks[i].status = "FAILURE"
             /\ obs[i].status = "held" <=> r.checks[i].status \in {"SUCCESS", "SATISFIED"}
             /\ obs[i].status = "vacuous" <=>
                  r.checks[i].id = "cover" /\ r.checks[i].status = "UNSATISFIABLE"
             /\ obs[i].status = "not-exercised" <=>
                  r.checks[i].status \in {"UNREACHABLE", "UNDETERMINED"}
    BY <1>1, <1>2, <1>3, <1>5, FaithfulInFull
  <2>3. QED  BY <2>1, <2>2 DEF r, obs
<1>6. QED  BY <1>4, <1>5

(* A control is observed to be satisfied when its covers are. *)
LEMMA CoversAreObserved ==
  ASSUME IInv
  PROVE  SatisfactionIsObserved
<1> SUFFICES ASSUME Trusted, strict, NEW h \in DOMAIN outcome
             PROVE  Observed("sat", outcome[h]) = "sat"
                      <=> /\ Covers(found[h].checks) # {}
                          /\ Satisfied(found[h].checks) = Covers(found[h].checks)
  BY DEF SatisfactionIsObserved
<1> DEFINE r      == found[h]
           obs    == outcome[h].obligations
           covers == Covers(r.checks)
<1>1. r \in Reports  BY ReceiptOf
<1>2. PICK b \in Blocks : Honest(h, b) /\ obs = ObligationsFor(b)  BY ReceiptOf
<1>3. Accountable(b) /\ Faithful(b, r)  BY <1>2 DEF Honest
<1>4. Observed("sat", outcome[h]) = "sat"
        <=> CoversOf(obs) # {} /\ \A c \in CoversOf(obs) : c.status = "held"
  <2> HIDE DEF obs
  <2>1. CASE CoversOf(obs) = {}
    <3>1. Observed("sat", outcome[h]) = "no-cover-property"  BY <2>1 DEF Observed, obs
    <3>2. QED  BY <2>1, <3>1
  <2>2. CASE CoversOf(obs) # {}
    <3>1. Observed("sat", outcome[h])
            = IF \A c \in CoversOf(obs) : c.status = "held" THEN "sat" ELSE "unsat"
      BY <2>2 DEF Observed, obs
    <3>2. QED  BY <2>2, <3>1
  <2>3. QED  BY <2>1, <2>2
<1>5. CoversOf(obs) = {obs[i] : i \in Said(obs, "cover")}
  <2> HIDE DEF obs
  <2>1. QED  BY DEF CoversOf, Said, Range
<1>6. Satisfied(r.checks) = {i \in covers : r.checks[i].status = "SATISFIED"}
  BY DEF Satisfied
<1> HIDE DEF r, obs, covers
<1>7. /\ Said(obs, "cover") = {} <=> covers = {}
      /\ covers # {} =>
           ((\A i \in Said(obs, "cover") : obs[i].status = "held")
              <=> Satisfied(r.checks) = covers)
  <2>1. CASE b.checks = <<>>
    <3>1. /\ Said(obs, "cover") = {} <=> covers = {}
          /\ \A i \in Said(obs, "cover") :
               obs[i].status = IF Satisfied(r.checks) = covers THEN "held" ELSE "vacuous"
      BY <1>1, <1>2, <1>3, <2>1, FaithfulTerse DEF covers
    <3>2. QED  BY <3>1
  <2>2. CASE b.checks # <<>>
    <3>1. /\ Said(obs, "cover") = covers
          /\ \A i \in covers : obs[i].status = "held" <=> r.checks[i].status = "SATISFIED"
      BY <1>1, <1>2, <1>3, <2>2, FaithfulInFull DEF covers
    <3>2. QED  BY <1>6, <3>1
  <2>3. QED  BY <2>1, <2>2
<1>8. QED  BY <1>4, <1>5, <1>7 DEF r, covers

(* However the workers' lines interleave and wherever the log ends, a receipt has
   the verdict the verifier reached about its harness. *)
THEOREM Verdicts == Spec => []OwnVerdict
<1>1. IInv => OwnVerdict  BY VerdictsAreOwn
<1>2. QED  BY <1>1, Invariance, PTL

(* And it has the obligations of that harness, with the verifier's statuses. *)
THEOREM OwnAccounts == Spec => []OwnObligations
<1>1. IInv => OwnObligations  BY ObligationsAreOwn
<1>2. QED  BY <1>1, Invariance, PTL

(* A contract that passes the control check on receipts of this parser has a
   harness the verifier refuted. *)
THEOREM ContractsAreRefuted == Spec => []ContractRestsOnRefutation
<1>1. IInv => ContractRestsOnRefutation  BY RedIsRefuted
<1>2. QED  BY <1>1, Invariance, PTL

(* A control that predicts its covers are satisfied is observed so exactly when
   the verifier satisfied every one of them and there is one. *)
THEOREM SatisfactionShows == Spec => []SatisfactionIsObserved
<1>1. IInv => SatisfactionIsObserved  BY CoversAreObserved
<1>2. QED  BY <1>1, Invariance, PTL
===============================================================================
