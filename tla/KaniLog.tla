-------------------------------- MODULE KaniLog ---------------------------------
(***************************************************************************)
(* adapters/kani.py: the console log of a verifier whose workers share one *)
(* output, and the parser that makes one receipt per harness of it.        *)
(*                                                                         *)
(* The parser is one pass over the lines, so the model reads each line as  *)
(* it is printed; what the log holds is what was printed when it ended, by *)
(* itself or because the run was killed.  A line is a record of its kind   *)
(* and of the fields the regular expression of that kind extracts.         *)
(***************************************************************************)
EXTENDS Naturals, Sequences, FiniteSets, SequencesExt

CONSTANTS
  Harnesses,     \* harness names
  Findings,      \* what a run of the verifier may find out, harness by harness
  Threads,       \* worker threads of the verifier
  Main,          \* the verifier's main thread, the only one of a sequential run
  None,          \* stands for Python's None
  Refused        \* the parser raised KaniAdapterError

ASSUME MainAssumption == Main \notin Threads

VARIABLES
  strict,        \* the parser's require_trailer
  whole,         \* does a worker print the body of a block without interruption?
  terse,         \* the verifier's output format: without per-check results?
  workers,       \* the threads that take on harnesses
  found,         \* the findings of this run: the panic mode and the checks of each harness
  waiting,       \* the harnesses no worker has taken on
  job,           \* the harness each worker is about
  script,        \* the lines each worker has still to print
  printing,      \* the worker in the middle of a whole body
  log,           \* "open", "closing", then "complete" or "cut"
  blocks, threadBlock, current, pending,   \* _parse_blocks' variables
  buffer,        \* description_buffer or failed_message_buffer
  failedFor, trailer,
  outcome        \* what parse_kani_log returned

run    == <<strict, whole, terse, workers>>
tool   == <<found, waiting, job, script, printing, log>>
parser == <<blocks, threadBlock, current, pending, buffer, failedFor, trailer>>
vars   == <<run, tool, parser, outcome>>

-------------------------------------------------------------------------------
(* The verifier, which is not part of this code *)

Ids == {"assertion", "cover", "unsupported"}

Texts == {"plain", "unsupported"}

Answers == {"SUCCESS", "FAILURE", "SATISFIED", "UNSATISFIABLE", "UNREACHABLE", "UNDETERMINED"}

(* A check: its id, whether its description names an unsupported construct, as
   that of a check with such an id does, and the lines the description takes. *)
Checks ==
  {c \in [id : Ids, text : Texts, status : Answers, lines : {1, 2}] :
     c.id = "unsupported" => c.text = "unsupported"}

ASSUME FindingsAssumption ==
  \A f \in Findings :
    /\ DOMAIN f \subseteq Harnesses /\ IsFiniteSet(DOMAIN f)
    /\ f \in [DOMAIN f -> [panics : BOOLEAN, checks : Seq(Checks)]]

Failing(checks) == {i \in DOMAIN checks : checks[i].status = "FAILURE"}

Covers(checks) == {i \in DOMAIN checks : checks[i].id = "cover"}

Satisfied(checks) == {i \in Covers(checks) : checks[i].status = "SATISFIED"}

(* A harness meant to panic succeeds when something in it fails. *)
Result(r) == IF r.panics = (Failing(r.checks) # {}) THEN "SUCCESSFUL" ELSE "FAILED"

CheckLines(c) ==
  <<[kind |-> "check", id |-> c.id], [kind |-> "status", status |-> c.status]>>
  \o IF c.lines = 1
     THEN <<[kind |-> "description", text |-> c.text, open |-> FALSE]>>
     ELSE <<[kind |-> "description", text |-> "plain", open |-> TRUE],
            [kind |-> "end of description", text |-> c.text]>>

FailureLines(c) ==
  IF c.status = "FAILURE"
  THEN <<[kind |-> "failed check", text |-> c.text], [kind |-> "file"]>>
  ELSE <<>>

(* The terse format has no per-check results. *)
Body(r) ==
  <<[kind |-> "section"]>>
  \o (IF terse THEN <<>>
      ELSE FlattenSeq([i \in DOMAIN r.checks |-> CheckLines(r.checks[i])]))
  \o <<[kind |-> "summary", failed |-> Cardinality(Failing(r.checks))]>>
  \o FlattenSeq([i \in DOMAIN r.checks |-> FailureLines(r.checks[i])])
  \o <<[kind |-> "blank"]>>
  \o (IF Covers(r.checks) = {} THEN <<>>
      ELSE <<[kind |-> "covers", satisfied |-> Cardinality(Satisfied(r.checks)),
              total |-> Cardinality(Covers(r.checks))]>>)
  \o <<[kind |-> "verdict", result |-> Result(r), panics |-> r.panics]>>

(* A worker thread names itself again once the harness is done. *)
Block(w, h, r) ==
  <<[kind |-> "harness", worker |-> w, name |-> h]>>
  \o (IF w = Main THEN <<>> ELSE <<[kind |-> "thread", worker |-> w]>>)
  \o Body(r)

InBody(line) == line.kind \notin {"harness", "thread", "failed for", "trailer"}

WithResult(result) == {h \in DOMAIN found : Result(found[h]) = result}

TakeOn(w, h) ==
  /\ outcome = None
  /\ script[w] = <<>>
  /\ h \in waiting
  /\ waiting' = waiting \ {h}
  /\ job' = [job EXCEPT ![w] = h]
  /\ script' = [script EXCEPT ![w] = Block(w, h, found[h])]
  /\ UNCHANGED <<run, found, printing, log, parser, outcome>>

(* Once every harness is done: those that failed, in any order, and the counts. *)
Close ==
  /\ outcome = None
  /\ log = "open"
  /\ waiting = {}
  /\ \A w \in workers : script[w] = <<>>
  /\ log' = "closing"
  /\ \E failed \in SetToSeqs(WithResult("FAILED")) :
       script' = [script EXCEPT ![Main] =
         [i \in DOMAIN failed |-> [kind |-> "failed for", name |-> failed[i]]]
         \o <<[kind |-> "trailer", successful |-> Cardinality(WithResult("SUCCESSFUL")),
               failures |-> Len(failed), total |-> Cardinality(DOMAIN found)]>>]
  /\ job' = [job EXCEPT ![Main] = None]
  /\ UNCHANGED <<run, found, waiting, printing, parser, outcome>>

(* The next line of a worker reaches the log. *)
Emit(w, line) ==
  /\ outcome = None
  /\ script[w] # <<>> /\ line = Head(script[w])
  /\ whole => printing \in {None, w}
  /\ printing' = IF whole /\ InBody(line) /\ line.kind # "verdict" THEN w ELSE None
  /\ script' = [script EXCEPT ![w] = Tail(@)]
  /\ UNCHANGED <<run, found, waiting, job, log>>

-------------------------------------------------------------------------------
(* _parse_blocks, one line at a time *)

NoBuffer == [of |-> "nothing"]

BlankBlock ==
  [checks |-> <<>>, messages |-> <<>>, failed |-> None, covers |-> None,
   result |-> None, panics |-> FALSE]

(* A check as far as it was read, and a block. *)
ReadChecks ==
  [id : Ids, text : Texts, status : Answers \cup {None}]

Blocks ==
  [checks : Seq(ReadChecks), messages : Seq(Texts), failed : Nat \cup {None},
   covers : [satisfied : Nat, total : Nat] \cup {None},
   result : {"SUCCESSFUL", "FAILED", None}, panics : BOOLEAN]

Statuses == {"held", "failed", "vacuous", "not-exercised"}

Receipts ==
  [ruling : [verdict : {"accepted", "rejected", "error"},
             kind : {"tool-error", "unsupported-construct", None}],
   obligations : Seq([of : Ids \cup {"all", "message", "expected panic"}, status : Statuses])]

ASSUME NoneAssumption ==
  /\ None \notin {"SUCCESSFUL", "FAILED", "tool-error", "unsupported-construct"}
  /\ None \notin Answers \cup Nat \cup Harnesses \cup Threads \cup {Main, Refused}
  /\ None \notin Blocks \cup [satisfied : Nat, total : Nat] \cup [name : Harnesses, number : Nat]
  /\ \A S \in SUBSET Harnesses : None \notin [S -> Receipts]

Refuse == outcome' = Refused /\ UNCHANGED parser

Mentions(line) == "text" \in DOMAIN line /\ line.text = "unsupported"

Text(buffered, line) == IF Mentions(line) THEN "unsupported" ELSE buffered

EndsInQuote(line) ==
  \/ line.kind = "end of description"
  \/ line.kind = "description" /\ ~line.open

(* A description runs to the line that ends in a quote, whoever printed it. *)
ReadDescription(line) ==
  /\ buffer.of = "description"
  /\ IF EndsInQuote(line)
     THEN /\ buffer' = NoBuffer
          /\ blocks' = IF pending = None THEN blocks
                       ELSE [blocks EXCEPT ![pending.name].checks[pending.number].text =
                               Text(buffer.text, line)]
     ELSE /\ buffer' = [buffer EXCEPT !.text = Text(@, line)]
          /\ UNCHANGED blocks
  /\ UNCHANGED <<threadBlock, current, pending, failedFor, trailer, outcome>>

(* A failed check's message runs to its File line or to a blank one. *)
ReadMessage(line) ==
  /\ buffer.of = "message"
  /\ IF line.kind \in {"file", "blank"}
     THEN /\ buffer' = NoBuffer
          /\ blocks' = IF current = None THEN blocks
                       ELSE [blocks EXCEPT ![current].messages = Append(@, buffer.text)]
     ELSE /\ buffer' = [buffer EXCEPT !.text = Text(@, line)]
          /\ UNCHANGED blocks
  /\ UNCHANGED <<threadBlock, current, pending, failedFor, trailer, outcome>>

Is(line, kind) == buffer = NoBuffer /\ line.kind = kind

ReadHarness(line) ==
  /\ Is(line, "harness")
  /\ blocks' = [blocks EXCEPT ![line.name] = BlankBlock]
  /\ IF line.worker = Main
     THEN current' = line.name /\ UNCHANGED threadBlock
     ELSE threadBlock' = [threadBlock EXCEPT ![line.worker] = line.name] /\ UNCHANGED current
  /\ UNCHANGED <<pending, buffer, failedFor, trailer, outcome>>

ReadThread(line) ==
  /\ Is(line, "thread")
  /\ IF threadBlock[line.worker] = None
     THEN Refuse
     ELSE /\ current' = threadBlock[line.worker]
          /\ UNCHANGED <<blocks, threadBlock, pending, buffer, failedFor, trailer, outcome>>

(* The lines that belong to a harness, when there is none they could. *)
ReadStray(line) ==
  /\ \E kind \in {"section", "check", "covers", "summary", "failed check", "verdict"} :
       Is(line, kind)
  /\ current = None
  /\ Refuse

(* Mutant: the check's number is taken before it is appended. *)
ReadCheck_Before(line) ==
  /\ Is(line, "check") /\ current # None
  /\ blocks' = [blocks EXCEPT ![current].checks =
                  Append(@, [id |-> line.id, status |-> None, text |-> "plain"])]
  /\ pending' = [name |-> current, number |-> Len(blocks[current].checks)]
  /\ UNCHANGED <<threadBlock, current, buffer, failedFor, trailer, outcome>>

ReadCheck(line) ==
  /\ Is(line, "check") /\ current # None
  /\ blocks' = [blocks EXCEPT ![current].checks =
                  Append(@, [id |-> line.id, status |-> None, text |-> "plain"])]
  /\ pending' = [name |-> current, number |-> Len(blocks[current].checks) + 1]
  /\ UNCHANGED <<threadBlock, current, buffer, failedFor, trailer, outcome>>

(* The pending check is the last one met, in whichever block. *)
ReadStatus(line) ==
  /\ Is(line, "status")
  /\ IF pending = None
     THEN Refuse
     ELSE /\ blocks' = [blocks EXCEPT ![pending.name].checks[pending.number].status =
                          line.status]
          /\ UNCHANGED <<threadBlock, current, pending, buffer, failedFor, trailer, outcome>>

ReadText(line) ==
  /\ Is(line, "description")
  /\ IF line.open
     THEN buffer' = [of |-> "description", text |-> line.text] /\ UNCHANGED blocks
     ELSE /\ blocks' = IF pending = None THEN blocks
                       ELSE [blocks EXCEPT ![pending.name].checks[pending.number].text =
                               line.text]
          /\ UNCHANGED buffer
  /\ UNCHANGED <<threadBlock, current, pending, failedFor, trailer, outcome>>

ReadSummary(line) ==
  /\ current # None
  /\ \/ /\ Is(line, "summary")
        /\ blocks' = [blocks EXCEPT ![current].failed = line.failed]
     \/ /\ Is(line, "covers")
        /\ blocks' = [blocks EXCEPT ![current].covers =
                        [satisfied |-> line.satisfied, total |-> line.total]]
  /\ UNCHANGED <<threadBlock, current, pending, buffer, failedFor, trailer, outcome>>

ReadFailedCheck(line) ==
  /\ Is(line, "failed check") /\ current # None
  /\ buffer' = [of |-> "message", text |-> line.text]
  /\ UNCHANGED <<blocks, threadBlock, current, pending, failedFor, trailer, outcome>>

ReadVerdict(line) ==
  /\ Is(line, "verdict") /\ current # None
  /\ IF blocks[current].result # None
     THEN Refuse
     ELSE /\ blocks' = [blocks EXCEPT ![current] =
                          [@ EXCEPT !.result = line.result, !.panics = line.panics]]
          /\ current' = None
          /\ UNCHANGED <<threadBlock, pending, buffer, failedFor, trailer, outcome>>

ReadClosing(line) ==
  /\ \/ /\ Is(line, "failed for")
        /\ failedFor' = failedFor \cup {line.name}
        /\ UNCHANGED trailer
     \/ /\ Is(line, "trailer")
        /\ trailer' = line
        /\ UNCHANGED failedFor
  /\ UNCHANGED <<blocks, threadBlock, current, pending, buffer, outcome>>

(* Noise, section headers, and what is reported as unclassified. *)
ReadOther(line) ==
  /\ \/ \E kind \in {"end of description", "file", "blank"} : Is(line, kind)
     \/ Is(line, "section") /\ current # None
  /\ UNCHANGED <<parser, outcome>>

Read(line) ==
  \/ ReadDescription(line) \/ ReadMessage(line)
  \/ ReadHarness(line) \/ ReadThread(line) \/ ReadStray(line)
  \/ ReadCheck(line) \/ ReadStatus(line) \/ ReadText(line)
  \/ ReadSummary(line) \/ ReadFailedCheck(line) \/ ReadVerdict(line)
  \/ ReadClosing(line) \/ ReadOther(line)

-------------------------------------------------------------------------------
(* From blocks to receipts *)

CoverStatuses ==
  [SATISFIED |-> "held", UNSATISFIABLE |-> "vacuous",
   UNREACHABLE |-> "not-exercised", UNDETERMINED |-> "not-exercised"]

AssertionStatuses ==
  [SUCCESS |-> "held", FAILURE |-> "failed",
   UNREACHABLE |-> "not-exercised", UNDETERMINED |-> "not-exercised"]

(* Mutant: one table for every check. *)
StatusTable_Merged(check) == CoverStatuses @@ AssertionStatuses

StatusTable(check) == IF check.id = "cover" THEN CoverStatuses ELSE AssertionStatuses

(* A missing status, and one of covers on another check, are refused. *)
Recognized(check) == check.status \in DOMAIN StatusTable(check)

(* Mutant: only the check's name tells. *)
IsUnsupported_ByName(check) == check.id = "unsupported"

IsUnsupported(check) == check.id = "unsupported" \/ check.text = "unsupported"

(* Mutant: a block without any results passes for one that was cut short. *)
Accountable_Silent(b) ==
  b.checks # <<>> =>
    /\ \A i \in DOMAIN b.checks : Recognized(b.checks[i])
    /\ b.failed # None => b.failed = Cardinality(Failing(b.checks))

(* Can an account of this block be given, and does it agree with its summary? *)
Accountable(b) ==
  IF b.checks = <<>>
  THEN b.failed # None
  ELSE /\ \A i \in DOMAIN b.checks : Recognized(b.checks[i])
       /\ b.failed # None => b.failed = Cardinality(Failing(b.checks))

(* One obligation per check, or one for them all, one per named failure and one
   for the covers. *)
ChecksAccount(b) ==
  [i \in DOMAIN b.checks |->
     [of |-> b.checks[i].id, status |-> StatusTable(b.checks[i])[b.checks[i].status]]]

TerseAccount(b) ==
  <<[of |-> "all", status |-> IF b.failed = 0 THEN "held" ELSE "failed"]>>
  \o [i \in DOMAIN b.messages |-> [of |-> "message", status |-> "failed"]]
  \o (IF b.covers = None THEN <<>>
      ELSE <<[of |-> "cover",
              status |-> IF b.covers.satisfied = b.covers.total THEN "held" ELSE "vacuous"]>>)

ObligationsFor(b) ==
  (IF b.checks = <<>> THEN TerseAccount(b) ELSE ChecksAccount(b))
  \o (IF b.result = "SUCCESSFUL" /\ b.panics
      THEN <<[of |-> "expected panic", status |-> "held"]>> ELSE <<>>)

(* Of each failure, whether the tool declined to reason. *)
Declined(b) ==
  IF b.checks = <<>>
  THEN {m = "unsupported" : m \in Range(b.messages)}
  ELSE {IsUnsupported(b.checks[i]) : i \in Failing(b.checks)}

VerdictFor(b) ==
  CASE b.result = None -> [verdict |-> "error", kind |-> "tool-error"]
    [] b.result # None /\ Declined(b) = {TRUE} ->
         [verdict |-> "error", kind |-> "unsupported-construct"]
    [] b.result = "FAILED" /\ Declined(b) # {TRUE} ->
         [verdict |-> "rejected", kind |-> None]
    [] OTHER -> [verdict |-> "accepted", kind |-> None]

Receipt(b) == [ruling |-> VerdictFor(b), obligations |-> ObligationsFor(b)]

CoversOf(obligations) == {o \in Range(obligations) : o.of = "cover"}

Shown(verdict) ==
  CASE verdict = "accepted" -> "green"
    [] verdict = "rejected" -> "red"
    [] OTHER                -> "error"

(* Mutant: one cover that is satisfied is enough. *)
Observed_Some(expectation, receipt) ==
  LET covers == CoversOf(receipt.obligations)
  IN CASE expectation = "sat" /\ covers = {} -> "no-cover-property"
       [] expectation = "sat" /\ covers # {} ->
            IF \E c \in covers : c.status = "held" THEN "sat" ELSE "unsat"
       [] OTHER -> Shown(receipt.ruling.verdict)

(* What a control of an expectation is observed to show. *)
Observed(expectation, receipt) ==
  LET covers == CoversOf(receipt.obligations)
  IN CASE expectation = "sat" /\ covers = {} -> "no-cover-property"
       [] expectation = "sat" /\ covers # {} ->
            IF \A c \in covers : c.status = "held" THEN "sat" ELSE "unsat"
       [] OTHER -> Shown(receipt.ruling.verdict)

Known == {h \in Harnesses : blocks[h] # None}

(* What the log's own count line says, against the blocks. *)
CountsAgree ==
  LET having(result) == {h \in Known : blocks[h].result = result}
  IN IF trailer = None
     THEN ~strict
     ELSE /\ trailer.total = Cardinality(Known)
          /\ trailer.successful = Cardinality(having("SUCCESSFUL"))
          /\ trailer.failures = Cardinality(having("FAILED"))
          /\ failedFor # {} => failedFor = having("FAILED")

(* The log ends, complete or cut off between two lines; a message that is still
   open there belongs to the current block, an open description is refused. *)
EndOfLog ==
  /\ outcome = None
  /\ log' = IF log = "closing" /\ script[Main] = <<>> THEN "complete" ELSE "cut"
  /\ blocks' = IF buffer.of = "message" /\ current # None
               THEN [blocks EXCEPT ![current].messages = Append(@, buffer.text)]
               ELSE blocks
  /\ outcome' = IF /\ buffer.of # "description"
                   /\ \A h \in Known : Accountable(blocks'[h])
                   /\ CountsAgree
                THEN [h \in Known |-> Receipt(blocks'[h])]
                ELSE Refused
  /\ UNCHANGED <<run, found, waiting, job, script, printing,
                 threadBlock, current, pending, buffer, failedFor, trailer>>

(* check_controls of the audit, for a claim presented as a contract, over the
   receipts of a run whose invocation declared it a mutation expected red. *)
CheckControls(receipts) ==
  \E h \in DOMAIN receipts :
    /\ Observed("red", receipts[h]) = "red"
    /\ receipts[h].ruling.verdict # "accepted"

-------------------------------------------------------------------------------

Init ==
  /\ strict \in BOOLEAN /\ whole \in BOOLEAN /\ terse \in BOOLEAN
  /\ workers \in {{Main}, Threads}
  /\ found \in Findings
  /\ waiting = DOMAIN found
  /\ job = [w \in Threads \cup {Main} |-> None]
  /\ script = [w \in Threads \cup {Main} |-> <<>>]
  /\ printing = None
  /\ log = "open"
  /\ blocks = [h \in Harnesses |-> None]
  /\ threadBlock = [t \in Threads |-> None]
  /\ current = None
  /\ pending = None
  /\ buffer = NoBuffer
  /\ failedFor = {}
  /\ trailer = None
  /\ outcome = None

Next ==
  \/ \E w \in workers, h \in Harnesses : TakeOn(w, h)
  \/ Close
  \/ \E w \in Threads \cup {Main} :
       script[w] # <<>> /\ Emit(w, Head(script[w])) /\ Read(Head(script[w]))
  \/ EndOfLog

Spec == Init /\ [][Next]_vars

-------------------------------------------------------------------------------
(* Properties *)

(* Every variable the parser keeps has its type; what is pending is a check of a
   block, and what is current a block. *)
TypeOK ==
  /\ blocks \in [Harnesses -> Blocks \cup {None}]
  /\ threadBlock \in [Threads -> Known \cup {None}]
  /\ current \in Known \cup {None}
  /\ pending # None => /\ pending.name \in Known
                       /\ pending.number \in DOMAIN blocks[pending.name].checks
  /\ buffer \in {NoBuffer} \cup [of : {"description", "message"}, text : Texts]
  /\ failedFor \subseteq Harnesses
  /\ outcome \in {None, Refused} \/ outcome \in [Known -> Receipts]

(* The verifier announced h; it printed all it had to say of h. *)
Announced(h) ==
  /\ h \in DOMAIN found \ waiting
  /\ \A w \in workers : job[w] = h /\ script[w] # <<>> => Head(script[w]).kind # "harness"

Told(h) == h \in DOMAIN found \ waiting /\ \A w \in workers : job[w] = h => script[w] = <<>>

(* Receipts were returned, and either the count line was required or no body
   was interrupted: with neither, two blocks that mix before the log is cut can
   exchange their verdicts. *)
Trusted == outcome \notin {None, Refused} /\ (strict \/ whole)

Genuine(checks) ==
  {i \in Failing(checks) : checks[i].id # "unsupported" /\ checks[i].text # "unsupported"}

(* The verifier refuted h: it says FAILED, and not only because of something
   it does not support. *)
Refuted(h) ==
  LET checks == found[h].checks
  IN Told(h) /\ Result(found[h]) = "FAILED" /\ (Genuine(checks) # {} \/ Failing(checks) = {})

(* However the workers' lines interleave, and wherever the log ends, receipts
   that are returned give each harness the verdict the verifier reached about
   it and no other: there is one for every harness announced, an acceptance is a
   success told in full, a rejection a refutation, a tool that declined to reason
   is an error, and so is a harness the verifier had not finished, which only a
   parser that did without the count line ever returns. *)
OwnVerdict ==
  Trusted =>
    /\ DOMAIN outcome = {h \in Harnesses : Announced(h)}
    /\ \A h \in DOMAIN outcome :
         LET ruling  == outcome[h].ruling
             failing == Failing(found[h].checks)
         IN CASE ruling.verdict = "accepted" ->
                   /\ Told(h) /\ Result(found[h]) = "SUCCESSFUL"
                   /\ failing # {} => Genuine(found[h].checks) # {}
              [] ruling.verdict = "rejected" -> Refuted(h)
              [] ruling.kind = "unsupported-construct" ->
                   Told(h) /\ failing # {} /\ Genuine(found[h].checks) = {}
              [] ruling.kind = "tool-error" -> ~Told(h) /\ ~strict
              [] OTHER -> FALSE

Said(obligations, of) == {i \in DOMAIN obligations : obligations[i].of = of}

(* Every check of a finished harness is in its receipt with the status the
   verifier gave it, none dropped, added or taken from another harness, whatever
   was pending or being swallowed when the threads switched; without per-check
   results, the failures are all named, and one unsatisfied cover makes the covers
   vacuous. *)
OwnObligations ==
  Trusted =>
    \A h \in DOMAIN outcome : Told(h) =>
      LET r    == found[h]
          obs  == outcome[h].obligations
          panics == Said(obs, "expected panic")
      IN /\ panics # {} <=> (r.panics /\ Failing(r.checks) # {})
         /\ IF terse \/ r.checks = <<>>
            THEN /\ obs[1].status = IF Failing(r.checks) = {} THEN "held" ELSE "failed"
                 /\ Cardinality(Said(obs, "message")) = Cardinality(Failing(r.checks))
                 /\ (\E i \in Said(obs, "cover") : obs[i].status = "vacuous")
                      <=> Satisfied(r.checks) # Covers(r.checks)
            ELSE /\ Len(obs) = Len(r.checks) + Cardinality(panics)
                 /\ \A i \in DOMAIN r.checks :
                      LET c == r.checks[i] IN
                      /\ obs[i].status = "failed" <=> c.status = "FAILURE"
                      /\ obs[i].status = "held" <=> c.status \in {"SUCCESS", "SATISFIED"}
                      /\ obs[i].status = "vacuous" <=>
                           (c.id = "cover" /\ c.status = "UNSATISFIABLE")
                      /\ obs[i].status = "not-exercised" <=>
                           c.status \in {"UNREACHABLE", "UNDETERMINED"}

(* "a deliberately-broken run in which the check DID fire" (audit.py:578): a
   contract that passes the control check on receipts of this parser has a harness
   the verifier refuted, not one it could not finish or did not support. *)
ContractRestsOnRefutation ==
  Trusted /\ CheckControls(outcome) => \E h \in DOMAIN outcome : Refuted(h)

(* A control that predicts its covers are satisfied ("sat") is observed so exactly
   when the verifier satisfied every one of them and there is one, in either
   format and whichever thread printed them.  With the count line only: on a log
   cut short the covers that were still to come do not count. *)
SatisfactionIsObserved ==
  Trusted /\ strict =>
    \A h \in DOMAIN outcome :
      LET covers == Covers(found[h].checks)
      IN Observed("sat", outcome[h]) = "sat"
           <=> covers # {} /\ Satisfied(found[h].checks) = covers

(* "`require_trailer=False` allows a truncated log (a run killed by a wall-clock
   limit, say) to be parsed without its final count line" (kani.py:693). *)
TruncatedLogIsParsed == ~strict /\ whole /\ log = "cut" => outcome # Refused

===============================================================================
