# A TLA+ development of the autoprover reference implementation

This directory models the state machines of `reference/autoprover_ref`, the
Python package that drives a target (a statement to prove) through a queue, a
checker, an audit and a monotone accepted set. TLC checks the models on small
instances; TLAPS proves, for every value of the constants, the safety properties of
the queue, the ratchet, the pipeline, the bounded search, the path from a checker's
answer to the audit's verdict and the parser of a verifier's log, and the refinement of
the two abstract specifications.
The rest of the repository is a corpus of Lean proofs, documents and tests; it has no
run-time state and is not modelled.

## 1. Inventory

Paths are below `src/reference/autoprover_ref/`.

| component | state | operations | correct when |
|---|---|---|---|
| event log (inside `queue.py` and `ratchet.py`) | a JSONL file, append only | append one event (write, flush, fsync); read back line by line | what was appended is read back, in order |
| target queue, `queue.py` | the log; `_state` and `_candidate`, two dictionaries in memory | `enqueue`, `start_attempt`, `record_candidate`, `record_no_candidate`, `record_kernel_receipt`, `record_audit`, six requeue and abandon decisions, `replay` | a target moves along the diagram of ARCHITECTURE.md section 2, each step on the evidence it needs, all of it about one candidate; memory is the fold of the log |
| ratchet, `ratchet.py` | a log; the accepted set, the re-verification marks, the blocking events in memory | `accept`, `remove`, `recheck_dependents`, `record_recheck_result`, replay in the constructor | the set is monotone but for removals and failed re-verifications, and no owed re-verification is forgotten |
| pipeline, `pipeline.py` | none of its own: local variables of `run_target`, receipts on disk | `run_target` | queue, receipts on disk and ratchet agree, whatever fails between them |
| kernel gate, `kernel_gate.py` | none | `check`: run a checker, reduce its answer to a receipt | a tool failure is never a refutation; obligations carry the checker's own account |
| audit, `audit.py` | none | `run_audit`: six checks over provenance and receipt | nothing the checker called vacuous passes |
| bounded model checker, `model_checker.py` | a frontier and a visited set during `explore` | `explore`, `check_obligations`, `hypothesis_coverage`, `model_checker_command` | `exhaustive` means the whole reachable set was seen; vacuous is not confused with not exercised |
| receipts, `receipts.py` | files | `atomic_write_json`, `write_receipt`, `write_audit`, load | a file that exists is whole |
| Kani adapter, `adapters/kani.py` | the parser's position: current harness, pending check, open buffers | `parse_kani_log` | every harness of an interleaved log gets its own verdict, or the log is refused |
| JSON schema validator, `jsonschema_min.py` | none | validate | pure |

The Kani adapter stands apart: it turns the console output of an external verifier,
which runs several threads, into receipts, and nothing in the package calls it; its
receipts are the evidence set (`claim_receipts`) a caller may hand `run_audit`.

How the others interact: `run_target` calls the queue, the gate, the audit and the
ratchet in a fixed order, in one thread, through plain calls. Queue and ratchet
share nothing but the caller; each writes its own log. The receipts directory is
written by the pipeline and read by nobody in the package. Nothing locks, and
nothing runs concurrently inside the package: what is hard here is failure, and, in the
adapter, the order of the lines of a log that others wrote concurrently.
An append can raise after its line is on disk; a process can die inside a write
or between two of them; two logs and two receipt files have to tell one story
after a restart; and a long sequence of legal calls, retries and restarts must
not reach an illegal state. PROJECT.json lists each hazard at its line.

## 2. Modules

| module | models | extends or instantiates |
|---|---|---|
| `EventLog` | the file: lines, whether the last one lacks its newline, what each outcome of an append leaves | |
| `TargetQueue` | `queue.py`, one action per public method | `EventLog` |
| `QueueDiagram` | the abstract diagram: stage and bound candidate per target, no log, no process | |
| `Ratchet` | `ratchet.py`, one action per public method | `EventLog` |
| `MonotoneSet` | the abstract ratchet: members and what they owe | |
| `Pipeline` | `run_target`, one action per call, two logs and two receipt files with their temporary files | `TargetQueue` and `Ratchet` as instances |
| `ModelChecker` | `explore` one loop iteration at a time; the statuses and the coverage it yields | |
| `CheckedRun` | a checker's answer through `KernelGate.check` and `run_audit` to a verdict | `ModelChecker` |
| `KaniLog` | `adapters/kani.py`: threads that print a log, the parser over it, the receipts it makes; `check_controls` over those receipts | |
| `MCTargetQueue`, `MCRatchet`, `MCPipeline`, `MCCheckedRun`, `MCKaniLog` | instances for TLC | |
| `EventLogProofs` | lemmas about logs and about the last element of a set of indices | `EventLog` |
| `TargetQueueProofs`, `RatchetProofs` | the proofs of the two logs' owners, and their refinements | the component and `EventLogProofs` |
| `PipelineProofs` | the pipeline's safety | `Pipeline`; `TargetQueueProofs` as an instance |
| `StrandedProofs` | what one failure can strand, and that runs settle their targets | `PipelineProofs` |
| `ModelCheckerProofs`, `CheckedRunProofs` | the search, and what its statuses and a pass are worth | the component; `CheckedRunProofs` also `ModelCheckerProofs` |
| `KaniLogProofs` | receipts of a log say of each harness what the verifier found out about it | `KaniLog` |

### How state and actions correspond to the code

*A log* is a record `[lines, open]`. `open` says the last line still lacks its
newline. `Torn` is a line `json.loads` refuses. One append has four outcomes:
nothing reached the disk, a proper prefix did, all but the newline did, all of it
did. An append that returns is the last one. The next append joins an open line,
as a file opened in mode `"a"` does. `_read_log` lets the error of one bad line
escape, so a torn line anywhere makes the constructor raise (`Readable`).

*Two failures.* `Raises` is the set of outcomes of an append that raises: the
caller keeps its object, and memory is as before the append, because the code
updates it afterwards. `Crashes` is the set of outcomes of an append the process
dies in: memory is gone (`up` false), until `Replay` folds the log. Both are
constants, so each run says which failures it is about. `Stop` is a death between
two calls.

*The queue's methods* are guards and one append (`LogAppend`); `record_candidate`
also binds the candidate, in memory, after its append; `record_audit` makes two
appends, and the second can fail after the first returned. An event keeps the
fields the fold and the guards read: target, from, to, kind, candidate, verdict.

*The ratchet's methods* likewise. `recheck_dependents` loops over its dependents
with one append each, in any order, and may fail at any of them. `remove` leaves
the marks in memory while the fold of its event drops them: the model keeps that
difference, and `MembersOnly` says whether callers report re-checks of accepted
targets only (what `record_recheck_result`'s docstring takes for granted) or of
anything that still carries a mark.

*run_target* is a program counter `pc` and its local variables `run`. The calls
on the queue and the ratchet are the very actions of those modules, taken through
`INSTANCE`; a call that fails ends the run, because `run_target` catches nothing.
`write_receipt` and `write_audit` are two steps each, as in `atomic_write_json`: a
temporary file is written (`WriteTemp`), then it takes the final name (`Place`); either
may raise, which removes it, or be the last thing the process does, which leaves it
(`strays`). `Attempts` are the pairs of target and candidate the caller tries, any
number of times and in any order. What the gate and the audit answer is
arbitrary within what their code allows (`Receipts`, `RunAudit`). Between runs the
caller may enqueue targets and take the six decisions and `record_no_candidate`
by hand. A caller that drives checker and audit by hand, without `run_target`, is
not in the model.

*explore* is two nested loops: `Truncate`, `Skip`, `Visit` and `Exhaust` are what one
turn of the outer one can do, `Expand` is a turn of the inner one. A system is its
list of initial states and a list of successors per state, so the order in which the
code meets states is kept. A predicate is the set of states it holds of; an
obligation without a precondition carries `Unconditional`, which the code's
`has_precondition` keeps apart from a precondition that holds everywhere.

*From a checker to a verdict* is one run of `run_target` seen from the data: the
gate asks the checker (`Check`) about any names (the checker's own obligations, some of
them, others it does not know, or none, the default of `obligation_ids`), and the checker
answers or fails to;
`pipeline.py` audits accepted receipts only (`Audit`). The coverage the audit reads
is in the provenance, which the caller writes: the model gives it the coverage of the
same run or none. What the other checks of `run_audit` say is arbitrary (`clean`).

*The log of the Kani adapter.* A line is a record of its kind and of the fields the
regular expression of that kind extracts. The upper part of `KaniLog` is the verifier,
which is not in this repository: its workers (the main thread alone, or threads) take on
harnesses and print their blocks line by line into one log, in any interleaving; `whole`
says whether the body of a block is printed without interruption, `terse` whether the
output format has no per-check results. What a verifier prints was taken from the
grammar of the parser and from the logs of its tests. The lower part is the parser.
It makes one pass over the lines, so a line is read (`Read`) in the step that prints it:
what the parser has seen when the log ends is what was printed, and the log may end
after any line (`EndOfLog`). Open buffers, the pending check, the current harness and
the block each thread announced are the code's local variables. `EndOfLog` is everything
after the loop of `_parse_blocks`: receipts for all harnesses, or an exception and none
(`Refused`). The texts a check or a message may have are two, one that names an
unsupported construct and one that does not. A check whose id names such a construct
has a description that does too (`Checks`), as in the logs of
`tests/test_kani_adapter.py:151`: in the terse format, which has no ids, the parser
could not tell otherwise.

## 3. What the runs check

| run | instance | shows |
|---|---|---|
| `queue_failstop` | 2 targets, 2 candidates, 8 lines, 1 append that raises without a record or dies | `TypeOK`; `CacheIsFold`: memory is the fold of the log; `LogIsWalk`: each event leaves the state the log before it folds to; `ImplementsDiagram`: the diagram, restarts included |
| `queue_faults` | 1 target, 2 candidates, 11 lines, 2 appends that raise or die | `EvidenceChain`, `DecisionsAnswerVerdicts`, `NothingAfterAcceptance`, about the log alone |
| `queue_audit_atomic` | 1 target | violated: `record_audit` is not atomic (`queue.py:24`) |
| `ratchet_failstop` | 2 targets, candidates and dependencies, 5 lines, 1 append that raises without a record or dies | `TypeOK`, `AcceptedIsFold`, `OwedIsRemembered`, `MarkedIsFoldForMembers`, `ImplementsMonotoneSet` |
| `ratchet_faults` | 2 targets, 1 candidate, 2 dependencies, 5 lines, 2 failures | `RechecksAnswerMarks` |
| `ratchet_admission` | 1 target | violated: `record_recheck_result` can create an entry (`ratchet.py:19`) |
| `pipeline_faults` | 2 targets, one tried with 2 candidates, 14 lines, 2 failures of any call | `TypeOK`, `RatchetFollowsQueue`, `EvidenceOnDisk`, `OnlyTheDeadLeaveTemps`, `OneFailureOneTarget`; `RunSettles`, under fairness |
| `pipeline_ratcheted` | 1 target, 1 death | violated: accepted in the queue is not ratcheted (`ARCHITECTURE.md:68`) |
| `checked_run` | 512 graphs of 3 states, bounds 1 to 4, 1 or 2 obligations | `TypeOK`; `SearchAdvances`: every step returns, visits one more state or leaves less to look at; `ExhaustiveIsReachable`: an exhaustive search saw what is reachable and nothing else, a truncated one its bound; `BreadthFirst`: nearer states first; `StatusesAreHonest`, `PassIsEarned`: what a status and a pass of the audit are worth in terms of reachable states |
| `checked_run_default` | the same | violated: with the default `obligation_ids` the checker's statuses never reach the audit (`pipeline.py:183`) |
| `kani_log` | 2 harnesses with any of 9 reports each, or 3 that fail or have nothing to tell; main thread or 2 threads | `TypeOK`; `OwnVerdict`, `OwnObligations`: a receipt has the verdict and the obligations of its harness and no other's; `ContractRestsOnRefutation`: the audit's control check is satisfied by a refutation only; `SatisfactionIsObserved`: a `sat` control is observed when all covers were satisfied |
| `kani_truncated` | the same | violated: a log cut inside a harness is refused although `require_trailer=False` (`kani.py:693`) |

### Bounds

Targets do not interact in the queue's code, so two are enough to see one disturb
another, and two candidates are enough for evidence about the wrong one. Eight lines
are an accepted target (seven: one it was requeued by, or a torn one, included) and one
line of another; eleven are a rejected attempt (five lines), an accepted one (five more)
and one event that must not be there. Five lines of the ratchet's log are an acceptance,
a mark, a removal, a second acceptance and a confirmation, or the same with a torn line
in place of one. Fourteen lines of the queue's log are two whole runs of the
pipeline, on one target or on two; `Begin` asks for the seven lines a run can
need, so a run is never stopped by the bound. Two failures are one that leaves
something behind and one that meets it. One target is tried with two candidates and the
other with one of them, so a retry may overwrite a file, under the same candidate or
not, and another target's files lie beside. An append inside the pipeline leaves
nothing or everything when it raises, and a prefix besides when it dies; the outcomes
left out make a log unreadable or leave it without its last newline, and are in
`queue_faults` and `ratchet_faults`. CHECK_DEADLOCK is off everywhere: the log
fills up, a process that cannot read its log does not come back, and a checked run
ends with its verdict.

The graphs of `checked_run` are all those of three states, from no initial state, one
or two: a bound is met before, at and after the last reachable state, with and
without states left in the frontier, some of them visited already. Two complementary
predicates make every combination of a precondition met nowhere, somewhere or
everywhere with a property that holds, or not, where it matters; two obligations
are one that fails or is vacuous beside one that is not.

The reports of `kani_log` are the ways a receipt is made or refused: no checks, a check
that was not reached, one that fails over a description of two lines, an unsupported
construct alone or beside a refutation, covers satisfied or not, a status no check of
that kind has, and harnesses that are to panic and do or do not. Two harnesses on two
threads are enough for any line of one to land in the block of the other; three
harnesses make a thread announce a second one while the other is in a block, and the
same totals with other names.

`queue_failstop` and `ratchet_failstop` leave out two outcomes. An append that raises
with its whole record on disk ("complete", "unterminated") makes `CacheIsFold` and its
like fail: the process lives on with a memory that lags behind its log, until a restart.
An append that dies with all but the newline on disk ("unterminated") breaks the
refinements: after the restart the event is there, and the next append destroys it.
Both are in `queue_faults` and `ratchet_faults`, and the theorems say which of them each
result needs.

### Fairness

Only `RunSettles` needs fairness, weak fairness of the steps of `run_target`
together. The method is straight-line code with no loop and no wait but the
checker; a checker that exceeds the gate's timeout is answered for with an error
verdict. With `timeout=None` (the default) that the checker returns is an
assumption. No fairness is assumed of the caller, of restarts, or of any verdict.

## 4. What is proved

TLAPS checks every proof to its leaves, for all constants that satisfy the ASSUMEs of the
modules: the values that stand for "none" or for a torn line are not among the real ones,
`Raises` and `Crashes` are outcomes of an append, the bounds are numbers, the target's
own name is not an obligation's, systems are systems, a run of the verifier reports on
finitely many harnesses, each with a list of checks. Sets of targets, candidates,
dependencies, states, harnesses and threads may be infinite.

### The queue (`TargetQueueProofs`)

- `TypeCorrect`: `Spec => []TypeOK`
- `AcceptanceIsEarned`: `Spec => []EvidenceChain`
- `DecisionsAreEarned`: `Spec => []DecisionsAnswerVerdicts`
- `AcceptanceIsFinal`: `Spec => []NothingAfterAcceptance`
- `CacheIsTheFold`, `TheLogIsAWalk`: `CacheIsFold`, `LogIsWalk`, if `Raises \subseteq Unwritten`
- `QueueRefines`: `ImplementsDiagram`, if moreover `"unterminated" \notin Crashes`

The first four hold for any failures and need one inductive invariant, `QueueInv`. The
properties speak of the log alone, while the guards read the cache, and an append that
raised may have left the cache behind the log; so the invariant says what the cache still
vouches for: if the process is up and the log readable, a state and a candidate in the
cache are backed by standing evidence in the log, which holds although the cache may not
be the fold. Each append then extends a readable log by one whole line at most
(`EventLogProofs`), and evidence already standing survives a line about anything else.

`Unwritten` are the outcomes of an append that leave no whole record: nothing, or a
prefix. With it the stronger `FailStopInv` is inductive: the cache is exactly the fold of
the log, as long as the log can be read at all. The condition is
needed, not chosen: an `OSError` raised by `os.fsync` after the line is on disk is a state
in which `CacheIsFold` is false. The mapping of the refinement takes stage and candidate
of a readable log from its fold. Once a line is torn nothing
is ever replayed again, and the mapping stays where the lines before the torn one left it,
whatever a process that survived the failure still does.

### The ratchet (`RatchetProofs`)

- `TypeCorrect`: `TypeOK`, and `RechecksAreAnswers`: `RechecksAnswerMarks`, for any failures
  and any callers
- `RestartKeepsAccepted`: `AcceptedIsFold`, `DebtsAreKept`: `OwedIsRemembered`,
  `MembersOweTheLog`: `MarkedIsFoldForMembers`, if `Raises \subseteq Unwritten`
- `RatchetRefines`: `ImplementsMonotoneSet`, if moreover `"unterminated" \notin Crashes` and
  `MembersOnly`

`RechecksAreAnswers` is again about a log whose owner may lag behind it: `RatchetInv` says
that every mark in memory has a mark in the log behind it, and every member an admission. The others rest on
lemmas about the three folds: what one event, or the marks of a whole or interrupted
`recheck_dependents`, do to them. `MembersOnly` is what the docstring of
`record_recheck_result` takes for granted; without it `ratchet_admission` shows a target
enter the set without `accept`, which the abstract set does not allow.

### The pipeline (`PipelineProofs`, `StrandedProofs`)

- `TypeCorrect`: `TypeOK`
- `RatchetIsNeverAhead`: `Spec => []RatchetFollowsQueue`
- `EvidenceStays`: `Spec => []EvidenceOnDisk`
- `TempsHaveAnExcuse`: `Spec => []OnlyTheDeadLeaveTemps`
- `PipelineAcceptsOnEvidence`: the queue's `EvidenceChain` and `NothingAfterAcceptance`
- `OneFailureStrandsOne`: `Spec => []OneFailureOneTarget`
- `RunsSettleTheirTargets`: `Spec => SettledOnReturn`

None of them restricts the failures: any append may raise or die with any outcome, any
other call may raise, and the process may die anywhere. Every step of the pipeline is a
step of the queue it contains, or leaves the queue alone, so `QueueInv` is inherited through an
instance of `TargetQueueProofs`. `PipelineInv` adds what a run knows at each value of `pc`
(`Progress`: the receipt it has written, the state of the target in the log) and that an event rests on
its files (`EvidenceInv`). A retry may overwrite a file only when its target can start an
attempt, and a target whose log shows an acceptance cannot.

`OneFailureStrandsOne` counts. `StrandedInv` says there is a finite set of at most
`faults` targets outside which every target, other than the one of a run past
`start_attempt`, is settled in memory and settled in the two logs, so that a restart, which replaces memory by
the folds, strands nobody. A failure adds at most the target of the run it ends, or of the
caller's call it ends. Memory and logs need not agree about the others: a target may be
queued in one and accepted in the other, and is settled in both.

### The search and the statuses (`ModelCheckerProofs`, `CheckedRunProofs`)

`ModelCheckerProofs` proves, for all systems, infinite ones included, and all bounds
(the initial states without repetition, the bounds positive):

- `ExhaustiveIsExact`: `Spec => []ExhaustiveIsReachable`
- `SearchEnds`: `Spec => SearchAdvances`
- `NearestFirst`: `Spec => []BreadthFirst`

`Reachable` is the least set that contains the initial states and is closed under
the successors. The invariant `SearchInv` says that the states found (visited, in the
frontier or pending) contain the initial states and the successors of the visited
ones (`NothingLost`) and are reachable (`NothingStray`): when nothing is left to look
at, the visited states are closed, hence everything reachable. `VisitedOnce` turns the
length of the list into a number of states. `SearchEnds` uses the types and `WithinBound`
of the same invariant: a step that visits nothing and does not return makes
2 * (successors pending) + (states in the frontier) smaller, and there are at most
`bound` visits. That such a measure cannot go on for ever is not a statement TLAPS
checks here.

`NearestFirst` has an invariant of its own, `LayersInv`, over the layers: the states that
take at most n steps. The frontier is not sorted by them, because a state may wait in it
twice, the second time behind further ones; what is true is that before any visited or
waiting state outside a layer, the whole layer was visited or waits. The layers are a recursive
function; `LayerUnfolds` proves that its recursion has a solution, by a least
counterexample over the naturals (`Induction`), which needs no theorem with an operator
for a parameter.

`CheckedRunProofs` proves, for all of these and any obligations and names asked about:

- `RunTypeCorrect`: `RunSpec => []TypeOK`
- `StatusesMeanWhatTheySay`: `RunSpec => []StatusesAreHonest`
- `PassesAreEarned`: `RunSpec => []PassIsEarned`

The search keeps still once there is a receipt, so `RunInv` is `SearchInv` with how the receipt was made
from the claims, and the verdict from the receipt. With `ExhaustiveIsReachable` a vacuous
status of an exhaustive search becomes a statement about every reachable state.

### The Kani adapter (`KaniLogProofs`)

For any harnesses, threads and reports (any number of checks of any kind), any
interleaving of the lines and any place the log ends:

- `TypeCorrect`: `Spec => []TypeOK`
- `Verdicts`: `Spec => []OwnVerdict`
- `OwnAccounts`: `Spec => []OwnObligations`
- `ContractsAreRefuted`: `Spec => []ContractRestsOnRefutation`
- `SatisfactionShows`: `Spec => []SatisfactionIsObserved`

The parser can be misled: a thread's line can land in another harness's block, an open
description can swallow an announcement or a verdict. What is proved is that the log then
shows it, and that the parser looks. The inductive invariant `IInv` (theorem `Invariance`)
says of every state before the end of the log (`Dynamics`):

- `Order`: each worker is at a definite place of its script (about to announce, at its
  thread line, in the body, done, in the closing lines), about a harness of its own, and
  only announced harnesses have a block;
- `Credit`: the blocks with a verdict, and the body being read, are no more than the
  bodies that have begun;
- either no body was disturbed (`Sound`), or the log will give it away: fewer blocks have
  a verdict, or will, than bodies have begun (`Lost`), or an announced harness has no block
  (`Missed`);
- where bodies are not interrupted (`whole`), `Uninterrupted` gives the state of the one
  body that is being printed, and instead of a missing verdict there is a block that will
  stay without any result (`Orphan`).

`Sound` is where blocks and findings meet: at most one worker is inside a body, and
what it has still to print, read from here on, leaves a block that holds its report
(`Attentive`, with `Leads`); a block whose harness was told in full holds it already
(`Truthful`). `Leads` speaks of a whole list of lines read one after the other, so the
first section of the module proves that the lines of a report, from `Body`, parse to the block
that holds it (`BodyLeads`), by induction over its checks. Induction over lists and
over naturals is a lemma about sets (`Induction`), proved from well-foundedness, and
`FlattenUnfolds` gives `FlattenSeq` its recursion.

`Credit` is why the disturbance cannot hide. A second body that begins while one is being
read takes over the current harness, whose verdict line then finds none or another's:
each disturbed body costs a verdict, none is ever won back, and the count line, printed
from what the verifier knows, has more (`CountsSettle`). With the count line required the
log is refused; without it, `OrphanIsRefused` does the same for `whole` logs, because a
block with no results gives no account. This is the condition `Trusted` of the
properties, and it is needed: section 5 says what happens without either.

`Final`, the rest of `IInv`, says what receipts were made from: blocks that hold what
was told, or blocks of unfinished harnesses, without a verdict. The four properties
follow from it by what `VerdictFor`, `ObligationsFor` and `Observed` do to such a block
(`RulingOf`, `FaithfulInFull`, `FaithfulTerse`).

## 5. Only model-checked, and not modelled

Model-checked only: the first half of `RunSettles`, that every run ends, because liveness
under fairness is outside what TLAPS proves here. Its second half, `SettledOnReturn`, is
proved. Every other property of a passing run is a theorem. `MCKaniLog` keeps the reports
and the number of harnesses small, the theorems about `KaniLog` do not; the violated
properties are counterexamples, which only TLC finds.

Known consequences of the modelled code that no run states: when an append
raises after its whole line is on disk `CacheIsFold` fails, as the method leaves memory
behind the log; after a death that left an unterminated line, the next append
returns normally and makes the log unreadable; after `remove` of a marked target the
marks in memory differ from their fold; `run_target` on a target that is neither
absent nor queued raises `InvalidTransition`, which is why a stranded target needs
its caller; a search that meets its bound with nothing but visited states in the
frontier reports itself truncated although it saw everything reachable, and one whose
bound is exactly the number of reachable states may report itself exhaustive (the
docstring of `explore` says "iff" and "strictly before the bound"): `exhaustive` is
sound and not complete; a name in `obligation_ids` that the checker does not know is
reported with the file's verdict; without the count line and with bodies that interrupt
each other, a log that is cut can exchange the verdicts of two harnesses, which is why
`OwnVerdict` asks for one of the two; on a cut log the control of an unfinished harness
may be observed as `sat`, on a receipt whose verdict is an error; a control block that
the caller of `KernelGate.check` declares red counts for `check_controls` on a run that
ended in an error.

Not modelled: the contents of statements, names, scopes and provenance (the vacuity
check and the text heuristics of the audit are an arbitrary verdict), timestamps,
reasons and other wording, certificates and the choice of a schema version, schema
validation of fields (`jsonschema_min.py` is a pure recursive function over JSON values),
predicates of the model checker that raise; the regular expressions of Kani's line
grammar, a log cut in the middle of a line, harnesses of one name, the invocation
record, diagnostics and unclassified lines; pairs of ids that make one file name; what a
power failure takes back of a renamed file. Two processes or two objects on one log are
not modelled: no code in the repository opens a log twice, and the package says
nothing about what its owners could then rely on. The corpus is Lean proofs with a
script that compares a Markdown table with the file tree, and the examples and tests are
drivers of the parts above: neither keeps a state.

## 6. Where it could go on

The kernel gate's and the audit's checks of data (provenance, certificates, schemas) have
no state and are left to the tests. What would extend the models is a second owner
of a log, should the code ever allow one, with the lock it would then need; and the file
system under `atomic_write_json`, should a power failure come into the package's scope.
