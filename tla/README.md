# Aerlink disruption desk: specifications

TLA+ models of the program in `src/`, the TLC runs that check them on small
instances, and proofs for every instance. `PROJECT.json` maps each definition
to its source lines and lists the runs, mutants, findings, hazards and theorems.

## 1. The system

The desk reads one inbound message at a time, establishes who writes and what
happened, decides what the policy grants, writes remedies to the airline's
operations API, hands over what it may not decide, drafts a reply and leaves a
case record. A run is one process working through a list of cases.

| Component | State | Operations | Talks to |
|---|---|---|---|
| Case pipeline, `pipeline.py` | locals of `run_case` | the stages of a case; two execution passes; a recovery pass after an exception | everything below |
| Executor, `executor.py` | cached write log, `_blocked_by_unknown`, report | `execute`, `_execute_one`, `_reconcile`, `_verify_by_readback` | journal, API client |
| Journal, `journal.py` | SQLite: `action_intents`, `benefit_grants`, `reset_markers`, `model_usage`; a lock file | intents, outcomes, grants, markers, usage; every statement commits alone | disk |
| API client, `ops_client.py` | attempts used, deadline, throttle window | `_read` with retries, `_write` exactly once | operations API |
| Operations API, `env/ops_server.py` | memory only: write log, `seq`, hotel rooms, request times | reads, POST handlers, `/_audit`, `/_reset` | other desks too |
| Model client, `llm.py` | calls of the case, deadline, `case_usage` | `parse`: admit, reserve, send, settle, one repair | journal, provider |
| Planner, policy, identity | none | pure decisions over facts | API client (reads) |
| Extraction, narration | none | one `parse` each | model client |
| Command line, `cli.py`, `run.py` | run id, exit code | lock, `--reset-ops`, case loop | journal, API client |
| Review desk, `serve.py`, `desk.html` | `LOCK`, `JOBS`, threads, a child process | accept, poll, work | `run.py` as a child |
| Records, reports, tools, configuration, time | none | formatting, checks of finished records, constants | - |

Hard behaviours, and what makes each part correct:

* **Write path** (executor, journal, client, API). A POST may be performed,
  refused, lost, answered too late, or performed after the sender died; the
  process may end between any two statements; the API forgets everything on a
  reset or restart; another desk writes to the same booking; the write log is
  read once and may be unreadable. Correct: no benefit twice, no intent
  performed twice, nothing sent before it is on disk, nothing freed that may
  have been granted, nothing reported done that was not, every run ends.
* **Model spending** (model client, usage ledger). Calls fail after they were
  charged, lack usage, cost more than reserved; runs are killed. Correct: the
  ledger covers the bill, the ceilings hold, the narration is not starved.
* **Review desk.** A lock taken in one thread and released in another, a status
  written by both, a child that outlives its parent. Correct: one case in hand,
  one writer of the journal, results that stay, pages that stop polling.
* **Case pipeline** (with the client's attempts). A budget with a reserve for
  the hand-over, a deadline, an exception after any call, a recovery pass that
  may raise itself, more queues than referrals, a status derived from all that
  happened, the same message worked on again. Correct: every case leaves a
  record, ordinary requests leave the reserve alone, no hand-over item is lost
  in the routing, a status promises no more than was done.
* **Planner and policy.** Two derivations of the same figures, with different
  arithmetic; a dozen kinds of request, each with early returns, that interact
  only afterwards (a re-routing and a refund of one passenger, compensation asked
  for twice or not at all); every read but the booking's may fail. Correct:
  nothing is proposed for those who did not ask, no request vanishes, no one is
  re-routed and refunded, what may not be done reaches a person, compensation is
  assessed once, a disagreement has a reason that can be named.
* **Confirmation of identity.** References, an address, a number, in an order
  that ends at the first that confirms; each lookup may fail; searches match
  loosely. Correct: a booking is chosen only by a standard that holds in the
  record, by the telephone past a recorded address only with a word to the desk,
  and nobody who meets a standard is turned away without one.
* **Throttle and rate limit.** Two counts of the same requests, taken at
  different moments, one per process and one for everybody. Correct: a process
  alone never meets the limit.

`PROJECT.json` lists under `hazards` every place where one of these bites.

## 2. Modules

| Module | What it is |
|---|---|
| `Remedies` | the vocabulary: kinds, order, benefit keys, the two comparisons of the executor (`Equivalent`, `Overlaps`) |
| `OneGrant` | abstract specification: a request claims benefits while they are free, is granted what it claimed at most once, or gives its claims up and is never granted |
| `RemedyExecutor` | the write path: API, network, journal, runs, command line; implements `OneGrant` |
| `MCRemedyExecutor` | its instances for TLC |
| `ModelBudget` | `LLMClient.parse`, the usage ledger, the usage in the case record |
| `CasePipeline` | `run_case` from the identity to the record, the client's attempt budget, routing and status |
| `MCCasePipeline` | its instances for TLC |
| `Entitlement` | `calculate_entitlement` of the API, `cross_check_entitlement` and the authority table of the desk, as operators |
| `Planner` | `_gather_facts` and `Planner.plan`: every `_plan_` method, its early returns and their order |
| `MCPlanner` | its cases for TLC |
| `Identity` | `resolve_identity` and the booking search of the API |
| `MCIdentity` | its records and messages for TLC |
| `RateLimit` | the client's throttle and the API's rate limit |
| `ReviewDesk` | `serve.py`: handler and worker threads, child processes, the journal's lock file |
| `OneDesk` | abstract specification: one case in hand, taken once, judged at most once while it is in hand; implemented by `ReviewDesk` |
| `*Proofs` | the theorems about the module they are named after |
| `RemedyExecutorLiveness` | that every run of the write path ends |

### RemedyExecutor

State: `writes`, `seq` are the API's memory; `wire`, `reply` the network;
`journal`, `nextKey`, `marker` the durable tables (a row joins an intent with its
grants); `pc`, `dry`, `pass`, `todo`, `current`, `key`, `audit`, `held`,
`report` are the process. `ledger`, `others` and `wipes` are history: every
write ever performed, and two counters.

`_execute_one` is cut at each durable statement and each message:
`Consult` (read the log), then one of `SkipDuplicate`, `Block`, `WouldExecute`,
`RecordIntent`; `RecordGrant` once per benefit key; `Dispatch` or `NotSent`;
`ReceiveReply` or `Timeout`; `SettleIntent`, `SettleGrants` (two statements,
hence two steps); `Reconcile` after an unknown outcome, which either settles the
row again or holds back what follows. The checks keep the order of the code:
`Duplicate` first, then `Barred` (log unreadable, unsettled rows, overlap,
grants, earlier rows of the same fingerprint, the flag), then the precondition
refresh, which may refuse the kinds that have one (`Refreshed`). `SecondPass` is
the referral pass with the readback before it (`Readback`), `Recover` the recovery
pass after an exception, which may strike before that readback or after it, `Crash` the end of the process at any point.

Abstractions:

* One booking: every query is filtered by booking. Namespaces are left out since
  the queries of the write path read across them.
* A proposal is a record; the whole record is its fingerprint, `detail` is what
  the log shows, `tag` what only the fingerprint sees.
* Clocks do not run backwards, so a row carries the number of markers that were
  there when it was written, its *era*; stale means an earlier era. A request
  may be performed after a later marker: `NoDoubleGrant` and `NoRepeat` compare it
  by the era of its row (`SameEra`), and in `OneGrant` it is granted under the claim
  of that era. The era of the moment it was performed may then hold a second grant
  of the benefit, which nothing in the code prevents; `GrantsAreBounded` counts
  them. `epoch`, the wipes so far, only keeps apart writes that look alike.
* A restart of the API loses its memory, not the requests under way, which the
  new server may still get; `--reset-ops` is a request like any other.
* The audit read, the journal reads and the decision are steps between which
  nothing else in this process runs; the API and other desks may act between
  any two of them, and the decision uses the log that was read, as the code does.
* The report keeps what a run claims (done, already there, nothing).
* A proposal that the planner already blocked is not in `todo`; it changes nothing.
* A rebooking's cancellation is not modelled: the client has no call for it.

### ModelBudget

Rows of `model_usage` are kept as the totals that the code reads
(`usage_totals`: cost of settled rows, reservations of unsettled ones, and their
number); only the row of the call in progress is ever updated. What the provider
charges is added when the call ends. `Omits` remembers, in `unstated`, that a call
ended in one of the three ways that are known to leave its row out of the case
record (finding 5). `EndParse` is the end of `parse` together
with what the case does of it: extraction then narration, and which usage rows
join the record.

### ReviewDesk

A page and the handler thread of its POST are one process, a worker thread and
its child two more. `LOCK` and `JOBS` die with the desk, children do not.
A child is modelled up to the journal's lock file, which is what two children
share. Killing the child on the 600 s timeout releases that file, or it does not:
`run.py:144` starts itself again where it was not started with the project's
interpreter, the venv launcher of Windows starts a process of its own
(`run.py:74`), and the kill reaches the first process only. The run then goes on
as an orphan of a case that was reported as failed, beside the child of the next.
On Windows `subprocess.run` also waits, after the kill, for the pipes that such an
orphan holds; that the wait ends is assumed (`WorkerRuns`).

`KeepsOneDesk` maps the desk to `OneDesk`: the case in hand is the one a handler is
accepting or a worker is at work on, whichever of the two holds `LOCK` at the
moment; a verdict is a status other than "running" and "unknown". `Acquire` is
`Take`, the status written by `Inspect` or `RunFailed` is `Judge`, `Release` and a
worker that cannot write its input are `LetGo` (in the second case `LOCK` stays
taken, which is finding 7), `DeskRestarts` is `Forget`, every other step a stutter.

### CasePipeline

State: `used`, `late` are the budget of `OpsClient`; `pc`, `pass`, `facts`,
`confirmed`, `needs`, `handovers` the locals of `run_case`; `todo`, `current`,
`audit`, `held`, `results`, `receipts` the executor and its report; `open`,
`performed` the API's write log; `rows`, `unsettled` the journal. `drawn`,
`refused`, `runs` are history.

The stages are `pc` = `identity`, `facts`, `plan`, then the passes (`next`,
`decide`, `refresh`, `write`, `sent`), `reply`, `record`. A read is
`Read(result)`: up to `ReadTries` attempts out of the ordinary share, ending in
an answer, an error, a lost answer or an exhausted budget. `Draw` is a request
that may use the reserve: a reading of the write log or a referral. `pass` 1 is
the remedies, 2 the referrals after the readback, 3 the recovery pass.
`Interrupt` is an exception at any point of a case (also in the recovery pass,
after which the case still gets its record), `Killed` the end of the process,
`DeadlinePasses` the clock. `Route`, `Groups` and `Status` are
`_build_escalations` and `_determine_status`, the latter a CASE in the order of
precedence of the code. A referral that was answered without the identifier of
the API (`unnamed`: a body that cannot be parsed) counts as raised in the recovery
and as a failure otherwise.

Abstractions:

* What `RemedyExecutor` takes apart is one step here: a write is performed when
  it is sent or never, and the API does not restart. What the write path may do
  about an earlier row is a choice, bounded by what the journal and the log hold.
* A referral is its queue and its scope (the event, the case, or the bare
  "unidentified" of the recovery); the message is fixed, since the key holds it.
* A plan is what the pipeline uses of it: remedies proposed and blocked, items,
  a question. Which facts lead to which plan belongs to the planner.
* The model calls of extraction and narration are in `ModelBudget`; a failure of
  extraction is an `Interrupt`, one of narration changes nothing here.

`CasePipeline` and `RemedyExecutor` overlap in the executor and are not composed
by INSTANCE: the first counts requests and follows one case, the second follows
the fate of each request over many runs. Where the first allows an outcome of a
write it is one that the second has (sent and performed, sent and not performed,
not sent), except a late one.

### Entitlement and Planner

A *case* (a constant input: booking, journey, contact, level of authority) is
chosen by `Init` and never changes. `facts` is what `GatherFacts` could read: the
service's answer or its failure, whether the flight and the history were
readable, and whether the two derivations agree. `pc` follows `plan`: `open`
(`Unread`, `BlockEverythingForYTP`, `Open`), `requests` with one action per
branch of `_dispatch` and of the `_plan_` methods, `unasked` (compensation
nobody asked for), `demand` (`_check_discretionary_demand`), `done`; the pass
over conflicting elections (`ResolveConflicts`) stands between the requests and
the rest, as in the code. `proposals`, `handovers`, `answers`, `asks` are the
lists of `Plan`, as sets of records that remember the request they came from;
`disposed` is `request_dispositions`, `handled` the kinds seen.

`Planner` EXTENDS `Entitlement`: the figures of a case are computed, not chosen.
What it hands to `CasePipeline` is there a choice among plans (`Plans`).

Abstractions:

* Which requests are live and whom a name means (`live_requests`,
  `match_passengers`) are inputs; so is whether the quote was found. A delay
  limit that the code passes on as the status DELAYED is a figure in minutes.
* What the inventory, the rooms and the booking's vouchers show is a choice of
  the step that reads it: any subset of `Options`, any of `Rooms`, `Rates`.
* Money is in pence. `round(pct * seg_fare, 2)` on floats may send half a penny
  either way (`Shares`); `ROUND_HALF_UP` sends it up (`ExpectedShare`).
* The referral of a disputed cause, which `pipeline.py` adds to the finished plan,
  is part of the last step (`CauseDispute`): which cause the contact `blames` is
  an input, the recorded one is that of the journey.
* Left out: the eligibility summary, rationales and other wording.

### Identity

`record` and `contact` are inputs chosen by `Init`; `stage` follows
`resolve_identity`. `LookUp` takes the references of the shortlist one by one,
`EndReferences` decides when all are through; without any, `SearchEmail` and
`ReadByEmail`, `SearchPhone` and `ReadByPhone`, then `SearchName`, which confirms
nothing. Each request has three outcomes: an answer, a refusal, which the code
notes in `unresolved_checks` (`Note`), and no answer, which nothing in the module
catches (`Escapes`). `Confirm` ends with the third-party check.

An address, a number, a reference, a word of a name are atoms; what the comparisons
tell apart (lower case, digits within digits, short numbers) is given by constants,
and so is the path under which a reference is read (`Segment`, `_safe_segment`):
two spellings may share one, and where nothing is left of a reference the read
raises a ValueError, which ends the stage (`Escapes`). The
patterns that find references, numbers and `From:` lines in a text are inputs. A
shortlist is any choice that the order of the code allows, since lists from
the text have no order in the model. The attempts that the reads cost are in
`CasePipeline`.

### RateLimit

`pc`, `times`, `wake` are `_request` and the throttle of one process, `log` the
API's `request_times`, `late` the requests that nobody waits for any more. A
request that is `sent` is counted and answered at any later moment (`Accept`,
`Refuse`), is one that the API does not count (`Exempt`: `/_audit`, `/_reset`), or
its client gives up (`Timeout`) or ends (`NextProcess`) and it arrives late or
never. Time is discrete and one clock serves both sides: the throttle uses
`time.monotonic`, the API `time.time`, on one machine whose clock is not set
back. Each retry of a read is a request of its own.

## 3. Runs

| Run | Bounds | Shows |
|---|---|---|
| `remedy_grants` | 2 overlapping rebookings and a referral, 3 rows, 1 reset or restart | no double grant, no repeat, write-ahead, failed rows granted nothing, one unsettled remedy, dry runs, implements `OneGrant` |
| `remedy_desks` | 2 payments of different amounts, another desk that pays one of them in full or in part, 3 rows, 1 reset or restart | reported means done, another desk's payment is respected, every run ends |
| `model_budget` | reservations 1 and 3, overrun 1, ceilings 7 and 4, 3 calls | bill covered, ceilings, the narration's call, the record states the usage of its requests |
| `review_desk` | 2 pages, 3 cases, 1 restart | one case, one writer, implements `OneDesk`, every case reported |
| `case_pipeline` | 5 kinds of plan over 2 remedies and 4 queues, 2 referrals, 10 attempts of which 4 reserved, 2 tries per read, one run of the message | types, reserve, routing, what the status promises, every case leaves a record |
| `planning` | two passengers, every boundary of distance, delay, notice and rounding, all pairs of requests, 3 flights, 3 states of the rooms, 2 prices, every read failing | types, a disagreement has a reason, no conflict, only for those who asked, no request vanishes, compensation assessed once, blocked is referred |
| `identity` | 2 bookings that share or differ in address, number and names, 5 references (one nobody's, one another spelling, one of which nothing is left in a path), 2 looked up, numbers within numbers, every lookup failing | types, the chosen booking meets its standard, references decide alone, the address is not passed over, turned away for a cause |
| `throttle` | throttle 2, limit 4, window 2, time up to 4, 4 requests per process, 1 late request, 2 processes | a request is refused only for the sake of strangers |
| `equal_amounts`, `rejected_blocks`, `desk_lock`, `lost_handover` | minimal | the findings: TLC's counterexample to a statement of the code |

Why the bounds are enough to be interesting: three rows let an unknown or
abandoned row, a later remedy and a referral coexist, in one era or across the
marker; the two rebookings share one of two benefit keys, so grants recorded
one by one, overlap without equality and late requests all occur; one reset or
restart gives both a marked and an unmarked loss of memory, and a crash between
the two halves of `--reset-ops`. Two pages with a restart, or
a child that outlives its timeout, give two children at once. The ceilings admit two or three calls and the overrun can pass them. In
`case_pipeline` a case that meets no failure just fits its ten attempts, so
every retry makes some later step run out; the supervisor's queue and two urgent
ones are one more than the referrals allowed. Runs over the same message again
are in `lost_handover` and in the theorems. The cases of `planning` are chosen
around each comparison of the code (`Figures`: on it, below it, unknown), as
pairs of requests, since requests interact in pairs (`Requests`), and as sorts
of booking and message (`Others`). What
is proved (section 5) does not depend on these bounds.

In `throttle` two windows fit the time, so requests leave both windows while
others are under way; a process has twice as many requests as its throttle
lets go at once, and the margin of two can be used up by the other process
and by late ones. In `identity` both bookings may hold an address or a number, in
the same or another spelling, and one reference may be written in two ways.

`ReportedMeansDone` and `RespectsOthers` hold on `remedy_desks`, whose amounts
differ: that is what they need, and what their theorems assume. `equal_amounts`
shows the first to fail where two events have equal amounts. In the second a
write whose identifier the API gave out again is excepted: without the exception
TLC finds the trace of finding 3 in this run.

Deadlock is not checked in the two `ReviewDesk` runs, where all cases may have
been used up and nobody polls, nor in the two of `CasePipeline`, which stop
when the message has been worked on `MaxRuns` times, nor in `planning`, which
stops when the plan is made, nor in `throttle`, whose clock ends.

## 4. Fairness

* `RemedyExecutor!FairSpec`: weak fairness of the run's own steps. Each call of
  the run returns: SQLite statements do, and a POST has a client timeout
  (`ops_client.py:179-182`). Nothing is asked of the API, the network, another
  desk, or the command line; crashes and exceptions may happen at any time.
* `ReviewDesk!FairSpec`: weak fairness of each worker thread and of a handler
  that has taken the lock: the interpreter schedules its threads. Waiting for the
  child ends by `timeout=600`. Nothing is asked of children, pages or restarts.
* `CasePipeline!FairSpec`: weak fairness of `Progress`, the steps a case takes
  by itself. Each request has a client timeout and the reads a fixed number of
  tries, so every call returns. Nothing is asked of new cases, exceptions, kills
  or the deadline; `MaxEscalations`, `PlanReads` and the other bounds on reads
  stand for the finite loops of the code.

## 5. Proofs

All are proved by TLAPS without unproved leaves, for every value of the
constants. Assumptions: `BoundsAssumption` (the bounds are naturals) and
`ProposalsAssumption` (kinds are the six of the code); `AmountsAssumption` and
`CallsAssumption` (amounts are naturals, at least three requests per case, as
`MAX_MODEL_REQUESTS_PER_CASE` is); `BoundsAssumption` of the desk;
`AttemptsAssumption` (the reserve is part of the limit, at least one referral),
`PlansAssumption` (a remedy is not both proposed and blocked) and
`QueuesAssumption` (finitely many queues, with different names);
`DataAssumption` and `ContactsAssumption` (the inputs of the identity check are of
their types, at least two references are looked up);
`LimitsAssumption` (the throttle is below the limit);
`CasesAssumption` (the inputs of the planner are of their types, requests name
passengers of the booking, as `match_passengers` returns them, and somebody in it
is not an infant).

* **`RemedyExecutorProofs`**. The properties are not inductive: that two
  performed writes share no benefit says nothing of a request still on the wire,
  nor of a row not yet sent. `IInv` adds
  `RowsOK` (rows exist below `nextKey`, their era is not in the future),
  `RunOK` (what each phase of the run knows of its row),
  `SentOK` (a request that was sent has its row and all its keys, in force),
  `LedgerOK` (a request is performed once, as its row says),
  `Exclusive` (rows in force of one era share no benefit key),
  `ClaimFree` (keys about to be recorded are free) and
  `OpenDistinct` (rows of one era and state in force have different fingerprints).
  One lemma per action shows that it keeps `IInv`. From it follow type
  correctness, `NoDoubleGrant`, `NoRepeat`, `WriteAhead`,
  `FailedGrantedNothing`, `OneUnsettledRemedy`, `DryRunSendsNothing`, and the
  refinement of `OneGrant`, in which the keys on disk are claims, keys settled as
  failed are claims given up and the API's writes are grants: `RecordGrant` is
  `Claim` (the key must be free, `ClaimFree`), `ServerPerforms` is `Grant` (the
  request must not have been performed nor given up, and the keys on disk must be
  just those of the remedy performed, `SentOK`), settling a failure is `Release`,
  `RecordReset` is `Reset`, every other step a stutter (`RowsKeepClaims`,
  `WorldKeepsClaims`). `GrantsAreBounded` counts over all eras, with an injection
  of grants into eras: a benefit is granted at most once more than a reset was
  recorded.
  Two properties need a condition on the instance, which is `LogTellsApart`:
  equivalent writes are the same remedy. Without it, `ReportedMeansPerformedHolds`
  says what can be had: what is reported done was performed, up to what the
  write log compares. `Claiming`, the phases between an answer (or a find in the
  log) and the report, makes that inductive however often the process crashes or
  the API forgets; `ReportedMeansDone` is the special case.
  `RespectsOthers` is about the writes of other desks: a row tied to a write of the
  log is like it (`LinksOK`) unless the identifier of the write was given out
  again (`Identified`), so the overlap scan passes over no other write that
  matters, and `Vetted` carries that decision to the request. `WritesIdentified`
  adds that identifiers are given once as long as the API keeps its memory; with
  resets the exception is real, which is finding 3.
* **`RemedyExecutorLiveness`**. `Left` measures what a run still has to do: the
  passes, the proposals of this pass, the stages of the proposal at hand (one for
  each grant not yet recorded). Each step of the run and each exception make it
  smaller in a lexicographic order, proved well-founded; the API, the network,
  another desk and the command line leave it alone or end the run. `NeverStuck`:
  until it has ended a run has a next step, which needs that the rows the plan
  may still take were free when it started (`Roomy`), so the bound on rows never
  holds a run up. The plan is finite (`FinitePlans`). See *Liveness* below.
* **`ModelBudgetProofs`**. The ceilings alone are not inductive: a call that
  was admitted may still add its overrun. `BInv` adds `InFlight` (the
  reservation of the call in progress is part of both totals, which were within
  the ceilings when it was made), `Covered` (the bill with the call in progress
  is covered), `CallsOK` (how many requests each point of the case may have
  made) and `RowsOK` (recorded rows never exceed requests). From it
  `WithinCeilings`, `BilledIsCovered`, `NarrationHasItsCall` and the types; with
  `ReportedOK` (the rows in the record and the request in flight are no more than
  the requests made) and `StatedOK` (they are as many, until a row was left out),
  `UsageIsStated`. `WithinCeilings` and `BilledIsCovered` together bound what
  is charged (`BillIsBounded`): the session ceiling, one overrun for each call whose
  usage was never read and one for the last; where reservations are never
  exceeded the ceiling is the bill (`CeilingIsTheBill`).
* **`ReviewDeskProofs`**. `DInv` says who owns the lock at each step: one
  handler accepting, one worker working, never both (`Handover`), the lock taken
  for them (`Locked`), a status that nobody published yet (`Fresh`,
  `Unpublished`), and the lock file owned by the child that writes (`Owned`).
  From it `OneCaseInHand`, `OneWriter` and the types. `OneDeskRefinement` needs the
  same invariant: it is what makes the case in hand one (`InHandIs`), the same
  before and after the handover to the worker (`HandlerKeeps`), and without a
  verdict when one is given (`WorkerKeeps`). `VerdictsStay` is what it is
  worth: a verdict that a page could read stays while the desk lives. For liveness, each of a worker's
  three stages after it started its child leads to the next, so the case is
  reported and the lock released (`EveryCaseReportedHolds`, `DeskBecomesFree`), and
  an accepted case reaches its worker (`EveryCaseHandedOver`).
* **`CasePipelineProofs`**. `IInv` joins to the types `Budget` (attempts beyond
  the ordinary share are among those drawn on the reserve), `Placed` (which pass
  each stage belongs to, and that nothing is left to do when a case ends),
  `LogOK` (the log that was read shows only referrals that are in the API's),
  `ReportOK` and `ResultsOK` (what the report claims of referrals and remedies is
  in the API's log), `Referred` (in the second pass each referral is still to do
  or is in the log, unless one was refused or unknown) and `Reported` (the
  hand-overs hold what the remedies' results call for). The reserve alone is not
  inductive since ordinary requests change `used` and not `drawn`; nor is the
  promise of a status, which is made long after the writes it speaks of. From it `OrdinaryLeavesTheReserve`,
  `HandoverReachesTheDesk`, `QuietEndMeansSettled` and the types, for any number
  of runs over the message. `EveryItemIsRouted` follows from the operators: each
  queue that keeps its referral has fewer than `MaxEscalations - 1` queues before
  it, and that number tells the queues apart, so an injection bounds them.
  `EveryCaseLeavesARecordHolds` rests on a measure as in `RemedyExecutorLiveness`:
  phase, pass, proposals left, stage, reads left; an exception sends a case to a later
  phase (`Provided` asks for finite plans and for the reads that the facts need).

* **`PlannerProofs`**. The figures first: `BothDerivations` and `HalfPenny`
  compare the service with the desk by cases of band and delay, for every
  distance, delay, notice and fare. Then each branch of a request adds a set of
  proposals, referrals, answers and questions that is `Sound` by itself (typed,
  every proposal `Wanted` or blocked and `Backed` by a referral), which
  `AddKeeps` carries over to the plan; `ResolveConflicts` alone changes what is
  there, and only blocks. `Kept` also says that what was taken up stays so.
  That each request is accounted for is inductive only with `AInv`: the requests
  *before* the one at hand are, compensation that was handled belongs to one of
  them, and a dispute has been referred. From these follow the types,
  `DisagreementHasAReason`, `OnlyForThoseWhoAsked`, `BlockedIsReferred`,
  `ElectionsDoNotConflict` and `EveryRequestIsTakenUp`, for any number of
  passengers and requests. `CompensationIsAssessedOnce` counts three sets: `CInv`
  says that they are empty before an assessment and hold one element after it,
  and `CountKeeps` that no other step adds to or takes from them.
* **`IdentityProofs`**. While references are looked up and none of them failed,
  those left and those matched are a shortlist of the message's (`Accounted`), so
  a single match is the only reference there is; a limit of at least two is
  needed for just that. `NoReferences` and `FoundBy` carry to the later stages
  what the earlier ones have shown, `EmailTried` and `PhoneTried` that what a
  stage left behind was noted; a verdict is given once, on what its standard asks
  (`Judged`). All five properties of the run are proved.
* **`RateLimitProofs`**. The throttle keeps a request and the `Throttle`-th after it
  a window apart (`Spaced`), also when it was asleep and does not count again; a
  request that is answered in time arrived before the next was let go
  (`Placed`); no request is counted twice (`Distinct`). So of the process's own
  only `Throttle` can be in the window of the API, and the rest are strangers'.

*Liveness.* The three liveness properties are proved from the fairness of section 4
and from hypotheses that say exactly what is out of the provers' reach:

* `WorkersCanStep`, `HandlersCanStep`, `RunCanStep`, `ProgressCanStep`: where
  the conditions at the heads of the actions hold, the action is ENABLED. The
  provers do not expand ENABLED. They are invariants of the instances of the runs,
  by TLC, and the runs of the liveness properties would show it if one failed: a
  process whose next action is not enabled may stay where it is for ever.
* `Descent` (`RunCanStep` and `ProgressCanStep` only): if whatever is left always
  leads to less or to the end, it leads to the end. It holds of every behaviour,
  since the order is well-founded (`OrderIsWellFounded`), but is an induction
  over a temporal formula. `RunDescends` and `CaseDescends` are what is proved
  without it.

The desk needs no induction, so its theorems have only the first.

Every property of the passing runs is stated by a theorem. Only model-checked: the
enabledness hypotheses, and the violations.

## 6. Findings

1. `_reconcile` takes the last equivalent write of the log for the lost one,
   without the provenance filter used before a write (`equal_amounts`).
2. A crash between the two statements of a rejected write blocks the benefit
   for good (`rejected_blocks`).
3. A reused identifier of the API links another desk's write to an old row, and
   the overlap check passes over it (no run; `RespectsOthers` excepts it by
   `Identified`).
4. A referral is raised again under the same key when its clause drifts and the
   log is unreadable (no run).
5. Requests are missing from the usage in the case record (no run).
6. The comment of `_server_equivalents` describes the opposite of what the code
   does with a journal row that the log does not show (no run).
7. A worker that cannot write its input files keeps `LOCK` (`desk_lock`).
8. A later run over the same message cannot refer an unknown outcome: the key of
   its referral is that of an earlier one (`lost_handover`).
9. Readings of the write log draw on the attempts reserved for the hand-over, so
   a referral may be refused (no run).
10. The recovery pass uses another scope than the passes it recovers from, so a
    referral that was sent is raised again (no run).
11. A refund above the desk's authority is blocked and referred to nobody
    (no run; `BlockedIsReferred` excepts it).
12. A refund is proposed although the referral of disputed figures
    says that all payments are blocked (no run).
13. A request for compensation vanishes from the plan when the entitlement service
    fails: no referral, no answer (no run; `EveryRequestIsTakenUp` names the case).
14. When the flight record cannot be read a refund is answered as not due, though
    the service knows of the cancellation (no run).
15. A second request for compensation has no entry in `request_dispositions`
    (no run; `SkipHandled`).
16. The referral of a demand says that the entitlement has been settled, which the
    desk never does (no run).
17. An address on one booking confirms it though the telephone number is on
    another (no run; `MeetsItsStandard` asks for one standard only).
18. A number that occurs within another booking's turns its holder away, and
    nothing is noted (no run; `TurnedAwayForCause` excepts it).
19. The throttle of each process is fresh, so two cases one after the other may
    pass the limit (no run; `RefusedForStrangers` says what holds).
20. Of a contact that could not be read, a compensation whose figures are disputed
    is neither referred under S10.4, as the return that leaves it out says, nor
    proposed (no run; `CompensationIsAssessedOnce` excepts a disagreement).
21. Two spellings of one reference, one of them with its punctuation, count as two
    matches, and the contact is turned away as ambiguous (no run; `Segment`).

## 7. Not modelled

What is left of the system is string processing, data and I/O: prompts, span
verification and reply texts, the patterns that read references, names and numbers
out of a message, timestamps and time zones, argument parsing, report layout,
configuration, the static read endpoints of the API, the offline tools. Their
results are inputs of the models.

Within the modelled parts: `CasePipeline` performs a write when it is sent or never;
that it may be performed after the run has ended is in `RemedyExecutor` only. The
seats that the API does not check when it confirms a rebooking
(`ops_server.py:783`) are data of the write path, and no property speaks of them.
