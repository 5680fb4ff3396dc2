# A verification project for netops_autopilot

`netops_autopilot` discovers a network from one console cable, designs it,
renders configuration for each device, and — behind a typed confirmation —
applies, verifies and repairs it. What can go wrong is rarely a single function:
it is a device that refuses a line in words instead of an error, a reply that is
lost after the line took effect, a thread that finishes before its neighbour, a
budget reached in the middle of a wave, a run whose verdict forgets one set of
devices. The modules here model the parts of the program that carry those
decisions; TLC checks them on small instances and TLAPS proves the invariants
that matter most for every instance.

All source paths below are under `src/src/netops_autopilot/`.

## 1. Inventory of the system

| Component | State it keeps | Operations | What is hard | What makes it correct | Module |
|---|---|---|---|---|---|
| Configuration executor, `access/executor.py` | the plan, the CLI depth, the inverse list, the change record; on the device a running and a startup configuration | plan, gate, type, verify, save, roll back, record | refusals in words, lost replies, failed reads, reloads, partial application | verified before saved; ROLLED_BACK means clean; every call ends in one of seven outcomes | `ChangePlan`, `ConfigExecutor`, `ChangeProtocol` |
| Autopilot run, `autopilot/orchestrator.py` | phase, crawl report, renderings, gate outcomes, verdicts, console | nine phases, access retry, BOND gate, sequential apply, recovery, verification, repair | a step may stop or raise anywhere; verdicts are built from many sets | COMPLETE is earned; nothing unapproved or ungated is touched; nobody is forgotten; the run ends | `AutopilotRun` |
| Failure orchestrator, `engines/failure_orchestrator.py` | none | `decide` | order of the early returns | no rollback over irreversible state | `FailureOrchestrator` |
| Discovery crawl, `engines/discovery_crawl.py` | report, frontier, the twin's neighbour tables, evidence | waves collected by threads, admission, L3 probes | thread order, exceptions, two budgets, repeated crawls | nothing named is dropped; evidence is in order; only budgets stop it | `DiscoveryCrawl`, `SerialCrawl` |
| Evidence collector, `access/collector.py` | circuit breakers, device locks, human sessions | `collect` | several threads share it and nothing in it holds a mutex; two ledger commits per command | a result has its evidence and evidence its result; a person on a device is not joined; a dead command stops being sent; every call ends | `Collector` |
| Device identity and links, `engines/discovery_crawl.py`, `engines/link_evidence.py`, `fsm/link_fsm.py` | references issued, chassis ids seen by each observer, a memo per row, an FSM-4 machine per link | resolve a row, record links, report links | hostnames are not identities; the two ends of a link are admitted in either order; rows are read twice | two boxes are told apart only on first-hand evidence, and then for good; reported links end at reported devices; both ends count | `NeighborMap` |
| Change and rollback lifecycle, `engines/change_engine.py`, `engines/rollback_engine.py`, `fsm/*` | the state of FSM-2 and FSM-3, the rollback artifact | prepare, veto, configure, arm, confirm, trigger, complete | guards that fail between two transitions; state set before it is recorded; calls in any order | authority is earned; a ready rollback stands behind an armed change | `ChangeLifecycle` |
| Recovery ladder, `engines/recovery_engine.py`, `fsm/recovery_fsm.py` | the level | start, escalate, recover, give up | any order of calls, levels excused by a matrix | no destructive level before a human decided | `ChangeLifecycle`; levels 0 and 1 in `AutopilotRun` |
| Chat operator and web server, `chat/operator.py`, `chat/device_runner.py`, `web/server.py` | one shared context (run, discovery, pending change, device runner), the table of runs, two locks | POST /chat, GET /chat/stream, GET and POST /runs, the worker of a run | each request and run is a thread; much is done outside both locks | a plan is sent once; a message sees the latest run; a poll reads a whole answer; the server comes to rest | `ChatServer` |
| Autonomy, `engines/autonomy.py` | none | `decide` | precedence of the vetoes | no verdict without the approval its gate asks for | `Decide` in `ChangeLifecycle` |
| Evidence ledger, `ledger/store.py` | chained signed events, observations, claims | append, verify_chain | an append that raises | writers stay consistent with it | the writers' view in `ConfigExecutor`, `Collector`, `ChangeLifecycle` |
| Twin, `twin/twin.py` | facts per device | `apply_claim` | stale facts outlive a crawl | last evidence wins | whose neighbour table is known, in `DiscoveryCrawl` and `NeighborMap` |
| Device machine FSM-1, `fsm/device_fsm.py` | — | — | — | — | nothing in `src/` drives it |
| Core services, `core/cache.py`, `core/ratelimit.py` | LRU order, token buckets | get, put, take | limits | never over capacity | not modelled |
| Transports, `access/connection.py`, `access/*_transport.py`, `access/mgmt_session.py` | sockets, prompts | dial, login, execute | bytes and timeouts | — | the external device of `ConfigExecutor` |
| Design, rendering, intent, blueprints | documents | pure generation | text | golden files | not modelled: bounded inputs of `AutopilotRun` |
| Validation, simulation, analysis engines | snapshots | graph computations | data, not control | unit tests | not modelled |
| Parsers, adapters, enterprise packs, reporting, LLM, agents, CLI, harness, simulated fabric | tables | text | wording | unit tests | not modelled |

How they interact: the run (`AutopilotRun`) calls the crawl once and again for
each access retry; the crawl calls the collector from worker threads and the
collector appends to the ledger; the run calls the executor once per device and
once per repair, and hands a failed outcome to the failure orchestrator; the
executor writes to the device session and to the ledger. The web server runs the
autopilot in a thread per run and hands its result to the one chat operator,
which plans and sends single changes itself. Between components the models use
the weaker description of each: `AutopilotRun` sees of a change only the outcomes
`ChangeProtocol` allows, and of a crawl only a report; `ChatServer` sees of a run
only how it ends; `NeighborMap` is the same walk as `DiscoveryCrawl` with one
thread and without sessions or limits other than the device budget, because
`RecordsLikeSerial` shows that the threads change nothing in what is admitted and
in which order.

`PROJECT.json` lists every component with its files, and the hazards of this
code at the lines where they bite.

## 2. The modules

### Configuration executor

`ChangePlan` holds the pure part: `PlanOf` turns the indented lines of a change
into the commands to type (`_plan`), `RollbackPlan` into the inverses
(`_build_rollback_plan`). A command's text is an operation on an item; its
allowlist entry (class, whether it opens a sub-mode, whether it declares an
inverse) belongs to the line. No entry of the allowlists for a `no` command opens
a sub-mode, so no such line is in `BodyLine`. The two are recursive functions;
`Plans` and `Undos` of `ConfigExecutor` hold them for every request and family.

`ConfigExecutor` is `ConfigExecutor.apply`, one action per use of the session:

| Code | Action |
|---|---|
| `apply`, 476-515 | `Call`, `RejectPlan` |
| gates and dry run, 517-546 | `GateChange` |
| baseline hash, 549 | `ReadBaseline` |
| the typing loop, 556-581 | `SkipComment`, `SendMode`, `SendLine` |
| after-hash, 583 | `ReadAfter` |
| `_verify_change`, `_verify_state_present` | `VerifyRefused`, `VerifyState` |
| `_persist` | `FinishWithoutSave`, `SaveChange` |
| `_rollback` | `RecordManual`, `Unwind`, `SendInverse`, `LeaveModes`, `ConfirmRollback` |
| `_record_to_ledger` | part of `Close`, i.e. of every action that ends a call |

`dev` is the device (external): running and startup configuration as sets of
paths and the CLI mode. It may execute a command, refuse it in words, ignore it,
lose it or lose the reply, fail a read, and reload between any two commands. A
hash stands for what was hashed, and the hash of a refusal text is its own value.
`cur` holds the local variables, `rec` the `ChangeRecord`. The history variables
`base` and `calm` and the history field `dev.obeyed` (since the call began the
device ignored no line without a word and did not reload) appear only in
properties.

`ChangeProtocol` is the abstract specification: refused before anything is sent,
or made and then either kept and saved or undone, never both; the startup
configuration changes only in a kept change. `KeepsProtocol` is its refinement.

### Autopilot run

`FailureOrchestrator.Decide` is `decide` as an operator. `AutopilotRun` is
`AutopilotEngine.run`: one action per phase, per device of the apply loop, per
recovery attempt and per repair. Devices are numbers in the order the run sorts
them. Crawls, renderings, repairs and the nodes a failed change applied are
inputs chosen from sets. `TypedStop` is a typed `Failure` in a phase that can
raise one (caught, reported, BLOCKED-FAILURE); `Raise` is any other exception,
which leaves through the `finally`. `_recover_device` drives the first two
levels of the recovery ladder (`Recover`, `Escalate`, `Lose`).

### Discovery crawl

`DiscoveryCrawl` is `DiscoveryCrawlEngine.crawl` with `_collect_wave`,
`_collect_device`, `_admit_device` and `_discover_via_l2l3`, and the calls of
`Collector.collect` that append events:

| Code | Action |
|---|---|
| the selection of a wave, 500-519 | `SelectWave` |
| `_collect_device` in a worker or inline | `OpenSession`, `SessionRefused`, `CommandCollected`, `CommandFailed`, `Raise` |
| the joining of the pool, 774-786 | `EndCollection` |
| admission and enqueueing, 523-551 | `Admit`, `AdmissionFails`, `EndWave` |
| NOT_PROBED entries and the ARP/MAC join, 553-577, 617-670 | `CloseWalk` |
| `_discover_via_l2l3` | `RecordKnown`, `RecordRefused`, `Probe`, `AdmitProbed` |
| the report | `EndCrawl` |
| the access retry of the run | `CrawlAgain` |

`job` is what collecting one device has yielded so far; a worker thread is a job
that is `open`. Jobs start in the order submitted and at most `Width` run at
once, which is what a thread pool does; everything else interleaves. `twin` is
the set of devices whose neighbour table the twin holds, and survives a crawl.

`SerialCrawl` is the abstract specification: a crawler that visits one device
after another, each at once, in breadth-first order. `RecordsLikeSerial` says
that the parallel crawl implements it, so the report and the recorded evidence
are ones a crawl without threads could have produced.

### Device identity and links

`NeighborMap` is the part of the crawl that decides which device a row of a
neighbour table names, and grades the link:

| Code | Action or operator |
|---|---|
| `_resolve_neighbor`, 314-330 | `Resolve` (the reference a row gets), `Note` (what resolving it leaves behind) |
| `_is_first_hand_split`, `_note_chassis`, 332-351 | `FirstHandSplit`, `SeenWith` |
| `_register_identity`, `_assign_ref`, 353-381 | `Register` |
| `_link_id`, `LinkEvidenceEngine.state` | `Ends`, `StateOf` |
| `normalize_port` | `SamePort`, over the constant `Canonical` |
| `_is_bidirectional`, 1082-1102 | `NamesBack` |
| `_record_links`, 1061-1080, with FSM-4 rows 4.2 and 4.5 | `RecordRow`, `Grade`, `OneSided`, `Probable` |
| selection, admission, enqueueing, 500-552 | `SelectWave`, `Admit`, `Named`, `Enqueue`, `EndWave` |
| `_link_report`, 1115-1142 | `Report` |
| a second crawl of the same engine | `CrawlAgain` |

A reference is a pair of a name and the chassis id that sets it apart (`None` for
the plain name); names and ids are numbers in the order they sort. `network` is
what the real boxes advertise, and never changes; `held` says which box's table
the twin holds under a reference, which is what a wrong identity gets wrong.
A port is what a table prints: a link is named by the printed ports, as
`_link_id` does, and the match compares what the rules of the far device's
`family` make of them. Two notations of one cable are therefore two links here,
as in the code.
Between two rows nothing else runs (admission is one thread), so `RecordRow` is a
step per row only to make the order of rows visible.

### Evidence collector

`Collector` is `Collector.collect` with `CircuitBreaker` and `SessionLockManager`.
Nothing in the collector holds a mutex, so each read of a shared attribute or
dictionary and each write to one is an action:

| Code | Action |
|---|---|
| `collect`, 163-184 | `Call` (a command that is not READ_ONLY ends it) |
| `human_session_active`, 185-190 | `LookForHuman` |
| `SessionLockManager.acquire`, 87-94 | `LookAtLock`, `TakeLock` |
| `_breaker`, 153-157 | `LookUpBreaker`, `CreateBreaker` |
| `CircuitBreaker.state`, 60-64, and the verdict on it, 198-203 | `AskBreaker`, `LookAtCooldown`, `HalfOpen`, `HearVerdict` |
| the attempts, 206-218 | `Answer`, `NoAnswer`, `Raise` |
| `record_failure`, 73-77 | `ReadFailures`, `CountFailure`, `CompareFailures`, `OpenBreaker`, `StampBreaker` |
| `record_success`, 69-71 | `ForgetFailures`, `CloseBreaker` |
| `append_event`, the artifact, 229-250 | `AppendEvent`, `AppendArtifact`, `LedgerError` |
| `release`, 96-98 | `LookToRelease`, `Release` (KeyError where another thread deleted the entry) |
| a person, the clock | `DeclareHuman`, `ClearHuman`, `Tick` |

A breaker object is named by its key and the thread that made it, because two
threads may each make one for the same key. `watched` and `givenUp` are history.

### Change, rollback and recovery

`ChangeLifecycle` has the tables of FSM-2, FSM-3 and FSM-5 as sets of rows and
their guards as predicates of the evidence shown; `Fire` is `GuardedFsm.fire`
(illegal attempts, denied attempts, and a recorder that raises after the state is
set). `call` says where an engine method stands between two transitions.

| Code | Action |
|---|---|
| `ChangeEngine.prepare` | `Prepare`, `BuildDag`, `MeasureBlast`, `Authorize` (with `Decide`, which is `AutonomyAuthority.decide`) |
| `ChangeEngine.veto` | `Veto` |
| `RollbackEngine.configure` | `Configure`, `LookAtContent`, `CheckPreconditions` |
| `arm`, `confirm`, `trigger`, `complete` | `ArmRollback`, `ConfirmRollback`, `TriggerRollback`, `CompleteRollback` |
| the device vanishes | `LoseRollback` |
| `RecoveryEngine` | `StartRecovery`, `Escalate`, `EscalateIntoDestructive`, `Recovered`, `HumanRequired`, `Lost` |
| whoever deploys the change (external) | `Deploy` |

`src/` drives FSM-2 as far as AUTHORIZED; the rest of its table is fired by a
deployer who shows the guards only facts that hold (`Facts`).

### Chat operator and web server

`ChatServer` has one record per request and per run, each a thread, and one
action per use of what threads share:

| Code | Action |
|---|---|
| `_get_chat_op`, server 1252-1291 | `GetOp`, `MakeOp`, `MakeBroken`, `PublishOp` |
| the sync of POST /chat, 1305-1320 | `Sync`, `SyncRun` |
| `_chat_state_lock` around a message | `Lock`, `Reply` |
| `_do_confirm_change`, operator 2632-2718 | `ReadPending`, `ClearPending`, `NoSession`, `Send`, `Refuse` |
| planning a change | `ReadDevice`, `StorePlan` |
| discovery, apply, rollback by chat | `Discover`, `KeepRun`, `KeepDiscovery`, `Design`, `Apply`, `KeepApplied`, `NotApplied`, `Rollback` |
| GET /runs/{id} | `ReadStatus`, `ReadFinal`, `ReadReport` |
| POST /runs | `PostRun` |
| `_run_autopilot_worker` | `StartRun`, `EngineReturns`, `EngineRaises`, `LookAtShared`, `WireDiscovery`, `WireRun`, `SwapRunner`, `FillReport`, `FillStatus`, `FillError` |

The site is one real device; a simulated run has a fabric of its own. Topology
and design are written together with the run they belong to, and the writes of a
record under one lock are two steps.

## 3. Runs

| Run | Instance | What it shows |
|---|---|---|
| `executor` | two sections, a nested and a global item; eleven requests (same-text lines in two sections, an empty section, a section without inverse, negations, a line needing a human, refused plans, dry run); three families; two initial configurations; 2 changes, 2 faults | type; mode discipline (`TypedInItsMode`); a clean rollback is clean; re-applying changes nothing; ledger and record agree; what was applied is in place, each line in its section; nothing unverified is saved; every call returns; the protocol is kept |
| `executor_rolled_back` | same | violation: a lost reply to the first line gives ROLLED_BACK with the line on the device |
| `autopilot` | three devices with the seed in the middle, seven crawl reports, four renderings, two retry rounds | COMPLETE is earned, unconfirmed devices are loud and stop the loop, every rendered device is accounted for, only gated devices are touched, repairs are re-verified, the run ends |
| `autopilot_approved` | same | violation: a repair configures a device after the operator refused |
| `discovery` | four devices, two endpoints; three sets of limits (2, 1 and 3 workers; budgets of 6, 5 and 2 devices); 2 crawls, 2 faults | nothing named is dropped, budgets and sessions are kept and only budgets stop, serial equivalence (so admission in order, nearest first), every crawl ends |
| `discovery_order` | same | violation: events of one wave are appended in thread order |
| `neighbors` | five boxes, four hostnames, three chassis ids, three ports in two notations each, two families that differ in how they fold them; five networks (two switches of one name seen in opposite order and printing their ports in full, one seen by one core only and a core described by two ids, no chassis ids at all and a neighbour of another or of no family, a seed that answers to another name, a third core behind the switches); budgets of 3 and 7; 2 crawls, 3 devices that do not answer | devices are told apart where, and only where, they should be; reported links end at reported devices; both ends count |
| `neighbors_two_refs` | same | violation: two observers give one box with one chassis id two references |
| `collector` | two threads, one device, one readable command and one that is not, one retry, threshold 2, cooldown of one tick, `MostGiveUps` = 9 | evidence and results agree, a person is not joined, a dead command is given up nine times at most between two answers or cooldowns, every call ends |
| `chat` | three requests and two runs (one simulated) in five scenarios, every message over POST or over the stream | a plan is sent once, a message is handled with the latest run, a poll is whole, everything ends |
| `chat_one_source` | a plan and a confirm beside a simulated run | violation: the plan read from the site is sent to the fabric of the run |
| `lifecycle` | nine kinds of change (every gate, not modelled, of unknown risk, irreversible, below M3, without a rollback mechanism) over two recovery matrices, every rollback artifact | authority is earned, a ready rollback stands behind an armed change, nothing destructive is undecided |

Bounds. `MaxChanges` = 2 is what re-application needs: the second call starts
from every state the first can leave. `MaxFaults` = 2 lets a fault hit the
change and another its rollback (or the read that should notice the first).
Three devices around the seed are what the ordered apply loop distinguishes: one
before, the seed, and one behind a halt. Four devices give the crawl a wave of
two (threads interleave), a second wave, and a neighbour named back; the budget
of two devices cuts a wave in the middle and leaves a frontier, the probe budget
of one is exceeded by the two endpoints, and two crawls exercise the twin's
memory. In `neighbors` the five boxes are what it takes for two observers to see
two devices of one name and for a third device to be cabled beside them; the
budget of three cuts the walk with links to devices never crawled; the second
crawl finds identities, tables and machines of the first; three silences let the
second crawl reuse the table of each device of a wave. In `collector` two threads
make two breakers for one key and one tick of cooldown lets a breaker be half
open beside an open one. `MostGiveUps` is the largest number there is, found by
lowering it until TLC objects: with one thread it is the threshold; with two it
is 5, 9 and 14 for a threshold of 1, 2 and 3. The give-ups above the threshold
come from a breaker that is replaced after it has counted, from counts that are
overwritten, and from a thread that asks between `_state = OPEN` and
`_opened_at`. In `chat` three requests are a plan and two that confirm
it, and two runs are two that finish in either order. `lifecycle` is bounded by
its tables only. Every action fires in the passing runs. `CHECK_DEADLOCK FALSE` is
used where a run or crawl ends for good (`autopilot*`, `discovery*`,
`neighbors*`) and where threads may stay idle (`collector`); the executor, the
lifecycle and the chat server are checked for deadlock, the last with a stutter
only when every request and run has ended.

Fairness. `ConfigExecutor`: weak fairness of the steps of `apply`, because the
caller's thread runs and every `session.execute` returns or raises within its
timeout; not of calls or reloads. `AutopilotRun` and `DiscoveryCrawl`: weak
fairness of `Next`, because the run is one thread, a pool runs its workers, and
sessions time out. `Collector`: weak fairness of the steps of a thread inside
`collect`, because an attempt returns or times out and nothing waits for a lock;
not of new calls, people or the clock. `ChatServer`: weak fairness of each request
once it was taken up and of each worker, because they are threads whose handlers
return; not of clients. (Requests are finitely many, so a lock that others keep
taking is free in the end and weak fairness is enough.)
`ChangeLifecycle` and `NeighborMap` have safety properties only and state no fairness: nobody is obliged to call an engine, and
that the walk ends is the property `CrawlEnds` of `DiscoveryCrawl`. No strong
fairness anywhere; faults are never assumed fair.

Each property of a passing run has a mutant in `PROJECT.json`: a variant of one
definition (a dropped guard, a missing reset, an order swapped) under which TLC
finds that property violated.

The five violation runs (`executor_rolled_back`, `autopilot_approved`,
`discovery_order`, `neighbors_two_refs`, `chat_one_source`) are disagreements
between the code and what a comment or docstring of it says. They are recorded,
with both places quoted, under "findings"; section 6 lists the others.

## 4. Proofs

TLAPS checks the theorems below for every value of the constants that satisfies
the modules' assumptions (which TLC evaluates on each instance).

`ConfigExecutorProofs` starts with what a plan is, since every other invariant
needs the lines of one to be lines. The library's induction theorems take a claim
as an operator; here a claim is the set of numbers it holds for, and the least
number outside the set is taken (`Least`, `Upward`, from well-foundedness of
`<` in `WFMin`). `Folded` gives a recursive function its defining equations, and
with it `PlanningWalks`, `PlanIs` and `UndosAre` say, for every body of every
length, that a plan is a sequence of planned lines in which
each line stands at the level the lines before it lead to (`PlanFits`), the
indentation step is never zero, and the inverses are inverses of its lines. So
the theorems speak of every change the renderer can indent, not of the eleven of
the run, and no assumption is made of a plan.

The base of the rest is `TypeInv`: `TypeOK` and `CursorOK`, which
says the cursor stays in the plan and the inverse list where it is used (typing
alone is not inductive: `Line` and `Undo` index sequences).
 - `TypeCorrect`: `Spec => []TypeOK`.
 - `RolledBackClean`: only three steps can end a call with ROLLED_BACK, and the
   one with lines applied compares the two hashes; inductive relative to
   `TypeInv`.
 - `SaveIsVerified`: from `CheckInv`, which says that before phase 4 nothing is
   marked verified (`Unchecked`) and that a checked record holds the read-back the
   check was made on (`Readback`).
 - `TypedInMode` (`TypedInItsMode`): from `ModeInv`, which says that in an
   undisturbed change the path of the session names the sections that the lines
   above opened and no later line closed (`Placed`). `PlacedIn`, `PlacedStill` and
   `PlacedOut` follow a line that opens a section, one that does not, and an exit.
 - `AppliedStands` (`AppliedIsInPlace`): from `CarryInv`. While no line was ignored
   without a word and nothing is marked for rollback, each line sent so far stands
   on the device in its section, or a later line took its effect back (`Carried`).
   That needs to know where the session is, and a refused or lost exit, which the
   code does not notice, leaves it deeper than planned: what is kept is that the
   start of its path is where the plan has it (`Reaches`), so that the CLI, which
   lets a command fall back to the depth it belongs to, still puts a configuration
   line into its section. A line that opens a section and is refused is marked, and
   a marked change is never APPLIED. `ReachesStill`, `ReachesOut` and `ReachesIn`
   follow a line, an exit and an entry; `CarryLine` and `CarryMode` are the two
   sends.
 - `ReapplyIdempotent` (`ReapplyIsIdempotent`): from `Untouched`. While every line
   is in place and the readback is not refused, the device stays as it was, nothing
   is marked for rollback, both hashes are of the same configuration and no line is
   found absent (`LineInPlace`: typing a line that is in place, in its section,
   does nothing; it uses `ModeInv`).
 - `LedgerAgreeing` (`LedgerAgrees`): from `LedgerInv` (no event of a change that
   is not closed, one event at most of one that is).
   `SendCloses`, `VerifyCloses`, `EndCloses` and `GateCloses` say that a step
   either closes the change or writes no event.
 - `ImplementsProtocol`: every step of `ConfigExecutor` is a step of
   `ChangeProtocol` or leaves phase, verdict and startup unchanged.

`AutopilotRunProofs`. `TypeInv` is `TypeOK` and `Handling` (a device is in hand
while one is recovered, applied or repaired).
 - `TypeCorrect`.
 - `UnconfirmedStops`: from `NothingYet` (before the loop the gate is empty) and
   `OrderInv` (every device with an outcome is before every device still to do,
   and after an unconfirmed one nothing is to do). The decision lemma
   `UnconfirmedHalts` is where the orchestrator enters.
 - `OnlyGatedTouched`: from `GatedInv` (a device in hand was collected in full,
   and the crawl does not change once something was sent).
 - `RendersAccounted`: from `AccountInv` (a rendered device is to do, recorded,
   skipped, or behind a halt).
 - `VerdictIsEarned` (`CompleteIsEarned`) and `BrokenIsHeard` (`BrokenIsLoud`),
   from `VerdictInv`, which carries through verification what the gate's verdict
   said.
 - `RepairsReverified`: from `RepairInv`.

The crawl is proved in two modules, one resting on the other.
`DiscoveryCrawlProofs`: `TypeInv` is `TypeOK` and `JobInv` (a job under way has a
command left to send, a finished one a status); `CoreInv` adds `PlaceInv` (only
the devices of the wave, or the endpoint being probed, have a job under way) and
`WaveInv` (the frontier is used up by report, wave and left-outs; a wave's devices
are not in the report).
 - `TypeCorrect`.
 - `AdmittedIsSigned`: from `EvidenceInv`, the same of jobs not admitted yet.
 - `NothingIsOmitted`: from `ReportInv` (a device that was named is in the report
   or in one of the sets the walk still goes through; an unexplained address is a
   candidate or recorded).
 - `OneOrderOfEvidence`: from `OrderInv` (what was admitted is before everything
   still to be admitted).
 - `NoSessionIsLeftOpen`: from `SessionInv` (a session is opened only when the
   pool has a thread for it; an exception that ends a crawl was of the only job).

`DiscoverySerialProofs` first proves what a wave is: `FirstOfIsFirst` and
`FirstOfCounts` say that `FirstOf(S, n)` holds the least elements, and n of them
when any is left out.
 - `BudgetsAreKept`: from `BudgetInv` (report and wave are within the budget, and
   equal to it when a device was left out). `LimitsHold` joins it with
   `NoSessionIsLeftOpen` into the property `LimitsAreKept`.
 - `WalkIsBreadthFirst`: from `NearInv` (the devices still to be crawled are named
   by one of the wave before and by none of an earlier wave).
 - `ThreadsChangeNothing`: from `BudgetInv` and `ProbedInv` (endpoints are probed
   in order), one lemma per step of `SerialCrawl`.

So every safety property of the `discovery` run is a theorem, for any fabric, any
budgets and any number of workers. The runs check the theorems `AdmittedIsSigned`,
`OneOrderOfEvidence` and `WalkIsBreadthFirst` through `RecordsLikeSerial`, which
implies the orders they speak of, instead of by properties of their own.

`NeighborMapProofs`. Each theorem has its own invariant beside `TypeOK`:
 - `TypeCorrect`.
 - `DevicesAreToldApart`: from `Walked` (no device waits and is crawled at
   once, and none is nobody), `Remembered` (the memo of a row is a registered
   reference of the row's name, plain or with the row's id: `MemoFits`) and
   `FirstCrawl` (in the first crawl, a
   reference with an id is of a name a box itself showed two ids of).
 - `LinksEndWhereReported` and `BothEndsAreHeard`, together (`LinksAreSound`): from
   `Told` (every row read so far is in the memo and has its link; and of two rows
   read that point at each other, the link of one is graded probable) and `Queued`
   (the far end of a row read is in the report, the wave or the frontier, or is
   left out). They need that resolving a row again gives the reference it had
   (`MemoStays`, `NamedByFirstRow`), which is what the memo in the code is for, and
   that the row graded last finds the other in the far table, by the rules of the
   family known by then (`MutualNamesBack`). Nothing is assumed of `Canonical`, so
   they hold for any rules of folding port names.

`CollectorProofs`. `IInv` is `TypeOK`, `StagesFit` (a thread past a stage holds
what that stage gave it) and `WatchedIsThere` (a watched person is still on the
device, and `acquire` has not looked yet).
 - `CollectorTyped`, `CollectedIsRecorded` (`EvidenceMatches`), `PersonIsNotJoined`
   (`HumanKeepsOut`).

`ChangeLifecycleProofs`. The lemmas about the tables come first (`RowStates`,
`IntoArmed`, `IntoAuthorized`, `ReadyStays`, `IntoDestructiveTier`: which rows
lead into and out of the states the properties are about), then `FireMoves` (what
one `fire` may do, whether it is legal, denied or not recorded). `IInv` is
`TypeOK` and the three invariants. `TypeOK` includes `StageOK`: a call that stands
between two transitions of `prepare` or `configure` stands where the first of them
was made, so no call goes on past a transition that was refused (`StageStep`).
 - `LifecycleTyped`, `AuthorityIsNotPassedOver`, `RollbackStandsBehind`,
   `DestructionIsDecided`.

`ChatServerProofs`. Three invariants, one per property:
 - `Fitting` (a request's and a worker's local variables fit its stage):
   `ChatTyped`, `AnswersAreWhole`.
 - `PlanInv` = `LockHeld`, `Unseen`, `PlacesApart`, `PlansOnce`: a plan stored is
   pending in one operator, with the confirm that has taken it and holds the lock,
   or sent, and one not stored is nowhere:
   `PlansAreSentOnce`.
 - `ContextInv` = `EndedRuns`, `RunsLockHeld`, `Seen`, `Current`: the run a sync
   chose has ended and is the latest while the lock is held, and what the context
   holds is not older when the message is handled: `MessagesAreUpToDate`.

Every invariant and action property of the passing runs is one of these theorems,
but for `GiveUpsBounded`. Only model-checked are that bound, liveness
(`EveryCallReturns`, `RunEnds`, `CrawlEnds`, `CallEnds`, `AllEnd`), which is out of
the prover's reach, the mutants, and the violation runs, which are
counterexamples. `GiveUpsBounded` is a number of one instance: with unlocked
counts the largest number of give-ups for N threads and a threshold T depends on
how often one thread can overwrite what the others counted, and no closed form of
it is claimed. History (`calm`, `base`, `dev.obeyed`, `givenUp`, `watched`) is part
of what the theorems speak of: it is set by the actions and read by none.

## 5. What the models leave out

 - Text: command wording, diffs, prompts, report layout, hashes' bytes. A
   normalised configuration is a set of paths; normalisation of timestamps and
   counters is taken to remove only them.
 - The executor's `dry_run` diff, and the hash chain of the ledger.
 - The run's preflight (informational), progress events and the contents of
   designs. Nested failures inside a phase are one nondeterministic outcome.
 - `ConfigExecutor`: `AppliedIsInPlace` speaks of calls in which the device ignored
   no line without a word (`dev.obeyed`); for one it did ignore, the check compares
   text without sections (section 6).
 - The crawl's plan gaps: a device's plan is chosen freely from `Plans`. The
   `frontier_exhausted` flag (section 6). The fabric does not change between two
   crawls; which devices answer does.
 - `NeighborMap`: no name is a prefix of another (the code splits a reference at
   a separator); a box's table is given as a sequence of rows, one per
   port and neighbour, already merged from CDP and LLDP (`_merged_table`); a
   device's family is the one its advertisement states (`platform_family_hint`),
   aliases of families are not followed, and a printed port stands for it up to
   letter case; links inferred from ARP and MAC tables are left out; a box shows
   the same ids in every crawl.
 - `Collector`: the back-off between attempts takes no time of its own; cooldown
   is a number of ticks, and a breaker has an age up to it instead of an opening
   time; failures are counted up to the threshold, since the code only asks whether
   they have reached it; a `Failure` is the class it carries.
 - `ChatServer`: the site is one device; the chain of stream objects a worker
   swaps in is left out; query intents (which only read) and the classification
   of text are left out; a refused or lost change is one outcome of sending.
 - `ChangeLifecycle`: evidence is the set of facts shown, not its signed text.

Not modelled, and why. The mapped lines are about a tenth of the implementation,
and a share of a third cannot be reached by models that say something: most of
the 52 thousand lines generate or parse text (renderers, blueprints, vendor
parsers, the wording of some forty chat intents, report layout), are read-only
analysers of a snapshot (about sixty engines that keep no state and call nobody),
or are scripted scenarios (`enterprise/`). They have no state changes, no
interleavings and no order of calls; golden files and unit tests say more of
them than a model of their data would. `PROJECT.json` names each with its reason.

## 6. Disagreements without a run of their own

Five disagreements between the code and its documentation have a violation run.
These were found while modelling too; the models follow the code in each.

Executor and autopilot.
 - `access/executor.py:628`: `_persist` does not read the reply of the save, so a
   save refused in words is reported APPLIED (the enum has PERSIST_FAILED, 116-117).
 - `access/executor.py:833`: the rollback only leaves modes and never enters one
   again, so an inverse of a section left earlier is typed in another mode; the
   header (41-44) says inverses run in the correct mode.
 - `access/executor.py:988`: the configuration read back is a flat set of lines, so
   a line of another section with the same text stands in for one the device
   ignored without a word, and the change is APPLIED; the docstring (974-983) says every applied line is there. For the same
   reason a change that is in place can be taken for missing and rolled back: when
   the text of one of its `no` lines stands in another section, when it has an
   empty section whose line declares no inverse (typing it changes nothing on the
   device), or when the readback is refused because, without a wrapper, its last line left the session inside a section.
   `InPlace` and `Misread` in `ReapplyIsIdempotent` name these cases.
 - `access/executor.py:988-996`: a change that sends "no X" and "X" of one section can
   never pass the check: the text has X, and then "no X" is still present, or it has
   not, and then X is absent. A change that did what it says is rolled back.
 - `autopilot/orchestrator.py:562`: the failed node is selected by testing the
   bound method `c.ok`, which is always true, so it is always `None`
   (`FailureScenario` sets `failed |-> {}`).
 - `autopilot/orchestrator.py:1381`: a device that was tried and did not answer is
   in none of the sets of incompleteness, so a run can be COMPLETE-APPLIED beside
   it; the comment (1372-1375) is about clean verdicts over devices a run "never
   reached".
 - `autopilot/orchestrator.py:1388`: BLOCKED-ROLLED-BACK is never the verdict: a
   rolled-back device is counted incomplete first.
 - `autopilot/orchestrator.py:237`: a phase that raises before `run` holds a name
   for the console leaves it open (comments 232-233, 265-267).

Crawl and identity.
 - `engines/discovery_crawl.py:239-241, 1098`: a link is named by its ports as
   printed and matched by its ports as normalised, so a cable whose ends are printed
   as Gi1/0/3 by one table and GigabitEthernet1/0/3 by the other is reported as two
   links, and the one the first admitted end named stays ONE_SIDED for good.
   `BothEndsCount` states what is left: one of the two is graded probable.
 - `engines/discovery_crawl.py:753-760`: an exception in a wave of one device ends
   the crawl, in a wave of several it is that device's failure.
 - `engines/discovery_crawl.py:584`: `frontier_exhausted` is computed from the last
   frontier, so it is true after a budget cut a wave.
 - `engines/discovery_crawl.py:306-307`: the memo fixes what a row names, but what
   an observer has seen is kept by its reference: where two boxes share a name,
   another box may answer to it in the next crawl, and one id of each table is then
   taken for two ids one observer has seen. `ToldApart` therefore asks for
   first-hand evidence in the first crawl only.
 - The run passes the seed as "seed-01": a seed that advertises another hostname
   is crawled a second time under it (the `Renamed` network shows it).

Collector.
 - `access/collector.py:206-218`: an exception that is not a timeout or a
   connection error passes the breaker by and leaves the lock.
 - `access/collector.py:153-157`: two threads may each create the breaker of one
   key, and the failures the other counts are lost.
 - `access/collector.py:43-48`: the class promises OPEN after a threshold of
   consecutive failures and one probe when HALF_OPEN. Nothing counts probes; `+=` at
   74 is not atomic, so failures are lost; and between 76 and 77 the breaker is OPEN
   with an old opening time (or none, read as 0), so a thread that asks then probes
   at once. `GiveUpsBounded` states what is left: a command that does not answer
   stops being sent, after nine give-ups in the instance of the run instead of two.
 - `access/collector.py:96-98`: `release` checks and then deletes. Two threads that
   release one device may both pass the check; the second `del` raises KeyError out
   of `collect`, whose evidence is recorded and whose caller gets no result. A
   failure before line 252 does not release at all.
 - Every collector uses one owner name, so a lock excludes no thread; nothing in
   `src/` declares a human session.

Lifecycle.
 - `fsm/runtime.py`, rule 4: a denied attempt "is recorded"; `fire` raises without
   recording it.
 - `engines/change_engine.py:152`: FSM-2 has no row from ARMED to REJECTED, which
   the docstring (153) promises of a veto.
 - `fsm/rollback_fsm.py:104`: no row leaves CONFIRMED, so a verification that fails
   after it finds no rollback to trigger (docs/D0/03-state-machines.md:66).
 - `configure` and `prepare` cannot be called again after they failed half way;
   `recovered` replaces empty evidence ids (`engines/recovery_engine.py:124-151`);
   "rollback:READY" is taken from the caller; a change with irreversible parts can
   never be armed.

Chat and web server.
 - `web/server.py:1317`: a rollback asked by chat reads the run the server wired,
   not the change the operator last applied (`chat/operator.py:3149-3151`).
 - `chat/operator.py:3091-3140`: `_do_rollback` returns inside its loop, after the
   first record, and replies OK.
 - `web/server.py:1212-1292`: with two first requests at once, the context may be
   wired into an operator that is then replaced, though a comment says the context
   is wired before the status is COMPLETE.
 - `web/server.py:1744`: status ERROR is set before the text of the error;
   `web/server.py:933`: the stream ends after 120 seconds whatever the handler does;
   `web/server.py:1343-1388`: the stream's output is swapped outside the lock.
 - `web/server.py:1252`: the shared operator is built without a seed port
   (`chat/operator.py:1506-1517`); two POST /runs may use the same console at once;
   a confirm never closes its session (`chat/device_runner.py:199-202`).

## 7. Plan

Done, in the order of importance: executor and its protocol; autopilot run and
failure orchestrator; crawl and its serial refinement; collector; change, rollback
and recovery lifecycle; chat and web server; identity and links; the proofs of
section 4.

Left, in the order in which it would add most:
1. The ledger: append under its lock from several threads, a crash between the
   write and the commit, `verify_chain` after it.
2. The dial and confirm loop of the management session, against a console that
   drops bytes.
3. The LRU cache and the rate limiter; `change_window` and `ipam` as pure
   operators against reference definitions.
4. Reconciliation as a pure operator; the links inferred from ARP and MAC tables.
5. `Collector` composed with `DiscoveryCrawl`, so that a wave's threads share
   breakers.
