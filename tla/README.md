# Verification of info-broker

TLA+ models of the parts of info-broker that decide whether research runs are billed correctly,
do their phases in order, end, and tell the truth about how they ended: the RU wallet, the
billing of engine v2, the strategist, the brain loop and the loop run around it, single-shot
runs with their questions, node pipelines, and the feed of the knowledge graph. `PROJECT.json`
maps every definition to the lines it models and lists the runs, the hazards and the theorems;
this file is the guide.

    tlc -workers 2 -config BrainLoop.cfg MCBrainLoop.tla      # a run
    tlapm WalletProofs.tla                                    # the proofs

## 1. The system

info-broker is a FastAPI service (one uvicorn process, `src/app/main.py`), two Temporal workers
(`src/app/pipeline/worker.py`, `src/app/temporal/worker.py`), PostgreSQL, Neo4j, and a UI and an
MCP server in front. A user asks a question; a *run* does the research with LLM subprocesses and
adapters, is paid for in research units (RU) from a wallet, and ends with a row in
`pipeline_runs` and a trail. There are four ways to run:

| path | entry | who drives it |
|---|---|---|
| engine v2 | `POST /v3/preflight/confirm` | asyncio task `run_engine_v2`, with the Strategist |
| loop run | `POST /v3/agent/message`, `IS_USE_LOOP` | Temporal `IsLoopRunWorkflow` |
| single shot | `POST /v3/agent/message` | an asyncio task (or Temporal `ISRunWorkflow`) |
| node pipeline | `POST /v3/pipelines/{id}/run` | Temporal `PipelineWorkflow` |

### Components, state, operations

| component | state | operations | what is hard | what makes it correct |
|---|---|---|---|---|
| Wallet (`pipeline/budget.py`) | a row of `user_budget_wallets`, the table `wallet_operations` | hold, consume, release, refund, extend_hold, topup, floor | callers race; retries with one key; lost acknowledgements; clamped subtractions | a key takes effect once, the operations table explains the row, the CHECKs never fail, no success is reported that did not happen |
| Engine billing (`engine_v2.py`, `routers/v3/preflight.py`, `services/admission_gate.py`) | the run's row, the task's locals, the patched module attribute `wallet.consume` | confirm, admit, start, consume, finish, crash, restart, sweep | tasks of one process share the attribute; confirm is retried; the process dies | a hold is used up or given back, once; nobody gains RU; caps hold |
| Strategist and tacticians (`strategist.py`, `tactician.py`, `injection_queue.py`) | phase outputs, the unit of work of the next attempt, tasks, charges, the injection queue | order phases, run tacticians side by side, gate, charge, replan, swap the tactic, inject | a tactician raises while its siblings run; directives arrive at any time; gates that fail open | each phase runs after its inputs, retries are bounded and differ, work is paid once, a directive reaches one phase |
| Working memory and brain loop (`working_memory.py`, `brain_turn.py`) | one JSON document passed from turn to turn | apply a delta, move the phase on, pick a target, give up a stagnant test, terminate | what the brain says is arbitrary; turns fail | the workflow and not the brain decides when the run ends; a synthesis rests on verdicts |
| Loop run (`is_loop_run.py`, its activities) | workflow locals, the run's row, the trail's row | preflight, ask, wait, reserve, loop, post-process, abort; signals | activities are retried or come late; nobody answers; other writers of the row | the run ends; success is earned, shown and kept |
| Single shot and brain questions (`agent.py`, `brain_questions.py`, `mcp_server/client.py`) | in-memory tables of pending questions, events and answers; the row, its `confirmation_data`, trails | ask, answer, time out, hold a result, accept, reject, poll, restart | one endpoint serves three kinds of question; an answer races two timeouts; a restart forgets the tables | a held result is never lost, a question gets its own answer, a run is not researched twice at once |
| Node pipelines (`pipeline/workflow.py`, `runner.py`, `reconcile.py`) | row, step rows, the workflow's state in Temporal | layers, activities, cancel, reconcile, sweep | replays write again; activities nobody waits for any more; four writers of the row | a node runs after its inputs, success means all nodes succeeded, the run gets a verdict |
| Knowledge graph (`materializer.py`, `neo4j_client.py`, the writers, `lifecycle.py`) | observation rows, two checkpoints, nodes and edges | insert, materialize, promote, demote | rows become visible out of the order of their times; passes fail half-way; an entity that has a node is refused; slugs | nothing hot is skipped, nothing is counted twice without a failure |
| Watchdogs, sweeps, cancel (`orphan_watchdog.py`, `metrics.py`, `pipelines.py`, `main.py`) | none | read rows, write their status | they see an old row or ask for the wrong workflow | a run that is lost is failed, a live one survives |
| Search engine, fusion and scoring, strategies and nodes, monitors, accounts, sessions and webhooks, read models, media adapters, UI | external stores and single rows | | | |

### How they interact

Confirm holds RU, asks the admission gate, inserts the row and creates the engine task; the
engine replaces `wallet.consume` by a wrapper that also counts, and the strategist calls it
through the module. Loop runs reserve RU in the request handler before the workflow starts; the
reserve activity then finds the row `reserved` and does nothing. Every activity, the watchdog,
the sweeps and the cancel handler meet only in the column `pipeline_runs.status`; Temporal
signals are the only way into a running workflow, and no code of the repository sends them yet.
The brains of a single shot are subprocesses that reach the API through the MCP server; the
browser reaches the same tables through `brain_answer`. Writers of observations and the
materializer meet only in the tables. Events to the UI are best effort and feed nothing back.

## 2. The modules

| module | models | state and actions |
|---|---|---|
| `WalletOps` | the arithmetic of the wallet statements | operators only: `Updated(op, row, amount)` is the UPDATE, `UpdateMatches` its WHERE |
| `WalletLedger` | abstract specification: what the wallet promises | `row`, `ledger`; `Operate` does one keyed operation at once, `Provision` and `SetFloor` are the router's |
| `WalletTxn` | the six operations as READ COMMITTED transactions | a `pc` per caller: `Begin` is the unlocked SELECT, `Commit` / `Reject` / `DuplicateKey` / `Rollback` the locked UPDATE with what follows, `FirstTouch` a transaction that provisions the row |
| `EngineBilling` | confirm, gate, engine, crash, restart, sweep over several wallets (through `WalletOps`) | each action is a stretch of code between two awaits; `disturbed` remembers the runs that were not alone with their engine and the wallet |
| `PhasePlan` | abstract specification: what the strategist promises of phases | phases done one by one after their dependencies, a verdict |
| `PhaseGate` | the aggregate of a phase's outputs and the gate checks | operators, one per check of the source, each with its own notion of a live source |
| `Strategist` | one call of `execute` beside the inject endpoint; implements `PhasePlan` | `SortPops`, `Brief`, `TaskStarts` / `TaskReturns` / `TaskRaises` of every tactician, one action per outcome of the gate, `Charge` (recorded or refused) and `AggregateRaises` |
| `TurnLoop` | abstract specification: what the brain loop promises to the workflow around it | `turn`, `reason`, `cancelled` |
| `WorkingMemory` | the pure functions of `working_memory.py` | operators on the memory record, one per function of the source |
| `BrainLoop` | the loop over the working memory; implements `TurnLoop` | `Turn(delta)` is an activity with the workflow code after it, for every delta the brain can emit |
| `LoopRun` | the workflow, the handler that starts it, and the other writers of the row; extends `TurnLoop` for the turns | `pc` is the point of the workflow, `zombies` the activities it has given up and that still run |
| `QuestionRelay` | questions of brains: MCP tool, client, request handler, event | per question the state of `tool` and `handler`; `event` and `stored` are the two tables, which know the run but not the question; an answer keeps for which question it was meant and under which it was posted |
| `ClarifyDesk` | a single-shot run and its three waiting places; extends `QuestionRelay` | memory tables, row and tasks; `Answers` are the cases of `brain_answer`, `Deliver`, `Poll`, `Crash`, `Restart` |
| `DagLayers` | the layers of a pipeline and the nodes a topological order can place | operators on graphs |
| `PipelineRun` | `PipelineWorkflow`, its activities and every writer of its row | the workflow's steps, activities also as `zombies`, handlers, watchdog, sweep, restart |
| `GraphFeed` | observations on their way into Neo4j | writers insert and commit, the materializer reads, creates nodes, is refused for nodes that exist, merges edges and moves its checkpoints, the sweep changes tiers |
| `MCWalletTxn`, `MCEngineBilling`, `MCBrainLoop`, `MCStrategist`, `MCPipelineRun`, `MCGraphFeed` | instances for TLC | constants, symmetry |
| `WalletProofs`, `EngineBillingProofs`, `StrategistProofs`, `BrainLoopProofs`, `LoopRunProofs`, `ClarifyProofs`, `PipelineRunProofs`, `GraphFeedProofs` | the theorems, section 4 | |

`WalletTxn => WalletLedger`, `BrainLoop => TurnLoop` and `Strategist => PhasePlan` are
refinements, each checked by TLC and proved. `EngineBilling` uses the statements of `WalletOps` at
the granularity that the first justifies, and `LoopRun` uses `TurnLoop` in the place of
`BrainLoop`, as the second allows. `ClarifyDesk` composes the relay of the brains' questions with
the run that asks them. Operators named as mutants in the modules are variants with a plausible
mistake; each property of a passing run is known to fail with one of them.

Choices a reader should know:

- RU amounts are natural numbers: the operations take integers, the wallet's columns are
  `NUMERIC(18,4)`, and no width is reached. `Strategist` leaves amounts out: a charge is the set
  of tacticians it pays for.
- `WalletTxn` has one wallet: all statements of an operation name one user. `EngineBilling` has
  one wallet per user, and its wallet calls are indivisible. The rows the gate counts are those
  of `EngineBilling`'s runs: queued and running rows of the other paths make the gate refuse more
  often, which `ConfirmHolds` allows at any time.
- `budget.consume` reports a database error in its answer and does not raise, and `execute` does
  not look at the answer. So `Charge` of `Strategist` is recorded or refused, and the run goes on;
  what raises after the gather is the aggregate.
- A brain delta is a function that says of each hypothesis nothing or a status. Ids that are a
  prefix or unknown, statements that repeat, and updates that come twice lead to deltas of that
  form. Of a contradiction it keeps the status and whether there is a winner. The target of a
  test turn is chosen by confidence; the model takes any open hypothesis.
- A finding of a tactician keeps what the gate checks look at: the candidate it names, whether
  its source is live, whether it refutes. What a tactician returns is any of a set of findings.
- The API process is one event loop; an action of `Strategist`, `ClarifyDesk` and `QuestionRelay`
  is the code between two awaits. One worker process runs all activities of a loop run, and none
  awaits between its look at the status and a write that depends on it.
- In `LoopRun` the handler's own preflight, when it asks something, leaves the path: the answer
  goes to the single-shot brain, which is `ClarifyDesk`.
- Only user actions and faults are unconstrained in `ClarifyDesk`: answers come in any order and
  twice, or never; a crash loses every table. The UPDATE of a research to `running` may fail,
  which the code swallows (`unmarked`). DELETE and INSERT of a trail are two statements, and a
  failure between them leaves no trail.
- `GraphFeed` keeps of time only its order. Two transactions may take the same time; what a
  transaction has inserted is seen when it commits, in any order. Neo4j refuses the statement of
  an entity that has a node, since `ON MATCH` sets a property to a map. Whether the driver raises
  that out of `session.run` or only when the result is consumed, which the code never does, the
  source does not settle, so the model has both: `EntityRefused` ends the pass, `EntityLost` lets
  it go on.

## 3. The runs

| run | question | bounds, and why they are enough |
|---|---|---|
| `wallet_txn` | are the racing transactions the indivisible ledger, and do they fail closed? | 2 callers, 1 key per operation, an amount that exceeds the balance: a race needs two callers, a duplicate one key, a clamp one amount too large |
| `engine_holds` | what is left of holds when engines overlap, cost more than the estimate, crash, fail in their setup, lose wallet calls and rows, are swept or killed? Do runs end? | 2 engines, 2 runs of one user, 2 attempts that cost more than the estimate of one run and less than that of the other; every fault but a repeated confirm, which multiplies the states by ten and which the theorems cover |
| `engine_faults` | what survives overlap, retries, crashes and sweeps? | 2 engines, 3 runs of 2 users, cost above the estimate: both caps can be hit and one run can have two engines |
| `hold_leaks` | violation, section 6 | 2 engines, a run each, no fault |
| `brain_loop` | does the workflow decide on phases and end? | 6 turns, 3 hypotheses (interchangeable), 1 contradiction: explore, test with progress, stagnation by two turns and the cap can all meet; two hypotheses would make the threshold the whole set |
| `loop_run` | is success earned, shown and kept, and does every run end? | 4 turns (3 make an answer, so the cap and an early answer both happen), all faults but duplicated signals |
| `strategist` | do phases keep their order, retries their bound and difference, charges and directives their attempt? | 3 strategies that between them use every fan-out policy, every `on_fail` and most checks; 2 candidate names, 2 tactics, 1 directive, 1 tactician that raises, 1 charge the wallet does not record; the semaphore lets 1 of 2 run |
| `pipeline_run` | does each node run after its inputs, once, and does the row tell the truth? | a diamond with a shortcut, a node behind an excluded one, a cycle and an empty pipeline, 3 or 4 nodes each; all faults |
| `restart_revives` | violation, section 6 | the same pipelines, only restarts |
| `clarify` | is a held result ever lost, what of an earlier question can leak into the next, does a question start two researches? | 2 brains, 2 questions (the first and the follow-up, which brains may ask as well), 2 crashes, 3 trails; 2 rejections are the limit of the code |
| `answer_dropped` | violation, section 6 | 1 brain, no crash |
| `graph_feed` | is anything skipped, counted twice or left out for good? | 2 entities, one observed twice, so that it is refused when the observations come in two passes; a relationship by slugs, 1 fault, 1 observation that changes tiers: equal times, late commits and a failed pass need no more |

What the properties say is in the comment above each. The ones to read first: `ImplementsLedger`
and `FailsClosed` (`WalletTxn`), `HoldsCovered`, `PaidOnce`, `AdmissionCap` (`EngineBilling`),
`WorkIsCharged`, `DirectiveKept`, `RaiseNeverPasses` (`Strategist`), `GatedOnContradictions`,
`NoIdleTesting` (`BrainLoop`), `SucceededStays`, `SuccessIsShown`, `LeavesQueue` (`LoopRun`),
`HeldIsRecoverable`, `SoloGetsFresh` (`ClarifyDesk`), `InputsComplete`, `RunSettles`
(`PipelineRun`), `NothingSkipped`, `RelationshipLinked` (`GraphFeed`).

Type correctness is proved (section 4) and therefore part of no run, and so are `Solvent`,
`ExactlyOnce`, `AuditTrail` and `SpendableOnlyFreed` of the wallet, `CountsMatch` and
`TargetSticks` of `BrainLoop`, `SuccessIsEarned` of `LoopRun`, `DepsPassed`, `CorrectedRetry` and
`TacticsFresh` of `Strategist`, `VerdictStands` of `PipelineRun`, `RerunsBounded` and
`ClarifiedOnce` of `ClarifyDesk`. A line in a `.cfg` checks them on the instance.

What the billing was designed to guarantee of holds it does not (`NoHoldLeak`, section 6). The
three properties of `engine_holds` say what it does guarantee, with every fault allowed, and name
the runs that are excepted by what happened to *them*: `OnlyDisturbedLeak`, that an engine that
was alone and returned leaves nothing behind, whatever other runs, sweeps and restarts do;
`HoldsCovered`, that what a run has left of its hold is reserved for it but for what was taken
beyond their own holds for runs that were disturbed, cost more than their estimate, or were
refunded in full after a payment; `NothingMinted`, that RU come from nowhere but the refunds of
runs that did not return cleanly. A run is `disturbed` if its engine ran beside another one, if a
confirm of it was repeated after something was done for it or with another amount, or if a wallet
call of its engine was lost to a database error.

### Fairness

- `EngineBilling`: weak fairness of each engine's own steps. The engine is an asyncio task, its
  phase attempts are bounded by the replan budget (`MaxAttempts`), and every LLM call has a
  timeout. Weak fairness of the sweep of each row: `_stale_run_sweep` is a loop of the process,
  and the process is restarted. Nothing is assumed about clients, restarts or crashes.
- `Strategist`: weak fairness of `execute` and of the tacticians together. The event loop runs
  what can run, and the subprocess of a tactician has a timeout. Nothing about directives.
- `LoopRun`: weak fairness of the handler, of the workflow and of the watchdog. Each activity has
  a schedule-to-close timeout and each wait ten minutes, after which the model's `ActivityFails`
  or `WaitTimesOut` is the step that is taken; the watchdog ticks every five minutes. No
  fairness of answers, cancel signals, late activities or the cancel handler.
- `PipelineRun`: weak fairness of the workflow, of the activities, of the handlers and of the
  watchdog: a worker polls the queue, nodes and requests have timeouts, the watchdog is a loop.
  No fairness of replays, cancel requests, sweeps or restarts.
- `ClarifyDesk`: weak fairness of the research, of deliveries, of the restart of a dead process
  (by its operator) and of the poll (the browser polls every 15 seconds). The user
  need not answer, and the client of a tool need not give up.
- `GraphFeed`: weak fairness of the materializer's steps taken together; its loop never ends
  while the process lives. No fairness of commits: a transaction may stay open.
- `BrainLoop`, `TurnLoop`, `PhasePlan` and the wallet have no fairness; their properties are
  safety.

## 4. The proofs

All theorems are for every value of the constants under the assumptions named in the modules:
finite sets where sizes or maxima are taken (the nodes of a graph, what one tactician returns:
both come from one JSON document), natural numbers for amounts and bounds, strategies and graphs
that the code's own validation lets pass. Where an invariant a run checks is not
inductive, its strengthening is:

| module | inductive invariant | why it is needed |
|---|---|---|
| `WalletProofs` | `LedgerInv` (types, `Solvent`, `ExactlyOnce`, `AuditTrail`); `TxnInv` for the transactions; `SpentInv` | the audit trail relates rows whose arithmetic needs their types and solvency; what `Begin` has read can be stale, so the step that writes takes what it needs from the UNIQUE constraint (`~HasKey`) and the WHERE evaluated on the latest row. `FailsClosed` needs that keys are never forgotten and that a request in progress has its row. `SpentInv` says of every function that satisfies the recursion of `ConsumedUpTo` that it ends in `spent`, and that there is one |
| `EngineBillingProofs`, safety of the wallet | `BillInv` (types, `Solvent`, `KeyOnce`); `PaidInv`; `AdmissionInv` with `HasRow` | `PaidInv` adds that the ledger is finite and that `spent` is the sum of the charges, without which no new row can be added to the sum; a row that counts as active has been inserted under the cap |
| `EngineBillingProofs`, holds | `WorkInv` = `SumsInv` (`PaidInv`, `Books`, `Sums`), `Shares` (`Alone`, `OneServes`, `NotCounted`), `Work`, `Kept` | `Books`: a run is held by its estimate before anything else is booked for it. `Sums`: a wallet against the holds, excesses and refunds of all runs of its user, whatever happens. `Shares`: an engine whose run is undisturbed is the only one that serves it and counts nobody else's consumes. `Work`: what such an engine counts as left is what the ledger says is left. `Kept`: so what it gives back when it returns or crashes is exactly that. The properties then except in the sums the runs `Kept` is silent about |
| `StrategistProofs` | `Plain`, `HistoryOK`, `RetryOK`, `TacticsOK`, `DirectivesOK`, `TasksOK`, `WorkIsCharged`, `RaiseOK`, `BatchOK` | the past of a run is in `briefs`: which attempts there were, in which order and with what unit of work; each property of two attempts needs what the current unit of work inherits from the last |
| `BrainLoopProofs` | `BrainInv` (types, `CountsMatch`, `TargetIsOpen`, `NoIdleTesting`, `Clock`, `EnoughKnown`) | one lemma per stage of a turn (`Merged`, `Stays`, `StartsTest`, `AllSettled`, `GivesUp`); the counter must be exact for stagnation to mean no verdict, the clock orders the turns it compares |
| `LoopRunProofs` | `RunInv` (`Order`, `TrailOfEnd`, `Shown`), `Clarification` | until the loop has ended nothing is under way that was given up, an activity given up later is one that its point of the workflow allows, post-processing follows the end of the loop; trail, row and outcome follow `terminate_reason` |
| `ClarifyProofs` | `ClarifyInv` = `Switches`, `DeskInv` (`DeskTypes`, `Placed`, `Counts`, `Shown`), `RelayInv`, `Remembered` | where a run is decides which table may know it; rejections, reruns and the list in the row count the same thing; events and stored answers belong to a question that is open |
| `PipelineRunProofs` | which layers are done, which activities run, what steps, row and workflow say of each other | success of the row must come from the workflow that has executed all layers, however late others write |
| `GraphFeedProofs` | `FeedInv` (types, `ReadNew`, `NothingWillBeSkipped`, `CountedBehind`) | what the checkpoint *will* leave behind is merged, lost or still to be done in this pass; what was counted is behind the checkpoint or done in this pass, but for one repetition per fault. That `Max` of a bounded set is its greatest element is a lemma, from well-foundedness of the naturals |

Sums. `HoldsCovered`, `OnlyDisturbedLeak`, `NothingMinted` and the second half of `PaidOnce`
compare the wallet with sums over the rows of `ledger` and over the runs of a user. The induction
theorems of the library take a predicate as a parameter, which the provers cannot instantiate;
the first section of `EngineBillingProofs` has an induction principle with a *set* in the place
of the predicate (`AllNaturals`, `SubsetInduction`), proved from well-foundedness of the
naturals, and from it that a sum over a finite set does not depend on the order (`SumSplit`,
`SumSame`). With these, a step that books one row changes one summand of two sums, and the
arithmetic of the UPDATE does the rest.

Measures. That a run ends needs fairness, but not only: under every fairness a run could go
round. The safety half of three liveness properties is proved, a natural number that every step
of the run makes smaller and that nobody else makes larger:

| theorem | measure | what it takes |
|---|---|---|
| `StrategistIsBounded` | `ExecuteLeft` for `execute`, `TasksLeft` for the tacticians | replans and swaps are bounded by the depth, and a retry starts only from the phase under way; `FiniteOK` (outputs name finitely many, tasks are finite). A directive changes neither |
| `RunIsBounded` | `StepsLeft`, at most `MaxTurns + 12` | `Ahead`: there is a turn left until the loop ends. It is the same bound whoever cancels, answers, sweeps or comes late |
| `PipelineIsBounded` | `StepsLeft` | `LayerBusy` and the lemma `LayersGoOn`: until all nodes are done the next layer has a node, also in a graph with a cycle |

`StrategistNeverStuck` is the other thing liveness needs: in `_topo_sort` a phase can be popped
until all are ordered, so that its `ValueError` cannot be raised for a strategy the validators
pass, and of a `gather` that is not over some tactician runs or gets a permit of the semaphore.

Three refinements are proved: `TransactionsImplementLedger`, `StrategistImplementsPlan` and
`BrainImplementsLoop`. `LayerHasInputs` is about every graph, without a specification.

Conditions in the statements, beside the assumptions of the modules. Of the billing only
`BillingAdmissionCap` has one: no lost write of a row. TLC finds the cap exceeded without it,
since the gate fails open on a database error (on the instance of `engine_faults` it takes a crash
and a restart besides, for a second run that can be paid). `RunClarifiedFirst` excludes duplicated
signals, and TLC finds it violated with them. What the other properties of the billing except is
in the properties, about single runs; no theorem limits the number of engines, the costs or the
faults.

All invariants and action properties of the passing runs, and the three refinements, have a
theorem. Only model-checked are the liveness properties (`RunEnds` of billing and strategist,
`WorkflowEnds`, `LeavesQueue`, `RunSettles`, `HeldIsAnswerable`, `Materialized`,
`RelationshipLinked`): they rest on fairness, and the proof system does not treat ENABLED.

## 5. Not modelled, and why

The mapped definitions stand for a small share of the lines of the repository, because most of
them hold no control that a property could be about. Of the about seventy thousand lines, the
larger part are adapters to data sources, catalogs and declarative recipes, prompts and their
rendering, schema text, read models, the UI and command-line tools. What is left out within the
subsystems that are modelled is the same kind of code.

- Prompts, parsing of LLM output, estimates, scoring, fusion, the evidence matrix: what they
  compute is an input to the models, and the models take every outcome.
- Work of a tactician, of the scoped brain, `specialist.py` and `ach.py`: subprocesses and
  their parsing; `TaskReturns` and `TaskRaises` are all that reaches the strategist.
- The Temporal path of a single shot (`is_run.py`, `activities/brain.py`): one activity.
- Aggregators, filters and the editor of pipelines; the nodes themselves, stateless adapters.
- Curators, retriever and skills of the memory: LLM judgements written to single rows.
- Search engine: a query router with grading that no run depends on.
- Tool health and techniques: a counter per tool in front of the adapters; no run decides by it.
- Sessions, events, webhooks, read models, sharing, UI: nothing flows back from them.
- Monitors and jobs: triggers of runs; their sweeps are in the models of the runs they sweep.
- Accounts, tenancy, keys, rate limits: request-scoped checks on single rows.
- The daily cap of the admission gate: it needs days; the two concurrency caps are modelled.
- `extend_hold` has a model and proofs; no code calls it.
- Per-turn snapshots and charges of the brain loop: nothing reads them during the run.

## 6. What the models found

Each of these has a run that reproduces it, and in `PROJECT.json` the text it contradicts.

| run | what happens |
|---|---|
| `hold_leaks` | two engines at once count each other's consumption, since both patch `wallet.consume`; the second to end releases too little of its hold |
| `restart_revives` | the start of the API fails every active pipeline run as one that "will never complete"; the workflow lives in Temporal and in the worker, and its row turns to succeeded afterwards |
| `answer_dropped` | the client of the `ask_user` tool waits 60 seconds, the request handler 300: an answer in between is accepted with status ok and reaches no brain |

These are shown by adding one property to a `.cfg`, with the constants in brackets:

| property | what happens |
|---|---|
| `HoldSettles` (`EngineHolds.cfg`) | a restart fails the rows and keeps the holds; nothing releases them later, although a comment counts on the watchdog |
| `GatedIsPaid` (`Strategist.cfg`) | `consume` "fails closed" by its answer, at which `execute` does not look: a phase whose charge met a database error passes its gate unpaid |
| `SoloGetsOwn` (`Clarify.cfg`) | an answer that comes when its question has timed out is taken by the next question of the run, which may be the only one open |
| `SynthesizedHasAnswer` (`BrainLoop`) | a synthesize turn that failed ends the run as `synthesized`, without an answer and without the gap that marks incomplete results |
| `RowMatchesTrail` (`LoopRun`, no fault) | the trail says failed or cancelled, the row says succeeded |
| `EveryHypothesisRefuted` (`Strategist`) | the gate counts entries over all tacticians (`strategist.py:364`): two refutations of one hypothesis pass for two hypotheses |
| `ClarifiedFirst` (`LoopRun`, `Faults` with `"dup"`) | a duplicated `brain_answer` signal answers the second question with the answer to the first |

Seen while modelling, without a property of its own.

Billing:

- A repeated confirm takes the user's *total* held RU (`held_after` of the first call) for the
  hold of its run, and its engine releases what other runs hold; these are runs that are
  `disturbed` with an excess in `HoldsCovered`.
- `refund` adds to a balance that `hold` never reduced, so every crash of a strategist and every
  failure in the setup credits RU; the sum at the end of `NothingMinted` is what that mints.
- The release at the end of an engine is not tried again: after a database error the hold stays.
- A final status is not final: the engine's UPDATE has no condition on the status, so the end of
  an engine revives a row that a sweep has failed (as `restart_revives` for pipelines).
- The admission gate counts rows only, so a sweep of a live run makes room for another one.

Loop run and wallet:

- The row of a loop run stores `pipeline-{id}` while the workflow is started as
  `is-loop-run-{id}`. So the watchdog takes every loop run of more than 15 minutes for lost, and
  the cancel endpoint pauses the row of a workflow that goes on; either way post-processing
  overwrites the row when the workflow ends. `SuccessIsShown` and `SucceededStays` state what is
  left of the guarantee: success wins, except against a cancel request under way.
- A question nobody answers leaves the row at `awaiting_input` for good: no watchdog looks at
  that status. The abort path releases nothing: `release_budget(…, 0, 0)` leaves the reservation.
- The budget is multiplied by `max_turns` (`is_loop_run.py:167`) and then not used. A turn whose
  attempt is given up is charged again by its retry (`brain_turn.py:293`); a turn that failed has
  no snapshot although the operator guide speaks of one row per turn.
- A contradiction patched to `resolved` without a winner passes the gate to synthesize; the
  operator guide asks for a winner. A turn that reopens one hypothesis and settles another counts
  as no progress. The guide's edge from test back to explore does not exist.
- The floor binds each hold alone, not the sum of the holds (`budget.py:187`).

Strategist:

- When a tactician raises, `gather` returns at once and its siblings run on; the next attempt
  makes a semaphore of its own, so `MAX_PARALLEL` can be exceeded (`OneBatch` says until when it
  is not), and the siblings' work is charged to nobody. `WorkIsCharged` says that this and a
  charge the wallet refused are the only ways in which gated work stays unpaid.
- The tactic a swap chooses is written to `_tactic_override`, which no tactician reads; no
  strategy of the registry uses `replan` or `swap_tactic`. The check
  `top_candidate_confidence` always fails, since `ranked_candidates` is always empty.
- Inject accepts directives for runs that are over; a directive ends with the phase it reached.
- The comments at `strategist.py:3` and `:877` describe an earlier version.

Single shot:

- `ask_user` passes no user, so the event of its question reaches no WebSocket queue; the
  question is seen by polling only. A fast and a thorough brain of one run overwrite each
  other's event, because events know the run and not the question. `SoloGetsFresh` is what is
  left: without two at once, an answer is never one that an earlier request left behind.
- Runs that are `queued` or `awaiting_input` when the process restarts stay so: only `running`
  rows are reaped. What was settled at the preflight is forgotten by a restart.
- A poll between an answer and its delivery loads the confirmation again: a second answer then
  delivers twice, which leaves two trails, or starts a rerun of what is being delivered.

Node pipelines:

- Nodes of a cycle, or behind an excluded node, are executed in one last layer with whatever
  inputs there are; `InputsComplete` is about the nodes a topological order can place.
- The workflow writes the row from workflow code, not in an activity: a replay sets a row that
  was cancelled or failed back to `running`. Steps that never began stay `pending` after a failure.
- The aggregator's "intersection" is the items seen more than once, also in one input.

Knowledge graph:

- An observation that commits after a later one was read is never merged (`late` in
  `GraphFeed`); a relationship that is read before its nodes exist is passed and never retried.
- The fusion writer makes up refs (`type:name`, `unknown:name`) that are not those of the
  entities it writes beside them, so its relationships rarely find their nodes, and an entity seen
  by both writers has two nodes. Of entities that share a slug, the one the database returns last
  gets the relationship. The table of aliases is read and never written.
- `ON MATCH` sets the attributes of a node to a map, which Neo4j refuses as a property. An entity
  that is observed again, or whose merge is repeated after a failed pass, can therefore not be
  merged. If the driver raises, every later pass ends there, also after a restart, and no later
  observation and no relationship reaches the graph until the observation has left the hot tiers;
  if it does not, the observation is lost. The confidence and the attributes of a node are those
  of its first merge. `Materialized` and `RelationshipLinked` hold until that happens (`refused`,
  `lost`).
- A pass that fails repeats its merges of relationships, counts included (`CountedOnce`).
- Curation endpoints take integer ids for UUID columns; the LLM curator writes by id after an
  await without a look at the status.
- Webhooks: `_record_attempt` uses one id for all attempts with `ON CONFLICT DO NOTHING`, so
  only the first attempt is recorded (`webhook.py:29`).

## 7. The plan

Done: wallet, billing, brain loop, loop run, strategist, single shot with questions, node
pipelines, knowledge graph, each with an instance, refinements where there is a promise to
refine, and proofs. What is left, in the order of its worth:

1. `RunEnds` of `EngineBilling` with repeated confirms, on an instance with fewer faults.
2. `WorkIsCharged` against `EngineBilling`: the strategist's charges as the engine's consumes.
3. Measures for a research of `ClarifyDesk` and for a pass of `GraphFeed`, as for the other runs.
4. The Temporal path of a single shot, with the retry of its activity.
5. The breaker of tool health, and the curators' updates of single rows.
