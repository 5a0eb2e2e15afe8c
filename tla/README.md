# TLA+ verification of whetstone

whetstone optimizes prompts: an optimizer (COPRO, GEPA, MIPROv2 or Codex)
proposes candidates in steps, every candidate is evaluated over tasks and seeds,
and everything that happened is kept in a durable object store (`dr_store`) of
content-addressed records and write-once *bindings* (key -> record).  A run is
driven either by one process (INLINE) or by a stage pipeline (PLATFORM,
`dr_platform`) whose stages are delivered at least once.  Nothing coordinates the
processes except the bindings, so the correctness of a run is the correctness of
a set of small protocols over them.  This directory models those protocols.

Paths below are relative to `src/src/whetstone/` unless they start with `src/`.

## Inventory

| Component | State it keeps | Operations | What is hard |
|---|---|---|---|
| **Evaluation claims** `coordination/eval_claims.py`, `eval_service.py` | per intent: a stream of lease events (one write-once slot per ordinal), the resolution binding, the platform-intent marker; per service: `_resolve_lock`, heartbeat thread | resolve inline, defer to the platform, resolve from row outcomes, renew, take over, attest, bind | several services and a heartbeat thread race on the next slot; reads and binds are separate; expiry, crash between attest and bind |
| **Platform step executor and fan-in** `platform/step_executor.py`, `eval_fanin.py`, `deferred_intents.py`, `work_state_head.py` | per member: head work state, Step Result bindings, step-keyed deferred intents, terminal binding; per stage: the platform's ledger | optim_step, eval_row, eval_fanin, run completion | a handler is five to eight durable writes and may die between any two; the retry must recognise what was done; fan-ins are retried after the head moved on; one step may own several episodes (GEPA) |
| **Harness and run store** `optim/harness.py`, `run_store.py`, `coordination/harness_run_controller.py` | Step Request/Result bindings, adapter checkpoints, terminal result | run_step, resolve intents, terminalize, reload | idempotent re-entry of a half-done step, history that must be a chain, adapter lease |
| **Tool execution** `optim/tools/admission.py`, `_memory.py`, `_sqlite.py`, `_postgres.py`, `facade.py`, `execution.py` | capacity per scope, one entry per call, an effect lease per call | admit, refuse, evaluate, publish, complete, replay, repair | capacity at its limit, a lease that is taken over while its first owner still evaluates, a crash after the effect and before the entry is completed |
| **Issued-call ledger** `optim/tools/issued.py` | slots and terminals per step | reserve, record, read evidence | the limit of the slots, the same call twice, evidence that must agree with the store |
| **Effect leases** `core/leasing.py` | an external authority | acquire, renew, settle | lapse; a lease that may not be redriven stays blocked for ever |
| **Codex step** `optim/codex/adapter.py`, `runner.py`, `mcp_host.py`, `mcp_bridge.py` | none of its own: entries, ledger, adapter effect | run the agent, check its report, reconcile, select | the agent is not trusted: it calls concurrently, under-reports, repeats, dies; evaluations outlive the server |
| **Prompt cache and partial log** `execution/prompt_cache.py`, `partials.py` | cache entries, counters, a pending and an applied accounting journal per key, records of returned calls, file locks | execute a call, put, get, sweep counters, append, delete | processes share files only; a death or an I/O error between publication, counting and cleanup |
| **Provider driver** `provider/` | attempt records | call with retries | classification decides whether a failure is retried and whether it is stored |
| **Eval engine** `eval/`, `experiment/reward.py` | evidence records | evaluate, evaluate rows, assemble, aggregate, reward | a deadline that races rows in progress, retries, a worker pool that breaks; the same evidence derived in three places |
| **COPRO** `optim/copro` | none of its own: the chain of Step Results | draw a round, rank, finalize | rounds folded again and again from partial, failed and repeated measurements |
| **GEPA** `optim/gepa` | recorded effects, checkpoint, transcript | one iteration of a search that is replayed from its start | what was paid in an earlier episode, which step reports it, and whether the next step gets further |
| **MIPROv2** `optim/miprov2` | one state snapshot per step | bootstrap, propose, evaluate, sample, promote | every state must equal the replay of its own evidence; a fold that disagrees with the replay stops the run for good |
| **Contracts, cost** `optim/contracts.py`, `adapters.py`, `cost*.py`, `optim/proposal` | immutable records | validate, debit, sum | what one record says of another |
| **Identity, sampling, configuration** `core/identity.py`, `experiment/` | immutable records | hash, sample | - |
| **CLI, submission, bootstrap, sandbox, testing** | none | — | — |

Interactions.  The step executor calls the harness, whose adapter asks the
evaluation service to resolve intents.  INLINE, the service evaluates under a
claim.  PLATFORM, it marks the intent pending and raises `EvalPlatformDeferred`:
the harness binds the step's deferred intents and a placeholder Step Result, the
executor parks the member's head on the fan-in and emits one eval_row per row and
the fan-in barrier.  The fan-in hands the row outcomes to the evaluation service,
which resolves the intents under the same claim protocol, and then either resumes
the same step (GEPA) or merges the resolutions into the result and advances
(COPRO, MIPROv2).  A Codex step instead runs an agent process, which calls an
evaluation server hosted by the adapter; the server's threads execute tool calls
against the tool store, and when the agent has ended the adapter puts what was
evaluated on the step's ledger, from which the harness makes the Step Result.

What makes each correct:
claims - a generation is a fencing token, at most one executed result is attested
and only that is bound, everybody gets it;
executor - whatever crashes and retries do, every retry succeeds, the history holds
final results in step order, no deferred evaluation is forgotten and the run ends;
harness - the bound results form one chain and the terminal is a function of it;
tools - no debit beyond capacity, at most one effect per call, every admitted call
is answered the same way for ever;
ledger and Codex step - every evaluation that was paid for is evidence of the step or
named by its failure, whatever the agent says, and the step always ends;
cache - counters equal published entries after recovery, a published call is not paid
again, and what a caller was given stays in the log;
engine - a row's outcome says what happened to it, and evidence can be derived again
from the rows it persists;
optimizers - the run ends, with the best of what it measured, and with everything it
paid for on its record once.

## Plan

Done, in this order: `EvalClaims` with its abstract promise `EvalResolution` (proved),
`PlatformDeferral`, `CodexStep`, `CallExecution` (cache, log and provider driver),
`Rollout` (engine and drivers), `Miprov2` over `Miprov2Stages` and `Miprov2Study`, and
`OptimRun`, which composes the harness, its contracts (`StepContracts`) and the
optimizers `Copro` and `Gepa`.

Proved: everything but the liveness properties for `EvalClaims`, `CodexStep`,
`CallExecution`, `PlatformDeferral`, `Rollout` and `OptimRun`; `ScheduleKept` and
`WinnerHeadsRanking` for `Miprov2`.

Left:

1. Proofs: `NothingRefused` of `Miprov2`.
2. An abstract specification of a member's history, a sequence that is only appended
   to until it stops, implemented by `OptimRun`, and by `PlatformDeferral` under the
   faults for which that is true.
3. `CallExecution` as the call of `Rollout`'s nodes, to follow the bill of a retried row.

## Modules

| Module | Models |
|---|---|
| `EvalClaims` | the claim protocol of one intent: `coordination/eval_claims.py`, `eval_service.py` |
| `EvalResolution` | what that protocol promises, abstractly |
| `EvalClaimsProofs` | theorems about `EvalClaims`, for every value of its constants: the protocol, and what a call does with what it finds |
| `PlatformDeferral` | one member in the stage pipeline: `platform/` |
| `CodexStep` | one tool-using step: `optim/tools/`, `optim/codex/`, `run_step` of `optim/harness.py` |
| `CallExecution` | LLM calls of several processes: `execution/prompt_cache.py`, `partials.py`, `provider/driver.py` |
| `Rollout` | one engine and its drivers: `eval/`, `experiment/reward.py` |
| `Miprov2Stages`, `Miprov2Study` | the pure parts of MIPROv2: bootstrap, proposal; schedule, promotion, winner |
| `Miprov2` | a MIPROv2 run, step by step, over those two |
| `StepContracts` | what the harness accepts of an optimizer and of a run: `optim/contracts.py`, validations of `optim/harness.py` |
| `Copro`, `Gepa` | the two optimizers as operators over their durable state: `optim/copro/`, `optim/gepa/` |
| `Ordering` | sorting and filtering in a form that can be reasoned about, for the two optimizers |
| `OptimRun` | a COPRO or GEPA run: controller, harness and optimizer together |
| `PlatformDeferralProofs`, `PlatformRecoveryProofs` | theorems about `PlatformDeferral`: what holds whatever fails, and the recovery of a run |
| `CodexStepProofs`, `CallExecutionProofs`, `RolloutProofs`, `OptimRunProofs` | theorems about those four modules, for every value of their constants |
| `MC*` | instances for TLC |

### EvalClaims

`stream` is the sequence of bound claim slots; an event has owner, generation,
heartbeat ordinal and, if terminal, the attested result.  `resolution` is the
resolution binding and `pending` the platform-intent marker.  Each service (an
`owner_id`) has a main thread, whose `pc` names the next store access, and a
heartbeat thread `hpc`.  An action is one store access: `ClaimLatest` reads the
stream and computes an event (`draft`), `ClaimAppend` binds it.  The actions follow
`_resolve_claimed`: existing resolution, attestation, `_claim` loop, both checks
again, `_renew_claim`, heartbeat start, `_evaluate_and_bind` or
`_assemble_and_bind_outcomes`, `_publish_result_attestation`, `_bind`, clearing the
marker, and the `finally` that joins the heartbeat.

Abstractions, and why they are sound:

- `_latest_claim` walks the slots one by one; it is one step, at its last (unbound)
  read.  Slots are write-once and filled in order, so the walk returns the event
  that is last at that moment.
- The clock is one flag: `expired` says that `expires_at` of the last event has
  passed.  It may rise at any moment, so a heartbeat may be arbitrarily late.  The
  clock and the stream are read together; a takeover's bind succeeds only if the
  event it read is still the last.
- A restarted process has a fresh `owner_id`: a crash stops an owner for good.
- The engine returns any outcome with any evidence, or raises.  Row outcomes are a
  fixed tuple, since a row's record is bound once.
- The errors that need a corrupted store (a record that does not parse, an event
  under another intent's key) are left out; the ones the protocol itself could
  provoke are fates: `noresult` ("claim resolved without a result"), `unattested`
  (an executed resolution without its attestation), `heartbeat` ("evaluation lease
  heartbeat failed"), `leaselost`, `engineerror`.

`RowFailureNotMasked` is a statement about whole behaviours: in one in which no call is
inline, no success is ever bound over a row that failed.  Said of a state it would be
false, since the entry point of an earlier inline call is forgotten when its service is
called again, and its result stays.

Observations that are allowed by the code and by the promise: a rejection is checked
and then bound without an attestation (`eval_claims.py:522-524`), so it may be bound
although a later owner attested a completed result; a fan-in that loads or adopts a
resolution leaves the marker bound; a deferred call leaves its claim held until it
expires.

### PlatformDeferral

A handler reads the store, decides, and performs a series of durable writes.
`Deliver` runs the decision and plans the writes (`job.todo`), `Write` performs one,
`Complete` records the completion together with the successors (the ledger admits
each stage index once), and `Crash` may come between any two.  The store is `head`,
`bound` (Step Results by step), `deferred` (intents by step), `checkpoint` (the
adapter's answers), `resolved` and `member`; `heads` is a history variable.  A Step
Result is its request, what the adapter said ("plain", "defer", "stop") and whether
resolutions were merged into it.  A request is its step and, for GEPA, the stage
index that salts it.

Assumptions about the platform (external): one attempt at a time per member; an
unfinished stage is delivered again; a fan-in starts when all its rows are done;
completion and successors are recorded atomically; a fan-in that completed may be
delivered again.  A completed optim_step is not delivered again: neither the code nor
its documentation claims that to be safe.  Run completion runs once all stages are
done.

Abstractions: the evaluation of a row and the resolution of an intent are one write
each (resolutions are unique and stable by `CallersAgree`, so the fan-in's cached
resolution records need no state); a result found bound is compared by request; the
effect lease around the adapter is a checkpoint by request, so that a repeated
invocation returns the same answer; INLINE dispatch is an adapter that never defers;
"copro" stands for MIPROv2 too, whose fan-in takes the same branch.

### CodexStep

Three layers share the store.

- *The tool executor*, on each server thread: `exec[w]` is the execution in progress.
  `Dispatch` reads the call's entry, `Admit` is the admission transaction (replay,
  debit or refuse), `Obtain` / `ObtainTerminal` / `NotObtained` are the outcomes of
  acquiring the call's effect lease, then `Evaluate`, `Publish` (the lease is settled
  with the result) and `Complete` (the entry gets the settled result).  `Raise` is
  any exception on the way, a stale publication included.  `entries`, `consumed` and
  `effect` are durable.
- *The adapter*, once the agent has ended: join the server, read `accepted_count`,
  check and issue the reported calls one by one (`ReportCall`, `Reserve`, `Record`),
  compare, select; or reconcile (`_terminalize`): issue what completed, name what was
  interrupted.  `slots` and `terminals` are the ledger.
- *run_step*: acquire the adapter's effect, invoke, checkpoint, settle, read the
  evidence again, bind.  `lease` is the effect, `att` the executions of run_step.

The agent (`Serve`, `AgentEnds`) is arbitrary: any call from any thread at any time,
the same one repeatedly, any report up to a length, or none.

Abstractions, and why they are sound:

- The lease authority is external.  A lease that lapsed is a flag that rises at any
  moment while it is held.  A redrivable one is then taken over with a higher fence;
  one that is not goes to recovery when somebody next asks for it.  A publication on
  a lease that lapsed and was not taken over may succeed (`Publish`, `Settle`) or be
  stale (`Raise`, `SettleStale`).
- Capacity and budget are one constant, as `codex_tool_config` in
  `coordination/runtime_bootstrap.py` sets them.
- The only tool-using adapter is Codex, whose effect is NO_REDRIVE: it is invoked at
  most once for a request, so the ledger's replay of a durable prefix never happens.
  For the same reason only one attempt reserves slots, which are read in one step;
  the claim binding follows its slot and is part of it.
- A call is its call_id.  The server builds the arguments of every call, so the
  reconciliation's check that they have a template and a base always succeeds; a call
  with a base that is no candidate of the request is in `Foreign`.  The same id with
  other arguments raises at the store (`ToolCallStoreConflictError`) and changes
  nothing.
- What the agent selects is chosen when the adapter looks at it.  A request without a
  seed fails before the agent starts (`_request_base_ref_json`), so retaining the seed
  never raises.
- The join times out only on evaluations that are wedged, which may still end later,
  with a result or an exception.  A thread that stalls for the whole timeout inside
  one of the short store accesses of the executor is not considered.

### CallExecution

A worker is a process that executes calls, puts, reads and sweeps the cache and writes
the partial log; `work[w]` is where it stands and each action is one access to a file
or a lock.  `entry`, `pending`, `applied` and `stats` are the files of the cache, `log`
those of the partial log.  A publication is: write the pending journal, publish the
entry, note the publication in flight together with its counters, rename the journal,
clear the note, unlink the journal.  Whoever next holds the key's lock, or sweeps the
counters, finishes what a dead process left (`Reconcile`).  `Crash` is the death of a
process, or an operating system error it does not survive, at any access; its locks are
released.  `Damage` corrupts an entry on disk.

Abstractions: an entry is its publication and the class of its result; a read or a
replacement of a file is atomic (the code writes a temporary file and renames it); the
mode and ownership checks on private directories always pass.  What the transport may do
in an attempt is a constant; the classification and the retry rule are the code's.

An observation: an entry that is damaged while its pending journal exists makes every
operation on the key raise, where `_log_corrupt_entry` otherwise announces a "LOUD
MISS" and goes on: the journal's check of the entry comes first.

### Rollout

`fut` is the future of each row, `row` what its worker is doing, `out` what the driver
has collected.  The thread driver's loop is `Submit`, `Top`, `Collect`, and, once the
deadline has passed, a scan of the unfinished futures one by one (`ScanDone`,
`ScanCancel`), during which rows go on finishing.  The subprocess driver is `PoolSubmit`,
`PoolCompletion`, `PoolBreaks`.  A row runs its nodes (`LlmNode`, `EvalNode`), each of
which may fail, and is retried if `_row_is_retryable` says so.  `Persist` attributes,
aggregates and rewards the rows and writes the evidence; `Derived` and `Assembled` are
what validation, and assembly from row slices, derive from the same rows.

Abstractions: scores are scaled so that every mean is an integer; a node is one step;
sampling and traces are left out.

Observations.  A row that is running when the deadline fires is paid for and dropped
from the evidence.  A score of null makes the whole evaluation fail when its rows are
recorded (`eval/runtime_engine.py:823`).  With a reward policy that fails on missing
terms, rows evaluated one by one are rewarded one by one and may fail where the
evaluation of all of them would not (`eval/runtime_engine.py:430`), so `EvidenceRederives`
compares the two where every row alone completed.  The usage of a retried
row adds up its attempts although one of them may have been a cache hit
(`eval/drivers/graph_rollout.py:107`).

### Miprov2

One action is one step of the run: load the snapshot, fold the resolution of the last
step's intent, compare budgets, plan, have at most one effect, store the snapshot.  The
plan is a sequence of states, because planning stores intermediate ones and every one of
them is verified.  `Canonical` is `_verify_canonical_state`: it replays the bootstrap
events, the proposal's evidence and the study's transcript, and demands that effects,
draws, phase, pending work and winner are what the replay gives.  `Reason` says what a
step raises; a step that raises is stuck, since a retry loads the same records.

Abstractions: instructions, demos and prompts are counted, not written; the seeded
generator is the number of draws; Optuna suggests anything; the shuffle of a plan is a
cap.  The harness's crash behaviour is in `OptimRun`: a MIPROv2 step is durable as a
whole.

Stops that the code accepts, and `NothingRefused` does too: a budget that is used up, the
bootstrap's error limit, and a bootstrap evaluation in which some repeats failed, which
`resolve_bootstrap` refuses (`optim/miprov2/evidence.py:627`) and which ends the run without
a result.  With a minibatch as large as the validation set, sampled scores count as full
evaluations in the statistics and cannot win (`runtime.py:1475`): `WinnerHeadsRanking` says
what is left.

### OptimRun

Durable: the step's adapter checkpoint, the resolutions of its intents, the chain of Step
Results, the effects of GEPA with their requests, resolutions and results, the transcript,
the platform's stage, the run's result.  Everything else (the request, the search, what
the factory has collected) is lost by `Crash`, and `Drive` rebuilds it as the controller
does: from the chain.  The output of an invocation is validated (`OutputAccepted`),
checkpointed, its intents resolved one by one or parked for the platform, the result
validated (`StepResultValid`) and bound.  COPRO's invocation is one action, GEPA's one
action per effect, with the request recorded before, the service's resolution bound inside
and the result recorded after the evaluation.  A GEPA run without a metric budget is one terminal step that starts no search
(`GepaUnbudgeted`, `NoSearch`).  The result that a fan-in merges is a copy that is not
validated where it is made; the next stage validates it as it loads the work state, and
`FanInMerge` raises if it would not pass.

Abstractions: the gepa library is the loop that this code's adapter sees: evaluate the
seed, take a minibatch, reflect, evaluate the child, accept it if it is better, until the
budget is met.  A candidate is its text.  One process drives a run: what two would do to
each other is in `EvalClaims`, `CodexStep` and `PlatformDeferral`.

Observations.  A COPRO evaluation that fails or is rejected stops the run: the next request
cannot be built (`optim/copro/adapter.py:211`), and `RunEnds` allows for exactly that.  A
COPRO invocation that crashes before its checkpoint drafts again and pays again.  Two
processes that race for one reflection raise a conflict (`optim/gepa/contracts.py:823`)
instead of adopting the first result.

## Runs

| Run | Shows |
|---|---|
| `eval_inline` | two services, two calls each, two renewals per generation, two possible results, symmetric; 1.7 million states.  Stream well formed, generations fencing, resolution attested, callers agree, no internal error, takeover only after expiry, no evaluation after an attestation, and refinement of `EvalResolution` |
| `eval_live` | inline, platform and fan-in calls mixed, rows that are absent, all good, or mixed good/failed/rejected, fairness; 0.3 million states: failures are never masked, the deferred intent survives a crash, every call ends, an attested result is bound by the next caller |
| `platform_crash_anywhere` | up to five crashes at any write of any stage, mixed with two repeated fan-ins, both fan-in styles, three steps, two episodes a step, two rows: members wait for their own intents, final results survive |
| `platform_completes` | up to five crashes after the opening stage, or two repeated fan-ins: clean history, every retry succeeds, the chain reaches a terminal that can be assembled, no evaluation dropped, head monotone, the run completes |
| `codex_races` | two executions of run_step, two server threads, three calls (one invalid, one foreign), capacity one, redrivable tool leases; 0.9 million states: capacity dense, one answer per call, reconciliation never evaluates, no stranded lease |
| `codex_ledger` | capacity two, reports of up to two calls, tool leases that are not redriven, one thread, a crash, fairness; 0.7 million states: spend is accounted for, a complete step is total, a settled step is bound |
| `call_execution` | two processes, two keys, three operations, two attempts a call, two crashes, one damaged entry, symmetric: counters are exact, journals agree, a published call is not paid again, the log keeps what was returned.  Deadlock is checked: workers never wait for each other's locks |
| `rollout` | two tasks of two seeds, concurrency two, two attempts a row, both drivers, three policies, a deadline and a fault at any point: deadline rows are truthful, evidence derives again |
| `miprov2` | six controls (few-shot with labels and two bootstrap plans, grounded only, and zero-shot with four schedules), a generous and a tight budget, every response, score, failure and suggestion: nothing is refused, the schedule is kept, the winner heads the ranking |
| `optim_run` | COPRO of three rounds of two and GEPA of six metric calls and of none, each in process and on the platform, one crash and one failed evaluation anywhere, fairness; 0.7 million states: the winner is the best, spend is counted once, the run ends |
| `miprov2_rejection`, `gepa_reflections` | expected violations, see Findings |

Bounds.  Two owners give every race of the claim protocol (a takeover needs a loser
and a winner), and two calls let a service meet its own earlier claim; two renewals
let the heartbeat race the publication.  The proofs remove these bounds.  In
`PlatformDeferral` three steps give a first, a middle and a last; two episodes give a
replayed fan-in that is stale; five crashes let the same stage die several times in
different windows; adding steps only repeats the middle one.
In `CodexStep` two threads race for the last of the capacity with a third call left
to be refused; two fences give a takeover; two attempts give a driver that finds the
step busy, settled or blocked.  Capacity two lets a report be short, reordered,
repeated or complete.  Deadlock is not checked there: a bound step, and one that
needs recovery by hand, stop.
In `CallExecution` three operations are a publication, an operation that meets its
remains and one that meets the remains of that one's death; two crashes let the repair
die too.  In `Rollout` two tasks of two seeds make a task mean differ from the mean of all
rows and leave rows queued behind the two that run when the deadline passes; with one
fault every row policy meets a row it must place.  In `Miprov2` three trials with a cadence
of two have a promotion in the middle and one at the end, two trials with a cadence of one
promote every combination and meet the fallback, two seeds tell rows from tasks.  Deadlock
is not checked: a finished run, and one that raises, stop.  In `OptimRun` three rounds are
the one that measures the seed, one that only asks for more and the last; breadth two
allows a round of which a part is usable; the minibatch repeats its one instance, so that
a batch is not its set of tasks; six metric calls are the seed and one accepted
mutation, or a refused one and a second iteration that passes the budget; a budget of none is the
step without a search.

Fairness.  `EvalClaims`: weak fairness of each thread (the operating system schedules
it and an evaluation ends) and of expiry (the clock advances); nobody must call or
crash.  The number of renewals is bounded, which stands for evaluations that end: an
owner that renewed for ever would keep the others waiting, as in the code.
`PlatformDeferral`: weak fairness of the platform's progress (unfinished stages are
delivered again), with finitely many crashes and repeated deliveries.
`CodexStep`: weak fairness of each execution of run_step, which an unfinished step
gets again from its driver; the agent, the server's threads and the leases owe nothing.
`OptimRun`: weak fairness of the steps of the run: a process that died is driven again,
and the platform delivers a fan-in once its rows are done; nothing must crash or fail.

## Findings

1. `miprov2_rejection`.  `fold_resolution` (`optim/miprov2/adapter.py:127`) turns a
   REJECTED evaluation intent into a failed state, for which `invoke` has a terminal output
   with a code of its own.  It is never made: the harness debited the intent before
   resolving it, the terminalized state does not count it, and `_require_budget_agreement`,
   the statement before, raises.  The step contract raises too, so the run is left without
   a result and without a next step.
2. `gepa_reflections`.  On the platform, a GEPA step that reflects and then defers reports
   the reflection's usage on its placeholder Step Result, which the fan-in discards
   (`platform/eval_fanin.py:522`); resumed, the step finds the reflection recorded and does
   not report it.  The changelog says that "a platform GEPA run costs what the in-process
   one does".

### Defects of the opening stage and of mixed faults

`platform_completes` has two constants that keep three known defects of
`platform/step_executor.py` and `eval_fanin.py` out of the run.  To see them, change the
constant and check the property alone.

- `CrashFrom = 0`, `RetriesSucceed`.  The *opening* optim_step crashes after the head is
  parked and before the placeholder result is evicted.  The redrive resumes from the head
  and evicts only the intents (`step_executor.py:607`), so the placeholder stays bound; a
  later stage of the episode then conflicts with it on every attempt.  The unit test
  `test_platform_deferral_recovers_via_head_pointer_after_emit_crash` covers this window
  but stops before the fan-in.  With several crashes the placeholder can also enter the
  history, and its evaluations are then dropped (`NoEvaluationDropped`).
- `CrashFrom = 0`, `HeadOnlyAdvances`.  An opening step that ends the run and crashes after
  its head is bound is redriven with a state rebuilt at stage 0, which becomes the head: the
  watermark that "only ever increases" (`eval_fanin.py:448`) goes back.  The run still
  completes.
- `MixedFaults = TRUE`, `HistoryHasNoPlaceholder`.  A GEPA fan-in retried while the next
  episode's optim_step has bound its placeholder and intents and died evicts *that*
  episode's intents (`eval_fanin.py:543`).  The redriven optim_step takes the placeholder
  for a final result, and the run completes without the evaluations
  (`NoEvaluationDropped`).

## Proofs

`EvalClaimsProofs` proves, for every set of owners, evidence and rows and every bound
on calls and renewals, under the assumption that `None` is none of the values it
stands beside, the rows are tuples of row outcomes and the modes are the three there
are:

| Theorem | Establishes |
|---|---|
| `TypeCorrect` | `TypeOK` |
| `StreamAlwaysWellFormed` | no race makes a stream `_latest_claim` refuses |
| `GenerationsAreFencing` | no two services hold the same generation |
| `ResolutionIsAttested` | an executed resolution that is bound is the attested one |
| `AnswersAgree` | all callers hold the one resolution |
| `InternalErrorsUnreachable` | the defensive errors cannot be raised |
| `TakeoverNeedsExpiry` | a lease changes hands only after its last event expired |
| `ImplementsPromise` | `EvalClaims` implements `EvalResolution` |

The argument.  None of these is inductive: what a thread does next depends on what it
read earlier.  The inductive invariant `IInv` is

- `StreamInv`: the stream is well formed, generations never decrease along it and
  each has one owner, the first event attests nothing;
- `ResolvedIsAttested`;
- for each owner `LocalInv`: an event on its way to the store (`draft`, `hdraft`)
  *fits* the slot it was computed for - its predecessor is the event it was computed
  from, and if the slot is still free and it is a takeover, the lease is still
  expired; an executed result about to be bound is the attested one; an owned
  generation appears in the stream under that owner; and a call that found no owned
  claim has a resolution or an attestation to find.

Its preservation rests on two facts: the stream only grows and never past a terminal
event (`Grow`, `TerminalIsFinal`), so what the other owners rely on is stable
(`LocalStable`), and each step re-establishes its own owner's part, split into steps
that leave the store alone (`QuietLocalStep`), the bind of the resolution (`BindStep`)
and the binds of events (`AppendLocalStep`).  The refinement maps the attestation to
what the stream attests: publication is `Attest`, `_bind` and `_load` are `Answer`,
dropping an answer at the start of a call is `Ask`.

Its second part is about what a call does with what it finds:

| Theorem | Establishes |
|---|---|
| `NoEvaluationIsWasted` | no evaluation starts once a result is attested |
| `DeferralsAreKept` | the marker of a deferred intent goes only after its resolution is bound |
| `FailuresAreNotMasked` | without inline calls, no success is bound over a failed or rejected row |

A service that is about to evaluate has seen an unattested stream some steps ago, and
another may have attested since.  `UnattestedInv` says what it still knows: the event
that attests, if there is one, is not its own.  The check of the current claim just
before the evaluation then finds another owner, or no attestation.  `RowsInv` follows
a success backwards through every place it can be held: bound, attested, or in the
hands of a call.

`CallExecutionProofs` proves, for every set of workers and keys, every set of transport
outcomes and every bound on attempts, operations, crashes and damage, with `None`
distinct from everything it stands beside:

| Theorem | Establishes |
|---|---|
| `TypeCorrect` | `TypeOK` |
| `AccountingIsExact` | the counters are those of the publications that were counted |
| `AccountingIsReconcilable` | journals left behind agree with the entries they account for |
| `NoDoublePayment` | a key is paid for once, and once more for each answer that was lost |
| `RecordsSurvive` | the partial log keeps a record of every call that returned |

The counters alone are not inductive: a write of `stats.json` is right only if the file
has not changed since it was read (`LockInv`, by the stats lock), if the publication it
counts reached the disk and has a journal (`FileInv`, `InflightInv`), and if its id was
not given out before (`IdInv`).  `KeyInv` says what the holder of a key's lock knows of
the key's files at each point.  Payment needs the answers that were paid for and are on
their way to the cache (`InHand`, `PayInv`): there is one at most, since its holder has
the key's lock.

`CodexStepProofs` proves, for every set of attempts, threads and calls, every capacity,
every report of the agent and either kind of tool lease:

| Theorem | Establishes |
|---|---|
| `TypeCorrect` | `TypeOK` |
| `CapacityStaysDense` | debits are numbered 1, 2, ... and stop at the capacity |
| `AnswersAgree` | entry, effect and ledger hold the same answer to a call |
| `IssuingBuysNothing` | reconciliation evaluates nothing |
| `LeaseIsNotStranded` | an adapter lease is not left held by an attempt that has gone on |
| `SpendStaysAccounted` | what was admitted is on the ledger or named as interrupted |
| `CompleteStepsAreTotal` | a complete step's ledger is everything that was admitted |

The argument has one idea: once no agent can reach the server, nothing is admitted any
more (`QuietInv`).  So what the adapter counts when it has joined the server stays the
count (`TodoInv`), what it has issued and what is left to issue make up everything that
was admitted (`IssuedInv`), and the output it settles is the account of it (`Accounted`),
for good.  Lemmas about sequences without repetition carry the ledger; `InDebitOrder` is
shown to list every admitted call once.

`RolloutProofs` proves, for every number of tasks and seeds, every width, every set of
answers, scores and plans, and both drivers:

| Theorem | Establishes |
|---|---|
| `TypeCorrect` | `TypeOK` |
| `DeadlineRowsAreTruthful` | a row said not to be dispatched did not run, one said to have hit the deadline did, and one that finished in time keeps its result |
| `AssemblyAgreesAlways` | fan-in assembly and validation derive the same aggregate, values, reward and counts from the rows of a completed evaluation |
| `EvidenceAlwaysRederives` | the evidence passes the derivation repeated before it is bound (`EvidenceRederives`): its counts are those of the scored rows, and a value times its count is their sum |

The invariant says of each row what its future, its result and the driver's output have to
do with each other while the scan of the deadline overtakes rows in progress (`FutureInv`,
`OutputInv`, `PhaseInv`), and that the failure code of a row is attributed to the state the
row is in (`Attributable`), which makes the code-based and the flag-based selection of rows
agree.  The mean of the evidence needs an induction over the rows that are summed.  It is
one over a set of numbers (`NatSetInduction`, from the well-foundedness of the naturals), and
`SumsExist` uses it to show that a sum is the last of a sequence of partial sums; from there
`TotalsAgree` relates the sum over all rows to the sums over the tasks.

`PlatformDeferralProofs` proves, for every number of rows, steps and episodes, any number of
crashes at any write of any stage, the opening one included, and any number of repeated
fan-ins, in any mixture:

| Theorem | Establishes |
|---|---|
| `TypeCorrect` | `TypeOK` |
| `ParkedStaysOwn` | a parked member waits for the intents of its own pending result |
| `FinalResultsAreKept` | a final Step Result is never evicted or replaced |

Neither property says anything of the intents that are bound under a step_index, but both
depend on them: recovery parks a member on whatever placeholder and intents it finds there.
`DeferredInv` says whose they are.  Intents that are bound belong to the one stage that is
not done and not a row (`Sole`), they are those of the request that stage makes, and its
checkpoint answers that request with a deferral again; and where a result is bound beside
them it is their placeholder (`BoundInv`).  The opening stage needs more, since its state is
not its input but read from the store: until it is done the bound results are a prefix
without a stop but at its end (`OpeningInv`), which is what `Rebuilt` finds.  Of the writes
an attempt has left, `TodoInv` knows five kinds: it repeats the end of the run, it binds a
result that is not deferred and advances, it parks, it is redriven from its parked head, or
it is a fan-in.  A parking attempt is the only one that evicts a result, and what it evicts
is the placeholder it parks on; it evicts the intents last, so that when it completes none
are left (`CompleteEvicts`).  A fan-in evicts them before it binds the merged result.

`PlatformRecoveryProofs` proves that a run recovers, for every number of rows, steps,
episodes, crashes and repeated fan-ins:

| Theorem | Establishes | Faults |
|---|---|---|
| `EveryRetrySucceeds` | no attempt of an unfinished stage raises (`RetriesSucceed`) | any, after the opening stage |
| `ChainAlwaysReachesTerminal` | once every stage is done the run has ended and its result can be assembled (`ChainReachesTerminal`) | any, after the opening stage |
| `NoPlaceholderInHistory` | histories hold final results in step order (`HistoryHasNoPlaceholder`) | for GEPA crashes or repeated fan-ins, not both |
| `EveryEvaluationResolved` | no deferred evaluation is dropped (`NoEvaluationDropped`) | the same |
| `WatermarkOnlyAdvances` | no head is bound behind an earlier one (`HeadOnlyAdvances`) | the same |

The hypotheses are about the constants only.  `CrashFrom > 0` says that the opening stage
does not crash, and `CalmFaults` that faults are mixed only for the adapters that merge;
without either the properties are false (see Findings), so these are the weakest the code
allows.  They admit more than the run `platform_completes`: the first two theorems hold for
GEPA under mixed faults too, and all five do for COPRO and MIPROv2.  `NoneIsNoAttempt` says that
the value for "no attempt" is not the record of one; it quantifies over every record, which
TLC cannot enumerate, and is therefore a hypothesis of the theorems instead of an
assumption of `PlatformDeferral`.

The argument follows the one stage that is open, not a row and not done (`Open`).  `OpenInv`,
`AskingInv` and `FanningInv` say what its handler may find: the history of its input is what
is bound, nothing is bound after its step, and what is bound at its step is what the stage
itself would bind, so that a retry agrees with it.  Since a completion records the stage and
its successors together, a stage is open or the run has ended (`ChainInv`).  Of an
attempt, `AttemptInv` says that it is at write `n` of one of four plans, and what the writes
before `n` have left; each lemma `...Moves` takes it from `n` to `n + 1`, and a crash at `n`
needs nothing, because what holds of the store between two writes (`RecoveryInv`) does not
mention the attempt.  The fan-ins of GEPA need an order of heads: no head is of a later
episode than the open stage (`Behind`), by which a first delivery is never taken for a stale
one, and without mixed faults none is further than where the recorded answer of the open
stage leads (`Reached`).  A repeated fan-in of GEPA may set the head again; `QuietInv` says that
between attempts of a run without crashes the head is the latest there was and no intents are
deferred, so that it sets it to the same place and evicts nothing.  It is this that fails
when faults mix.

`OptimRunProofs` proves of the runs of COPRO and GEPA, in process and on the platform, for
every number of rounds and proposals, every validation set, minibatch and budget (none included), every
answer of the evaluation service and of the models, and any number of crashes and lost
evaluations:

| Theorem | Establishes |
|---|---|
| `SpendOnce` | every evaluation of a GEPA run is evidence of exactly one Step Result of the finished run, and no evaluation or reflection is on two |
| `ReplaysAgree` | a replayed search asks for the effects that are recorded, in their order |
| `WinnerAlwaysBest` | a completed run returns the best it measured (`WinnerIsBest`) |

Every step of a GEPA run starts its search from the seed again, with a larger budget, and is
answered from the store as far as that goes; a step that crashed or was deferred is another
such replay.  What makes them agree is that the budget decides nothing but where a search
stops.  `Trail(T)` says so: there is one sequence `T` of states, without their budgets
(`Unlimited`), and every search is at the state of its ordinal (`SearchInv`).  Each state of
`T` follows from the one before and the effect between them, so `T` is a witness that the
proof extends by one state with every slot that is taken, and the argument never needs an
induction over the effects.  `EvaluatedAlike` and `ReflectedAlike` are the
lemmas that two searches with different budgets stay alike.  The effects there are lie
within the budget of the last checkpoint (`Below`): a search of the next step is therefore
past every effect when it stops, has touched every evaluation, and its Step Result reports
those that the chain lacks (`OutputInv`), which are all when the run ends (`SettledInv`).
A failed reflection ends the run at the last effect, with the same consequence.  A run
without budget has no search and no effect (`BudgetInv`).  This proof uses of the constants
only that the batches have a length and, of each run, `GepaControl`.

The winner is argued for both optimizers over one notion, the set of the measurements made
(`Measurement`) and a choice that is the best of them (`Bests`); `BestIsWinner` shows that such
a choice is what `WinnerIsBest` says, once the final result is known to be the last Step Result of
the chain (`FinalInv`).  For COPRO the measurements are the resolutions on the chain.
`HistoryOfChain` shows that the attempts folded from the chain are these and no others,
`RankingRanks` that the ranking has the best attempt of each text, once, in descending order,
and `TerminalizeBest` that what is accepted from it, or the retained seed, is the best.
`CoproInv` carries this through checkpoints, parking and fan-ins: a draft never has the seed's
text, and an output that completes the run is the best of the chain it is appended to, which
it does not add a measurement to.  For GEPA the measurements are the recorded evaluations on
the validation set.  `PoolOf` says that the pool of a search has what the effects behind it
measured, no more and no less, whichever search first made them; a search that stops is past
every effect (by `Below` again), so the best of its pool is the best of all (`ChoiceInv`).
That the scores can be compared at all is part of the proof: a mean over rows, some of
which failed, is a number (`ScoreIsNumber`).

Two hypotheses are about the constants.  `Minibatch # Valset`: `Valued` tells a valuation from a
minibatch evaluation by its batch, and where the two batches are the same a child that was
refused on the minibatch would count as valued.  `NoneIsNoOutput`: the value for "no
checkpoint" is not a record with a status, which TLC cannot evaluate for a model value and is
therefore no assumption of `OptimRun`.  Sorting and filtering are written with `Ordering` instead of
`SortSeq` and `SelectSeq`, whose definitions the prover cannot use: the place of an element is the
number of those that come before it, and `InOrderSorts` shows, by induction over that number,
that this loses nothing, repeats nothing and keeps the order.

`Miprov2Proofs` proves of MIPROv2 runs, for every resolved control (any number of trials, any
cadence, with minibatches or without), every effect budget, every response, score, failure
and suggestion:

| Theorem | Establishes |
|---|---|
| `ScheduleAlwaysKept` | a completed study has run the schedule it announced (`ScheduleKept`) |
| `WinnerAlwaysHeadsRanking` | its winner has the best score of the ranking it reports (`WinnerHeadsRanking`) |
| `StudyInvariance` | as many evaluations are paid for as the transcript has scores, at every step |

The first half is about the pure study.  A promotion is due by a remainder of the trial number,
and trial numbers count the promotions; `Cadence` turns that round: when k trials are q whole
intervals and r trials more, there have been q promotions, and the next trial is promoted exactly
when it ends an interval or the study.  `ScheduleIsFull` then follows the transcript trial by trial to the number that
`adjusted_num_trials` gives.  `FullEvaluationsAre` and `BestFullEvaluationIs` say what
the two folds over the transcript compute.  Folds are recursive, and the library's induction
theorems cannot be used; `NatSetInduction` states induction for a set of numbers, from the
well-foundedness of `<`, and `FoldExists` that the recursive function a fold chooses exists.

The second half is the run.  `StudyInv` says of every snapshot that its paid evaluations are
the scores of its transcript (`Counted`), that a promotion is due for a sample that waits for one, and that
a state is complete only when its trials are done.  It is not inductive without what the driver
checks: a step that does not raise has found what it loaded and what it plans canonical, and a
canonical state's phase tells which evaluation its intent is for (`Phased`), so that the
fold of the next step adds the score to the right place.  Planning may pass several states,
and `Path` says that none of them touches the evidence.  The theorems use of the constants that
the control is one that `configure_miprov2` resolves.

Only model-checked: the liveness properties (`EveryCallEnds`, `AttestedGetsBound`,
`SettledIsBound`, `RunCompletes`, `RunEnds`), since fairness is outside the prover's reach;
and `NothingRefused` of `Miprov2`, that the driver never refuses its own state, which needs
the whole canonical replay (bootstrap, proposal, draws, effects) as invariant.

## Not modelled

Content hashing and the parts of record validation that compare a hash with its contents
(contents are compared as values); the command line, submission, deployment and bootstrap
(they build records before a run starts); sandbox and test support; prompt texts and their
parsing; sampling of tasks, traces and configuration layers, which are pure records; prices
and token arithmetic; process isolation and transcript parsing of the Codex runner.  The
external libraries `dr_store`, `dr_platform`, `dr_graph`, DSPy, GEPA and Optuna are
represented only by the parts of their contract stated above.  The issued-call ledger's
replay of a durable prefix is unreachable with the adapters there are.
