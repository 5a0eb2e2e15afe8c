------------------------------ MODULE OptimRun -------------------------------
(***************************************************************************)
(* One optimization run of COPRO or GEPA from launch to Optimization       *)
(* Result: the controller's drive loop (or the platform's sequence of      *)
(* stages), the harness's step, and the optimizer's invocation inside it.  *)
(*                                                                         *)
(* Durable: the adapter checkpoint of the step (ckpt), the resolutions of  *)
(* its intents, the chain of Step Results, the GEPA effect store and       *)
(* transcript, the platform stage and the Optimization Result.  The        *)
(* request, the output not yet persisted and the state of a search live in *)
(* the process and are lost by a crash; the next drive rebuilds the request*)
(* from the chain and goes on from what is durable.                        *)
(*                                                                         *)
(* The effect leases and claims that keep two processes apart are those of *)
(* CodexStep and EvalClaims, and the races of fan-in those of              *)
(* PlatformDeferral: here one process drives the run, and may crash.       *)
(***************************************************************************)
EXTENDS Copro, Gepa

CONSTANTS
    Runs,          \* runs launched: [key, platform, topK, calls]
    Drafts,        \* what a COPRO proposal call returns
    Reflections,   \* what a GEPA reflection returns
    Rewards,       \* rewards of a measured candidate
    Repeats,       \* scores of the repeats of one evaluated instance
    MaxCrashes,
    MaxFaults      \* bound on evaluations that end without a measurement

ASSUME OptimRunAssumption ==
    /\ \A launched \in Runs :
           /\ launched.key \in {"copro", "gepa"} /\ launched.topK \in Nat
           /\ launched.key = "gepa" => GepaControl(launched.calls)
    /\ \A result \in Reflections : ReflectionValid(result)
    /\ Rewards \subseteq Int /\ \A repeats \in Repeats : repeats \in Seq(Int \cup {None})
    /\ MaxCrashes \in Nat /\ MaxFaults \in Nat
    /\ None \notin Int /\ None # "evaluation"

VARIABLES
    run, pc, req, out, search, touched, usage,
    ckpt, resolved, results, effects, transcript, stage, final,
    raised,        \* why the process last raised, None if it never did
    paid,          \* reflections the provider billed
    crashes, faults

memory == <<req, out, search, touched, usage>>
durable == <<ckpt, resolved, results, effects, transcript, stage, final>>
vars == <<run, pc, memory, durable, raised, paid, crashes, faults>>

Terminal == TerminalContract(run.topK, FALSE)

\* resolved_max_metric_calls of a GEPA run
MaxMetricCalls == run.calls

-----------------------------------------------------------------------------
Init ==
    /\ run \in Runs
    /\ pc = "down"
    /\ req = None /\ out = None /\ search = None /\ touched = {} /\ usage = {}
    /\ ckpt = None /\ resolved = <<>> /\ results = <<>> /\ effects = <<>>
    /\ transcript = None /\ stage = 0 /\ final = None
    /\ raised = None /\ paid = {} /\ crashes = 0 /\ faults = 0

Forget == req' = None /\ out' = None /\ search' = None /\ touched' = {} /\ usage' = {}

\* An exception leaves drive or the stage; what was durable stays.
Raise(reason) ==
    /\ raised' = reason
    /\ pc' = "down"
    /\ Forget

-----------------------------------------------------------------------------
(* The controller.                                                         *)

\* StepRequestBuilder.build_first and build_next: the request for the step after a chain
RequestAfter(chain, request) ==
    CASE run.key = "copro" /\ chain = <<>> -> request = CoproFirst(Terminal)
      [] run.key = "copro" /\ chain # <<>> ->
             \E history \in {AttemptHistory(chain)} : request = CoproNext(chain, history, Terminal)
      [] run.key = "gepa" /\ chain = <<>> -> request = GepaFirst(Terminal, stage, MaxMetricCalls)
      [] run.key = "gepa" /\ chain # <<>> -> request = GepaNext(chain, Terminal, stage)

\* build_next folds the chain of a COPRO run, and raises on what it cannot fold.
Unmeasured(chain) == run.key = "copro" /\ ~Foldable(chain)

\* A step of the chain is answered by its bound result only when the request built for
\* it again is the request it was bound under.
Rebuilds(chain) ==
    \A i \in DOMAIN chain : RequestAfter(SubSeq(chain, 1, i - 1), chain[i].req)

\* The next turn of drive's loop over the chain: terminalize, or run the step.
Turn ==
    IF results # <<>> /\ Last(results).status # "continue"
    THEN pc' = "terminalize" /\ Forget /\ raised' = raised
    ELSE IF Unmeasured(results) THEN Raise("unmeasured")
    ELSE /\ RequestAfter(results, req')
         /\ out' = ckpt
         /\ pc' = IF ckpt = None THEN "invoke" ELSE "resolve"
         /\ search' = None /\ touched' = {} /\ usage' = {}
         /\ raised' = raised

\* drive, or the next stage of the platform, which goes on from its work state
Drive ==
    /\ pc = "down" /\ final = None /\ raised = None
    /\ IF run.platform \/ Rebuilds(results)
       THEN Turn
       ELSE Raise("conflict")
    /\ UNCHANGED <<run, durable, paid, crashes, faults>>

Advance ==
    /\ pc = "next"
    /\ Turn
    /\ UNCHANGED <<run, durable, paid, crashes, faults>>

\* OptimHarness.terminalize
TerminalizeRun ==
    /\ pc = "terminalize"
    /\ LET last == Last(results)
       IN  IF OptimResultValid(results, Terminal, last.accepted)
           THEN /\ final' = [status |-> last.status, accepted |-> last.accepted, seed |-> last.seedRetained]
                /\ pc' = "down" /\ raised' = raised /\ Forget
           ELSE Raise("terminal") /\ final' = final
    /\ UNCHANGED <<run, ckpt, resolved, results, effects, transcript, stage, paid, crashes, faults>>

-----------------------------------------------------------------------------
(* A step: OptimHarness.run_step around the invocation.                    *)

\* _invoke_and_persist_adapter: a valid output is the step's checkpoint.
Checkpoint ==
    /\ pc = "emit"
    /\ IF OutputAccepted(run.key, req, Terminal, out)
       THEN ckpt' = out /\ pc' = "resolve" /\ UNCHANGED <<raised, memory>>
       ELSE Raise("output") /\ ckpt' = ckpt
    /\ UNCHANGED <<run, resolved, results, effects, transcript, stage, final, paid, crashes, faults>>

\* What an evaluation of an intent's candidate may resolve to
Resolution(intent, reward) ==
    [id |-> intent.id, step |-> intent.step, cand |-> intent.cand,
     failure |-> IF reward = None THEN "evaluation" ELSE None, reward |-> reward]

Lost(outcomes) == Cardinality({i \in DOMAIN outcomes : outcomes[i] = None})

\* _resolve_one_intent, in order; a resolution is durable by its effect lease.
ResolveIntent(reward) ==
    /\ pc = "resolve" /\ ~run.platform /\ Len(resolved) < Len(out.intents)
    /\ faults' = faults + (IF reward = None THEN 1 ELSE 0) /\ faults' <= MaxFaults
    /\ resolved' = Append(resolved, Resolution(out.intents[Len(resolved) + 1], reward))
    /\ UNCHANGED <<run, pc, memory, ckpt, results, effects, transcript, stage, final, raised, paid, crashes>>

StepResult(resolutions) ==
    [req |-> req, status |-> out.status, accepted |-> out.accepted, seedRetained |-> out.seedRetained,
     resolutions |-> resolutions, evidence |-> out.evidence, usage |-> out.usage, state |-> out.state,
     budget |-> req.budget - out.delta]

\* The result of a step is put and bound.
BindResult ==
    /\ pc = "resolve"
    /\ out.intents = <<>> \/ (~run.platform /\ Len(resolved) = Len(out.intents))
    /\ IF StepResultValid(req, Terminal, out, resolved)
       THEN /\ results' = Append(results, StepResult(resolved))
            /\ ckpt' = None /\ resolved' = <<>>
            /\ pc' = "next" /\ raised' = raised /\ Forget
       ELSE Raise("result") /\ UNCHANGED <<results, ckpt, resolved>>
    /\ UNCHANGED <<run, effects, transcript, stage, final, paid, crashes, faults>>

\* On the platform the intents of a step are deferred: the step leaves a pending result
\* without resolutions and the stage ends.
Park ==
    /\ pc = "resolve" /\ run.platform /\ out.intents # <<>>
    /\ IF StepResultValid(req, Terminal, out, <<>>)
       THEN pc' = "parked" /\ UNCHANGED <<raised, memory>>
       ELSE Raise("result")
    /\ UNCHANGED <<run, durable, paid, crashes, faults>>

\* _finalize_deferred_step: the pending result takes its resolutions and joins the chain.
\* The copy is not validated where it is made (model_copy), but by the stage it is handed
\* to, which loads the chain from the work state and raises on what is not valid.
FanInMerge(rewards) ==
    /\ pc = "parked" /\ run.key = "copro" /\ Len(rewards) = Len(out.intents)
    /\ faults' = faults + Lost(rewards) /\ faults' <= MaxFaults
    /\ LET resolutions == [i \in DOMAIN rewards |-> Resolution(out.intents[i], rewards[i])]
       IN  /\ results' = Append(results, StepResult(resolutions))
           /\ raised' = IF StepResultValid(req, Terminal, out, resolutions) THEN raised ELSE "result"
    /\ ckpt' = None /\ stage' = stage + 1 /\ pc' = "down" /\ Forget
    /\ UNCHANGED <<run, resolved, effects, transcript, final, paid, crashes>>

\* A process dies; a parked run has none.
Crash ==
    /\ pc \notin {"down", "parked"} /\ crashes < MaxCrashes
    /\ crashes' = crashes + 1
    /\ pc' = "down" /\ Forget
    /\ UNCHANGED <<run, durable, raised, paid, faults>>

-----------------------------------------------------------------------------
(* The invocation of COPRO.                                                *)

\* What a transport of the proposer may return.  The transports of the repository fill every
\* slot; the ProposerTransport protocol promises no number, and CoproAdapter.invoke handles
\* fewer drafts than asked for and more.
DraftBatches(count) == UNION {[1 .. n -> Drafts] : n \in 0 .. count + 1}

CoproInvoke ==
    /\ pc = "invoke" /\ run.key = "copro"
    /\ \E required \in {AcceptedCountFor(req.contract, "complete")},
          plan \in {PlanRound(req.round, req.history)}, ranked \in {RankAttemptHistory(req.history)} :
           CASE RequestRefused(req) -> Raise("request")
             [] ~RequestRefused(req) /\ IsFinalizing(req) ->
                    /\ out' = Finalize(ranked, required)
                    /\ pc' = "emit" /\ UNCHANGED <<req, search, touched, usage, raised>>
             [] OTHER ->
                    /\ \E drafts \in DraftBatches(plan.count) : out' = Draw(req, plan, ranked, required, drafts)
                    /\ pc' = "emit" /\ UNCHANGED <<req, search, touched, usage, raised>>
    /\ UNCHANGED <<run, durable, paid, crashes, faults>>

-----------------------------------------------------------------------------
(* The invocation of GEPA.                                                 *)

\* What invoke refuses of a request
Refused == req.round # req.index \/ Exhausted(req.checkpoint, MaxMetricCalls)

\* begin_step and create; run_one_gepa_iteration up to optimize
GepaBegin ==
    /\ pc = "invoke" /\ run.key = "gepa" /\ (MaxMetricCalls # 0 \/ Refused)
    /\ IF Refused THEN Raise("exhausted")
       ELSE /\ search' = NewSearch(NextBudget(req.checkpoint, MaxMetricCalls))
            /\ pc' = "search" /\ UNCHANGED <<req, out, touched, usage, raised>>
    /\ UNCHANGED <<run, durable, paid, crashes, faults>>

Request == NextEffect(search)
Entry == effects[Request.ordinal + 1]
Answer == Entry.result[1]
Effect(kind) == pc = "effect" /\ Request.kind = kind

\* record_request takes the slot of the next effect, or raises when it is bound to
\* another request.
RecordRequest ==
    /\ pc = "search" /\ search.at # "stop"
    /\ IF SlotConflict(effects, Request) THEN Raise("effect") /\ effects' = effects
       ELSE effects' = Slotted(effects, Request) /\ pc' = "effect" /\ UNCHANGED <<memory, raised>>
    /\ UNCHANGED <<run, ckpt, resolved, results, transcript, stage, final, paid, crashes, faults>>

Touch(result, replayed) ==
    touched' = touched \cup {[id |-> Request.ordinal, step |-> result.resolution.step, text |-> Request.text,
                              batch |-> Request.batch, replayed |-> replayed]}

\* The broker answers from the effect store; collect_replayed.
EvaluateReplayed ==
    /\ Effect("evaluate") /\ Recorded(effects, Request)
    /\ Touch(Answer, TRUE)
    /\ search' = Evaluated(search, Request, Answer)
    /\ pc' = "search"
    /\ UNCHANGED <<run, req, out, usage, durable, raised, paid, crashes, faults>>

\* What the evaluation service may resolve for a request; None for a repeat that was lost
Resolutions(request, step) ==
    {[outcome |-> "completed", step |-> step, repeats |-> rs] :
        rs \in [DOMAIN UniqueBatch(request.batch) -> Repeats]}
    \cup {[outcome |-> "failed", step |-> step, repeats |-> <<>>]}

Fault(resolution) == IF resolution.outcome = "failed" THEN 1 ELSE 0

\* The service evaluates and binds its resolution before the effect is recorded.
EvaluateFresh(resolution) ==
    /\ Effect("evaluate") /\ ~run.platform /\ Entry.resolution = None
    /\ faults' = faults + Fault(resolution) /\ faults' <= MaxFaults
    /\ effects' = [effects EXCEPT ![Request.ordinal + 1].resolution = resolution]
    /\ UNCHANGED <<run, pc, memory, ckpt, resolved, results, transcript, stage, final, raised, paid, crashes>>

\* record_evaluation_result, for what the service resolved now or before a crash
EvaluateRecord ==
    /\ Effect("evaluate") /\ Entry.resolution # None /\ ~Recorded(effects, Request)
    /\ LET result == EvaluationResult(Request, Entry.resolution)
       IN  IF RowsValid(Request, result)
           THEN /\ effects' = Record(effects, Request, result)
                /\ Touch(result, FALSE)
                /\ search' = Evaluated(search, Request, result)
                /\ pc' = "search" /\ UNCHANGED <<req, out, usage, raised>>
           ELSE Raise("rows") /\ effects' = effects
    /\ UNCHANGED <<run, ckpt, resolved, results, transcript, stage, final, paid, crashes, faults>>

\* What invoke returns; search_evidence may raise.
Emit(output, reported) ==
    IF EvidenceRefused(results, req, touched) THEN Raise("evidence")
    ELSE /\ out' = Spent(output, results, req, touched, reported)
         /\ pc' = "emit" /\ search' = None /\ touched' = {} /\ usage' = {}
         /\ UNCHANGED <<req, raised>>

\* On the platform the service persists the intent and raises EvalPlatformDeferred.
EvaluateDeferred ==
    /\ Effect("evaluate") /\ run.platform /\ Entry.resolution = None
    /\ Emit(DeferredOutput(req, [id |-> <<req.index, Request.ordinal>>, step |-> req.index,
                                 cand |-> Assembled(Request.text)]), usage)
    /\ UNCHANGED <<run, durable, paid, crashes, faults>>

\* The slot of the effect a parked search waits for
Deferred == out.intents[1].id[2] + 1

\* _finalize_deferred_step for GEPA: the resolution is bound, the pending result is
\* dropped and the same step resumes in a new stage.
FanInResume(resolution) ==
    /\ effects' = [effects EXCEPT ![Deferred].resolution = resolution]
    /\ faults' = faults + Fault(resolution) /\ faults' <= MaxFaults
    /\ ckpt' = None /\ stage' = stage + 1 /\ pc' = "down" /\ Forget
    /\ UNCHANGED <<run, resolved, results, transcript, final, raised, paid, crashes>>

\* _propose_one_component with a recorded result; a failed one raises again.
ProposeReplayed ==
    /\ Effect("propose") /\ Recorded(effects, Request)
    /\ IF Answer.failed THEN Emit(ReflectionFailureOutput(search), usage)
       ELSE /\ search' = Reflected(search, Answer)
            /\ pc' = "search" /\ UNCHANGED <<req, out, touched, usage, raised>>
    /\ UNCHANGED <<run, durable, paid, crashes, faults>>

\* The proposal authority calls the provider and the broker records what it returned.
ProposeFresh(result) ==
    /\ Effect("propose") /\ ~Recorded(effects, Request)
    /\ effects' = Record(effects, Request, result)
    /\ paid' = paid \cup ProposalCallUsage(Request, result)
    /\ LET reported == usage \cup ProposalCallUsage(Request, result)
       IN  IF result.failed THEN Emit(ReflectionFailureOutput(search), reported)
           ELSE /\ usage' = reported
                /\ search' = Reflected(search, result)
                /\ pc' = "search" /\ UNCHANGED <<req, out, touched, raised>>
    /\ UNCHANGED <<run, ckpt, resolved, results, transcript, stage, final, crashes, faults>>

\* invoke, with what the search left; a terminal step persists its transcript.
Report(s) ==
    LET output == SearchedOutput(req, s, MaxMetricCalls)
        built == BuildTranscript(effects, s)
    IN  CASE output.status = "complete" /\ (built = None \/ transcript \notin {None, built}) ->
                 Raise("transcript") /\ transcript' = transcript
          [] output.status = "complete" /\ built # None /\ transcript \in {None, built} ->
                 Emit(output, usage) /\ transcript' = built
          [] OTHER -> Emit(output, usage) /\ transcript' = transcript

\* optimize returned.
SearchEnds ==
    /\ pc = "search" /\ search.at = "stop"
    /\ Report(search)
    /\ UNCHANGED <<run, ckpt, resolved, results, effects, stage, final, paid, crashes, faults>>

\* run_one_gepa_iteration without a budget: optimize is not called.
GepaUnbudgeted ==
    /\ pc = "invoke" /\ run.key = "gepa" /\ MaxMetricCalls = 0 /\ ~Refused
    /\ Report(NoSearch)
    /\ UNCHANGED <<run, ckpt, resolved, results, effects, stage, final, paid, crashes, faults>>

-----------------------------------------------------------------------------
(* What the run cost, read from its chain.                                 *)

\* _evidence_refs
EvidenceRefs(result) ==
    {e.id : e \in result.evidence} \cup {r.id : r \in ToSet(result.resolutions)}

\* aggregate_run_cost: a call or an evaluation counts once however often it is reported
RunCost ==
    [evaluations |-> UNION {EvidenceRefs(results[i]) : i \in DOMAIN results},
     calls |-> UNION {results[i].usage : i \in DOMAIN results}]

-----------------------------------------------------------------------------
\* Nothing is left to do: the run has its result, or every drive raises the same.
Stopped == (final # None \/ raised # None) /\ pc = "down" /\ UNCHANGED vars

Controller == Drive \/ Advance \/ TerminalizeRun

RunStep ==
    \/ Checkpoint \/ BindResult \/ Park
    \/ \E reward \in Rewards \cup {None} : ResolveIntent(reward)
    \/ \E rewards \in UNION {[1 .. n -> Rewards \cup {None}] : n \in 1 .. Breadth} : FanInMerge(rewards)
    \/ /\ pc = "parked" /\ run.key = "gepa"
       /\ \E resolution \in Resolutions(effects[Deferred].request, req.index) : FanInResume(resolution)

Invoke ==
    \/ CoproInvoke
    \/ GepaBegin \/ RecordRequest \/ EvaluateReplayed \/ EvaluateRecord \/ EvaluateDeferred
    \/ /\ Effect("evaluate")
       /\ \E resolution \in Resolutions(Request, req.index) : EvaluateFresh(resolution)
    \/ ProposeReplayed
    \/ \E result \in Reflections : ProposeFresh(result)
    \/ SearchEnds \/ GepaUnbudgeted

Step == Controller \/ RunStep \/ Invoke

Next == Step \/ Crash \/ Stopped

\* The process is driven again after a crash, and the platform delivers its fan-ins.
Spec == Init /\ [][Next]_vars /\ WF_vars(Step)

-----------------------------------------------------------------------------
(* Properties.                                                             *)

\* What a COPRO run measured of a text, over every round
Measured(text) ==
    {r.reward : r \in {x \in UNION {ToSet(results[i].resolutions) : i \in DOMAIN results} : x.cand.text = text}}

\* What a GEPA search measured of a text on the whole validation set
Valued(text) ==
    LET valued == {n \in DOMAIN effects : /\ effects[n].request.kind = "evaluate"
                                          /\ effects[n].request.batch = Valset
                                          /\ effects[n].request.text = text}
    IN  {BatchScore(Valset, effects[n].result[1].rows) : n \in valued}

Scores(text) == IF run.key = "copro" THEN Measured(text) ELSE Valued(text)

\* No score of the second text is above the best of the first.
AtLeast(text, other) == \A y \in Scores(other) : \E x \in Scores(text) : x >= y

AllTexts ==
    {Seed} \cup {d.text : d \in Drafts} \cup {r.text : r \in Reflections}

\* A completed run returns the best it measured: a retained seed is beaten by nothing
\* that was measured; otherwise the proposals are distinct, none of them was outscored by
\* a text left out, and the first is at least as good as the seed.  COPRO chooses from
\* the folded history of all its rounds (rank_attempt_history), GEPA from the search it
\* replayed last.
WinnerIsBest ==
    final # None /\ final.status = "complete" =>
        LET chosen == {c.text : c \in ToSet(final.accepted)}
        IN  IF final.seed THEN \A t \in AllTexts : AtLeast(Seed, t)
            ELSE /\ Cardinality(chosen) = run.topK
                 /\ \A c \in chosen, t \in AllTexts \ (chosen \cup {Seed}) : AtLeast(c, t)
                 /\ final.accepted # <<>> => AtLeast(final.accepted[1].text, Seed)

\* The evaluations a GEPA run paid for
Evaluations == {n - 1 : n \in {k \in DOMAIN effects : effects[k].request.kind = "evaluate"}}

Reporting(id) == {i \in DOMAIN results : \E e \in results[i].evidence : e.id = id}
Billing(call) == {i \in DOMAIN results : call \in results[i].usage}

\* The spend of a GEPA run is on its chain once: every evaluation is evidence of exactly
\* one Step Result of the finished run, whichever steps replayed it, crashed after it or
\* were deferred by it, and no evaluation or reflection is on two.  Run cost is summed
\* over the chain (search_evidence, proposer_usage, aggregate_run_cost).
SpendCountedOnce ==
    run.key = "gepa" =>
        /\ \A id \in Evaluations :
               /\ Cardinality(Reporting(id)) <= 1
               /\ final # None => id \in RunCost.evaluations
        /\ \A call \in paid : Cardinality(Billing(call)) <= 1

\* Every run ends in an Optimization Result, except a COPRO run one of whose evaluations
\* was not measured, whose history from_resolution refuses to fold.  So no output, Step
\* Result, rebuilt request, effect slot, transcript or terminal chain is ever refused by
\* the validations it meets, with partial and overfilled COPRO rounds, padded GEPA
\* batches, rejected reflections, lost evaluations, deferrals and crashes; and the budget
\* each GEPA step gives its search takes it beyond where the last step ended.
RunEnds == <>(final # None \/ raised = "unmeasured")

\* Every reflection that was billed is on a Step Result of the finished run: "a platform
\* GEPA run costs what the in-process one does" (CHANGELOG.md).  A deferral drops its
\* pending result, and the resumed step finds the reflection recorded and skips it.
ReflectionSpendRecorded ==
    final # None => paid \subseteq RunCost.calls
=============================================================================
