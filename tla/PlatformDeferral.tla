-------------------------- MODULE PlatformDeferral --------------------------
(***************************************************************************)
(* One member of an optimization run driven by the stage pipeline          *)
(*   optim_step -> eval_row* -> eval_fanin -> optim_step -> ...            *)
(* platform/step_executor.py, platform/eval_fanin.py and the bindings they *)
(* keep: work_state_head.py, deferred_intents.py, the Step Result bindings *)
(* of optim/run_store.py and the run member's terminal binding.            *)
(*                                                                         *)
(* A stage handler reads the store, decides, and then performs a series of *)
(* durable writes.  The handler's decision is one action that plans the    *)
(* writes (`todo`); every write is a step, and the process may die between *)
(* any two of them.  A stage whose completion was not recorded is run      *)
(* again from its input; a completed fan-in may be delivered once more.     *)
(* One attempt at a time runs for a member.                                *)
(***************************************************************************)
EXTENDS Naturals, Sequences, FiniteSets

CONSTANTS
    Adapters,        \* "gepa" and "copro" (which stands for MIPROv2 too)
    Rows,            \* eval rows of one deferral episode
    MaxSteps,        \* bound: step_index < MaxSteps
    MaxEpisodes,     \* bound: deferral episodes per step
    OpeningStops,    \* the step run by stage 0 may already end the run
    MaxCrashes,      \* bound on crashes
    MaxReplays,      \* bound on fan-ins delivered again
    CrashFrom,       \* first stage_index whose attempts may crash
    MixedFaults,     \* crashes and repeated fan-ins in one behaviour
    None

Steps == 0 .. MaxSteps

\* A Step Request; GEPA salts it with the stage index.  The intents a request
\* defers are named by the request.
Request == [step : Steps, salt : Nat]

\* "plain" continues, "defer" continues once its intents are resolved.
Output == {"plain", "defer", "stop"}

\* A Step Result; resolved says resolved_intents is not empty.
Result == [req : Request, out : Output, resolved : BOOLEAN]

\* OptimWorkState: step is the length of the history refs; pend, origin and
\* intents are those of the episode the member is parked on, if any.
WorkState ==
    {s \in [stage : Nat, step : Steps, refs : Seq(Result), terminal : BOOLEAN,
            pend : Result \cup {None}, origin : Nat \cup {None},
            intents : Request \cup {None}] :
        /\ Len(s.refs) = s.step
        /\ s.pend = None <=> s.origin = None
        /\ s.pend = None <=> s.intents = None}

ASSUME ConstantsAssumption ==
    /\ Adapters \subseteq {"gepa", "copro"}
    /\ OpeningStops \in BOOLEAN
    /\ Rows \in Nat \ {0}
    /\ MaxSteps \in Nat \ {0}
    /\ MaxEpisodes \in Nat
    /\ MaxCrashes \in Nat
    /\ MaxReplays \in Nat
    /\ CrashFrom \in Nat
    /\ MixedFaults \in BOOLEAN
    /\ None \notin Request /\ None \notin Result /\ None \notin WorkState /\ None \notin Nat

\* A stage execution of the platform's ledger; an optim_step's input is a work
\* state, or None for the work input the run was submitted with.
Stage == [kind : {"optim_step", "eval_row", "eval_fanin"},
          input : WorkState \cup {None}, done : BOOLEAN]

Op == {"evictHead", "bindHead", "evictResult", "bindResult", "evictIntents",
       "bindIntents", "checkpoint", "resolve", "bindMember"}

VARIABLES
    adapter,     \* the adapter of the run, fixed by its launch
    head,        \* the work state bound as the member's head, or None
    heads,       \* history: every work state that has been the head
    bound,       \* Step Result bound at each step_index, or None
    deferred,    \* intents persisted at each step_index, or None
    checkpoint,  \* adapter outputs checkpointed by request
    resolved,    \* requests whose intents have a bound resolution
    member,      \* the run member's terminal work state, or None
    ledger,      \* stage executions by stage_index
    job,         \* the running attempt, or None
    raised,      \* unfinished stages of which an attempt raised
    completed,   \* run completion: "no", "yes", or it "raised"
    crashes, replays

SameStepResume == adapter = "gepa"   \* its fan-in resumes the same step_index

store == <<head, heads, bound, deferred, checkpoint, resolved, member>>
environment == <<crashes, replays>>
vars == <<adapter, store, ledger, job, raised, completed, environment>>

TypeOK ==
    /\ adapter \in Adapters
    /\ head \in WorkState \cup {None}
    /\ heads \subseteq WorkState
    /\ bound \in [Steps -> Result \cup {None}]
    /\ deferred \in [Steps -> Request \cup {None}]
    /\ DOMAIN checkpoint \subseteq Request
    /\ \A r \in DOMAIN checkpoint : checkpoint[r] \in Output
    /\ resolved \subseteq Request
    /\ member \in WorkState \cup {None}
    /\ DOMAIN ledger \subseteq Nat
    /\ \A i \in DOMAIN ledger : ledger[i] \in Stage
    /\ job # None => job.idx \in DOMAIN ledger
    /\ raised \subseteq DOMAIN ledger
    /\ completed \in {"no", "yes", "raised"}
    /\ crashes \in 0 .. MaxCrashes
    /\ replays \in 0 .. MaxReplays

Init ==
    /\ adapter \in Adapters
    /\ head = None
    /\ heads = {}
    /\ bound = [k \in Steps |-> None]
    /\ deferred = [k \in Steps |-> None]
    /\ checkpoint = << >>
    /\ resolved = {}
    /\ member = None
    /\ ledger = [i \in {0} |-> [kind |-> "optim_step", input |-> None, done |-> FALSE]]
    /\ job = None
    /\ raised = {}
    /\ completed = "no"
    /\ crashes = 0
    /\ replays = 0

---------------------------------------------------------------------------
(* Work states.                                                            *)

Settled(stage, step, refs, terminal) ==
    [stage |-> stage, step |-> step, refs |-> refs, terminal |-> terminal,
     pend |-> None, origin |-> None, intents |-> None]

\* The state parked on the fan-in barrier of the episode opened at stage cur.
Parked(cur, step, refs, res, intents) ==
    [stage |-> cur + Rows + 1, step |-> step, refs |-> SubSeq(refs, 1, step),
     terminal |-> FALSE, pend |-> res, origin |-> cur, intents |-> intents]

\* _accept_work_state_head, for the work input of stage 0.
AcceptHead == head # None /\ (head.pend # None \/ head.stage = 0)

\* Rebuild the state from the Step Result bindings, up to a hole or a stop.
Rebuilt ==
    LET count == CHOOSE k \in Steps :
                    /\ \A j \in 0 .. k - 1 : bound[j] # None
                    /\ \A j \in 0 .. k - 2 : bound[j].out # "stop"
                    /\ \/ bound[k] = None
                       \/ k > 0 /\ bound[k - 1].out = "stop"
    IN  Settled(0, count, [k \in 1 .. count |-> bound[k - 1]],
                count > 0 /\ bound[count - 1].out = "stop")

\* _load_work_state
LoadWorkState(input) ==
    IF input # None THEN input
    ELSE IF AcceptHead THEN head
    ELSE Rebuilt

\* The stage index execute_optim_step_sync expects to run at.
ExpectedStage(st) == IF st.pend # None THEN st.origin ELSE st.stage

Unresolved(res) == res # None /\ res.out # "stop" /\ ~res.resolved

\* Mutant: any continuing result without resolutions counts as a deferral.
UnresolvedDeferralsByResult(st) ==
    {k \in {st.step} \cup ({st.step - 1} \cap Nat) : Unresolved(bound[k])}

\* _bound_unresolved_deferral_step_index: step_index first, then the one before.
UnresolvedDeferrals(st) ==
    {k \in {st.step} \cup ({st.step - 1} \cap Nat) :
        Unresolved(bound[k]) /\ deferred[k] # None}

RecoveryStep(st) ==
    IF st.step \in UnresolvedDeferrals(st) THEN st.step ELSE st.step - 1

---------------------------------------------------------------------------
(* Plans: the durable writes of a handler, and the successors it returns.  *)

\* _persist_work_state: put, which no handler notices, and evict the old head,
\* then bind the new one (bind_work_state_head).
Persist(s) == << [op |-> "evictHead"], [op |-> "bindHead", to |-> s] >>

\* Mutants: a write is forgotten.
EvictIntentsForgotten(k) == << >>
EvictResultForgotten(k) == << >>
BindMemberForgotten(s) == << >>

EvictIntents(k) == << [op |-> "evictIntents", step |-> k] >>
BindIntents(k, r) == << [op |-> "bindIntents", step |-> k, to |-> r] >>
EvictResult(k) == << [op |-> "evictResult", step |-> k] >>
BindResult(k, res) == << [op |-> "bindResult", step |-> k, to |-> res] >>
BindMember(s) == << [op |-> "bindMember", to |-> s] >>

\* _emit_deferred_successors: the rows, then the fan-in barrier.
FanOut(p) ==
    [i \in p.origin + 1 .. p.stage |->
        [kind |-> IF i < p.stage THEN "eval_row" ELSE "eval_fanin",
         input |-> IF i < p.stage THEN None ELSE p,
         done |-> FALSE]]

NextStep(s) ==
    [i \in {s.stage} |-> [kind |-> "optim_step", input |-> s, done |-> FALSE]]

Run(i, todo, successors) ==
    /\ job' = [idx |-> i, todo |-> todo, successors |-> successors]
    /\ UNCHANGED raised

\* The attempt raises.  It matters only if the stage was still to be done.
Raise(i) ==
    /\ job' = None
    /\ raised' = IF ledger[i].done THEN raised ELSE raised \cup {i}

---------------------------------------------------------------------------
(* execute_optim_step_sync                                                 *)

StepTerminal(i, st) ==
    /\ st.terminal
    /\ Run(i, Persist(st) \o BindMember(st), << >>)

\* _platform_deferred_resume
StepResume(i, st) ==
    /\ ~st.terminal /\ st.pend # None
    /\ Run(i, Persist(st) \o EvictIntents(st.step), FanOut(st))

\* Mutant: the intents go before the placeholder result.
DeferEvictsIntentsFirst(i, todo, step, refs, res, intents) ==
    LET p == Parked(i, step, refs, res, intents)
    IN  Run(i, todo \o BindIntents(step, intents) \o Persist(p)
                    \o EvictIntents(step) \o EvictResult(step), FanOut(p))

\* Park the member on an episode of intents `intents`, the pending result res.
Defer(i, todo, step, refs, res, intents) ==
    LET p == Parked(i, step, refs, res, intents)
    IN  Run(i, todo \o BindIntents(step, intents) \o Persist(p)
                    \o EvictResult(step) \o EvictIntents(step), FanOut(p))

\* _recover_crash_window_deferral
StepRecover(i, st) ==
    /\ ~st.terminal /\ st.pend = None
    /\ UnresolvedDeferrals(st) # {}
    /\ LET k == RecoveryStep(st)
       IN  Defer(i, << >>, k, st.refs, bound[k], deferred[k])

RequestOf(i, st) == [step |-> st.step, salt |-> IF SameStepResume THEN i ELSE 0]

Deferrals(step) == {r \in DOMAIN checkpoint : r.step = step /\ checkpoint[r] = "defer"}

\* What the adapter may answer, unless its answer is checkpointed already.
Answers(i, req) ==
    LET last == req.step + 1 = MaxSteps
        fresh(out) ==
            /\ out # "stop" => ~last
            /\ out = "defer" => Cardinality(Deferrals(req.step)) < MaxEpisodes
            /\ out = "stop" => i > 0 \/ OpeningStops \/ last
    IN  IF req \in DOMAIN checkpoint THEN {checkpoint[req]} ELSE {out \in Output : fresh(out)}

\* What follows run_step: a continuing result with deferred intents parks the
\* member, any other result is bound and advances it.
AfterRunStep(i, st, todo, res, intents) ==
    IF Unresolved(res) /\ intents # None
    THEN Defer(i, todo, st.step, st.refs, res, intents)
    ELSE LET s == Settled(i + 1, st.step + 1, Append(st.refs, res), res.out = "stop")
         IN  Run(i, todo \o BindResult(st.step, res) \o Persist(s)
                         \o (IF s.terminal THEN BindMember(s) ELSE << >>),
                 IF s.terminal THEN << >> ELSE NextStep(s))

\* _validate_prior_binding
PriorBound(st) == st.step > 0 => bound[st.step - 1] = st.refs[st.step]

\* run_step finds a result bound at its step_index.
StepBound(i, st) ==
    /\ PriorBound(st)
    /\ bound[st.step] # None
    /\ bound[st.step].req = RequestOf(i, st)
    /\ AfterRunStep(i, st, << >>, bound[st.step], deferred[st.step])

\* run_step invokes the adapter: checkpoint, intents, result.
StepInvoke(i, st) ==
    /\ PriorBound(st)
    /\ bound[st.step] = None
    /\ LET req == RequestOf(i, st)
       IN  \E out \in Answers(i, req) :
            LET res == [req |-> req, out |-> out, resolved |-> FALSE]
                intents == IF out = "defer" THEN req ELSE deferred[st.step]
            IN  AfterRunStep(i, st,
                    << [op |-> "checkpoint", req |-> req, to |-> out] >>
                      \o (IF out = "defer" THEN BindIntents(st.step, req) ELSE << >>)
                      \o BindResult(st.step, res),
                    res, intents)

\* run_step refuses: another prior, or a result of another request.
StepRefused(i, st) ==
    /\ \/ ~PriorBound(st)
       \/ bound[st.step] # None /\ bound[st.step].req # RequestOf(i, st)
    /\ Raise(i)

OptimStep(i) ==
    LET st == LoadWorkState(ledger[i].input)
    IN  \/ ExpectedStage(st) # i /\ Raise(i)
        \/ /\ ExpectedStage(st) = i
           /\ \/ StepTerminal(i, st)
              \/ StepResume(i, st)
              \/ StepRecover(i, st)
              \/ /\ ~st.terminal /\ st.pend = None /\ UnresolvedDeferrals(st) = {}
                 /\ StepBound(i, st) \/ StepInvoke(i, st) \/ StepRefused(i, st)

---------------------------------------------------------------------------
(* execute_eval_fanin_sync                                                 *)

\* Mutant: episodes are ordered by the deferral fields alone.
HeadIsLaterByDeferral(ws) ==
    /\ head # None
    /\ \/ head.step > ws.step
       \/ head.step = ws.step /\ head.origin # None /\ head.origin > ws.origin

\* _head_is_later_episode, for the fan-in of the episode parked at ws.
HeadIsLaterEpisode(ws) ==
    /\ head # None
    /\ \/ head.step > ws.step
       \/ /\ head.step = ws.step
          /\ IF head.origin # None THEN head.origin > ws.origin
                                   ELSE head.stage > ws.stage + 1

\* The episode's intents are resolved from the rows, or already are.
Resolve(ws) == << [op |-> "resolve", req |-> ws.intents] >>

\* GEPA: the head has left the episode.
FaninStale(i, ws) ==
    /\ SameStepResume
    /\ HeadIsLaterEpisode(ws)
    /\ Run(i, Resolve(ws), << >>)

\* GEPA: resume the same step.
FaninResume(i, ws) ==
    /\ SameStepResume
    /\ ~HeadIsLaterEpisode(ws)
    /\ LET again == head # None /\ head.step = ws.step /\ head.pend = None
           s == IF again
                THEN Settled(ws.stage + 1, head.step, head.refs, head.terminal)
                ELSE Settled(ws.stage + 1, ws.step, SubSeq(ws.refs, 1, ws.step), FALSE)
       IN  Run(i, Resolve(ws) \o EvictIntents(ws.step) \o Persist(s), NextStep(s))

\* The others: merge the resolutions into the pending result and advance.
FaninMerge(i, ws) ==
    /\ ~SameStepResume
    /\ LET merged == [ws.pend EXCEPT !.resolved = TRUE]
           s == Settled(ws.stage + 1, ws.step + 1, Append(ws.refs, merged), FALSE)
       IN  Run(i, Resolve(ws) \o EvictIntents(ws.step)
                    \o BindResult(ws.step, merged) \o Persist(s), NextStep(s))

EvalFanin(i) ==
    LET ws == ledger[i].input
    IN  FaninStale(i, ws) \/ FaninResume(i, ws) \/ FaninMerge(i, ws)

---------------------------------------------------------------------------
(* The platform: delivery, durable writes, completion, crashes.            *)

Handle(i) ==
    \/ ledger[i].kind = "optim_step" /\ OptimStep(i)
    \/ ledger[i].kind = "eval_fanin" /\ EvalFanin(i)

\* A stage that is not done runs; a fan-in only once all before it are done.
Deliver(i) ==
    /\ job = None
    /\ ~ledger[i].done
    /\ ledger[i].kind = "eval_fanin" => \A j \in DOMAIN ledger : j < i => ledger[j].done
    /\ Handle(i)
    /\ UNCHANGED <<adapter, store, ledger, completed, environment>>

\* A completed fan-in is delivered once more.
Redeliver(i) ==
    /\ job = None
    /\ ledger[i].done
    /\ ledger[i].kind = "eval_fanin"
    /\ replays < MaxReplays
    /\ MixedFaults \/ crashes = 0
    /\ replays' = replays + 1
    /\ EvalFanin(i)
    /\ UNCHANGED <<adapter, store, ledger, completed, crashes>>

\* execute_eval_row_sync: evaluate one row and bind its record, once.
EvalRow(i) ==
    /\ ledger[i].kind = "eval_row"
    /\ ~ledger[i].done
    /\ ledger' = [ledger EXCEPT ![i].done = TRUE]
    /\ UNCHANGED <<adapter, store, job, raised, completed, environment>>

\* bind of a key that holds `old`: free or equal, else BindingConflictError.
Bindable(old, new) == old \in {None, new}

WriteHead(w) ==
    /\ \/ w.op = "evictHead" /\ head' = None /\ UNCHANGED heads
       \/ w.op = "bindHead" /\ head' = w.to /\ heads' = heads \cup {w.to}
    /\ UNCHANGED <<bound, deferred, checkpoint, resolved, member>>

WriteResult(w) ==
    /\ \/ w.op = "evictResult" /\ bound' = [bound EXCEPT ![w.step] = None]
       \/ /\ w.op = "bindResult" /\ Bindable(bound[w.step], w.to)
          /\ bound' = [bound EXCEPT ![w.step] = w.to]
    /\ UNCHANGED <<head, heads, deferred, checkpoint, resolved, member>>

WriteIntents(w) ==
    /\ \/ w.op = "evictIntents" /\ deferred' = [deferred EXCEPT ![w.step] = None]
       \/ /\ w.op = "bindIntents" /\ Bindable(deferred[w.step], w.to)
          /\ deferred' = [deferred EXCEPT ![w.step] = w.to]
    /\ UNCHANGED <<head, heads, bound, checkpoint, resolved, member>>

\* The adapter's effect and its exact checkpoint.
WriteCheckpoint(w) ==
    /\ w.op = "checkpoint"
    /\ checkpoint' = [r \in DOMAIN checkpoint \cup {w.req} |->
                        IF r = w.req THEN w.to ELSE checkpoint[r]]
    /\ UNCHANGED <<head, heads, bound, deferred, resolved, member>>

\* The resolutions of an episode's intents (see EvalClaims).
WriteResolution(w) ==
    /\ w.op = "resolve"
    /\ resolved' = resolved \cup {w.req}
    /\ UNCHANGED <<head, heads, bound, deferred, checkpoint, member>>

WriteMember(w) ==
    /\ w.op = "bindMember" /\ Bindable(member, w.to)
    /\ member' = w.to
    /\ UNCHANGED <<head, heads, bound, deferred, checkpoint, resolved>>

Conflict(w) ==
    \/ w.op = "bindResult" /\ ~Bindable(bound[w.step], w.to)
    \/ w.op = "bindIntents" /\ ~Bindable(deferred[w.step], w.to)
    \/ w.op = "bindMember" /\ ~Bindable(member, w.to)

Write ==
    /\ job # None /\ job.todo # << >>
    /\ LET w == Head(job.todo)
       IN  \/ /\ \/ WriteHead(w) \/ WriteResult(w) \/ WriteIntents(w)
                 \/ WriteCheckpoint(w) \/ WriteResolution(w) \/ WriteMember(w)
              /\ job' = [job EXCEPT !.todo = Tail(@)]
              /\ UNCHANGED raised
           \/ Conflict(w) /\ Raise(job.idx) /\ UNCHANGED store
    /\ UNCHANGED <<adapter, ledger, completed, environment>>

\* The completion is recorded once, together with its successors.
Complete ==
    /\ job # None /\ job.todo = << >>
    /\ ledger' = IF ledger[job.idx].done THEN ledger
                 ELSE [i \in DOMAIN ledger \cup DOMAIN job.successors |->
                        IF i = job.idx THEN [ledger[i] EXCEPT !.done = TRUE]
                        ELSE IF i \in DOMAIN ledger THEN ledger[i]
                        ELSE job.successors[i]]
    /\ job' = None
    /\ UNCHANGED <<adapter, store, raised, completed, environment>>

Crash ==
    /\ job # None
    /\ job.idx >= CrashFrom
    /\ crashes < MaxCrashes
    /\ MixedFaults \/ replays = 0
    /\ crashes' = crashes + 1
    /\ job' = None
    /\ UNCHANGED <<adapter, store, ledger, raised, completed, replays>>

Drained == job = None /\ \A i \in DOMAIN ledger : ledger[i].done

\* _assemble_terminal: the history is the ordered bindings, all of them, and
\* only its last result stops.
Terminalizable(s) ==
    /\ s.terminal /\ s.refs # << >>
    /\ \A k \in 1 .. Len(s.refs) :
        /\ bound[k - 1] = s.refs[k]
        /\ s.refs[k].req.step = k - 1
        /\ s.refs[k].out = "stop" <=> k = Len(s.refs)
    /\ bound[Len(s.refs)] = None

\* execute_run_completion_for_run_sync
RunCompletion ==
    /\ Drained
    /\ completed = "no"
    /\ completed' = IF member # None /\ Terminalizable(member) THEN "yes" ELSE "raised"
    /\ UNCHANGED <<adapter, store, ledger, job, raised, environment>>

Done == completed # "no" /\ job = None /\ UNCHANGED vars

Progress ==
    \/ \E i \in DOMAIN ledger : Deliver(i) \/ EvalRow(i)
    \/ Write
    \/ Complete
    \/ RunCompletion

Next ==
    \/ Progress
    \/ \E i \in DOMAIN ledger : Redeliver(i)
    \/ Crash
    \/ Done

Spec == Init /\ [][Next]_vars

FairSpec == Spec /\ WF_vars(Progress)

---------------------------------------------------------------------------
(* Properties                                                              *)

Placeholder(res) == res.out = "defer" /\ ~res.resolved

\* "Do not keep the placeholder as history": the result of a step that was
\* interrupted by a deferral never becomes part of a member's history, and
\* the history lists the steps in order (_finalize_deferred_step, run_step).
HistoryHasNoPlaceholder ==
    \A s \in heads : \A k \in 1 .. Len(s.refs) :
        s.refs[k].req.step = k - 1 /\ ~Placeholder(s.refs[k])

\* A member parked on a deferral waits for the intents of its own pending
\* result, never for intents another attempt or episode left behind under the
\* step-keyed binding.
ParkedOnOwnIntents ==
    \A s \in heads : s.pend # None => s.intents = s.pend.req

\* A crash at any write of a stage after the opening one leaves a store from which the
\* retried stage succeeds, and so does a fan-in that is delivered again to a run without
\* crashes: no attempt of an unfinished stage raises.
RetriesSucceed == raised = {}

\* The chain of stages never breaks: once every stage is done, the run has
\* ended, and run completion can assemble its result from the bindings.
ChainReachesTerminal == Drained => member # None /\ Terminalizable(member)

\* Every evaluation a step deferred has a resolution when the run ends.
NoEvaluationDropped ==
    completed = "yes" =>
        \A r \in DOMAIN checkpoint : checkpoint[r] = "defer" => r \in resolved

\* "It only ever increases": the stage of the bound head, the watermark
\* _head_is_later_episode orders GEPA's fan-ins by, never goes back.
HeadOnlyAdvances ==
    [][SameStepResume /\ head' # None /\ head' # head => \A s \in heads : s.stage <= head'.stage]_vars

\* A Step Result that is final, bound by run_step or merged by the fan-in, is
\* never evicted or replaced; recovery only evicts placeholders.
FinalResultsSurvive ==
    [][\A k \in Steps : bound[k] # None /\ ~Placeholder(bound[k]) => bound'[k] = bound[k]]_vars

\* Once crashes and duplicates cease, the run completes.
RunCompletes == <>(completed = "yes")

=============================================================================
