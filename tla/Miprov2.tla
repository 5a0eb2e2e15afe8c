------------------------------ MODULE Miprov2 ------------------------------
(***************************************************************************)
(* A MIPROv2 run: the durable state and driver of optim/miprov2/runtime.py,*)
(* the adapter and step contract that drive it, and the harness that debits*)
(* a step's budget, stores its snapshot and resolves its intent.           *)
(*                                                                         *)
(* Every step loads the snapshot of the step before, folds the resolution  *)
(* that step's intent got meanwhile, compares the harness's budget with the*)
(* effects the state has counted, plans, causes at most one effect and     *)
(* stores a new snapshot.  Every state in between is checked to be what its*)
(* own evidence replays to (Canonical, _verify_canonical_state); a state   *)
(* that is not raises, and as every retry meets the same snapshot and      *)
(* resolution the run is then stuck.                                       *)
(***************************************************************************)
EXTENDS Miprov2Study

CONSTANTS
    Controls,      \* resolved controls
    Budgets,       \* effect budgets
    Scores,        \* what an evaluation may score
    Suggestions    \* what Optuna may suggest, folded into the space of the run

Kinds == {"bootstrap_generations", "proposal_calls", "evaluations", "task_rows"}

ASSUME Miprov2Assumption ==
    /\ \A c \in Controls : c \in Control /\ Configured(c) /\ Plannable(c) /\ c.cap \in 1 .. BootCap(c)
    /\ Budgets \subseteq [Kinds -> Nat]
    /\ 0 \in Scores /\ Scores \subseteq Nat
    /\ Suggestions \subseteq Nat /\ Suggestions # {}

VARIABLES
    control, budget,
    optuna,        \* the suggestion for each trial: a function of seed and transcript
    snap,          \* the state the last step stored
    resolution,    \* how its intent was resolved, None if it had none
    spent,         \* what the harness has debited
    status,        \* "continue", "complete", "failed", or "stuck": every retry raises
    why            \* what it raises

vars == <<control, budget, optuna, snap, resolution, spent, status, why>>
c == control

Reasons == {"", "not_canonical", "budget_disagrees", "budget_exhausted", "error_limit",
            "partial_bootstrap"}

----------------------------------------------------------------------------
(* The state.                                                              *)

Start ==
    [phase |-> "bootstrap", rng |-> PlanningDraws(c),
     plan |-> 0, compiler |-> None, events |-> <<>>, demos |-> <<>>, attempt |-> None,
     proposal |-> None, request |-> "", pool |-> 0,
     baseline |-> None, samples |-> <<>>, sample |-> None,
     spec |-> None, binding |-> "none", evaluation |-> None,
     effects |-> <<>>, full |-> <<>>, winner |-> None, failure |-> FALSE]

Effect(kind, id, rows) == [kind |-> kind, id |-> id, rows |-> rows]
Consumed(s, kind) ==
    IF kind = "task_rows" THEN FoldLeft(LAMBDA n, e : n + e.rows, 0, s.effects)
    ELSE Cardinality({i \in DOMAIN s.effects : s.effects[i].kind = kind})

\* Identities: an attempt by its plan and task, an evaluation by its spec.
AttemptId(a) == <<"bootstrap", a.plan, a.task, 0>>
SpecId(spec) == <<spec.purpose, spec.ordinal, spec.combo, spec.batch>>

\* A batch is the draw that gave it, 0 the whole validation set.
DrawsBatch == c.minibatch /\ c.size < c.valset
BatchRows(batch) == c.seeds * IF batch = 0 THEN c.valset ELSE c.size

\* The searched space is instructions by demo sets.
SpaceSize(s) == s.pool * IF SearchesDemos(c) THEN Len(s.demos) ELSE 1
Suggestion(s) == optuna[Len(s.samples) + 1] % SpaceSize(s)

\* _plan_baseline, _plan_sample and _plan_promotion: the spec of each purpose.
Spec0(s) == [purpose |-> "baseline", ordinal |-> 0, combo |-> Base, batch |-> 0]
SampleSpec(s, rng) ==
    [purpose |-> "sample", ordinal |-> Len(s.effects), combo |-> Suggestion(s),
     batch |-> IF DrawsBatch THEN rng + 1 ELSE 0]
PromotionSpec(s) ==
    [purpose |-> "promotion", ordinal |-> Len(s.effects),
     combo |-> SelectPromotion(Append(s.samples, s.sample)), batch |-> 0]

----------------------------------------------------------------------------
(* The canonical replay.                                                   *)

PlanEvents(s, i) == SelectSeq(s.events, LAMBDA e : e.attempt.plan = i)
ReplayCompiler(s, i) ==
    FoldLeft(LAMBDA m, e : FoldResult(c, m, e.result), InitialCompiler, PlanEvents(s, i))

\* _canonical_bootstrap_projection.
CanonicalBootstrap(s) ==
    LET n == Len(Plans(c))
        compiler == ReplayCompiler(s, s.plan) IN
    /\ \A i \in 1 .. Len(s.events) - 1 : s.events[i].attempt.plan <= s.events[i + 1].attempt.plan
    /\ s.demos = [i \in 1 .. s.plan |-> DemoSet(c, i - 1, ReplayCompiler(s, i - 1))]
    /\ \A i \in 0 .. s.plan - 1 :
        Plans(c)[i + 1].kind = "bootstrap" =>
            ~ ReplayCompiler(s, i).failed /\ NextAttempt(c, i, ReplayCompiler(s, i)) = None
    /\ s.plan < n =>
        IF Plans(c)[s.plan + 1].kind # "bootstrap"
        THEN s.plan = 0 /\ s.events = <<>> /\ s.compiler = None /\ s.attempt = None
        ELSE /\ \A i \in DOMAIN s.events : s.events[i].attempt.plan <= s.plan
             /\ s.compiler = IF s.attempt = None /\ PlanEvents(s, s.plan) = <<>>
                             THEN None ELSE compiler
             /\ s.attempt # None => ~ compiler.failed /\ s.attempt = NextAttempt(c, s.plan, compiler)
    /\ s.phase # "bootstrap" => s.plan = n /\ s.compiler = None /\ s.attempt = None

\* _canonical_completed_effects.
CanonicalEffects(s) ==
    LET evaluation(e) == Effect("evaluations", SpecId(e), BatchRows(e.batch)) IN
    [i \in DOMAIN s.events |->
        Effect("bootstrap_generations", AttemptId(s.events[i].attempt), c.seeds)]
    \o (IF s.proposal = None THEN <<>>
        ELSE [i \in DOMAIN s.proposal.evidence |->
                Effect("proposal_calls", <<"proposal", i - 1, 0, 0>>, 0)])
    \o (IF s.baseline = None THEN <<>>
        ELSE FoldLeft(LAMBDA acc, x :
                        acc \o <<evaluation(x.effect)>>
                            \o (IF x.promotion = None THEN <<>>
                                ELSE <<evaluation(x.promotion.effect)>>),
                      <<evaluation(s.baseline.effect)>>, s.samples))
    \o (IF s.sample = None THEN <<>> ELSE <<evaluation(s.sample.effect)>>)

\* _canonical_fully_evaluated_candidates.
CanonicalFull(s) ==
    IF s.baseline = None THEN <<>>
    ELSE LET evals == FullEvaluations(c, s.baseline.score, s.samples) IN
         [i \in DOMAIN evals |-> evals[i].combo]

\* _canonical_phase.
CanonicalPhase(s) ==
    CASE s.failure -> "failed"
      [] ~ s.failure /\ s.winner # None -> "complete"
      [] OTHER ->
            IF s.plan < Len(Plans(c)) THEN "bootstrap"
            ELSE IF s.pool = 0 THEN "proposal"
            ELSE IF s.baseline = None THEN "baseline"
            ELSE IF s.sample # None THEN "promotion"
            ELSE "sample"

\* _canonical_runtime_rng: the draws of planning, proposal and every batch recorded
\* so far, each the next in line.
ProposalDraws(s) ==
    IF s.proposal = None THEN PlanningDraws(c)
    ELSE ReplayProposal(c, Len(s.demos), PlanningDraws(c), s.proposal.evidence).rng
Batches(s) ==
    [i \in DOMAIN s.samples |-> s.samples[i].effect.batch]
    \o (IF s.sample # None THEN <<s.sample.effect.batch>>
        ELSE IF s.spec # None /\ s.spec.purpose = "sample" THEN <<s.spec.batch>> ELSE <<>>)
CanonicalRng(s) ==
    s.rng = ProposalDraws(s) + IF DrawsBatch THEN Len(Batches(s)) ELSE 0
CanonicalBatches(s) ==
    DrawsBatch => \A i \in DOMAIN Batches(s) : Batches(s)[i] = ProposalDraws(s) + i

\* _canonical_pending_evaluation_spec.
CanonicalSpec(s) ==
    s.spec # None =>
        CASE s.phase = "baseline" -> s.spec = Spec0(s)
          [] s.phase = "sample" -> s.spec = SampleSpec(s, ProposalDraws(s) + Len(s.samples))
          [] s.phase = "promotion" -> s.spec = PromotionSpec(s)
          [] OTHER -> FALSE

\* Pending work and terminal results, the rest of _verify_canonical_state.
CanonicalPending(s) ==
    /\ Cardinality({x \in {"attempt", "evaluation"} : s[x] # None})
        + (IF s.request # "" THEN 1 ELSE 0) <= 1
    /\ s.binding # "none" => (s.attempt # None) # (s.spec # None)
    /\ s.evaluation # None => s.binding = "resolved" /\ s.evaluation = s.spec
    /\ s.request # "" =>
        /\ s.phase = "proposal" /\ s.proposal # None
        /\ s.request = PlanProposalRequest(c, s.proposal).pending
    /\ (s.sample # None) <=> (s.phase = "promotion")
    /\ s.phase \in {"complete", "failed"} =>
        /\ s.attempt = None /\ s.request = "" /\ s.spec = None
        /\ s.binding = "none" /\ s.evaluation = None /\ s.sample = None
CanonicalWinner(s) ==
    s.winner # None => s.winner = BestFullEvaluation(c, s.baseline.score, s.samples)

Canonical(s) ==
    /\ CanonicalBootstrap(s)
    /\ s.proposal # None => CanonicalProposal(c, Len(s.demos), PlanningDraws(c), s.proposal)
    /\ CanonicalRng(s) /\ CanonicalBatches(s)
    /\ BoundTranscript(c, s.samples)
    /\ CanonicalSpec(s)
    /\ s.effects = CanonicalEffects(s)
    /\ IsInjective([i \in DOMAIN s.effects |-> s.effects[i].id])
    /\ \A kind \in Kinds : Consumed(s, kind) <= budget[kind]
    /\ s.full = CanonicalFull(s)
    /\ s.pool = (IF s.proposal = None THEN 0 ELSE s.proposal.pool)
    /\ s.phase = CanonicalPhase(s)
    /\ CanonicalPending(s)
    /\ CanonicalWinner(s)

----------------------------------------------------------------------------
(* Folding what the last step's intent resolved to (fold_resolution).      *)

\* _terminalized.
Terminalized(s) ==
    [s EXCEPT !.phase = "failed", !.failure = TRUE, !.attempt = None, !.request = "",
              !.spec = None, !.binding = "none", !.evaluation = None, !.sample = None]

\* resolve_bootstrap and _accept_result: with no threshold any score but zero is accepted.
BootstrapResult(r) ==
    CASE r.outcome = "failed" -> "error"
      [] r.outcome = "completed" /\ r.score # 0 -> "accepted"
      [] r.outcome = "completed" /\ r.score = 0 -> "refused"

FoldBootstrap(s, result) ==
    [s EXCEPT !.compiler = FoldResult(c, @, result),
              !.events = Append(@, [attempt |-> s.attempt, result |-> result]),
              !.attempt = None, !.binding = "none",
              !.effects = Append(@, Effect("bootstrap_generations", AttemptId(s.attempt), c.seeds))]

\* resolve_evaluation and resolve_evaluation_failure: a failure scores zero, and
\* pays for its whole matrix.
ObservedScore(r) == IF r.outcome = "failed" THEN 0 ELSE r.score
\* Mutant: a failure counts its tasks and not their repeats.
PlannedTasks(r, batch) == IF r.outcome = "failed" THEN BatchRows(batch) \div c.seeds ELSE BatchRows(batch)
PlannedRows(r, batch) == BatchRows(batch)

\* fold_evaluation: the three purposes.
Evaluated(s, r) ==
    [s EXCEPT !.spec = None, !.binding = "none", !.evaluation = None,
              !.effects = Append(@, Effect("evaluations", SpecId(s.evaluation),
                                           PlannedRows(r, s.evaluation.batch)))]
FoldBaseline(s, r) ==
    [Evaluated(s, r) EXCEPT
        !.phase = "sample", !.full = Append(@, Base),
        !.baseline = [score |-> ObservedScore(r), effect |-> s.evaluation]]
FoldSample(s, r) ==
    LET trial == NextTrial(s.samples)
        provisional == Provisional(trial, s.evaluation.combo, ObservedScore(r), s.evaluation) IN
    IF PromotionDue(c, trial)
    THEN [Evaluated(s, r) EXCEPT !.phase = "promotion", !.sample = provisional]
    ELSE [Evaluated(s, r) EXCEPT !.samples = Append(@, provisional),
                                 !.full = IF c.minibatch THEN @ ELSE Append(@, provisional.combo)]
FoldPromotion(s, r) ==
    LET promotion == Promoted(s.samples, s.sample, ObservedScore(r), s.evaluation) IN
    [Evaluated(s, r) EXCEPT
        !.phase = "sample", !.sample = None,
        !.samples = Append(@, [s.sample EXCEPT !.promotion = promotion]),
        !.full = Append(@, s.evaluation.combo)]

Fold(s, r) ==
    CASE r.outcome = "rejected" -> Terminalized(s)
      [] r.outcome # "rejected" /\ s.attempt # None -> FoldBootstrap(s, BootstrapResult(r))
      [] r.outcome # "rejected" /\ s.phase = "baseline" -> FoldBaseline(s, r)
      [] r.outcome # "rejected" /\ s.phase = "sample" -> FoldSample(s, r)
      [] r.outcome # "rejected" /\ s.phase = "promotion" -> FoldPromotion(s, r)

----------------------------------------------------------------------------
(* Planning (Miprov2Driver.plan): the states it passes, the last the plan. *)

\* _plan_evaluation_spec asks for the spec's Eval Config, and with it emits the effect.
PlanEvaluationSpec(s, spec) ==
    IF s.binding = "resolved" THEN <<[s EXCEPT !.spec = spec, !.evaluation = spec]>>
    ELSE <<[s EXCEPT !.spec = spec, !.binding = "request"]>>

PlanSample(s) ==
    IF Len(s.samples) >= c.trials
    THEN <<[s EXCEPT !.phase = "complete",
                     !.winner = BestFullEvaluation(c, s.baseline.score, s.samples)]>>
    ELSE PlanEvaluationSpec([s EXCEPT !.rng = @ + IF DrawsBatch THEN 1 ELSE 0],
                            SampleSpec(s, s.rng))

PlanProposal(s) ==
    LET p == PlanProposalRequest(c, IF s.proposal = None THEN StartProposal(c, Len(s.demos), s.rng)
                                    ELSE s.proposal)
        done == [s EXCEPT !.phase = "baseline", !.proposal = p, !.rng = p.rng, !.pool = p.pool] IN
    IF p.pending # "" THEN <<[s EXCEPT !.proposal = p, !.request = p.pending]>>
    ELSE <<done>> \o PlanEvaluationSpec(done, Spec0(done))

\* _plan_bootstrap: plans with nothing left to try are materialised on the way.
CompilerAt(s, i) == IF i = s.plan /\ s.compiler # None THEN s.compiler ELSE InitialCompiler
Untried(s, i) ==
    /\ Plans(c)[i + 1].kind = "bootstrap"
    /\ CompilerAt(s, i).failed \/ NextAttempt(c, i, CompilerAt(s, i)) # None
PlanBootstrap(s) ==
    LET n == Len(Plans(c))
        stop == Min({i \in s.plan .. n - 1 : Untried(s, i)} \cup {n})
        at == [s EXCEPT !.plan = stop,
                        !.demos = @ \o [i \in 1 .. stop - s.plan |->
                                            DemoSet(c, s.plan + i - 1, CompilerAt(s, s.plan + i - 1))]]
        done == [at EXCEPT !.phase = "proposal", !.compiler = None] IN
    IF stop < n
    THEN <<[at EXCEPT !.compiler = CompilerAt(s, stop),
                      !.attempt = NextAttempt(c, stop, CompilerAt(s, stop)),
                      !.binding = "request"]>>
    ELSE <<done>> \o PlanProposal(done)

Plan(s) ==
    CASE s.attempt # None \/ s.request # "" \/ s.evaluation # None \/ s.phase = "complete" -> <<s>>
      [] OTHER ->
            IF s.spec # None THEN PlanEvaluationSpec(s, s.spec)
            ELSE CASE s.phase = "bootstrap" -> PlanBootstrap(s)
                   [] s.phase = "proposal" -> PlanProposal(s)
                   [] s.phase = "baseline" -> PlanEvaluationSpec(s, Spec0(s))
                   [] s.phase = "sample" -> PlanSample(s)
                   [] s.phase = "promotion" -> PlanEvaluationSpec(s, PromotionSpec(s))

\* What a planned state is about to consume.
Cost(s) ==
    [kind \in Kinds |->
        CASE kind = "bootstrap_generations" -> IF s.attempt # None THEN 1 ELSE 0
          [] kind = "proposal_calls" -> IF s.request # "" THEN 1 ELSE 0
          [] kind = "evaluations" -> IF s.spec # None THEN 1 ELSE 0
          [] kind = "task_rows" ->
                IF s.attempt # None THEN c.seeds
                ELSE IF s.spec # None THEN BatchRows(s.spec.batch) ELSE 0]

----------------------------------------------------------------------------
(* The adapter's step.  The step contract folds and plans the same way to  *)
(* label the request, and raises the same.                                 *)

Loaded == IF resolution = None THEN snap ELSE Fold(snap, resolution)

\* What a step raises before it has any effect: s the folded state, plan its plan.
Reason(s, plan) ==
    IF ~ Canonical(s) THEN "not_canonical"
    ELSE IF \E kind \in Kinds : spent[kind] # Consumed(s, kind) THEN "budget_disagrees"
    ELSE IF s.phase = "failed" THEN ""
    ELSE IF s.compiler # None /\ s.compiler.failed THEN "error_limit"
    ELSE LET cost == Cost(Last(plan)) IN
         IF \E kind \in Kinds : spent[kind] + cost[kind] > budget[kind] THEN "budget_exhausted"
         ELSE IF \E i \in DOMAIN plan : ~ Canonical(plan[i]) THEN "not_canonical"
         ELSE ""

Store(s, cost) ==
    /\ snap' = s
    /\ spent' = [kind \in Kinds |-> spent[kind] + cost[kind]]
    /\ UNCHANGED <<control, budget, optuna, why>>

Nothing == [kind \in Kinds |-> 0]

\* The Eval Config of the next effect is bound in a step of its own.
BindEval(s) ==
    /\ s.binding = "request"
    /\ Store([s EXCEPT !.binding = "resolved"], Nothing)
    /\ resolution' = None /\ UNCHANGED status

\* A proposal call runs within its step; one that ends the proposal fails the run.
Propose(s) ==
    /\ s.request # ""
    /\ \E r \in Responses :
        LET p == FoldResponse(c, s.proposal, r)
            next == [s EXCEPT
                        !.proposal = p, !.rng = p.rng, !.request = "",
                        !.effects = Append(@, Effect("proposal_calls",
                                        <<"proposal", Len(s.proposal.evidence), 0, 0>>, 0))] IN
        /\ r = "complete" => s.request = "dataset_followup"
        /\ r = "invalid" => s.request = "instruction_proposal"
        /\ IF p.stage = "failed"
           THEN Store(Terminalized(next), Cost(s)) /\ status' = "failed"
           ELSE Store(next, Cost(s)) /\ UNCHANGED status
    /\ resolution' = None

\* The evaluation service resolves the intent a step emits (EvalClaims).
Outcomes ==
    [outcome : {"completed"}, score : Scores] \cup [outcome : {"failed", "rejected"}, score : {0}]

\* One repeat of a bootstrapped task may fail in an evaluation that completes.
Generate(s) ==
    /\ s.attempt # None /\ s.binding = "resolved"
    /\ Store(s, Cost(s))
    /\ resolution' \in Outcomes \cup [outcome : {"partial"}, score : {0}]
    /\ UNCHANGED status

Evaluate(s) ==
    /\ s.evaluation # None
    /\ Store(s, Cost(s))
    /\ resolution' \in Outcomes
    /\ UNCHANGED status

\* The outputs that end a run: the winner, or the failure of a rejected intent.
Terminate(s) ==
    /\ s.phase \in {"complete", "failed"}
    /\ Store(s, Nothing)
    /\ resolution' = None /\ status' = s.phase

Raise(reason) ==
    /\ reason # ""
    /\ status' = "stuck" /\ why' = reason
    /\ UNCHANGED <<control, budget, optuna, snap, resolution, spent>>

\* resolve_bootstrap refuses a generation in which one repeat failed.
Partial == resolution # None /\ resolution.outcome = "partial"
RaisePartial == status = "continue" /\ Partial /\ Raise("partial_bootstrap")

\* Miprov2Adapter.invoke.
Invoke ==
    /\ status = "continue" /\ ~ Partial
    /\ LET s == Loaded
           plan == IF s.phase = "failed" THEN <<s>> ELSE Plan(s)
           reason == Reason(s, plan)
           planned == Last(plan) IN
       \/ Raise(reason)
       \/ /\ reason = ""
          /\ \/ BindEval(planned)
             \/ Propose(planned)
             \/ Generate(planned)
             \/ Evaluate(planned)
             \/ Terminate(planned)

Init ==
    /\ control \in Controls /\ budget \in Budgets
    /\ optuna \in [1 .. control.trials -> Suggestions]
    /\ snap = Start
    /\ resolution = None /\ spent = Nothing
    /\ status = "continue" /\ why = ""

Next == RaisePartial \/ Invoke

Spec == Init /\ [][Next]_vars

----------------------------------------------------------------------------
(* Properties.                                                             *)

TypeOK ==
    /\ control \in Controls /\ budget \in Budgets
    /\ optuna \in [1 .. control.trials -> Suggestions]
    /\ snap.phase \in {"bootstrap", "proposal", "baseline", "sample", "promotion", "complete", "failed"}
    /\ snap.plan \in 0 .. Len(Plans(control)) /\ snap.rng \in Nat /\ snap.pool \in 0 .. control.candidates
    /\ resolution \in {None} \cup [outcome : {"completed", "failed", "rejected", "partial"}, score : Scores]
    /\ spent \in [Kinds -> Nat]
    /\ status \in {"continue", "complete", "failed", "stuck"} /\ why \in Reasons

\* The driver never contradicts itself: whatever the proposals, generations and
\* evaluations come to, the state it builds step by step is the one its own
\* evidence replays to, and it counts the effects the harness has debited.  Only
\* an intent rejected before execution (RejectionEndsRun) makes it raise so.
NothingRefused ==
    why \in {"not_canonical", "budget_disagrees"} => resolution # None /\ resolution.outcome = "rejected"

\* A completed study has run the schedule it announced: the last trial was
\* followed by a promotion when trials are minibatches, as many evaluations were
\* paid for as adjusted_num_trials promises, and trial numbers have no gap.
ScheduleKept ==
    status = "complete" =>
        LET n == Len(snap.samples)
            promotions == {i \in 1 .. n : snap.samples[i].promotion # None} IN
        /\ n = control.trials
        /\ control.minibatch => n \in promotions
        /\ spent["evaluations"] = IF control.minibatch THEN AdjustedNumTrials(control) ELSE n + 1
        /\ {snap.samples[i].trial : i \in 1 .. n} \cup {snap.samples[i].promotion.trial : i \in promotions}
            = 1 .. n + Cardinality(promotions)

\* The winner was scored on the whole validation set and heads the ranking the
\* run reports (candidate_programs).  Minibatches as large as the validation set are left out: they
\* are ranked but cannot win.
WinnerHeadsRanking ==
    status = "complete" /\ ~ (control.minibatch /\ control.size >= control.valset) =>
        /\ snap.winner.score = Max(RankedScores(control, snap.baseline.score, snap.samples))
        /\ snap.winner.combo \in Range(snap.full)

\* The adapter has an output for an intent the evaluation service rejects, a
\* failed step with MIPROV2_INTENT_REJECTED_CODE: a rejection ends the run.
RejectionEndsRun ==
    resolution # None /\ resolution.outcome = "rejected" => status # "stuck"

=============================================================================
