-------------------------------- MODULE Gepa ---------------------------------
(***************************************************************************)
(* The GEPA optimizer: optim/gepa.  Every step runs the upstream search    *)
(* from the seed again, under a metric call budget one above what the      *)
(* previous step had consumed.  The search reaches the world by effects,   *)
(* an evaluation of a batch or a reflection, each at an ordinal of its own;*)
(* what an effect returned is recorded under its request and answers it on *)
(* every later replay.                                                     *)
(*                                                                         *)
(* The upstream library is external: a deterministic program that values   *)
(* the seed on the validation set and then, until its budget is reached,   *)
(* evaluates its best candidate on a minibatch, reflects, evaluates the    *)
(* child, and values a child that did better on the validation set.        *)
(***************************************************************************)
EXTENDS StepContracts, Ordering, SequencesExt

CONSTANTS
    Valset, Minibatch    \* batches: sequences of data positions, repeats allowed

MaxAttempts == 2         \* GEPA_REFLECTION_MAX_ATTEMPTS

\* GepaControl._validate, without its identities, for resolved_max_metric_calls: a budget
\* of no calls is valid.
GepaControl(calls) ==
    /\ Valset # <<>> /\ Minibatch # <<>>
    /\ calls \in Nat

\* A batch is a sequence.
ASSUME GepaAssumption ==
    /\ Len(Valset) \in Nat /\ DOMAIN Valset = 1 .. Len(Valset)
    /\ Len(Minibatch) \in Nat

-----------------------------------------------------------------------------
(* Step Requests and checkpoints: step_contract.py and step_engine.py.     *)

\* gepa_step_output_contract
GepaContract(terminal) ==
    [returned |-> 0, terminal |-> AcceptedCountFor(terminal, "complete"), floor |-> None,
     distinct |-> terminal.distinct]

NoCheckpoint == [consumed |-> 0, terminal |-> FALSE]

\* GepaStepCheckpoint.budget_delta
BudgetDelta(checkpoint) == IF checkpoint.terminal /\ checkpoint.consumed = 0 THEN 0 ELSE 1

\* build_first
GepaFirst(terminal, stage, calls) ==
    [index |-> 0, stage |-> stage, round |-> 0, history |-> <<>>, checkpoint |-> NoCheckpoint,
     skipped |-> {}, budget |-> calls, contract |-> GepaContract(terminal)]

\* build_next and _gepa_prior_state
GepaNext(results, terminal, stage) ==
    LET prior == results[Len(results)]
    IN  [index |-> Len(results), stage |-> stage, round |-> Len(results), history |-> <<>>,
         checkpoint |-> prior.state.checkpoint, skipped |-> prior.state.skipped,
         budget |-> prior.budget, contract |-> GepaContract(terminal)]

\* The budget run_one_gepa_iteration gives the search
NextBudget(checkpoint, calls) ==
    IF checkpoint.consumed + 1 < calls THEN checkpoint.consumed + 1 ELSE calls

\* It raises when that is no larger than what is consumed; without a budget there is one
\* step, which is terminal.
Exhausted(checkpoint, calls) ==
    IF calls = 0 THEN checkpoint.terminal ELSE NextBudget(checkpoint, calls) <= checkpoint.consumed

\* Mutant: what the search consumed is not carried over.
UpdatedCheckpointBudgeted(consumed, calls) == [consumed |-> 0, terminal |-> consumed >= calls]

\* The checkpoint a finished search leaves.
UpdatedCheckpoint(consumed, calls) == [consumed |-> consumed, terminal |-> consumed >= calls]

-----------------------------------------------------------------------------
(* The batches of an evaluation: WhetstoneGepaAdapter.evaluate.            *)

\* Positions are collapsed to distinct instances for the request ...
UniqueBatch(batch) == Picked(batch, {i \in DOMAIN batch : \A j \in 1 .. i - 1 : batch[j] # batch[i]})

\* ... and the rows are expanded to the upstream batch.
Expanded(batch, rows) ==
    LET unique == UniqueBatch(batch)
        At(p) == CHOOSE i \in DOMAIN unique : unique[i] = p
    IN  [k \in DOMAIN batch |-> rows[At(batch[k])]]

\* EvaluationBatch.scores: a failed row has the failure score, 0.
BatchScore(batch, rows) ==
    FoldLeft(LAMBDA n, row : n + (IF row.failed THEN 0 ELSE row.score), 0, Expanded(batch, rows))

-----------------------------------------------------------------------------
(* What an evaluation projects: the evaluation authority.  A resolution    *)
(* has, for each instance, the scores of its repeats, None for one lost.   *)

\* _row_is_failed and _representative_repeat
Completed(repeats) == Picked(repeats, {i \in DOMAIN repeats : repeats[i] # None})

\* _gepa_row_score and _project_row: the mean over the repeats that completed,
\* and a failed row only when none did
ProjectRow(repeats) ==
    LET present == Completed(repeats)
    IN  IF present = <<>> THEN [failed |-> TRUE, score |-> 0]
        ELSE [failed |-> FALSE, score |-> FoldLeft(+, 0, present) \div Len(present)]

\* _failed_result
FailedResult(request, resolution) ==
    [kind |-> "evaluate", resolution |-> resolution,
     rows |-> [k \in DOMAIN UniqueBatch(request.batch) |-> [failed |-> TRUE, score |-> 0]]]

\* _completed_result
CompletedResult(request, resolution) ==
    [kind |-> "evaluate", resolution |-> resolution,
     rows |-> [k \in DOMAIN resolution.repeats |-> ProjectRow(resolution.repeats[k])]]

EvaluationResult(request, resolution) ==
    IF resolution.outcome = "completed" THEN CompletedResult(request, resolution)
    ELSE FailedResult(request, resolution)

\* GepaEvaluationRow and GepaEvaluationEffectResult validate, for the request
RowsValid(request, result) ==
    /\ Len(result.rows) = Len(UniqueBatch(request.batch))
    /\ \A k \in DOMAIN result.rows : result.rows[k].failed => result.rows[k].score = 0

-----------------------------------------------------------------------------
(* The upstream search.                                                    *)

\* gepa.optimize before its first effect; reset_effect_ordinal
NewSearch(limit) ==
    [at |-> "seed", limit |-> limit, consumed |-> 0, ordinal |-> 0, pool |-> <<>>, child |-> None,
     before |-> 0, attempt |-> 0, skipped |-> {}]

\* Without a budget nothing is searched: the seed is the one candidate, of score 0.
NoSearch == [NewSearch(0) EXCEPT !.at = "stop", !.pool = <<[text |-> Seed, score |-> 0]>>]

\* best_idx: the first candidate of the highest validation score
Best(pool) ==
    CHOOSE i \in DOMAIN pool :
        \A j \in DOMAIN pool : pool[j].score < pool[i].score \/ (pool[j].score = pool[i].score /\ i <= j)

\* Between iterations the budget is checked.
NextIteration(s) == [s EXCEPT !.at = IF s.consumed >= s.limit THEN "stop" ELSE "parent", !.attempt = 0, !.child = None]

\* The request of the search's next effect, at its slot
NextEffect(s) ==
    LET parent == s.pool[Best(s.pool)].text
        Evaluate(text, batch) == [kind |-> "evaluate", ordinal |-> s.ordinal, text |-> text, batch |-> batch, attempt |-> 0]
    IN  CASE s.at = "seed" -> Evaluate(Seed, Valset)
          [] s.at = "parent" -> Evaluate(parent, Minibatch)
          [] s.at = "reflect" ->
                 [kind |-> "propose", ordinal |-> s.ordinal, text |-> parent, batch |-> <<>>, attempt |-> s.attempt]
          [] s.at = "child" -> Evaluate(s.child, Minibatch)
          [] s.at = "value" -> Evaluate(s.child, Valset)

\* What the search does with an evaluation: a mutation is kept when it did better.
Evaluated(s, request, result) ==
    LET score == BatchScore(request.batch, result.rows)
        spent == [s EXCEPT !.ordinal = @ + 1, !.consumed = @ + Len(request.batch)]
    IN  CASE s.at = "parent" -> [spent EXCEPT !.at = "reflect", !.before = score]
          [] s.at = "child" -> IF score > s.before THEN [spent EXCEPT !.at = "value"] ELSE NextIteration(spent)
          [] OTHER -> NextIteration([spent EXCEPT !.pool = Append(@, [text |-> request.text, score |-> score])])

\* _propose_one_component: one retry after a rejected response, then no mutation
Reflected(s, result) ==
    LET spent == [s EXCEPT !.ordinal = @ + 1]
        noted == [spent EXCEPT !.skipped = @ \cup {<<s.ordinal, s.attempt>>}]
    IN  IF ~result.rejected THEN [spent EXCEPT !.at = "child", !.child = result.text]
        ELSE IF s.attempt + 1 < MaxAttempts THEN [noted EXCEPT !.attempt = @ + 1]
        ELSE NextIteration(noted)

-----------------------------------------------------------------------------
(* The effect store: GepaEffectRecorder.                                   *)

\* record_request: a slot takes one request; its result is <<>> until it is recorded
Slotted(effects, request) ==
    LET n == request.ordinal + 1
    IN  IF n = Len(effects) + 1
        THEN Append(effects, [request |-> request, resolution |-> None, result |-> <<>>])
        ELSE effects

\* GepaEffectConflictError: the slot is bound to another request.
SlotConflict(effects, request) ==
    LET n == request.ordinal + 1
    IN  ~(n = Len(effects) + 1 \/ (n \in DOMAIN effects /\ effects[n].request = request))

\* load_evaluation_result and load_proposal_result
Recorded(effects, request) ==
    /\ request.ordinal + 1 \in DOMAIN effects
    /\ effects[request.ordinal + 1].result # <<>>

\* record_evaluation_result and record_proposal_result
Record(effects, request, result) == [effects EXCEPT ![request.ordinal + 1].result = <<result>>]

\* build_transcript: None when an effect of the search is missing
BuildTranscript(effects, s) ==
    IF s.ordinal > Len(effects) \/ \E n \in 1 .. s.ordinal : effects[n].result = <<>> THEN None
    ELSE [entries |-> SubSeq(effects, 1, s.ordinal), skipped |-> s.skipped]

-----------------------------------------------------------------------------
(* What a step reports: the factory and the harness adapter.               *)

\* recorded_evidence_ids: what the chain of Step Results accounts for
RecordedEvidence(results) == UNION {{e.id : e \in results[i].evidence} : i \in DOMAIN results}

\* Mutant: fresh evaluations only.
SearchEvidenceFresh(results, req, touched) ==
    {[id |-> t.id, step |-> req.index, text |-> t.text, batch |-> t.batch] :
        t \in {u \in touched : ~u.replayed}}

\* search_evidence: what the search touched, fresh or replayed, that no ancestor recorded
SearchEvidence(results, req, touched) ==
    {[id |-> t.id, step |-> req.index, text |-> t.text, batch |-> t.batch] :
        t \in {u \in touched : u.id \notin RecordedEvidence(results)}}

\* SearchEvidence.from_resolution raises on a fresh resolution of another step.
EvidenceRefused(results, req, touched) ==
    \E t \in touched : t.id \notin RecordedEvidence(results) /\ ~t.replayed /\ t.step # req.index

\* GepaProposalEffectResult._validate.  A result the parser rejected is a kind of its own
\* here; only a successful one has a text.
ReflectionValid(result) == ~(result.failed /\ result.rejected) /\ ((result.failed \/ result.rejected) <=> (result.text = None))

\* _proposal_call_usage: None when the result evidences no billed call
ProposalCallUsage(request, result) == IF result.billed THEN {<<"reflection", request.ordinal>>} ELSE {}

\* _state_delta and _union_skipped_mutations
StateDelta(req, checkpoint, skipped) == [checkpoint |-> checkpoint, skipped |-> req.skipped \cup skipped]

\* What every output of a step carries
Spent(out, results, req, touched, usage) ==
    [out EXCEPT !.evidence = SearchEvidence(results, req, touched), !.usage = usage]

\* invoke, interrupted by a deferred evaluation
DeferredOutput(req, intent) ==
    [Output("continue") EXCEPT !.intents = <<intent>>, !.state = StateDelta(req, req.checkpoint, {})]

\* _reflection_failure_output
ReflectionFailureOutput(s) == [Failed("gepa_reflection_failed") EXCEPT !.state = [checkpoint |-> None, skipped |-> s.skipped]]

\* _project_result
ProjectResult(s) == [best |-> s.pool[Best(s.pool)].text, consumed |-> s.consumed]

\* project_gepa_terminal and the terminal branch of invoke
TerminalOutput(text) ==
    LET best == [id |-> <<"gepa", 0>>, base |-> SeedCandidate.id, text |-> text]
    IN  IF text = Seed
        THEN [Output("complete") EXCEPT !.seedRetained = TRUE, !.retained = SeedCandidate]
        ELSE [Output("complete") EXCEPT !.proposed = <<best>>, !.accepted = <<best>>]

\* invoke, when the search returned
SearchedOutput(req, s, calls) ==
    LET detailed == ProjectResult(s)
        checkpoint == UpdatedCheckpoint(detailed.consumed, calls)
        out == IF checkpoint.terminal THEN TerminalOutput(detailed.best) ELSE Output("continue")
    IN  [out EXCEPT !.state = StateDelta(req, checkpoint, s.skipped), !.delta = BudgetDelta(checkpoint)]
=============================================================================
