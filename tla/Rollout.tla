------------------------------- MODULE Rollout -------------------------------
(***************************************************************************)
(* The evaluation engine (eval/runtime_engine.py) and its two rollout      *)
(* drivers: the thread pool of eval/drivers/graph_rollout.py and the worker*)
(* pool of eval/drivers/subprocess_graph_rollout.py.  An evaluation runs   *)
(* the rows tasks x seeds against a wall-clock deadline, retries rows that *)
(* failed unattributably, aggregates, rewards and persists them.           *)
(*                                                                         *)
(* Row r is repeat r % NumSeeds of task r \div NumSeeds.  An LLM call is   *)
(* one step, CallExecution has its detail (the prompt cache and the usage  *)
(* included).                                                              *)
(***************************************************************************)
EXTENDS Integers, FiniteSets, FiniteSetsExt

CONSTANTS
    NumTasks, NumSeeds,
    Width,             \* concurrency
    MaxRowAttempts,    \* max_row_attempts of the thread pool driver
    Modes,             \* drivers: "threads", "pool"
    Answers,           \* what an LLM node may meet
    Scores,            \* what an eval node may score
    Plans,             \* completeness and reward policies
    MaxEvals,          \* bound: evaluations
    MaxFaults,         \* bound: failing nodes, null scores, rows that raise, unit timeouts, scheduler breaks
    None

Rows == 0 .. NumTasks * NumSeeds - 1
Tasks == 0 .. NumTasks - 1
RowsOf(t) == {r \in Rows : r \div NumSeeds = t}
Plan == [rowPolicy : {"propagate", "skip"}, maxSkip : 0 .. 100,
         missing : {"fail", "worst", "zero"}, internal : BOOLEAN]

Codes == {"", "blank", "rejection", "error", "node_execution_error", "missing_eval_outcome",
          "cancelled", "not_dispatched", "deadline", "unit_timeout"}
States == {"success", "failed", "missing", "invalid"}

\* RolloutRowOutput, and EvalOutputRow.
Output == [state : States, score : Scores \cup {None}, code : Codes]

\* Scores are scaled so that every mean is an integer.
ASSUME RolloutAssumption ==
    /\ NumTasks \in Nat \ {0} /\ NumSeeds \in Nat \ {0}
    /\ Width \in Nat \ {0} /\ MaxRowAttempts \in Nat \ {0}
    /\ Modes \subseteq {"threads", "pool"}
    /\ Answers \subseteq {"text", "blank", "rejection", "error", "cancelled"}
    /\ \A s \in Scores, m \in 1 .. NumTasks, n \in 1 .. NumSeeds : s \in Nat /\ s % (m * n) = 0
    /\ Plans \subseteq Plan
    /\ MaxEvals \in Nat /\ MaxFaults \in Nat
    /\ None \notin Nat /\ None \notin Rows /\ None \notin Answers /\ None \notin Scores /\ None \notin Output
    /\ None \notin {"completed", "failed", "rejected", "invalid"}

\* What an eval node does: scores, with None for a null score, raises or is not run.
Verdicts == [kind : {"scores"}, score : Scores \cup {None}]
                \cup [kind : {"raises", "absent"}, score : {None}]

VARIABLES
    mode, closed,
    phase,       \* where the driver's main thread is
    next,        \* the next row to submit
    expired,     \* the phase deadline has passed
    late,        \* deadline_reached
    fut,         \* the future or job of each row
    row,         \* the attempt each row is in
    result,      \* what each future holds
    out,         \* outputs_by_key
    looking,     \* the future whose done() was False
    evidence,    \* evidence of the last evaluation
    evals, faults,
    \* what happened, for the properties:
    touched,     \* rows of this evaluation that reached their LLM node
    onTime       \* rows that had finished when the deadline passed

driver == <<mode, closed, phase, next, expired, late, looking>>
work == <<fut, row, result>>
vars == <<driver, work, out, evidence, evals, faults, touched, onTime>>

NoRow == [attempt |-> 0, answer |-> None]
NoEvidence == [kind |-> None, rows |-> None, agg |-> None, values |-> None, counts |-> None,
               reward |-> None, plan |-> None]

TypeOK ==
    /\ mode \in Modes /\ closed \in BOOLEAN
    /\ phase \in {"idle", "submit", "top", "wait", "scan", "drain", "failing"}
    /\ next \in 0 .. NumTasks * NumSeeds
    /\ expired \in BOOLEAN /\ late \in BOOLEAN
    /\ fut \in [Rows -> {"none", "queued", "running", "finished", "raised", "cancelled"}]
    /\ row \in [Rows -> [attempt : 0 .. MaxRowAttempts - 1, answer : Answers \cup {None}]]
    /\ result \in [Rows -> Output \cup {None}]
    /\ out \in [Rows -> Output \cup {None}]
    /\ looking \in Rows \cup {None}
    /\ evidence.kind \in {"completed", "failed", "rejected", None}
    /\ evals \in 0 .. MaxEvals /\ faults \in 0 .. MaxFaults
    /\ touched \subseteq Rows /\ onTime \subseteq Rows

Init ==
    /\ mode \in Modes /\ closed = FALSE
    /\ phase = "idle" /\ next = 0 /\ expired = FALSE /\ late = FALSE
    /\ fut = [r \in Rows |-> "none"]
    /\ row = [r \in Rows |-> NoRow]
    /\ result = [r \in Rows |-> None]
    /\ out = [r \in Rows |-> None]
    /\ looking = None
    /\ evidence = NoEvidence
    /\ evals = 0 /\ faults = 0
    /\ touched = {} /\ onTime = {}

-----------------------------------------------------------------------------
(* One row: run_rollout_row and the graph it executes.                     *)

Attempts == IF mode = "threads" THEN MaxRowAttempts ELSE 1

\* attribute_generated_row_cell, None without a contract attribution
Attributed(code) == IF code \in {"rejection", "blank"} THEN "invalid" ELSE None

\* node_error_row_state
NodeErrorState(code) == IF Attributed(code) # None THEN Attributed(code) ELSE "failed"

RowOutput(state, score, code) == [state |-> state, score |-> score, code |-> code]

\* graph_result_to_row_fields.  An LLM node that failed carries its failure code.
RowFields(answer, verdict) ==
    IF answer = "cancelled" THEN RowOutput("missing", None, "cancelled")
    ELSE IF answer \in {"rejection", "error"} THEN RowOutput(NodeErrorState(answer), None, answer)
    ELSE IF verdict.kind = "absent" THEN RowOutput("missing", None, "missing_eval_outcome")
    ELSE IF verdict.kind = "raises" THEN RowOutput("failed", None, "node_execution_error")
    ELSE RowOutput("success", verdict.score, IF answer = "blank" THEN "blank" ELSE "")

\* _row_is_retryable
Retryable(o) == o.state = "failed" /\ Attributed(o.code) = None

\* An attempt ends: the row is executed again or its future has its result.
EndAttempt(r, o) ==
    LET again == Retryable(o) /\ row[r].attempt + 1 < Attempts
    IN  /\ row' = [row EXCEPT ![r] = IF again THEN [attempt |-> row[r].attempt + 1, answer |-> None]
                                     ELSE NoRow]
        /\ result' = [result EXCEPT ![r] = IF again THEN None ELSE o]
        /\ fut' = [fut EXCEPT ![r] = IF again THEN "running" ELSE "finished"]

\* build_llm_call_run_node
LlmNode(r, answer) ==
    /\ fut[r] = "running" /\ row[r].answer = None
    /\ IF answer \in {"text", "blank"}
       THEN row' = [row EXCEPT ![r].answer = answer] /\ UNCHANGED <<result, fut>>
       ELSE EndAttempt(r, RowFields(answer, None))
    /\ answer = "error" => faults < MaxFaults
    /\ faults' = IF answer = "error" THEN faults + 1 ELSE faults
    /\ touched' = touched \cup {r}
    /\ UNCHANGED <<driver, out, evidence, evals, onTime>>

\* build_eval_run_node
EvalNode(r, verdict) ==
    LET fault == verdict.kind = "raises" \/ (verdict.kind = "scores" /\ verdict.score = None)
    IN  /\ fut[r] = "running" /\ row[r].answer # None
        /\ EndAttempt(r, RowFields(row[r].answer, verdict))
        /\ fault => faults < MaxFaults
        /\ faults' = IF fault THEN faults + 1 ELSE faults
        /\ UNCHANGED <<driver, out, evidence, evals, touched, onTime>>

\* Outside the graph's nodes a row raises: the partial log or the cache refuses a write.
RowRaises(r) ==
    /\ fut[r] = "running" /\ faults < MaxFaults
    /\ faults' = faults + 1
    /\ fut' = [fut EXCEPT ![r] = "raised"]
    /\ row' = [row EXCEPT ![r] = NoRow]
    /\ UNCHANGED <<driver, result, out, evidence, evals, touched, onTime>>

-----------------------------------------------------------------------------
(* Both drivers.                                                           *)

Running == {r \in Rows : fut[r] = "running"}
Queued == {r \in Rows : fut[r] = "queued"}
Finished == {r \in Rows : fut[r] = "finished"}
Unfinished == {r \in Rows : fut[r] # "none" /\ out[r] = None}

\* _deadline_missing_row and decode_graph_row_output
MissingRow(code) == RowOutput("missing", None, code)

Fresh ==
    /\ next' = 0 /\ expired' = FALSE /\ late' = FALSE /\ looking' = None
    /\ fut' = [r \in Rows |-> "none"]
    /\ row' = [r \in Rows |-> NoRow]
    /\ result' = [r \in Rows |-> None]
    /\ out' = [r \in Rows |-> None]
    /\ touched' = {} /\ onTime' = {}

\* evaluate, up to the driver's run.  A driver that was closed refuses.
Begin ==
    /\ phase = "idle" /\ evals < MaxEvals
    /\ evals' = evals + 1
    /\ Fresh
    /\ phase' = IF mode = "pool" /\ closed THEN "failing" ELSE "submit"
    /\ evidence' = NoEvidence
    /\ UNCHANGED <<mode, closed, faults>>

\* _preflight: the candidate's template is refused before any row.
Reject ==
    /\ phase = "idle" /\ evals < MaxEvals
    /\ evals' = evals + 1
    /\ evidence' = [NoEvidence EXCEPT !.kind = "rejected"]
    /\ UNCHANGED <<driver, work, out, faults, touched, onTime>>

\* The deadline passes.
Expire ==
    /\ phase \notin {"idle", "failing"} /\ ~expired
    /\ expired' = TRUE
    /\ onTime' = Finished
    /\ UNCHANGED <<mode, closed, phase, next, late, looking, work, out, evidence, evals, faults,
                   touched>>

\* RuntimeEvalEngine.close
Close ==
    /\ phase = "idle" /\ mode = "pool" /\ ~closed
    /\ closed' = TRUE
    /\ UNCHANGED <<mode, phase, next, expired, late, looking, work, out, evidence, evals, faults,
                   touched, onTime>>

\* A worker thread, or process, takes the row at the head of the queue.
Pick(r) ==
    /\ r \in Queued /\ \A q \in Queued : r <= q
    /\ Cardinality(Running) < Width
    /\ mode = "pool" => phase = "wait" /\ ~expired
    /\ fut' = [fut EXCEPT ![r] = "running"]
    /\ UNCHANGED <<driver, row, result, out, evidence, evals, faults, touched, onTime>>

-----------------------------------------------------------------------------
(* GraphRolloutEvalDriver.run                                              *)

Submit ==
    /\ mode = "threads" /\ phase = "submit"
    /\ IF expired
       THEN /\ out' = [out EXCEPT ![next] = MissingRow("not_dispatched")]
            /\ late' = TRUE
            /\ UNCHANGED fut
       ELSE /\ fut' = [fut EXCEPT ![next] = "queued"]
            /\ UNCHANGED <<out, late>>
    /\ next' = next + 1
    /\ phase' = IF next + 1 \in Rows THEN "submit" ELSE "top"
    /\ UNCHANGED <<mode, closed, expired, looking, row, result, evidence, evals, faults, touched,
                   onTime>>

Top ==
    /\ mode = "threads" /\ phase = "top"
    /\ phase' = IF Unfinished = {} THEN "drain" ELSE IF expired THEN "scan" ELSE "wait"
    /\ late' = (late \/ phase' = "scan")
    /\ UNCHANGED <<mode, closed, next, expired, looking, work, out, evidence, evals, faults,
                   touched, onTime>>

\* wait(FIRST_COMPLETED) returns what is done, or times out.  A row that raised
\* raises here; the executor then still runs every row that was submitted.
Collect ==
    LET done == {r \in Unfinished : fut[r] \in {"finished", "raised"}}
    IN  /\ mode = "threads" /\ phase = "wait"
        /\ done # {} \/ expired
        /\ IF \E r \in done : fut[r] = "raised"
           THEN phase' = "failing" /\ UNCHANGED out
           ELSE /\ out' = [r \in Rows |-> IF r \in done THEN result[r] ELSE out[r]]
                /\ phase' = "top"
        /\ UNCHANGED <<mode, closed, next, expired, late, looking, work, evidence, evals, faults,
                       touched, onTime>>

\* Mutant: cancel() without done().
ScanDoneSkipped(r) ==
    /\ mode = "threads" /\ phase = "scan" /\ looking = None
    /\ r \in Unfinished
    /\ looking' = r
    /\ UNCHANGED <<mode, closed, phase, next, expired, late, work, out, evidence, evals, faults,
                   touched, onTime>>

\* After the deadline: done() first ...
ScanDone(r) ==
    /\ mode = "threads" /\ phase = "scan" /\ looking = None
    /\ r \in Unfinished
    /\ CASE fut[r] = "finished" -> out' = [out EXCEPT ![r] = result[r]] /\ UNCHANGED <<phase,
                                                                                       looking>>
         [] fut[r] = "raised" -> phase' = "failing" /\ UNCHANGED <<out, looking>>
         [] OTHER -> looking' = r /\ UNCHANGED <<out, phase>>
    /\ UNCHANGED <<mode, closed, next, expired, late, work, evidence, evals, faults, touched,
                   onTime>>

\* ... then cancel(), which only stops a future that has not begun to run.
ScanCancel(r) ==
    /\ mode = "threads" /\ phase = "scan" /\ looking = r
    /\ fut' = [fut EXCEPT ![r] = IF fut[r] = "queued" THEN "cancelled" ELSE fut[r]]
    /\ out' = [out EXCEPT ![r] = MissingRow(IF fut[r] = "queued" THEN "not_dispatched" ELSE "deadline")]
    /\ looking' = None
    /\ UNCHANGED <<mode, closed, phase, next, expired, late, row, result, evidence, evals, faults,
                   touched, onTime>>

ScanEnds ==
    /\ mode = "threads" /\ phase = "scan" /\ looking = None /\ Unfinished = {}
    /\ phase' = "drain"
    /\ UNCHANGED <<mode, closed, next, expired, late, looking, work, out, evidence, evals, faults,
                   touched, onTime>>

-----------------------------------------------------------------------------
(* SubprocessGraphRolloutEvalDriver.run                                    *)

PoolSubmit ==
    /\ mode = "pool" /\ phase = "submit"
    /\ fut' = [r \in Rows |-> "queued"]
    /\ phase' = "wait"
    /\ UNCHANGED <<mode, closed, next, expired, late, looking, row, result, out, evidence, evals,
                   faults, touched, onTime>>

\* _interpret_completion of one row.  The worker of a row that is cancelled or runs
\* out of its own budget is killed.
PoolCompletion(r) ==
    LET Missing(code) ==
            /\ out' = [out EXCEPT ![r] = MissingRow(code)]
            /\ fut' = [fut EXCEPT ![r] = "cancelled"]
            /\ row' = [row EXCEPT ![r] = NoRow]
            /\ UNCHANGED phase
    IN  /\ mode = "pool" /\ phase = "wait" /\ out[r] = None
        /\ \/ /\ fut[r] = "finished"
              /\ out' = [out EXCEPT ![r] = result[r]]
              /\ UNCHANGED <<fut, row, phase, late, faults>>
           \/ /\ fut[r] = "raised"
              /\ phase' = "failing"
              /\ UNCHANGED <<out, fut, row, late, faults>>
           \/ /\ fut[r] = "queued" /\ expired
              /\ Missing("not_dispatched") /\ late' = TRUE /\ UNCHANGED faults
           \/ /\ fut[r] = "running" /\ expired
              /\ Missing("deadline") /\ late' = TRUE /\ UNCHANGED faults
           \/ /\ fut[r] = "running" /\ faults < MaxFaults
              /\ Missing("unit_timeout") /\ faults' = faults + 1 /\ UNCHANGED late
        /\ UNCHANGED <<mode, closed, next, expired, looking, result, evidence, evals, touched,
                       onTime>>

\* The scheduler breaks, or a row has no outcome: RowWorkerError.
PoolBreaks ==
    /\ mode = "pool" /\ phase = "wait" /\ faults < MaxFaults
    /\ faults' = faults + 1
    /\ phase' = "failing"
    /\ UNCHANGED <<mode, closed, next, expired, late, looking, work, out, evidence, evals,
                   touched, onTime>>

PoolEnds ==
    /\ mode = "pool" /\ phase = "wait" /\ \A r \in Rows : out[r] # None
    /\ phase' = "drain"
    /\ UNCHANGED <<mode, closed, next, expired, late, looking, work, out, evidence, evals, faults,
                   touched, onTime>>

-----------------------------------------------------------------------------
(* Aggregation, reward and evidence.                                       *)

RowValue(cell, score) == [cell |-> cell, value |-> score]

\* Mutant: the failure code is not attributed.
GeneratedByState(o) ==
    IF o.state = "missing" THEN RowValue("missing", None)
    ELSE IF o.state = "failed" \/ o.score = None THEN RowValue("failed", None)
    ELSE RowValue("scored", o.score)

\* attribute_generated_row
Generated(o) ==
    IF o.state = "missing" THEN RowValue("missing", None)
    ELSE IF o.state = "failed" \/ o.score = None
    THEN RowValue(IF Attributed(o.code) = None THEN "failed" ELSE "invalid", None)
    ELSE RowValue("scored", o.score)

\* attribute_published_row, from the flags of an EvalOutputRow
Published(o) == RowValue(IF o.state = "success" THEN "scored" ELSE o.state, o.score)

\* aggregate, of a function of AggregationInputs
Aggregation(policy, inputs) ==
    LET applicable == {i \in DOMAIN inputs : inputs[i].applicable}
        present == {i \in applicable : inputs[i].value # None}
    IN  IF applicable = {} THEN [status |-> "not_applicable", value |-> None]
        ELSE IF present # applicable /\ policy = "propagate" THEN [status |-> "missing_data", value |-> None]
        ELSE IF present = {} THEN [status |-> "zero_denominator", value |-> None]
        ELSE [status |-> "ok",
              value |-> MapThenSumSet(LAMBDA i : inputs[i].value, present) \div Cardinality(present)]

\* The mean of one task's rows; per_task_score is its value.
TaskMean(plan, values, t) ==
    Aggregation(plan.rowPolicy,
                [r \in RowsOf(t) |-> [applicable |-> values[r].cell # "invalid",
                                      value |-> values[r].value]])

PerTaskScores(plan, values) == [t \in Tasks |-> TaskMean(plan, values, t).value]
PerTaskCounts(values) == [t \in Tasks |-> Cardinality({r \in RowsOf(t) : values[r].cell = "scored"})]

\* enforce_skip_tolerance
WithinTolerance(plan, values) ==
    \/ plan.rowPolicy # "skip"
    \/ 100 * Cardinality({r \in Rows : values[r].cell # "scored"}) <= plan.maxSkip * Cardinality(Rows)

\* unweighted_task_mean
TaskAverage(plan, values) ==
    LET means == [t \in Tasks |-> TaskMean(plan, values, t)]
        mean == Aggregation(plan.rowPolicy,
                            [t \in Tasks |-> [applicable |-> means[t].status # "not_applicable",
                                              value |-> means[t].value]])
        count(cell) == Cardinality({r \in Rows : values[r].cell = cell})
    IN  [output |-> IF WithinTolerance(plan, values) THEN mean
                    ELSE [status |-> "missing_data", value |-> None],
         present |-> count("scored"), missing |-> count("missing"),
         failed |-> count("failed"), invalid |-> count("invalid")]

\* EvalOutputRow: an unscored row must be failed, missing or invalid.
Recordable(o) == (o.score # None) = (o.state = "success")

\* apply_reward_policy raises for a missing aggregate under FAIL.
RewardRaises(plan, agg) == plan.internal /\ plan.missing = "fail" /\ agg.output.value = None

RewardOf(plan, agg) ==
    IF ~plan.internal THEN None
    ELSE IF agg.output.value # None THEN agg.output.value
    ELSE IF plan.missing = "worst" THEN -1 ELSE 0

\* _persist_success, or _persist_failure with the rows when only the reward failed.
Persist(plan) ==
    LET values == [r \in Rows |-> Generated(out[r])]
        agg == TaskAverage(plan, values)
        recordable == \A r \in Rows : Recordable(out[r])
        completed == recordable /\ ~RewardRaises(plan, agg)
    IN  /\ phase = "drain" /\ Running = {} /\ Queued = {}
        /\ evidence' = IF completed
               THEN [kind |-> "completed", rows |-> out, agg |-> agg, plan |-> plan,
                     values |-> PerTaskScores(plan, values), counts |-> PerTaskCounts(values),
                     reward |-> RewardOf(plan, agg)]
               ELSE [NoEvidence EXCEPT !.kind = "failed", !.rows = IF recordable THEN out ELSE None]
        /\ phase' = "idle"
        /\ UNCHANGED <<mode, closed, next, expired, late, looking, work, out, evals, faults,
                       touched, onTime>>

\* What evaluations made in different ways must agree on.
Derived(ev) == [agg |-> ev.agg, reward |-> ev.reward, values |-> ev.values, counts |-> ev.counts]

\* _validate_row_derivation, which does not know the plan: a count is that of the scored
\* rows, a value is their mean, and it is withheld only from an incomplete task.
DerivationAccepted(ev) ==
    LET values == [r \in Rows |-> Published(ev.rows[r])]
        Present(t) == {r \in RowsOf(t) : values[r].cell = "scored"}
    IN  \A t \in Tasks :
            /\ ev.counts[t] = Cardinality(Present(t))
            /\ IF ev.values[t] = None THEN Present(t) # RowsOf(t)
               ELSE /\ Present(t) # {}
                    /\ ev.values[t] * Cardinality(Present(t))
                           = MapThenSumSet(LAMBDA r : values[r].value, Present(t))

\* evaluate_row under the sampling of _derive_task_seed_sampling, one task and one seed:
\* an unscored row alone has no aggregate, and its reward fails under FAIL.
SliceCompleted(plan, o) ==
    Recordable(o) /\ (plan.internal /\ plan.missing = "fail" => Generated(o).cell = "scored")

\* _persist_assembled_success
Assembled(plan, rows) ==
    LET values == [r \in Rows |-> Published(rows[r])]
        agg == TaskAverage(plan, values)
    IN  [agg |-> agg, reward |-> RewardOf(plan, agg), values |-> PerTaskScores(plan, values),
         counts |-> PerTaskCounts(values)]

\* The driver raised: its rows are lost with it.
PersistFailure ==
    /\ phase = "failing"
    /\ mode = "pool" \/ (Running = {} /\ Queued = {})
    /\ phase' = "idle"
    /\ evidence' = [NoEvidence EXCEPT !.kind = "failed"]
    /\ fut' = [r \in Rows |-> IF fut[r] \in {"queued", "running"} THEN "cancelled" ELSE fut[r]]
    /\ row' = [r \in Rows |-> NoRow]
    /\ UNCHANGED <<mode, closed, next, expired, late, looking, result, out, evals,
                   faults, touched, onTime>>

Done ==
    /\ phase = "idle" /\ evals = MaxEvals
    /\ UNCHANGED vars

-----------------------------------------------------------------------------
Next ==
    \/ Begin \/ Reject \/ Expire \/ Close
    \/ \E r \in Rows :
        \/ Pick(r) \/ RowRaises(r)
        \/ \E a \in Answers : LlmNode(r, a)
        \/ \E v \in Verdicts : EvalNode(r, v)
        \/ ScanDone(r) \/ ScanCancel(r) \/ PoolCompletion(r)
    \/ Submit \/ Top \/ Collect \/ ScanEnds
    \/ PoolSubmit \/ PoolBreaks \/ PoolEnds
    \/ \E plan \in Plans : Persist(plan)
    \/ PersistFailure
    \/ Done

Spec == Init /\ [][Next]_vars

-----------------------------------------------------------------------------
(* Properties.                                                             *)

\* What an evaluation says of its rows is what happened to them: a row called not
\* dispatched never reached the provider, a row called deadline did begin, and a row
\* that had finished when the deadline passed keeps its result although cancel()
\* refuses it as it refuses a running one (graph_rollout.py run, _interpret_completion).
DeadlineRowsTruthful ==
    \A r \in Rows : out[r] # None =>
        /\ out[r].code = "not_dispatched" => r \notin touched /\ fut[r] \notin {"running", "finished"}
        /\ out[r].code = "deadline" => fut[r] # "queued" /\ late
        /\ r \in onTime => out[r] = result[r]

\* The evidence an evaluation persists passes the derivation the evaluation service
\* repeats before it binds it (_validate_row_derivation), and the platform's fan-in, when
\* each of the rows alone completed, assembles from them the same aggregate, reward and
\* per-task vector (_persist_assembled_success).
EvidenceRederives ==
    evidence.kind = "completed" =>
        /\ DerivationAccepted(evidence)
        /\ (\A r \in Rows : SliceCompleted(evidence.plan, evidence.rows[r])) =>
               Assembled(evidence.plan, evidence.rows) = Derived(evidence)
=============================================================================
