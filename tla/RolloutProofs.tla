---------------------------- MODULE RolloutProofs ----------------------------
(***************************************************************************)
(* What an evaluation says of its rows, for every number of tasks and      *)
(* seeds, every concurrency and both drivers.                              *)
(***************************************************************************)
EXTENDS Rollout, FiniteSetTheorems, WellFoundedInduction, TLAPS

-----------------------------------------------------------------------------
(* The inductive invariant.                                                *)

\* A row has a score only if it succeeded, and its state agrees with what its
\* failure code is attributed to.
Attributable(o) ==
    /\ o.state # "success" => o.score = None
    /\ o.state = "failed" => Attributed(o.code) = None
    /\ o.state = "invalid" => Attributed(o.code) # None

\* What a future holds, and what the driver makes of it.
FutureInv(r) ==
    /\ r \in touched => fut[r] \notin {"none", "queued"}
    /\ r \in onTime => fut[r] = "finished"
    /\ fut[r] = "finished" => result[r] # None
    /\ result[r] # None =>
           Attributable(result[r]) /\ result[r].code \notin {"not_dispatched", "deadline"}

OutputInv(r) ==
    out[r] # None =>
        /\ Attributable(out[r])
        /\ out[r].code = "not_dispatched" => fut[r] \in {"none", "cancelled"} /\ r \notin touched
        /\ out[r].code = "deadline" => fut[r] \notin {"none", "queued"} /\ late
        /\ ~expired => fut[r] = "cancelled" \/ (fut[r] = "finished" /\ out[r] = result[r])
        /\ r \in onTime => out[r] = result[r]

\* Where the driver is.
PhaseInv ==
    /\ phase = "submit" =>
        /\ next \in Rows
        /\ mode = "pool" => next = 0
        /\ \A r \in Rows : IF r < next THEN fut[r] # "none" \/ out[r] # None
                                       ELSE fut[r] = "none" /\ out[r] = None
    /\ phase \in {"top", "wait", "scan", "drain"} => \A r \in Rows : fut[r] # "none" \/ out[r] # None
    /\ phase = "drain" => \A r \in Rows : out[r] # None
    /\ phase = "scan" => expired /\ late
    /\ looking # None => phase = "scan" /\ looking \notin onTime /\ fut[looking] # "none"

\* The evidence of an evaluation derives from its rows.
CompletedEvidence(plan, rows) ==
    LET values == [r \in Rows |-> Generated(rows[r])]
        agg == TaskAverage(plan, values)
    IN  [kind |-> "completed", rows |-> rows, agg |-> agg, plan |-> plan,
         values |-> PerTaskScores(plan, values), counts |-> PerTaskCounts(values),
         reward |-> RewardOf(plan, agg)]

EvidenceInv ==
    evidence.kind = "completed" =>
        \E plan \in Plans, rows \in [Rows -> Output] :
            /\ \A r \in Rows : Attributable(rows[r]) /\ Recordable(rows[r])
            /\ evidence = CompletedEvidence(plan, rows)

IInv ==
    /\ TypeOK
    /\ \A r \in Rows : FutureInv(r) /\ OutputInv(r)
    /\ PhaseInv
    /\ EvidenceInv

-----------------------------------------------------------------------------
(* Rows and what they return.                                              *)

\* There is a first row, and the rows are consecutive.
LEMMA RowsFacts ==
    /\ NumTasks * NumSeeds \in Nat \ {0} /\ 0 \in Rows
    /\ \A r \in Rows : r \in Nat /\ r < NumTasks * NumSeeds
    /\ \A n \in Nat : n < NumTasks * NumSeeds => n \in Rows
  <1>1. ASSUME NEW m \in Nat \ {0}, NEW n \in Nat \ {0} PROVE m * n \in Nat \ {0}
    OBVIOUS
  <1>2. PICK k \in Nat \ {0} : k = NumTasks * NumSeeds
    BY <1>1, RolloutAssumption
  <1>3. Rows = 0 .. k - 1
    BY <1>2 DEF Rows
  <1> QED
    BY <1>2, <1>3

\* What a row that was executed returns: never one of the codes the driver gives.
LEMMA RowFieldsReturn ==
    ASSUME NEW answer \in Answers, NEW verdict, answer \in {"text", "blank"} => verdict \in Verdicts
    PROVE  /\ RowFields(answer, verdict) \in Output
           /\ Attributable(RowFields(answer, verdict))
           /\ RowFields(answer, verdict).code \notin {"not_dispatched", "deadline"}
  <1> DEFINE o == RowFields(answer, verdict)
  <1>1. answer \in {"text", "blank", "rejection", "error", "cancelled"} /\ None # "invalid"
    BY RolloutAssumption
  <1>2. CASE answer = "cancelled"
    <2>1. o = RowOutput("missing", None, "cancelled")
      BY <1>2 DEF RowFields
    <2> QED
      BY <2>1 DEF RowOutput, Output, States, Codes, Attributable
  <1>3. CASE answer = "rejection"
    <2>1. o = RowOutput("invalid", None, "rejection")
      BY <1>1, <1>3 DEF RowFields, NodeErrorState, Attributed
    <2> QED
      BY <1>1, <2>1 DEF RowOutput, Output, States, Codes, Attributable, Attributed
  <1>4. CASE answer = "error"
    <2>1. o = RowOutput("failed", None, "error")
      BY <1>4 DEF RowFields, NodeErrorState, Attributed
    <2> QED
      BY <2>1 DEF RowOutput, Output, States, Codes, Attributable, Attributed
  <1>5. CASE answer \in {"text", "blank"}
    <2>1. /\ verdict.kind \in {"scores", "raises", "absent"} /\ verdict.score \in Scores \cup {None}
      BY <1>5 DEF Verdicts
    <2>2. o = IF verdict.kind = "absent" THEN RowOutput("missing", None, "missing_eval_outcome")
              ELSE IF verdict.kind = "raises" THEN RowOutput("failed", None, "node_execution_error")
              ELSE RowOutput("success", verdict.score, IF answer = "blank" THEN "blank" ELSE "")
      <3>1. answer # "cancelled" /\ answer \notin {"rejection", "error"}
        BY <1>5
      <3> QED
        BY <3>1 DEF RowFields
    <2>3. CASE verdict.kind = "absent"
      <3>1. o = RowOutput("missing", None, "missing_eval_outcome")
        BY <2>2, <2>3
      <3> QED
        BY <3>1 DEF RowOutput, Output, States, Codes, Attributable
    <2>4. CASE verdict.kind = "raises"
      <3>1. o = RowOutput("failed", None, "node_execution_error")
        BY <2>2, <2>4
      <3> QED
        BY <3>1 DEF RowOutput, Output, States, Codes, Attributable, Attributed
    <2>5. CASE verdict.kind = "scores"
      <3>1. o = RowOutput("success", verdict.score, "blank") \/ o = RowOutput("success", verdict.score, "")
        BY <2>2, <2>5
      <3>2. /\ "" \in Codes \ {"not_dispatched", "deadline"} /\ "blank" \in Codes \ {"not_dispatched", "deadline"}
        BY DEF Codes
      <3>3. PICK code \in Codes \ {"not_dispatched", "deadline"} : o = RowOutput("success", verdict.score, code)
        BY <3>1, <3>2
      <3> QED
        BY <2>1, <3>3 DEF RowOutput, Output, States, Attributable
    <2> QED
      BY <2>1, <2>3, <2>4, <2>5
  <1> QED
    BY <1>1, <1>2, <1>3, <1>4, <1>5

\* The rows that the driver gives up.
LEMMA MissingRowReturn ==
    ASSUME NEW code \in {"not_dispatched", "deadline", "unit_timeout"}
    PROVE  /\ MissingRow(code) \in Output /\ Attributable(MissingRow(code)) /\ MissingRow(code) # None
           /\ MissingRow(code).code = code
  <1>1. MissingRow(code) \in Output
    BY DEF MissingRow, RowOutput, Output, States, Codes
  <1> QED
    BY <1>1, RolloutAssumption DEF MissingRow, RowOutput, Attributable

\* Evidence that is left alone still derives from its rows.
LEMMA EvidenceKept ==
    ASSUME IInv, UNCHANGED evidence
    PROVE  EvidenceInv'
  BY DEF IInv, EvidenceInv

-----------------------------------------------------------------------------
(* Steps of a row.                                                         *)

\* A running row goes on, ends or raises.
LEMMA RowStep ==
    ASSUME IInv, NEW r \in Rows, fut[r] = "running",
           NEW f \in {"running", "finished", "raised"}, fut' = [fut EXCEPT ![r] = f],
           result'[r] = None \/ /\ Attributable(result'[r])
                                /\ result'[r].code \notin {"not_dispatched", "deadline"}
             \/ result'[r] = result[r],
           f = "finished" => result'[r] # None,
           \A q \in Rows \ {r} : result'[q] = result[q],
           touched' \in {touched, touched \cup {r}}, TypeOK',
           UNCHANGED <<driver, out, evidence, onTime>>
    PROVE  IInv'
  <1>1. /\ fut'[r] = f /\ \A q \in Rows \ {r} : fut'[q] = fut[q]
        /\ UNCHANGED <<phase, next, mode, looking, expired, late, out, evidence, onTime>>
        /\ r \notin onTime /\ (out[r] # None => expired /\ out[r].code # "not_dispatched")
    BY DEF IInv, TypeOK, driver, FutureInv, OutputInv
  <1>2. ASSUME NEW q \in Rows PROVE FutureInv(q)' /\ OutputInv(q)'
    <2>1. FutureInv(q) /\ OutputInv(q)
      BY DEF IInv
    <2>2. CASE q = r
      BY <1>1, <2>1, <2>2 DEF FutureInv, OutputInv
    <2>3. CASE q # r
      BY <1>1, <2>1, <2>3 DEF FutureInv, OutputInv
    <2> QED
      BY <2>2, <2>3
  <1>3. PhaseInv'
    <2>1. \A q \in Rows : fut'[q] = "none" <=> fut[q] = "none"
      BY <1>1
    <2>2. looking # None => looking \in Rows
      BY DEF IInv, TypeOK
    <2> QED
      BY <1>1, <2>1, <2>2 DEF IInv, PhaseInv
  <1> QED
    BY <1>2, <1>3, EvidenceKept DEF IInv

\* The end of an attempt with what the row returned.
LEMMA EndAttemptStep ==
    ASSUME IInv, NEW r \in Rows, fut[r] = "running", NEW o \in Output, EndAttempt(r, o),
           Attributable(o), o.code \notin {"not_dispatched", "deadline"},
           touched' \in {touched, touched \cup {r}}, faults' \in 0 .. MaxFaults,
           UNCHANGED <<driver, out, evidence, evals, onTime>>
    PROVE  IInv'
  <1>1. row[r] \in [attempt : 0 .. MaxRowAttempts - 1, answer : Answers \cup {None}] /\ TypeOK
    BY DEF IInv, TypeOK
  <1>2. PICK again \in BOOLEAN : again = (Retryable(o) /\ row[r].attempt + 1 < Attempts)
    OBVIOUS
  <1>3. /\ row' = [row EXCEPT ![r] = IF again THEN [attempt |-> row[r].attempt + 1, answer |-> None] ELSE NoRow]
        /\ result' = [result EXCEPT ![r] = IF again THEN None ELSE o]
        /\ fut' = [fut EXCEPT ![r] = IF again THEN "running" ELSE "finished"]
    BY <1>2 DEF EndAttempt
  <1>4. row' \in [Rows -> [attempt : 0 .. MaxRowAttempts - 1, answer : Answers \cup {None}]]
    <2>1. MaxRowAttempts \in Nat \ {0} /\ Attempts \in {1, MaxRowAttempts}
      BY RolloutAssumption DEF Attempts
    <2>2. NoRow \in [attempt : 0 .. MaxRowAttempts - 1, answer : Answers \cup {None}]
      BY <2>1 DEF NoRow
    <2>3. again => row[r].attempt + 1 \in 0 .. MaxRowAttempts - 1
      <3>1. PICK n \in 0 .. MaxRowAttempts - 1 : n = row[r].attempt
        BY <1>1
      <3>2. again => n + 1 < Attempts
        BY <1>2, <3>1
      <3> QED
        BY <2>1, <3>1, <3>2
    <2>4. again => [attempt |-> row[r].attempt + 1, answer |-> None]
                       \in [attempt : 0 .. MaxRowAttempts - 1, answer : Answers \cup {None}]
      BY <2>3
    <2> QED
      BY <1>1, <1>3, <2>2, <2>4 DEF TypeOK
  <1>5. PICK f \in {"running", "finished"} : f = IF again THEN "running" ELSE "finished"
    OBVIOUS
  <1>6. /\ result' \in [Rows -> Output \cup {None}] /\ fut' = [fut EXCEPT ![r] = f]
        /\ result'[r] = (IF again THEN None ELSE o) /\ \A q \in Rows \ {r} : result'[q] = result[q]
    BY <1>1, <1>3, <1>5 DEF TypeOK
  <1>7. TypeOK'
    BY <1>1, <1>4, <1>6 DEF TypeOK, driver
  <1>8. f = "finished" => result'[r] # None
    BY <1>5, <1>6, RolloutAssumption
  <1> QED
    BY <1>6, <1>7, <1>8, RowStep

\* The LLM node answers, is refused or fails.
LEMMA LlmNodeInvariant ==
    ASSUME IInv, NEW r \in Rows, NEW answer \in Answers, LlmNode(r, answer)
    PROVE  IInv'
  <1>1. /\ fut[r] = "running" /\ touched' = touched \cup {r} /\ TypeOK
        /\ UNCHANGED <<driver, out, evidence, evals, onTime>>
    BY DEF LlmNode, IInv
  <1>2. faults' \in 0 .. MaxFaults
    BY <1>1, RolloutAssumption DEF LlmNode, TypeOK
  <1>3. CASE answer \in {"text", "blank"}
    <2>1. row' = [row EXCEPT ![r].answer = answer] /\ result' = result /\ fut' = fut
      BY <1>3 DEF LlmNode
    <2>2. row' \in [Rows -> [attempt : 0 .. MaxRowAttempts - 1, answer : Answers \cup {None}]]
      BY <1>1, <2>1 DEF TypeOK
    <2>3. TypeOK'
      BY <1>1, <1>2, <2>1, <2>2 DEF TypeOK, driver
    <2>4. fut' = [fut EXCEPT ![r] = "running"]
      BY <1>1, <2>1 DEF TypeOK
    <2> QED
      BY <1>1, <2>1, <2>3, <2>4, RowStep
  <1>4. CASE answer \notin {"text", "blank"}
    <2>1. EndAttempt(r, RowFields(answer, None))
      BY <1>4 DEF LlmNode
    <2>2. /\ RowFields(answer, None) \in Output /\ Attributable(RowFields(answer, None))
          /\ RowFields(answer, None).code \notin {"not_dispatched", "deadline"}
      BY <1>4, RowFieldsReturn
    <2> QED
      BY <1>1, <1>2, <2>1, <2>2, EndAttemptStep
  <1> QED
    BY <1>3, <1>4

\* The eval node scores, raises or is not run.
LEMMA EvalNodeInvariant ==
    ASSUME IInv, NEW r \in Rows, NEW verdict \in Verdicts, EvalNode(r, verdict)
    PROVE  IInv'
  <1>1. /\ fut[r] = "running" /\ TypeOK /\ touched' = touched
        /\ EndAttempt(r, RowFields(row[r].answer, verdict))
        /\ UNCHANGED <<driver, out, evidence, evals, onTime>>
    BY DEF EvalNode, IInv
  <1>2. row[r].answer \in Answers
    BY DEF EvalNode, IInv, TypeOK
  <1>3. faults' \in 0 .. MaxFaults
    BY <1>1, RolloutAssumption DEF EvalNode, TypeOK
  <1>4. /\ RowFields(row[r].answer, verdict) \in Output /\ Attributable(RowFields(row[r].answer, verdict))
        /\ RowFields(row[r].answer, verdict).code \notin {"not_dispatched", "deadline"}
    BY <1>2, RowFieldsReturn
  <1> QED
    BY <1>1, <1>3, <1>4, EndAttemptStep

\* A row raises.
LEMMA RowRaisesInvariant ==
    ASSUME IInv, NEW r \in Rows, RowRaises(r)
    PROVE  IInv'
  <1>1. /\ fut[r] = "running" /\ TypeOK /\ fut' = [fut EXCEPT ![r] = "raised"]
        /\ row' = [row EXCEPT ![r] = NoRow] /\ faults' = faults + 1 /\ faults < MaxFaults
        /\ UNCHANGED <<driver, result, out, evidence, evals, touched, onTime>>
    BY DEF RowRaises, IInv
  <1>2. NoRow \in [attempt : 0 .. MaxRowAttempts - 1, answer : Answers \cup {None}]
    BY RolloutAssumption DEF NoRow
  <1>3. faults' \in 0 .. MaxFaults
    BY <1>1, RolloutAssumption DEF TypeOK
  <1>4. TypeOK'
    BY <1>1, <1>2, <1>3 DEF TypeOK, driver
  <1> QED
    BY <1>1, <1>4, RowStep

-----------------------------------------------------------------------------
(* Steps of the drivers.                                                   *)

\* A row a step leaves alone.
LEMMA RowKept ==
    ASSUME IInv, NEW q \in Rows, fut'[q] = fut[q], result'[q] = result[q], out'[q] = out[q],
           q \in touched' => q \in touched, q \in onTime' => q \in onTime,
           expired' = expired, late => late'
    PROVE  FutureInv(q)' /\ OutputInv(q)'
  <1>1. FutureInv(q) /\ OutputInv(q)
    BY DEF IInv
  <1> QED
    BY <1>1 DEF FutureInv, OutputInv

\* No future has been looked at outside the scan.
LEMMA LookingOnlyInScan ==
    ASSUME IInv, phase # "scan"
    PROVE  looking = None
  BY DEF IInv, PhaseInv

\* An evaluation begins with fresh rows.
LEMMA BeginInvariant ==
    ASSUME IInv, Begin
    PROVE  IInv'
  <1>1. /\ TypeOK /\ mode' = mode /\ closed' = closed /\ faults' = faults /\ evals' = evals + 1 /\ evals < MaxEvals
        /\ phase' \in {"submit", "failing"} /\ next' = 0 /\ expired' = FALSE /\ late' = FALSE /\ looking' = None
        /\ fut' = [r \in Rows |-> "none"] /\ row' = [r \in Rows |-> NoRow]
        /\ result' = [r \in Rows |-> None] /\ out' = [r \in Rows |-> None]
        /\ touched' = {} /\ onTime' = {} /\ evidence' = NoEvidence
    BY DEF Begin, Fresh, IInv
  <1>2. NoRow \in [attempt : 0 .. MaxRowAttempts - 1, answer : Answers \cup {None}]
    BY RolloutAssumption DEF NoRow
  <1>3. evidence'.kind = None /\ None # "completed"
    BY <1>1, RolloutAssumption DEF NoEvidence
  <1>4. evals' \in 0 .. MaxEvals
    BY <1>1, RolloutAssumption DEF TypeOK
  <1>5. next' \in 0 .. NumTasks * NumSeeds
    BY <1>1, RowsFacts
  <1>6. TypeOK'
    BY <1>1, <1>2, <1>3, <1>4, <1>5 DEF TypeOK
  <1>7. \A r \in Rows : FutureInv(r)' /\ OutputInv(r)'
    BY <1>1 DEF FutureInv, OutputInv
  <1>8. PhaseInv'
    BY <1>1, RowsFacts DEF PhaseInv
  <1> QED
    BY <1>3, <1>6, <1>7, <1>8 DEF IInv, EvidenceInv

\* A template is refused.
LEMMA RejectInvariant ==
    ASSUME IInv, Reject
    PROVE  IInv'
  <1>1. /\ TypeOK /\ evals' = evals + 1 /\ evals < MaxEvals
        /\ UNCHANGED <<driver, work, out, faults, touched, onTime>>
    BY DEF Reject, IInv
  <1>2. evidence'.kind = "rejected"
    BY DEF Reject, NoEvidence
  <1>3. evals' \in 0 .. MaxEvals
    BY <1>1, RolloutAssumption DEF TypeOK
  <1>4. TypeOK'
    BY <1>1, <1>2, <1>3 DEF TypeOK, driver, work
  <1>5. \A r \in Rows : FutureInv(r)' /\ OutputInv(r)'
    BY <1>1, RowKept DEF driver, work
  <1>6. PhaseInv'
    BY <1>1 DEF driver, work, IInv, PhaseInv
  <1> QED
    BY <1>2, <1>4, <1>5, <1>6 DEF IInv, EvidenceInv

\* The deadline passes.
LEMMA ExpireInvariant ==
    ASSUME IInv, Expire
    PROVE  IInv'
  <1>1. /\ TypeOK /\ ~expired /\ expired' = TRUE /\ onTime' = {r \in Rows : fut[r] = "finished"}
        /\ UNCHANGED <<mode, closed, phase, next, late, looking, work, out, evidence, evals, faults, touched>>
    BY DEF Expire, IInv, Finished
  <1>2. TypeOK'
    BY <1>1 DEF TypeOK, work
  <1>3. ASSUME NEW r \in Rows PROVE FutureInv(r)' /\ OutputInv(r)'
    <2>1. FutureInv(r) /\ OutputInv(r)
      BY DEF IInv
    <2> QED
      BY <1>1, <2>1 DEF FutureInv, OutputInv, work
  <1>4. looking = None
    BY <1>1 DEF IInv, PhaseInv
  <1>5. PhaseInv'
    BY <1>1, <1>4 DEF IInv, PhaseInv, work
  <1> QED
    BY <1>1, <1>2, <1>3, <1>5, EvidenceKept DEF IInv

\* The engine is closed.
LEMMA CloseInvariant ==
    ASSUME IInv, Close
    PROVE  IInv'
  <1>1. /\ TypeOK /\ closed' = TRUE
        /\ UNCHANGED <<mode, phase, next, expired, late, looking, work, out, evidence, evals, faults, touched, onTime>>
    BY DEF Close, IInv
  <1>2. TypeOK'
    BY <1>1 DEF TypeOK, work
  <1>3. \A r \in Rows : FutureInv(r)' /\ OutputInv(r)'
    BY <1>1, RowKept DEF work
  <1>4. PhaseInv'
    BY <1>1 DEF IInv, PhaseInv, work
  <1> QED
    BY <1>1, <1>2, <1>3, <1>4, EvidenceKept DEF IInv

\* A worker takes a row.
LEMMA PickInvariant ==
    ASSUME IInv, NEW r \in Rows, Pick(r)
    PROVE  IInv'
  <1>1. /\ TypeOK /\ fut[r] = "queued" /\ fut' = [fut EXCEPT ![r] = "running"]
        /\ UNCHANGED <<driver, row, result, out, evidence, evals, faults, touched, onTime>>
    BY DEF Pick, Queued, IInv
  <1>2. /\ TypeOK' /\ fut'[r] = "running" /\ \A q \in Rows \ {r} : fut'[q] = fut[q]
    BY <1>1 DEF TypeOK, driver
  <1>3. FutureInv(r)' /\ OutputInv(r)'
    <2>1. FutureInv(r) /\ OutputInv(r)
      BY DEF IInv
    <2> QED
      BY <1>1, <1>2, <2>1 DEF FutureInv, OutputInv, driver
  <1>4. \A q \in Rows \ {r} : FutureInv(q)' /\ OutputInv(q)'
    BY <1>1, <1>2, RowKept DEF driver
  <1>5. PhaseInv'
    <2>1. \A q \in Rows : fut'[q] = "none" <=> fut[q] = "none"
      BY <1>1, <1>2
    <2>2. looking # None => looking \in Rows
      BY <1>1 DEF TypeOK
    <2> QED
      BY <1>1, <2>1, <2>2 DEF IInv, PhaseInv, driver
  <1> QED
    BY <1>1, <1>2, <1>3, <1>4, <1>5, EvidenceKept DEF IInv

\* The thread pool's driver submits a row, or gives up the rows the deadline left it.
LEMMA SubmitInvariant ==
    ASSUME IInv, Submit
    PROVE  IInv'
  <1>1. /\ TypeOK /\ mode = "threads" /\ phase = "submit" /\ next' = next + 1
        /\ phase' = IF next + 1 \in Rows THEN "submit" ELSE "top"
        /\ UNCHANGED <<mode, closed, expired, looking, row, result, evidence, evals, faults, touched, onTime>>
    BY DEF Submit, IInv
  <1>2. PICK n \in Rows :
        /\ n = next /\ fut[n] = "none" /\ out[n] = None
        /\ \A r \in Rows : r < next => fut[r] # "none" \/ out[r] # None
        /\ \A r \in Rows : ~(r < next) => fut[r] = "none" /\ out[r] = None
    BY <1>1, RowsFacts DEF IInv, PhaseInv
  <1>3. next' \in 0 .. NumTasks * NumSeeds /\ phase' \in {"submit", "top"}
    BY <1>1, <1>2, RowsFacts
  <1>4. /\ TypeOK' /\ (late => late') /\ FutureInv(n)' /\ OutputInv(n)'
        /\ fut'[n] # "none" \/ out'[n] # None
        /\ \A q \in Rows \ {n} : fut'[q] = fut[q] /\ out'[q] = out[q]
    <2>1. FutureInv(n) /\ n \notin touched /\ n \notin onTime
      BY <1>2 DEF IInv, FutureInv
    <2>2. CASE expired
      <3>1. out' = [out EXCEPT ![n] = MissingRow("not_dispatched")] /\ late' = TRUE /\ fut' = fut
        BY <1>2, <2>2 DEF Submit
      <3>2. /\ MissingRow("not_dispatched") \in Output /\ Attributable(MissingRow("not_dispatched"))
            /\ MissingRow("not_dispatched") # None /\ MissingRow("not_dispatched").code = "not_dispatched"
        BY MissingRowReturn
      <3>3. TypeOK'
        BY <1>1, <1>3, <3>1, <3>2 DEF TypeOK
      <3>4. out'[n] = MissingRow("not_dispatched") /\ \A q \in Rows \ {n} : out'[q] = out[q]
        BY <1>1, <1>2, <3>1 DEF TypeOK
      <3>5. fut'[n] = "none" /\ n \notin touched' /\ n \notin onTime' /\ expired'
        BY <1>1, <1>2, <2>1, <2>2, <3>1
      <3> QED
        BY <1>1, <1>2, <2>1, <3>1, <3>2, <3>3, <3>4, <3>5 DEF FutureInv, OutputInv
    <2>3. CASE ~expired
      <3>1. fut' = [fut EXCEPT ![n] = "queued"] /\ UNCHANGED <<out, late>>
        BY <1>2, <2>3 DEF Submit
      <3>2. TypeOK' /\ fut'[n] = "queued" /\ \A q \in Rows \ {n} : fut'[q] = fut[q]
        BY <1>1, <1>2, <1>3, <3>1 DEF TypeOK
      <3> QED
        BY <1>1, <1>2, <2>1, <3>1, <3>2 DEF FutureInv, OutputInv
    <2> QED
      BY <2>2, <2>3
  <1>5. \A q \in Rows \ {n} : FutureInv(q)' /\ OutputInv(q)'
    BY <1>1, <1>4, RowKept
  <1>6. looking' = None
    BY <1>1, LookingOnlyInScan
  <1>7. /\ \A r \in Rows : r < n + 1 => fut'[r] # "none" \/ out'[r] # None
        /\ \A r \in Rows : ~(r < n + 1) => fut'[r] = "none" /\ out'[r] = None
    <2>1. \A r \in Rows : r < n + 1 <=> r < n \/ r = n
      BY <1>2, RowsFacts
    <2> QED
      BY <1>2, <1>4, <2>1
  <1>8. PhaseInv'
    <2>1. CASE next + 1 \in Rows
      <3>1. phase' = "submit" /\ mode' = "threads" /\ next' = n + 1 /\ n + 1 \in Rows
        BY <1>1, <1>2, <2>1
      <3> QED
        BY <1>6, <1>7, <3>1 DEF PhaseInv
    <2>2. CASE next + 1 \notin Rows
      <3>1. \A r \in Rows : r < n + 1
        BY <1>2, <2>2, RowsFacts
      <3> QED
        BY <1>1, <1>6, <1>7, <2>2, <3>1 DEF PhaseInv
    <2> QED
      BY <2>1, <2>2
  <1> QED
    BY <1>1, <1>2, <1>4, <1>5, <1>8, EvidenceKept DEF IInv

\* The head of the wait loop.
LEMMA TopInvariant ==
    ASSUME IInv, Top
    PROVE  IInv'
  <1>1. /\ TypeOK /\ phase = "top" /\ phase' \in {"drain", "scan", "wait"}
        /\ phase' = "drain" => Unfinished = {}
        /\ phase' = "scan" => expired
        /\ late' = (late \/ phase' = "scan")
        /\ UNCHANGED <<mode, closed, next, expired, looking, work, out, evidence, evals, faults, touched, onTime>>
    BY DEF Top, IInv
  <1>2. TypeOK'
    BY <1>1 DEF TypeOK, work
  <1>3. \A r \in Rows : FutureInv(r)' /\ OutputInv(r)'
    BY <1>1, RowKept DEF work
  <1>4. looking' = None /\ \A r \in Rows : fut[r] # "none" \/ out[r] # None
    BY <1>1, LookingOnlyInScan DEF IInv, PhaseInv
  <1>5. PhaseInv'
    BY <1>1, <1>4 DEF PhaseInv, Unfinished, work
  <1> QED
    BY <1>1, <1>2, <1>3, <1>5, EvidenceKept DEF IInv

\* The finished futures are collected, or one of them raises.
LEMMA CollectInvariant ==
    ASSUME IInv, Collect
    PROVE  IInv'
  <1>1. PICK done \in SUBSET Rows : done = {r \in Unfinished : fut[r] \in {"finished", "raised"}}
    BY DEF Unfinished
  <1>2. /\ TypeOK /\ phase = "wait" /\ looking = None
        /\ UNCHANGED <<mode, closed, next, expired, late, looking, work, evidence, evals, faults, touched, onTime>>
    BY LookingOnlyInScan DEF Collect, IInv
  <1>3. \A r \in Rows : fut[r] # "none" \/ out[r] # None
    BY <1>2 DEF IInv, PhaseInv
  <1>4. CASE \E r \in done : fut[r] = "raised"
    <2>1. phase' = "failing" /\ out' = out
      BY <1>1, <1>4 DEF Collect
    <2>2. TypeOK'
      BY <1>2, <2>1 DEF TypeOK, work
    <2>3. \A r \in Rows : FutureInv(r)' /\ OutputInv(r)'
      BY <1>2, <2>1, RowKept DEF work
    <2>4. PhaseInv'
      BY <1>2, <2>1 DEF PhaseInv
    <2> QED
      BY <1>2, <2>2, <2>3, <2>4, EvidenceKept DEF IInv
  <1>5. CASE ~ \E r \in done : fut[r] = "raised"
    <2>1. phase' = "top" /\ out' = [r \in Rows |-> IF r \in done THEN result[r] ELSE out[r]]
      BY <1>1, <1>5 DEF Collect
    <2>2. TypeOK'
      BY <1>2, <2>1 DEF TypeOK, work
    <2>3. ASSUME NEW r \in Rows PROVE FutureInv(r)' /\ OutputInv(r)' /\ (out'[r] = None => out[r] = None)
      <3>1. CASE r \in done
        <4>1. fut[r] = "finished" /\ out'[r] = result[r] /\ FutureInv(r)
          BY <1>1, <1>5, <2>1, <3>1 DEF IInv
        <4> QED
          BY <1>2, <4>1 DEF FutureInv, OutputInv, work
      <3>2. CASE r \notin done
        BY <1>2, <2>1, <3>2, RowKept DEF work
      <3> QED
        BY <3>1, <3>2
    <2>4. PhaseInv'
      BY <1>2, <1>3, <2>1, <2>3 DEF PhaseInv, work
    <2> QED
      BY <1>2, <2>2, <2>3, <2>4, EvidenceKept DEF IInv
  <1> QED
    BY <1>4, <1>5

\* The driver writes the row of a future, and may cancel it.
LEMMA OutputStep ==
    ASSUME IInv, phase \in {"wait", "scan"}, NEW r \in Rows, NEW o \in Output, NEW f,
           out' = [out EXCEPT ![r] = o], fut' = [fut EXCEPT ![r] = f], f \in {fut[r], "cancelled"},
           fut[r] # "none", f # fut[r] => fut[r] \in {"queued", "running"},
           Attributable(o),
           o.code = "not_dispatched" => f = "cancelled" /\ r \notin touched,
           o.code = "deadline" => f # "queued" /\ late',
           expired \/ f = "cancelled" \/ (f = "finished" /\ o = result[r]),
           r \in onTime => o = result[r],
           row' \in [Rows -> [attempt : 0 .. MaxRowAttempts - 1, answer : Answers \cup {None}]],
           late' \in BOOLEAN, late => late', phase' = phase, faults' \in 0 .. MaxFaults,
           looking' = None,
           UNCHANGED <<mode, closed, next, expired, result, evidence, evals, touched, onTime>>
    PROVE  IInv'
  <1>1. TypeOK /\ f \in {"none", "queued", "running", "finished", "raised", "cancelled"}
    BY DEF IInv, TypeOK
  <1>2. /\ fut'[r] = f /\ out'[r] = o /\ f # "none" /\ None # o
        /\ \A q \in Rows \ {r} : fut'[q] = fut[q] /\ out'[q] = out[q]
    BY <1>1, RolloutAssumption DEF TypeOK
  <1>3. TypeOK'
    BY <1>1 DEF TypeOK
  <1>4. FutureInv(r)' /\ OutputInv(r)'
    <2>1. FutureInv(r)
      BY DEF IInv
    <2>2. FutureInv(r)'
      BY <1>2, <2>1 DEF FutureInv
    <2>3. OutputInv(r)'
      BY <1>2 DEF OutputInv
    <2> QED
      BY <2>2, <2>3
  <1>5. \A q \in Rows \ {r} : FutureInv(q)' /\ OutputInv(q)'
    BY <1>2, RowKept
  <1>6. PhaseInv'
    <2>1. \A q \in Rows : fut'[q] # "none" \/ out'[q] # None
      BY <1>2 DEF IInv, PhaseInv
    <2>2. phase = "scan" => expired /\ late
      BY DEF IInv, PhaseInv
    <2>3. phase' = "scan" => expired' /\ late'
      BY <2>2
    <2> QED
      BY <2>1, <2>3 DEF PhaseInv
  <1> QED
    BY <1>3, <1>4, <1>5, <1>6, EvidenceKept DEF IInv

\* After the deadline the driver asks a future whether it is done.
LEMMA ScanDoneInvariant ==
    ASSUME IInv, NEW r \in Rows, ScanDone(r)
    PROVE  IInv'
  <1>1. /\ TypeOK /\ phase = "scan" /\ looking = None /\ fut[r] # "none" /\ out[r] = None
        /\ UNCHANGED <<mode, closed, next, expired, late, work, evidence, evals, faults, touched, onTime>>
    BY DEF ScanDone, Unfinished, IInv
  <1>2. FutureInv(r) /\ expired /\ late /\ \A q \in Rows : fut[q] # "none" \/ out[q] # None
    BY <1>1 DEF IInv, PhaseInv
  <1>3. CASE fut[r] = "finished"
    <2>1. out' = [out EXCEPT ![r] = result[r]] /\ phase' = phase /\ looking' = looking
      BY <1>3 DEF ScanDone
    <2>2. /\ result[r] \in Output /\ Attributable(result[r])
          /\ result[r].code \notin {"not_dispatched", "deadline"}
      BY <1>1, <1>2, <1>3 DEF FutureInv, TypeOK
    <2>3. fut' = [fut EXCEPT ![r] = fut[r]] /\ row' = row /\ result' = result
      BY <1>1 DEF work, TypeOK
    <2>4. faults' \in 0 .. MaxFaults /\ late' \in BOOLEAN /\ (late => late') /\ row' \in [Rows -> [attempt : 0 .. MaxRowAttempts - 1, answer : Answers \cup {None}]]
      BY <1>1, <2>3 DEF TypeOK
    <2> QED
      BY <1>1, <1>2, <1>3, <2>1, <2>2, <2>3, <2>4, OutputStep
  <1>4. CASE fut[r] # "finished"
    <2>1. /\ out' = out
          /\ \/ phase' = "failing" /\ looking' = None
             \/ phase' = "scan" /\ looking' = r
      BY <1>1, <1>4 DEF ScanDone
    <2>2. r \notin onTime /\ fut[r] # "none"
      BY <1>1, <1>2, <1>4 DEF FutureInv
    <2>3. TypeOK'
      BY <1>1, <2>1 DEF TypeOK, work
    <2>4. \A q \in Rows : FutureInv(q)' /\ OutputInv(q)'
      BY <1>1, <2>1, RowKept DEF work
    <2>5. PhaseInv'
      BY <1>1, <1>2, <2>1, <2>2 DEF PhaseInv, work
    <2> QED
      BY <1>1, <2>3, <2>4, <2>5, EvidenceKept DEF IInv
  <1> QED
    BY <1>3, <1>4

\* ... and cancels it when it was not.
LEMMA ScanCancelInvariant ==
    ASSUME IInv, NEW r \in Rows, ScanCancel(r)
    PROVE  IInv'
  <1>1. /\ TypeOK /\ phase = "scan" /\ looking = r /\ looking' = None
        /\ UNCHANGED <<mode, closed, phase, next, expired, late, row, result, evidence, evals, faults, touched, onTime>>
    BY DEF ScanCancel, IInv
  <1>2. FutureInv(r) /\ expired /\ late /\ r \notin onTime /\ fut[r] # "none"
    <2>1. r # None
      BY RolloutAssumption
    <2> QED
      BY <1>1, <2>1 DEF IInv, PhaseInv
  <1>3. /\ faults' \in 0 .. MaxFaults /\ late' \in BOOLEAN /\ (late => late')
        /\ row' \in [Rows -> [attempt : 0 .. MaxRowAttempts - 1, answer : Answers \cup {None}]]
    BY <1>1 DEF TypeOK
  <1>4. CASE fut[r] = "queued"
    <2>1. fut' = [fut EXCEPT ![r] = "cancelled"] /\ out' = [out EXCEPT ![r] = MissingRow("not_dispatched")]
      BY <1>4 DEF ScanCancel
    <2>2. r \notin touched
      BY <1>2, <1>4 DEF FutureInv
    <2>3. /\ MissingRow("not_dispatched") \in Output /\ Attributable(MissingRow("not_dispatched"))
          /\ MissingRow("not_dispatched").code = "not_dispatched"
      BY MissingRowReturn
    <2> QED
      BY <1>1, <1>2, <1>3, <1>4, <2>1, <2>2, <2>3, OutputStep
  <1>5. CASE fut[r] # "queued"
    <2>1. fut' = [fut EXCEPT ![r] = fut[r]] /\ out' = [out EXCEPT ![r] = MissingRow("deadline")]
      BY <1>5 DEF ScanCancel
    <2>2. /\ MissingRow("deadline") \in Output /\ Attributable(MissingRow("deadline"))
          /\ MissingRow("deadline").code = "deadline"
      BY MissingRowReturn
    <2> QED
      BY <1>1, <1>2, <1>3, <1>5, <2>1, <2>2, OutputStep
  <1> QED
    BY <1>4, <1>5

\* The scan ends, the pool's scheduler breaks or ends: only the phase moves.
LEMMA PhaseStep ==
    ASSUME IInv, phase' \in {"drain", "failing"}, looking = None,
           phase' = "drain" => \A r \in Rows : out[r] # None,
           faults' \in 0 .. MaxFaults,
           UNCHANGED <<mode, closed, next, expired, late, looking, work, out, evidence, evals, touched, onTime>>
    PROVE  IInv'
  <1>1. TypeOK'
    BY DEF IInv, TypeOK, work
  <1>2. \A r \in Rows : FutureInv(r)' /\ OutputInv(r)'
    BY RowKept DEF work
  <1>3. PhaseInv'
    BY DEF PhaseInv
  <1> QED
    BY <1>1, <1>2, <1>3, EvidenceKept DEF IInv

\* Every future has its row.
LEMMA ScanEndsInvariant ==
    ASSUME IInv, ScanEnds
    PROVE  IInv'
  <1>1. /\ phase = "scan" /\ looking = None /\ phase' = "drain" /\ Unfinished = {}
        /\ UNCHANGED <<mode, closed, next, expired, late, looking, work, out, evidence, evals, faults, touched, onTime>>
    BY DEF ScanEnds
  <1>2. faults' \in 0 .. MaxFaults /\ \A r \in Rows : out[r] # None
    BY <1>1 DEF IInv, TypeOK, PhaseInv, Unfinished
  <1> QED
    BY <1>1, <1>2, PhaseStep

\* The worker pool is given every row.
LEMMA PoolSubmitInvariant ==
    ASSUME IInv, PoolSubmit
    PROVE  IInv'
  <1>1. /\ TypeOK /\ phase = "submit" /\ phase' = "wait" /\ fut' = [r \in Rows |-> "queued"] /\ mode = "pool"
        /\ UNCHANGED <<mode, closed, next, expired, late, looking, row, result, out, evidence, evals, faults, touched, onTime>>
    BY DEF PoolSubmit, IInv
  <1>2. \A r \in Rows : fut[r] = "none" /\ out[r] = None
    BY <1>1, RowsFacts DEF IInv, PhaseInv
  <1>3. TypeOK'
    BY <1>1 DEF TypeOK
  <1>4. ASSUME NEW r \in Rows PROVE FutureInv(r)' /\ OutputInv(r)'
    <2>1. FutureInv(r)
      BY DEF IInv
    <2> QED
      BY <1>1, <1>2, <2>1 DEF FutureInv, OutputInv
  <1>5. looking' = None
    BY <1>1, LookingOnlyInScan
  <1>6. PhaseInv'
    BY <1>1, <1>5 DEF PhaseInv
  <1> QED
    BY <1>1, <1>3, <1>4, <1>6, EvidenceKept DEF IInv

\* The worker pool reports a row.
LEMMA PoolCompletionInvariant ==
    ASSUME IInv, NEW r \in Rows, PoolCompletion(r)
    PROVE  IInv'
  <1>1. /\ TypeOK /\ phase = "wait" /\ out[r] = None /\ FutureInv(r) /\ looking' = None
        /\ UNCHANGED <<mode, closed, next, expired, looking, result, evidence, evals, touched, onTime>>
    BY LookingOnlyInScan DEF PoolCompletion, IInv
  <1>2. NoRow \in [attempt : 0 .. MaxRowAttempts - 1, answer : Answers \cup {None}]
    BY RolloutAssumption DEF NoRow
  <1>3. CASE /\ fut[r] = "finished" /\ out' = [out EXCEPT ![r] = result[r]]
             /\ UNCHANGED <<fut, row, phase, late, faults>>
    <2>1. /\ result[r] \in Output /\ Attributable(result[r])
          /\ result[r].code \notin {"not_dispatched", "deadline"}
      BY <1>1, <1>3 DEF FutureInv, TypeOK
    <2>2. fut' = [fut EXCEPT ![r] = fut[r]]
      BY <1>1, <1>3 DEF TypeOK
    <2>3. /\ faults' \in 0 .. MaxFaults /\ late' \in BOOLEAN /\ (late => late')
          /\ row' \in [Rows -> [attempt : 0 .. MaxRowAttempts - 1, answer : Answers \cup {None}]]
      BY <1>1, <1>3 DEF TypeOK
    <2> QED
      BY <1>1, <1>3, <2>1, <2>2, <2>3, OutputStep
  <1>4. CASE phase' = "failing" /\ UNCHANGED <<out, fut, row, late, faults>>
    <2>1. faults' \in 0 .. MaxFaults /\ looking = None
      BY <1>1, <1>4 DEF TypeOK
    <2> QED
      BY <1>1, <1>4, <2>1, PhaseStep DEF work
  <1>5. ASSUME NEW code \in {"not_dispatched", "deadline", "unit_timeout"},
               out' = [out EXCEPT ![r] = MissingRow(code)], fut' = [fut EXCEPT ![r] = "cancelled"],
               row' = [row EXCEPT ![r] = NoRow], phase' = phase, fut[r] \in {"queued", "running"},
               late' \in BOOLEAN, late => late', faults' \in 0 .. MaxFaults,
               code = "not_dispatched" => fut[r] = "queued",
               code = "deadline" => late'
        PROVE  IInv'
    <2>1. MissingRow(code) \in Output /\ Attributable(MissingRow(code)) /\ MissingRow(code).code = code
      BY MissingRowReturn
    <2>2. row' \in [Rows -> [attempt : 0 .. MaxRowAttempts - 1, answer : Answers \cup {None}]]
      BY <1>1, <1>2, <1>5 DEF TypeOK
    <2>3. r \notin onTime /\ (code = "not_dispatched" => r \notin touched)
      BY <1>1, <1>5 DEF FutureInv
    <2> QED
      BY <1>1, <1>5, <2>1, <2>2, <2>3, OutputStep
  <1> QED
    <2>1. faults \in 0 .. MaxFaults /\ (faults < MaxFaults => faults + 1 \in 0 .. MaxFaults) /\ late \in BOOLEAN
      BY <1>1, RolloutAssumption DEF TypeOK
    <2>2. CASE /\ fut[r] = "queued"
               /\ out' = [out EXCEPT ![r] = MissingRow("not_dispatched")] /\ fut' = [fut EXCEPT ![r] = "cancelled"]
               /\ row' = [row EXCEPT ![r] = NoRow] /\ phase' = phase /\ late' = TRUE /\ faults' = faults
      BY <1>5, <2>1, <2>2
    <2>3. CASE /\ fut[r] = "running"
               /\ out' = [out EXCEPT ![r] = MissingRow("deadline")] /\ fut' = [fut EXCEPT ![r] = "cancelled"]
               /\ row' = [row EXCEPT ![r] = NoRow] /\ phase' = phase /\ late' = TRUE /\ faults' = faults
      BY <1>5, <2>1, <2>3
    <2>4. CASE /\ fut[r] = "running" /\ faults < MaxFaults
               /\ out' = [out EXCEPT ![r] = MissingRow("unit_timeout")] /\ fut' = [fut EXCEPT ![r] = "cancelled"]
               /\ row' = [row EXCEPT ![r] = NoRow] /\ phase' = phase /\ late' = late /\ faults' = faults + 1
      BY <1>5, <2>1, <2>4
    <2> QED
      BY <1>3, <1>4, <2>2, <2>3, <2>4 DEF PoolCompletion

\* The scheduler of the worker pool breaks.
LEMMA PoolBreaksInvariant ==
    ASSUME IInv, PoolBreaks
    PROVE  IInv'
  <1>1. /\ TypeOK /\ phase = "wait" /\ faults < MaxFaults /\ faults' = faults + 1 /\ phase' = "failing"
        /\ UNCHANGED <<mode, closed, next, expired, late, looking, work, out, evidence, evals, touched, onTime>>
    BY DEF PoolBreaks, IInv
  <1>2. faults' \in 0 .. MaxFaults
    BY <1>1, RolloutAssumption DEF TypeOK
  <1> QED
    BY <1>1, <1>2, PhaseStep, LookingOnlyInScan

\* Every row of the worker pool has been reported.
LEMMA PoolEndsInvariant ==
    ASSUME IInv, PoolEnds
    PROVE  IInv'
  <1>1. /\ TypeOK /\ phase = "wait" /\ phase' = "drain" /\ \A r \in Rows : out[r] # None
        /\ UNCHANGED <<mode, closed, next, expired, late, looking, work, out, evidence, evals, faults, touched, onTime>>
    BY DEF PoolEnds, IInv
  <1>2. faults' \in 0 .. MaxFaults
    BY <1>1 DEF TypeOK
  <1> QED
    BY <1>1, <1>2, PhaseStep, LookingOnlyInScan

-----------------------------------------------------------------------------
(* The evidence.                                                           *)

\* The evidence of an evaluation is persisted.
LEMMA PersistInvariant ==
    ASSUME IInv, NEW plan \in Plans, Persist(plan)
    PROVE  IInv'
  <1>1. /\ TypeOK /\ phase = "drain" /\ phase' = "idle"
        /\ UNCHANGED <<mode, closed, next, expired, late, looking, work, out, evals, faults, touched, onTime>>
    BY DEF Persist, IInv
  <1>2. looking' = None /\ \A r \in Rows : out[r] # None
    BY <1>1, LookingOnlyInScan DEF IInv, PhaseInv
  <1>3. \/ evidence'.kind = "failed"
        \/ evidence' = CompletedEvidence(plan, out) /\ \A r \in Rows : Recordable(out[r])
    <2> DEFINE values == [r \in Rows |-> Generated(out[r])]
               agg == TaskAverage(plan, values)
               recordable == \A r \in Rows : Recordable(out[r])
               failed(rows) == [NoEvidence EXCEPT !.kind = "failed", !.rows = rows]
    <2>1. CASE recordable /\ ~RewardRaises(plan, agg)
      BY <2>1 DEF Persist, CompletedEvidence
    <2>2. CASE ~(recordable /\ ~RewardRaises(plan, agg))
      <3>1. \E rows : evidence' = failed(rows)
        BY <2>2 DEF Persist
      <3>2. \A rows : failed(rows).kind = "failed"
        BY DEF NoEvidence
      <3> QED
        BY <3>1, <3>2
    <2> QED
      BY <2>1, <2>2
  <1>4. out \in [Rows -> Output] /\ \A r \in Rows : Attributable(out[r])
    BY <1>1, <1>2 DEF TypeOK, IInv, OutputInv
  <1>5. evidence'.kind \in {"failed", "completed"} /\ EvidenceInv'
    <2>1. CASE evidence'.kind = "failed"
      BY <2>1 DEF EvidenceInv
    <2>2. CASE evidence' = CompletedEvidence(plan, out) /\ \A r \in Rows : Recordable(out[r])
      <3>1. evidence'.kind = "completed"
        BY <2>2 DEF CompletedEvidence
      <3> QED
        BY <1>4, <2>2, <3>1 DEF EvidenceInv
    <2> QED
      BY <1>3, <2>1, <2>2
  <1>6. TypeOK'
    BY <1>1, <1>5 DEF TypeOK, work
  <1>7. \A r \in Rows : FutureInv(r)' /\ OutputInv(r)'
    BY <1>1, RowKept DEF work
  <1>8. PhaseInv'
    BY <1>1, <1>2 DEF PhaseInv
  <1> QED
    BY <1>5, <1>6, <1>7, <1>8 DEF IInv

\* The driver raised.
LEMMA PersistFailureInvariant ==
    ASSUME IInv, PersistFailure
    PROVE  IInv'
  <1>1. /\ TypeOK /\ phase = "failing" /\ phase' = "idle"
        /\ fut' = [r \in Rows |-> IF fut[r] \in {"queued", "running"} THEN "cancelled" ELSE fut[r]]
        /\ row' = [r \in Rows |-> NoRow]
        /\ UNCHANGED <<mode, closed, next, expired, late, looking, result, out, evals, faults, touched, onTime>>
    BY DEF PersistFailure, IInv
  <1>2. evidence'.kind = "failed"
    BY DEF PersistFailure, NoEvidence
  <1>3. NoRow \in [attempt : 0 .. MaxRowAttempts - 1, answer : Answers \cup {None}]
    BY RolloutAssumption DEF NoRow
  <1>4. TypeOK'
    BY <1>1, <1>2, <1>3 DEF TypeOK
  <1>5. ASSUME NEW r \in Rows PROVE FutureInv(r)' /\ OutputInv(r)'
    <2>1. /\ FutureInv(r) /\ OutputInv(r)
          /\ fut'[r] = IF fut[r] \in {"queued", "running"} THEN "cancelled" ELSE fut[r]
      BY <1>1 DEF IInv
    <2> QED
      BY <1>1, <2>1 DEF FutureInv, OutputInv
  <1>6. PhaseInv'
    BY <1>1, LookingOnlyInScan DEF PhaseInv
  <1> QED
    BY <1>2, <1>4, <1>5, <1>6 DEF IInv, EvidenceInv

\* The flags of a row that was recorded say what its failure code is attributed to.
LEMMA GeneratedIsPublished ==
    ASSUME NEW o \in Output, Attributable(o), Recordable(o)
    PROVE  Generated(o) = Published(o)
  <1>1. o.state \in {"success", "failed", "missing", "invalid"}
    BY DEF Output, States
  <1>2. o.state # "success" => o.score = None
    BY DEF Attributable
  <1>3. CASE o.state = "success"
    BY <1>3 DEF Recordable, Generated, Published
  <1>4. CASE o.state = "missing"
    BY <1>2, <1>4 DEF Generated, Published
  <1>5. CASE o.state = "failed"
    BY <1>2, <1>5 DEF Generated, Published, Attributable
  <1>6. CASE o.state = "invalid"
    BY <1>2, <1>6 DEF Generated, Published, Attributable
  <1> QED
    BY <1>1, <1>3, <1>4, <1>5, <1>6

-----------------------------------------------------------------------------
(* Sums over sets of rows.                                                 *)

\* Induction over the naturals, for a set.
LEMMA NatSetInduction ==
    ASSUME NEW S \in SUBSET Nat, 0 \in S, \A n \in S : n + 1 \in S
    PROVE  S = Nat
  <1> DEFINE R == OpToRel(<, Nat)
  <1> SUFFICES ASSUME Nat \ S # {} PROVE FALSE
    OBVIOUS
  <1>1. IsWellFoundedOn(R, Nat)
    BY NatLessThanWellFounded
  <1>2. \A x, y \in Nat : x < y => <<x, y>> \in R
    BY DEF OpToRel
  <1> HIDE DEF R
  <1>3. \E x \in Nat \ S : \A y \in Nat \ S : ~ (<<y, x>> \in R)
    BY <1>1, WFMin
  <1>4. PICK x \in Nat \ S : \A y \in Nat \ S : ~ (<<y, x>> \in R)
    BY <1>3
  <1>5. x # 0 /\ x - 1 \in Nat /\ x - 1 < x
    OBVIOUS
  <1>6. x - 1 \in S
    BY <1>2, <1>4, <1>5
  <1>7. x - 1 + 1 \in S
    BY <1>6
  <1> QED
    BY <1>4, <1>5, <1>7

\* The sum of the values of the rows in S
Total(values, S) == MapThenSumSet(LAMBDA r : values[r].value, S)

\* The element a sum takes next
Some(s) == CHOOSE x \in s : TRUE

\* f[s] is the sum of the values of the rows in s, for every s \subseteq S.
Sums(f, S, values) ==
    f = [s \in SUBSET S |-> IF s = {} THEN 0 ELSE values[Some(s)].value + f[s \ {Some(s)}]]

\* The sums over the subsets of a finite set exist.
LEMMA SumsExist ==
    ASSUME NEW S, IsFiniteSet(S), NEW values
    PROVE  \E f : Sums(f, S, values)
  <1> DEFINE Term(f, s) == IF s = {} THEN 0 ELSE values[Some(s)].value + f[s \ {Some(s)}]
             UpTo(n) == {s \in SUBSET S : Cardinality(s) <= n}
             Summed(f, n) == f = [s \in SUBSET S |-> f[s]] /\ \A s \in UpTo(n) : f[s] = Term(f, s)
             N == {n \in Nat : \E f : Summed(f, n)}
  <1>1. \A s \in SUBSET S : IsFiniteSet(s) /\ Cardinality(s) \in Nat /\ (Cardinality(s) = 0 <=> s = {})
    BY FS_Subset, FS_CardinalityType, FS_EmptySet
  <1>2. \A s \in SUBSET S : s # {} =>
            s \ {Some(s)} \in SUBSET S /\ Cardinality(s \ {Some(s)}) = Cardinality(s) - 1
    <2> SUFFICES ASSUME NEW s \in SUBSET S, s # {}
                 PROVE  s \ {Some(s)} \in SUBSET S /\ Cardinality(s \ {Some(s)}) = Cardinality(s) - 1
      OBVIOUS
    <2>1. Some(s) \in s
      BY DEF Some
    <2> QED
      BY <1>1, <2>1, FS_RemoveElement
  <1>3. 0 \in N
    <2>1. PICK f : f = [s \in SUBSET S |-> 0]
      OBVIOUS
    <2>2. ASSUME NEW s \in UpTo(0) PROVE f[s] = Term(f, s)
      BY <1>1, <2>1
    <2> QED
      BY <2>1, <2>2
  <1>4. \A n \in N : n + 1 \in N
    <2> SUFFICES ASSUME NEW n \in Nat, \E f : Summed(f, n) PROVE \E g : Summed(g, n + 1)
      <3>1. \A n \in Nat : n + 1 \in Nat
        OBVIOUS
      <3> HIDE DEF Summed
      <3> QED
        BY <3>1
    <2>1. PICK f : Summed(f, n)
      OBVIOUS
    <2>2. PICK g : g = [s \in SUBSET S |-> IF Cardinality(s) <= n THEN f[s] ELSE Term(f, s)]
      OBVIOUS
    <2>3. ASSUME NEW s \in UpTo(n + 1) PROVE g[s] = Term(g, s)
      <3>1. g[s] = Term(f, s)
        BY <2>1, <2>2, <2>3
      <3>2. CASE s = {}
        BY <3>1, <3>2
      <3>3. CASE s # {}
        <4>1. s \ {Some(s)} \in SUBSET S /\ Cardinality(s \ {Some(s)}) <= n
          BY <1>1, <1>2, <2>3, <3>3
        <4>2. g[s \ {Some(s)}] = f[s \ {Some(s)}]
          BY <2>2, <4>1
        <4> QED
          BY <3>1, <3>3, <4>2
      <3> QED
        BY <3>2, <3>3
    <2> QED
      BY <2>2, <2>3
  <1>5. N = Nat
    <2> HIDE DEF N
    <2> QED
      BY <1>3, <1>4, NatSetInduction
         DEF N
  <1>6. Cardinality(S) \in N
    BY <1>1, <1>5
  <1>7. PICK f : Summed(f, Cardinality(S))
    BY <1>6
  <1>8. \A s \in SUBSET S : Cardinality(s) <= Cardinality(S)
    BY FS_Subset
  <1> QED
    BY <1>7, <1>8 DEF Sums

\* A sum of the library is one of them.
LEMMA SumIsSummed ==
    ASSUME NEW S, IsFiniteSet(S), NEW values
    PROVE  \E f : Sums(f, S, values) /\ Total(values, S) = f[S]
  <1>1. PICK f : f = CHOOSE g : Sums(g, S, values)
    OBVIOUS
  <1>2. Sums(f, S, values)
    BY <1>1, SumsExist
  <1>3. Total(values, S) = f[S]
    BY <1>1 DEF Total, MapThenSumSet, MapThenFoldSet, Sums, Some
  <1> QED
    BY <1>2, <1>3

\* x is k times a number.
Multiple(k, x) == \E q \in Nat : x = k * q

\* Multiples add up to a multiple.
LEMMA MultiplesAdd ==
    ASSUME NEW k \in Nat, NEW x, NEW y, Multiple(k, x), Multiple(k, y)
    PROVE  Multiple(k, x + y)
  <1>1. PICK p \in Nat : x = k * p
    BY DEF Multiple
  <1>2. PICK q \in Nat : y = k * q
    BY DEF Multiple
  <1>3. k * p + k * q = k * (p + q)
    OBVIOUS
  <1>4. x + y = k * (p + q) /\ p + q \in Nat
    BY <1>1, <1>2, <1>3
  <1> QED
    BY <1>4 DEF Multiple

\* A sum of multiples of k is one.
LEMMA SumOfMultiples ==
    ASSUME NEW S, IsFiniteSet(S), NEW values, NEW k \in Nat,
           \A r \in S : Multiple(k, values[r].value)
    PROVE  Multiple(k, Total(values, S))
  <1>1. PICK f : Sums(f, S, values) /\ Total(values, S) = f[S]
    BY SumIsSummed
  <1> DEFINE N == {n \in Nat : \A s \in SUBSET S : Cardinality(s) <= n => Multiple(k, f[s])}
  <1>2. \A s \in SUBSET S : IsFiniteSet(s) /\ Cardinality(s) \in Nat /\ (Cardinality(s) = 0 <=> s = {})
    BY FS_Subset, FS_CardinalityType, FS_EmptySet
  <1>3. Multiple(k, f[{}])
    <2>1. f[{}] = 0 /\ 0 = k * 0
      BY <1>1 DEF Sums
    <2> QED
      BY <2>1 DEF Multiple
  <1>4. 0 \in N
    BY <1>2, <1>3
  <1>5. \A n \in N : n + 1 \in N
    <2> SUFFICES ASSUME NEW n \in N, NEW s \in SUBSET S, Cardinality(s) <= n + 1
                 PROVE  Multiple(k, f[s])
      OBVIOUS
    <2>1. CASE s = {}
      BY <1>3, <2>1
    <2>2. CASE s # {}
      <3>1. Some(s) \in s
        BY <2>2 DEF Some
      <3>2. s \ {Some(s)} \in SUBSET S /\ Cardinality(s \ {Some(s)}) <= n
        BY <1>2, <3>1, FS_RemoveElement
      <3>3. Multiple(k, f[s \ {Some(s)}]) /\ Multiple(k, values[Some(s)].value)
        BY <3>1, <3>2
      <3>4. f[s] = values[Some(s)].value + f[s \ {Some(s)}]
        BY <1>1, <2>2 DEF Sums
      <3> QED
        BY <3>3, <3>4, MultiplesAdd
    <2> QED
      BY <2>1, <2>2
  <1>6. N = Nat
    <2> HIDE DEF N
    <2> QED
      BY <1>4, <1>5, NatSetInduction DEF N
  <1>7. Cardinality(S) \in N /\ Cardinality(S) <= Cardinality(S)
    BY <1>2, <1>6
  <1>8. Multiple(k, f[S])
    BY <1>7
  <1> QED
    BY <1>1, <1>8

\* The sum of the rows depends on their values only.
LEMMA TotalsAgree ==
    ASSUME NEW S, IsFiniteSet(S), NEW values, NEW others,
           \A r \in S : values[r].value = others[r].value
    PROVE  Total(values, S) = Total(others, S)
  <1>1. PICK f : Sums(f, S, values) /\ Total(values, S) = f[S]
    BY SumIsSummed
  <1>2. PICK g : Sums(g, S, others) /\ Total(others, S) = g[S]
    BY SumIsSummed
  <1> DEFINE N == {n \in Nat : \A s \in SUBSET S : Cardinality(s) <= n => f[s] = g[s]}
  <1>3. \A s \in SUBSET S : IsFiniteSet(s) /\ Cardinality(s) \in Nat /\ (Cardinality(s) = 0 <=> s = {})
    BY FS_Subset, FS_CardinalityType, FS_EmptySet
  <1>4. f[{}] = g[{}]
    BY <1>1, <1>2 DEF Sums
  <1>5. 0 \in N
    BY <1>3, <1>4
  <1>6. \A n \in N : n + 1 \in N
    <2> SUFFICES ASSUME NEW n \in N, NEW s \in SUBSET S, Cardinality(s) <= n + 1
                 PROVE  f[s] = g[s]
      OBVIOUS
    <2>1. CASE s = {}
      BY <1>4, <2>1
    <2>2. CASE s # {}
      <3>1. Some(s) \in s
        BY <2>2 DEF Some
      <3>2. s \ {Some(s)} \in SUBSET S /\ Cardinality(s \ {Some(s)}) <= n
        BY <1>3, <3>1, FS_RemoveElement
      <3>3. f[s \ {Some(s)}] = g[s \ {Some(s)}]
        BY <3>2
      <3>4. f[s] = values[Some(s)].value + f[s \ {Some(s)}]
        BY <1>1, <2>2 DEF Sums
      <3>5. g[s] = others[Some(s)].value + g[s \ {Some(s)}]
        BY <1>2, <2>2 DEF Sums
      <3> QED
        BY <3>1, <3>3, <3>4, <3>5
    <2> QED
      BY <2>1, <2>2
  <1>7. N = Nat
    <2> HIDE DEF N
    <2> QED
      BY <1>5, <1>6, NatSetInduction DEF N
  <1>8. Cardinality(S) \in N /\ Cardinality(S) <= Cardinality(S)
    BY <1>3, <1>7
  <1>9. f[S] = g[S]
    BY <1>8
  <1> QED
    BY <1>1, <1>2, <1>9

\* Dividing a multiple and multiplying again loses nothing.
LEMMA Divides ==
    ASSUME NEW k \in Nat \ {0}
    PROVE  /\ \A q \in Nat : (k * q) \div k = q
           /\ \A s \in Nat : s % k = 0 => \E q \in Nat : s = k * q
  OBVIOUS

\* A task has at least one row and at most NumSeeds.
LEMMA RowsOfTask ==
    ASSUME NEW t \in Tasks
    PROVE  /\ IsFiniteSet(RowsOf(t)) /\ Cardinality(RowsOf(t)) \in 1 .. NumSeeds
           /\ RowsOf(t) \subseteq Rows /\ RowsOf(t) # {}
  <1>1. PICK n \in Nat \ {0} : n = NumSeeds
    BY RolloutAssumption
  <1>2. t \in Nat /\ t < NumTasks /\ NumTasks \in Nat
    BY RolloutAssumption DEF Tasks
  <1>3. PICK m \in Nat : m = t * n
    BY <1>1, <1>2
  <1>4. ASSUME NEW r \in Nat, r \div n = t PROVE r \in m .. m + n - 1
    BY <1>1, <1>2, <1>3, <1>4
  <1>5. RowsOf(t) \in SUBSET (m .. m + n - 1)
    BY <1>1, <1>4, RowsFacts DEF RowsOf
  <1>6. IsFiniteSet(m .. m + n - 1) /\ Cardinality(m .. m + n - 1) = n
    BY FS_Interval
  <1>7. IsFiniteSet(RowsOf(t)) /\ Cardinality(RowsOf(t)) <= n
    BY <1>5, <1>6, FS_Subset
  <1>8. m \in RowsOf(t)
    <2>1. m \div n = t
      BY <1>1, <1>2, <1>3
    <2>2. m + n <= NumTasks * n
      BY <1>1, <1>2, <1>3
    <2>3. m < NumTasks * NumSeeds
      BY <1>1, <1>2, <2>2
    <2> QED
      BY <1>1, <2>1, <2>3, RowsFacts DEF RowsOf
  <1>9. Cardinality(RowsOf(t)) \in Nat /\ Cardinality(RowsOf(t)) # 0
    BY <1>7, <1>8, FS_CardinalityType, FS_EmptySet
  <1> QED
    BY <1>1, <1>7, <1>8, <1>9 DEF RowsOf

\* The mean of a task is that of its scored rows, without a remainder, and is withheld only
\* from a task with a row that was not scored.
LEMMA TaskMeanRederives ==
    ASSUME NEW plan, NEW values, NEW t \in Tasks,
           \A r \in Rows : /\ values[r].cell = "scored" => values[r].value \in Scores
                           /\ values[r].cell # "scored" => values[r].value = None,
           NEW P, P = {r \in RowsOf(t) : values[r].cell = "scored"}
    PROVE  LET value == TaskMean(plan, values, t).value
           IN  IF value = None THEN P # RowsOf(t)
               ELSE P # {} /\ value * Cardinality(P) = Total(values, P)
  <1> DEFINE inputs == [r \in RowsOf(t) |-> [applicable |-> values[r].cell # "invalid",
                                             value |-> values[r].value]]
             applicable == {i \in RowsOf(t) : inputs[i].applicable}
             present == {i \in applicable : inputs[i].value # None}
  <1>1. /\ IsFiniteSet(RowsOf(t)) /\ Cardinality(RowsOf(t)) \in 1 .. NumSeeds
        /\ RowsOf(t) \subseteq Rows /\ RowsOf(t) # {}
    BY RowsOfTask
  <1>2. None \notin Scores /\ None \notin Nat
    BY RolloutAssumption
  <1>3. present = P
    BY <1>1, <1>2
  <1>4. /\ IsFiniteSet(P) /\ Cardinality(P) \in Nat /\ Cardinality(P) <= NumSeeds
        /\ P # {} => Cardinality(P) # 0
    <2>1. P \in SUBSET RowsOf(t) /\ NumSeeds \in Nat
      BY RolloutAssumption
    <2>2. IsFiniteSet(P) /\ Cardinality(P) <= Cardinality(RowsOf(t))
      BY <1>1, <2>1, FS_Subset
    <2>3. Cardinality(P) \in Nat
      BY <2>2, FS_CardinalityType
    <2> QED
      BY <1>1, <2>1, <2>2, <2>3, FS_EmptySet
  <1>5. Total(inputs, P) = Total(values, P)
    <2>1. \A r \in P : inputs[r].value = values[r].value
      OBVIOUS
    <2> HIDE DEF inputs
    <2> QED
      BY <1>4, <2>1, TotalsAgree
  <1>6. P # {} => \E q \in Nat : Total(values, P) = Cardinality(P) * q /\ Total(values, P) \div Cardinality(P) = q
    <2> SUFFICES ASSUME P # {}
                 PROVE  \E q \in Nat : /\ Total(values, P) = Cardinality(P) * q
                                       /\ Total(values, P) \div Cardinality(P) = q
      OBVIOUS
    <2>1. PICK k \in Nat \ {0} : k = Cardinality(P)
      BY <1>4
    <2>2. k \in 1 .. NumSeeds /\ 1 \in 1 .. NumTasks /\ 1 * k = k
      BY <1>4, <2>1, RolloutAssumption
    <2>3. ASSUME NEW r \in P PROVE \E q \in Nat : values[r].value = k * q
      <3>1. values[r].value \in Scores
        BY <1>1
      <3>2. PICK score \in Nat : score = values[r].value /\ score % k = 0
        <4>1. values[r].value \in Nat /\ values[r].value % (1 * k) = 0
          BY <2>2, <3>1, RolloutAssumption
        <4> QED
          BY <2>2, <4>1
      <3> QED
        BY <3>2, Divides
    <2>4. k \in Nat /\ IsFiniteSet(P)
      BY <1>4
    <2>5. \E q \in Nat : Total(values, P) = k * q
      <3>1. \A r \in P : Multiple(k, values[r].value)
        BY <2>3 DEF Multiple
      <3>2. Multiple(k, Total(values, P))
        BY <2>4, <3>1, SumOfMultiples
      <3> QED
        BY <3>2 DEF Multiple
    <2>6. PICK q \in Nat : Total(values, P) = k * q
      BY <2>5
    <2>7. (k * q) \div k = q
      BY Divides
    <2>8. Total(values, P) = Cardinality(P) * q /\ Total(values, P) \div Cardinality(P) = q
      BY <2>1, <2>6, <2>7, Zenon
    <2> QED
      BY <2>8
  <1>7. TaskMean(plan, values, t) =
            IF applicable = {} THEN [status |-> "not_applicable", value |-> None]
            ELSE IF present # applicable /\ plan.rowPolicy = "propagate" THEN [status |-> "missing_data", value |-> None]
            ELSE IF present = {} THEN [status |-> "zero_denominator", value |-> None]
            ELSE [status |-> "ok", value |-> Total(inputs, present) \div Cardinality(present)]
    BY DEF TaskMean, Aggregation, Total
  <1>8. applicable = {} => P = {}
    BY <1>3
  <1>9. present # applicable => P # RowsOf(t)
    BY <1>3
  <1> DEFINE mean == TaskMean(plan, values, t)
  <1>10. CASE P = {} \/ (present # applicable /\ plan.rowPolicy = "propagate")
    <2>1. mean.value = None
      <3> HIDE DEF inputs, applicable, present
      <3> QED
        BY <1>3, <1>7, <1>10
    <2>2. P # RowsOf(t)
      BY <1>1, <1>9, <1>10
    <2> QED
      BY <2>1, <2>2
  <1>11. CASE P # {} /\ ~(present # applicable /\ plan.rowPolicy = "propagate")
    <2>1. mean.value = Total(inputs, present) \div Cardinality(present)
      <3> HIDE DEF inputs, applicable, present
      <3> QED
        BY <1>3, <1>7, <1>8, <1>11
    <2>2. mean.value = Total(values, P) \div Cardinality(P)
      BY <1>3, <1>5, <2>1
    <2>3. PICK q \in Nat : Total(values, P) = Cardinality(P) * q /\ Total(values, P) \div Cardinality(P) = q
      BY <1>6, <1>11
    <2>4. mean.value = q /\ q # None
      BY <1>2, <2>2, <2>3
    <2>5. q * Cardinality(P) = Cardinality(P) * q
      BY <1>4
    <2> HIDE DEF mean
    <2>6. mean.value # None /\ P # {} /\ mean.value * Cardinality(P) = Total(values, P)
      BY <1>11, <2>3, <2>4, <2>5
    <2> QED
      BY <2>6 DEF mean
  <1> QED
    BY <1>10, <1>11

-----------------------------------------------------------------------------
(* Invariance, and what follows from it.                                   *)

\* No evaluation has begun.
LEMMA InitInvariant ==
    ASSUME Init
    PROVE  IInv
  <1>1. NoRow \in [attempt : 0 .. MaxRowAttempts - 1, answer : Answers \cup {None}]
    BY RolloutAssumption DEF NoRow
  <1>2. evidence.kind = None /\ None # "completed"
    BY RolloutAssumption DEF Init, NoEvidence
  <1>3. 0 \in 0 .. NumTasks * NumSeeds /\ 0 \in 0 .. MaxEvals /\ 0 \in 0 .. MaxFaults
    BY RowsFacts, RolloutAssumption
  <1>4. TypeOK
    BY <1>1, <1>2, <1>3 DEF Init, TypeOK
  <1>5. \A r \in Rows : FutureInv(r) /\ OutputInv(r)
    BY DEF Init, FutureInv, OutputInv
  <1>6. PhaseInv
    BY DEF Init, PhaseInv
  <1> QED
    BY <1>2, <1>4, <1>5, <1>6 DEF IInv, EvidenceInv

\* Nothing happens.
LEMMA StutterInvariant ==
    ASSUME IInv, UNCHANGED vars
    PROVE  IInv'
  <1>1. TypeOK'
    BY DEF IInv, TypeOK, vars, driver, work
  <1>2. \A r \in Rows : FutureInv(r)' /\ OutputInv(r)'
    BY RowKept DEF vars, driver, work
  <1>3. PhaseInv'
    BY DEF IInv, PhaseInv, vars, driver, work
  <1> QED
    BY <1>1, <1>2, <1>3, EvidenceKept DEF IInv, vars

\* Every step keeps the invariant.
LEMMA NextInvariant ==
    ASSUME IInv, [Next]_vars
    PROVE  IInv'
  <1>1. ASSUME NEW r \in Rows,
               \/ Pick(r) \/ RowRaises(r)
               \/ \E a \in Answers : LlmNode(r, a)
               \/ \E v \in Verdicts : EvalNode(r, v)
               \/ ScanDone(r) \/ ScanCancel(r) \/ PoolCompletion(r)
        PROVE  IInv'
    BY <1>1, PickInvariant, RowRaisesInvariant, LlmNodeInvariant, EvalNodeInvariant, ScanDoneInvariant,
       ScanCancelInvariant, PoolCompletionInvariant
  <1>2. CASE Begin \/ Reject \/ Expire \/ Close
    BY <1>2, BeginInvariant, RejectInvariant, ExpireInvariant, CloseInvariant
  <1>3. CASE Submit \/ Top \/ Collect \/ ScanEnds \/ PoolSubmit \/ PoolBreaks \/ PoolEnds
    BY <1>3, SubmitInvariant, TopInvariant, CollectInvariant, ScanEndsInvariant, PoolSubmitInvariant,
       PoolBreaksInvariant, PoolEndsInvariant
  <1>4. CASE (\E plan \in Plans : Persist(plan)) \/ PersistFailure
    BY <1>4, PersistInvariant, PersistFailureInvariant
  <1>5. CASE UNCHANGED vars
    BY <1>5, StutterInvariant
  <1> QED
    BY <1>1, <1>2, <1>3, <1>4, <1>5 DEF Next, Done

\* The invariant holds in every reachable state of both drivers, whatever the rows, the
\* concurrency, the plan and the moment the deadline passes.
THEOREM Invariance == Spec => []IInv
  BY InitInvariant, NextInvariant, PTL DEF Spec

\* The engine's state keeps its types: no row is executed more often than the driver of
\* graph_rollout.py allows and every future holds a row or nothing.
THEOREM TypeCorrect == Spec => []TypeOK
  <1>1. IInv => TypeOK
    BY DEF IInv
  <1> QED
    BY <1>1, Invariance, PTL

\* What an evaluation says of its rows is what happened to them: the deadline race between
\* done() and cancel() neither loses a finished row nor calls a row that reached the
\* provider not dispatched (graph_rollout.py run, _interpret_completion).
THEOREM DeadlineRowsAreTruthful == Spec => []DeadlineRowsTruthful
  <1>1. ASSUME IInv PROVE DeadlineRowsTruthful
    <2>1. ASSUME NEW r \in Rows, out[r] # None
          PROVE  /\ out[r].code = "not_dispatched" => r \notin touched /\ fut[r] \notin {"running", "finished"}
                 /\ out[r].code = "deadline" => fut[r] # "queued" /\ late
                 /\ r \in onTime => out[r] = result[r]
      <3>1. OutputInv(r)
        BY <1>1 DEF IInv
      <3> QED
        BY <2>1, <3>1 DEF OutputInv
    <2> QED
      BY <2>1 DEF DeadlineRowsTruthful
  <1> QED
    BY <1>1, Invariance, PTL

\* What the fan-in assembles from the rows of an evaluation that completed, with the counts
\* that _validate_row_derivation repeats.
AssemblyAgrees ==
    evidence.kind = "completed" =>
        /\ Assembled(evidence.plan, evidence.rows) = Derived(evidence)
        /\ evidence.counts = PerTaskCounts([r \in Rows |-> Published(evidence.rows[r])])

\* The part of EvidenceRederives that compares two evaluations of the same rows: the
\* aggregate, the reward, the per-task values and the counts that _persist_assembled_success
\* derives from the flags of the published rows are the ones _persist_success derived from
\* the failure codes of the generated ones, under every plan.
THEOREM AssemblyAgreesAlways == Spec => []AssemblyAgrees
  <1>1. ASSUME IInv PROVE AssemblyAgrees
    <2>1. SUFFICES ASSUME evidence.kind = "completed"
                   PROVE  /\ Assembled(evidence.plan, evidence.rows) = Derived(evidence)
                          /\ evidence.counts = PerTaskCounts([r \in Rows |-> Published(evidence.rows[r])])
      BY DEF AssemblyAgrees
    <2>2. PICK plan \in Plans, rows \in [Rows -> Output] :
              /\ \A r \in Rows : Attributable(rows[r]) /\ Recordable(rows[r])
              /\ evidence = CompletedEvidence(plan, rows)
      BY <1>1, <2>1 DEF IInv, EvidenceInv
    <2>3. PICK values : values = [r \in Rows |-> Generated(rows[r])]
      OBVIOUS
    <2>4. values = [r \in Rows |-> Published(rows[r])]
      BY <2>2, <2>3, GeneratedIsPublished
    <2>5. PICK agg : agg = TaskAverage(plan, values)
      OBVIOUS
    <2>6. evidence = [kind |-> "completed", rows |-> rows, agg |-> agg, plan |-> plan,
                      values |-> PerTaskScores(plan, values), counts |-> PerTaskCounts(values),
                      reward |-> RewardOf(plan, agg)]
      BY <2>2, <2>3, <2>5 DEF CompletedEvidence
    <2>7. /\ evidence.rows = rows /\ evidence.plan = plan /\ evidence.agg = agg
          /\ evidence.values = PerTaskScores(plan, values) /\ evidence.counts = PerTaskCounts(values)
          /\ evidence.reward = RewardOf(plan, agg)
      BY <2>6
    <2>8. Assembled(plan, rows) = [agg |-> agg, reward |-> RewardOf(plan, agg),
                                   values |-> PerTaskScores(plan, values), counts |-> PerTaskCounts(values)]
      BY <2>4, <2>5 DEF Assembled
    <2> QED
      BY <2>4, <2>7, <2>8 DEF Derived
  <1> QED
    BY <1>1, Invariance, PTL

\* The evidence an evaluation persists passes the derivation that is repeated before it is
\* bound, and the fan-in assembles the same from its rows: the counts are those of the
\* scored rows, every per-task value times its count is their sum, and a value is withheld
\* only from an incomplete task (_validate_row_derivation, _persist_assembled_success).
THEOREM EvidenceAlwaysRederives == Spec => []EvidenceRederives
  <1>1. ASSUME IInv, AssemblyAgrees PROVE EvidenceRederives
    <2>1. SUFFICES ASSUME evidence.kind = "completed"
                   PROVE  DerivationAccepted(evidence) /\ Assembled(evidence.plan, evidence.rows) = Derived(evidence)
      BY DEF EvidenceRederives
    <2>2. Assembled(evidence.plan, evidence.rows) = Derived(evidence)
      BY <1>1, <2>1 DEF AssemblyAgrees
    <2>3. PICK plan \in Plans, rows \in [Rows -> Output] :
              /\ \A r \in Rows : Attributable(rows[r]) /\ Recordable(rows[r])
              /\ evidence = CompletedEvidence(plan, rows)
      BY <1>1, <2>1 DEF IInv, EvidenceInv
    <2>4. PICK values : values = [r \in Rows |-> Published(rows[r])]
      OBVIOUS
    <2>5. values = [r \in Rows |-> Generated(rows[r])]
      BY <2>3, <2>4, GeneratedIsPublished
    <2>6. /\ evidence.rows = rows
          /\ evidence.values = PerTaskScores(plan, values)
          /\ evidence.counts = PerTaskCounts(values)
      BY <2>3, <2>5 DEF CompletedEvidence
    <2>7. ASSUME NEW r \in Rows
          PROVE  /\ values[r].cell = "scored" => values[r].value \in Scores
                 /\ values[r].cell # "scored" => values[r].value = None
      <3>1. values[r] = [cell |-> IF rows[r].state = "success" THEN "scored" ELSE rows[r].state,
                         value |-> rows[r].score]
        BY <2>4 DEF Published, RowValue
      <3>2. rows[r].state \in {"success", "failed", "missing", "invalid"} /\ rows[r].score \in Scores \cup {None}
        BY DEF Output, States
      <3>3. (rows[r].score # None) <=> (rows[r].state = "success")
        BY <2>3 DEF Recordable
      <3> QED
        BY <3>1, <3>2, <3>3
    <2>8. ASSUME NEW t \in Tasks, NEW P, P = {r \in RowsOf(t) : values[r].cell = "scored"}
          PROVE  /\ evidence.counts[t] = Cardinality(P)
                 /\ IF evidence.values[t] = None THEN P # RowsOf(t)
                    ELSE P # {} /\ evidence.values[t] * Cardinality(P) = Total(values, P)
      <3>1. evidence.counts[t] = Cardinality(P)
        BY <2>6, <2>8 DEF PerTaskCounts
      <3>2. evidence.values[t] = TaskMean(plan, values, t).value
        BY <2>6 DEF PerTaskScores
      <3> QED
        BY <2>7, <2>8, <3>1, <3>2, TaskMeanRederives
    <2>9. DerivationAccepted(evidence)
      <3>1. [r \in Rows |-> Published(evidence.rows[r])] = values
        BY <2>4, <2>6
      <3> DEFINE Accepted(v) ==
                     \A t \in Tasks :
                         LET P == {r \in RowsOf(t) : v[r].cell = "scored"}
                         IN  /\ evidence.counts[t] = Cardinality(P)
                             /\ IF evidence.values[t] = None THEN P # RowsOf(t)
                                ELSE P # {} /\ evidence.values[t] * Cardinality(P) = Total(v, P)
      <3>2. DerivationAccepted(evidence) = Accepted([r \in Rows |-> Published(evidence.rows[r])])
        BY DEF DerivationAccepted, Total
      <3>3. Accepted(values)
        BY <2>8
      <3> HIDE DEF Accepted
      <3> QED
        BY <3>1, <3>2, <3>3
    <2> QED
      BY <2>2, <2>9
  <1> QED
    BY <1>1, Invariance, AssemblyAgreesAlways, PTL
=============================================================================
