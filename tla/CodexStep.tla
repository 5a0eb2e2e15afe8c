------------------------------ MODULE CodexStep ------------------------------
(***************************************************************************)
(* The tool-using step: optim/harness.py run_step around the Codex adapter *)
(* (optim/codex/adapter.py), the evaluation server the agent calls         *)
(* (optim/codex/mcp_*.py), the tool executor and the tool call store       *)
(* (optim/tools/execution.py, facade.py, admission.py, _memory.py), and    *)
(* the issued-call ledger of the step (optim/tools/issued.py).             *)
(*                                                                         *)
(* The agent is not trusted.  It calls the server from several threads,    *)
(* repeats calls, ends whenever it likes, and reports any list of calls.   *)
(* Two drivers of the run may execute run_step for the same request: a     *)
(* redelivered stage, or an operator who starts a stalled run again.       *)
(***************************************************************************)
EXTENDS Naturals, Sequences, FiniteSets, SequencesExt

CONSTANTS
    Attempts,          \* concurrent executions of run_step
    Threads,           \* request threads of the evaluation server
    Calls,             \* Tool Calls, one for each call_id
    Invalid,           \* calls that EngineToolEvaluator.validate rejects
    Foreign,           \* calls whose base_ref is no candidate of the request
    MaxToolCalls,      \* the capacity of the run and the budget of the step
    IdempotentReplay,  \* idempotent_replay of the Tool Config
    MaxFence,          \* bound: acquisitions of one tool effect lease
    MaxReport,         \* bound: length of the agent's report
    MaxCrashes,        \* bound on crashes of run_step's process
    None

Workers == Attempts \cup Threads

\* A Tool Result.  fence names the evaluation it came from.
Evaluated == [kind : {"scored", "failed"}, fence : 1 .. MaxFence]
Refusal == [kind : {"validation", "capacity"}]
ToolResult == Evaluated \cup Refusal

\* ToolCallStoreEntry; ordinal is capacity_debit_ordinal, 0 if there is none.
Entry == [state : {"none", "accepted", "refused", "completed"},
          ordinal : 0 .. MaxToolCalls, result : ToolResult \cup {None}]

\* An effect lease of the authority and, once it is settled, its terminal.
ToolEffect == [status : {"free", "held", "settled", "recovery"},
               fence : 0 .. MaxFence, lapsed : BOOLEAN,
               result : Evaluated \cup {None}]

\* AdapterOutput: interrupted are the interrupted_call_ids of the failure,
\* nested the failed evaluations it adopts or supersedes, debit the tool_calls
\* of the budget_delta.
Output == [status : {"complete", "failed"}, selected : Calls \cup {None},
           interrupted : SUBSET Calls, nested : SUBSET Calls,
           debit : 0 .. MaxToolCalls]

AdapterEffect == [status : {"free", "held", "settled", "recovery"},
                  lapsed : BOOLEAN, output : Output \cup {None}]

\* The part of a Step Result that a tool-using step decides.
StepResult == [output : Output, evidence : Seq(Calls)]

ASSUME ConstantsAssumption ==
    /\ Attempts \cap Threads = {}
    /\ Invalid \subseteq Calls
    /\ Foreign \subseteq Calls
    /\ MaxToolCalls \in Nat \ {0}
    /\ IdempotentReplay \in BOOLEAN
    /\ MaxFence \in Nat \ {0}
    /\ MaxReport \in Nat
    /\ MaxCrashes \in Nat
    /\ None \notin Attempts \cup Calls
    /\ None \notin ToolResult \cup Output \cup StepResult

Report == UNION {[1 .. n -> Calls] : n \in 0 .. MaxReport}

VARIABLES
    entries,     \* the tool call store: admission entry of each call
    consumed,    \* capacity debited in the scope of the run
    effect,      \* effect lease of each call
    exec,        \* the execution of a call on each worker
    slots,       \* the issued-call ledger: calls in slot order
    terminals,   \* the issued-call ledger: result bound for a call
    lease,       \* effect lease of the adapter invocation
    host,        \* the live attempt that invoked the adapter, or None
    att,         \* the attempts
    bound,       \* the Step Result bound for the step, or None
    crashes

toolStore == <<entries, consumed, effect>>
ledger == <<slots, terminals>>
vars == <<toolStore, exec, ledger, lease, host, att, bound, crashes>>

NoEntry == [state |-> "none", ordinal |-> 0, result |-> None]
NoEffect == [status |-> "free", fence |-> 0, lapsed |-> FALSE, result |-> None]
Resting == [pc |-> "idle", call |-> None, fence |-> 0, result |-> None]
Away == [pc |-> "idle", todo |-> << >>, issued |-> << >>, phase |-> "report",
         count |-> 0, output |-> None, evidence |-> << >>]

\* The attempt is inside adapter.invoke or about to publish what it returned.
Invoking == {"agent", "join", "count", "report", "issue", "record", "select",
             "reconcile", "checkpoint", "settle"}

\* The execution of a call on a worker, and the progress of an attempt.
Execution == [pc : {"idle", "refuse", "admit", "acquire", "evaluate", "publish", "complete"},
              call : Calls \cup {None}, fence : 0 .. MaxFence,
              result : Evaluated \cup {None}]

Progress == [pc : Invoking \cup {"idle", "acquire", "finish", "bind"},
             todo : Seq(Calls), issued : Seq(Calls),
             phase : {"report", "reconcile"}, count : 0 .. MaxToolCalls,
             output : Output \cup {None}, evidence : Seq(Calls)]

TypeOK ==
    /\ entries \in [Calls -> Entry]
    /\ consumed \in 0 .. MaxToolCalls
    /\ effect \in [Calls -> ToolEffect]
    /\ exec \in [Workers -> Execution]
    /\ slots \in Seq(Calls)
    /\ terminals \in [Calls -> ToolResult \cup {None}]
    /\ lease \in AdapterEffect
    /\ host \in Attempts \cup {None}
    /\ att \in [Attempts -> Progress]
    /\ bound \in StepResult \cup {None}
    /\ crashes \in 0 .. MaxCrashes

Init ==
    /\ entries = [c \in Calls |-> NoEntry]
    /\ consumed = 0
    /\ effect = [c \in Calls |-> NoEffect]
    /\ exec = [w \in Workers |-> Resting]
    /\ slots = << >>
    /\ terminals = [c \in Calls |-> None]
    /\ lease = [status |-> "free", lapsed |-> FALSE, output |-> None]
    /\ host = None
    /\ att = [a \in Attempts |-> Away]
    /\ bound = None
    /\ crashes = 0

Admitted == {c \in Calls : entries[c].ordinal # 0}
InState(state) == {c \in Calls : entries[c].state = state}
Answered == InState("refused") \cup InState("completed")

-----------------------------------------------------------------------------
(* EvaluatingToolExecutor.execute, on a worker.                            *)

At(w, pc) == exec[w].pc = pc
Goto(w, pc) == exec' = [exec EXCEPT ![w].pc = pc]
Return(w) == exec' = [exec EXCEPT ![w] = Resting]

\* Read the entry and validate a new call.
Dispatch(c) ==
    IF entries[c].state = "refused" THEN Resting
    ELSE [Resting EXCEPT !.call = c,
                         !.pc = IF entries[c].state # "none" THEN "acquire"
                                ELSE IF c \in Invalid THEN "refuse" ELSE "admit"]

\* ToolCallStore.refuse
Refuse(w) ==
    LET c == exec[w].call IN
    /\ At(w, "refuse")
    /\ entries' = IF entries[c].state = "none"
                  THEN [entries EXCEPT ![c] = [state |-> "refused", ordinal |-> 0,
                                               result |-> [kind |-> "validation"]]]
                  ELSE entries
    /\ Return(w)
    /\ UNCHANGED <<consumed, effect, ledger, lease, host, att, bound, crashes>>

\* The decision of the admission backend for a call without an entry.
Decision ==
    IF consumed < MaxToolCalls
    THEN [state |-> "accepted", ordinal |-> consumed + 1, result |-> None]
    ELSE [state |-> "refused", ordinal |-> 0, result |-> [kind |-> "capacity"]]

\* Mutant: admission does not look for an existing entry.
AdmitWithoutReplay(w) ==
    /\ At(w, "admit")
    /\ entries' = [entries EXCEPT ![exec[w].call] = Decision]
    /\ consumed' = IF Decision.state = "accepted" THEN Decision.ordinal ELSE consumed
    /\ IF Decision.state = "refused" THEN Return(w) ELSE Goto(w, "acquire")
    /\ UNCHANGED <<effect, ledger, lease, host, att, bound, crashes>>

\* One transaction: replay the existing entry, or debit capacity, or refuse.
Admit(w) ==
    LET c == exec[w].call
        entry == IF entries[c].state = "none" THEN Decision ELSE entries[c]
    IN
    /\ At(w, "admit")
    /\ entries' = [entries EXCEPT ![c] = entry]
    /\ consumed' = IF entries[c].state = "none" /\ entry.state = "accepted"
                   THEN entry.ordinal ELSE consumed
    /\ IF entry.state = "refused" THEN Return(w) ELSE Goto(w, "acquire")
    /\ UNCHANGED <<effect, ledger, lease, host, att, bound, crashes>>

\* The tool's effect lease is won: it was free, or it lapsed and may be redriven.
Obtain(w) ==
    LET c == exec[w].call IN
    /\ At(w, "acquire")
    /\ \/ effect[c].status = "free"
       \/ effect[c].status = "held" /\ effect[c].lapsed /\ IdempotentReplay
    /\ effect' = [effect EXCEPT ![c] =
                     [NoEffect EXCEPT !.status = "held", !.fence = effect[c].fence + 1]]
    /\ exec' = [exec EXCEPT ![w].pc = "evaluate", ![w].fence = effect[c].fence + 1]
    /\ UNCHANGED <<entries, consumed, ledger, lease, host, att, bound, crashes>>

\* The effect was settled before: repair the entry from its terminal.
ObtainTerminal(w) ==
    /\ At(w, "acquire")
    /\ effect[exec[w].call].status = "settled"
    /\ Goto(w, "complete")
    /\ UNCHANGED <<toolStore, ledger, lease, host, att, bound, crashes>>

\* ToolExecutionBusyError or ToolExecutionRecoveryRequiredError, to the agent.
NotObtained(w) ==
    LET c == exec[w].call IN
    /\ At(w, "acquire")
    /\ effect[c].status \in {"held", "recovery"}
    /\ ~(effect[c].status = "held" /\ effect[c].lapsed /\ IdempotentReplay)
    /\ effect' = IF effect[c].status = "held" /\ effect[c].lapsed
                 THEN [effect EXCEPT ![c].status = "recovery"] ELSE effect
    /\ Return(w)
    /\ UNCHANGED <<entries, consumed, ledger, lease, host, att, bound, crashes>>

\* Evaluation failures and late rejections are results too.
Evaluate(w) ==
    /\ At(w, "evaluate")
    /\ \E kind \in {"scored", "failed"} :
          exec' = [exec EXCEPT ![w].pc = "publish",
                               ![w].result = [kind |-> kind, fence |-> exec[w].fence]]
    /\ UNCHANGED <<toolStore, ledger, lease, host, att, bound, crashes>>

\* The lease of the worker has not been taken over.
Current(w) ==
    LET c == exec[w].call IN
    effect[c].status = "held" /\ effect[c].fence = exec[w].fence

\* maintenance.succeed or maintenance.fail with the persisted result.
Publish(w) ==
    LET c == exec[w].call IN
    /\ At(w, "publish")
    /\ Current(w)
    /\ effect' = [effect EXCEPT ![c].status = "settled", ![c].lapsed = FALSE,
                                ![c].result = exec[w].result]
    /\ Goto(w, "complete")
    /\ UNCHANGED <<entries, consumed, ledger, lease, host, att, bound, crashes>>

\* Mutant: the entry is completed with what this worker evaluated.
CompleteOwnResult(w) ==
    LET c == exec[w].call IN
    /\ At(w, "complete")
    /\ entries' = [entries EXCEPT ![c].state = "completed", ![c].result = exec[w].result]
    /\ Return(w)
    /\ UNCHANGED <<consumed, effect, ledger, lease, host, att, bound, crashes>>

\* ToolCallStore.complete with the authoritative terminal.
Complete(w) ==
    LET c == exec[w].call IN
    /\ At(w, "complete")
    /\ entries' = [entries EXCEPT ![c].state = "completed", ![c].result = effect[c].result]
    /\ Return(w)
    /\ UNCHANGED <<consumed, effect, ledger, lease, host, att, bound, crashes>>

\* StaleLeaseError at publication, an unexpected exception of the evaluator, a
\* store that fails: the call raises and leaves its lease and entry behind.
Raise(w) ==
    /\ ~At(w, "idle")
    /\ Return(w)
    /\ UNCHANGED <<toolStore, ledger, lease, host, att, bound, crashes>>

\* A lease's time runs out before its holder renews it.
ToolLapse(c) ==
    /\ effect[c].status = "held"
    /\ ~effect[c].lapsed
    /\ effect[c].fence < MaxFence
    /\ effect' = [effect EXCEPT ![c].lapsed = TRUE]
    /\ UNCHANGED <<entries, consumed, exec, ledger, lease, host, att, bound, crashes>>

Execute(w) ==
    \/ Refuse(w) \/ Admit(w) \/ Obtain(w) \/ ObtainTerminal(w) \/ NotObtained(w)
    \/ Evaluate(w) \/ Publish(w) \/ Complete(w)

-----------------------------------------------------------------------------
(* The agent and the evaluation server that the adapter hosts for it.      *)

Doing(a, pc) == att[a].pc = pc
Proceed(a, pc) == att' = [att EXCEPT ![a].pc = pc]
Leave(a) == att' = [att EXCEPT ![a] = Away]

\* The agent calls evaluate_candidate.
Serve(t, c) ==
    /\ host # None
    /\ Doing(host, "agent")
    /\ At(t, "idle")
    /\ exec' = [exec EXCEPT ![t] = Dispatch(c)]
    /\ UNCHANGED <<toolStore, ledger, lease, host, att, bound, crashes>>

\* The agent process ends with a report; or it ends without one that can be
\* used, is stopped by the wall budget, or never had a server.
AgentEnds(a) ==
    /\ Doing(a, "agent")
    /\ \/ \E report \in Report :
             att' = [att EXCEPT ![a].pc = "join", ![a].todo = report]
       \/ att' = [att EXCEPT ![a].pc = "join", ![a].phase = "reconcile"]
    /\ UNCHANGED <<toolStore, exec, ledger, lease, host, bound, crashes>>

\* CodexMcpHost.__exit__: the server threads are done, or the join timed out on
\* evaluations that are wedged.  An attempt without a report reconciles.
Join(a) ==
    /\ Doing(a, "join")
    /\ \A t \in Threads : At(t, "idle") \/ At(t, "evaluate")
    /\ Proceed(a, IF att[a].phase = "report" THEN "count" ELSE "reconcile")
    /\ UNCHANGED <<toolStore, exec, ledger, lease, host, bound, crashes>>

\* accepted_count is read before the report is looked at.
Count(a) ==
    /\ Doing(a, "count")
    /\ att' = [att EXCEPT ![a].pc = "report", ![a].count = consumed]
    /\ UNCHANGED <<toolStore, exec, ledger, lease, host, bound, crashes>>

\* The artifact names another run or lacks the run's lease token.
Mismatch(a) ==
    /\ Doing(a, "count")
    /\ Proceed(a, "reconcile")
    /\ UNCHANGED <<toolStore, exec, ledger, lease, host, bound, crashes>>

-----------------------------------------------------------------------------
(* CodexDirectAdapter.invoke once the agent has ended.                     *)

\* A reported call that _admitted_calls takes as evidence.
Acceptable(a, c) ==
    /\ c \notin ToSet(att[a].issued)
    /\ entries[c].state = "completed"
    /\ c \notin Foreign

\* Check the next reported call; issue it, or give up on the report.
ReportCall(a) ==
    /\ Doing(a, "report")
    /\ att[a].todo # << >>
    /\ Proceed(a, IF Acceptable(a, Head(att[a].todo)) THEN "issue" ELSE "reconcile")
    /\ UNCHANGED <<toolStore, exec, ledger, lease, host, bound, crashes>>

\* Mutant: the report is not compared with what was admitted.
ReportEndsUnchecked(a) ==
    /\ Doing(a, "report")
    /\ att[a].todo = << >>
    /\ Proceed(a, "select")
    /\ UNCHANGED <<toolStore, exec, ledger, lease, host, bound, crashes>>

\* All reported calls are issued: does the report cover what was admitted?
ReportEnds(a) ==
    /\ Doing(a, "report")
    /\ att[a].todo = << >>
    /\ Proceed(a, IF Len(att[a].issued) < att[a].count THEN "reconcile" ELSE "select")
    /\ UNCHANGED <<toolStore, exec, ledger, lease, host, bound, crashes>>

\* The seed is retained, or a reported and scored call is selected; everything
\* else, a selection that breaks the candidate contract included, fails.
Select(a) ==
    /\ Doing(a, "select")
    /\ \/ \E c \in {None} \cup {d \in ToSet(att[a].issued) : terminals[d].kind = "scored"} :
             att' = [att EXCEPT ![a].pc = "checkpoint",
                                ![a].output = [status |-> "complete", selected |-> c,
                                               interrupted |-> {}, nested |-> {},
                                               debit |-> 0]]
       \/ Proceed(a, "reconcile")
    /\ UNCHANGED <<toolStore, exec, ledger, lease, host, bound, crashes>>

\* Calls in the order of their capacity ordinals.
InDebitOrder(S) ==
    CHOOSE s \in [1 .. Cardinality(S) -> S] :
        \A i, j \in DOMAIN s : i < j => entries[s[i]].ordinal < entries[s[j]].ordinal

\* Mutant: admitted calls that did not finish are issued as well.
ToIssueAll(a) == Admitted \ ToSet(att[a].issued)

\* Mutant: calls that were issued before the failure are issued again.
ToIssueAgain(a) == InState("completed")

\* Mutant: unfinished calls are not named.
InterruptedNone(a) == {}

\* _terminalize: what was admitted and is not yet on the ledger.  Completed calls
\* are issued; accepted ones are named by the failure.
ToIssue(a) == InState("completed") \ ToSet(att[a].issued)
Interrupted(a) == InState("accepted") \ ToSet(att[a].issued)

Reconcile(a) ==
    /\ Doing(a, "reconcile")
    /\ att' = [att EXCEPT ![a].pc = "issue", ![a].phase = "reconcile",
                          ![a].todo = InDebitOrder(ToIssue(a)),
                          ![a].output = [status |-> "failed", selected |-> None,
                                         interrupted |-> Interrupted(a),
                                         nested |-> {}, debit |-> 0]]
    /\ UNCHANGED <<toolStore, exec, ledger, lease, host, bound, crashes>>

\* Mutant: the failure says nothing of the failed evaluations.
ReconciledSilently(a) ==
    /\ Doing(a, "issue")
    /\ att[a].todo = << >>
    /\ Proceed(a, "checkpoint")
    /\ UNCHANGED <<toolStore, exec, ledger, lease, host, bound, crashes>>

\* _shared_failure accounts for the failed evaluations among the issued calls.
Reconciled(a) ==
    /\ Doing(a, "issue")
    /\ att[a].todo = << >>
    /\ att' = [att EXCEPT ![a].pc = "checkpoint",
                          ![a].output.nested =
                              {c \in ToSet(att[a].issued) : terminals[c].kind = "failed"}]
    /\ UNCHANGED <<toolStore, exec, ledger, lease, host, bound, crashes>>

-----------------------------------------------------------------------------
(* _IssuedToolCallLedger.issue, of the call at the head of todo.  No attempt *)
(* replays a prefix: only one invocation of the adapter is ever started.    *)

\* The slot of a call, or the next free one.  The call raises if it was issued by this
\* attempt before or the tool_calls budget is used up.  A bind that loses the slot reads
\* the slots again, so the one that succeeds saw all of them.
Reserve(a) ==
    LET c == Head(att[a].todo)
        reserved == c \in ToSet(slots)
    IN
    /\ Doing(a, "issue")
    /\ att[a].todo # << >>
    /\ IF c \notin ToSet(att[a].issued) /\ (reserved \/ Len(slots) < MaxToolCalls)
       THEN /\ slots' = IF reserved THEN slots ELSE Append(slots, c)
            /\ Proceed(a, "record")
       ELSE Leave(a) /\ UNCHANGED slots
    /\ UNCHANGED <<toolStore, exec, terminals, lease, host, bound, crashes>>

\* Bind the answer the store has; a call that has none would be executed.
Record(a) ==
    LET c == Head(att[a].todo) IN
    /\ Doing(a, "record")
    /\ At(a, "idle")
    /\ IF c \in Answered
       THEN /\ terminals' = [terminals EXCEPT ![c] = IF @ = None THEN entries[c].result ELSE @]
            /\ att' = [att EXCEPT ![a].pc = IF att[a].phase = "report" THEN "report" ELSE "issue",
                                  ![a].todo = Tail(@), ![a].issued = Append(@, c)]
            /\ exec' = exec
       ELSE /\ exec' = [exec EXCEPT ![a] = Dispatch(c)]
            /\ UNCHANGED <<terminals, att>>
    /\ UNCHANGED <<toolStore, slots, lease, host, bound, crashes>>

-----------------------------------------------------------------------------
(* OptimHarness.run_step.                                                  *)

\* A step without a bound result is executed; a bound one is just returned.
Start(a) ==
    /\ Doing(a, "idle")
    /\ bound = None
    /\ Proceed(a, "acquire")
    /\ UNCHANGED <<toolStore, exec, ledger, lease, host, bound, crashes>>

Invoke(a) ==
    /\ Doing(a, "acquire")
    /\ lease.status = "free"
    /\ lease' = [lease EXCEPT !.status = "held"]
    /\ host' = a
    /\ Proceed(a, "agent")
    /\ UNCHANGED <<toolStore, exec, ledger, bound, crashes>>

\* EffectBusyError, or EffectRecoveryRequiredError: NO_REDRIVE never invokes again.
NotInvoked(a) ==
    /\ Doing(a, "acquire")
    /\ lease.status \in {"held", "recovery"}
    /\ lease' = IF lease.lapsed THEN [lease EXCEPT !.status = "recovery"] ELSE lease
    /\ Leave(a)
    /\ UNCHANGED <<toolStore, exec, ledger, host, bound, crashes>>

\* The invocation was settled before: take its checkpoint.
LoadCheckpoint(a) ==
    /\ Doing(a, "acquire")
    /\ lease.status = "settled"
    /\ att' = [att EXCEPT ![a].pc = "finish", ![a].output = lease.output]
    /\ UNCHANGED <<toolStore, exec, ledger, lease, host, bound, crashes>>

\* ledger.evidence(): every slot has a terminal.
EvidenceExists == \A c \in ToSet(slots) : terminals[c] # None

\* _invoke_and_persist_adapter after the adapter returned.
Checkpoint(a) ==
    /\ Doing(a, "checkpoint")
    /\ IF EvidenceExists
       THEN att' = [att EXCEPT ![a].pc = "settle", ![a].output.debit = Len(slots)]
       ELSE Leave(a)
    /\ UNCHANGED <<toolStore, exec, ledger, lease, host, bound, crashes>>

\* maintenance.succeed or maintenance.fail with the checkpoint.
Settle(a) ==
    /\ Doing(a, "settle")
    /\ lease.status = "held"
    /\ lease' = [status |-> "settled", lapsed |-> FALSE, output |-> att[a].output]
    /\ Proceed(a, "finish")
    /\ UNCHANGED <<toolStore, exec, ledger, host, bound, crashes>>

\* StaleLeaseError: the lease lapsed meanwhile.
SettleStale(a) ==
    /\ Doing(a, "settle")
    /\ lease.lapsed
    /\ Leave(a)
    /\ UNCHANGED <<toolStore, exec, ledger, lease, host, bound, crashes>>

\* The failed evaluations of a failed step are the ones its failure accounts for.
FailureAccounted(output) ==
    output.status = "failed" =>
        output.nested = {c \in ToSet(slots) : terminals[c].kind = "failed"}

\* Evidence is read again, checked against the checkpoint, and made into the result.
Finish(a) ==
    /\ Doing(a, "finish")
    /\ IF EvidenceExists /\ att[a].output.debit = Len(slots) /\ FailureAccounted(att[a].output)
       THEN att' = [att EXCEPT ![a].pc = "bind", ![a].evidence = slots]
       ELSE Leave(a)
    /\ UNCHANGED <<toolStore, exec, ledger, lease, host, bound, crashes>>

\* The first result wins; an equal one is the same, another one a conflict.
Bind(a) ==
    /\ Doing(a, "bind")
    /\ bound' = IF bound = None
                THEN [output |-> att[a].output, evidence |-> att[a].evidence]
                ELSE bound
    /\ Leave(a)
    /\ UNCHANGED <<toolStore, exec, ledger, lease, host, crashes>>

\* The lease of the invocation runs out before it is renewed.
Lapse ==
    /\ lease.status = "held"
    /\ ~lease.lapsed
    /\ lease' = [lease EXCEPT !.lapsed = TRUE]
    /\ UNCHANGED <<toolStore, exec, ledger, host, att, bound, crashes>>

\* The process of an attempt dies, and with the host its server threads.
Crash(a) ==
    /\ crashes < MaxCrashes
    /\ ~Doing(a, "idle")
    /\ crashes' = crashes + 1
    /\ Leave(a)
    /\ host' = IF host = a THEN None ELSE host
    /\ exec' = IF host = a THEN [w \in Workers |-> Resting] ELSE exec
    /\ UNCHANGED <<toolStore, ledger, lease, bound>>

RunStep(a) ==
    \/ Start(a) \/ Invoke(a) \/ NotInvoked(a) \/ LoadCheckpoint(a)
    \/ AgentEnds(a) \/ Join(a) \/ Count(a) \/ Mismatch(a)
    \/ ReportCall(a) \/ ReportEnds(a) \/ Select(a) \/ Reconcile(a) \/ Reconciled(a)
    \/ Reserve(a) \/ Record(a) \/ Checkpoint(a) \/ Settle(a) \/ SettleStale(a)
    \/ Finish(a) \/ Bind(a)

Next ==
    \/ \E a \in Attempts : RunStep(a) \/ Crash(a)
    \/ \E t \in Threads, c \in Calls : Serve(t, c)
    \/ \E w \in Workers : Execute(w) \/ Raise(w)
    \/ \E c \in Calls : ToolLapse(c)
    \/ Lapse

\* An unfinished step is executed again until its result is bound.
Fairness == \A a \in Attempts : WF_vars(RunStep(a))

Spec == Init /\ [][Next]_vars
FairSpec == Spec /\ Fairness

-----------------------------------------------------------------------------
(* Properties.                                                             *)

\* However the server threads race for the last of the capacity, and whatever is
\* refused, repeated or lost, the admitted calls carry the ordinals 1 .. consumed,
\* each once, and never more than the capacity (admission.py, _entries_in_scope:
\* "one-based and dense").
CapacityIsDense ==
    /\ consumed = Cardinality(Admitted)
    /\ {entries[c].ordinal : c \in Admitted} = 1 .. consumed
    /\ consumed <= MaxToolCalls

\* A call has one answer: what the store completed it with is what its effect
\* lease was settled with, also when an evaluation was taken over and its first
\* owner came back, and what the ledger recorded for the step is that answer.
OneAnswerPerCall ==
    \A c \in Calls :
        /\ entries[c].state = "completed" =>
               effect[c].status = "settled" /\ entries[c].result = effect[c].result
        /\ terminals[c] # None => terminals[c] = entries[c].result

\* Whatever the agent reported and however the step ended, every evaluation that
\* was paid for is on the step's evidence or named as interrupted by its failure,
\* and the budget is debited by exactly the evidence (adapter.py, _terminalize).
SpendIsAccounted ==
    bound # None =>
        /\ Admitted \subseteq ToSet(bound.evidence) \cup bound.output.interrupted
        /\ bound.output.debit = Len(bound.evidence)

\* A step that completed has every admitted call among its evidence, each of them
\* completed and none twice, and what it selected was scored (adapter.py, module
\* comment: "a Step never completes with paid evaluations invisible to the ledger").
CompleteStepIsTotal ==
    bound # None /\ bound.output.status = "complete" =>
        /\ ToSet(bound.evidence) = Admitted
        /\ Admitted = InState("completed")
        /\ Len(bound.evidence) = consumed
        /\ bound.output.selected # None => entries[bound.output.selected].result.kind = "scored"

\* Reconciliation reads recorded answers and never evaluates ("never buys more").
ReconciliationBuysNothing == \A a \in Attempts : At(a, "idle")

\* However the agent misbehaves, an invocation that neither dies nor loses its lease
\* publishes an outcome: it never ends by an exception that leaves the NO_REDRIVE
\* effect unsettled (adapter.py, the comments of invoke).
NoStrandedLease ==
    lease.status = "held" /\ ~lease.lapsed /\ host # None => att[host].pc \in Invoking

\* An outcome that was published is bound in the end: no crash between checkpoint
\* and binding, and no evaluation that lingers, makes run_step refuse its own
\* checkpoint for ever.
SettledIsBound == (lease.status = "settled") ~> (bound # None)
=============================================================================
