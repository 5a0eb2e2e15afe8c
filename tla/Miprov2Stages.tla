--------------------------- MODULE Miprov2Stages ---------------------------
(***************************************************************************)
(* The two stages a MIPROv2 run passes before its study: the bootstrap     *)
(* compiler of optim/miprov2/bootstrap.py, which collects demonstrations   *)
(* task by task, and the instruction proposer of optim/miprov2/proposal.py.*)
(* Both are pure: a state, the next request it asks for, and the state a   *)
(* response folds it into.  Texts, traces and prompts are left out; a      *)
(* position of the shared seeded generator is the number of draws made.    *)
(***************************************************************************)
EXTENDS Integers, Sequences, FiniteSets, FiniteSetsExt, SequencesExt

CONSTANT None

\* The resolved control (control.py): counts, caps and modes.
Control == [
    mode : {"fewshot", "zeroshot", "ground_only"},
    sets : Nat,        \* num_fewshot_candidates
    boot : Nat,        \* max_bootstrapped_demos
    labels : Nat,      \* max_labeled_demos
    cap : Nat,         \* what randint gives a shuffled plan
    maxErrors : Nat,
    train : Nat,       \* tasks of the trainset
    candidates : Nat,  \* num_instruct_candidates
    view : Nat,        \* view_data_batch_size
    data : BOOLEAN, program : BOOLEAN, tip : BOOLEAN,
    trials : Nat, minibatch : BOOLEAN, size : Nat, valset : Nat, steps : Nat,
    seeds : Nat]

\* What configure_miprov2 resolves and Miprov2Control accepts.
Configured(c) ==
    /\ c.train > 0 /\ c.valset > 0 /\ c.trials > 0 /\ c.steps > 0 /\ c.size > 0
    /\ c.candidates > 0 /\ c.sets > 0 /\ c.view > 0 /\ c.seeds > 0
    /\ (c.mode = "zeroshot") <=> (c.boot = 0 /\ c.labels = 0)
    /\ c.minibatch => c.size <= c.valset

SearchesDemos(c) == c.mode = "fewshot"

----------------------------------------------------------------------------
(* Bootstrap: candidate plans.                                             *)

\* Zero-shot grounds its proposals in 3 bootstrapped demos, then drops them.
BootCap(c) == IF c.mode = "zeroshot" THEN 3 ELSE c.boot
LabelCap(c) == IF c.mode = "zeroshot" THEN 0 ELSE c.labels

CandidateSeeds(c) == {s \in -3 .. c.sets : s < c.sets - 3}
Shuffled(c, s) == ~ (s = -3 \/ (s = -2 /\ LabelCap(c) > 0) \/ s = -1)

\* create_fewshot_candidate_plans refuses a shuffled plan with no demo to draw.
Plannable(c) == (\E s \in CandidateSeeds(c) : Shuffled(c, s)) => BootCap(c) >= 1

FewshotCandidatePlan(c, s) ==
    [seed |-> s,
     kind |-> CASE s = -3 -> "reset"
                [] s = -2 /\ LabelCap(c) > 0 -> "labels_only"
                [] OTHER -> "bootstrap",
     cap |-> IF Shuffled(c, s) THEN c.cap ELSE BootCap(c)]

Plans(c) == [i \in 1 .. Cardinality(CandidateSeeds(c)) |-> FewshotCandidatePlan(c, i - 4)]

\* A shuffled plan draws its order and its cap.
PlanningDraws(c) == 2 * Cardinality({s \in CandidateSeeds(c) : Shuffled(c, s)})

(* Bootstrap: the compiler of one plan, one round per task.                *)

InitialCompiler == [task |-> 0, errors |-> 0, attempts |-> 0, done |-> <<>>, failed |-> FALSE]

\* next_bootstrap_attempt, None when the plan is exhausted.
NextAttempt(c, i, m) ==
    IF Len(m.done) >= Plans(c)[i + 1].cap \/ m.task >= c.train
    THEN None
    ELSE [plan |-> i, task |-> m.task]

\* fold_bootstrap_result: an error counts towards max_errors and ends the
\* plan there; otherwise the compiler moves on to the next task.
FoldResult(c, m, result) ==
    LET tried == [m EXCEPT !.attempts = @ + 1] IN
    CASE result = "error" /\ m.errors + 1 >= c.maxErrors ->
            [tried EXCEPT !.errors = @ + 1, !.failed = TRUE]
      [] result = "error" /\ m.errors + 1 < c.maxErrors -> [tried EXCEPT !.errors = @ + 1, !.task = @ + 1]
      [] result = "refused" -> [tried EXCEPT !.task = @ + 1]
      [] result = "accepted" -> [tried EXCEPT !.done = Append(@, m.task), !.task = @ + 1]

\* materialize_reset, _labels_only and _bootstrap_demo_set.
DemoSet(c, i, m) ==
    LET plan == Plans(c)[i + 1] IN
    [plan |-> i,
     tasks |-> IF plan.kind = "bootstrap" THEN m.done ELSE <<>>,
     labeled |-> IF plan.kind = "reset" THEN 0
                 ELSE Max({0, Min({LabelCap(c), c.train}) - Len(m.done)})]

----------------------------------------------------------------------------
(* Instruction proposal.                                                   *)

MaxDescriptorCalls == 10
MaxCompleteSkips == 5

Responses == {"text", "complete", "invalid", "failed"}

\* start_miprov2_proposal.
StartProposal(c, demoSets, rng) ==
    [stage |-> IF c.data THEN "dataset_initial" ELSE "proposal_select",
     pending |-> "",
     data |-> c.data,
     calls |-> 0, start |-> 0, skips |-> 0,
     index |-> 0,
     count |-> Min({c.candidates, Max({demoSets, 1})}),
     rng |-> rng,
     evidence |-> <<>>, slots |-> <<>>, pool |-> 0]

Ask(p, effect) == [p EXCEPT !.pending = effect]

\* _select_proposal_configuration draws a tip, if tips are on, and a generation id.
Select(c, p) ==
    LET s == [p EXCEPT !.rng = @ + IF c.tip THEN 2 ELSE 1]
        effect == IF c.program THEN "program_description" ELSE "instruction_proposal" IN
    Ask([s EXCEPT !.stage = effect], effect)

\* _finalize_instruction_pools: the original instruction and the proposals that stand.
Finalize(p) ==
    [p EXCEPT !.stage = "complete", !.index = 0,
              !.pool = Len(SelectSeq(p.slots, LAMBDA s : s \in {"original", "proposed"}))]

\* plan_next_proposal_request: the state that carries the next request, if any.
PlanProposalRequest(c, p) ==
    IF p.pending # "" \/ p.stage = "complete" THEN p
    ELSE CASE p.stage = "dataset_initial" -> Ask(p, "dataset_initial")
           [] p.stage = "dataset_followup" ->
                 IF p.start >= c.train \/ p.calls >= MaxDescriptorCalls \/ p.skips >= MaxCompleteSkips
                 THEN Ask([p EXCEPT !.stage = "dataset_final"], "dataset_final")
                 ELSE Ask(p, "dataset_followup")
           [] p.stage = "dataset_final" -> Ask(p, "dataset_final")
           [] p.stage = "proposal_select" -> IF p.index >= p.count THEN Finalize(p) ELSE Select(c, p)

Answered(p, r) ==
    [p EXCEPT !.pending = "", !.evidence = Append(@, [effect |-> p.pending, response |-> r])]

FoldDatasetInitial(c, p, r) ==
    IF r = "failed"
    THEN [Answered(p, r) EXCEPT !.data = FALSE, !.stage = "proposal_select"]
    ELSE [Answered(p, r) EXCEPT !.calls = 1, !.start = c.view, !.stage = "dataset_followup"]

FoldDatasetFollowup(c, p, r) ==
    LET skips == p.skips + IF r = "complete" THEN 1 ELSE 0 IN
    [Answered(p, r) EXCEPT
        !.calls = @ + 1, !.start = @ + c.view, !.skips = skips,
        !.stage = IF r = "failed" \/ (r = "complete" /\ skips >= MaxCompleteSkips)
                  THEN "dataset_final" ELSE "dataset_followup"]

FoldDatasetFinal(p, r) ==
    [Answered(p, r) EXCEPT !.data = r # "failed", !.stage = "proposal_select"]

\* A failed program description skips the component description.
FoldProgramDescription(p, r) ==
    LET effect == IF r = "failed" THEN "instruction_proposal" ELSE "component_description" IN
    Ask([Answered(p, r) EXCEPT !.stage = effect], effect)

FoldComponentDescription(p, r) ==
    Ask([Answered(p, r) EXCEPT !.stage = "instruction_proposal"], "instruction_proposal")

\* The first proposal is displaced by the original; one that breaks the render
\* contract leaves its slot empty; a failed call ends the proposal.
FoldInstruction(p, r) ==
    IF r = "failed"
    THEN [Answered(p, r) EXCEPT !.stage = "failed", !.slots = Append(@, "failed")]
    ELSE [Answered(p, r) EXCEPT
            !.stage = "proposal_select", !.index = @ + 1,
            !.slots = Append(@, CASE p.index = 0 -> "original"
                                  [] p.index > 0 /\ r = "invalid" -> "invalid"
                                  [] OTHER -> "proposed")]

\* fold_proposal_response.
FoldResponse(c, p, r) ==
    CASE p.pending = "dataset_initial" -> FoldDatasetInitial(c, p, r)
      [] p.pending = "dataset_followup" -> FoldDatasetFollowup(c, p, r)
      [] p.pending = "dataset_final" -> FoldDatasetFinal(p, r)
      [] p.pending = "program_description" -> FoldProgramDescription(p, r)
      [] p.pending = "component_description" -> FoldComponentDescription(p, r)
      [] p.pending = "instruction_proposal" -> FoldInstruction(p, r)

\* The state the evidence rebuilds from the start of the stage.
ReplayProposal(c, demoSets, rng, evidence) ==
    FoldLeft(LAMBDA p, e : FoldResponse(c, PlanProposalRequest(c, p), e.response),
             StartProposal(c, demoSets, rng), evidence)

\* _require_canonical_proposal_state: the replay, or the replay with its next request.
CanonicalProposal(c, demoSets, rng, p) ==
    LET replay == ReplayProposal(c, demoSets, rng, p.evidence) IN
    \/ p = replay
    \/ replay.stage # "failed" /\ p = PlanProposalRequest(c, replay)

=============================================================================
