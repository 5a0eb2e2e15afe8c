-------------------------------- MODULE Copro --------------------------------
(***************************************************************************)
(* The COPRO optimizer: optim/copro/adapter.py, step_contract.py and       *)
(* control.py, with the drafts of optim/proposal.  A run of Depth rounds   *)
(* asks its proposer for Breadth templates a round (one less in round 0,   *)
(* which measures the seed too), has the harness evaluate what can be used *)
(* of them, and finalizes on the best measured template.                   *)
(*                                                                         *)
(* An attempt is one measured occurrence: its ordinal in the run, its      *)
(* round, its candidate and its reward.  A draft is a template, None when  *)
(* the call failed, and whether the call was billed.                       *)
(***************************************************************************)
EXTENDS StepContracts, Ordering, SequencesExt

CONSTANTS Breadth, Depth

\* CoproControl._validate
CoproControl == Breadth \in Nat /\ Breadth > 1 /\ Depth \in Nat /\ Depth >= 1

ASSUME CoproAssumption == CoproControl

-----------------------------------------------------------------------------
(* The measured history.                                                   *)

SameText(history, i) == {j \in DOMAIN history : history[j].cand.text = history[i].cand.text}

\* Mutant: a later measurement replaces an earlier one.
UniqueMeasuredLatest(history) == {k \in DOMAIN history : \A j \in SameText(history, k) : j <= k}

\* _unique_measured_attempts: of the attempts of an instruction the best counts, the
\* earlier of two equals.
UniqueMeasured(history) ==
    {k \in DOMAIN history : \A j \in SameText(history, k) :
        \/ history[k].reward > history[j].reward
        \/ history[k].reward = history[j].reward /\ k <= j}

\* An instruction keeps the place of its first measurement.
MeasuredBefore(history, i, k) == \E j \in SameText(history, i) : \A l \in SameText(history, k) : j < l

\* rank_attempt_history: a stable sort on descending reward
RankAttemptHistory(history) ==
    LET unique == UniqueMeasured(history)
        Above(i, k) == \/ history[i].reward > history[k].reward
                       \/ history[i].reward = history[k].reward /\ MeasuredBefore(history, i, k)
        order == InOrder(unique, [k \in unique |-> {i \in unique : Above(i, k)}])
    IN  [n \in DOMAIN order |-> history[order[n]]]

Rounds(history) == {history[i].round : i \in DOMAIN history}
InRound(history, r) == {i \in DOMAIN history : history[i].round = r}

\* _rounds_by_index raises unless rounds are runs of ascending index.
RoundsAscend(history) == \A i, j \in DOMAIN history : i < j => history[i].round <= history[j].round

\* fold_round, for every round of the history
RoundFolds(history, r) ==
    /\ Cardinality(InRound(history, r)) \in 1 .. Breadth
    /\ \A i \in InRound(history, r) : history[i].ordinal = i - 1

\* restore_state, without its raise
RestoresState(history) ==
    /\ RoundsAscend(history)
    /\ Rounds(history) = 0 .. Cardinality(Rounds(history)) - 1
    /\ Cardinality(Rounds(history)) <= Depth
    /\ \A r \in Rounds(history) : RoundFolds(history, r)

\* statistics, without its raises
StatisticsDefined(history) ==
    /\ Cardinality(Rounds(history)) = Depth
    /\ \A r \in Rounds(history) : Cardinality(InRound(history, r)) \in 1 .. Breadth

\* plan_round and advance; [count |-> 0] where they raise.  Only an empty history ranks
\* nothing.
PlanRound(iteration, history) ==
    CASE iteration = 0 /\ history = <<>> -> [count |-> Breadth - 1, seed |-> TRUE]
      [] iteration \in 1 .. Depth - 1 /\ history # <<>> -> [count |-> Breadth, seed |-> FALSE]
      [] OTHER -> [count |-> 0, seed |-> FALSE]

-----------------------------------------------------------------------------
(* The Step Request: CoproStepContractProvider.                            *)

\* copro_total_proposal_calls
TotalProposalCalls == Breadth - 1 + Breadth * (Depth - 1)

\* CoproAttempt.from_resolution raises on what was not measured.
Foldable(results) ==
    \A i \in DOMAIN results : \A k \in DOMAIN results[i].resolutions :
        results[i].resolutions[k].failure = None

\* copro_attempt_history: ordinals count realized occurrences.
AttemptHistory(results) ==
    LET Attempts(i) ==
            LET start == FoldLeft(LAMBDA n, r : n + Len(r.resolutions), 0, SubSeq(results, 1, i - 1))
            IN  [k \in DOMAIN results[i].resolutions |->
                    [ordinal |-> start + k - 1, round |-> results[i].req.index,
                     cand |-> results[i].resolutions[k].cand,
                     reward |-> results[i].resolutions[k].reward]]
    IN  FlattenSeq([i \in DOMAIN results |-> Attempts(i)])

\* copro_completed_rounds
CompletedRounds(history) == Cardinality(Rounds(history))

\* _continuing_contract
ContinuingContract(terminal, count) ==
    [returned |-> count, terminal |-> AcceptedCountFor(terminal, "complete"), floor |-> 1,
     distinct |-> terminal.distinct]

\* _finalizing_contract
FinalizingContract(terminal) ==
    [returned |-> terminal.returned, terminal |-> AcceptedCountFor(terminal, "complete"),
     floor |-> None, distinct |-> terminal.distinct]

\* build_first
CoproFirst(terminal) ==
    [index |-> 0, stage |-> 0, round |-> 0, history |-> <<>>, checkpoint |-> None, skipped |-> {},
     budget |-> TotalProposalCalls, contract |-> ContinuingContract(terminal, Breadth - 1)]

\* build_next
CoproNext(results, history, terminal) ==
    LET index == Len(results)
        finalizing == CompletedRounds(history) >= Depth
    IN  [index |-> index, stage |-> 0,
         round |-> IF finalizing /\ index > Depth - 1 THEN Depth - 1 ELSE index,
         history |-> history, checkpoint |-> None, skipped |-> {},
         budget |-> results[Len(results)].budget,
         contract |-> IF finalizing THEN FinalizingContract(terminal)
                      ELSE ContinuingContract(terminal, Breadth)]

-----------------------------------------------------------------------------
(* One invocation: CoproAdapter.invoke.                                    *)

\* ProposalDraft.call_usage: the calls of a batch that were billed
CallUsage(req, drafts) == {<<req.index, i>> : i \in {k \in DOMAIN drafts : drafts[k].billed}}

\* validate_instruction and candidate_from_draft, without their raise
Usable(draft) ==
    /\ draft.text # None
    /\ TemplateValid(draft.text)
    /\ draft.text # Seed

\* Drafts that become candidates, numbered on from the measured history.
Proposed(req, drafts) ==
    LET kept == Picked(drafts, {i \in DOMAIN drafts : Usable(drafts[i])})
    IN  [i \in DOMAIN kept |->
            [id |-> <<"copro", Len(req.history) + i - 1>>, base |-> SeedCandidate.id, text |-> kept[i].text]]

\* Round 0 measures the seed as its last occurrence.
Occurrences(req, plan, drafts) ==
    Proposed(req, drafts) \o (IF plan.seed THEN <<SeedCandidate>> ELSE <<>>)

\* _seed_won
SeedWon(ranked) == ranked # <<>> /\ ranked[1].cand = SeedCandidate

\* _accepted_without_seed: None when too few of the ranked are proposals
AcceptedWithoutSeed(ranked, required) ==
    LET proposals == Picked(ranked, {i \in DOMAIN ranked : ranked[i].cand # SeedCandidate})
    IN  IF Len(proposals) < required THEN None
        ELSE [i \in 1 .. required |-> proposals[i].cand]

\* Finalization and _terminalize_without_proposals choose alike.
Terminalize(ranked, required, short) ==
    IF Len(ranked) < required THEN Failed(short)
    ELSE IF SeedWon(ranked)
    THEN [Output("complete") EXCEPT !.seedRetained = TRUE, !.retained = SeedCandidate]
    ELSE LET accepted == AcceptedWithoutSeed(ranked, required)
         IN  IF accepted = None THEN Failed(short)
             ELSE [Output("complete") EXCEPT !.proposed = accepted, !.accepted = accepted]

\* invoke of a finalizing step
Finalize(ranked, required) ==
    IF ranked = <<>> THEN Failed("copro_no_measured_history")
    ELSE Terminalize(ranked, required, "copro_insufficient_ranked_candidates")

\* A round without a usable draft ends the run on what it has measured.
TerminalizeWithoutProposals(req, plan, ranked, drafts, required) ==
    [Terminalize(ranked, required, "copro_proposal_round_empty")
        EXCEPT !.usage = CallUsage(req, drafts), !.delta = plan.count]

\* A round that drew usable drafts asks for their evaluation.
Continue(req, plan, drafts) ==
    LET occ == Occurrences(req, plan, drafts)
    IN  [Output("continue") EXCEPT
            !.proposed = Proposed(req, drafts), !.accepted = Proposed(req, drafts),
            !.intents = [i \in DOMAIN occ |->
                            [id |-> <<req.index, Len(req.history) + i - 1>>, step |-> req.index, cand |-> occ[i]]],
            !.usage = CallUsage(req, drafts), !.delta = plan.count]

\* A proposer that returns more drafts than were paid for is malformed.
Overfilled(req, plan, drafts) ==
    Len(drafts) > plan.count \/ Len(Occurrences(req, plan, drafts)) > Breadth

IsFinalizing(req) == Cardinality(Rounds(req.history)) >= Depth

\* The checks of invoke on its request that raise
RequestRefused(req) ==
    \/ ~RestoresState(req.history)
    \/ IsFinalizing(req) /\ ~StatisticsDefined(req.history)
    \/ /\ ~IsFinalizing(req)
       /\ \/ req.round # req.index
          \/ req.round # Cardinality(Rounds(req.history))
          \/ PlanRound(req.round, req.history).count = 0

\* The output of a proposal round for what its proposer drafted
Draw(req, plan, ranked, required, drafts) ==
    LET proposed == Proposed(req, drafts)
    IN  IF req.budget < plan.count THEN Failed("copro_proposal_budget_exhausted")
        ELSE IF Overfilled(req, plan, drafts)
        THEN [Failed("copro_proposal_cardinality") EXCEPT
                 !.proposed = proposed, !.usage = CallUsage(req, drafts), !.delta = plan.count]
        ELSE IF proposed = <<>> THEN TerminalizeWithoutProposals(req, plan, ranked, drafts, required)
        ELSE Continue(req, plan, drafts)
=============================================================================
