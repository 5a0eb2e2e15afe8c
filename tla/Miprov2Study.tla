---------------------------- MODULE Miprov2Study ----------------------------
(***************************************************************************)
(* The study of optim/miprov2/study.py: sampled trials over instruction    *)
(* and demo choices, scored on minibatches, and at a fixed cadence a       *)
(* promotion, a full evaluation of the best candidate so far.  A           *)
(* combination of choices is a natural number, Base the seed candidate.    *)
(* The transcript is the study's only state; Optuna is rebuilt from it.    *)
(***************************************************************************)
EXTENDS Miprov2Stages

Base == -1

\* Miprov2StudySchedule.adjusted_num_trials: the trials with baseline and promotions.
AdjustedNumTrials(c) ==
    IF ~ c.minibatch THEN c.trials
    ELSE c.trials + c.trials \div c.steps + 1 + IF c.trials % c.steps # 0 THEN 1 ELSE 0

\* Mutant: the cadence counts from zero.
PromotionDueLate(c, trial) ==
    c.minibatch /\ (trial % (c.steps + 1) = 0 \/ trial = AdjustedNumTrials(c) - 1)
PromotionDue(c, trial) ==
    /\ c.minibatch
    /\ \/ (trial + 1) % (c.steps + 1) = 0
       \/ trial + 1 = AdjustedNumTrials(c) - 1

\* Optuna numbers the baseline 0 and every trial and promotion after it.
NextTrial(samples) ==
    1 + Len(samples) + Cardinality({i \in DOMAIN samples : samples[i].promotion # None})

\* The minibatch mean of a combination, as a fraction.
Scored(samples, k) == {i \in DOMAIN samples : samples[i].combo = k}
Total(samples, k) == MapThenSumSet(LAMBDA i : samples[i].score, Scored(samples, k))

\* sorted(..., reverse=True) is stable: equal means keep the order of observation.
Outranks(samples, a, b) ==
    LET left == Total(samples, a) * Cardinality(Scored(samples, b))
        right == Total(samples, b) * Cardinality(Scored(samples, a)) IN
    left > right \/ (left = right /\ Min(Scored(samples, a)) < Min(Scored(samples, b)))

\* select_promotion: the best combination not promoted yet; when every one has
\* been, the loop runs out at the worst.
SelectPromotion(samples) ==
    LET observed == {samples[i].combo : i \in DOMAIN samples}
        promoted == {samples[i].promotion.combo :
                        i \in {j \in DOMAIN samples : samples[j].promotion # None}}
        fresh == observed \ promoted IN
    IF fresh # {}
    THEN CHOOSE a \in fresh : \A b \in fresh \ {a} : Outranks(samples, a, b)
    ELSE CHOOSE a \in observed : \A b \in observed \ {a} : Outranks(samples, b, a)

\* _provisional_sample, and record_sample with the promotion that was due.
Provisional(trial, combo, score, effect) ==
    [trial |-> trial, combo |-> combo, score |-> score, effect |-> effect, promotion |-> None]

Promoted(samples, provisional, score, effect) ==
    [trial |-> provisional.trial + 1,
     combo |-> SelectPromotion(Append(samples, provisional)),
     score |-> score, effect |-> effect]

\* StudyTranscript._validate_contract: no more samples than trials, and a promotion
\* exactly where the cadence has one.
OnSchedule(c, samples) ==
    /\ Len(samples) <= c.trials
    /\ \A i \in DOMAIN samples : PromotionDue(c, samples[i].trial) <=> samples[i].promotion # None

\* _require_bound_transcript: trial numbers and rankings are those of a replay.
BoundTranscript(c, samples) ==
    /\ OnSchedule(c, samples)
    /\ \A i \in DOMAIN samples :
        LET before == SubSeq(samples, 1, i - 1)
            s == samples[i] IN
        /\ s.trial = NextTrial(before)
        /\ s.promotion # None =>
            /\ s.promotion.trial = s.trial + 1
            /\ s.promotion.combo = SelectPromotion(Append(before, [s EXCEPT !.promotion = None]))

\* The full evaluations in order: baseline, whole-set samples, promotions.
FullEvaluations(c, baseline, samples) ==
    FoldLeft(LAMBDA acc, s :
                acc \o (IF c.minibatch THEN <<>> ELSE <<[combo |-> s.combo, score |-> s.score]>>)
                    \o (IF s.promotion = None THEN <<>>
                        ELSE <<[combo |-> s.promotion.combo, score |-> s.promotion.score]>>),
             <<[combo |-> Base, score |-> baseline]>>, samples)

\* Mutant: the comparison is inverted.
WorstFullEvaluation(c, baseline, samples) ==
    FoldLeft(LAMBDA best, e : IF e.score < best.score THEN e ELSE best,
             [combo |-> Base, score |-> baseline],
             Tail(FullEvaluations(c, baseline, samples)))
\* best_full_evaluation: the first of the best.
BestFullEvaluation(c, baseline, samples) ==
    FoldLeft(LAMBDA best, e : IF e.score > best.score THEN e ELSE best,
             [combo |-> Base, score |-> baseline],
             Tail(FullEvaluations(c, baseline, samples)))

\* The scores _terminal_statistics ranks as candidate_programs: there a
\* minibatch as large as the validation set counts as a full evaluation.
RankedScores(c, baseline, samples) ==
    {baseline}
    \cup {samples[i].score : i \in {j \in DOMAIN samples : ~ c.minibatch \/ c.size >= c.valset}}
    \cup {samples[i].promotion.score :
            i \in {j \in DOMAIN samples : samples[j].promotion # None}}

=============================================================================
