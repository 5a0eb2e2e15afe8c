----------------------------- MODULE MCMiprov2 -----------------------------
EXTENDS Miprov2

\* Few-shot with labels and two bootstrap plans, its dataset described first;
\* grounded only, its program described first; zero-shot, where trials, cadence
\* and batch size vary.
MCControl(mode, sets, trials, minibatch, size, steps) ==
    [mode |-> mode, sets |-> sets,
     boot |-> IF mode = "zeroshot" THEN 0 ELSE 1, labels |-> IF mode = "zeroshot" THEN 0 ELSE 1,
     cap |-> 1, maxErrors |-> 2, train |-> 2, candidates |-> 2, view |-> 1,
     data |-> mode = "fewshot", program |-> mode = "ground_only", tip |-> mode = "fewshot",
     trials |-> trials, minibatch |-> minibatch, size |-> size, valset |-> 2, steps |-> steps,
     seeds |-> 2]

MCControls ==
    {MCControl("fewshot", 4, 1, TRUE, 1, 1), MCControl("ground_only", 3, 1, FALSE, 1, 2)}
    \cup {MCControl("zeroshot", 1, 3, m, 1, 2) : m \in BOOLEAN}
    \cup {MCControl("zeroshot", 1, 3, TRUE, 2, 2), MCControl("zeroshot", 1, 2, TRUE, 1, 1)}

MCBudgets ==
    {[kind \in Kinds |-> IF kind = "task_rows" THEN 60 ELSE 20],
     [bootstrap_generations |-> 2, proposal_calls |-> 4, evaluations |-> 3, task_rows |-> 20]}
=============================================================================
