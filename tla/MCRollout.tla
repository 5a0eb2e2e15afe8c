------------------------------ MODULE MCRollout ------------------------------
EXTENDS Rollout

\* Completeness and reward policies that behave differently.
MCPlans ==
    {[rowPolicy |-> "propagate", maxSkip |-> 0, missing |-> "fail", internal |-> TRUE],
     [rowPolicy |-> "skip", maxSkip |-> 50, missing |-> "worst", internal |-> TRUE],
     [rowPolicy |-> "skip", maxSkip |-> 100, missing |-> "fail", internal |-> FALSE]}
=============================================================================
