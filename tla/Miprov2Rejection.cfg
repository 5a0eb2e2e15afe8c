SPECIFICATION Spec
CONSTANTS
    None = None
    Controls <- MCControls
    Budgets <- MCBudgets
    Scores = {0, 1}
    Suggestions = {0, 1}
INVARIANT RejectionEndsRun
CHECK_DEADLOCK FALSE
