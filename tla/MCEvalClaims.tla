--------------------------- MODULE MCEvalClaims ---------------------------
(* Model-checking instances of EvalClaims.                                 *)
EXTENDS EvalClaims, TLC

CONSTANTS o1, o2, e1, e2

\* Services and evidence are interchangeable in the safety runs.
Symmetry == Permutations(Owners) \cup Permutations(Evidence)

NoRows == {<<>>}

RowOf(kind) == [kind |-> kind, evidence |-> e1]
MixedRows ==
    {<<>>, <<RowOf("failed"), RowOf("ok")>>, <<RowOf("ok"), RowOf("rejected")>>,
     <<RowOf("ok"), RowOf("ok")>>}
=============================================================================
