------------------------------ MODULE MCOptimRun ------------------------------
(* A COPRO run of three rounds of two, inline and on the platform, and a GEPA run whose *)
(* minibatch repeats the one instance it has, with a budget of six calls and of none.   *)
EXTENDS OptimRun

CONSTANTS a, b

Run(key, platform, topK, calls) == [key |-> key, platform |-> platform, topK |-> topK, calls |-> calls]

MCRuns == {Run("copro", FALSE, 1, 0), Run("copro", TRUE, 2, 0)}
          \cup {Run("gepa", platform, 1, calls) : platform \in BOOLEAN, calls \in {0, 6}}
MCPlatformGepa == {Run("gepa", TRUE, 1, 6)}

MCDrafts == {[text |-> a, billed |-> TRUE], [text |-> b, billed |-> TRUE], [text |-> Invalid, billed |-> TRUE],
             [text |-> None, billed |-> TRUE]}

Reflection(text, rejected, failed, billed) ==
    [kind |-> "propose", text |-> text, rejected |-> rejected, failed |-> failed, billed |-> billed]

MCReflections == {Reflection(a, FALSE, FALSE, TRUE), Reflection(None, TRUE, FALSE, TRUE), Reflection(None, FALSE, TRUE, FALSE)}

MCRepeats == {<<None, 0>>, <<None, 2>>}
MCValset == <<1>>
MCMinibatch == <<1, 1>>
=============================================================================
