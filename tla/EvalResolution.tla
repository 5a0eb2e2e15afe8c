--------------------------- MODULE EvalResolution ---------------------------
(***************************************************************************)
(* What the evaluation service promises about one intent, however many     *)
(* services work on it: at most one executed result is ever attested; at   *)
(* most one resolution is ever bound, and an executed one only if it is    *)
(* the attested result; and every answer is the bound resolution.          *)
(* A rejection needs no attestation.  (coordination/eval_claims.py)        *)
(***************************************************************************)
CONSTANTS Owners, Executed, Rejected, None

VARIABLES
    attestation,  \* the terminal attestation, or None
    resolution,   \* the bound resolution, or None
    ret           \* the answer each caller holds, or None

vars == <<attestation, resolution, ret>>

Init ==
    /\ attestation = None
    /\ resolution = None
    /\ ret = [o \in Owners |-> None]

Attest ==
    /\ attestation = None
    /\ attestation' \in Executed
    /\ UNCHANGED <<resolution, ret>>

\* What a caller may bind, and so be answered with.
Bindable ==
    IF resolution # None THEN {resolution}
                         ELSE Rejected \cup ({attestation} \ {None})

Answer(o) ==
    /\ resolution' \in Bindable
    /\ ret' = [ret EXCEPT ![o] = resolution']
    /\ UNCHANGED attestation

Ask(o) ==
    /\ ret' = [ret EXCEPT ![o] = None]
    /\ UNCHANGED <<attestation, resolution>>

Next == Attest \/ \E o \in Owners : Answer(o) \/ Ask(o)

Spec == Init /\ [][Next]_vars
=============================================================================
