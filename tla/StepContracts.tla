---------------------------- MODULE StepContracts ----------------------------
(***************************************************************************)
(* What the harness demands of an optimizer's output before it is          *)
(* persisted: optim/contracts.py, optim/adapters.py and the validations of *)
(* optim/harness.py.  A candidate is its id, the id of its base and the    *)
(* text of its mutated field; an intent asks for the evaluation of one     *)
(* candidate; evidence names an evaluation that the optimizer drove itself.*)
(***************************************************************************)
EXTENDS Integers, Sequences, FiniteSets

CONSTANTS
    Seed,      \* text of the run's initial candidate
    Invalid,   \* a text that breaks the template render contract
    None

SeedCandidate == [id |-> <<"seed", 0>>, base |-> <<"root", 0>>, text |-> Seed]

\* The run's terminal_output_contract.
TerminalContract(topK, distinct) == [returned |-> topK, terminal |-> None, floor |-> None, distinct |-> distinct]

Failed(code) ==
    [status |-> "failed", failure |-> code, proposed |-> <<>>, accepted |-> <<>>, intents |-> <<>>,
     evidence |-> {}, usage |-> {}, delta |-> 0, seedRetained |-> FALSE, retained |-> None, state |-> None]

\* AdapterOutput's defaults
Output(status) == [Failed(None) EXCEPT !.status = status]

-----------------------------------------------------------------------------
\* OutputContract.accepted_count_for
AcceptedCountFor(c, status) ==
    CASE status = "failed" -> 0
      [] status = "complete" /\ c.terminal # None -> c.terminal
      [] OTHER -> c.returned

\* OutputContract.admits_accepted_count
AdmitsAcceptedCount(c, status, count) ==
    IF status = "continue" /\ c.floor # None
    THEN count \in c.floor .. AcceptedCountFor(c, status)
    ELSE count = AcceptedCountFor(c, status)

\* OutputContract.honors_terminal
HonorsTerminal(c, terminal) ==
    /\ AcceptedCountFor(c, "complete") = AcceptedCountFor(terminal, "complete")
    /\ c.distinct = terminal.distinct

\* OutputContract._validate_shortfall_floor
ContractValid(c) == c.floor = None \/ c.floor \in 1 .. c.returned

\* BudgetState.debit, for the one budget an optimizer declares
CanDebit(remaining, amount) == amount <= remaining

\* validate_candidate_template
TemplateValid(text) == text # Invalid

\* diff_check
DiffCheck(base, c) == c.base = base.id /\ c.text # base.text

CountIn(s, c) == Cardinality({i \in DOMAIN s : s[i] = c})

DistinctBases(candidates) ==
    \A i, j \in DOMAIN candidates : candidates[i].base = candidates[j].base => i = j

\* AdapterOutput._validate
WellFormed(out) ==
    /\ (out.status = "failed") <=> (out.failure # None)
    /\ out.status = "failed" => out.accepted = <<>> /\ out.intents = <<>>
    /\ out.seedRetained => out.status = "complete" /\ out.accepted = <<>>
    /\ out.seedRetained <=> (out.retained # None)

-----------------------------------------------------------------------------
\* OptimHarness._validate_output
ValidateOutput(req, terminal, out) ==
    /\ \A i, j \in DOMAIN out.intents : out.intents[i].id = out.intents[j].id => i = j
    /\ out.seedRetained => req.contract.terminal # None /\ out.retained = SeedCandidate
    /\ IF out.seedRetained
       THEN out.accepted = <<>>
       ELSE AdmitsAcceptedCount(req.contract, out.status, Len(out.accepted))
    /\ req.contract.distinct => DistinctBases(out.proposed)
    /\ \A i \in DOMAIN out.accepted :
           CountIn(out.accepted, out.accepted[i]) <= CountIn(out.proposed, out.accepted[i])
    /\ out.status = "complete" => HonorsTerminal(req.contract, terminal)

\* OptimHarness._validate_output_candidates
ValidateOutputCandidates(out) ==
    \A s \in {out.proposed, out.accepted} : \A i \in DOMAIN s :
        /\ TemplateValid(s[i].text)
        /\ DiffCheck(SeedCandidate, s[i])

\* CanonicalGepaCandidateAssembler.assemble: every text, the seed's too, becomes a
\* candidate of its own beside the run's initial one.
Assembled(text) == [id |-> <<"gepa", text>>, base |-> SeedCandidate.base, text |-> text]

\* OptimHarness._require_eval_request_on_step and, for GEPA,
\* _require_gepa_assembled_eval_candidate
EvalRequestOnStep(key, req, out, intent) ==
    /\ intent.step = req.index
    /\ IF key = "gepa"
       THEN intent.cand = Assembled(intent.cand.text)
       ELSE \/ intent.cand = SeedCandidate
            \/ CountIn(out.proposed \o out.accepted, intent.cand) > 0

\* OptimHarness._validate_output_intents
ValidateOutputIntents(key, req, out) ==
    /\ \A e \in out.evidence : e.step = req.index
    /\ \A i \in DOMAIN out.intents : EvalRequestOnStep(key, req, out, out.intents[i])

\* _invoke_and_persist_adapter and _validate_checkpoint
OutputAccepted(key, req, terminal, out) ==
    /\ WellFormed(out)
    /\ ValidateOutput(req, terminal, out)
    /\ ValidateOutputCandidates(out)
    /\ ValidateOutputIntents(key, req, out)

\* _validate_shared_terminal_failure: without tool evidence the failure is adopted.
SharesFailure(failure, resolutions) ==
    failure # None =>
        \A i \in DOMAIN resolutions : resolutions[i].failure \in {None, failure}

\* What OptimStepResult._validate demands of the candidates and the evidence ...
ResultCandidatesValid(out) ==
    /\ \A i \in DOMAIN out.proposed : TemplateValid(out.proposed[i].text) /\ DiffCheck(SeedCandidate, out.proposed[i])
    /\ \A i \in DOMAIN out.accepted : TemplateValid(out.accepted[i].text)
    /\ \A e, f \in out.evidence : e.id = f.id => e = f

\* ... of the resolutions ...
ResultResolutionsValid(req, out, resolutions) ==
    /\ \A i, j \in DOMAIN resolutions : resolutions[i].id = resolutions[j].id => i = j
    /\ \A i \in DOMAIN resolutions :
           /\ resolutions[i].step = req.index
           /\ resolutions[i].cand = SeedCandidate \/ CountIn(out.proposed, resolutions[i].cand) > 0

\* ... and of the outcome, the contracts and the budget
ResultOutcomeValid(req, terminal, out, resolutions) ==
    /\ WellFormed(out)
    /\ out.status = "failed" => SharesFailure(out.failure, resolutions)
    /\ ContractValid(req.contract)
    /\ ValidateOutput(req, terminal, out)
    /\ CanDebit(req.budget, out.delta)

\* OptimStepResult._validate, for what run_step assembles
StepResultValid(req, terminal, out, resolutions) ==
    /\ ResultCandidatesValid(out)
    /\ ResultResolutionsValid(req, out, resolutions)
    /\ ResultOutcomeValid(req, terminal, out, resolutions)

\* OptimResult._validate and _assemble_terminal, for a chain of Step Results
OptimResultValid(results, terminal, proposals) ==
    /\ results # <<>>
    /\ \A i \in DOMAIN results :
           /\ results[i].req.index = i - 1
           /\ (results[i].status = "continue") <=> (i < Len(results))
           /\ i > 1 => results[i].req.budget = results[i - 1].budget
    /\ LET last == results[Len(results)]
       IN  last.status = "complete" =>
             /\ proposals = last.accepted
             /\ Len(proposals) = IF last.seedRetained THEN 0 ELSE AcceptedCountFor(terminal, "complete")
=============================================================================
