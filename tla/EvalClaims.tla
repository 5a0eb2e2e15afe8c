---------------------------- MODULE EvalClaims ----------------------------
(***************************************************************************)
(* Resolution of ONE Optim Eval Request (an "intent") by several           *)
(* EvalEngineService instances that share a durable object store:          *)
(* coordination/eval_claims.py and coordination/eval_service.py.           *)
(*                                                                         *)
(* The store offers content-addressed records and write-once bindings.     *)
(* Two bindings matter for an intent:                                      *)
(*   - the claim stream, one write-once slot per event ordinal, holding    *)
(*     the lease events (claim, renewal, takeover, terminal attestation);  *)
(*   - the resolution, bound once, that every caller must return.          *)
(* A third, evictable one is the marker of an intent that was deferred to  *)
(* platform row stages.                                                    *)
(*                                                                         *)
(* Every owner has a main thread (pc), serialised by _resolve_lock, and,   *)
(* while it evaluates, a heartbeat thread (hpc).  A step is one store      *)
(* access: a read of the stream and the later bind of the event computed   *)
(* from it are two steps, and everybody else may run in between.           *)
(*                                                                         *)
(* Wall-clock time is abstracted to `expired`, which says whether          *)
(* expires_at of the last event has passed: Expire may happen at any       *)
(* moment after an event is bound, so a heartbeat may be arbitrarily late. *)
(***************************************************************************)
EXTENDS Naturals, Sequences

CONSTANTS
    Owners,       \* owner_ids: one per EvalEngineService ever created
    Evidence,     \* contents of a result: evidence record or rejection detail
    RowTuples,    \* the row outcomes a fan-in may be given, in row order
    Modes,        \* entry points callers use: "inline", "platform", "fanin"
    MaxCalls,     \* bound: resolve calls per owner
    MaxRenewals,  \* bound: heartbeat renewals per generation
    None

Executed == [outcome : {"completed", "failed"}, evidence : Evidence]
Rejected == [outcome : {"rejected"}, evidence : Evidence]
Resolution == Executed \cup Rejected

\* A claim event; event_ordinal is its position in the stream, and att the
\* resolution named by result_attestation_ref.
Claim == [owner : Owners, gen : Nat, hb : Nat, att : Executed \cup {None}]

\* A claim event computed by _append_claim_event but not yet bound.
Draft == [at : Nat \ {0}, claim : Claim]

Row == [kind : {"ok", "failed", "rejected"}, evidence : Evidence]

ASSUME ConstantsAssumption ==
    /\ None \notin Resolution \cup Draft \cup Nat
    /\ RowTuples \subseteq Seq(Row)
    /\ Modes \subseteq {"inline", "platform", "fanin"}
    /\ MaxCalls \in Nat
    /\ MaxRenewals \in Nat

VARIABLES
    stream,      \* bound claim slots, in ordinal order
    expired,     \* expires_at <= clock for the last event
    resolution,  \* the intent's bound resolution, or None
    pending,     \* the platform intent key is bound
    rows,        \* the intent's durable row outcomes (fan-in only)
    pc, mode, calls,
    owned,       \* generation of the _OwnedClaim, or None
    draft,       \* the main thread's event on its way to the store
    res,         \* the resolution being published or bound
    fate, ret,   \* how the current or last call ends, and what it returns
    hpc, hdraft, \* the heartbeat thread
    hberr        \* heartbeat_errors is not empty

store == <<stream, expired, resolution, pending>>
main == <<rows, mode, calls, owned, draft, res, fate, ret>>
beat == <<hpc, hdraft, hberr>>
vars == <<store, pc, main, beat>>

PCs == {"idle", "existing", "attested", "claimkey", "claim", "claimbind",
        "reexisting", "reattested", "renew", "renewbind", "current",
        "evalkey", "defer", "currentrows", "rows", "currenteval", "evaluate",
        "publish", "publishbind", "currentrejected", "bind", "adopt", "clear",
        "leave", "done", "crashed"}

Fates == {"none", "returned", "deferred", "leaselost", "engineerror",
          "noresult", "unattested", "heartbeat"}

TypeOK ==
    /\ stream \in Seq(Claim)
    /\ expired \in BOOLEAN
    /\ resolution \in Resolution \cup {None}
    /\ pending \in BOOLEAN
    /\ rows \in RowTuples
    /\ pc \in [Owners -> PCs]
    /\ mode \in [Owners -> Modes \cup {None}]
    /\ calls \in [Owners -> Nat]
    /\ owned \in [Owners -> Nat \cup {None}]
    /\ draft \in [Owners -> Draft \cup {None}]
    /\ res \in [Owners -> Resolution \cup {None}]
    /\ fate \in [Owners -> Fates]
    /\ ret \in [Owners -> Resolution \cup {None}]
    /\ hpc \in [Owners -> {"off", "wait", "due", "bind"}]
    /\ hdraft \in [Owners -> Draft \cup {None}]
    /\ hberr \in [Owners -> BOOLEAN]

Init ==
    /\ stream = <<>>
    /\ expired = FALSE
    /\ resolution = None
    /\ pending = FALSE
    /\ rows \in RowTuples
    /\ pc = [o \in Owners |-> "idle"]
    /\ mode = [o \in Owners |-> None]
    /\ calls = [o \in Owners |-> 0]
    /\ owned = [o \in Owners |-> None]
    /\ draft = [o \in Owners |-> None]
    /\ res = [o \in Owners |-> None]
    /\ fate = [o \in Owners |-> "none"]
    /\ ret = [o \in Owners |-> None]
    /\ hpc = [o \in Owners |-> "off"]
    /\ hdraft = [o \in Owners |-> None]
    /\ hberr = [o \in Owners |-> FALSE]

---------------------------------------------------------------------------
(* The claim stream.                                                       *)

\* _latest_claim: the stream only grows, so the walk up to the first unbound
\* ordinal returns the event that is last at that final read.
Latest == stream[Len(stream)]

Terminal == stream # <<>> /\ Latest.att # None

\* Mutant: an attestation counts only while its lease is alive.
AttestedWhileLeased == IF Terminal /\ ~expired THEN Latest.att ELSE None

\* _attested_resolution
Attested == IF Terminal THEN Latest.att ELSE None

\* The ownership test of _renew_claim, _assert_generation_current and
\* _publish_result_attestation.
Current(o) ==
    /\ stream # <<>>
    /\ Latest.owner = o
    /\ Latest.gen = owned[o]

\* The three shapes of event _append_claim_event builds from the event read.
Origin(o) ==
    [at |-> 1, claim |-> [owner |-> o, gen |-> 0, hb |-> 0, att |-> None]]

Renewal(o, a) ==
    [at |-> Len(stream) + 1,
     claim |-> [owner |-> o, gen |-> Latest.gen, hb |-> Latest.hb + 1, att |-> a]]

Takeover(o) ==
    [at |-> Len(stream) + 1,
     claim |-> [owner |-> o, gen |-> Latest.gen + 1, hb |-> 0, att |-> None]]

\* Mutant: the event goes to the next free slot instead of the slot read.
BindClaimNextFree(d) ==
    stream' = Append(stream, d.claim) /\ expired' = FALSE

\* Binding draft d: only a free slot is taken; a conflict is swallowed.
BindClaim(d) ==
    IF d.at = Len(stream) + 1
    THEN stream' = Append(stream, d.claim) /\ expired' = FALSE
    ELSE UNCHANGED <<stream, expired>>

\* Mutant: the bind is assumed to have won.
WinnerAssumed(d) == d.claim

\* The event persisted in d's slot once BindClaim(d) has been performed.
Winner(d) == IF d.at = Len(stream) + 1 THEN d.claim ELSE stream[d.at]

\* Mutant: a rejection needs an attestation too.
ValidAttestedOnly(r) == Attested = r

\* _validate_result_graph: an executed resolution must equal the attestation.
Valid(r) == r \in Executed => Attested = r

---------------------------------------------------------------------------
(* Control of the main thread.                                             *)

Goto(o, l) == pc' = [pc EXCEPT ![o] = l]

\* The call returns or raises; `finally` still has to stop the heartbeat.
Leave(o, f, r) ==
    /\ Goto(o, "leave")
    /\ fate' = [fate EXCEPT ![o] = f]
    /\ ret' = [ret EXCEPT ![o] = r]

\* _load of the bound resolution.
Load(o) ==
    IF Valid(resolution) THEN Leave(o, "returned", resolution)
                         ELSE Leave(o, "unattested", None)

\* resolve_optim_eval_request / resolve_platform_intent_from_row_outcomes
Start(o, m) ==
    /\ pc[o] \in {"idle", "done"}
    /\ calls[o] < MaxCalls
    /\ Goto(o, "existing")
    /\ mode' = [mode EXCEPT ![o] = m]
    /\ calls' = [calls EXCEPT ![o] = @ + 1]
    /\ owned' = [owned EXCEPT ![o] = None]
    /\ res' = [res EXCEPT ![o] = None]
    /\ fate' = [fate EXCEPT ![o] = "none"]
    /\ ret' = [ret EXCEPT ![o] = None]
    /\ hberr' = [hberr EXCEPT ![o] = FALSE]
    /\ UNCHANGED <<store, rows, draft, hpc, hdraft>>

\* Look the resolution up at label `from`: load it, or go on to `next`.
ExistingOr(o, from, next) ==
    /\ pc[o] = from
    /\ \/ resolution # None /\ Load(o)
       \/ resolution = None /\ Goto(o, next) /\ UNCHANGED <<fate, ret>>
    /\ UNCHANGED <<store, rows, mode, calls, owned, draft, res, beat>>

CheckExisting(o) == ExistingOr(o, "existing", "attested")

CheckAttested(o) ==
    /\ pc[o] = "attested"
    /\ \/ /\ Attested # None
          /\ res' = [res EXCEPT ![o] = Attested]
          /\ Goto(o, "adopt")
       \/ /\ Attested = None
          /\ Goto(o, "claimkey")
          /\ UNCHANGED res
    /\ UNCHANGED <<store, rows, mode, calls, owned, draft, fate, ret, beat>>

\* One turn of the _claim loop: the resolution key first ...
ClaimCheckKey(o) ==
    /\ pc[o] = "claimkey"
    /\ Goto(o, IF resolution # None THEN "reexisting" ELSE "claim")
    /\ UNCHANGED <<store, main, beat>>

\* Mutant: the expiry is not looked at.
LeaseOverAlways == TRUE

\* remaining <= 0, for the last event.
LeaseOver == expired

\* ... then the latest claim: absent, terminal, ours, expired, or to wait for.
ClaimLatest(o) ==
    /\ pc[o] = "claim"
    /\ \/ /\ stream = <<>>
          /\ draft' = [draft EXCEPT ![o] = Origin(o)]
          /\ Goto(o, "claimbind")
          /\ UNCHANGED owned
       \/ /\ Terminal
          /\ Goto(o, "reexisting")
          /\ UNCHANGED <<owned, draft>>
       \/ /\ stream # <<>> /\ ~Terminal
          /\ Latest.owner = o
          /\ owned' = [owned EXCEPT ![o] = Latest.gen]
          /\ Goto(o, "reexisting")
          /\ UNCHANGED draft
       \/ /\ stream # <<>> /\ ~Terminal
          /\ Latest.owner # o
          /\ LeaseOver
          /\ draft' = [draft EXCEPT ![o] = Takeover(o)]
          /\ Goto(o, "claimbind")
          /\ UNCHANGED owned
       \/ /\ stream # <<>> /\ ~Terminal
          /\ Latest.owner # o
          /\ ~LeaseOver
          /\ Goto(o, "claimkey")
          /\ UNCHANGED <<owned, draft>>
    /\ UNCHANGED <<store, rows, mode, calls, res, fate, ret, beat>>

\* Bind the origin or the takeover.  A loser goes round the loop, but the loser
\* of the origin first looks at the winner's expiry without a new key check.
ClaimAppend(o) ==
    /\ pc[o] = "claimbind"
    /\ BindClaim(draft[o])
    /\ LET w == Winner(draft[o])
           origin == draft[o].at = 1
       IN  \/ /\ w.owner = o
              /\ owned' = [owned EXCEPT ![o] = w.gen]
              /\ draft' = [draft EXCEPT ![o] = None]
              /\ Goto(o, "reexisting")
           \/ /\ w.owner # o
              /\ origin /\ Len(stream) = 1 /\ LeaseOver
              /\ draft' = [draft EXCEPT ![o] = Takeover(o)]
              /\ UNCHANGED <<pc, owned>>
           \/ /\ w.owner # o
              /\ ~(origin /\ Len(stream) = 1 /\ LeaseOver)
              /\ draft' = [draft EXCEPT ![o] = None]
              /\ Goto(o, "claimkey")
              /\ UNCHANGED owned
    /\ UNCHANGED <<resolution, pending, rows, mode, calls, res, fate, ret, beat>>

CheckExistingAgain(o) == ExistingOr(o, "reexisting", "reattested")

CheckAttestedAgain(o) ==
    /\ pc[o] = "reattested"
    /\ \/ /\ Attested # None
          /\ res' = [res EXCEPT ![o] = Attested]
          /\ Goto(o, "adopt")
          /\ UNCHANGED <<fate, ret>>
       \/ /\ Attested = None /\ owned[o] = None
          /\ Leave(o, "noresult", None)
          /\ UNCHANGED res
       \/ /\ Attested = None /\ owned[o] # None
          /\ Goto(o, "renew")
          /\ UNCHANGED <<res, fate, ret>>
    /\ UNCHANGED <<store, rows, mode, calls, owned, draft, beat>>

---------------------------------------------------------------------------
(* _evaluate_with_heartbeat / _assemble_with_heartbeat_outcomes            *)

StartHeartbeat(o) == hpc' = [hpc EXCEPT ![o] = "wait"]

\* _renew_claim by the main thread, before the heartbeat thread starts.
RenewLatest(o) ==
    /\ pc[o] = "renew"
    /\ \/ /\ ~Current(o)
          /\ Leave(o, "leaselost", None)
          /\ UNCHANGED <<draft, hpc>>
       \/ /\ Current(o) /\ Terminal
          /\ Goto(o, "current")
          /\ StartHeartbeat(o)
          /\ UNCHANGED <<draft, fate, ret>>
       \/ /\ Current(o) /\ ~Terminal
          /\ draft' = [draft EXCEPT ![o] = Renewal(o, None)]
          /\ Goto(o, "renewbind")
          /\ UNCHANGED <<fate, ret, hpc>>
    /\ UNCHANGED <<store, rows, mode, calls, owned, res, hdraft, hberr>>

RenewAppend(o) ==
    /\ pc[o] = "renewbind"
    /\ BindClaim(draft[o])
    /\ LET w == Winner(draft[o])
       IN  \/ /\ w.owner = o /\ w.gen = owned[o]
              /\ StartHeartbeat(o)
              /\ Goto(o, "current")
              /\ UNCHANGED <<fate, ret>>
           \/ /\ ~(w.owner = o /\ w.gen = owned[o])
              /\ Leave(o, "leaselost", None)
              /\ UNCHANGED hpc
    /\ draft' = [draft EXCEPT ![o] = None]
    /\ UNCHANGED <<resolution, pending, rows, mode, calls, owned, res, hdraft, hberr>>

\* _assert_generation_current at label `from`.
AssertCurrent(o, from, next) ==
    /\ pc[o] = from
    /\ \/ Current(o) /\ Goto(o, next) /\ UNCHANGED <<fate, ret>>
       \/ ~Current(o) /\ Leave(o, "leaselost", None)
    /\ UNCHANGED <<store, rows, mode, calls, owned, draft, res, beat>>

AssertOnEntry(o) ==
    AssertCurrent(o, "current", IF mode[o] = "fanin" THEN "currentrows" ELSE "evalkey")

\* _evaluate_and_bind: persist the targets, then look for a resolution.
CheckExistingEval(o) ==
    ExistingOr(o, "evalkey", IF mode[o] = "platform" THEN "defer" ELSE "currenteval")

\* persist_platform_intent, then EvalPlatformDeferred.  The claim stays held.
Defer(o) ==
    /\ pc[o] = "defer"
    /\ pending' = TRUE
    /\ Leave(o, "deferred", None)
    /\ UNCHANGED <<stream, expired, resolution, rows, mode, calls, owned, draft, res, beat>>

\* Mutant: the pending marker is dropped before the rows are assembled.
AssertBeforeRowsClearing(o) ==
    /\ pc[o] = "currentrows"
    /\ Goto(o, "rows")
    /\ pending' = FALSE
    /\ UNCHANGED <<stream, expired, resolution, main, beat>>

AssertBeforeRows(o) == AssertCurrent(o, "currentrows", "rows")

\* Mutant: the first row is skipped.
RowsOfTail(k) == {i \in 2..Len(rows) : rows[i].kind = k}

RowsOf(k) == {i \in 1..Len(rows) : rows[i].kind = k}

\* The resolution of outcome k decided by its first row of that kind.
FirstRowDecides(o, k) ==
    \E i \in RowsOf(k) :
        /\ \A j \in RowsOf(k) : i <= j
        /\ res' = [res EXCEPT ![o] = [outcome |-> k, evidence |-> rows[i].evidence]]

\* _assemble_and_bind_outcomes: the first rejected row decides, else the first
\* failed one, else the engine assembles the successful slices, if any.
AssembleRows(o) ==
    /\ pc[o] = "rows"
    /\ \/ /\ FirstRowDecides(o, "rejected")
          /\ Goto(o, "currentrejected")
          /\ UNCHANGED <<fate, ret>>
       \/ /\ RowsOf("rejected") = {}
          /\ FirstRowDecides(o, "failed")
          /\ Goto(o, "publish")
          /\ UNCHANGED <<fate, ret>>
       \/ /\ RowsOf("rejected") = {} /\ RowsOf("failed") = {} /\ RowsOf("ok") # {}
          /\ Goto(o, "currenteval")
          /\ UNCHANGED <<res, fate, ret>>
       \/ /\ rows = <<>>
          /\ Leave(o, "engineerror", None)
          /\ UNCHANGED res
    /\ UNCHANGED <<store, rows, mode, calls, owned, draft, beat>>

\* Mutant: the lease is not checked again before paying for an evaluation.
AssertBeforeEvaluateSkipped(o) ==
    /\ pc[o] = "currenteval"
    /\ Goto(o, "evaluate")
    /\ UNCHANGED <<store, main, beat>>

AssertBeforeEvaluate(o) == AssertCurrent(o, "currenteval", "evaluate")

\* Mutant: rejections are attested like executed results.
AfterResultAlwaysPublish(r) == "publish"

\* _bind_if_owned: executed results are attested first.
AfterResult(r) == IF r \in Executed THEN "publish" ELSE "currentrejected"

\* engine.evaluate / engine.assemble_from_row_slices: any outcome, or raises.
Evaluate(o) ==
    /\ pc[o] = "evaluate"
    /\ \/ \E r \in Resolution :
            /\ res' = [res EXCEPT ![o] = r]
            /\ Goto(o, AfterResult(r))
            /\ UNCHANGED <<fate, ret>>
       \/ Leave(o, "engineerror", None) /\ UNCHANGED res
    /\ UNCHANGED <<store, rows, mode, calls, owned, draft, beat>>

---------------------------------------------------------------------------
(* _bind_if_owned                                                          *)

\* One turn of the _publish_result_attestation loop, up to the bind.
PublishLatest(o) ==
    /\ pc[o] = "publish"
    /\ \/ /\ Current(o) /\ ~Terminal
          /\ draft' = [draft EXCEPT ![o] = Renewal(o, res[o])]
          /\ Goto(o, "publishbind")
          /\ UNCHANGED <<fate, ret>>
       \/ /\ Current(o) /\ Terminal /\ Attested = res[o]
          /\ Goto(o, "bind")
          /\ UNCHANGED <<draft, fate, ret>>
       \/ /\ ~Current(o) \/ (Terminal /\ Attested # res[o])
          /\ Leave(o, "leaselost", None)
          /\ UNCHANGED draft
    /\ UNCHANGED <<store, rows, mode, calls, owned, res, beat>>

\* The bind: won, lost to another owner or result, or lost to our heartbeat.
PublishAppend(o) ==
    /\ pc[o] = "publishbind"
    /\ BindClaim(draft[o])
    /\ LET w == Winner(draft[o])
           ours == w.owner = o /\ w.gen = owned[o]
       IN  \/ /\ ours /\ w.att = res[o]
              /\ Goto(o, "bind")
              /\ UNCHANGED <<fate, ret>>
           \/ /\ ours /\ w.att = None
              /\ Goto(o, "publish")
              /\ UNCHANGED <<fate, ret>>
           \/ /\ ~ours \/ w.att \notin {None, res[o]}
              /\ Leave(o, "leaselost", None)
    /\ draft' = [draft EXCEPT ![o] = None]
    /\ UNCHANGED <<resolution, pending, rows, mode, calls, owned, res, beat>>

\* A rejection carries no attestation: it is only checked, then bound.
AssertBeforeRejected(o) == AssertCurrent(o, "currentrejected", "bind")

\* Mutant: the last bind wins.
BindWinnerLast(o) == res[o]

BindWinner(o) == IF resolution = None THEN res[o] ELSE resolution

\* _bind: validate, bind once; on a conflict load and return the winner.  The
\* callers: a result of our own ("bind"), or one attested earlier ("adopt").
Bind(o) ==
    /\ pc[o] \in {"bind", "adopt"}
    /\ LET winner == BindWinner(o)
       IN  \/ /\ Valid(res[o]) /\ Valid(winner)
              /\ resolution' = winner
              /\ fate' = [fate EXCEPT ![o] = "returned"]
              /\ ret' = [ret EXCEPT ![o] = winner]
              /\ Goto(o, IF pc[o] = "bind" /\ mode[o] = "fanin"
                         THEN "clear" ELSE "leave")
           \/ /\ ~(Valid(res[o]) /\ Valid(winner))
              /\ Leave(o, "unattested", None)
              /\ UNCHANGED resolution
    /\ UNCHANGED <<stream, expired, pending, rows, mode, calls, owned, draft, res, beat>>

\* _clear_platform_intent, once the fan-in's _bind_if_owned has returned.
ClearPlatformIntent(o) ==
    /\ pc[o] = "clear"
    /\ pending' = FALSE
    /\ Goto(o, "leave")
    /\ UNCHANGED <<stream, expired, resolution, main, beat>>

\* `finally`: stop.set(), join the heartbeat, then report its failure if the
\* call was about to return although nothing is bound.
Join(o) ==
    /\ pc[o] = "leave"
    /\ hpc[o] = "off"
    /\ \/ /\ fate[o] = "returned" /\ hberr[o] /\ resolution = None
          /\ fate' = [fate EXCEPT ![o] = "heartbeat"]
          /\ ret' = [ret EXCEPT ![o] = None]
       \/ /\ ~(fate[o] = "returned" /\ hberr[o] /\ resolution = None)
          /\ UNCHANGED <<fate, ret>>
    /\ Goto(o, "done")
    /\ UNCHANGED <<store, rows, mode, calls, owned, draft, res, beat>>

---------------------------------------------------------------------------
(* The heartbeat thread: _renew_claim every third of the lease.            *)

\* Mutant: stop is set on the normal return only, not in `finally`.
HeartbeatStopOnReturn(o) ==
    /\ hpc[o] = "wait"
    /\ pc[o] = "leave" /\ fate[o] = "returned"
    /\ hpc' = [hpc EXCEPT ![o] = "off"]
    /\ UNCHANGED <<store, pc, main, hdraft, hberr>>

HeartbeatStop(o) ==
    /\ hpc[o] = "wait"
    /\ pc[o] = "leave"
    /\ hpc' = [hpc EXCEPT ![o] = "off"]
    /\ UNCHANGED <<store, pc, main, hdraft, hberr>>

\* The interval elapsed before stop was set.
HeartbeatDue(o) ==
    /\ hpc[o] = "wait"
    /\ pc[o] # "leave"
    /\ Current(o) => ~Terminal /\ Latest.hb < MaxRenewals
    /\ hpc' = [hpc EXCEPT ![o] = "due"]
    /\ UNCHANGED <<store, pc, main, hdraft, hberr>>

HeartbeatLatest(o) ==
    /\ hpc[o] = "due"
    /\ \/ /\ ~Current(o)
          /\ hpc' = [hpc EXCEPT ![o] = "off"]
          /\ hberr' = [hberr EXCEPT ![o] = TRUE]
          /\ UNCHANGED hdraft
       \/ /\ Current(o) /\ Terminal
          /\ hpc' = [hpc EXCEPT ![o] = "wait"]
          /\ UNCHANGED <<hdraft, hberr>>
       \/ /\ Current(o) /\ ~Terminal
          /\ hdraft' = [hdraft EXCEPT ![o] = Renewal(o, None)]
          /\ hpc' = [hpc EXCEPT ![o] = "bind"]
          /\ UNCHANGED hberr
    /\ UNCHANGED <<store, pc, main>>

HeartbeatAppend(o) ==
    /\ hpc[o] = "bind"
    /\ BindClaim(hdraft[o])
    /\ LET w == Winner(hdraft[o])
       IN  \/ /\ w.owner = o /\ w.gen = owned[o]
              /\ hpc' = [hpc EXCEPT ![o] = "wait"]
              /\ UNCHANGED hberr
           \/ /\ ~(w.owner = o /\ w.gen = owned[o])
              /\ hpc' = [hpc EXCEPT ![o] = "off"]
              /\ hberr' = [hberr EXCEPT ![o] = TRUE]
    /\ hdraft' = [hdraft EXCEPT ![o] = None]
    /\ UNCHANGED <<resolution, pending, pc, main>>

---------------------------------------------------------------------------
(* The environment.                                                        *)

\* The process dies: both threads stop where they are.  A restarted process
\* has a fresh owner_id, so it is another member of Owners.
Crash(o) ==
    /\ pc[o] \notin {"idle", "done", "crashed"}
    /\ Goto(o, "crashed")
    /\ hpc' = [hpc EXCEPT ![o] = "off"]
    /\ UNCHANGED <<store, main, hdraft, hberr>>

\* expires_at of the last event passes.
Expire ==
    /\ stream # <<>>
    /\ ~expired
    /\ expired' = TRUE
    /\ UNCHANGED <<stream, resolution, pending, pc, main, beat>>

Resolve(o) ==
    \/ CheckExisting(o) \/ CheckAttested(o)
    \/ ClaimCheckKey(o) \/ ClaimLatest(o) \/ ClaimAppend(o)
    \/ CheckExistingAgain(o) \/ CheckAttestedAgain(o)
    \/ RenewLatest(o) \/ RenewAppend(o)
    \/ AssertOnEntry(o) \/ CheckExistingEval(o) \/ Defer(o)
    \/ AssertBeforeRows(o) \/ AssembleRows(o)
    \/ AssertBeforeEvaluate(o) \/ Evaluate(o)
    \/ PublishLatest(o) \/ PublishAppend(o) \/ AssertBeforeRejected(o)
    \/ Bind(o) \/ ClearPlatformIntent(o) \/ Join(o)

Heartbeat(o) ==
    HeartbeatStop(o) \/ HeartbeatDue(o) \/ HeartbeatLatest(o) \/ HeartbeatAppend(o)

\* All calls have been made and have ended.
Quiescent ==
    /\ \A o \in Owners : pc[o] = "crashed" \/ (pc[o] = "done" /\ calls[o] = MaxCalls)
    /\ UNCHANGED vars

Next ==
    \/ \E o \in Owners :
        \/ \E m \in Modes : Start(o, m)
        \/ Resolve(o)
        \/ Heartbeat(o)
        \/ Crash(o)
    \/ Expire
    \/ Quiescent

Spec == Init /\ [][Next]_vars

\* Both threads of a live process keep being scheduled, evaluations end, and
\* a lease nobody renews expires.  Nobody is obliged to call, or to crash.
FairSpec ==
    /\ Spec
    /\ \A o \in Owners : WF_vars(Resolve(o)) /\ WF_vars(Heartbeat(o))
    /\ WF_vars(Expire)

---------------------------------------------------------------------------
(* Properties                                                              *)

\* What _latest_claim checks of every stream it walks, and raises ValueError
\* about otherwise: generation 0 first, a renewal keeps owner and generation
\* and counts its heartbeat, a takeover opens the next generation, and nothing
\* follows a terminal attestation.
StreamWellFormed ==
    \A i \in 1..Len(stream) :
        IF i = 1
        THEN stream[i].gen = 0 /\ stream[i].hb = 0
        ELSE /\ stream[i-1].att = None
             /\ IF stream[i].owner = stream[i-1].owner
                THEN stream[i].gen = stream[i-1].gen /\ stream[i].hb = stream[i-1].hb + 1
                ELSE stream[i].gen = stream[i-1].gen + 1 /\ stream[i].hb = 0

\* A generation is a fencing token: no two services ever hold the same one,
\* whatever stale reads and lost races their _claim loops went through.
GenerationHasOneOwner ==
    \A o, p \in Owners : o # p /\ owned[o] # None => owned[o] # owned[p]

\* The bound resolution of an executed evaluation is the one result the claim
\* stream attests: a service whose lease was taken over never gets its own
\* result bound (_publish_result_attestation before _bind).
ResolvedIsAttested == resolution \in Executed => Attested = resolution

\* Every call that returned, on whatever path (loaded, adopted, own result, or
\* lost the bind), returned the one durable resolution.
CallersAgree ==
    \A o \in Owners : ret[o] # None => fate[o] = "returned" /\ ret[o] = resolution

\* The defensive errors never fire: "claim resolved without a result", an
\* unattested executed resolution, and a heartbeat failure reported by a call
\* that was about to return.
NoInternalError ==
    \A o \in Owners : fate[o] \notin {"noresult", "unattested", "heartbeat"}

\* A lease changes hands only when its last event, renewals included, has
\* expired: a takeover decided on a stale read never beats a renewal.
TakeoverOnlyAfterExpiry ==
    [][stream # <<>> /\ stream' # stream
         /\ stream'[Len(stream')].owner # Latest.owner => expired]_vars

\* No evaluation is paid for once a result is attested: a caller that finds
\* the attestation of a crashed owner adopts it.
NoEvaluationAfterAttestation ==
    [][\A o \in Owners : pc[o] = "currenteval" /\ pc'[o] = "evaluate" => ~Terminal]_vars

\* The marker of a deferred intent is removed only after a resolution is bound,
\* so a crash inside the fan-in never loses a deferred intent.
DeferredIntentSurvives == [][pending /\ ~pending' => resolution # None]_vars

\* No service was called inline last.
NeverInline == \A o \in Owners : mode[o] # "inline"

\* The bound resolution is no success, or every row succeeded.
SuccessIsOfAllRows ==
    resolution # None /\ resolution.outcome = "completed" =>
        \A i \in 1..Len(rows) : rows[i].kind = "ok"

\* A fan-in never reports success, assembled or adopted, over a row that failed
\* or was rejected; a caller that evaluates inline does not look at the rows.
RowFailureNotMasked == []NeverInline => []SuccessIsOfAllRows

\* The protocol implements its promise: one attestation, one resolution, and
\* only the bound resolution as an answer.
Promise == INSTANCE EvalResolution WITH attestation <- Attested
ImplementsEvalResolution == Promise!Spec

\* Every call ends: it returns, raises, or its process dies.
EveryCallEnds ==
    \A o \in Owners :
        pc[o] \notin {"idle", "done", "crashed"} ~> pc[o] \in {"done", "crashed"}

\* A result attested by an owner that died before binding it is bound by the
\* next call that is not itself cut short.
AttestedGetsBound ==
    \A o \in Owners :
        (Terminal /\ pc[o] = "existing") ~> (resolution # None \/ pc[o] = "crashed")

=============================================================================
