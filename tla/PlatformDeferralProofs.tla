----------------------- MODULE PlatformDeferralProofs -----------------------
(***************************************************************************)
(* Parking and finality of a member's steps, for every number of rows,     *)
(* steps and episodes, whatever crashes and however often fan-ins are      *)
(* delivered again.                                                        *)
(***************************************************************************)
EXTENDS PlatformDeferral, SequenceTheorems, TLAPS

-----------------------------------------------------------------------------
(* The inductive invariant: the store.                                     *)

\* A result of step k.  A step that continues is not the last one.
ResultAt(res, k) ==
    res \in Result /\ res.req.step = k /\ (res.out # "stop" => k + 1 < MaxSteps)

\* A member that is parked waits for the intents of its own pending placeholder.
StateInv(s) ==
    /\ s \in WorkState
    /\ ~s.terminal => s.step < MaxSteps
    /\ s.pend # None =>
        /\ ~s.terminal
        /\ ResultAt(s.pend, s.step) /\ Placeholder(s.pend)
        /\ s.intents = s.pend.req

HeadInv == (head # None => StateInv(head)) /\ \A s \in heads : StateInv(s)

\* The result that is bound where intents are deferred is their placeholder.
BoundInv ==
    \A k \in Steps : bound[k] # None =>
        /\ ResultAt(bound[k], k)
        /\ deferred[k] # None => Placeholder(bound[k]) /\ deferred[k] = bound[k].req

CheckpointInv ==
    \A r \in DOMAIN checkpoint : checkpoint[r] # "stop" => r.step + 1 < MaxSteps

-----------------------------------------------------------------------------
(* The inductive invariant: the ledger.                                    *)

\* An optim_step but the opening one starts from a settled state, a fan-in from a
\* parked one.
StageInv(i, x) ==
    /\ x \in Stage
    /\ x.kind = "optim_step" /\ i # 0 => x.input # None /\ StateInv(x.input) /\ x.input.pend = None
    /\ x.kind = "eval_fanin" => x.input # None /\ StateInv(x.input) /\ x.input.pend # None

\* Of the stages that are not done at most one is not a row.
Sole(stages) ==
    \A i, j \in DOMAIN stages :
        /\ ~stages[i].done /\ stages[i].kind # "eval_row"
        /\ ~stages[j].done /\ stages[j].kind # "eval_row"
        => i = j

LedgerInv ==
    /\ 0 \in DOMAIN ledger
    /\ ledger[0].kind = "optim_step" /\ ledger[0].input = None
    /\ \A i \in DOMAIN ledger : StageInv(i, ledger[i])
    /\ Sole(ledger)
    /\ ~ledger[0].done => DOMAIN ledger = {0}

-----------------------------------------------------------------------------
(* The inductive invariant: deferrals and the opening stage.               *)

\* The results that are bound while the opening stage is at step k.
BoundUpTo(k) ==
    \A j \in Steps : /\ j < k => bound[j] # None /\ bound[j].out # "stop"
                     /\ j > k => bound[j] = None

\* The opening stage is deferring at step k.
OpeningAt(k) ==
    /\ BoundUpTo(k)
    /\ head # None /\ head.pend # None => head.step = k
    /\ head # None /\ head.pend = None => head.stage # 0

\* Stage i, which is not done, is deferring at step k.
DeferringAt(i, k) ==
    /\ i \in DOMAIN ledger
    /\ ledger[i].kind = "optim_step" /\ ~ledger[i].done
    /\ i = 0 => OpeningAt(k)
    /\ i # 0 => ledger[i].input.step = k /\ ~ledger[i].input.terminal

\* The request of stage i at step k, as RequestOf makes it.
RequestAt(i, k) == [step |-> k, salt |-> IF SameStepResume THEN i ELSE 0]

\* Deferred intents are those of the stage that is not done, which answers "defer" again.
DeferredInv ==
    /\ \A k \in Steps : deferred[k] # None =>
        /\ deferred[k] \in DOMAIN checkpoint /\ checkpoint[deferred[k]] = "defer"
        /\ \E i \in DOMAIN ledger : DeferringAt(i, k) /\ deferred[k] = RequestAt(i, k)
    /\ \A h, k \in Steps : deferred[h] # None /\ deferred[k] # None => h = k

NothingDeferred == \A k \in Steps : deferred[k] = None

\* Until the opening stage is done the bindings are a prefix, of which at most the last
\* stops, and a head that is not parked and was bound by its redrive ends the run.
OpeningInv ==
    ~ledger[0].done =>
        /\ \E c \in Steps : \A j \in Steps :
            /\ bound[j] # None <=> j < c
            /\ j + 1 < c => bound[j].out # "stop"
        /\ head # None /\ head.pend = None /\ head.stage = 0 => head.terminal /\ NothingDeferred

-----------------------------------------------------------------------------
(* The inductive invariant: the writes of an attempt.                      *)

HeadOps(s) == {[op |-> "evictHead"], [op |-> "bindHead", to |-> s]}

\* The state an attempt leaves, if it is not a parked one.
SettledInv(s) == StateInv(s) /\ s.pend = None /\ (s.stage = 0 => s.terminal)

\* The attempt only repeats the end of the run.
EndOps(s) == HeadOps(s) \cup {[op |-> "bindMember", to |-> s]}

Ending(todo) ==
    /\ NothingDeferred
    /\ \E s \in WorkState : SettledInv(s) /\ todo \in Seq(EndOps(s))

\* The attempt binds a result that is not deferred and advances.
AdvanceOps(k, res, s) ==
    EndOps(s) \cup {[op |-> "checkpoint", req |-> res.req, to |-> res.out],
                    [op |-> "bindResult", step |-> k, to |-> res]}

Advancing(i, todo) ==
    /\ NothingDeferred
    /\ \E k \in Steps, res \in Result, s \in WorkState :
        /\ SettledInv(s) /\ s.stage # 0
        /\ ResultAt(res, k)
        /\ i = 0 => k < MaxSteps /\ BoundUpTo(k)
        /\ todo \in Seq(AdvanceOps(k, res, s))

\* The last write of an attempt that parks removes the intents.
EndsWithEviction(todo, k) ==
    /\ todo = << >> => deferred[k] = None
    /\ todo # << >> => todo[Len(todo)] = [op |-> "evictIntents", step |-> k]

OthersNotDeferred(k) == \A h \in Steps : h # k => deferred[h] = None

\* The attempt parks the member on the intents of res.
ParkOps(k, res, p) ==
    HeadOps(p) \cup {[op |-> "checkpoint", req |-> res.req, to |-> "defer"],
                     [op |-> "bindIntents", step |-> k, to |-> res.req],
                     [op |-> "bindResult", step |-> k, to |-> res],
                     [op |-> "evictResult", step |-> k],
                     [op |-> "evictIntents", step |-> k]}

ParkInv(i, todo, k, res, p) ==
    /\ DeferringAt(i, k) /\ k < MaxSteps
    /\ ResultAt(res, k) /\ Placeholder(res) /\ res.req = RequestAt(i, k)
    /\ StateInv(p) /\ p.pend # None /\ p.step = k
    /\ todo \in Seq(ParkOps(k, res, p))
    /\ \A n \in 2 .. Len(todo) : todo[n].op # "checkpoint"
    /\ \/ todo # << >> /\ todo[1].op = "checkpoint"
       \/ res.req \in DOMAIN checkpoint /\ checkpoint[res.req] = "defer"
    /\ EndsWithEviction(todo, k)
    /\ deferred[k] \in {None, res.req} /\ OthersNotDeferred(k)
    /\ bound[k] \in {None, res}

Parking(i, todo) ==
    \E k \in Steps, res \in Result, p \in WorkState : ParkInv(i, todo, k, res, p)

\* The opening stage is redriven from its parked head.
Resuming(i, todo) ==
    \E p \in WorkState :
        /\ i = 0
        /\ StateInv(p) /\ p.pend # None
        /\ todo \in Seq(HeadOps(p) \cup {[op |-> "evictIntents", step |-> p.step]})
        /\ EndsWithEviction(todo, p.step)
        /\ OthersNotDeferred(p.step)

\* A fan-in removes the intents before it binds the merged result.
Merged(ws) == [ws.pend EXCEPT !.resolved = TRUE]

FaninOps(ws, s) ==
    HeadOps(s) \cup {[op |-> "resolve", req |-> ws.intents],
                     [op |-> "evictIntents", step |-> ws.step],
                     [op |-> "bindResult", step |-> ws.step, to |-> Merged(ws)]}

FanningIn(ws, todo) ==
    /\ \E s \in WorkState : SettledInv(s) /\ s.stage # 0 /\ todo \in Seq(FaninOps(ws, s))
    /\ deferred[ws.step] # None =>
        \A n \in 1 .. Len(todo) : todo[n].op = "bindResult" =>
            \E m \in 1 .. n - 1 : todo[m] = [op |-> "evictIntents", step |-> ws.step]

SuccessorsInv(successors) ==
    /\ DOMAIN successors \subseteq Nat \ {0}
    /\ \A i \in DOMAIN successors : StageInv(i, successors[i])
    /\ Sole(successors)

TodoInv(i, todo) ==
    \/ ledger[i].kind = "eval_fanin" /\ FanningIn(ledger[i].input, todo)
    \/ /\ ledger[i].kind = "optim_step" /\ ~ledger[i].done
       /\ Ending(todo) \/ Advancing(i, todo) \/ Parking(i, todo) \/ Resuming(i, todo)

JobInv ==
    job # None =>
        /\ job.idx \in DOMAIN ledger
        /\ job = [idx |-> job.idx, todo |-> job.todo, successors |-> job.successors]
        /\ SuccessorsInv(job.successors)
        /\ TodoInv(job.idx, job.todo)

StoreInv ==
    /\ TypeOK
    /\ HeadInv
    /\ BoundInv
    /\ CheckpointInv
    /\ LedgerInv
    /\ DeferredInv
    /\ OpeningInv

IInv == StoreInv /\ JobInv

-----------------------------------------------------------------------------
(* The writes, and what each needs to keep the store's invariant.          *)

\* What a write leaves alone, whether it succeeds or raises.
Aside ==
    /\ UNCHANGED <<adapter, ledger, completed, environment>>
    /\ raised' \subseteq DOMAIN ledger
    /\ job' # None => job'.idx \in DOMAIN ledger

\* None is not a step.
LEMMA StepsFacts ==
    /\ MaxSteps \in Nat /\ 0 \in Steps /\ Steps \subseteq Nat
    /\ \A k \in Nat : k < MaxSteps => k \in Steps /\ k + 1 \in Steps
    /\ \A k \in Steps : k \in Nat /\ k <= MaxSteps
  BY ConstantsAssumption DEF Steps

\* The head moves to a state that agrees with what is deferred.
LEMMA HeadStep ==
    ASSUME StoreInv, Aside, NEW s \in WorkState, StateInv(s),
           head' \in {None, s}, heads' \in {heads, heads \cup {s}},
           UNCHANGED <<bound, deferred, checkpoint, resolved, member>>,
           \A k \in Steps : deferred[k] # None =>
               (s.pend # None /\ s.step = k) \/ (s.pend = None /\ s.stage # 0),
           s.pend = None /\ s.stage = 0 => s.terminal /\ NothingDeferred
    PROVE  StoreInv'
  <1>1. TypeOK'
    BY DEF StoreInv, TypeOK, Aside, environment
  <1>2. HeadInv'
    BY DEF StoreInv, HeadInv, StateInv, ResultAt, Placeholder
  <1>3. BoundInv' /\ CheckpointInv' /\ LedgerInv'
    BY DEF StoreInv, BoundInv, CheckpointInv, LedgerInv, Aside, StageInv, Sole, StateInv, ResultAt, Placeholder
  <1>4. DeferredInv'
    <2>1. ASSUME NEW i, NEW k \in Steps, DeferringAt(i, k), deferred[k] # None PROVE DeferringAt(i, k)'
      BY <2>1 DEF DeferringAt, OpeningAt, BoundUpTo, Aside
    <2>2. ledger' = ledger /\ adapter' = adapter
      BY DEF Aside
    <2>3. \A i, k : RequestAt(i, k)' = RequestAt(i, k)
      BY <2>2 DEF RequestAt, SameStepResume
    <2> QED
      BY <2>1, <2>2, <2>3 DEF StoreInv, DeferredInv
  <1>5. OpeningInv'
    BY DEF StoreInv, OpeningInv, NothingDeferred, Aside
  <1> QED
    BY <1>1, <1>2, <1>3, <1>4, <1>5 DEF StoreInv

\* Intents are removed.
LEMMA EvictIntentsStep ==
    ASSUME StoreInv, Aside, NEW k \in Steps, deferred' = [deferred EXCEPT ![k] = None],
           UNCHANGED <<head, heads, bound, checkpoint, resolved, member>>
    PROVE  StoreInv'
  <1>1. TypeOK' /\ \A j \in Steps : deferred'[j] = IF j = k THEN None ELSE deferred[j]
    BY DEF StoreInv, TypeOK, Aside, environment
  <1>2. HeadInv' /\ CheckpointInv' /\ LedgerInv'
    BY DEF StoreInv, HeadInv, CheckpointInv, LedgerInv, Aside, StageInv, Sole, StateInv, ResultAt, Placeholder
  <1>3. BoundInv'
    BY <1>1 DEF StoreInv, BoundInv, ResultAt, Placeholder
  <1>4. DeferredInv'
    <2>1. ASSUME NEW i, NEW j, DeferringAt(i, j) PROVE DeferringAt(i, j)'
      BY <2>1 DEF DeferringAt, OpeningAt, BoundUpTo, Aside
    <2>2. ledger' = ledger /\ adapter' = adapter
      BY DEF Aside
    <2>3. \A i, j : RequestAt(i, j)' = RequestAt(i, j)
      BY <2>2 DEF RequestAt, SameStepResume
    <2> QED
      BY <1>1, <2>1, <2>2, <2>3 DEF StoreInv, DeferredInv
  <1>5. OpeningInv'
    BY <1>1 DEF StoreInv, OpeningInv, NothingDeferred, Aside
  <1> QED
    BY <1>1, <1>2, <1>3, <1>4, <1>5 DEF StoreInv

\* Intents are deferred, by the stage that answered so.
LEMMA BindIntentsStep ==
    ASSUME StoreInv, Aside, NEW i, NEW k \in Steps, NEW r \in Request,
           deferred' = [deferred EXCEPT ![k] = r],
           UNCHANGED <<head, heads, bound, checkpoint, resolved, member>>,
           DeferringAt(i, k), r = RequestAt(i, k),
           r \in DOMAIN checkpoint /\ checkpoint[r] = "defer",
           OthersNotDeferred(k),
           bound[k] # None => Placeholder(bound[k]) /\ bound[k].req = r
    PROVE  StoreInv'
  <1>1. TypeOK' /\ \A j \in Steps : deferred'[j] = IF j = k THEN r ELSE deferred[j]
    BY DEF StoreInv, TypeOK, Aside, environment
  <1>2. HeadInv' /\ CheckpointInv' /\ LedgerInv'
    BY DEF StoreInv, HeadInv, CheckpointInv, LedgerInv, Aside, StageInv, Sole, StateInv, ResultAt, Placeholder
  <1>3. BoundInv'
    BY <1>1 DEF StoreInv, BoundInv, ResultAt, Placeholder
  <1>4. DeferredInv'
    <2>1. DeferringAt(i, k)'
      BY DEF DeferringAt, OpeningAt, BoundUpTo, Aside
    <2>2. ledger' = ledger /\ adapter' = adapter
      BY DEF Aside
    <2>3. RequestAt(i, k)' = RequestAt(i, k)
      BY <2>2 DEF RequestAt, SameStepResume
    <2>4. i \in DOMAIN ledger
      BY DEF DeferringAt
    <2> QED
      BY <1>1, <2>1, <2>2, <2>3, <2>4 DEF StoreInv, DeferredInv, OthersNotDeferred
  <1>5. OpeningInv'
    <2>1. ~ledger[0].done => i = 0 /\ OpeningAt(k)
      BY DEF DeferringAt, StoreInv, LedgerInv
    <2> QED
      BY <2>1 DEF StoreInv, OpeningInv, OpeningAt, Aside
  <1> QED
    BY <1>1, <1>2, <1>3, <1>4, <1>5 DEF StoreInv

\* The result of a step is bound or removed.
LEMMA ResultStep ==
    ASSUME StoreInv, Aside, NEW k \in Steps, NEW new \in Result \cup {None},
           bound' = [bound EXCEPT ![k] = new],
           UNCHANGED <<head, heads, deferred, checkpoint, resolved, member>>,
           new # None => ResultAt(new, k),
           new # None /\ deferred[k] # None => Placeholder(new) /\ deferred[k] = new.req,
           ~ledger[0].done => k < MaxSteps /\ BoundUpTo(k) /\ OthersNotDeferred(k)
    PROVE  StoreInv'
  <1>1. TypeOK' /\ \A j \in Steps : bound'[j] = IF j = k THEN new ELSE bound[j]
    BY DEF StoreInv, TypeOK, Aside, environment
  <1>2. HeadInv' /\ CheckpointInv' /\ LedgerInv'
    BY DEF StoreInv, HeadInv, CheckpointInv, LedgerInv, Aside, StageInv, Sole, StateInv, ResultAt, Placeholder
  <1>3. BoundInv'
    BY <1>1 DEF StoreInv, BoundInv, ResultAt, Placeholder
  <1>4. DeferredInv'
    <2>1. ASSUME NEW i, NEW j \in Steps, DeferringAt(i, j), deferred[j] # None PROVE DeferringAt(i, j)'
      <3>1. i = 0 => BoundUpTo(k) /\ j = k
        BY <2>1 DEF DeferringAt, OthersNotDeferred
      <3>2. i = 0 => BoundUpTo(j)'
        BY <1>1, <3>1, StepsFacts DEF BoundUpTo
      <3> QED
        BY <2>1, <3>2 DEF DeferringAt, OpeningAt, Aside
    <2>2. ledger' = ledger /\ adapter' = adapter
      BY DEF Aside
    <2>3. \A i, j : RequestAt(i, j)' = RequestAt(i, j)
      BY <2>2 DEF RequestAt, SameStepResume
    <2> QED
      BY <2>1, <2>2, <2>3 DEF StoreInv, DeferredInv
  <1>5. OpeningInv'
    <2> SUFFICES ASSUME ~ledger[0].done
                 PROVE  /\ \E c \in Steps : \A j \in Steps :
                            /\ bound'[j] # None <=> j < c
                            /\ j + 1 < c => bound'[j].out # "stop"
                        /\ head # None /\ head.pend = None /\ head.stage = 0 => head.terminal /\ NothingDeferred
      BY DEF OpeningInv, NothingDeferred, Aside
    <2>1. k < MaxSteps /\ BoundUpTo(k)
      OBVIOUS
    <2>2. PICK c \in {k, k + 1} : c \in Steps /\ (new # None <=> c = k + 1)
      BY <2>1, StepsFacts
    <2>3. \A j \in Steps : (bound'[j] # None <=> j < c) /\ (j + 1 < c => bound'[j].out # "stop")
      BY <1>1, <2>1, <2>2, StepsFacts DEF BoundUpTo
    <2> QED
      BY <2>2, <2>3 DEF StoreInv, OpeningInv
  <1> QED
    BY <1>1, <1>2, <1>3, <1>4, <1>5 DEF StoreInv

\* The adapter's answer is checkpointed.
LEMMA CheckpointStep ==
    ASSUME StoreInv, Aside, NEW r \in Request, NEW out \in Output,
           checkpoint' = [q \in DOMAIN checkpoint \cup {r} |-> IF q = r THEN out ELSE checkpoint[q]],
           UNCHANGED <<head, heads, bound, deferred, resolved, member>>,
           out # "stop" => r.step + 1 < MaxSteps,
           NothingDeferred \/ out = "defer"
    PROVE  StoreInv'
  <1>1. DOMAIN checkpoint' = DOMAIN checkpoint \cup {r}
        /\ \A q \in DOMAIN checkpoint' : checkpoint'[q] = IF q = r THEN out ELSE checkpoint[q]
    OBVIOUS
  <1>2. TypeOK'
    BY <1>1 DEF StoreInv, TypeOK, Aside, environment
  <1>3. HeadInv' /\ BoundInv' /\ LedgerInv'
    BY DEF StoreInv, HeadInv, BoundInv, LedgerInv, Aside, StageInv, Sole, StateInv, ResultAt, Placeholder
  <1>4. CheckpointInv'
    BY <1>1 DEF StoreInv, CheckpointInv
  <1>5. DeferredInv'
    <2>1. ASSUME NEW i, NEW j, DeferringAt(i, j) PROVE DeferringAt(i, j)'
      BY <2>1 DEF DeferringAt, OpeningAt, BoundUpTo, Aside
    <2>2. ledger' = ledger /\ adapter' = adapter
      BY DEF Aside
    <2>3. \A i, j : RequestAt(i, j)' = RequestAt(i, j)
      BY <2>2 DEF RequestAt, SameStepResume
    <2> QED
      BY <1>1, <2>1, <2>2, <2>3 DEF StoreInv, DeferredInv, NothingDeferred
  <1>6. OpeningInv'
    BY DEF StoreInv, OpeningInv, NothingDeferred, Aside
  <1> QED
    BY <1>2, <1>3, <1>4, <1>5, <1>6 DEF StoreInv

\* Resolutions and the run member's terminal state concern nothing else.
LEMMA OtherStep ==
    ASSUME StoreInv, Aside, resolved' \subseteq Request, member' \in WorkState \cup {None},
           UNCHANGED <<head, heads, bound, deferred, checkpoint>>
    PROVE  StoreInv'
  <1>1. TypeOK'
    BY DEF StoreInv, TypeOK, Aside, environment
  <1>2. HeadInv' /\ BoundInv' /\ CheckpointInv' /\ LedgerInv'
    BY DEF StoreInv, HeadInv, BoundInv, CheckpointInv, LedgerInv, Aside, StageInv, Sole, StateInv,
           ResultAt, Placeholder
  <1>3. DeferredInv'
    <2>1. ASSUME NEW i, NEW j, DeferringAt(i, j) PROVE DeferringAt(i, j)'
      BY <2>1 DEF DeferringAt, OpeningAt, BoundUpTo, Aside
    <2>2. ledger' = ledger /\ adapter' = adapter
      BY DEF Aside
    <2>3. \A i, j : RequestAt(i, j)' = RequestAt(i, j)
      BY <2>2 DEF RequestAt, SameStepResume
    <2> QED
      BY <2>1, <2>2, <2>3 DEF StoreInv, DeferredInv
  <1>4. OpeningInv'
    BY DEF StoreInv, OpeningInv, NothingDeferred, Aside
  <1> QED
    BY <1>1, <1>2, <1>3, <1>4 DEF StoreInv

-----------------------------------------------------------------------------
(* An attempt performs its writes.                                         *)

\* The write w succeeds.
Performs(w) ==
    \/ WriteHead(w) \/ WriteResult(w) \/ WriteIntents(w)
    \/ WriteCheckpoint(w) \/ WriteResolution(w) \/ WriteMember(w)

\* The write at the head of a sequence of writes, and the rest.
LEMMA HeadAndTail ==
    ASSUME NEW S, NEW todo \in Seq(S), todo # << >>
    PROVE  /\ Head(todo) \in S /\ Head(todo) = todo[1]
           /\ Tail(todo) \in Seq(S) /\ Len(Tail(todo)) \in Nat /\ Len(Tail(todo)) = Len(todo) - 1
           /\ \A n \in 1 .. Len(Tail(todo)) : Tail(todo)[n] = todo[n + 1]
           /\ Tail(todo) = << >> <=> Len(todo) = 1
  <1>1. /\ Head(todo) \in S /\ Tail(todo) \in Seq(S) /\ Len(Tail(todo)) = Len(todo) - 1
        /\ \A n \in 1 .. Len(Tail(todo)) : Tail(todo)[n] = todo[n + 1]
    BY HeadTailProperties
  <1>2. Head(todo) = todo[1] /\ Len(Tail(todo)) \in Nat
    BY <1>1
  <1>3. Tail(todo) = << >> <=> Len(todo) = 1
    BY <1>1
  <1> QED
    BY <1>1, <1>2, <1>3

\* A write of an attempt that only ends the run again.
LEMMA EndingWrite ==
    ASSUME StoreInv, Aside, NEW todo, todo # << >>, Ending(todo), Performs(Head(todo))
    PROVE  StoreInv' /\ Ending(Tail(todo))'
  <1>1. PICK s \in WorkState : SettledInv(s) /\ todo \in Seq(EndOps(s))
    BY DEF Ending
  <1>2. Head(todo) \in EndOps(s) /\ Tail(todo) \in Seq(EndOps(s))
    BY <1>1, HeadAndTail
  <1>3. NothingDeferred
    BY DEF Ending
  <1>4. ASSUME UNCHANGED deferred PROVE Ending(Tail(todo))'
    BY <1>1, <1>2, <1>3, <1>4 DEF Ending, NothingDeferred
  <1>5. CASE Head(todo) \in HeadOps(s)
    <2>1. head' \in {None, s} /\ heads' \in {heads, heads \cup {s}}
          /\ UNCHANGED <<bound, deferred, checkpoint, resolved, member>>
      BY <1>5 DEF HeadOps, Performs, WriteHead, WriteResult, WriteIntents, WriteCheckpoint,
                  WriteResolution, WriteMember
    <2>2. StoreInv'
      BY <1>1, <1>3, <2>1, HeadStep DEF SettledInv, NothingDeferred
    <2> QED
      BY <1>4, <2>1, <2>2
  <1>6. CASE Head(todo) = [op |-> "bindMember", to |-> s]
    <2>1. member' = s /\ UNCHANGED <<head, heads, bound, deferred, checkpoint, resolved>>
      BY <1>6 DEF Performs, WriteHead, WriteResult, WriteIntents, WriteCheckpoint, WriteResolution,
                  WriteMember
    <2>2. StoreInv'
      BY <2>1, OtherStep DEF StoreInv, TypeOK
    <2> QED
      BY <1>4, <2>1, <2>2
  <1> QED
    BY <1>2, <1>5, <1>6 DEF EndOps

\* A write of an attempt that advances: run_step's checkpoint and result, the head, the
\* member.
LEMMA AdvancingWrite ==
    ASSUME StoreInv, Aside, NEW i \in DOMAIN ledger, ~ledger[i].done, ledger[i].kind = "optim_step",
           NEW todo, todo # << >>, Advancing(i, todo), Performs(Head(todo))
    PROVE  StoreInv' /\ Advancing(i, Tail(todo))'
  <1>1. PICK k \in Steps, res \in Result, s \in WorkState :
            /\ SettledInv(s) /\ s.stage # 0
            /\ ResultAt(res, k)
            /\ i = 0 => k < MaxSteps /\ BoundUpTo(k)
            /\ todo \in Seq(AdvanceOps(k, res, s))
    BY DEF Advancing
  <1>2. Head(todo) \in AdvanceOps(k, res, s) /\ Tail(todo) \in Seq(AdvanceOps(k, res, s))
    BY <1>1, HeadAndTail
  <1>3. NothingDeferred
    BY DEF Advancing
  <1>4. ~ledger[0].done => i = 0
    BY DEF StoreInv, LedgerInv
  <1>5. ASSUME UNCHANGED deferred, i = 0 => BoundUpTo(k)' PROVE Advancing(i, Tail(todo))'
    BY <1>1, <1>2, <1>3, <1>5 DEF Advancing, NothingDeferred
  <1>6. CASE Head(todo) \in HeadOps(s)
    <2>1. head' \in {None, s} /\ heads' \in {heads, heads \cup {s}}
          /\ UNCHANGED <<bound, deferred, checkpoint, resolved, member>>
      BY <1>6 DEF HeadOps, Performs, WriteHead, WriteResult, WriteIntents, WriteCheckpoint,
                  WriteResolution, WriteMember
    <2>2. StoreInv'
      BY <1>1, <1>3, <2>1, HeadStep DEF SettledInv, NothingDeferred
    <2>3. i = 0 => BoundUpTo(k)'
      BY <1>1, <2>1 DEF BoundUpTo
    <2> QED
      BY <1>5, <2>1, <2>2, <2>3
  <1>7. CASE Head(todo) = [op |-> "bindMember", to |-> s]
    <2>1. member' = s /\ UNCHANGED <<head, heads, bound, deferred, checkpoint, resolved>>
      BY <1>7 DEF Performs, WriteHead, WriteResult, WriteIntents, WriteCheckpoint, WriteResolution,
                  WriteMember
    <2>2. StoreInv'
      BY <2>1, OtherStep DEF StoreInv, TypeOK
    <2>3. i = 0 => BoundUpTo(k)'
      BY <1>1, <2>1 DEF BoundUpTo
    <2> QED
      BY <1>5, <2>1, <2>2, <2>3
  <1>8. CASE Head(todo) = [op |-> "checkpoint", req |-> res.req, to |-> res.out]
    <2>1. /\ checkpoint' = [q \in DOMAIN checkpoint \cup {res.req} |->
                              IF q = res.req THEN res.out ELSE checkpoint[q]]
          /\ UNCHANGED <<head, heads, bound, deferred, resolved, member>>
      <3>1. WriteCheckpoint(Head(todo))
        BY <1>8 DEF Performs, WriteHead, WriteResult, WriteIntents, WriteResolution, WriteMember
      <3>2. Head(todo).req = res.req /\ Head(todo).to = res.out
        BY <1>8
      <3> QED
        BY <3>1, <3>2 DEF WriteCheckpoint
    <2>2. res.req \in Request /\ res.out \in Output /\ (res.out # "stop" => res.req.step + 1 < MaxSteps)
      BY <1>1 DEF ResultAt, Result
    <2>3. StoreInv'
      BY <1>3, <2>1, <2>2, CheckpointStep
    <2>4. i = 0 => BoundUpTo(k)'
      BY <1>1, <2>1 DEF BoundUpTo
    <2> QED
      BY <1>5, <2>1, <2>3, <2>4
  <1>9. CASE Head(todo) = [op |-> "bindResult", step |-> k, to |-> res]
    <2>1. bound' = [bound EXCEPT ![k] = res] /\ UNCHANGED <<head, heads, deferred, checkpoint, resolved, member>>
      BY <1>9 DEF Performs, WriteHead, WriteResult, WriteIntents, WriteCheckpoint, WriteResolution,
                  WriteMember
    <2>2. StoreInv'
      BY <1>1, <1>3, <1>4, <2>1, ResultStep DEF NothingDeferred, OthersNotDeferred
    <2>3. i = 0 => BoundUpTo(k)'
      BY <1>1, <2>1, StepsFacts DEF BoundUpTo, StoreInv, TypeOK
    <2> QED
      BY <1>5, <2>1, <2>2, <2>3
  <1> QED
    BY <1>2, <1>6, <1>7, <1>8, <1>9 DEF AdvanceOps, EndOps

\* What an attempt that parks still has to do after a write.
LEMMA EvictionRemains ==
    ASSUME NEW S, NEW todo \in Seq(S), todo # << >>, NEW k, EndsWithEviction(todo, k),
           Head(todo) = [op |-> "evictIntents", step |-> k] => deferred'[k] = None
    PROVE  EndsWithEviction(Tail(todo), k)'
  <1>1. /\ Head(todo) = todo[1] /\ Len(todo) \in Nat /\ Len(Tail(todo)) = Len(todo) - 1
        /\ \A n \in 1 .. Len(Tail(todo)) : Tail(todo)[n] = todo[n + 1]
        /\ Tail(todo) = << >> <=> Len(todo) = 1
    BY HeadAndTail
  <1>2. todo[Len(todo)] = [op |-> "evictIntents", step |-> k]
    BY DEF EndsWithEviction
  <1>3. Tail(todo) = << >> => deferred'[k] = None
    BY <1>1, <1>2
  <1>4. Tail(todo) # << >> => Tail(todo)[Len(Tail(todo))] = todo[Len(todo)]
    <2>1. SUFFICES ASSUME Tail(todo) # << >>
                   PROVE  Len(Tail(todo)) \in 1 .. Len(Tail(todo)) /\ Len(Tail(todo)) + 1 = Len(todo)
      BY <1>1
    <2>2. Len(todo) # 0
      BY DEF EndsWithEviction
    <2> QED
      BY <1>1, <2>1, <2>2
  <1> QED
    BY <1>2, <1>3, <1>4 DEF EndsWithEviction

\* What is left of the plan of an attempt that parks is still such a plan.
LEMMA ParkRemains ==
    ASSUME StoreInv, Aside, NEW i \in DOMAIN ledger, NEW todo, todo # << >>,
           NEW k \in Steps, NEW res \in Result, NEW p \in WorkState, ParkInv(i, todo, k, res, p),
           head' \in {head, None, p},
           bound'[k] \in {None, res}, \A j \in Steps : j # k => bound'[j] = bound[j],
           deferred'[k] \in {None, res.req}, \A j \in Steps : j # k => deferred'[j] = deferred[j],
           Head(todo) = [op |-> "evictIntents", step |-> k] => deferred'[k] = None,
           res.req \in DOMAIN checkpoint' /\ checkpoint'[res.req] = "defer"
    PROVE  ParkInv(i, Tail(todo), k, res, p)'
  <1>1. /\ ResultAt(res, k) /\ Placeholder(res) /\ res.req = RequestAt(i, k) /\ k < MaxSteps
        /\ StateInv(p) /\ p.pend # None /\ p.step = k
        /\ todo \in Seq(ParkOps(k, res, p)) /\ OthersNotDeferred(k) /\ DeferringAt(i, k)
        /\ \A n \in 2 .. Len(todo) : todo[n].op # "checkpoint"
        /\ EndsWithEviction(todo, k)
    BY DEF ParkInv
  <1>2. /\ Tail(todo) \in Seq(ParkOps(k, res, p)) /\ Len(Tail(todo)) \in Nat
        /\ Len(Tail(todo)) = Len(todo) - 1
        /\ \A n \in 1 .. Len(Tail(todo)) : Tail(todo)[n] = todo[n + 1]
    BY <1>1, HeadAndTail
  <1>3. \A n \in 2 .. Len(Tail(todo)) : Tail(todo)[n].op # "checkpoint"
    <2>1. \A n \in 2 .. Len(Tail(todo)) : n \in 1 .. Len(Tail(todo)) /\ n + 1 \in 2 .. Len(todo)
      BY <1>2
    <2> QED
      BY <1>1, <1>2, <2>1
  <1>4. DeferringAt(i, k)'
    <2>1. i = 0 => OpeningAt(k)'
      BY <1>1, StepsFacts DEF DeferringAt, OpeningAt, BoundUpTo
    <2> QED
      BY <1>1, <2>1 DEF DeferringAt, Aside
  <1>5. RequestAt(i, k)' = RequestAt(i, k)
    BY DEF RequestAt, SameStepResume, Aside
  <1>6. EndsWithEviction(Tail(todo), k)'
    BY <1>1, EvictionRemains
  <1>7. OthersNotDeferred(k)'
    BY <1>1 DEF OthersNotDeferred
  <1> QED
    BY <1>1, <1>2, <1>3, <1>4, <1>5, <1>6, <1>7 DEF ParkInv

\* A write of an attempt that parks: the intents are bound after their checkpoint, and
\* removed last.
LEMMA ParkingWrite ==
    ASSUME StoreInv, Aside, NEW i \in DOMAIN ledger, NEW todo, todo # << >>,
           Parking(i, todo), Performs(Head(todo))
    PROVE  StoreInv' /\ Parking(i, Tail(todo))'
  <1>1. PICK k \in Steps, res \in Result, p \in WorkState : ParkInv(i, todo, k, res, p)
    BY DEF Parking
  <1>2. /\ ResultAt(res, k) /\ Placeholder(res) /\ res.req = RequestAt(i, k) /\ k < MaxSteps
        /\ StateInv(p) /\ p.pend # None /\ p.step = k
        /\ todo \in Seq(ParkOps(k, res, p)) /\ OthersNotDeferred(k) /\ DeferringAt(i, k)
        /\ deferred[k] \in {None, res.req} /\ bound[k] \in {None, res}
        /\ \/ todo # << >> /\ todo[1].op = "checkpoint"
           \/ res.req \in DOMAIN checkpoint /\ checkpoint[res.req] = "defer"
    BY <1>1 DEF ParkInv
  <1>3. Head(todo) \in ParkOps(k, res, p) /\ Head(todo) = todo[1]
    BY <1>2, HeadAndTail
  <1>4. ASSUME ParkInv(i, Tail(todo), k, res, p)' PROVE Parking(i, Tail(todo))'
    BY <1>4 DEF Parking
  <1>5. ~ledger[0].done => i = 0 /\ BoundUpTo(k)
    BY <1>2 DEF DeferringAt, OpeningAt, StoreInv, LedgerInv
  <1>6. res.req \in Request /\ res # None /\ res.req # None
    BY ConstantsAssumption DEF Result
  <1>7. Head(todo).op # "checkpoint" => res.req \in DOMAIN checkpoint /\ checkpoint[res.req] = "defer"
    BY <1>2, <1>3
  <1>8. CASE Head(todo) \in HeadOps(p)
    <2>1. head' \in {None, p} /\ heads' \in {heads, heads \cup {p}}
          /\ UNCHANGED <<bound, deferred, checkpoint, resolved, member>>
      BY <1>8 DEF HeadOps, Performs, WriteHead, WriteResult, WriteIntents, WriteCheckpoint,
                  WriteResolution, WriteMember
    <2>2. StoreInv'
      BY <1>2, <2>1, HeadStep DEF OthersNotDeferred
    <2>3. Head(todo).op \notin {"checkpoint", "evictIntents"}
      BY <1>8 DEF HeadOps
    <2>4. ParkInv(i, Tail(todo), k, res, p)'
      BY <1>1, <1>2, <1>7, <2>1, <2>3, ParkRemains
    <2> QED
      BY <1>4, <2>2, <2>4
  <1>9. CASE Head(todo) = [op |-> "checkpoint", req |-> res.req, to |-> "defer"]
    <2>1. /\ checkpoint' = [q \in DOMAIN checkpoint \cup {res.req} |->
                              IF q = res.req THEN "defer" ELSE checkpoint[q]]
          /\ UNCHANGED <<head, heads, bound, deferred, resolved, member>>
      <3>1. WriteCheckpoint(Head(todo))
        BY <1>9 DEF Performs, WriteHead, WriteResult, WriteIntents, WriteResolution, WriteMember
      <3>2. Head(todo).req = res.req /\ Head(todo).to = "defer"
        BY <1>9
      <3> QED
        BY <3>1, <3>2 DEF WriteCheckpoint
    <2>2. "defer" \in Output /\ res.req.step + 1 < MaxSteps
      BY <1>2 DEF ResultAt, Output, Placeholder
    <2>3. StoreInv'
      BY <1>6, <2>1, <2>2, CheckpointStep
    <2>4. res.req \in DOMAIN checkpoint' /\ checkpoint'[res.req] = "defer"
      BY <2>1
    <2>5. Head(todo) # [op |-> "evictIntents", step |-> k]
      BY <1>9
    <2>6. ParkInv(i, Tail(todo), k, res, p)'
      BY <1>1, <1>2, <2>1, <2>4, <2>5, ParkRemains
    <2> QED
      BY <1>4, <2>3, <2>6
  <1>10. CASE Head(todo) = [op |-> "bindIntents", step |-> k, to |-> res.req]
    <2>1. deferred' = [deferred EXCEPT ![k] = res.req]
          /\ UNCHANGED <<head, heads, bound, checkpoint, resolved, member>>
      BY <1>10 DEF Performs, WriteHead, WriteResult, WriteIntents, WriteCheckpoint, WriteResolution,
                  WriteMember
    <2>2. Head(todo).op = "bindIntents" /\ Head(todo) # [op |-> "evictIntents", step |-> k]
      BY <1>10
    <2>3. StoreInv'
      BY <1>2, <1>6, <1>7, <2>1, <2>2, BindIntentsStep
    <2>4. deferred'[k] = res.req /\ \A j \in Steps : j # k => deferred'[j] = deferred[j]
      BY <2>1 DEF StoreInv, TypeOK
    <2>5. ParkInv(i, Tail(todo), k, res, p)'
      BY <1>1, <1>2, <1>7, <2>1, <2>2, <2>4, ParkRemains
    <2> QED
      BY <1>4, <2>3, <2>5
  <1>11. CASE Head(todo) = [op |-> "bindResult", step |-> k, to |-> res]
    <2>1. bound' = [bound EXCEPT ![k] = res] /\ UNCHANGED <<head, heads, deferred, checkpoint, resolved, member>>
      BY <1>11 DEF Performs, WriteHead, WriteResult, WriteIntents, WriteCheckpoint, WriteResolution,
                  WriteMember
    <2>2. Head(todo).op = "bindResult" /\ Head(todo) # [op |-> "evictIntents", step |-> k]
      BY <1>11
    <2>3. StoreInv'
      BY <1>2, <1>5, <2>1, ResultStep
    <2>4. bound'[k] = res /\ \A j \in Steps : j # k => bound'[j] = bound[j]
      BY <2>1 DEF StoreInv, TypeOK
    <2>5. ParkInv(i, Tail(todo), k, res, p)'
      BY <1>1, <1>2, <1>7, <2>1, <2>2, <2>4, ParkRemains
    <2> QED
      BY <1>4, <2>3, <2>5
  <1>12. CASE Head(todo) = [op |-> "evictResult", step |-> k]
    <2>1. bound' = [bound EXCEPT ![k] = None] /\ UNCHANGED <<head, heads, deferred, checkpoint, resolved, member>>
      BY <1>12 DEF Performs, WriteHead, WriteResult, WriteIntents, WriteCheckpoint, WriteResolution,
                  WriteMember
    <2>2. Head(todo).op = "evictResult" /\ Head(todo) # [op |-> "evictIntents", step |-> k]
      BY <1>12
    <2>3. StoreInv'
      BY <1>2, <1>5, <2>1, ResultStep
    <2>4. bound'[k] = None /\ \A j \in Steps : j # k => bound'[j] = bound[j]
      BY <2>1 DEF StoreInv, TypeOK
    <2>5. ParkInv(i, Tail(todo), k, res, p)'
      BY <1>1, <1>2, <1>7, <2>1, <2>2, <2>4, ParkRemains
    <2> QED
      BY <1>4, <2>3, <2>5
  <1>13. CASE Head(todo) = [op |-> "evictIntents", step |-> k]
    <2>1. deferred' = [deferred EXCEPT ![k] = None]
          /\ UNCHANGED <<head, heads, bound, checkpoint, resolved, member>>
      BY <1>13 DEF Performs, WriteHead, WriteResult, WriteIntents, WriteCheckpoint, WriteResolution,
                  WriteMember
    <2>2. Head(todo).op = "evictIntents"
      BY <1>13
    <2>3. StoreInv'
      BY <2>1, EvictIntentsStep
    <2>4. deferred'[k] = None /\ \A j \in Steps : j # k => deferred'[j] = deferred[j]
      BY <2>1 DEF StoreInv, TypeOK
    <2>5. ParkInv(i, Tail(todo), k, res, p)'
      BY <1>1, <1>2, <1>7, <2>1, <2>2, <2>4, ParkRemains
    <2> QED
      BY <1>4, <2>3, <2>5
  <1> QED
    BY <1>3, <1>8, <1>9, <1>10, <1>11, <1>12, <1>13 DEF ParkOps

\* A write of the opening stage redriven from its parked head.
LEMMA ResumingWrite ==
    ASSUME StoreInv, Aside, NEW i, NEW todo, todo # << >>, Resuming(i, todo), Performs(Head(todo))
    PROVE  StoreInv' /\ Resuming(i, Tail(todo))'
  <1>1. PICK p \in WorkState :
            /\ i = 0
            /\ StateInv(p) /\ p.pend # None
            /\ todo \in Seq(HeadOps(p) \cup {[op |-> "evictIntents", step |-> p.step]})
            /\ EndsWithEviction(todo, p.step)
            /\ OthersNotDeferred(p.step)
    BY DEF Resuming
  <1>2. /\ Head(todo) \in HeadOps(p) \cup {[op |-> "evictIntents", step |-> p.step]}
        /\ Tail(todo) \in Seq(HeadOps(p) \cup {[op |-> "evictIntents", step |-> p.step]})
    BY <1>1, HeadAndTail
  <1>3. PICK k \in Steps : k = p.step
    BY DEF WorkState
  <1>4. ASSUME Head(todo) = [op |-> "evictIntents", step |-> k] => deferred'[k] = None,
               OthersNotDeferred(k)'
        PROVE  Resuming(i, Tail(todo))'
    <2>1. EndsWithEviction(Tail(todo), k)'
      BY <1>1, <1>3, <1>4, EvictionRemains
    <2> QED
      BY <1>1, <1>2, <1>3, <1>4, <2>1 DEF Resuming
  <1>5. CASE Head(todo) \in HeadOps(p)
    <2>1. head' \in {None, p} /\ heads' \in {heads, heads \cup {p}}
          /\ UNCHANGED <<bound, deferred, checkpoint, resolved, member>>
      BY <1>5 DEF HeadOps, Performs, WriteHead, WriteResult, WriteIntents, WriteCheckpoint,
                  WriteResolution, WriteMember
    <2>2. StoreInv'
      BY <1>1, <2>1, HeadStep DEF OthersNotDeferred
    <2>3. Head(todo).op # "evictIntents"
      BY <1>5 DEF HeadOps
    <2> QED
      BY <1>1, <1>3, <1>4, <2>1, <2>2, <2>3 DEF OthersNotDeferred
  <1>6. CASE Head(todo) = [op |-> "evictIntents", step |-> k]
    <2>1. deferred' = [deferred EXCEPT ![k] = None]
          /\ UNCHANGED <<head, heads, bound, checkpoint, resolved, member>>
      BY <1>6 DEF Performs, WriteHead, WriteResult, WriteIntents, WriteCheckpoint, WriteResolution,
                  WriteMember
    <2>2. StoreInv'
      BY <2>1, EvictIntentsStep
    <2>3. deferred'[k] = None /\ \A j \in Steps : j # k => deferred'[j] = deferred[j]
      BY <2>1 DEF StoreInv, TypeOK
    <2>4. OthersNotDeferred(k)'
      BY <1>1, <1>3, <2>3 DEF OthersNotDeferred
    <2> QED
      BY <1>4, <2>2, <2>3, <2>4
  <1> QED
    BY <1>2, <1>3, <1>5, <1>6

\* The merged result of an episode is a result of its step.
LEMMA MergedResult ==
    ASSUME NEW ws \in WorkState, StateInv(ws), ws.pend # None
    PROVE  /\ Merged(ws) \in Result /\ ResultAt(Merged(ws), ws.step) /\ ws.intents \in Request
           /\ ws.step \in Steps /\ ws.step + 1 < MaxSteps
           /\ Merged(ws).out # "stop" /\ ~Placeholder(Merged(ws))
  <1>1. ws.pend \in Result /\ ResultAt(ws.pend, ws.step) /\ Placeholder(ws.pend)
        /\ ws.intents = ws.pend.req /\ ws.step \in Steps
    BY DEF StateInv, WorkState
  <1>2. ws.pend.req \in Request /\ ws.pend.out = "defer" /\ ws.pend.req.step = ws.step
    BY <1>1 DEF Result, ResultAt, Placeholder
  <1>3. /\ Merged(ws) \in Result /\ Merged(ws).req = ws.pend.req /\ Merged(ws).out = "defer"
        /\ Merged(ws).resolved
    BY <1>1, <1>2 DEF Merged, Result
  <1> QED
    BY <1>1, <1>2, <1>3 DEF ResultAt, Placeholder

\* A write of a fan-in; the opening stage is long done.
LEMMA FaninWrite ==
    ASSUME StoreInv, Aside, NEW ws \in WorkState, StateInv(ws), ws.pend # None, ledger[0].done,
           NEW todo, todo # << >>, FanningIn(ws, todo), Performs(Head(todo))
    PROVE  StoreInv' /\ FanningIn(ws, Tail(todo))'
  <1>1. PICK s \in WorkState : SettledInv(s) /\ s.stage # 0 /\ todo \in Seq(FaninOps(ws, s))
    BY DEF FanningIn
  <1>2. /\ Head(todo) \in FaninOps(ws, s) /\ Head(todo) = todo[1] /\ Len(todo) \in Nat
        /\ Tail(todo) \in Seq(FaninOps(ws, s)) /\ Len(Tail(todo)) = Len(todo) - 1
        /\ \A n \in 1 .. Len(Tail(todo)) : Tail(todo)[n] = todo[n + 1]
    BY <1>1, HeadAndTail
  <1>3. PICK k \in Steps : k = ws.step
    BY MergedResult
  <1>4. ASSUME deferred'[k] \in {None, deferred[k]},
               Head(todo) = [op |-> "evictIntents", step |-> k] => deferred'[k] = None
        PROVE  FanningIn(ws, Tail(todo))'
    <2>1. ASSUME deferred'[k] # None, NEW n \in 1 .. Len(Tail(todo)), Tail(todo)[n].op = "bindResult"
          PROVE  \E m \in 1 .. n - 1 : Tail(todo)[m] = [op |-> "evictIntents", step |-> k]
      <3>1. n + 1 \in 1 .. Len(todo) /\ todo[n + 1].op = "bindResult" /\ deferred[k] # None
        BY <1>2, <1>4, <2>1
      <3>2. PICK m \in 1 .. n : todo[m] = [op |-> "evictIntents", step |-> k]
        BY <1>3, <3>1 DEF FanningIn
      <3>3. m # 1
        BY <1>2, <1>4, <2>1, <3>2
      <3>4. m - 1 \in 1 .. n - 1 /\ m - 1 \in 1 .. Len(Tail(todo)) /\ (m - 1) + 1 = m
        BY <1>2, <3>2, <3>3
      <3>5. Tail(todo)[m - 1] = todo[m]
        BY <1>2, <3>4
      <3> QED
        BY <3>2, <3>4, <3>5
    <2>2. deferred'[ws.step] # None =>
            \A n \in 1 .. Len(Tail(todo)) : Tail(todo)[n].op = "bindResult" =>
                \E m \in 1 .. n - 1 : Tail(todo)[m] = [op |-> "evictIntents", step |-> ws.step]
      BY <1>3, <2>1
    <2> QED
      BY <1>1, <1>2, <2>2 DEF FanningIn
  <1>5. CASE Head(todo) \in HeadOps(s)
    <2>1. head' \in {None, s} /\ heads' \in {heads, heads \cup {s}}
          /\ UNCHANGED <<bound, deferred, checkpoint, resolved, member>>
      BY <1>5 DEF HeadOps, Performs, WriteHead, WriteResult, WriteIntents, WriteCheckpoint,
                  WriteResolution, WriteMember
    <2>2. StoreInv'
      BY <1>1, <2>1, HeadStep DEF SettledInv
    <2>3. Head(todo).op # "evictIntents"
      BY <1>5 DEF HeadOps
    <2> QED
      BY <1>4, <2>1, <2>2, <2>3
  <1>6. CASE Head(todo) = [op |-> "resolve", req |-> ws.intents]
    <2>1. resolved' = resolved \cup {ws.intents}
          /\ UNCHANGED <<head, heads, bound, deferred, checkpoint, member>>
      BY <1>6 DEF Performs, WriteHead, WriteResult, WriteIntents, WriteCheckpoint, WriteResolution,
                  WriteMember
    <2>2. StoreInv'
      BY <2>1, OtherStep, MergedResult DEF StoreInv, TypeOK
    <2>3. Head(todo).op # "evictIntents"
      BY <1>6
    <2> QED
      BY <1>4, <2>1, <2>2, <2>3
  <1>7. CASE Head(todo) = [op |-> "evictIntents", step |-> k]
    <2>1. deferred' = [deferred EXCEPT ![k] = None]
          /\ UNCHANGED <<head, heads, bound, checkpoint, resolved, member>>
      BY <1>7 DEF Performs, WriteHead, WriteResult, WriteIntents, WriteCheckpoint, WriteResolution,
                  WriteMember
    <2>2. StoreInv'
      BY <2>1, EvictIntentsStep
    <2>3. deferred'[k] = None
      BY <2>1 DEF StoreInv, TypeOK
    <2> QED
      BY <1>4, <2>2, <2>3
  <1>8. CASE Head(todo) = [op |-> "bindResult", step |-> k, to |-> Merged(ws)]
    <2>1. bound' = [bound EXCEPT ![k] = Merged(ws)]
          /\ UNCHANGED <<head, heads, deferred, checkpoint, resolved, member>>
      BY <1>8 DEF Performs, WriteHead, WriteResult, WriteIntents, WriteCheckpoint, WriteResolution,
                  WriteMember
    <2>2. Head(todo).op = "bindResult" /\ 1 \in 1 .. Len(todo)
      BY <1>1, <1>8
    <2>3. deferred[k] = None
      BY <1>2, <1>3, <2>2 DEF FanningIn
    <2>4. Merged(ws) \in Result /\ ResultAt(Merged(ws), k)
      BY <1>3, MergedResult
    <2>5. StoreInv'
      BY <2>1, <2>3, <2>4, ResultStep
    <2> QED
      BY <1>4, <2>1, <2>2, <2>5
  <1> QED
    BY <1>2, <1>3, <1>5, <1>6, <1>7, <1>8 DEF FaninOps

\* A write keeps the invariant, and what is left of the attempt is as it was planned.
LEMMA WriteInvariant ==
    ASSUME IInv, Write
    PROVE  IInv'
  <1>1. PICK i, todo, successors :
            /\ job = [idx |-> i, todo |-> todo, successors |-> successors]
            /\ i \in DOMAIN ledger /\ todo # << >>
            /\ SuccessorsInv(successors) /\ TodoInv(i, todo)
    <2>1. job # None /\ job.todo # << >>
      BY DEF Write
    <2> QED
      BY <2>1 DEF IInv, JobInv
  <1>2. job.idx = i /\ job.todo = todo /\ job.successors = successors /\ job # None
    BY <1>1 DEF Write
  <1>3. UNCHANGED <<adapter, ledger, completed, environment>>
    BY DEF Write
  <1>4. CASE Conflict(Head(todo)) /\ Raise(i) /\ UNCHANGED store
    <2>1. job' = None /\ Aside
      BY <1>1, <1>3, <1>4 DEF Raise, Aside, IInv, StoreInv, TypeOK
    <2>2. StoreInv'
      BY <1>4, <2>1, OtherStep DEF store, IInv, StoreInv, TypeOK
    <2> QED
      BY <2>1, <2>2 DEF IInv, JobInv
  <1>5. CASE Performs(Head(todo)) /\ job' = [job EXCEPT !.todo = Tail(@)] /\ UNCHANGED raised
    <2>1. job' = [idx |-> i, todo |-> Tail(todo), successors |-> successors]
      BY <1>1, <1>5
    <2>2. job'.idx = i /\ job'.todo = Tail(todo) /\ job'.successors = successors
      BY <2>1
    <2>3. Aside
      BY <1>1, <1>3, <1>5, <2>2 DEF Aside, IInv, StoreInv, TypeOK
    <2>4. StoreInv' /\ TodoInv(i, Tail(todo))'
      <3>1. CASE ledger[i].kind = "eval_fanin" /\ FanningIn(ledger[i].input, todo)
        <4>1. PICK ws \in WorkState : ws = ledger[i].input /\ StateInv(ws) /\ ws.pend # None
          BY <1>1, <3>1 DEF IInv, StoreInv, LedgerInv, StageInv, StateInv
        <4>2. ledger[0].done
          BY <1>1, <3>1 DEF IInv, StoreInv, LedgerInv
        <4>3. StoreInv' /\ FanningIn(ws, Tail(todo))'
          BY <1>1, <1>5, <2>3, <3>1, <4>1, <4>2, FaninWrite DEF IInv
        <4>4. ledger' = ledger
          BY <1>3
        <4> QED
          BY <3>1, <4>1, <4>3, <4>4 DEF TodoInv
      <3>2. CASE /\ ledger[i].kind = "optim_step" /\ ~ledger[i].done
                 /\ Ending(todo) \/ Advancing(i, todo) \/ Parking(i, todo) \/ Resuming(i, todo)
        <4>1. StoreInv' /\ (Ending(Tail(todo))' \/ Advancing(i, Tail(todo))'
                              \/ Parking(i, Tail(todo))' \/ Resuming(i, Tail(todo))')
          BY <1>1, <1>5, <2>3, <3>2, EndingWrite, AdvancingWrite, ParkingWrite, ResumingWrite DEF IInv
        <4>2. ledger' = ledger
          BY <1>3
        <4> QED
          BY <3>2, <4>1, <4>2 DEF TodoInv
      <3> QED
        BY <1>1, <3>1, <3>2 DEF TodoInv
    <2>5. SuccessorsInv(successors)'
      BY <1>1
    <2> QED
      BY <1>1, <1>3, <2>1, <2>2, <2>4, <2>5 DEF IInv, JobInv
  <1> QED
    BY <1>2, <1>4, <1>5 DEF Write, Performs

-----------------------------------------------------------------------------
(* The platform: completion, rows, crashes.                                *)

\* When the last write of a stage that is not done is done, nothing is deferred.
LEMMA CompleteEvicts ==
    ASSUME IInv, job # None, job.todo = << >>, ~ledger[job.idx].done
    PROVE  NothingDeferred
  <1>1. PICK i \in DOMAIN ledger : i = job.idx /\ TodoInv(i, << >>)
    BY DEF IInv, JobInv
  <1>2. CASE ledger[i].kind = "eval_fanin"
    <2>1. ASSUME NEW k \in Steps, deferred[k] # None PROVE FALSE
      <3>1. PICK j \in DOMAIN ledger : DeferringAt(j, k)
        BY <2>1 DEF IInv, StoreInv, DeferredInv
      <3>2. j = i
        BY <1>1, <1>2, <3>1 DEF IInv, StoreInv, LedgerInv, Sole, DeferringAt
      <3> QED
        BY <1>2, <3>1, <3>2 DEF DeferringAt
    <2> QED
      BY <2>1 DEF NothingDeferred
  <1>3. CASE Ending(<< >>) \/ Advancing(i, << >>)
    BY <1>3 DEF Ending, Advancing
  <1>4. CASE Parking(i, << >>)
    BY <1>4 DEF Parking, ParkInv, EndsWithEviction, OthersNotDeferred, NothingDeferred
  <1>5. CASE Resuming(i, << >>)
    BY <1>5 DEF Resuming, EndsWithEviction, OthersNotDeferred, NothingDeferred
  <1> QED
    BY <1>1, <1>2, <1>3, <1>4, <1>5 DEF TodoInv

\* A stage is recorded as done, with its successors: nothing is deferred any more.
LEMMA CompleteInvariant ==
    ASSUME IInv, Complete
    PROVE  IInv'
  <1>1. PICK i \in DOMAIN ledger, succ \in {job.successors} :
            /\ i = job.idx /\ succ = job.successors
            /\ SuccessorsInv(succ) /\ TodoInv(i, << >>) /\ job # None /\ job.todo = << >>
    BY DEF IInv, JobInv, Complete
  <1>2. job' = None /\ UNCHANGED <<adapter, store, raised, completed, environment>>
    BY DEF Complete
  <1>3. JobInv'
    BY <1>2 DEF JobInv
  <1>4. CASE ledger[i].done
    <2>1. ledger' = ledger
      BY <1>1, <1>4 DEF Complete
    <2>2. Aside
      BY <1>2, <2>1 DEF Aside, IInv, StoreInv, TypeOK
    <2>3. StoreInv'
      BY <1>2, <2>2, OtherStep DEF IInv, StoreInv, TypeOK, store
    <2> QED
      BY <1>3, <2>3 DEF IInv
  <1>5. CASE ~ledger[i].done
    <2>1. /\ DOMAIN ledger' = DOMAIN ledger \cup DOMAIN succ
          /\ \A j \in DOMAIN ledger' :
                ledger'[j] = IF j = i THEN [ledger[i] EXCEPT !.done = TRUE]
                             ELSE IF j \in DOMAIN ledger THEN ledger[j] ELSE succ[j]
      BY <1>1, <1>5 DEF Complete
    <2>2. /\ \A j \in DOMAIN ledger : j \in Nat /\ ledger[j] \in Stage
          /\ \A j \in DOMAIN succ : j \in Nat \ {0} /\ succ[j] \in Stage
      BY <1>1 DEF IInv, StoreInv, TypeOK, SuccessorsInv, StageInv
    <2>3. /\ ledger'[i].kind = ledger[i].kind /\ ledger'[i].input = ledger[i].input
          /\ ledger'[i].done /\ ledger'[i] \in Stage
      BY <2>1, <2>2 DEF Stage
    <2>4. /\ DOMAIN ledger' \subseteq Nat
          /\ \A j \in DOMAIN ledger' : ledger'[j] \in Stage
      BY <2>1, <2>2, <2>3
    <2>5. TypeOK'
      BY <1>2, <2>1, <2>4 DEF IInv, StoreInv, TypeOK, store, environment
    <2>6. NothingDeferred
      BY <1>1, <1>5, CompleteEvicts
    <2>7. ledger[i].kind # "eval_row"
      BY <1>1 DEF TodoInv
    <2>8. LedgerInv'
      <3>1. 0 \in DOMAIN ledger' /\ ledger'[0].kind = "optim_step" /\ ledger'[0].input = None
        BY <2>1, <2>3 DEF IInv, StoreInv, LedgerInv
      <3>2. ASSUME NEW j \in DOMAIN ledger' PROVE StageInv(j, ledger'[j])
        <4>1. CASE j = i
          BY <2>3, <4>1 DEF IInv, StoreInv, LedgerInv, StageInv
        <4>2. CASE j # i
          BY <1>1, <2>1, <4>2 DEF IInv, StoreInv, LedgerInv, SuccessorsInv
        <4> QED
          BY <4>1, <4>2
      <3>3. ASSUME NEW j \in DOMAIN ledger', ~ledger'[j].done, ledger'[j].kind # "eval_row"
            PROVE  j \in DOMAIN succ /\ ledger'[j] = succ[j]
        <4>1. j # i
          BY <2>3, <3>3
        <4>2. j \notin DOMAIN ledger
          BY <1>5, <2>1, <2>7, <3>3, <4>1 DEF IInv, StoreInv, LedgerInv, Sole
        <4> QED
          BY <2>1, <4>1, <4>2
      <3>4. Sole(ledger)'
        BY <1>1, <3>3 DEF Sole, SuccessorsInv
      <3>5. ledger'[0].done
        BY <1>5, <2>1, <2>3, <3>1 DEF IInv, StoreInv, LedgerInv
      <3> QED
        BY <3>1, <3>2, <3>4, <3>5 DEF LedgerInv
    <2>9. ledger'[0].done
      BY <1>5, <2>1, <2>3 DEF IInv, StoreInv, LedgerInv
    <2>10. HeadInv' /\ BoundInv' /\ CheckpointInv'
      BY <1>2 DEF IInv, StoreInv, store, HeadInv, BoundInv, CheckpointInv, StateInv, ResultAt, Placeholder
    <2>11. DeferredInv' /\ OpeningInv'
      BY <1>2, <2>6, <2>9 DEF DeferredInv, NothingDeferred, OpeningInv, store
    <2> QED
      BY <1>3, <2>5, <2>8, <2>10, <2>11 DEF IInv, StoreInv
  <1> QED
    BY <1>4, <1>5

\* What an attempt still has to do depends on the store and its own stage only.
LEMMA TodoKept ==
    ASSUME UNCHANGED <<adapter, store>>, NEW i \in DOMAIN ledger, i \in DOMAIN ledger',
           ledger'[i] = ledger[i], NEW todo, TodoInv(i, todo)
    PROVE  TodoInv(i, todo)'
  <1>1. \A k : RequestAt(i, k)' = RequestAt(i, k) /\ (DeferringAt(i, k) => DeferringAt(i, k)')
    BY DEF RequestAt, SameStepResume, DeferringAt, OpeningAt, BoundUpTo, store
  <1>2. FanningIn(ledger[i].input, todo) => FanningIn(ledger[i].input, todo)'
    BY DEF FanningIn, store
  <1>3. Ending(todo) => Ending(todo)'
    BY DEF Ending, NothingDeferred, store
  <1>4. Advancing(i, todo) => Advancing(i, todo)'
    BY DEF Advancing, NothingDeferred, BoundUpTo, store
  <1>5. Parking(i, todo) => Parking(i, todo)'
    BY <1>1 DEF Parking, ParkInv, EndsWithEviction, OthersNotDeferred, store
  <1>6. Resuming(i, todo) => Resuming(i, todo)'
    BY DEF Resuming, EndsWithEviction, OthersNotDeferred, store
  <1> QED
    BY <1>2, <1>3, <1>4, <1>5, <1>6 DEF TodoInv

\* A row is done, which no attempt in progress notices.
LEMMA EvalRowInvariant ==
    ASSUME IInv, NEW r \in DOMAIN ledger, EvalRow(r)
    PROVE  IInv'
  <1>1. /\ ledger[r].kind = "eval_row" /\ ledger' = [ledger EXCEPT ![r].done = TRUE]
        /\ UNCHANGED <<adapter, store, job, raised, completed, environment>>
    BY DEF EvalRow
  <1>2. ledger[r] \in Stage /\ \A j \in DOMAIN ledger : ledger[j] \in Stage
    BY DEF IInv, StoreInv, TypeOK
  <1>3. /\ DOMAIN ledger' = DOMAIN ledger
        /\ \A j \in DOMAIN ledger : j # r => ledger'[j] = ledger[j]
        /\ ledger'[r] = [ledger[r] EXCEPT !.done = TRUE]
    BY <1>1
  <1>4. /\ ledger'[r].kind = "eval_row" /\ ledger'[r].input = ledger[r].input
        /\ ledger'[r].done /\ ledger'[r] \in Stage
    BY <1>1, <1>2, <1>3 DEF Stage
  <1>5. TypeOK'
    BY <1>1, <1>2, <1>3, <1>4 DEF IInv, StoreInv, TypeOK, store, environment
  <1>6. HeadInv' /\ BoundInv' /\ CheckpointInv'
    BY <1>1 DEF IInv, StoreInv, store, HeadInv, BoundInv, CheckpointInv, StateInv, ResultAt, Placeholder
  <1>7. r # 0 /\ 0 \in DOMAIN ledger
    BY <1>1 DEF IInv, StoreInv, LedgerInv
  <1>8. LedgerInv'
    <2>1. ASSUME NEW j \in DOMAIN ledger PROVE StageInv(j, ledger'[j])
      <3>1. CASE j = r
        BY <1>4, <3>1 DEF StageInv
      <3>2. CASE j # r
        BY <1>3, <3>2 DEF IInv, StoreInv, LedgerInv
      <3> QED
        BY <3>1, <3>2
    <2>2. Sole(ledger)'
      BY <1>3, <1>4 DEF IInv, StoreInv, LedgerInv, Sole
    <2> QED
      BY <1>3, <1>7, <2>1, <2>2 DEF IInv, StoreInv, LedgerInv
  <1>9. ASSUME NEW i, NEW k, DeferringAt(i, k) PROVE DeferringAt(i, k)'
    <2>1. i # r /\ i \in DOMAIN ledger
      BY <1>1, <1>9 DEF DeferringAt
    <2> QED
      BY <1>1, <1>3, <1>9, <2>1 DEF DeferringAt, OpeningAt, BoundUpTo, store
  <1>10. \A i, k : RequestAt(i, k)' = RequestAt(i, k)
    BY <1>1 DEF RequestAt, SameStepResume
  <1>11. DeferredInv'
    BY <1>1, <1>3, <1>9, <1>10 DEF IInv, StoreInv, DeferredInv, store
  <1>12. OpeningInv'
    BY <1>1, <1>3, <1>7 DEF IInv, StoreInv, OpeningInv, NothingDeferred, store
  <1>13. JobInv'
    <2>1. SUFFICES ASSUME job # None PROVE JobInv'
      BY <1>1 DEF JobInv
    <2>2. PICK i \in DOMAIN ledger, todo \in {job.todo}, succ \in {job.successors} :
            /\ job = [idx |-> i, todo |-> todo, successors |-> succ]
            /\ SuccessorsInv(succ) /\ TodoInv(i, todo)
      BY <2>1 DEF IInv, JobInv
    <2>3. i # r /\ ledger'[i] = ledger[i]
      BY <1>1, <1>3, <2>2 DEF TodoInv
    <2>9. TodoInv(i, todo)'
      BY <1>1, <1>3, <2>2, <2>3, TodoKept
    <2>10. job' = job /\ SuccessorsInv(succ)'
      BY <1>1, <2>2
    <2>11. job.idx = i /\ job.todo = todo /\ job.successors = succ
      BY <2>2
    <2> QED
      BY <1>3, <2>2, <2>9, <2>10, <2>11 DEF JobInv
  <1> QED
    BY <1>5, <1>6, <1>8, <1>11, <1>12, <1>13 DEF IInv, StoreInv

\* Steps that leave the store alone.
LEMMA StoreKept ==
    ASSUME StoreInv, UNCHANGED <<adapter, store, ledger>>, job' # None => job'.idx \in DOMAIN ledger,
           raised' \subseteq DOMAIN ledger, completed' \in {"no", "yes", "raised"},
           crashes' \in 0 .. MaxCrashes, replays' \in 0 .. MaxReplays
    PROVE  StoreInv'
  <1>1. TypeOK'
    BY DEF StoreInv, TypeOK, store
  <1>2. HeadInv' /\ BoundInv' /\ CheckpointInv' /\ LedgerInv'
    BY DEF StoreInv, HeadInv, BoundInv, CheckpointInv, LedgerInv, StageInv, Sole, StateInv,
           ResultAt, Placeholder, store
  <1>3. DeferredInv'
    <2>1. ASSUME NEW i, NEW j, DeferringAt(i, j) PROVE DeferringAt(i, j)'
      BY <2>1 DEF DeferringAt, OpeningAt, BoundUpTo, store
    <2>2. \A i, j : RequestAt(i, j)' = RequestAt(i, j)
      BY DEF RequestAt, SameStepResume
    <2> QED
      BY <2>1, <2>2 DEF StoreInv, DeferredInv, store
  <1>4. OpeningInv'
    BY DEF StoreInv, OpeningInv, NothingDeferred, store
  <1> QED
    BY <1>1, <1>2, <1>3, <1>4 DEF StoreInv

\* An attempt starts with the writes it plans.
LEMMA RunInvariant ==
    ASSUME IInv, UNCHANGED <<adapter, store, ledger, completed, crashes>>, replays' \in 0 .. MaxReplays,
           NEW i \in DOMAIN ledger, NEW todo, NEW successors, Run(i, todo, successors),
           TodoInv(i, todo), SuccessorsInv(successors)
    PROVE  IInv'
  <1>1. /\ job' = [idx |-> i, todo |-> todo, successors |-> successors] /\ raised' = raised
        /\ job'.idx = i /\ job'.todo = todo /\ job'.successors = successors
    BY DEF Run
  <1>2. StoreInv'
    BY <1>1, StoreKept DEF IInv, StoreInv, TypeOK
  <1>3. TodoInv(i, todo)' /\ SuccessorsInv(successors)'
    BY TodoKept
  <1> QED
    BY <1>1, <1>2, <1>3 DEF IInv, JobInv

\* An attempt raises.
LEMMA RaiseInvariant ==
    ASSUME IInv, UNCHANGED <<adapter, store, ledger, completed, environment>>,
           NEW i \in DOMAIN ledger, Raise(i)
    PROVE  IInv'
  <1>1. job' = None /\ raised' \subseteq DOMAIN ledger
    BY DEF Raise, IInv, StoreInv, TypeOK
  <1>2. StoreInv'
    BY <1>1, StoreKept DEF IInv, StoreInv, TypeOK, environment
  <1> QED
    BY <1>1, <1>2 DEF IInv, JobInv

-----------------------------------------------------------------------------
(* The state an optim_step starts from.                                    *)

\* The state rebuilt from the bindings covers exactly what is bound.
LEMMA RebuiltState ==
    ASSUME StoreInv, ~ledger[0].done
    PROVE  /\ StateInv(Rebuilt) /\ Rebuilt.stage = 0 /\ Rebuilt.pend = None /\ Rebuilt.step \in Steps
           /\ \A j \in Steps : /\ bound[j] # None <=> j < Rebuilt.step
                               /\ j + 1 < Rebuilt.step => bound[j].out # "stop"
           /\ Rebuilt.terminal <=> Rebuilt.step > 0 /\ bound[Rebuilt.step - 1].out = "stop"
  <1> DEFINE Q(k) == /\ \A j \in 0 .. k - 1 : bound[j] # None
                     /\ \A j \in 0 .. k - 2 : bound[j].out # "stop"
                     /\ \/ bound[k] = None
                        \/ k > 0 /\ bound[k - 1].out = "stop"
  <1>1. PICK c \in Steps : \A j \in Steps : /\ bound[j] # None <=> j < c
                                            /\ j + 1 < c => bound[j].out # "stop"
    BY DEF StoreInv, OpeningInv
  <1>2. c \in Nat /\ c <= MaxSteps /\ \A j \in 0 .. c : j \in Steps
    BY ConstantsAssumption DEF Steps
  <1>3. Q(c)
    BY <1>1, <1>2
  <1>4. ASSUME NEW k \in Steps, Q(k) PROVE k = c
    <2>1. k \in Nat /\ \A j \in 0 .. k : j \in Steps
      BY ConstantsAssumption DEF Steps
    <2>2. ~(c < k)
      BY <1>1, <1>2, <1>4, <2>1
    <2>3. ~(k < c)
      <3>1. SUFFICES ASSUME k < c PROVE FALSE
        OBVIOUS
      <3>2. bound[k] # None
        BY <1>1, <3>1
      <3>3. k > 0 /\ bound[k - 1].out = "stop"
        BY <1>4, <3>2
      <3>4. k - 1 \in Steps /\ (k - 1) + 1 < c
        BY <1>2, <2>1, <3>1, <3>3
      <3> QED
        BY <1>1, <3>3, <3>4
    <2> QED
      BY <1>2, <2>1, <2>2, <2>3
  <1>5. (CHOOSE k \in Steps : Q(k)) = c
    BY <1>3, <1>4
  <1> DEFINE refs == [k \in 1 .. c |-> bound[k - 1]]
             terminal == c > 0 /\ bound[c - 1].out = "stop"
  <1>6. Rebuilt = Settled(0, c, refs, terminal)
    BY <1>5 DEF Rebuilt
  <1>7. refs \in Seq(Result) /\ Len(refs) = c
    <2>1. ASSUME NEW k \in 1 .. c PROVE bound[k - 1] \in Result
      <3>1. k - 1 \in Steps /\ k - 1 < c
        BY <1>2, <2>1
      <3>2. bound[k - 1] # None /\ bound[k - 1] \in Result \cup {None}
        BY <1>1, <3>1 DEF StoreInv, TypeOK
      <3> QED
        BY <3>2
    <2>2. refs \in [1 .. c -> Result]
      BY <2>1
    <2> HIDE DEF refs
    <2> QED
      BY <1>2, <2>2
  <1>8. terminal \in BOOLEAN /\ (~terminal => c < MaxSteps)
    <2>1. CASE c = 0
      BY <2>1, ConstantsAssumption
    <2>2. CASE c # 0
      <3>1. c - 1 \in Steps /\ c - 1 < c /\ (c - 1) + 1 = c /\ c > 0
        BY <1>2, <2>2
      <3>2. ResultAt(bound[c - 1], c - 1)
        BY <1>1, <3>1 DEF StoreInv, BoundInv
      <3> QED
        BY <3>1, <3>2 DEF ResultAt
    <2> QED
      BY <2>1, <2>2
  <1> HIDE DEF refs
  <1>9. Settled(0, c, refs, terminal) \in WorkState
    <2> HIDE DEF terminal
    <2> QED
      BY <1>7, <1>8 DEF Settled, WorkState
  <1>10. /\ Settled(0, c, refs, terminal).stage = 0 /\ Settled(0, c, refs, terminal).pend = None
         /\ Settled(0, c, refs, terminal).step = c
         /\ Settled(0, c, refs, terminal).terminal = terminal
    BY DEF Settled
  <1>11. StateInv(Rebuilt)
    BY <1>6, <1>8, <1>9, <1>10 DEF StateInv
  <1> QED
    BY <1>1, <1>6, <1>10, <1>11

\* The state an optim_step that is not done loads.
LEMMA LoadedState ==
    ASSUME StoreInv, NEW i \in DOMAIN ledger, ledger[i].kind = "optim_step", ~ledger[i].done,
           NEW st, st = LoadWorkState(ledger[i].input)
    PROVE  /\ StateInv(st)
           /\ i # 0 => st = ledger[i].input /\ st.pend = None
           /\ i = 0 => ~ledger[0].done /\ (\/ st = head /\ head # None /\ (head.pend # None \/ head.stage = 0)
                                           \/ st = Rebuilt /\ (head # None => head.pend = None /\ head.stage # 0))
  <1>1. CASE i # 0
    <2>1. ledger[i].input # None /\ StateInv(ledger[i].input) /\ ledger[i].input.pend = None
      BY <1>1 DEF StoreInv, LedgerInv, StageInv
    <2> QED
      BY <1>1, <2>1 DEF LoadWorkState
  <1>2. CASE i = 0
    <2>1. ledger[0].input = None /\ ~ledger[0].done
      BY <1>2 DEF StoreInv, LedgerInv
    <2>2. CASE AcceptHead
      BY <1>2, <2>1, <2>2 DEF LoadWorkState, AcceptHead, StoreInv, HeadInv
    <2>3. CASE ~AcceptHead
      BY <1>2, <2>1, <2>3, RebuiltState DEF LoadWorkState, AcceptHead
    <2> QED
      BY <2>2, <2>3
  <1> QED
    BY <1>1, <1>2

\* What is deferred while a stage is not done is that stage's.
LEMMA DeferredHere ==
    ASSUME StoreInv, NEW i \in DOMAIN ledger, ledger[i].kind = "optim_step", ~ledger[i].done,
           NEW h \in Steps, deferred[h] # None
    PROVE  /\ DeferringAt(i, h) /\ deferred[h] = RequestAt(i, h)
           /\ deferred[h] \in DOMAIN checkpoint /\ checkpoint[deferred[h]] = "defer"
  <1>1. PICK j \in DOMAIN ledger : DeferringAt(j, h) /\ deferred[h] = RequestAt(j, h)
    BY DEF StoreInv, DeferredInv
  <1>2. j = i
    BY <1>1 DEF DeferringAt, StoreInv, LedgerInv, Sole
  <1> QED
    BY <1>1, <1>2 DEF StoreInv, DeferredInv

\* A state from which nothing has to be recovered: what is deferred is so at its step, which
\* has no result yet.
LEMMA DeferredAtStep ==
    ASSUME StoreInv, NEW i \in DOMAIN ledger, ledger[i].kind = "optim_step", ~ledger[i].done,
           NEW st, st = LoadWorkState(ledger[i].input), ~st.terminal, st.pend = None,
           UnresolvedDeferrals(st) = {},
           NEW h \in Steps, deferred[h] # None
    PROVE  h = st.step /\ bound[h] = None
  <1>1. StateInv(st) /\ st.step \in Steps
    BY LoadedState DEF StateInv, WorkState
  <1>2. bound[h] # None => Unresolved(bound[h])
    BY DEF StoreInv, BoundInv, Placeholder, Unresolved
  <1>3. bound[h] # None => h # st.step /\ h # st.step - 1
    BY <1>2, StepsFacts DEF UnresolvedDeferrals
  <1>4. DeferringAt(i, h)
    BY DeferredHere
  <1>5. CASE i # 0
    BY <1>3, <1>4, <1>5, LoadedState DEF DeferringAt
  <1>6. CASE i = 0
    <2>1. ~ledger[0].done /\ BoundUpTo(h)
      BY <1>4, <1>6 DEF DeferringAt, OpeningAt
    <2>2. st = Rebuilt
      BY <1>4, <1>6, LoadedState DEF DeferringAt, OpeningAt
    <2>3. \A j \in Steps : bound[j] # None <=> j < st.step
      BY <2>1, <2>2, RebuiltState
    <2>4. h \in Nat /\ st.step \in Nat
      BY <1>1, StepsFacts
    <2>5. ~(st.step < h)
      BY <1>1, <2>1, <2>3, <2>4 DEF BoundUpTo
    <2>6. ~(h < st.step)
      <3>1. SUFFICES ASSUME h < st.step PROVE FALSE
        OBVIOUS
      <3>2. h # st.step - 1 /\ bound[h] # None
        BY <1>3, <2>3, <3>1
      <3>3. h + 1 \in Steps /\ h + 1 < st.step /\ h + 1 > h
        BY <1>1, <2>4, <3>1, <3>2, StepsFacts DEF Steps
      <3> QED
        BY <2>1, <2>3, <3>3 DEF BoundUpTo
    <2> QED
      BY <1>3, <2>4, <2>5, <2>6
  <1> QED
    BY <1>5, <1>6

-----------------------------------------------------------------------------
(* Plans of writes and their successors.                                   *)

\* Plans are put together from single writes.
LEMMA Single ==
    ASSUME NEW S, NEW a \in S
    PROVE  << a >> \in Seq(S) /\ Len(<< a >>) = 1 /\ << a >>[1] = a
  OBVIOUS

\* A plan of two writes.
LEMMA Pair ==
    ASSUME NEW S, NEW a \in S, NEW b \in S
    PROVE  << a, b >> \in Seq(S) /\ Len(<< a, b >>) = 2
  OBVIOUS

\* A plan of three writes.
LEMMA Triple ==
    ASSUME NEW a, NEW b, NEW c
    PROVE  /\ << a >> \o << b >> \o << c >> # << >>
           /\ Len(<< a >> \o << b >> \o << c >>) = 3
           /\ (<< a >> \o << b >> \o << c >>)[1] = a
           /\ (<< a >> \o << b >> \o << c >>)[2] = b
           /\ (<< a >> \o << b >> \o << c >>)[3] = c
  <1> DEFINE S == {a, b, c}
  <1>1. << a >> \in Seq(S) /\ << b >> \in Seq(S) /\ << c >> \in Seq(S)
    OBVIOUS
  <1>2. /\ Len(<< a >>) = 1 /\ Len(<< b >>) = 1 /\ Len(<< c >>) = 1
        /\ << a >>[1] = a /\ << b >>[1] = b /\ << c >>[1] = c
    OBVIOUS
  <1>3. PICK x, y, z : x = << a >> /\ y = << b >> /\ z = << c >>
    OBVIOUS
  <1> HIDE DEF S
  <1>4. /\ x \o y \in Seq(S) /\ Len(x \o y) = 2
        /\ \A i \in 1 .. 2 : (x \o y)[i] = IF i <= 1 THEN x[i] ELSE y[i - 1]
    <2>1. x \in Seq(S) /\ y \in Seq(S) /\ Len(x) = 1 /\ Len(y) = 1
      BY <1>1, <1>2, <1>3
    <2> QED
      BY <2>1, ConcatProperties
  <1>5. (x \o y)[1] = a /\ (x \o y)[2] = b
    BY <1>2, <1>3, <1>4
  <1>6. PICK t \in Seq(S) : t = x \o y /\ Len(t) = 2 /\ t[1] = a /\ t[2] = b
    BY <1>4, <1>5
  <1>7. /\ t \o z \in Seq(S) /\ Len(t \o z) = 3
        /\ \A i \in 1 .. 3 : (t \o z)[i] = IF i <= 2 THEN t[i] ELSE z[i - 2]
    <2>1. z \in Seq(S) /\ Len(z) = 1
      BY <1>1, <1>2, <1>3
    <2> QED
      BY <1>6, <2>1, ConcatProperties
  <1>8. (t \o z)[1] = a /\ (t \o z)[2] = b /\ (t \o z)[3] = c
    BY <1>2, <1>3, <1>6, <1>7
  <1>9. t \o z # << >>
    BY <1>7, EmptySeq
  <1> QED
    BY <1>3, <1>6, <1>7, <1>8, <1>9

\* Persisting is a plan of two writes.
LEMMA PersistPlan ==
    ASSUME NEW S, NEW s, HeadOps(s) \subseteq S
    PROVE  Persist(s) \in Seq(S) /\ Len(Persist(s)) = 2
  <1>1. [op |-> "evictHead"] \in S /\ [op |-> "bindHead", to |-> s] \in S
    BY DEF HeadOps
  <1> QED
    BY <1>1, Pair DEF Persist

\* A plan that ends with the removal of intents.
LEMMA EvictionLast ==
    ASSUME NEW S, NEW todo \in Seq(S), NEW k, [op |-> "evictIntents", step |-> k] \in S
    PROVE  /\ todo \o EvictIntents(k) \in Seq(S)
           /\ EndsWithEviction(todo \o EvictIntents(k), k)
           /\ Len(todo \o EvictIntents(k)) = Len(todo) + 1
           /\ \A n \in 1 .. Len(todo) : (todo \o EvictIntents(k))[n] = todo[n]
           /\ (todo \o EvictIntents(k))[Len(todo) + 1] = [op |-> "evictIntents", step |-> k]
  <1> DEFINE e == [op |-> "evictIntents", step |-> k]
  <1>1. EvictIntents(k) = << e >> /\ << e >> \in Seq(S) /\ Len(<< e >>) = 1 /\ << e >>[1] = e
    BY Single DEF EvictIntents
  <1> HIDE DEF e
  <1>2. /\ todo \o << e >> \in Seq(S) /\ Len(todo \o << e >>) = Len(todo) + 1 /\ Len(todo) \in Nat
        /\ \A n \in 1 .. Len(todo) + 1 : (todo \o << e >>)[n] =
                     IF n <= Len(todo) THEN todo[n] ELSE << e >>[n - Len(todo)]
    BY <1>1, ConcatProperties
  <1>3. (todo \o << e >>)[Len(todo) + 1] = e /\ \A n \in 1 .. Len(todo) : (todo \o << e >>)[n] = todo[n]
    BY <1>1, <1>2
  <1>4. todo \o << e >> # << >>
    BY <1>2
  <1> QED
    BY <1>1, <1>2, <1>3, <1>4 DEF EndsWithEviction, e

\* The rows and the fan-in barrier of a parked state.
LEMMA FanOutSuccessors ==
    ASSUME NEW p \in WorkState, StateInv(p), p.pend # None
    PROVE  SuccessorsInv(FanOut(p))
  <1>1. p.origin \in Nat /\ p.stage \in Nat
    BY DEF WorkState
  <1>2. /\ DOMAIN FanOut(p) = p.origin + 1 .. p.stage
        /\ \A i \in p.origin + 1 .. p.stage :
            /\ i < p.stage => FanOut(p)[i] = [kind |-> "eval_row", input |-> None, done |-> FALSE]
            /\ ~(i < p.stage) => FanOut(p)[i] = [kind |-> "eval_fanin", input |-> p, done |-> FALSE]
    BY DEF FanOut
  <1>3. \A i \in DOMAIN FanOut(p) : i \in Nat \ {0} /\ (~(i < p.stage) => i = p.stage)
    BY <1>1, <1>2
  <1>4. ASSUME NEW i \in DOMAIN FanOut(p)
        PROVE  StageInv(i, FanOut(p)[i]) /\ (FanOut(p)[i].kind # "eval_row" => i = p.stage)
    <2> DEFINE x == FanOut(p)[i]
    <2>1. CASE i < p.stage
      <3>1. x = [kind |-> "eval_row", input |-> None, done |-> FALSE]
        BY <1>2, <1>4, <2>1
      <3>2. x \in Stage /\ x.kind = "eval_row"
        BY <3>1 DEF Stage
      <3> QED
        BY <3>2 DEF StageInv
    <2>2. CASE ~(i < p.stage)
      <3>1. x = [kind |-> "eval_fanin", input |-> p, done |-> FALSE] /\ i = p.stage
        BY <1>2, <1>3, <1>4, <2>2
      <3>2. x \in Stage /\ x.kind = "eval_fanin" /\ x.input = p /\ p # None
        BY <3>1, ConstantsAssumption DEF Stage
      <3> HIDE DEF x
      <3>3. StageInv(i, x)
        BY <3>2 DEF StageInv
      <3> QED
        BY <3>1, <3>3 DEF x
    <2> QED
      BY <2>1, <2>2
  <1> QED
    BY <1>3, <1>4 DEF SuccessorsInv, Sole

\* The optim_step that follows from a settled state.
LEMMA NextStepSuccessors ==
    ASSUME NEW s \in WorkState, StateInv(s), s.pend = None, s.stage # 0
    PROVE  SuccessorsInv(NextStep(s))
  <1>1. s.stage \in Nat /\ s # None
    BY ConstantsAssumption DEF WorkState
  <1>2. /\ DOMAIN NextStep(s) = {s.stage}
        /\ NextStep(s)[s.stage] = [kind |-> "optim_step", input |-> s, done |-> FALSE]
    BY DEF NextStep
  <1>3. StageInv(s.stage, NextStep(s)[s.stage])
    BY <1>1, <1>2 DEF StageInv, Stage
  <1> QED
    BY <1>1, <1>2, <1>3 DEF SuccessorsInv, Sole

\* A stage may have no successors.
LEMMA NoSuccessors == SuccessorsInv(<< >>)
  BY DEF SuccessorsInv, Sole

\* A settled state is a work state.
LEMMA SettledState ==
    ASSUME NEW stage \in Nat, NEW step \in Steps, NEW refs \in Seq(Result), Len(refs) = step,
           NEW terminal \in BOOLEAN, ~terminal => step < MaxSteps
    PROVE  LET s == Settled(stage, step, refs, terminal)
           IN  s \in WorkState /\ StateInv(s) /\ s.pend = None /\ s.stage = stage /\ s.step = step
               /\ s.terminal = terminal
  <1> DEFINE s == Settled(stage, step, refs, terminal)
  <1>1. s \in WorkState
    BY DEF Settled, WorkState
  <1>2. s.pend = None /\ s.stage = stage /\ s.step = step /\ s.terminal = terminal
    BY DEF Settled
  <1> HIDE DEF s
  <1>3. StateInv(s)
    BY <1>1, <1>2 DEF StateInv
  <1> QED
    BY <1>1, <1>2, <1>3 DEF s

\* A parked state is one.
LEMMA ParkedState ==
    ASSUME NEW i \in Nat, NEW k \in Steps, NEW refs \in Seq(Result), k <= Len(refs),
           NEW res \in Result, ResultAt(res, k), Placeholder(res), k < MaxSteps
    PROVE  LET p == Parked(i, k, refs, res, res.req)
           IN  p \in WorkState /\ StateInv(p) /\ p.pend # None /\ p.step = k
  <1> DEFINE p == Parked(i, k, refs, res, res.req)
  <1>1. res # None /\ i # None /\ res.req # None /\ res.req \in Request
    BY ConstantsAssumption DEF Result
  <1>2. SubSeq(refs, 1, k) \in Seq(Result) /\ Len(SubSeq(refs, 1, k)) = k
    <2>1. k \in Nat /\ \A j \in 1 .. k : refs[j] \in Result
      BY StepsFacts
    <2> QED
      BY <2>1, SubSeqProperties
  <1>3. i + Rows + 1 \in Nat
    BY ConstantsAssumption
  <1>4. p \in WorkState
    BY <1>1, <1>2, <1>3 DEF Parked, WorkState
  <1>5. p.pend = res /\ p.step = k /\ p.intents = res.req /\ p.terminal = FALSE
    BY DEF Parked
  <1> HIDE DEF p
  <1>6. StateInv(p)
    BY <1>4, <1>5 DEF StateInv
  <1> QED
    BY <1>1, <1>4, <1>5, <1>6 DEF p

-----------------------------------------------------------------------------
(* execute_optim_step_sync plans.                                          *)

\* A stage at the end of the run.
LEMMA TerminalPlan ==
    ASSUME IInv, NEW i \in DOMAIN ledger, ledger[i].kind = "optim_step", ~ledger[i].done,
           NEW st, st = LoadWorkState(ledger[i].input), st.terminal
    PROVE  TodoInv(i, Persist(st) \o BindMember(st))
  <1>1. StateInv(st) /\ st \in WorkState /\ st.pend = None
    BY LoadedState DEF IInv, StateInv
  <1>2. ASSUME NEW h \in Steps, deferred[h] # None PROVE FALSE
    <2>1. DeferringAt(i, h)
      BY <1>2, DeferredHere DEF IInv
    <2>2. CASE i # 0
      BY <2>1, <2>2, LoadedState DEF DeferringAt, IInv
    <2>3. CASE i = 0
      <3>1. BoundUpTo(h) /\ (head # None /\ head.pend = None => head.stage # 0) /\ ~ledger[0].done
        BY <2>1, <2>3 DEF DeferringAt, OpeningAt
      <3>2. st = Rebuilt
        BY <1>1, <2>3, <3>1, LoadedState DEF IInv
      <3>3. st.step \in Steps /\ st.step > 0 /\ bound[st.step - 1].out = "stop"
            /\ \A j \in Steps : bound[j] # None <=> j < st.step
        BY <3>1, <3>2, RebuiltState DEF IInv
      <3>4. st.step - 1 \in Steps /\ h \in Nat /\ st.step \in Nat /\ bound[st.step - 1] # None
        BY <3>3, StepsFacts DEF Steps
      <3>5. st.step - 1 = h
        BY <3>1, <3>3, <3>4 DEF BoundUpTo
      <3>6. Placeholder(bound[h])
        BY <1>2, <3>4, <3>5 DEF IInv, StoreInv, BoundInv
      <3> QED
        BY <3>3, <3>5, <3>6 DEF Placeholder
    <2> QED
      BY <2>2, <2>3
  <1>3. Persist(st) \o BindMember(st) \in Seq(EndOps(st))
    <2>1. Persist(st) \in Seq(EndOps(st))
      BY PersistPlan DEF EndOps
    <2>2. BindMember(st) \in Seq(EndOps(st))
      BY Single DEF EndOps, BindMember
    <2> QED
      BY <2>1, <2>2, ConcatProperties
  <1>4. SettledInv(st)
    BY <1>1 DEF SettledInv
  <1>5. Ending(Persist(st) \o BindMember(st))
    BY <1>1, <1>2, <1>3, <1>4 DEF Ending, NothingDeferred
  <1> QED
    BY <1>5 DEF TodoInv

\* The opening stage resumes from its parked head.
LEMMA ResumePlan ==
    ASSUME IInv, NEW i \in DOMAIN ledger, ledger[i].kind = "optim_step", ~ledger[i].done,
           NEW st, st = LoadWorkState(ledger[i].input), st.pend # None
    PROVE  TodoInv(i, Persist(st) \o EvictIntents(st.step)) /\ SuccessorsInv(FanOut(st))
  <1>1. StateInv(st) /\ st \in WorkState
    BY LoadedState DEF IInv, StateInv
  <1>2. i = 0 /\ st = head /\ head # None
    BY LoadedState, RebuiltState DEF IInv
  <1>3. OthersNotDeferred(st.step)
    <2>1. ASSUME NEW h \in Steps, deferred[h] # None PROVE h = st.step
      <3>1. DeferringAt(i, h)
        BY <2>1, DeferredHere DEF IInv
      <3> QED
        BY <1>2, <3>1 DEF DeferringAt, OpeningAt
    <2> QED
      BY <2>1 DEF OthersNotDeferred
  <1> DEFINE S == HeadOps(st) \cup {[op |-> "evictIntents", step |-> st.step]}
  <1>4. Persist(st) \in Seq(S)
    BY PersistPlan
  <1>5. /\ Persist(st) \o EvictIntents(st.step) \in Seq(S)
        /\ EndsWithEviction(Persist(st) \o EvictIntents(st.step), st.step)
    <2>1. [op |-> "evictIntents", step |-> st.step] \in S
      OBVIOUS
    <2> HIDE DEF S
    <2> QED
      BY <1>4, <2>1, EvictionLast
  <1>6. Resuming(i, Persist(st) \o EvictIntents(st.step))
    BY <1>1, <1>2, <1>3, <1>5 DEF Resuming
  <1> QED
    BY <1>1, <1>6, FanOutSuccessors DEF TodoInv

\* The writes that park a member on the intents of res.
ParkPlan(todo, k, res, p) ==
    todo \o BindIntents(k, res.req) \o Persist(p) \o EvictResult(k) \o EvictIntents(k)

\* A prefix of such a plan: a checkpoint comes first, if at all.
LEMMA ParkPlanInv ==
    ASSUME NEW i, NEW k \in Steps, NEW res \in Result, NEW p \in WorkState,
           DeferringAt(i, k), ResultAt(res, k), Placeholder(res), res.req = RequestAt(i, k), k < MaxSteps,
           StateInv(p), p.pend # None, p.step = k,
           NEW todo \in Seq(ParkOps(k, res, p)),
           \A n \in 2 .. Len(todo) : todo[n].op # "checkpoint",
           \/ todo # << >> /\ todo[1].op = "checkpoint"
           \/ todo = << >> /\ res.req \in DOMAIN checkpoint /\ checkpoint[res.req] = "defer",
           deferred[k] \in {None, res.req}, OthersNotDeferred(k), bound[k] \in {None, res}
    PROVE  Parking(i, ParkPlan(todo, k, res, p))
  <1> DEFINE S == ParkOps(k, res, p)
             t1 == todo \o BindIntents(k, res.req)
             t2 == t1 \o Persist(p)
             t3 == t2 \o EvictResult(k)
             t4 == t3 \o EvictIntents(k)
             Later(t) == \A n \in 1 .. Len(t) : n # 1 \/ todo = << >> => t[n].op # "checkpoint"
             First(t) == todo # << >> => t # << >> /\ t[1] = todo[1]
  <1>0. Len(todo) \in Nat /\ (todo # << >> => Len(todo) # 0) /\ Later(todo) /\ First(todo)
    BY DEF ParkPlan
  <1>1. t1 \in Seq(S) /\ Later(t1) /\ First(t1)
    <2> DEFINE e == [op |-> "bindIntents", step |-> k, to |-> res.req]
    <2>1. << e >> \in Seq(S) /\ Len(<< e >>) = 1 /\ << e >>[1] = e /\ t1 = todo \o << e >>
      BY Single DEF BindIntents, ParkOps
    <2>2. e.op = "bindIntents"
      OBVIOUS
    <2> HIDE DEF e, S
    <2>3. /\ todo \o << e >> \in Seq(S) /\ Len(todo \o << e >>) = Len(todo) + 1
          /\ \A n \in 1 .. Len(todo) + 1 : (todo \o << e >>)[n] =
                     IF n <= Len(todo) THEN todo[n] ELSE << e >>[n - Len(todo)]
      BY <2>1, ConcatProperties DEF S
    <2>4. \A n \in 1 .. Len(todo) + 1 : n <= Len(todo) \/ n - Len(todo) = 1
      BY <1>0
    <2> QED
      BY <1>0, <2>1, <2>2, <2>3, <2>4
  <1> HIDE DEF t1, S
  <1>2. t2 \in Seq(S) /\ Later(t2) /\ First(t2)
    <2>1. /\ Persist(p) \in Seq(S) /\ Len(Persist(p)) = 2
          /\ Persist(p)[1].op = "evictHead" /\ Persist(p)[2].op = "bindHead"
      <3>1. Persist(p)[1] = [op |-> "evictHead"] /\ Persist(p)[2] = [op |-> "bindHead", to |-> p]
        BY DEF Persist
      <3> QED
        BY <3>1, PersistPlan DEF ParkOps, S
    <2>2. /\ t2 \in Seq(S) /\ Len(t2) = Len(t1) + 2 /\ Len(t1) \in Nat
          /\ \A n \in 1 .. Len(t1) + 2 : t2[n] =
                     IF n <= Len(t1) THEN t1[n] ELSE Persist(p)[n - Len(t1)]
      <3>1. PICK q \in Seq(S) : q = Persist(p) /\ Len(q) = 2
        BY <2>1
      <3>2. /\ t1 \o q \in Seq(S) /\ Len(t1 \o q) = Len(t1) + Len(q)
            /\ \A n \in 1 .. Len(t1) + Len(q) : (t1 \o q)[n] = IF n <= Len(t1) THEN t1[n] ELSE q[n - Len(t1)]
        BY <1>1, ConcatProperties
      <3>3. Len(t1) \in Nat
        BY <1>1
      <3> QED
        BY <3>1, <3>2, <3>3
    <2>3. \A n \in 1 .. Len(t1) + 2 : n <= Len(t1) \/ n - Len(t1) = 1 \/ n - Len(t1) = 2
      BY <2>2
    <2> HIDE DEF t2
    <2>4. Later(t2)
      <3> SUFFICES ASSUME NEW n \in 1 .. Len(t1) + 2, n # 1 \/ todo = << >>
                   PROVE  t2[n].op # "checkpoint"
        BY <2>2
      <3>1. CASE n <= Len(t1)
        <4>1. t2[n] = t1[n] /\ n \in 1 .. Len(t1)
          BY <2>2, <3>1
        <4> QED
          BY <1>1, <4>1
      <3>2. CASE ~(n <= Len(t1))
        <4>1. t2[n] = Persist(p)[n - Len(t1)]
          BY <2>2, <3>2
        <4>2. n - Len(t1) = 1 \/ n - Len(t1) = 2
          BY <2>3, <3>2
        <4> QED
          BY <2>1, <4>1, <4>2
      <3> QED
        BY <3>1, <3>2
    <2>5. First(t2)
      BY <1>1, <2>2
    <2> QED
      BY <2>2, <2>4, <2>5
  <1> HIDE DEF t2
  <1>3. t3 \in Seq(S) /\ Later(t3) /\ First(t3)
    <2> DEFINE e == [op |-> "evictResult", step |-> k]
    <2>1. << e >> \in Seq(S) /\ Len(<< e >>) = 1 /\ << e >>[1] = e /\ t3 = t2 \o << e >>
      BY Single DEF EvictResult, ParkOps, S
    <2>2. e.op = "evictResult"
      OBVIOUS
    <2> HIDE DEF e, t3
    <2>3. /\ t3 \in Seq(S) /\ Len(t3) = Len(t2) + 1 /\ Len(t2) \in Nat
          /\ \A n \in 1 .. Len(t2) + 1 : t3[n] =
                     IF n <= Len(t2) THEN t2[n] ELSE << e >>[n - Len(t2)]
      BY <1>2, <2>1, ConcatProperties
    <2>4. \A n \in 1 .. Len(t2) + 1 : n <= Len(t2) \/ n - Len(t2) = 1
      BY <2>3
    <2>5. Later(t3)
      BY <1>2, <2>1, <2>2, <2>3, <2>4
    <2>6. First(t3)
      BY <1>2, <2>3
    <2> QED
      BY <2>3, <2>5, <2>6
  <1> HIDE DEF t3
  <1>4. t4 \in Seq(S) /\ Later(t4) /\ First(t4) /\ EndsWithEviction(t4, k) /\ Len(t4) \in Nat
    <2>1. [op |-> "evictIntents", step |-> k] \in S
      BY DEF ParkOps, S
    <2>2. /\ t4 \in Seq(S) /\ EndsWithEviction(t4, k) /\ Len(t4) = Len(t3) + 1 /\ Len(t3) \in Nat
          /\ \A n \in 1 .. Len(t3) : t4[n] = t3[n]
          /\ t4[Len(t3) + 1] = [op |-> "evictIntents", step |-> k]
      BY <1>3, <2>1, EvictionLast
    <2>3. t4[Len(t3) + 1].op = "evictIntents"
      BY <2>2
    <2>4. \A n \in 1 .. Len(t3) + 1 : n \in 1 .. Len(t3) \/ n = Len(t3) + 1
      BY <2>2
    <2> HIDE DEF t4
    <2>5. Later(t4)
      BY <1>3, <2>2, <2>3, <2>4
    <2>6. First(t4)
      BY <1>3, <2>2
    <2> QED
      BY <2>2, <2>5, <2>6
  <1>5. t4 = ParkPlan(todo, k, res, p)
    BY DEF ParkPlan, t1, t2, t3
  <1> HIDE DEF t4
  <1>6. \A n \in 2 .. Len(t4) : t4[n].op # "checkpoint"
    BY <1>4
  <1>7. \/ t4 # << >> /\ t4[1].op = "checkpoint"
        \/ res.req \in DOMAIN checkpoint /\ checkpoint[res.req] = "defer"
    BY <1>4
  <1>8. ParkInv(i, t4, k, res, p)
    BY <1>4, <1>6, <1>7 DEF ParkInv, S
  <1> QED
    BY <1>5, <1>8 DEF Parking

\* A stage that parks the member.
LEMMA DeferPlan ==
    ASSUME IInv, UNCHANGED <<adapter, store, ledger, completed, environment>>,
           NEW i \in DOMAIN ledger, ledger[i].kind = "optim_step", ~ledger[i].done,
           NEW k \in Steps, NEW refs \in Seq(Result), k <= Len(refs), NEW res \in Result,
           DeferringAt(i, k), ResultAt(res, k), Placeholder(res), res.req = RequestAt(i, k), k < MaxSteps,
           NEW todo, \A p \in WorkState : todo \in Seq(ParkOps(k, res, p)),
           \A n \in 2 .. Len(todo) : todo[n].op # "checkpoint",
           \/ todo # << >> /\ todo[1].op = "checkpoint"
           \/ todo = << >> /\ res.req \in DOMAIN checkpoint /\ checkpoint[res.req] = "defer",
           deferred[k] \in {None, res.req}, OthersNotDeferred(k), bound[k] \in {None, res},
           Defer(i, todo, k, refs, res, res.req)
    PROVE  IInv'
  <1>1. PICK p \in WorkState : /\ p = Parked(i, k, refs, res, res.req)
                               /\ StateInv(p) /\ p.pend # None /\ p.step = k
    <2>1. i \in Nat
      BY DEF IInv, StoreInv, TypeOK
    <2> QED
      BY <2>1, ParkedState
  <1>2. Run(i, ParkPlan(todo, k, res, p), FanOut(p))
    BY <1>1 DEF Defer, ParkPlan
  <1>3. todo \in Seq(ParkOps(k, res, p))
    BY <1>1
  <1>4. Parking(i, ParkPlan(todo, k, res, p))
    BY <1>1, <1>3, ParkPlanInv
  <1>5. TodoInv(i, ParkPlan(todo, k, res, p))
    BY <1>4 DEF TodoInv
  <1>6. SuccessorsInv(FanOut(p))
    BY <1>1, FanOutSuccessors
  <1>7. replays' \in 0 .. MaxReplays /\ UNCHANGED crashes
    BY DEF IInv, StoreInv, TypeOK, environment
  <1> QED
    BY <1>2, <1>5, <1>6, <1>7, RunInvariant

\* _recover_crash_window_deferral parks on the placeholder and the intents it finds bound.
LEMMA RecoverInvariant ==
    ASSUME IInv, UNCHANGED <<adapter, store, ledger, completed, environment>>,
           NEW i \in DOMAIN ledger, ledger[i].kind = "optim_step", ~ledger[i].done,
           NEW st, st = LoadWorkState(ledger[i].input), StepRecover(i, st)
    PROVE  IInv'
  <1>1. StateInv(st) /\ st.refs \in Seq(Result) /\ Len(st.refs) = st.step /\ st.step \in Steps
    BY LoadedState DEF IInv, StateInv, WorkState
  <1>2. PICK k \in Steps : /\ k = RecoveryStep(st) /\ k <= st.step
                           /\ Unresolved(bound[k]) /\ deferred[k] # None
    <2>1. PICK k \in {st.step} \cup ({st.step - 1} \cap Nat) :
            k = RecoveryStep(st) /\ Unresolved(bound[k]) /\ deferred[k] # None
      BY DEF StepRecover, UnresolvedDeferrals, RecoveryStep
    <2>2. k \in Steps /\ k <= st.step
      BY <1>1, <2>1, StepsFacts DEF Steps
    <2> QED
      BY <2>1, <2>2
  <1>3. PICK res \in Result : res = bound[k]
    BY <1>2 DEF Unresolved, IInv, StoreInv, TypeOK
  <1>4. /\ ResultAt(res, k) /\ Placeholder(res) /\ deferred[k] = res.req /\ res.req \in DOMAIN checkpoint
        /\ checkpoint[res.req] = "defer" /\ DeferringAt(i, k) /\ res.req = RequestAt(i, k)
    <2>1. res # None
      BY ConstantsAssumption
    <2>2. ResultAt(res, k) /\ Placeholder(res) /\ deferred[k] = res.req
      BY <1>2, <1>3, <2>1 DEF IInv, StoreInv, BoundInv
    <2> QED
      BY <1>2, <2>2, DeferredHere DEF IInv
  <1>5. k < MaxSteps /\ OthersNotDeferred(k)
    <2>1. k < MaxSteps
      BY <1>4, StepsFacts DEF ResultAt, Placeholder
    <2> QED
      BY <1>2, <2>1 DEF IInv, StoreInv, DeferredInv, OthersNotDeferred
  <1>6. Defer(i, << >>, k, st.refs, res, res.req)
    BY <1>2, <1>3, <1>4 DEF StepRecover
  <1>7. \A p \in WorkState : << >> \in Seq(ParkOps(k, res, p))
    OBVIOUS
  <1>8. \A n \in 2 .. Len(<< >>) : << >>[n].op # "checkpoint"
    OBVIOUS
  <1> QED
    BY <1>1, <1>2, <1>3, <1>4, <1>5, <1>6, <1>7, <1>8, DeferPlan

\* A stage that advances the member.
LEMMA AdvancePlan ==
    ASSUME IInv, UNCHANGED <<adapter, store, ledger, completed, environment>>,
           NEW i \in DOMAIN ledger, ledger[i].kind = "optim_step", ~ledger[i].done,
           NEW k \in Steps, NEW refs \in Seq(Result), k = Len(refs), k < MaxSteps,
           NEW res \in Result, ResultAt(res, k), NothingDeferred, i = 0 => BoundUpTo(k),
           NEW todo, \A s \in WorkState : todo \in Seq(AdvanceOps(k, res, s)),
           NEW s, s = Settled(i + 1, k + 1, Append(refs, res), res.out = "stop"),
           Run(i, todo \o BindResult(k, res) \o Persist(s) \o (IF s.terminal THEN BindMember(s) ELSE << >>),
               IF s.terminal THEN << >> ELSE NextStep(s))
    PROVE  IInv'
  <1>1. i \in Nat
    BY DEF IInv, StoreInv, TypeOK
  <1>2. s \in WorkState /\ StateInv(s) /\ s.pend = None /\ s.stage = i + 1 /\ s.stage # 0
    <2>1. Append(refs, res) \in Seq(Result) /\ Len(Append(refs, res)) = k + 1 /\ k + 1 \in Steps
      BY StepsFacts
    <2>2. (res.out = "stop") \in BOOLEAN /\ (~(res.out = "stop") => k + 1 < MaxSteps)
      BY DEF ResultAt
    <2>3. i + 1 \in Nat /\ i + 1 # 0
      BY <1>1
    <2>4. PICK n \in Nat, m \in Steps, past \in Seq(Result), terminal \in BOOLEAN :
            /\ n = i + 1 /\ m = k + 1 /\ past = Append(refs, res) /\ terminal = (res.out = "stop")
            /\ Len(past) = m /\ (~terminal => m < MaxSteps) /\ n # 0
      BY <2>1, <2>2, <2>3
    <2>5. s = Settled(n, m, past, terminal)
      BY <2>4
    <2>6. s \in WorkState
      BY <2>4, <2>5 DEF Settled, WorkState
    <2>7. s.pend = None /\ s.stage = n /\ s.step = m /\ s.terminal = terminal
      BY <2>5 DEF Settled
    <2>8. StateInv(s)
      BY <2>4, <2>6, <2>7 DEF StateInv
    <2> QED
      BY <2>4, <2>6, <2>7, <2>8
  <1> DEFINE S == AdvanceOps(k, res, s)
             end == IF s.terminal THEN BindMember(s) ELSE << >>
             plan == todo \o BindResult(k, res) \o Persist(s) \o end
             successors == IF s.terminal THEN << >> ELSE NextStep(s)
  <1>3. plan \in Seq(S)
    <2>1. BindResult(k, res) \in Seq(S)
      <3>1. [op |-> "bindResult", step |-> k, to |-> res] \in S
        BY DEF AdvanceOps
      <3> HIDE DEF S
      <3> QED
        BY <3>1, Single DEF BindResult
    <2>2. Persist(s) \in Seq(S)
      BY PersistPlan DEF AdvanceOps, EndOps
    <2>3. BindMember(s) \in Seq(S) /\ << >> \in Seq(S)
      <3>1. [op |-> "bindMember", to |-> s] \in S
        BY DEF AdvanceOps, EndOps
      <3> HIDE DEF S
      <3> QED
        BY <3>1, Single DEF BindMember
    <2>4. end \in Seq(S)
      BY <2>3
    <2>5. todo \in Seq(S)
      BY <1>2
    <2> HIDE DEF S, end
    <2>6. todo \o BindResult(k, res) \in Seq(S)
      BY <2>1, <2>5, ConcatProperties
    <2>7. todo \o BindResult(k, res) \o Persist(s) \in Seq(S)
      BY <2>2, <2>6, ConcatProperties
    <2> QED
      BY <2>4, <2>7, ConcatProperties
  <1>4. SuccessorsInv(successors)
    BY <1>2, NoSuccessors, NextStepSuccessors
  <1>5. Run(i, plan, successors)
    OBVIOUS
  <1> HIDE DEF plan, successors
  <1>6. Advancing(i, plan)
    BY <1>2, <1>3 DEF Advancing, SettledInv
  <1>7. TodoInv(i, plan)
    BY <1>6 DEF TodoInv
  <1>8. replays' \in 0 .. MaxReplays /\ UNCHANGED crashes
    BY DEF IInv, StoreInv, TypeOK, environment
  <1> QED
    BY <1>4, <1>5, <1>7, <1>8, RunInvariant

\* run_step found its result bound: the member advances.
LEMMA BoundInvariant ==
    ASSUME IInv, UNCHANGED <<adapter, store, ledger, completed, environment>>,
           NEW i \in DOMAIN ledger, ledger[i].kind = "optim_step", ~ledger[i].done,
           NEW st, st = LoadWorkState(ledger[i].input), ~st.terminal, st.pend = None,
           UnresolvedDeferrals(st) = {}, StepBound(i, st)
    PROVE  IInv'
  <1>1. /\ StateInv(st) /\ st.refs \in Seq(Result) /\ Len(st.refs) = st.step /\ st.step \in Steps
        /\ st.step < MaxSteps
    BY LoadedState DEF IInv, StateInv, WorkState
  <1>2. PICK k \in Steps : k = st.step
    BY <1>1
  <1>3. PICK res \in Result : res = bound[k]
    BY <1>2 DEF StepBound, IInv, StoreInv, TypeOK
  <1>4. ResultAt(res, k) /\ res # None
    BY <1>3, ConstantsAssumption DEF IInv, StoreInv, BoundInv
  <1>5. NothingDeferred
    BY <1>2, <1>3, <1>4, DeferredAtStep DEF NothingDeferred, IInv
  <1>6. i = 0 => BoundUpTo(k)
    <2>1. SUFFICES ASSUME i = 0 PROVE FALSE
      OBVIOUS
    <2>2. ~ledger[0].done /\ (st = Rebuilt \/ (st = head /\ head # None /\ head.stage = 0))
      BY <2>1, LoadedState DEF IInv
    <2>3. CASE st = Rebuilt
      <3>1. bound[k] # None <=> k < k
        BY <1>2, <2>2, <2>3, RebuiltState DEF IInv
      <3> QED
        BY <1>3, <1>4, <3>1, StepsFacts
    <2>4. CASE st = head /\ head # None /\ head.stage = 0
      BY <2>2, <2>4 DEF IInv, StoreInv, OpeningInv
    <2> QED
      BY <2>2, <2>3, <2>4
  <1>7. AfterRunStep(i, st, << >>, res, None)
    BY <1>2, <1>3, <1>5 DEF StepBound, NothingDeferred
  <1>8. PICK s : s = Settled(i + 1, k + 1, Append(st.refs, res), res.out = "stop")
    OBVIOUS
  <1>9. Run(i, << >> \o BindResult(k, res) \o Persist(s) \o (IF s.terminal THEN BindMember(s) ELSE << >>),
               IF s.terminal THEN << >> ELSE NextStep(s))
    BY <1>2, <1>7, <1>8 DEF AfterRunStep
  <1>10. \A q \in WorkState : << >> \in Seq(AdvanceOps(k, res, q))
    OBVIOUS
  <1> QED
    BY <1>1, <1>2, <1>4, <1>5, <1>6, <1>8, <1>9, <1>10, AdvancePlan

\* run_step invokes the adapter.
LEMMA InvokeInvariant ==
    ASSUME IInv, UNCHANGED <<adapter, store, ledger, completed, environment>>,
           NEW i \in DOMAIN ledger, ledger[i].kind = "optim_step", ~ledger[i].done,
           NEW st, st = LoadWorkState(ledger[i].input), ~st.terminal, st.pend = None,
           UnresolvedDeferrals(st) = {}, StepInvoke(i, st)
    PROVE  IInv'
  <1>1. /\ StateInv(st) /\ st.refs \in Seq(Result) /\ Len(st.refs) = st.step /\ st.step \in Steps
        /\ st.step < MaxSteps
    BY LoadedState DEF IInv, StateInv, WorkState
  <1>2. PICK k \in Steps, refs \in Seq(Result) :
            k = st.step /\ refs = st.refs /\ k = Len(refs) /\ k < MaxSteps /\ k \in Nat
    BY <1>1, StepsFacts
  <1>3. PICK req \in Request : req = RequestAt(i, k) /\ req = RequestOf(i, st) /\ req.step = k
    <2>1. i \in Nat
      BY DEF IInv, StoreInv, TypeOK
    <2>2. RequestAt(i, k) \in Request /\ RequestAt(i, k).step = k
      BY <2>1 DEF RequestAt, Request
    <2> QED
      BY <1>2, <2>2 DEF RequestAt, RequestOf
  <1>4. bound[k] = None
    BY <1>2 DEF StepInvoke
  <1>5. PICK out \in Answers(i, req) :
            LET res == [req |-> req, out |-> out, resolved |-> FALSE]
            IN  AfterRunStep(i, st,
                    << [op |-> "checkpoint", req |-> req, to |-> out] >>
                      \o (IF out = "defer" THEN BindIntents(k, req) ELSE << >>)
                      \o BindResult(k, res),
                    res, IF out = "defer" THEN req ELSE deferred[k])
    BY <1>2, <1>3 DEF StepInvoke
  <1>6. out \in Output /\ (out # "stop" => k + 1 < MaxSteps)
        /\ (req \in DOMAIN checkpoint => out = checkpoint[req])
    <2>1. CASE req \in DOMAIN checkpoint
      BY <1>3, <1>5, <2>1 DEF Answers, IInv, StoreInv, TypeOK, CheckpointInv
    <2>2. CASE req \notin DOMAIN checkpoint
      <3>1. out \in Output /\ (out # "stop" => ~(req.step + 1 = MaxSteps))
        BY <1>5, <2>2 DEF Answers
      <3> QED
        BY <1>2, <1>3, <2>2, <3>1, StepsFacts
    <2> QED
      BY <2>1, <2>2
  <1>7. PICK res \in Result : /\ res = [req |-> req, out |-> out, resolved |-> FALSE]
                              /\ res.req = req /\ res.out = out /\ res.resolved = FALSE
    <2>1. [req |-> req, out |-> out, resolved |-> FALSE] \in Result
      BY <1>6 DEF Result
    <2> QED
      BY <2>1
  <1>8. ResultAt(res, k)
    BY <1>3, <1>6, <1>7 DEF ResultAt
  <1>9. \A h \in Steps : deferred[h] # None => h = k /\ deferred[h] = req /\ out = "defer"
    <2>1. ASSUME NEW h \in Steps, deferred[h] # None PROVE h = k /\ deferred[h] = req /\ out = "defer"
      <3>1. h = k
        BY <1>2, <2>1, DeferredAtStep DEF IInv
      <3>2. deferred[h] = req /\ req \in DOMAIN checkpoint /\ checkpoint[req] = "defer"
        BY <1>3, <2>1, <3>1, DeferredHere DEF IInv
      <3> QED
        BY <1>6, <3>1, <3>2
    <2> QED
      BY <2>1
  <1>10. i = 0 => OpeningAt(k)
    <2>1. SUFFICES ASSUME i = 0 PROVE OpeningAt(k)
      OBVIOUS
    <2>2. ~ledger[0].done /\ (\/ st = head /\ head # None /\ head.stage = 0
                              \/ st = Rebuilt /\ (head # None => head.pend = None /\ head.stage # 0))
      BY <2>1, LoadedState DEF IInv
    <2>3. st = Rebuilt /\ (head # None => head.pend = None /\ head.stage # 0)
      BY <2>2 DEF IInv, StoreInv, OpeningInv
    <2>4. /\ \A j \in Steps : /\ bound[j] # None <=> j < k
                              /\ j + 1 < k => bound[j].out # "stop"
          /\ k > 0 => bound[k - 1].out # "stop"
      BY <1>2, <2>2, <2>3, RebuiltState DEF IInv
    <2>5. \A j \in Steps : j \in Nat /\ (j < k => j + 1 < k \/ (k > 0 /\ j = k - 1))
      BY <1>2, StepsFacts
    <2>6. BoundUpTo(k)
      <3>1. ASSUME NEW j \in Steps, j < k PROVE bound[j] # None /\ bound[j].out # "stop"
        BY <2>4, <2>5, <3>1
      <3>2. ASSUME NEW j \in Steps, j > k PROVE bound[j] = None
        BY <1>2, <2>4, <2>5, <3>2
      <3> QED
        BY <3>1, <3>2 DEF BoundUpTo
    <2> QED
      BY <2>3, <2>6 DEF OpeningAt
  <1>11. DeferringAt(i, k)
    BY <1>2, <1>10, LoadedState DEF DeferringAt, IInv
  <1> DEFINE c == [op |-> "checkpoint", req |-> req, to |-> out]
             b == [op |-> "bindIntents", step |-> k, to |-> req]
             d == [op |-> "bindResult", step |-> k, to |-> res]
  <1>12. CASE out = "defer"
    <2> DEFINE todo == << c >> \o << b >> \o << d >>
    <2>1. Placeholder(res) /\ Unresolved(res) /\ req # None
      <3>1. res # None /\ req # None
        BY ConstantsAssumption
      <3> QED
        BY <1>7, <1>12, <3>1 DEF Placeholder, Unresolved
    <2>2. AfterRunStep(i, st, todo, res, req)
      BY <1>5, <1>7, <1>12 DEF BindIntents, BindResult
    <2>3. Defer(i, todo, k, refs, res, res.req)
      <3> HIDE DEF todo
      <3> QED
        BY <1>2, <1>7, <2>1, <2>2 DEF AfterRunStep
    <2>4. \A p \in WorkState : todo \in Seq(ParkOps(k, res, p))
      <3>1. TAKE p \in WorkState
      <3>2. c \in ParkOps(k, res, p) /\ b \in ParkOps(k, res, p) /\ d \in ParkOps(k, res, p)
        BY <1>7, <1>12 DEF ParkOps
      <3> HIDE DEF c, b, d
      <3>3. << c >> \in Seq(ParkOps(k, res, p)) /\ << b >> \in Seq(ParkOps(k, res, p))
            /\ << d >> \in Seq(ParkOps(k, res, p))
        BY <3>2, Single
      <3>4. << c >> \o << b >> \in Seq(ParkOps(k, res, p))
        BY <3>3, ConcatProperties
      <3> QED
        BY <3>3, <3>4, ConcatProperties
    <2>5. Len(todo) = 3 /\ todo[1] = c /\ todo[2] = b /\ todo[3] = d
      <3> HIDE DEF c, b, d
      <3> QED
        BY Triple
    <2>6. c.op = "checkpoint" /\ b.op = "bindIntents" /\ d.op = "bindResult"
      OBVIOUS
    <2> HIDE DEF todo, c, b, d
    <2>7. todo # << >> /\ todo[1].op = "checkpoint" /\ \A n \in 2 .. Len(todo) : todo[n].op # "checkpoint"
      <3>1. todo # << >>
        BY Triple DEF todo
      <3>2. \A n \in 2 .. Len(todo) : n = 2 \/ n = 3
        BY <2>5
      <3> QED
        BY <2>5, <2>6, <3>1, <3>2
    <2>8. deferred[k] \in {None, res.req} /\ OthersNotDeferred(k)
      BY <1>7, <1>9 DEF OthersNotDeferred
    <2>9. k <= Len(refs) /\ k < MaxSteps /\ res.req = RequestAt(i, k) /\ bound[k] \in {None, res}
      BY <1>2, <1>3, <1>4, <1>7
    <2> QED
      BY <1>8, <1>11, <2>1, <2>3, <2>4, <2>7, <2>8, <2>9, DeferPlan
  <1>13. CASE out # "defer"
    <2> DEFINE todo == << c >> \o << >> \o << d >>
    <2>1. NothingDeferred
      BY <1>9, <1>13 DEF NothingDeferred
    <2>2. AfterRunStep(i, st, todo, res, None)
      <3>1. deferred[k] = None
        BY <2>1 DEF NothingDeferred
      <3> QED
        BY <1>5, <1>7, <1>13, <3>1 DEF BindResult
    <2>3. \A s \in WorkState : todo \in Seq(AdvanceOps(k, res, s))
      <3>1. TAKE s \in WorkState
      <3>2. c \in AdvanceOps(k, res, s) /\ d \in AdvanceOps(k, res, s)
        BY <1>7 DEF AdvanceOps
      <3> HIDE DEF c, d
      <3>3. << c >> \in Seq(AdvanceOps(k, res, s)) /\ << >> \in Seq(AdvanceOps(k, res, s))
            /\ << d >> \in Seq(AdvanceOps(k, res, s))
        BY <3>2, Single
      <3>4. << c >> \o << >> \in Seq(AdvanceOps(k, res, s))
        BY <3>3, ConcatProperties
      <3> QED
        BY <3>3, <3>4, ConcatProperties
    <2> HIDE DEF todo
    <2>4. PICK s : s = Settled(i + 1, k + 1, Append(refs, res), res.out = "stop")
      OBVIOUS
    <2>5. Run(i, todo \o BindResult(k, res) \o Persist(s) \o (IF s.terminal THEN BindMember(s) ELSE << >>),
                 IF s.terminal THEN << >> ELSE NextStep(s))
      BY <1>2, <2>2, <2>4 DEF AfterRunStep
    <2>6. i = 0 => BoundUpTo(k)
      BY <1>10 DEF OpeningAt
    <2> QED
      BY <1>2, <1>8, <2>1, <2>3, <2>4, <2>5, <2>6, AdvancePlan
  <1> QED
    BY <1>12, <1>13

\* One attempt of a stage of the optimizer.
LEMMA OptimStepInvariant ==
    ASSUME IInv, UNCHANGED <<adapter, store, ledger, completed, environment>>,
           NEW i \in DOMAIN ledger, ledger[i].kind = "optim_step", ~ledger[i].done, OptimStep(i)
    PROVE  IInv'
  <1>1. PICK st : st = LoadWorkState(ledger[i].input)
    OBVIOUS
  <1>2. replays' \in 0 .. MaxReplays /\ UNCHANGED <<adapter, store, ledger, completed, crashes>>
    BY DEF IInv, StoreInv, TypeOK, environment
  <1>3. CASE Raise(i)
    BY <1>3, RaiseInvariant
  <1>4. CASE StepTerminal(i, st)
    BY <1>1, <1>2, <1>4, TerminalPlan, NoSuccessors, RunInvariant DEF StepTerminal
  <1>5. CASE StepResume(i, st)
    BY <1>1, <1>2, <1>5, ResumePlan, RunInvariant DEF StepResume
  <1>6. CASE StepRecover(i, st)
    BY <1>1, <1>6, RecoverInvariant
  <1>7. CASE ~st.terminal /\ st.pend = None /\ UnresolvedDeferrals(st) = {} /\ StepBound(i, st)
    BY <1>1, <1>7, BoundInvariant
  <1>8. CASE ~st.terminal /\ st.pend = None /\ UnresolvedDeferrals(st) = {} /\ StepInvoke(i, st)
    BY <1>1, <1>8, InvokeInvariant
  <1>9. CASE StepRefused(i, st)
    BY <1>3, <1>9 DEF StepRefused
  <1> QED
    BY <1>1, <1>3, <1>4, <1>5, <1>6, <1>7, <1>8, <1>9 DEF OptimStep

-----------------------------------------------------------------------------
(* The fan-in.                                                             *)

\* A fan-in plans to resolve its episode, remove the intents and settle in s; what is
\* bound in between is the merged result.
LEMMA FaninPlan ==
    ASSUME NEW ws \in WorkState, NEW s \in WorkState, SettledInv(s), s.stage # 0,
           NEW mid \in Seq({[op |-> "bindResult", step |-> ws.step, to |-> Merged(ws)]})
    PROVE  FanningIn(ws, Resolve(ws) \o EvictIntents(ws.step) \o mid \o Persist(s))
  <1> DEFINE S == FaninOps(ws, s)
             r == [op |-> "resolve", req |-> ws.intents]
             e == [op |-> "evictIntents", step |-> ws.step]
             M == {[op |-> "bindResult", step |-> ws.step, to |-> Merged(ws)]}
  <1>1. r \in S /\ e \in S /\ M \subseteq S /\ HeadOps(s) \subseteq S
    BY DEF FaninOps
  <1>2. r.op # "bindResult"
    OBVIOUS
  <1>3. PICK x, y, z : x = << r >> /\ y = << e >> /\ z = Persist(s)
    OBVIOUS
  <1>4. /\ x \in Seq(S) /\ Len(x) = 1 /\ x[1] = r /\ x = Resolve(ws)
        /\ y \in Seq(S) /\ Len(y) = 1 /\ y[1] = e /\ y = EvictIntents(ws.step)
    <2> HIDE DEF S
    <2>1. Resolve(ws) = << r >> /\ EvictIntents(ws.step) = << e >>
      BY DEF Resolve, EvictIntents
    <2> HIDE DEF r, e
    <2> QED
      BY <1>1, <1>3, <2>1, Single
  <1>5. z \in Seq(S)
    BY <1>1, <1>3, PersistPlan
  <1>6. mid \in Seq(S)
    <2> HIDE DEF S, M
    <2>1. mid \in Seq(M)
      BY DEF M
    <2> QED
      BY <1>1, <2>1, SeqMonotonic
  <1> HIDE DEF S, M
  <1>0. PICK t, u, v : t = x \o y /\ u = t \o mid /\ v = u \o z
    OBVIOUS
  <1>7. t \in Seq(S) /\ Len(t) = 2 /\ t[1] = r /\ t[2] = e
    <2> HIDE DEF r, e
    <2>0. x \in Seq(S) /\ Len(x) = 1 /\ y \in Seq(S) /\ Len(y) = 1
      BY <1>4
    <2>1. /\ x \o y \in Seq(S) /\ Len(x \o y) = Len(x) + Len(y)
          /\ \A n \in 1 .. Len(x) + Len(y) : (x \o y)[n] = IF n <= Len(x) THEN x[n] ELSE y[n - Len(x)]
      BY <2>0, ConcatProperties
    <2>2. (x \o y)[1] = r /\ (x \o y)[2] = e /\ Len(x \o y) = 2
      BY <1>4, <2>1
    <2> QED
      BY <1>0, <2>1, <2>2
  <1>8. u \in Seq(S) /\ Len(u) \in Nat /\ Len(u) >= 2 /\ u[1] = r /\ u[2] = e
    <2> HIDE DEF r, e
    <2>1. Len(mid) \in Nat
      BY <1>6, LenProperties
    <2>2. /\ t \o mid \in Seq(S) /\ Len(t \o mid) = Len(t) + Len(mid)
          /\ \A n \in 1 .. Len(t) + Len(mid) : (t \o mid)[n] = IF n <= Len(t) THEN t[n] ELSE mid[n - Len(t)]
      BY <1>6, <1>7, ConcatProperties
    <2>3. (t \o mid)[1] = r /\ (t \o mid)[2] = e /\ Len(t \o mid) \in Nat /\ Len(t \o mid) >= 2
      BY <1>7, <2>1, <2>2
    <2> QED
      BY <1>0, <2>2, <2>3
  <1>9. v \in Seq(S) /\ Len(v) \in Nat /\ v[1] = r /\ v[2] = e
    <2> HIDE DEF r, e
    <2>1. Len(z) \in Nat
      BY <1>5, LenProperties
    <2>2. /\ u \o z \in Seq(S) /\ Len(u \o z) = Len(u) + Len(z)
          /\ \A n \in 1 .. Len(u) + Len(z) : (u \o z)[n] = IF n <= Len(u) THEN u[n] ELSE z[n - Len(u)]
      BY <1>5, <1>8, ConcatProperties
    <2>3. (u \o z)[1] = r /\ (u \o z)[2] = e /\ Len(u \o z) \in Nat
      BY <1>8, <2>1, <2>2
    <2> QED
      BY <1>0, <2>2, <2>3
  <1>10. v = Resolve(ws) \o EvictIntents(ws.step) \o mid \o Persist(s)
    BY <1>0, <1>3, <1>4
  <1>11. \A n \in 1 .. Len(v) : v[n].op = "bindResult" => \E m \in 1 .. n - 1 : v[m] = e
    <2>1. ASSUME NEW n \in 1 .. Len(v), v[n].op = "bindResult" PROVE \E m \in 1 .. n - 1 : v[m] = e
      <3> HIDE DEF r, e
      <3>1. n # 1
        BY <1>2, <1>9, <2>1
      <3>2. CASE n = 2
        <4>1. e.op = "bindResult"
          BY <1>9, <2>1, <3>2
        <4> QED
          BY <4>1 DEF e
      <3>3. CASE n > 2
        <4>1. 2 \in 1 .. n - 1
          BY <1>9, <2>1, <3>3
        <4> QED
          BY <1>9, <4>1
      <3> QED
        BY <1>9, <2>1, <3>1, <3>2, <3>3
    <2> QED
      BY <2>1
  <1>12. \E s0 \in WorkState : SettledInv(s0) /\ s0.stage # 0 /\ v \in Seq(FaninOps(ws, s0))
    BY <1>9 DEF S
  <1>13. FanningIn(ws, v)
    BY <1>11, <1>12 DEF FanningIn
  <1> QED
    BY <1>10, <1>13

\* One attempt of a fan-in, first or repeated.
LEMMA FaninInvariant ==
    ASSUME IInv, UNCHANGED <<adapter, store, ledger, completed, crashes>>, replays' \in 0 .. MaxReplays,
           NEW i \in DOMAIN ledger, ledger[i].kind = "eval_fanin", EvalFanin(i)
    PROVE  IInv'
  <1>1. PICK ws \in WorkState : ws = ledger[i].input /\ StateInv(ws) /\ ws.pend # None
    BY DEF IInv, StoreInv, LedgerInv, StageInv, StateInv
  <1>2. /\ ws.stage \in Nat /\ ws.step \in Steps /\ ws.refs \in Seq(Result) /\ Len(ws.refs) = ws.step
        /\ ws.step \in Nat /\ ws.step + 1 < MaxSteps /\ Merged(ws) \in Result
    BY <1>1, MergedResult, StepsFacts DEF WorkState
  <1>3. SubSeq(ws.refs, 1, ws.step) \in Seq(Result) /\ Len(SubSeq(ws.refs, 1, ws.step)) = ws.step
    <2>1. PICK refs \in Seq(Result), k \in Nat : refs = ws.refs /\ k = ws.step /\ Len(refs) = k
      BY <1>2
    <2>2. SubSeq(refs, 1, k) = refs
      BY <2>1, SubSeqFull
    <2> QED
      BY <2>1, <2>2
  <1>4. ASSUME NEW todo, FanningIn(ws, todo), NEW successors, SuccessorsInv(successors), Run(i, todo, successors)
        PROVE  IInv'
    BY <1>1, <1>4, RunInvariant DEF TodoInv
  <1>5. ASSUME NEW s, NEW step \in Steps, NEW refs \in Seq(Result), Len(refs) = step, NEW terminal \in BOOLEAN,
               ~terminal => step < MaxSteps, s = Settled(ws.stage + 1, step, refs, terminal)
        PROVE  s \in WorkState /\ StateInv(s) /\ s.pend = None /\ SettledInv(s) /\ s.stage # 0
    <2>1. s \in WorkState
      BY <1>2, <1>5 DEF Settled, WorkState
    <2>2. s.pend = None /\ s.stage = ws.stage + 1 /\ s.step = step /\ s.terminal = terminal
      BY <1>5 DEF Settled
    <2>3. StateInv(s)
      BY <1>5, <2>1, <2>2 DEF StateInv
    <2>4. s.stage # 0
      BY <1>2, <2>2
    <2> QED
      BY <2>1, <2>2, <2>3, <2>4 DEF SettledInv
  <1>6. ASSUME NEW s, s = Settled(ws.stage + 1, ws.step, SubSeq(ws.refs, 1, ws.step), FALSE)
        PROVE  s \in WorkState /\ StateInv(s) /\ s.pend = None /\ SettledInv(s) /\ s.stage # 0
    <2>0. ws.step < MaxSteps
      BY <1>2, StepsFacts
    <2>1. PICK k \in Steps, refs \in Seq(Result) :
            k = ws.step /\ refs = SubSeq(ws.refs, 1, ws.step) /\ Len(refs) = k /\ k < MaxSteps
      <3>1. PICK refs : refs = SubSeq(ws.refs, 1, ws.step)
        OBVIOUS
      <3>2. refs \in Seq(Result) /\ Len(refs) = ws.step /\ ws.step \in Steps
        BY <1>2, <1>3, <3>1
      <3> QED
        BY <2>0, <3>1, <3>2
    <2>2. PICK terminal \in BOOLEAN : terminal = FALSE
      OBVIOUS
    <2>3. s = Settled(ws.stage + 1, k, refs, terminal)
      BY <1>6, <2>1, <2>2 DEF Settled
    <2>4. Len(refs) = k /\ k < MaxSteps
      BY <2>1
    <2> QED
      BY <1>5, <2>3, <2>4
  <1>7. CASE FaninStale(i, ws)
    <2>1. PICK s : s = Settled(ws.stage + 1, ws.step, SubSeq(ws.refs, 1, ws.step), FALSE)
      OBVIOUS
    <2>2. Resolve(ws) \in Seq(FaninOps(ws, s))
      <3>1. [op |-> "resolve", req |-> ws.intents] \in FaninOps(ws, s)
        BY DEF FaninOps
      <3> QED
        BY <3>1, Single DEF Resolve
    <2>3. \A n \in 1 .. Len(Resolve(ws)) : Resolve(ws)[n].op # "bindResult"
      BY DEF Resolve
    <2>4. FanningIn(ws, Resolve(ws))
      BY <1>6, <2>1, <2>2, <2>3 DEF FanningIn
    <2> QED
      BY <1>4, <1>7, <2>4, NoSuccessors DEF FaninStale
  <1>8. ASSUME NEW s \in WorkState, StateInv(s), s.pend = None, SettledInv(s), s.stage # 0,
               Run(i, Resolve(ws) \o EvictIntents(ws.step) \o Persist(s), NextStep(s))
        PROVE  IInv'
    <2>1. FanningIn(ws, Resolve(ws) \o EvictIntents(ws.step) \o << >> \o Persist(s))
      <3>1. << >> \in Seq({[op |-> "bindResult", step |-> ws.step, to |-> Merged(ws)]})
        OBVIOUS
      <3> QED
        BY <1>8, <3>1, FaninPlan
    <2>2. Resolve(ws) \o EvictIntents(ws.step) \o << >> = Resolve(ws) \o EvictIntents(ws.step)
      <3> DEFINE r == [op |-> "resolve", req |-> ws.intents]
                 e == [op |-> "evictIntents", step |-> ws.step]
                 S == {r, e}
      <3>1. Resolve(ws) = << r >> /\ EvictIntents(ws.step) = << e >> /\ r \in S /\ e \in S
        BY DEF Resolve, EvictIntents
      <3> HIDE DEF r, e, S
      <3>2. Resolve(ws) \in Seq(S) /\ EvictIntents(ws.step) \in Seq(S)
        BY <3>1, Single
      <3>3. Resolve(ws) \o EvictIntents(ws.step) \in Seq(S)
        BY <3>2, ConcatProperties
      <3> QED
        BY <3>3, ConcatEmptySeq
    <2>3. FanningIn(ws, Resolve(ws) \o EvictIntents(ws.step) \o Persist(s))
      BY <2>1, <2>2
    <2> QED
      BY <1>4, <1>8, <2>3, NextStepSuccessors
  <1>9. CASE FaninResume(i, ws)
    <2>1. CASE head # None /\ head.step = ws.step /\ head.pend = None
      <3>1. PICK s : s = Settled(ws.stage + 1, head.step, head.refs, head.terminal)
        OBVIOUS
      <3>2. Run(i, Resolve(ws) \o EvictIntents(ws.step) \o Persist(s), NextStep(s))
        BY <1>9, <2>1, <3>1 DEF FaninResume
      <3>3. PICK k \in Steps, refs \in Seq(Result), terminal \in BOOLEAN :
                /\ k = head.step /\ refs = head.refs /\ terminal = head.terminal
                /\ Len(refs) = k /\ (~terminal => k < MaxSteps)
        BY <2>1 DEF IInv, StoreInv, HeadInv, StateInv, WorkState
      <3>4. s = Settled(ws.stage + 1, k, refs, terminal)
        BY <3>1, <3>3 DEF Settled
      <3>5. s \in WorkState /\ StateInv(s) /\ s.pend = None /\ SettledInv(s) /\ s.stage # 0
        BY <1>5, <3>3, <3>4
      <3> QED
        BY <1>8, <3>2, <3>5
    <2>2. CASE ~(head # None /\ head.step = ws.step /\ head.pend = None)
      <3>1. PICK s : s = Settled(ws.stage + 1, ws.step, SubSeq(ws.refs, 1, ws.step), FALSE)
        OBVIOUS
      <3>2. Run(i, Resolve(ws) \o EvictIntents(ws.step) \o Persist(s), NextStep(s))
        BY <1>9, <2>2, <3>1 DEF FaninResume
      <3> QED
        BY <1>6, <1>8, <3>1, <3>2
    <2> QED
      BY <2>1, <2>2
  <1>10. CASE FaninMerge(i, ws)
    <2>1. PICK s : s = Settled(ws.stage + 1, ws.step + 1, Append(ws.refs, Merged(ws)), FALSE)
      OBVIOUS
    <2>2. Run(i, Resolve(ws) \o EvictIntents(ws.step) \o BindResult(ws.step, Merged(ws)) \o Persist(s),
              NextStep(s))
      BY <1>10, <2>1 DEF FaninMerge, Merged
    <2>3. s \in WorkState /\ StateInv(s) /\ s.pend = None /\ SettledInv(s) /\ s.stage # 0
      <3>1. PICK k \in Nat, past \in Seq(Result), m \in Result :
              k = ws.step /\ past = ws.refs /\ m = Merged(ws) /\ Len(past) = k /\ k + 1 < MaxSteps
        BY <1>2
      <3>2. Append(past, m) \in Seq(Result) /\ Len(Append(past, m)) = k + 1 /\ k + 1 \in Steps
        BY <3>1, StepsFacts
      <3>3. PICK n \in Steps, refs \in Seq(Result) :
              n = ws.step + 1 /\ refs = Append(ws.refs, Merged(ws)) /\ Len(refs) = n /\ n < MaxSteps
        BY <3>1, <3>2
      <3>4. PICK terminal \in BOOLEAN : terminal = FALSE
        OBVIOUS
      <3>5. s = Settled(ws.stage + 1, n, refs, terminal)
        BY <2>1, <3>3, <3>4 DEF Settled
      <3> QED
        BY <1>5, <3>3, <3>5
    <2>4. BindResult(ws.step, Merged(ws)) \in Seq({[op |-> "bindResult", step |-> ws.step, to |-> Merged(ws)]})
      BY Single DEF BindResult
    <2>5. FanningIn(ws, Resolve(ws) \o EvictIntents(ws.step) \o BindResult(ws.step, Merged(ws)) \o Persist(s))
      BY <2>3, <2>4, FaninPlan
    <2> QED
      BY <1>4, <2>2, <2>3, <2>5, NextStepSuccessors
  <1> QED
    BY <1>1, <1>7, <1>9, <1>10 DEF EvalFanin

-----------------------------------------------------------------------------
(* Every step.                                                             *)

\* The run was submitted and nothing has been delivered.
LEMMA InitInvariant ==
    ASSUME Init
    PROVE  IInv
  <1>1. /\ DOMAIN ledger = {0} /\ ledger[0] = [kind |-> "optim_step", input |-> None, done |-> FALSE]
        /\ ledger[0].kind = "optim_step" /\ ledger[0].input = None /\ ~ledger[0].done
    BY DEF Init
  <1>2. ledger[0] \in Stage
    BY <1>1 DEF Stage
  <1>3. TypeOK
    BY <1>1, <1>2, ConstantsAssumption DEF Init, TypeOK
  <1>4. \A k \in Steps : bound[k] = None /\ deferred[k] = None
    BY DEF Init
  <1>5. HeadInv /\ BoundInv /\ CheckpointInv /\ DeferredInv
    BY <1>4 DEF Init, HeadInv, BoundInv, CheckpointInv, DeferredInv
  <1>6. LedgerInv
    BY <1>1, <1>2 DEF LedgerInv, StageInv, Sole
  <1>7. OpeningInv
    <2>1. head = None /\ 0 \in Steps /\ Steps \subseteq Nat
      BY StepsFacts DEF Init
    <2>2. \A j \in Steps : (bound[j] # None <=> j < 0) /\ ~(j + 1 < 0)
      BY <1>4, <2>1
    <2> QED
      BY <2>1, <2>2 DEF OpeningInv
  <1>8. JobInv
    BY DEF Init, JobInv
  <1> QED
    BY <1>3, <1>5, <1>6, <1>7, <1>8 DEF IInv, StoreInv

\* A step that leaves no attempt running and nothing but the outcome of the run, the
\* faults and the attempt changed.
LEMMA IdleInvariant ==
    ASSUME IInv, UNCHANGED <<adapter, store, ledger, raised>>, job' = None,
           completed' \in {"no", "yes", "raised"}, crashes' \in 0 .. MaxCrashes, replays' \in 0 .. MaxReplays
    PROVE  IInv'
  <1>1. StoreInv'
    BY StoreKept DEF IInv, StoreInv, TypeOK
  <1> QED
    BY <1>1 DEF IInv, JobInv

\* A step that changes nothing.
LEMMA StutterInvariant ==
    ASSUME IInv, UNCHANGED vars
    PROVE  IInv'
  <1>1. UNCHANGED <<adapter, store, ledger, job, raised, completed, crashes, replays>>
    BY DEF vars, environment
  <1>2. StoreInv'
    BY <1>1, StoreKept DEF IInv, StoreInv, TypeOK
  <1>3. ASSUME job # None PROVE TodoInv(job.idx, job.todo)' /\ SuccessorsInv(job.successors)'
    <2>1. PICK i \in DOMAIN ledger, todo \in {job.todo}, succ \in {job.successors} :
            i = job.idx /\ todo = job.todo /\ succ = job.successors /\ TodoInv(i, todo) /\ SuccessorsInv(succ)
      BY <1>3 DEF IInv, JobInv
    <2>2. TodoInv(i, todo)' /\ SuccessorsInv(succ)'
      BY <1>1, <2>1, TodoKept
    <2>3. job'.idx = i /\ job'.todo = todo /\ job'.successors = succ
      BY <1>1, <2>1
    <2> QED
      BY <2>2, <2>3
  <1> QED
    BY <1>1, <1>2, <1>3 DEF IInv, JobInv

\* Every step keeps the invariant.
LEMMA NextInvariant ==
    ASSUME IInv, [Next]_vars
    PROVE  IInv'
  <1>1. CASE UNCHANGED vars
    BY <1>1, StutterInvariant
  <1>2. ASSUME NEW i \in DOMAIN ledger, Deliver(i) PROVE IInv'
    <2>1. UNCHANGED <<adapter, store, ledger, completed, environment>> /\ ~ledger[i].done /\ Handle(i)
      BY <1>2 DEF Deliver
    <2>2. UNCHANGED <<adapter, store, ledger, completed, crashes>> /\ replays' \in 0 .. MaxReplays
      BY <2>1 DEF environment, IInv, StoreInv, TypeOK
    <2> QED
      BY <2>1, <2>2, OptimStepInvariant, FaninInvariant DEF Handle
  <1>3. ASSUME NEW i \in DOMAIN ledger, EvalRow(i) PROVE IInv'
    BY <1>3, EvalRowInvariant
  <1>4. CASE Write
    BY <1>4, WriteInvariant
  <1>5. CASE Complete
    BY <1>5, CompleteInvariant
  <1>6. CASE RunCompletion
    BY <1>6, IdleInvariant DEF RunCompletion, Drained, environment, IInv, StoreInv, TypeOK
  <1>7. ASSUME NEW i \in DOMAIN ledger, Redeliver(i) PROVE IInv'
    <2>1. UNCHANGED <<adapter, store, ledger, completed, crashes>> /\ replays' = replays + 1
          /\ replays < MaxReplays /\ ledger[i].kind = "eval_fanin" /\ EvalFanin(i)
      BY <1>7 DEF Redeliver
    <2>2. replays' \in 0 .. MaxReplays
      BY <2>1, ConstantsAssumption DEF IInv, StoreInv, TypeOK
    <2> QED
      BY <2>1, <2>2, FaninInvariant
  <1>8. CASE Crash
    <2>1. crashes' \in 0 .. MaxCrashes /\ replays' \in 0 .. MaxReplays
      BY <1>8, ConstantsAssumption DEF Crash, IInv, StoreInv, TypeOK
    <2>2. completed' \in {"no", "yes", "raised"} /\ job' = None /\ UNCHANGED <<adapter, store, ledger, raised>>
      BY <1>8 DEF Crash, IInv, StoreInv, TypeOK
    <2> QED
      BY <2>1, <2>2, IdleInvariant
  <1>9. CASE Done
    BY <1>1, <1>9 DEF Done
  <1> QED
    BY <1>1, <1>2, <1>3, <1>4, <1>5, <1>6, <1>7, <1>8, <1>9 DEF Next, Progress

\* The invariant is one of the specification.
THEOREM Invariance == Spec => []IInv
  <1>1. Init => IInv
    BY InitInvariant
  <1>2. IInv /\ [Next]_vars => IInv'
    BY NextInvariant
  <1> QED
    BY <1>1, <1>2, PTL DEF Spec

\* Every state of every run has the types of the program's records: the head is a work
\* state whose history is as long as its step_index, an intent and a Step Result are
\* never stored under a step_index out of range, whatever crashes and is repeated.
THEOREM TypeCorrect == Spec => []TypeOK
  <1>1. IInv => TypeOK
    BY DEF IInv, StoreInv
  <1> QED
    BY <1>1, Invariance, PTL

\* However often a parking attempt dies between its writes and is redriven, and however
\* often a fan-in is delivered again, the head _persist_work_state binds for a parked
\* member waits for the intents of the very result it is parked on: the step-keyed
\* intents binding never lends it those of another attempt or episode.
THEOREM ParkedStaysOwn == Spec => []ParkedOnOwnIntents
  <1>1. IInv => ParkedOnOwnIntents
    BY DEF IInv, StoreInv, HeadInv, StateInv, ParkedOnOwnIntents
  <1> QED
    BY <1>1, Invariance, PTL

-----------------------------------------------------------------------------
(* Final results.                                                          *)

\* Only a parking attempt evicts a result, and only its own placeholder.
LEMMA EvictsPlaceholder ==
    ASSUME IInv, NEW i \in DOMAIN ledger, NEW todo, todo # << >>, TodoInv(i, todo),
           Head(todo).op = "evictResult"
    PROVE  /\ Head(todo).step \in Steps
           /\ bound[Head(todo).step] # None => Placeholder(bound[Head(todo).step])
  <1>1. ~FanningIn(ledger[i].input, todo)
    <2>1. SUFFICES ASSUME FanningIn(ledger[i].input, todo) PROVE FALSE
      OBVIOUS
    <2>2. PICK ws, s : todo \in Seq(FaninOps(ws, s))
      BY <2>1 DEF FanningIn
    <2>3. Head(todo) \in FaninOps(ws, s)
      BY <2>2, HeadAndTail
    <2> QED
      BY <2>3 DEF FaninOps, HeadOps
  <1>2. ~Ending(todo)
    <2>1. SUFFICES ASSUME Ending(todo) PROVE FALSE
      OBVIOUS
    <2>2. PICK s : todo \in Seq(EndOps(s))
      BY <2>1 DEF Ending
    <2>3. Head(todo) \in EndOps(s)
      BY <2>2, HeadAndTail
    <2> QED
      BY <2>3 DEF EndOps, HeadOps
  <1>3. ~Advancing(i, todo)
    <2>1. SUFFICES ASSUME Advancing(i, todo) PROVE FALSE
      OBVIOUS
    <2>2. PICK k, res, s : todo \in Seq(AdvanceOps(k, res, s))
      BY <2>1 DEF Advancing
    <2>3. Head(todo) \in AdvanceOps(k, res, s)
      BY <2>2, HeadAndTail
    <2> QED
      BY <2>3 DEF AdvanceOps, EndOps, HeadOps
  <1>4. ~Resuming(i, todo)
    <2>1. SUFFICES ASSUME Resuming(i, todo) PROVE FALSE
      OBVIOUS
    <2>2. PICK p : todo \in Seq(HeadOps(p) \cup {[op |-> "evictIntents", step |-> p.step]})
      BY <2>1 DEF Resuming
    <2>3. Head(todo) \in HeadOps(p) \cup {[op |-> "evictIntents", step |-> p.step]}
      BY <2>2, HeadAndTail
    <2> QED
      BY <2>3 DEF HeadOps
  <1>5. PICK k \in Steps, res \in Result, p \in WorkState : ParkInv(i, todo, k, res, p)
    BY <1>1, <1>2, <1>3, <1>4 DEF TodoInv, Parking
  <1>6. Head(todo) \in ParkOps(k, res, p)
    BY <1>5, HeadAndTail DEF ParkInv
  <1>7. Head(todo) = [op |-> "evictResult", step |-> k]
    BY <1>6 DEF ParkOps, HeadOps
  <1> QED
    BY <1>5, <1>7 DEF ParkInv

\* A Step Result that is final is never evicted or replaced by a write, a crash, a
\* redrive or a repeated fan-in: run_step and the fan-in bind once, and only the
\* placeholder a step is parked on is evicted.
THEOREM FinalResultsAreKept == Spec => FinalResultsSurvive
  <1> DEFINE Kept == \A k \in Steps : bound[k] # None /\ ~Placeholder(bound[k]) => bound'[k] = bound[k]
  <1>1. IInv /\ [Next]_vars => [Kept]_vars
    <2> SUFFICES ASSUME IInv, [Next]_vars PROVE Kept
      OBVIOUS
    <2>1. CASE UNCHANGED bound
      BY <2>1
    <2>2. CASE Write
      <3>1. PICK i \in DOMAIN ledger, todo \in {job.todo} :
                job # None /\ i = job.idx /\ todo = job.todo /\ todo # << >> /\ TodoInv(i, todo)
        BY <2>2 DEF Write, IInv, JobInv
      <3>2. PICK w : w = Head(todo)
        OBVIOUS
      <3>3. WriteResult(w) \/ UNCHANGED bound
        BY <2>2, <3>1, <3>2 DEF Write, WriteHead, WriteIntents, WriteCheckpoint, WriteResolution,
                                WriteMember, store
      <3>4. CASE w.op = "evictResult" /\ bound' = [bound EXCEPT ![w.step] = None]
        BY <3>1, <3>2, <3>4, EvictsPlaceholder DEF IInv, StoreInv, TypeOK
      <3>5. CASE Bindable(bound[w.step], w.to) /\ bound' = [bound EXCEPT ![w.step] = w.to]
        BY <3>5 DEF Bindable, IInv, StoreInv, TypeOK
      <3> QED
        BY <2>1, <3>3, <3>4, <3>5 DEF WriteResult
    <2>3. CASE Next /\ ~Write
      BY <2>1, <2>3 DEF Next, Progress, Deliver, EvalRow, Complete, RunCompletion, Redeliver, Crash, Done,
                        store, vars
    <2> QED
      BY <2>1, <2>2, <2>3 DEF vars, store
  <1> QED
    BY <1>1, Invariance, PTL DEF Spec, FinalResultsSurvive

=============================================================================
