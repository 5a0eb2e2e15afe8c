----------------------- MODULE PlatformRecoveryProofs -----------------------
(***************************************************************************)
(* Recovery of a member's run: every retry succeeds, the chain of stages   *)
(* reaches its end, histories are clean, no evaluation is dropped and the  *)
(* head only advances, for every number of rows, steps, episodes, crashes  *)
(* and repeated fan-ins.                                                   *)
(*                                                                         *)
(* The opening stage does not crash (CrashFrom > 0), and a run of GEPA     *)
(* has crashes or repeated fan-ins, not both (Calm), where a theorem says  *)
(* so: PlatformDeferral's properties are false without.                    *)
(***************************************************************************)
EXTENDS PlatformDeferralProofs

-----------------------------------------------------------------------------
(* The open stage.                                                         *)

\* GEPA's fan-ins are not repeated in a behaviour in which attempts crash.
Calm == SameStepResume => ~MixedFaults

\* The stage the run stands at, if any: not a row, and not done.
Open(i) == i \in DOMAIN ledger /\ ~ledger[i].done /\ ledger[i].kind # "eval_row"

\* The state it starts from.
StateOf(i) == IF i = 0 THEN Settled(0, 0, << >>, FALSE) ELSE ledger[i].input
\* The step_index it is at.
StepOf(i) == StateOf(i).step

\* What an optim_step asks and makes of the answer.
Asked(i) == RequestAt(i, StepOf(i))
\* The Step Result of the answer out.
Given(i, out) == [req |-> Asked(i), out |-> out, resolved |-> FALSE]
\* The state it parks the member in.
ParkedAt(i) == Parked(i, StepOf(i), StateOf(i).refs, Given(i, "defer"), Asked(i))
\* The state it leaves with the result res.
AdvancedAt(i, res) ==
    Settled(i + 1, StepOf(i) + 1, Append(StateOf(i).refs, res), res.out = "stop")

\* What a fan-in makes of the episode parked at ws.
Outcome(ws) ==
    IF SameStepResume THEN Settled(ws.stage + 1, ws.step, ws.refs, FALSE)
    ELSE Settled(ws.stage + 1, ws.step + 1, Append(ws.refs, Merged(ws)), FALSE)

\* A history entry: of its step, continuing and, unless faults mix, no placeholder.
Entry(res, k) == res.req.step = k /\ res.out # "stop" /\ (Calm => ~Placeholder(res))

\* The open stage is the last one.  Its history is what is bound, of continuing steps,
\* and nothing is bound after its step.
OpenInv(i) ==
    /\ \A j \in DOMAIN ledger : j <= i
    /\ StateOf(i).stage = i /\ ~StateOf(i).terminal
    /\ \A k \in 1 .. StepOf(i) : bound[k - 1] = StateOf(i).refs[k] /\ Entry(bound[k - 1], k - 1)
    /\ \A k \in Steps : k > StepOf(i) => bound[k] = None
    /\ completed = "no"

\* A result that is bound at the step of an open optim_step is that of its own answer,
\* and a terminal state that of a result which stops.
AskingInv(i) ==
    /\ bound[StepOf(i)] # None =>
        /\ Asked(i) \in DOMAIN checkpoint
        /\ bound[StepOf(i)] = Given(i, checkpoint[Asked(i)])
        /\ Calm /\ checkpoint[Asked(i)] = "defer" => deferred[StepOf(i)] # None
    /\ member # None =>
        /\ bound[StepOf(i)] # None /\ bound[StepOf(i)].out = "stop"
        /\ member = AdvancedAt(i, bound[StepOf(i)])

\* A result that is bound at the step of an open fan-in is the one it merges.
FanningInv(i) ==
    /\ StateOf(i).origin + Rows + 1 = i
    /\ member = None
    /\ bound[StepOf(i)] # None => ~SameStepResume /\ bound[StepOf(i)] = Merged(StateOf(i))

\* What the open stage finds, however often it was tried.  Intents are deferred only
\* at the step of an open optim_step.
FrontierInv ==
    /\ \A i \in DOMAIN ledger : Open(i) =>
        /\ OpenInv(i)
        /\ ledger[i].kind = "optim_step" => AskingInv(i)
        /\ ledger[i].kind = "eval_fanin" => FanningInv(i)
    /\ \A k \in Steps : deferred[k] # None =>
        \E i \in DOMAIN ledger : Open(i) /\ ledger[i].kind = "optim_step" /\ StepOf(i) = k

\* The run has ended.
Ended ==
    /\ member # None /\ member.terminal /\ member.refs # << >>
    /\ \A k \in 1 .. Len(member.refs) :
        /\ bound[k - 1] = member.refs[k]
        /\ member.refs[k].req.step = k - 1
        /\ member.refs[k].out = "stop" <=> k = Len(member.refs)
        /\ Calm => ~Placeholder(member.refs[k])
    /\ bound[Len(member.refs)] = None

\* A stage is open or the run has ended.
ChainInv == (\E i \in DOMAIN ledger : Open(i)) \/ Ended

\* The fan-ins that are done.
DoneFanin(j) == j \in DOMAIN ledger /\ ledger[j].done /\ ledger[j].kind = "eval_fanin"

\* They were at the step of the open stage or before it; what they merged is still
\* bound, and the head they resumed with has been bound.
FaninsInv ==
    \A j \in DOMAIN ledger : DoneFanin(j) =>
        /\ ledger[j].input.stage = j /\ ledger[j].input.origin + Rows + 1 = j
        /\ Calm => \A k \in 1 .. ledger[j].input.step : Entry(ledger[j].input.refs[k], k - 1)
        /\ ~SameStepResume => bound[ledger[j].input.step] = Merged(ledger[j].input)
        /\ SameStepResume => \E h \in heads : h.stage = j + 1 /\ h.step = ledger[j].input.step
        /\ \A i \in DOMAIN ledger : Open(i) =>
            /\ ledger[j].input.step <= StepOf(i)
            /\ ~SameStepResume => ledger[j].input.step < StepOf(i)
            /\ ledger[j].input.step = StepOf(i) =>
                ledger[j].input.refs = StateOf(i).refs

\* The head h is not of a later episode than the open stage i, as
\* _head_is_later_episode orders them, or it is where the bound result leads.
Behind(h, i) ==
    \/ h.step < StepOf(i)
    \/ /\ h.step = StepOf(i)
       /\ h.pend # None => h.origin <= (IF ledger[i].kind = "eval_fanin" THEN StateOf(i).origin ELSE i)
       /\ h.pend = None =>
            /\ h.stage <= (IF ledger[i].kind = "eval_fanin" THEN i + 1 ELSE i)
            /\ h.refs = StateOf(i).refs /\ ~h.terminal
    \/ /\ ledger[i].kind = "optim_step" /\ bound[StepOf(i)] # None /\ deferred[StepOf(i)] = None
       /\ h = AdvancedAt(i, bound[StepOf(i)])

\* No head is ahead of the open stage.
HeadsInv ==
    /\ head # None => head \in heads
    /\ \A h \in heads :
        /\ h.pend # None => h.stage = h.origin + Rows + 1
        /\ Calm => \A k \in 1 .. h.step : h.refs[k].req.step = k - 1 /\ ~Placeholder(h.refs[k])
        /\ SameStepResume => \A i \in DOMAIN ledger : Open(i) => Behind(h, i)

\* No evaluation is lost: it is resolved, or it is the open stage's.
EvaluationsInv ==
    Calm => \A r \in DOMAIN checkpoint : checkpoint[r] = "defer" =>
        \/ r \in resolved
        \/ \E i \in DOMAIN ledger :
            /\ Open(i)
            /\ r = IF ledger[i].kind = "eval_fanin" THEN StateOf(i).intents ELSE Asked(i)

\* No head is at a later stage or step than the state t.
Top(t) == \A h \in heads : h.stage <= t.stage /\ h.step <= t.step

\* How far a head may be when stage i is open: at the stage or, bound already, where the
\* recorded answer leads.
Reached(h, i) ==
    /\ ledger[i].kind = "eval_fanin" => h.stage <= i + 1
    /\ ledger[i].kind = "optim_step" =>
        \/ h.stage <= i
        \/ /\ Asked(i) \in DOMAIN checkpoint
           /\ \/ checkpoint[Asked(i)] = "defer" /\ h = ParkedAt(i)
              \/ /\ checkpoint[Asked(i)] # "defer"
                 /\ h = AdvancedAt(i, Given(i, checkpoint[Asked(i)]))

\* Unless GEPA's faults mix, no head is further than the open stage may have put it.
WatermarkInv ==
    Calm /\ SameStepResume =>
        \A i \in DOMAIN ledger : Open(i) => \A h \in heads : Reached(h, i)

\* Without crashes nothing is half done between attempts.
QuietInv ==
    Calm /\ SameStepResume /\ crashes = 0 /\ job = None =>
        /\ NothingDeferred
        /\ ledger[0].done => head # None /\ Top(head)

\* No attempt raised, and the opening stage starts from nothing.
FaultsInv ==
    /\ raised = {}
    /\ ~MixedFaults => crashes = 0 \/ replays = 0
    /\ ~ledger[0].done /\ job = None => head = None /\ heads = {} /\ member = None
            /\ NothingDeferred /\ (\A k \in Steps : bound[k] = None) /\ DOMAIN checkpoint = {}

-----------------------------------------------------------------------------
(* The running attempt: how far it is in its plan.                         *)

\* The writes of an attempt that parks the member.
Parking8(i) ==
    << [op |-> "checkpoint", req |-> Asked(i), to |-> "defer"],
       [op |-> "bindIntents", step |-> StepOf(i), to |-> Asked(i)],
       [op |-> "bindResult", step |-> StepOf(i), to |-> Given(i, "defer")],
       [op |-> "bindIntents", step |-> StepOf(i), to |-> Asked(i)],
       [op |-> "evictHead"], [op |-> "bindHead", to |-> ParkedAt(i)],
       [op |-> "evictResult", step |-> StepOf(i)], [op |-> "evictIntents", step |-> StepOf(i)] >>

\* Write n is next: what the writes before it have left.  A retry that finds the
\* placeholder bound starts at write 4.
ParkingAt(i, n) ==
    /\ job.todo = SubSeq(Parking8(i), n, 8) /\ job.successors = FanOut(ParkedAt(i))
    /\ Asked(i) \in DOMAIN checkpoint => checkpoint[Asked(i)] = "defer"
    /\ n >= 2 => Asked(i) \in DOMAIN checkpoint
    /\ 3 <= n /\ n <= 8 => deferred[StepOf(i)] = Asked(i)
    /\ n = 9 => deferred[StepOf(i)] = None
    /\ 4 <= n /\ n <= 7 => bound[StepOf(i)] = Given(i, "defer")
    /\ n < 4 \/ 7 < n => bound[StepOf(i)] = None
    /\ n >= 7 => head = ParkedAt(i)
    /\ member = None

\* The writes of an attempt that advances the member or, with the last, ends the run.
Advancing6(i, res) ==
    << [op |-> "checkpoint", req |-> Asked(i), to |-> res.out],
       [op |-> "bindResult", step |-> StepOf(i), to |-> res],
       [op |-> "bindResult", step |-> StepOf(i), to |-> res],
       [op |-> "evictHead"], [op |-> "bindHead", to |-> AdvancedAt(i, res)],
       [op |-> "bindMember", to |-> AdvancedAt(i, res)] >>

\* Write n is next, with the answer out.
AdvancingAt(i, n, out) ==
    LET res == Given(i, out)
        last == IF out = "stop" THEN 6 ELSE 5 IN
    /\ n <= last + 1
    /\ Calm => out # "defer"
    /\ job.todo = SubSeq(Advancing6(i, res), n, last)
    /\ job.successors = IF out = "stop" THEN << >> ELSE NextStep(AdvancedAt(i, res))
    /\ deferred[StepOf(i)] = None
    /\ Asked(i) \in DOMAIN checkpoint => checkpoint[Asked(i)] = out
    /\ n >= 2 => Asked(i) \in DOMAIN checkpoint
    /\ n >= 3 => bound[StepOf(i)] = res
    /\ n < 3 => bound[StepOf(i)] = None
    /\ n >= 6 => head = AdvancedAt(i, res)
    /\ n = 7 => member = AdvancedAt(i, res)

\* The writes of a fan-in of GEPA, which resumes the step.
Resuming4(ws, s) ==
    << [op |-> "resolve", req |-> ws.intents], [op |-> "evictIntents", step |-> ws.step],
       [op |-> "evictHead"], [op |-> "bindHead", to |-> s] >>
\* The writes of the other fan-ins, which merge and advance.
Merging5(ws) ==
    << [op |-> "resolve", req |-> ws.intents], [op |-> "evictIntents", step |-> ws.step],
       [op |-> "bindResult", step |-> ws.step, to |-> Merged(ws)],
       [op |-> "evictHead"], [op |-> "bindHead", to |-> Outcome(ws)] >>

\* Write n of an open fan-in is next.
FanningAt(i, n) ==
    LET ws == ledger[i].input IN
    /\ job.successors = NextStep(Outcome(ws))
    /\ n >= 2 => ws.intents \in resolved
    /\ IF SameStepResume
       THEN /\ n <= 5 /\ job.todo = SubSeq(Resuming4(ws, Outcome(ws)), n, 4)
            /\ n = 5 => head = Outcome(ws)
       ELSE /\ job.todo = SubSeq(Merging5(ws), n, 5)
            /\ n >= 4 => bound[ws.step] = Merged(ws)
            /\ n = 6 => head = Outcome(ws)

\* A fan-in that is done is repeated; a GEPA one may set the head again.
RepeatedState(j, s) ==
    /\ s.stage = j + 1 /\ s.step = ledger[j].input.step /\ s.pend = None
    /\ Calm => \A k \in 1 .. s.step : s.refs[k].req.step = k - 1 /\ ~Placeholder(s.refs[k])
    /\ \A i \in DOMAIN ledger : Open(i) /\ s.step = StepOf(i) => s.refs = StateOf(i).refs /\ ~s.terminal
    /\ Calm => Top(s)

\* Write n of a repeated fan-in is next.
RepeatingAt(j, n) ==
    LET ws == ledger[j].input IN
    IF SameStepResume
    THEN \/ /\ n <= 2 /\ job.todo = SubSeq(<< [op |-> "resolve", req |-> ws.intents] >>, n, 1)
            /\ Calm => head # None /\ Top(head)
         \/ \E s \in WorkState :
            /\ RepeatedState(j, s)
            /\ n <= 5 /\ job.todo = SubSeq(Resuming4(ws, s), n, 4)
            /\ n = 5 => head = s
    ELSE job.todo = SubSeq(Merging5(ws), n, 5)

\* An attempt runs at the open stage or repeats a fan-in, and is in the midst of its plan.
AttemptInv ==
    job # None =>
        /\ ledger[job.idx].done => DoneFanin(job.idx)
        /\ ledger[job.idx].done =>
            /\ \E n \in 1 .. 6 : RepeatingAt(job.idx, n)
            /\ Calm /\ SameStepResume => NothingDeferred /\ crashes = 0
        /\ Open(job.idx) /\ ledger[job.idx].kind = "optim_step" =>
            \/ \E n \in 1 .. 9 : ParkingAt(job.idx, n)
            \/ \E n \in 1 .. 7, out \in Output : AdvancingAt(job.idx, n, out)
        /\ Open(job.idx) /\ ledger[job.idx].kind = "eval_fanin" =>
            \E n \in 1 .. 6 : FanningAt(job.idx, n)

\* What holds of the store and the ledger between any two writes.
RecoveryInv == FrontierInv /\ ChainInv /\ FaninsInv /\ HeadsInv /\ EvaluationsInv /\ WatermarkInv

\* The inductive invariant.
RInv == RecoveryInv /\ QuietInv /\ FaultsInv /\ AttemptInv

-----------------------------------------------------------------------------
(* Facts about the open stage and about plans.                             *)

\* What is left of a plan loses its head.
LEMMA Suffix ==
    ASSUME NEW S, NEW p \in Seq(S), NEW m \in 0 .. Len(p), NEW n \in 1 .. m + 1
    PROVE  /\ n <= m => /\ SubSeq(p, n, m) # << >>
                        /\ Head(SubSeq(p, n, m)) = p[n]
                        /\ Tail(SubSeq(p, n, m)) = SubSeq(p, n + 1, m)
           /\ n = m + 1 => SubSeq(p, n, m) = << >>
  <1> DEFINE a == SubSeq(p, n, m)
             b == SubSeq(p, n + 1, m)
  <1>1. /\ a \in Seq(S) /\ Len(a) = m - n + 1
        /\ \A k \in 1 .. m - n + 1 : a[k] = p[n + k - 1]
    BY SubSeqProperties
  <1>2. n <= m => /\ b \in Seq(S) /\ Len(b) = m - n
                  /\ \A k \in 1 .. m - n : b[k] = p[n + k]
    BY SubSeqProperties
  <1> HIDE DEF a, b
  <1>3. n = m + 1 => a = << >>
    BY <1>1
  <1>4. ASSUME n <= m PROVE a # << >> /\ Head(a) = p[n] /\ Tail(a) = b
    <2>1. a # << >>
      BY <1>1, <1>4
    <2>2. Head(a) = a[1] /\ a[1] = p[n]
      BY <1>1, <1>4, <2>1
    <2>3. Tail(a) \in Seq(S) /\ Len(Tail(a)) = m - n /\ \A k \in 1 .. m - n : Tail(a)[k] = a[k + 1]
      BY <1>1, <2>1, HeadTailProperties
    <2>4. \A k \in 1 .. m - n : a[k + 1] = p[n + k]
      BY <1>1, <1>4
    <2> QED
      BY <1>2, <1>4, <2>1, <2>2, <2>3, <2>4, SeqEqual
  <1> QED
    BY <1>3, <1>4 DEF a, b

\* At most one stage is open.
LEMMA OneOpen ==
    ASSUME IInv, NEW i, NEW j, Open(i), Open(j)
    PROVE  i = j
  BY DEF IInv, StoreInv, LedgerInv, Sole, Open

\* The open stage starts from a state of its kind, and before the last step.
LEMMA OpenState ==
    ASSUME IInv, FrontierInv, NEW i, Open(i)
    PROVE  /\ i \in Nat /\ i \in DOMAIN ledger /\ ~ledger[i].done
           /\ ledger[i].kind \in {"optim_step", "eval_fanin"}
           /\ StateOf(i) \in WorkState /\ StateInv(StateOf(i))
           /\ StepOf(i) = StateOf(i).step /\ StepOf(i) \in Nat /\ StepOf(i) \in Steps /\ StepOf(i) < MaxSteps
           /\ StateOf(i).refs \in Seq(Result) /\ Len(StateOf(i).refs) = StepOf(i)
           /\ StateOf(i).stage = i /\ ~StateOf(i).terminal
           /\ ledger[i].kind = "optim_step" => StateOf(i).pend = None
           /\ ledger[i].kind = "eval_fanin" =>
                /\ i # 0 /\ StateOf(i) = ledger[i].input
                /\ StateOf(i).pend \in Result /\ StateOf(i).pend # None /\ StateOf(i).origin \in Nat
                /\ ResultAt(StateOf(i).pend, StepOf(i)) /\ Placeholder(StateOf(i).pend)
                /\ StateOf(i).intents = StateOf(i).pend.req /\ StateOf(i).intents \in Request
           /\ i # 0 => StateOf(i) = ledger[i].input
           /\ OpenInv(i)
  <1>1. i \in DOMAIN ledger /\ ~ledger[i].done /\ ledger[i].kind # "eval_row" /\ OpenInv(i)
    BY DEF Open, FrontierInv
  <1>2. i \in Nat /\ ledger[i] \in Stage /\ StageInv(i, ledger[i])
    BY <1>1 DEF IInv, StoreInv, TypeOK, LedgerInv
  <1>3. ledger[i].kind \in {"optim_step", "eval_fanin"}
    BY <1>1, <1>2 DEF Stage
  <1>4. ledger[0].kind = "optim_step"
    BY DEF IInv, StoreInv, LedgerInv
  <1>5. CASE i = 0
    <2>1. StateOf(i) = Settled(0, 0, << >>, FALSE)
      BY <1>5 DEF StateOf
    <2>2. /\ StateOf(i).stage = 0 /\ StateOf(i).step = 0 /\ StateOf(i).refs = << >> /\ ~StateOf(i).terminal
          /\ StateOf(i).pend = None /\ StateOf(i).origin = None /\ StateOf(i).intents = None
      BY <2>1 DEF Settled
    <2>3. 0 \in Steps /\ 0 < MaxSteps
      BY ConstantsAssumption, StepsFacts
    <2>4. StateOf(i) \in WorkState
      BY <2>1, <2>3 DEF Settled, WorkState
    <2>5. StateInv(StateOf(i))
      BY <2>2, <2>3, <2>4 DEF StateInv
    <2> QED
      BY <1>1, <1>3, <1>4, <1>5, <2>2, <2>3, <2>4, <2>5 DEF StepOf
  <1>6. CASE i # 0
    <2>1. StateOf(i) = ledger[i].input /\ StateInv(StateOf(i)) /\ ~StateOf(i).terminal /\ StateOf(i).stage = i
      BY <1>1, <1>2, <1>3, <1>6 DEF StateOf, StageInv, OpenInv
    <2>2. /\ ledger[i].kind = "optim_step" => StateOf(i).pend = None
          /\ ledger[i].kind = "eval_fanin" => StateOf(i).pend # None
      BY <1>2, <1>6, <2>1 DEF StageInv
    <2>3. StateOf(i) \in WorkState /\ StateOf(i).step < MaxSteps
      BY <2>1 DEF StateInv
    <2>4. /\ StateOf(i).refs \in Seq(Result) /\ Len(StateOf(i).refs) = StateOf(i).step
          /\ StateOf(i).step \in Steps
          /\ StateOf(i).pend # None => StateOf(i).origin \in Nat /\ StateOf(i).intents \in Request /\ StateOf(i).pend \in Result
      BY <2>3 DEF WorkState
    <2>5. StateOf(i).pend # None =>
            ResultAt(StateOf(i).pend, StateOf(i).step) /\ Placeholder(StateOf(i).pend) /\ StateOf(i).intents = StateOf(i).pend.req
      BY <2>1 DEF StateInv
    <2> QED
      BY <1>1, <1>2, <1>3, <1>6, <2>1, <2>2, <2>3, <2>4, <2>5, StepsFacts DEF StepOf
  <1> QED
    BY <1>5, <1>6

\* The open optim_step's request, its results and the states it may leave.
LEMMA AskedFacts ==
    ASSUME IInv, FrontierInv, NEW i, Open(i)
    PROVE  /\ Asked(i) \in Request /\ Asked(i).step = StepOf(i)
           /\ \A out \in Output :
                /\ Given(i, out) \in Result /\ Given(i, out).out = out /\ Given(i, out).req = Asked(i)
                /\ ~Given(i, out).resolved /\ Given(i, out) # None
                /\ Placeholder(Given(i, out)) <=> out = "defer"
                /\ AdvancedAt(i, Given(i, out)).step = StepOf(i) + 1
                /\ AdvancedAt(i, Given(i, out)).stage = i + 1
                /\ AdvancedAt(i, Given(i, out)).pend = None
                /\ AdvancedAt(i, Given(i, out)).terminal = (out = "stop")
                /\ AdvancedAt(i, Given(i, out)).refs = Append(StateOf(i).refs, Given(i, out))
           /\ ParkedAt(i).step = StepOf(i) /\ ParkedAt(i).stage = i + Rows + 1
           /\ ParkedAt(i).pend = Given(i, "defer") /\ ParkedAt(i).origin = i /\ ParkedAt(i).intents = Asked(i)
           /\ ParkedAt(i).refs = StateOf(i).refs /\ ~ParkedAt(i).terminal
  <1>1. i \in Nat /\ StepOf(i) \in Steps /\ StateOf(i).refs \in Seq(Result) /\ Len(StateOf(i).refs) = StepOf(i)
    BY OpenState
  <1>2. Asked(i) \in Request /\ Asked(i).step = StepOf(i)
    BY <1>1 DEF Asked, RequestAt, Request
  <1>3. ASSUME NEW out \in Output
        PROVE  /\ Given(i, out) \in Result /\ Given(i, out).out = out /\ Given(i, out).req = Asked(i)
               /\ ~Given(i, out).resolved /\ Given(i, out) # None
               /\ Placeholder(Given(i, out)) <=> out = "defer"
    <2>1. Given(i, out) \in Result
      BY <1>2 DEF Given, Result
    <2>2. Given(i, out) # None
      BY <2>1, ConstantsAssumption
    <2> QED
      BY <1>2, <2>1, <2>2 DEF Given, Placeholder
  <1>4. ASSUME NEW out \in Output
        PROVE  /\ AdvancedAt(i, Given(i, out)).step = StepOf(i) + 1
               /\ AdvancedAt(i, Given(i, out)).stage = i + 1
               /\ AdvancedAt(i, Given(i, out)).pend = None
               /\ AdvancedAt(i, Given(i, out)).terminal = (out = "stop")
               /\ AdvancedAt(i, Given(i, out)).refs = Append(StateOf(i).refs, Given(i, out))
    <2>1. Given(i, out).out = out
      BY <1>3
    <2> QED
      BY <2>1 DEF AdvancedAt, Settled
  <1>5. SubSeq(StateOf(i).refs, 1, StepOf(i)) = StateOf(i).refs
    BY <1>1
  <1>6. /\ ParkedAt(i).step = StepOf(i) /\ ParkedAt(i).stage = i + Rows + 1
        /\ ParkedAt(i).pend = Given(i, "defer") /\ ParkedAt(i).origin = i /\ ParkedAt(i).intents = Asked(i)
        /\ ParkedAt(i).refs = StateOf(i).refs /\ ~ParkedAt(i).terminal
    BY <1>5 DEF ParkedAt, Parked
  <1> QED
    BY <1>2, <1>3, <1>4, <1>6

\* Nothing static moves with a write.
LEMMA SameStages ==
    ASSUME UNCHANGED <<adapter, ledger>>
    PROVE  /\ Calm' = Calm /\ SameStepResume' = SameStepResume
           /\ \A i : /\ Open(i)' <=> Open(i)
                     /\ StateOf(i)' = StateOf(i) /\ StepOf(i)' = StepOf(i) /\ Asked(i)' = Asked(i)
                     /\ ParkedAt(i)' = ParkedAt(i)
                     /\ DoneFanin(i)' <=> DoneFanin(i)
           /\ \A i, x : Given(i, x)' = Given(i, x) /\ AdvancedAt(i, x)' = AdvancedAt(i, x)
           /\ \A ws : Outcome(ws)' = Outcome(ws)
  <1>1. Calm' = Calm /\ SameStepResume' = SameStepResume
    BY DEF Calm, SameStepResume
  <1>2. \A i : /\ Open(i)' <=> Open(i)
               /\ DoneFanin(i)' <=> DoneFanin(i)
               /\ StateOf(i)' = StateOf(i)
    BY DEF Open, StateOf, DoneFanin
  <1>3. \A i : StepOf(i)' = StepOf(i)
    BY <1>2 DEF StepOf
  <1>4. \A i : Asked(i)' = Asked(i)
    BY <1>1, <1>3 DEF Asked, RequestAt
  <1>5. \A i, x : Given(i, x)' = Given(i, x) /\ AdvancedAt(i, x)' = AdvancedAt(i, x)
    BY <1>2, <1>3, <1>4 DEF Given, AdvancedAt
  <1>6. \A i : ParkedAt(i)' = ParkedAt(i)
    BY <1>2, <1>3, <1>4, <1>5 DEF ParkedAt
  <1>7. \A ws : Outcome(ws)' = Outcome(ws)
    BY <1>1 DEF Outcome
  <1> QED
    BY <1>1, <1>2, <1>3, <1>4, <1>5, <1>6, <1>7

-----------------------------------------------------------------------------
(* What each part of the invariant depends on.                             *)

\* What the open stage finds depends on the bindings and on the checkpoints, not on the head.
LEMMA FrontierKept ==
    ASSUME FrontierInv, UNCHANGED <<adapter, ledger, completed, bound, deferred, checkpoint, member>>
    PROVE  FrontierInv'
  BY SameStages DEF FrontierInv, OpenInv, AskingInv, FanningInv, Entry, Placeholder, Merged

\* Whether the chain of stages has broken depends on the ledger and on the bindings.
LEMMA ChainKept ==
    ASSUME ChainInv, UNCHANGED <<adapter, ledger, bound, member>>
    PROVE  ChainInv'
  BY SameStages DEF ChainInv, Ended, Placeholder

\* What holds of the fan-ins that are done survives the binding of heads.
LEMMA FaninsKept ==
    ASSUME FaninsInv, UNCHANGED <<adapter, ledger, bound>>, heads \subseteq heads'
    PROVE  FaninsInv'
  <1> SUFFICES ASSUME NEW j \in DOMAIN ledger, DoneFanin(j)
               PROVE  /\ ledger[j].input.stage = j /\ ledger[j].input.origin + Rows + 1 = j
                      /\ Calm => \A k \in 1 .. ledger[j].input.step : Entry(ledger[j].input.refs[k], k - 1)
                      /\ ~SameStepResume => bound[ledger[j].input.step] = Merged(ledger[j].input)
                      /\ SameStepResume => \E h \in heads' : h.stage = j + 1 /\ h.step = ledger[j].input.step
                      /\ \A i \in DOMAIN ledger : Open(i) =>
                            /\ ledger[j].input.step <= StepOf(i)
                            /\ ~SameStepResume => ledger[j].input.step < StepOf(i)
                            /\ ledger[j].input.step = StepOf(i) => ledger[j].input.refs = StateOf(i).refs
    BY SameStages DEF FaninsInv, Entry, Placeholder, Merged
  <1> QED
    BY DEF FaninsInv

\* What holds of the heads survives the eviction of the head.
LEMMA HeadsKept ==
    ASSUME HeadsInv, UNCHANGED <<adapter, ledger, bound, deferred, heads>>, head' \in {None, head}
    PROVE  HeadsInv'
  BY SameStages DEF HeadsInv, Behind, Placeholder

\* No evaluation is lost by a resolution.
LEMMA EvaluationsKept ==
    ASSUME EvaluationsInv, UNCHANGED <<adapter, ledger, checkpoint>>, resolved \subseteq resolved'
    PROVE  EvaluationsInv'
  BY SameStages DEF EvaluationsInv

\* How far a head may be depends on the ledger and on the checkpoints.
LEMMA ReachedKept ==
    ASSUME UNCHANGED <<adapter, ledger, checkpoint>>, NEW h, NEW i
    PROVE  Reached(h, i)' <=> Reached(h, i)
  <1>1. /\ Asked(i)' = Asked(i) /\ ParkedAt(i)' = ParkedAt(i)
        /\ AdvancedAt(i, Given(i, checkpoint[Asked(i)]))' = AdvancedAt(i, Given(i, checkpoint[Asked(i)]))
    <2>1. Asked(i)' = Asked(i) /\ ParkedAt(i)' = ParkedAt(i)
      BY SameStages
    <2>2. (checkpoint[Asked(i)])' = checkpoint[Asked(i)]
      BY <2>1
    <2>3. Given(i, checkpoint[Asked(i)])' = Given(i, checkpoint[Asked(i)])
      BY <2>1, <2>2 DEF Given
    <2>4. StateOf(i)' = StateOf(i) /\ StepOf(i)' = StepOf(i)
      BY SameStages
    <2> QED
      BY <2>1, <2>3, <2>4 DEF AdvancedAt
  <1> QED
    BY <1>1 DEF Reached

\* The watermark depends on nothing else and on the heads.
LEMMA WatermarkKept ==
    ASSUME WatermarkInv, UNCHANGED <<adapter, ledger, checkpoint, heads>>
    PROVE  WatermarkInv'
  BY SameStages, ReachedKept DEF WatermarkInv

-----------------------------------------------------------------------------
(* The writes, and what each needs to keep the invariant.                  *)

\* What every write leaves alone.
Static == UNCHANGED <<adapter, ledger, completed>>

\* The head is evicted.
LEMMA EvictHeadKeeps ==
    ASSUME RecoveryInv, Static, head' \in {None, head},
           UNCHANGED <<heads, bound, deferred, checkpoint, resolved, member>>
    PROVE  RecoveryInv'
  BY FrontierKept, ChainKept, FaninsKept, HeadsKept, EvaluationsKept, WatermarkKept
     DEF RecoveryInv, Static

\* A head is bound that is in its place among the others.
InPlace(s) ==
    /\ s.pend # None => s.stage = s.origin + Rows + 1
    /\ Calm => \A k \in 1 .. s.step : s.refs[k].req.step = k - 1 /\ ~Placeholder(s.refs[k])
    /\ SameStepResume => \A i \in DOMAIN ledger : Open(i) => Behind(s, i)

\* A head that is in its place and within reach is bound.
LEMMA BindHeadKeeps ==
    ASSUME RecoveryInv, Static, NEW s, head' = s, heads' = heads \cup {s},
           UNCHANGED <<bound, deferred, checkpoint, resolved, member>>,
           InPlace(s),
           Calm /\ SameStepResume => \A i \in DOMAIN ledger : Open(i) => Reached(s, i)
    PROVE  RecoveryInv'
  <1>1. FrontierInv' /\ ChainInv' /\ FaninsInv' /\ EvaluationsInv'
    BY FrontierKept, ChainKept, FaninsKept, EvaluationsKept DEF RecoveryInv, Static
  <1>2. HeadsInv'
    <2>1. UNCHANGED <<adapter, ledger>> /\ HeadsInv
      BY DEF Static, RecoveryInv
    <2>2. \A h, i : Behind(h, i)' <=> Behind(h, i)
      BY <2>1, SameStages DEF Behind
    <2> QED
      BY <2>1, <2>2, SameStages DEF HeadsInv, InPlace, Placeholder
  <1>3. WatermarkInv'
    <2>1. \A h, i : Reached(h, i)' <=> Reached(h, i)
      BY ReachedKept DEF Static
    <2> QED
      BY <2>1, SameStages DEF WatermarkInv, RecoveryInv, Static
  <1> QED
    BY <1>1, <1>2, <1>3 DEF RecoveryInv

\* The result of the open optim_step is bound or evicted.
LEMMA StepResultKeeps ==
    ASSUME IInv, RecoveryInv, Static, NEW i, Open(i), ledger[i].kind = "optim_step", NEW new,
           \A k \in Steps : bound'[k] = IF k = StepOf(i) THEN new ELSE bound[k],
           UNCHANGED <<head, heads, deferred, checkpoint, resolved, member>>,
           member = None \/ new = bound[StepOf(i)],
           bound[StepOf(i)] # None /\ new # bound[StepOf(i)] => deferred[StepOf(i)] # None,
           new # None =>
            /\ Asked(i) \in DOMAIN checkpoint /\ new = Given(i, checkpoint[Asked(i)])
            /\ Calm /\ checkpoint[Asked(i)] = "defer" => deferred[StepOf(i)] # None
    PROVE  RecoveryInv'
  <1>1. UNCHANGED <<adapter, ledger>> /\ i \in DOMAIN ledger
    BY DEF Static, Open
  <1>2. FrontierInv /\ ChainInv /\ FaninsInv /\ HeadsInv /\ EvaluationsInv /\ WatermarkInv
    BY DEF RecoveryInv
  <1>3. StepOf(i) \in Steps /\ StepOf(i) \in Nat /\ OpenInv(i)
    BY <1>2, OpenState
  <1>4. \A k \in Steps : bound'[k] = IF k = StepOf(i) THEN new ELSE bound[k]
    OBVIOUS
  <1>5. \A j : Open(j) => j = i
    BY OneOpen
  <1>6. EvaluationsInv' /\ WatermarkInv'
    BY <1>1, <1>2, EvaluationsKept, WatermarkKept
  <1>7. FrontierInv'
    <2>1. \A k \in 1 .. StepOf(i) : bound'[k - 1] = bound[k - 1]
      BY <1>3, <1>4, StepsFacts DEF Steps
    <2>2. OpenInv(i)'
      BY <1>1, <1>3, <1>4, <2>1, SameStages DEF OpenInv, Entry, Placeholder, Static
    <2>3. AskingInv(i)
      BY <1>1, <1>2 DEF FrontierInv
    <2>4. AskingInv(i)'
      BY <1>1, <1>3, <1>4, <2>3, SameStages DEF AskingInv
    <2> QED
      BY <1>1, <1>2, <1>5, <2>2, <2>4, SameStages DEF FrontierInv
  <1>8. ChainInv'
    BY <1>1, SameStages DEF ChainInv
  <1>9. FaninsInv'
    <2>1. ASSUME NEW j \in DOMAIN ledger, DoneFanin(j), ~SameStepResume
          PROVE  bound'[ledger[j].input.step] = bound[ledger[j].input.step]
      <3>1. ledger[j].input.step < StepOf(i)
        BY <1>1, <1>2, <2>1 DEF FaninsInv
      <3>2. ledger[j].input.step \in Steps
        BY <2>1 DEF IInv, StoreInv, LedgerInv, StageInv, StateInv, WorkState, DoneFanin
      <3>3. ledger[j].input.step # StepOf(i)
        BY <1>3, <3>1, <3>2, StepsFacts
      <3> QED
        BY <1>4, <3>2, <3>3
    <2> QED
      BY <1>1, <1>2, <2>1, SameStages DEF FaninsInv, Entry, Placeholder, Merged
  <1>10. HeadsInv'
    <2>1. ASSUME NEW h, Behind(h, i) PROVE Behind(h, i)'
      BY <1>1, <1>3, <1>4, <2>1, SameStages DEF Behind
    <2> QED
      BY <1>1, <1>2, <1>5, <2>1, SameStages DEF HeadsInv, Placeholder
  <1> QED
    BY <1>6, <1>7, <1>8, <1>9, <1>10 DEF RecoveryInv

\* The merged result of an open fan-in is bound.
LEMMA MergedResultKeeps ==
    ASSUME IInv, RecoveryInv, Static, NEW i, Open(i), ledger[i].kind = "eval_fanin", ~SameStepResume,
           \A k \in Steps : bound'[k] = IF k = StepOf(i) THEN Merged(StateOf(i)) ELSE bound[k],
           UNCHANGED <<head, heads, deferred, checkpoint, resolved, member>>
    PROVE  RecoveryInv'
  <1>1. UNCHANGED <<adapter, ledger>> /\ i \in DOMAIN ledger
    BY DEF Static, Open
  <1>2. FrontierInv /\ ChainInv /\ FaninsInv /\ HeadsInv /\ EvaluationsInv /\ WatermarkInv
    BY DEF RecoveryInv
  <1>3. StepOf(i) \in Steps /\ StepOf(i) \in Nat /\ OpenInv(i)
    BY <1>2, OpenState
  <1>4. \A k \in Steps : bound'[k] = IF k = StepOf(i) THEN Merged(StateOf(i)) ELSE bound[k]
    OBVIOUS
  <1>5. \A j : Open(j) => j = i
    BY OneOpen
  <1>6. EvaluationsInv' /\ WatermarkInv'
    BY <1>1, <1>2, EvaluationsKept, WatermarkKept
  <1>7. FrontierInv'
    <2>1. \A k \in 1 .. StepOf(i) : bound'[k - 1] = bound[k - 1]
      BY <1>3, <1>4, StepsFacts DEF Steps
    <2>2. OpenInv(i)'
      BY <1>1, <1>3, <1>4, <2>1, SameStages DEF OpenInv, Entry, Placeholder, Static
    <2>3. FanningInv(i)
      BY <1>1, <1>2 DEF FrontierInv
    <2>5. Merged(StateOf(i))' = Merged(StateOf(i)) /\ (bound[StepOf(i)])' = Merged(StateOf(i))
      BY <1>1, <1>3, <1>4, SameStages DEF Merged
    <2>4. FanningInv(i)'
      BY <1>1, <2>3, <2>5, SameStages DEF FanningInv
    <2> QED
      BY <1>1, <1>2, <1>5, <2>2, <2>4, SameStages DEF FrontierInv
  <1>8. ChainInv'
    BY <1>1, SameStages DEF ChainInv
  <1>9. FaninsInv'
    <2>1. ASSUME NEW j \in DOMAIN ledger, DoneFanin(j)
          PROVE  bound'[ledger[j].input.step] = bound[ledger[j].input.step]
      <3>1. ledger[j].input.step < StepOf(i)
        BY <1>1, <1>2, <2>1 DEF FaninsInv
      <3>2. ledger[j].input.step \in Steps
        BY <2>1 DEF IInv, StoreInv, LedgerInv, StageInv, StateInv, WorkState, DoneFanin
      <3>3. ledger[j].input.step # StepOf(i)
        BY <1>3, <3>1, <3>2, StepsFacts
      <3> QED
        BY <1>4, <3>2, <3>3
    <2> QED
      BY <1>1, <1>2, <2>1, SameStages DEF FaninsInv, Entry, Placeholder, Merged
  <1>10. HeadsInv'
    BY <1>1, <1>2, SameStages DEF HeadsInv, Placeholder
  <1> QED
    BY <1>6, <1>7, <1>8, <1>9, <1>10 DEF RecoveryInv

\* The intents of the open optim_step are bound: its result is not bound yet, or they
\* were bound before.
LEMMA BindIntentsKeeps ==
    ASSUME IInv, RecoveryInv, Static, NEW i, Open(i), ledger[i].kind = "optim_step", NEW r, r # None,
           \A k \in Steps : deferred'[k] = IF k = StepOf(i) THEN r ELSE deferred[k],
           UNCHANGED <<head, heads, bound, checkpoint, resolved, member>>,
           bound[StepOf(i)] = None \/ deferred[StepOf(i)] # None
    PROVE  RecoveryInv'
  <1>1. UNCHANGED <<adapter, ledger>> /\ i \in DOMAIN ledger
    BY DEF Static, Open
  <1>2. FrontierInv /\ ChainInv /\ FaninsInv /\ HeadsInv /\ EvaluationsInv /\ WatermarkInv
    BY DEF RecoveryInv
  <1>3. StepOf(i) \in Steps
    BY <1>2, OpenState
  <1>4. \A k \in Steps : deferred'[k] = IF k = StepOf(i) THEN r ELSE deferred[k]
    OBVIOUS
  <1>5. \A j : Open(j) => j = i
    BY OneOpen
  <1>6. ChainInv' /\ FaninsInv' /\ EvaluationsInv' /\ WatermarkInv'
    BY <1>1, <1>2, ChainKept, FaninsKept, EvaluationsKept, WatermarkKept
  <1>7. FrontierInv'
    <2>1. OpenInv(i)' /\ AskingInv(i)'
      BY <1>1, <1>2, <1>3, <1>4, SameStages DEF FrontierInv, OpenInv, AskingInv, Entry, Placeholder, Static
    <2> QED
      BY <1>1, <1>2, <1>4, <1>5, <2>1, SameStages DEF FrontierInv
  <1>8. HeadsInv'
    <2>1. ASSUME NEW h, Behind(h, i) PROVE Behind(h, i)'
      BY <1>1, <1>3, <1>4, <2>1, SameStages DEF Behind
    <2> QED
      BY <1>1, <1>2, <1>5, <2>1, SameStages DEF HeadsInv, Placeholder
  <1> QED
    BY <1>6, <1>7, <1>8 DEF RecoveryInv

\* Intents are evicted; unless faults mix, those of no bound result.
LEMMA EvictIntentsKeeps ==
    ASSUME IInv, RecoveryInv, Static, NEW k \in Steps,
           \A h \in Steps : deferred'[h] = IF h = k THEN None ELSE deferred[h],
           UNCHANGED <<head, heads, bound, checkpoint, resolved, member>>,
           Calm /\ deferred[k] # None => bound[k] = None
    PROVE  RecoveryInv'
  <1>1. UNCHANGED <<adapter, ledger>>
    BY DEF Static
  <1>2. FrontierInv /\ ChainInv /\ FaninsInv /\ HeadsInv /\ EvaluationsInv /\ WatermarkInv
    BY DEF RecoveryInv
  <1>4. \A h \in Steps : deferred'[h] = IF h = k THEN None ELSE deferred[h]
    OBVIOUS
  <1>6. ChainInv' /\ FaninsInv' /\ EvaluationsInv' /\ WatermarkInv'
    BY <1>1, <1>2, ChainKept, FaninsKept, EvaluationsKept, WatermarkKept
  <1>7. FrontierInv'
    <2>1. ASSUME NEW i \in DOMAIN ledger, Open(i)
          PROVE  /\ OpenInv(i)'
                 /\ ledger[i].kind = "optim_step" => AskingInv(i)'
                 /\ ledger[i].kind = "eval_fanin" => FanningInv(i)'
      <3>1. StepOf(i) \in Steps
        BY <1>2, <2>1, OpenState
      <3> QED
        BY <1>1, <1>2, <1>4, <2>1, <3>1, SameStages
           DEF FrontierInv, OpenInv, AskingInv, FanningInv, Entry, Placeholder, Static, Merged
    <2> QED
      BY <1>1, <1>2, <1>4, <2>1, SameStages DEF FrontierInv
  <1>8. HeadsInv'
    <2>1. ASSUME NEW h, NEW i, Open(i), Behind(h, i) PROVE Behind(h, i)'
      <3>1. StepOf(i) \in Steps
        BY <1>2, <2>1, OpenState
      <3> QED
        BY <1>1, <1>4, <2>1, <3>1, SameStages DEF Behind
    <2> QED
      BY <1>1, <1>2, <2>1, SameStages DEF HeadsInv, Placeholder
  <1> QED
    BY <1>6, <1>7, <1>8 DEF RecoveryInv

\* The answer of the open optim_step is checkpointed, for the first time or again.
LEMMA CheckpointKeeps ==
    ASSUME IInv, RecoveryInv, Static, NEW i, Open(i), ledger[i].kind = "optim_step", NEW out,
           DOMAIN checkpoint' = DOMAIN checkpoint \cup {Asked(i)}, checkpoint'[Asked(i)] = out,
           \A q \in DOMAIN checkpoint : q # Asked(i) => checkpoint'[q] = checkpoint[q],
           Asked(i) \in DOMAIN checkpoint => checkpoint[Asked(i)] = out,
           UNCHANGED <<head, heads, bound, deferred, resolved, member>>
    PROVE  RecoveryInv'
  <1>1. UNCHANGED <<adapter, ledger>> /\ i \in DOMAIN ledger
    BY DEF Static, Open
  <1>2. FrontierInv /\ ChainInv /\ FaninsInv /\ HeadsInv /\ EvaluationsInv /\ WatermarkInv
    BY DEF RecoveryInv
  <1>4. /\ DOMAIN checkpoint' = DOMAIN checkpoint \cup {Asked(i)}
        /\ \A q \in DOMAIN checkpoint : checkpoint'[q] = checkpoint[q]
    OBVIOUS
  <1>5. \A j : Open(j) => j = i
    BY OneOpen
  <1>6. ChainInv' /\ FaninsInv' /\ HeadsInv'
    BY <1>1, <1>2, ChainKept, FaninsKept, HeadsKept
  <1>7. FrontierInv'
    <2>1. OpenInv(i)' /\ AskingInv(i)'
      BY <1>1, <1>2, <1>4, SameStages DEF FrontierInv, OpenInv, AskingInv, Entry, Placeholder, Static
    <2> QED
      BY <1>1, <1>2, <1>5, <2>1, SameStages DEF FrontierInv
  <1>8. EvaluationsInv'
    <2>1. ASSUME Calm, NEW r \in DOMAIN checkpoint', checkpoint'[r] = "defer"
          PROVE  \/ r \in resolved
                 \/ \E j \in DOMAIN ledger :
                        /\ Open(j)
                        /\ r = IF ledger[j].kind = "eval_fanin" THEN StateOf(j).intents ELSE Asked(j)
      <3>1. CASE r = Asked(i)
        BY <1>1, <3>1
      <3>2. CASE r # Asked(i)
        BY <1>2, <1>4, <2>1, <3>2 DEF EvaluationsInv
      <3> QED
        BY <3>1, <3>2
    <2>2. UNCHANGED <<adapter, ledger, resolved>>
      BY <1>1
    <2>3. /\ Calm' = Calm
          /\ \A j : /\ Open(j)' <=> Open(j)
                    /\ StateOf(j)' = StateOf(j) /\ Asked(j)' = Asked(j)
      BY <1>1, SameStages
    <2> HIDE DEF Calm
    <2> QED
      BY <2>1, <2>2, <2>3 DEF EvaluationsInv
  <1>9. WatermarkInv'
    <2>1. ASSUME NEW h, Reached(h, i) PROVE Reached(h, i)'
      <3>1. Asked(i)' = Asked(i) /\ ParkedAt(i)' = ParkedAt(i)
        BY <1>1, SameStages
      <3>2. Asked(i) \in DOMAIN checkpoint =>
              /\ (checkpoint[Asked(i)])' = checkpoint[Asked(i)]
              /\ AdvancedAt(i, Given(i, checkpoint[Asked(i)]))' = AdvancedAt(i, Given(i, checkpoint[Asked(i)]))
        <4>1. SUFFICES ASSUME Asked(i) \in DOMAIN checkpoint
                       PROVE  /\ (checkpoint[Asked(i)])' = checkpoint[Asked(i)]
                              /\ AdvancedAt(i, Given(i, checkpoint[Asked(i)]))' = AdvancedAt(i, Given(i, checkpoint[Asked(i)]))
          OBVIOUS
        <4>2. (checkpoint[Asked(i)])' = checkpoint[Asked(i)]
          BY <1>4, <3>1, <4>1
        <4>3. Given(i, checkpoint[Asked(i)])' = Given(i, checkpoint[Asked(i)])
          BY <3>1, <4>2 DEF Given
        <4>4. StateOf(i)' = StateOf(i) /\ StepOf(i)' = StepOf(i)
          BY <1>1, SameStages
        <4> QED
          BY <4>2, <4>3, <4>4 DEF AdvancedAt
      <3> QED
        BY <1>1, <1>4, <2>1, <3>1, <3>2 DEF Reached
    <2> QED
      BY <1>1, <1>2, <1>5, <2>1, SameStages DEF WatermarkInv
  <1> QED
    BY <1>6, <1>7, <1>8, <1>9 DEF RecoveryInv

\* The intents of an episode are resolved.
LEMMA ResolveKeeps ==
    ASSUME RecoveryInv, Static, resolved \subseteq resolved',
           UNCHANGED <<head, heads, bound, deferred, checkpoint, member>>
    PROVE  RecoveryInv'
  BY FrontierKept, ChainKept, FaninsKept, HeadsKept, EvaluationsKept, WatermarkKept
     DEF RecoveryInv, Static

\* The open optim_step binds the state its stopping result ends the run in.
LEMMA BindMemberKeeps ==
    ASSUME IInv, RecoveryInv, Static, NEW i, Open(i), ledger[i].kind = "optim_step",
           bound[StepOf(i)] # None, bound[StepOf(i)].out = "stop",
           member' = AdvancedAt(i, bound[StepOf(i)]),
           UNCHANGED <<head, heads, bound, deferred, checkpoint, resolved>>
    PROVE  RecoveryInv'
  <1>1. UNCHANGED <<adapter, ledger>> /\ i \in DOMAIN ledger
    BY DEF Static, Open
  <1>2. FrontierInv /\ ChainInv /\ FaninsInv /\ HeadsInv /\ EvaluationsInv /\ WatermarkInv
    BY DEF RecoveryInv
  <1>3. FaninsInv' /\ HeadsInv' /\ EvaluationsInv' /\ WatermarkInv'
    BY <1>1, <1>2, FaninsKept, HeadsKept, EvaluationsKept, WatermarkKept
  <1>4. ChainInv'
    BY <1>1, SameStages DEF ChainInv
  <1>5. \A j : Open(j) => j = i
    BY OneOpen
  <1>6. OpenInv(i)' /\ AskingInv(i)'
    BY <1>1, <1>2, SameStages DEF FrontierInv, OpenInv, AskingInv, Entry, Placeholder, Static
  <1>7. FrontierInv'
    BY <1>1, <1>2, <1>5, <1>6, SameStages DEF FrontierInv
  <1> QED
    BY <1>3, <1>4, <1>7 DEF RecoveryInv

-----------------------------------------------------------------------------
(* The attempt writes.                                                     *)

\* The attempt is one write further.
Moved ==
    /\ job'.idx = job.idx /\ job'.todo = Tail(job.todo) /\ job'.successors = job.successors
    /\ job' = [idx |-> job.idx, todo |-> Tail(job.todo), successors |-> job.successors]
    /\ raised' = raised

\* What a write does, by its name, where the key it binds is free or equal.
LEMMA WriteEffect ==
    ASSUME IInv, Write, NEW w, w = Head(job.todo)
    PROVE  /\ Static /\ UNCHANGED environment /\ job # None /\ job.todo # << >>
           /\ w.op = "evictHead" =>
                Moved /\ head' = None /\ UNCHANGED <<heads, bound, deferred, checkpoint, resolved, member>>
           /\ w.op = "bindHead" =>
                /\ Moved /\ head' = w.to /\ heads' = heads \cup {w.to}
                /\ UNCHANGED <<bound, deferred, checkpoint, resolved, member>>
           /\ w.op = "evictResult" =>
                /\ Moved /\ (\A h \in Steps : bound'[h] = IF h = w.step THEN None ELSE bound[h])
                /\ UNCHANGED <<head, heads, deferred, checkpoint, resolved, member>>
           /\ w.op = "bindResult" /\ bound[w.step] \in {None, w.to} =>
                /\ Moved /\ (\A h \in Steps : bound'[h] = IF h = w.step THEN w.to ELSE bound[h])
                /\ UNCHANGED <<head, heads, deferred, checkpoint, resolved, member>>
           /\ w.op = "evictIntents" =>
                /\ Moved /\ (\A h \in Steps : deferred'[h] = IF h = w.step THEN None ELSE deferred[h])
                /\ UNCHANGED <<head, heads, bound, checkpoint, resolved, member>>
           /\ w.op = "bindIntents" /\ deferred[w.step] \in {None, w.to} =>
                /\ Moved /\ (\A h \in Steps : deferred'[h] = IF h = w.step THEN w.to ELSE deferred[h])
                /\ UNCHANGED <<head, heads, bound, checkpoint, resolved, member>>
           /\ w.op = "checkpoint" =>
                /\ Moved
                /\ DOMAIN checkpoint' = DOMAIN checkpoint \cup {w.req} /\ checkpoint'[w.req] = w.to
                /\ \A q \in DOMAIN checkpoint : q # w.req => checkpoint'[q] = checkpoint[q]
                /\ UNCHANGED <<head, heads, bound, deferred, resolved, member>>
           /\ w.op = "resolve" =>
                /\ Moved /\ resolved' = resolved \cup {w.req}
                /\ UNCHANGED <<head, heads, bound, deferred, checkpoint, member>>
           /\ w.op = "bindMember" /\ member \in {None, w.to} =>
                /\ Moved /\ member' = w.to
                /\ UNCHANGED <<head, heads, bound, deferred, checkpoint, resolved>>
  <1>1. Static /\ UNCHANGED environment /\ job # None /\ job.todo # << >>
    BY DEF Write, Static
  <1>2. job = [idx |-> job.idx, todo |-> job.todo, successors |-> job.successors]
    BY <1>1 DEF IInv, JobInv
  <1>3. job' = [job EXCEPT !.todo = Tail(@)] /\ raised' = raised => Moved
    BY <1>2 DEF Moved
  <1>4. \/ /\ WriteHead(w) \/ WriteResult(w) \/ WriteIntents(w)
              \/ WriteCheckpoint(w) \/ WriteResolution(w) \/ WriteMember(w)
           /\ Moved
        \/ Conflict(w)
    BY <1>3 DEF Write
  <1> HIDE DEF Moved
  <1>5. ~(\/ w.op = "bindResult" /\ ~(bound[w.step] \in {None, w.to})
          \/ w.op = "bindIntents" /\ ~(deferred[w.step] \in {None, w.to})
          \/ w.op = "bindMember" /\ ~(member \in {None, w.to}))
        => /\ WriteHead(w) \/ WriteResult(w) \/ WriteIntents(w)
              \/ WriteCheckpoint(w) \/ WriteResolution(w) \/ WriteMember(w)
           /\ Moved
    BY <1>4 DEF Conflict, Bindable
  <1>6. /\ \A k, x : bound' = [bound EXCEPT ![k] = x] => \A h \in Steps : bound'[h] = IF h = k THEN x ELSE bound[h]
        /\ \A k, x : deferred' = [deferred EXCEPT ![k] = x] =>
            \A h \in Steps : deferred'[h] = IF h = k THEN x ELSE deferred[h]
    BY DEF IInv, StoreInv, TypeOK
  <1>7. WriteCheckpoint(w) =>
            /\ DOMAIN checkpoint' = DOMAIN checkpoint \cup {w.req} /\ checkpoint'[w.req] = w.to
            /\ \A q \in DOMAIN checkpoint : q # w.req => checkpoint'[q] = checkpoint[q]
            /\ UNCHANGED <<head, heads, bound, deferred, resolved, member>>
    BY DEF WriteCheckpoint
  <1>8. WriteResult(w) =>
            /\ UNCHANGED <<head, heads, deferred, checkpoint, resolved, member>>
            /\ w.op = "evictResult" => \A h \in Steps : bound'[h] = IF h = w.step THEN None ELSE bound[h]
            /\ w.op = "bindResult" => \A h \in Steps : bound'[h] = IF h = w.step THEN w.to ELSE bound[h]
            /\ w.op \in {"evictResult", "bindResult"}
    BY <1>6 DEF WriteResult
  <1>9. WriteIntents(w) =>
            /\ UNCHANGED <<head, heads, bound, checkpoint, resolved, member>>
            /\ w.op = "evictIntents" => \A h \in Steps : deferred'[h] = IF h = w.step THEN None ELSE deferred[h]
            /\ w.op = "bindIntents" => \A h \in Steps : deferred'[h] = IF h = w.step THEN w.to ELSE deferred[h]
            /\ w.op \in {"evictIntents", "bindIntents"}
    BY <1>6 DEF WriteIntents
  <1>10. WriteCheckpoint(w) => w.op = "checkpoint"
    BY DEF WriteCheckpoint
  <1>11. WriteHead(w) =>
            /\ w.op \in {"evictHead", "bindHead"}
            /\ w.op = "evictHead" => head' = None /\ UNCHANGED heads
            /\ w.op = "bindHead" => head' = w.to /\ heads' = heads \cup {w.to}
            /\ UNCHANGED <<bound, deferred, checkpoint, resolved, member>>
    BY DEF WriteHead
  <1>12. WriteResolution(w) =>
            /\ w.op = "resolve" /\ resolved' = resolved \cup {w.req}
            /\ UNCHANGED <<head, heads, bound, deferred, checkpoint, member>>
    BY DEF WriteResolution
  <1>13. WriteMember(w) =>
            /\ w.op = "bindMember" /\ member' = w.to
            /\ UNCHANGED <<head, heads, bound, deferred, checkpoint, resolved>>
    BY DEF WriteMember
  <1> QED
    BY <1>1, <1>5, <1>7, <1>8, <1>9, <1>10, <1>11, <1>12, <1>13

\* Intents deferred where the open optim_step stands are its own.
LEMMA DeferredAsked ==
    ASSUME IInv, FrontierInv, NEW k \in Steps, deferred[k] # None
    PROVE  \E i : /\ Open(i) /\ ledger[i].kind = "optim_step" /\ StepOf(i) = k
                  /\ deferred[k] = Asked(i) /\ Asked(i) \in DOMAIN checkpoint /\ checkpoint[Asked(i)] = "defer"
  <1>1. PICK i \in DOMAIN ledger : DeferringAt(i, k) /\ deferred[k] = RequestAt(i, k)
    BY DEF IInv, StoreInv, DeferredInv
  <1>2. Open(i) /\ ledger[i].kind = "optim_step"
    BY <1>1 DEF DeferringAt, Open
  <1>3. PICK j \in DOMAIN ledger : Open(j) /\ StepOf(j) = k
    BY DEF FrontierInv
  <1>4. i = j
    BY <1>2, <1>3, OneOpen
  <1>5. deferred[k] = Asked(i)
    BY <1>1, <1>3, <1>4 DEF Asked
  <1>6. deferred[k] \in DOMAIN checkpoint /\ checkpoint[deferred[k]] = "defer"
    BY DEF IInv, StoreInv, DeferredInv
  <1> QED
    BY <1>2, <1>3, <1>4, <1>5, <1>6

\* The history an open stage starts from.
LEMMA OpenHistory ==
    ASSUME IInv, FrontierInv, NEW i, Open(i), Calm
    PROVE  \A k \in 1 .. StepOf(i) : StateOf(i).refs[k].req.step = k - 1 /\ ~Placeholder(StateOf(i).refs[k])
  BY OpenState DEF OpenInv, Entry

\* An attempt that parks writes.
LEMMA ParkingMoves ==
    ASSUME IInv, RecoveryInv, Write, NEW i, Open(i), ledger[i].kind = "optim_step",
           NEW n \in 1 .. 9, ParkingAt(i, n)
    PROVE  n # 9 /\ Moved /\ RecoveryInv' /\ ParkingAt(i, n + 1)'
  <1>1. FrontierInv /\ HeadsInv
    BY DEF RecoveryInv
  <1>2. /\ i \in Nat /\ i \in DOMAIN ledger /\ StepOf(i) \in Steps /\ StepOf(i) \in Nat
        /\ Asked(i) \in Request /\ Asked(i) # None
        /\ Given(i, "defer") \in Result /\ Given(i, "defer") # None
    <2>1. "defer" \in Output
      BY DEF Output
    <2> QED
      BY <1>1, <2>1, OpenState, AskedFacts, ConstantsAssumption
  <1> DEFINE plan == Parking8(i)
             w == Head(job.todo)
  <1>3. plan \in Seq({plan[m] : m \in 1 .. 8}) /\ Len(plan) = 8
    BY DEF Parking8
  <1>4. /\ n <= 8 => w = plan[n] /\ Tail(job.todo) = SubSeq(plan, n + 1, 8)
        /\ n = 9 => job.todo = << >>
    <2>1. job.todo = SubSeq(plan, n, 8)
      BY DEF ParkingAt
    <2> HIDE DEF plan
    <2> QED
      BY <1>3, <2>1, Suffix, 8 \in 0 .. Len(plan), n \in 1 .. 8 + 1
  <1>5. n \in 1 .. 8
    <2>1. job.todo # << >>
      BY DEF Write
    <2> QED
      BY <1>4, <2>1
  <1>6. /\ plan[1] = [op |-> "checkpoint", req |-> Asked(i), to |-> "defer"]
        /\ plan[2] = [op |-> "bindIntents", step |-> StepOf(i), to |-> Asked(i)]
        /\ plan[3] = [op |-> "bindResult", step |-> StepOf(i), to |-> Given(i, "defer")]
        /\ plan[4] = [op |-> "bindIntents", step |-> StepOf(i), to |-> Asked(i)]
        /\ plan[5] = [op |-> "evictHead"]
        /\ plan[6] = [op |-> "bindHead", to |-> ParkedAt(i)]
        /\ plan[7] = [op |-> "evictResult", step |-> StepOf(i)]
        /\ plan[8] = [op |-> "evictIntents", step |-> StepOf(i)]
    BY DEF Parking8
  <1>7. /\ plan' = plan /\ Asked(i)' = Asked(i) /\ StepOf(i)' = StepOf(i) /\ ParkedAt(i)' = ParkedAt(i)
        /\ FanOut(ParkedAt(i))' = FanOut(ParkedAt(i)) /\ Given(i, "defer")' = Given(i, "defer")
    <2>1. UNCHANGED <<adapter, ledger>>
      BY DEF Write
    <2> QED
      BY <2>1, SameStages DEF Parking8, FanOut
  <1> HIDE DEF plan, w
  <1>8. Static
    BY WriteEffect
  <1>9. deferred[StepOf(i)] \in {None, Asked(i)}
    BY <1>1, <1>2, DeferredAsked, OneOpen
  <1>11. Moved => job'.todo = SubSeq(plan, n + 1, 8)' /\ job'.successors = FanOut(ParkedAt(i))'
    <2>1. job.successors = FanOut(ParkedAt(i)) /\ SubSeq(plan, n + 1, 8)' = SubSeq(plan, n + 1, 8)
      BY <1>7 DEF ParkingAt
    <2> QED
      BY <1>4, <1>5, <1>7, <2>1 DEF Moved
  <1>12. /\ job.successors = FanOut(ParkedAt(i)) /\ member = None
         /\ Asked(i) \in DOMAIN checkpoint => checkpoint[Asked(i)] = "defer"
         /\ n >= 2 => Asked(i) \in DOMAIN checkpoint
         /\ 3 <= n /\ n <= 8 => deferred[StepOf(i)] = Asked(i)
         /\ 4 <= n /\ n <= 7 => bound[StepOf(i)] = Given(i, "defer")
         /\ n < 4 \/ 7 < n => bound[StepOf(i)] = None
         /\ n >= 7 => head = ParkedAt(i)
    BY <1>5 DEF ParkingAt
  <1>13. CASE n = 1
    <2>1. w.op = "checkpoint" /\ w.req = Asked(i) /\ w.to = "defer"
      BY <1>4, <1>6, <1>13
    <2>2. /\ Moved
          /\ DOMAIN checkpoint' = DOMAIN checkpoint \cup {Asked(i)} /\ checkpoint'[Asked(i)] = "defer"
          /\ \A q \in DOMAIN checkpoint : q # Asked(i) => checkpoint'[q] = checkpoint[q]
          /\ UNCHANGED <<head, heads, bound, deferred, resolved, member>>
      BY <2>1, WriteEffect DEF w
    <2>3. RecoveryInv'
      BY <1>8, <1>12, <2>2, CheckpointKeeps
    <2>4. Asked(i) \in DOMAIN checkpoint' /\ checkpoint'[Asked(i)] = "defer"
      BY <2>2
    <2>5. ParkingAt(i, n + 1)'
      BY <1>7, <1>11, <1>12, <1>13, <2>2, <2>4 DEF ParkingAt, plan
    <2> QED
      BY <1>13, <2>2, <2>3, <2>5
  <1>14. CASE n \in {2, 4}
    <2>1. w.op = "bindIntents" /\ w.step = StepOf(i) /\ w.to = Asked(i)
      BY <1>4, <1>6, <1>14
    <2>6. /\ Moved /\ (\A h \in Steps : deferred'[h] = IF h = w.step THEN w.to ELSE deferred[h])
          /\ UNCHANGED <<head, heads, bound, checkpoint, resolved, member>>
      BY <1>9, <2>1, WriteEffect DEF w
    <2>2. /\ Moved /\ (\A h \in Steps : deferred'[h] = IF h = StepOf(i) THEN Asked(i) ELSE deferred[h])
          /\ UNCHANGED <<head, heads, bound, checkpoint, resolved, member>>
      BY <2>1, <2>6
    <2>3. RecoveryInv'
      BY <1>2, <1>8, <1>12, <1>14, <2>2, BindIntentsKeeps
    <2>5. ParkingAt(i, n + 1)'
      BY <1>2, <1>7, <1>11, <1>12, <1>14, <2>2 DEF ParkingAt, plan
    <2> QED
      BY <1>14, <2>2, <2>3, <2>5
  <1>15. CASE n = 3
    <2>1. w.op = "bindResult" /\ w.step = StepOf(i) /\ w.to = Given(i, "defer")
      BY <1>4, <1>6, <1>15
    <2>7. bound[w.step] \in {None, w.to}
      BY <1>12, <1>15, <2>1
    <2>6. /\ Moved /\ (\A h \in Steps : bound'[h] = IF h = w.step THEN w.to ELSE bound[h])
          /\ UNCHANGED <<head, heads, deferred, checkpoint, resolved, member>>
      BY <2>1, <2>7, WriteEffect DEF w
    <2>2. /\ Moved /\ (\A h \in Steps : bound'[h] = IF h = StepOf(i) THEN Given(i, "defer") ELSE bound[h])
          /\ UNCHANGED <<head, heads, deferred, checkpoint, resolved, member>>
      BY <2>1, <2>6
    <2>3. RecoveryInv'
      BY <1>2, <1>8, <1>12, <1>15, <2>2, StepResultKeeps
    <2>5. ParkingAt(i, n + 1)'
      BY <1>2, <1>7, <1>11, <1>12, <1>15, <2>2 DEF ParkingAt, plan
    <2> QED
      BY <1>15, <2>2, <2>3, <2>5
  <1>16. CASE n = 5
    <2>1. w.op = "evictHead"
      BY <1>4, <1>6, <1>16
    <2>2. Moved /\ head' = None /\ UNCHANGED <<heads, bound, deferred, checkpoint, resolved, member>>
      BY <2>1, WriteEffect DEF w
    <2>3. RecoveryInv'
      BY <1>8, <2>2, EvictHeadKeeps
    <2>5. ParkingAt(i, n + 1)'
      BY <1>7, <1>11, <1>12, <1>16, <2>2 DEF ParkingAt, plan
    <2> QED
      BY <1>16, <2>2, <2>3, <2>5
  <1>17. CASE n = 6
    <2>1. w.op = "bindHead" /\ w.to = ParkedAt(i)
      BY <1>4, <1>6, <1>17
    <2>2. /\ Moved /\ head' = ParkedAt(i) /\ heads' = heads \cup {ParkedAt(i)}
          /\ UNCHANGED <<bound, deferred, checkpoint, resolved, member>>
      BY <2>1, WriteEffect DEF w
    <2>3. /\ ParkedAt(i).step = StepOf(i) /\ ParkedAt(i).stage = i + Rows + 1
          /\ ParkedAt(i).pend = Given(i, "defer") /\ ParkedAt(i).origin = i
          /\ ParkedAt(i).refs = StateOf(i).refs
      BY <1>1, AskedFacts
    <2>4. Behind(ParkedAt(i), i)
      BY <1>2, <2>3 DEF Behind
    <2>5. InPlace(ParkedAt(i))
      BY <1>1, <2>3, <2>4, OneOpen, OpenHistory DEF InPlace
    <2>6. Reached(ParkedAt(i), i)
      BY <1>12, <1>17 DEF Reached
    <2>7. RecoveryInv'
      BY <1>8, <2>2, <2>5, <2>6, OneOpen, BindHeadKeeps
    <2>8. ParkingAt(i, n + 1)'
      BY <1>7, <1>11, <1>12, <1>17, <2>2 DEF ParkingAt, plan
    <2> QED
      BY <1>17, <2>2, <2>7, <2>8
  <1>18. CASE n = 7
    <2>1. w.op = "evictResult" /\ w.step = StepOf(i)
      BY <1>4, <1>6, <1>18
    <2>6. /\ Moved /\ (\A h \in Steps : bound'[h] = IF h = w.step THEN None ELSE bound[h])
          /\ UNCHANGED <<head, heads, deferred, checkpoint, resolved, member>>
      BY <2>1, WriteEffect DEF w
    <2>2. /\ Moved /\ (\A h \in Steps : bound'[h] = IF h = StepOf(i) THEN None ELSE bound[h])
          /\ UNCHANGED <<head, heads, deferred, checkpoint, resolved, member>>
      BY <2>1, <2>6
    <2>3. RecoveryInv'
      BY <1>2, <1>8, <1>12, <1>18, <2>2, StepResultKeeps
    <2>5. ParkingAt(i, n + 1)'
      BY <1>2, <1>7, <1>11, <1>12, <1>18, <2>2 DEF ParkingAt, plan
    <2> QED
      BY <1>18, <2>2, <2>3, <2>5
  <1>19. CASE n = 8
    <2>1. w.op = "evictIntents" /\ w.step = StepOf(i)
      BY <1>4, <1>6, <1>19
    <2>6. /\ Moved /\ (\A h \in Steps : deferred'[h] = IF h = w.step THEN None ELSE deferred[h])
          /\ UNCHANGED <<head, heads, bound, checkpoint, resolved, member>>
      BY <2>1, WriteEffect DEF w
    <2>2. /\ Moved /\ (\A h \in Steps : deferred'[h] = IF h = StepOf(i) THEN None ELSE deferred[h])
          /\ UNCHANGED <<head, heads, bound, checkpoint, resolved, member>>
      BY <2>1, <2>6
    <2>3. RecoveryInv'
      BY <1>2, <1>8, <1>12, <1>19, <2>2, EvictIntentsKeeps
    <2>5. ParkingAt(i, n + 1)'
      BY <1>2, <1>7, <1>11, <1>12, <1>19, <2>2 DEF ParkingAt, plan
    <2> QED
      BY <1>19, <2>2, <2>3, <2>5
  <1> QED
    BY <1>5, <1>13, <1>14, <1>15, <1>16, <1>17, <1>18, <1>19

\* An attempt that advances writes.
LEMMA AdvancingMoves ==
    ASSUME IInv, RecoveryInv, Write, NEW i, Open(i), ledger[i].kind = "optim_step",
           NEW n \in 1 .. 7, NEW out \in Output, AdvancingAt(i, n, out)
    PROVE  n # 7 /\ Moved /\ RecoveryInv' /\ AdvancingAt(i, n + 1, out)'
  <1> DEFINE res == Given(i, out)
             plan == Advancing6(i, res)
             last == IF out = "stop" THEN 6 ELSE 5
             w == Head(job.todo)
             next == IF out = "stop" THEN << >> ELSE NextStep(AdvancedAt(i, res))
  <1>1. FrontierInv /\ HeadsInv
    BY DEF RecoveryInv
  <1>2. /\ i \in Nat /\ i \in DOMAIN ledger /\ StepOf(i) \in Steps /\ StepOf(i) \in Nat
        /\ Asked(i) \in Request /\ Asked(i).step = StepOf(i)
        /\ res \in Result /\ res # None /\ res.out = out /\ res.req = Asked(i)
        /\ Placeholder(res) <=> out = "defer"
    BY <1>1, OpenState, AskedFacts
  <1>3. plan \in Seq({plan[m] : m \in 1 .. 6}) /\ Len(plan) = 6
    BY DEF Advancing6
  <1>4. last \in {5, 6} /\ n <= last + 1
    BY DEF AdvancingAt
  <1>5. /\ n <= last => w = plan[n] /\ Tail(job.todo) = SubSeq(plan, n + 1, last)
        /\ n = last + 1 => job.todo = << >>
    <2>1. job.todo = SubSeq(plan, n, last)
      BY DEF AdvancingAt
    <2> HIDE DEF plan, last
    <2> QED
      BY <1>3, <1>4, <2>1, Suffix, last \in 0 .. Len(plan), n \in 1 .. last + 1
  <1>6. n <= last
    <2>1. job.todo # << >>
      BY DEF Write
    <2> QED
      BY <1>4, <1>5, <2>1
  <1>7. /\ plan[1] = [op |-> "checkpoint", req |-> Asked(i), to |-> out]
        /\ plan[2] = [op |-> "bindResult", step |-> StepOf(i), to |-> res]
        /\ plan[3] = [op |-> "bindResult", step |-> StepOf(i), to |-> res]
        /\ plan[4] = [op |-> "evictHead"]
        /\ plan[5] = [op |-> "bindHead", to |-> AdvancedAt(i, res)]
        /\ plan[6] = [op |-> "bindMember", to |-> AdvancedAt(i, res)]
    <2> HIDE DEF res
    <2> QED
      BY <1>2 DEF Advancing6
  <1>8. /\ plan' = plan /\ Asked(i)' = Asked(i) /\ StepOf(i)' = StepOf(i) /\ res' = res
        /\ AdvancedAt(i, res)' = AdvancedAt(i, res) /\ Calm' = Calm /\ next' = next
    <2>1. UNCHANGED <<adapter, ledger>>
      BY DEF Write
    <2>2. /\ Asked(i)' = Asked(i) /\ StepOf(i)' = StepOf(i) /\ res' = res /\ Calm' = Calm
          /\ StateOf(i)' = StateOf(i)
      BY <2>1, SameStages
    <2>3. AdvancedAt(i, res)' = AdvancedAt(i, res)
      BY <2>2 DEF AdvancedAt
    <2> HIDE DEF res
    <2> QED
      BY <2>2, <2>3 DEF Advancing6, NextStep
  <1>9. /\ job.successors = next
        /\ Calm => out # "defer"
        /\ deferred[StepOf(i)] = None
        /\ Asked(i) \in DOMAIN checkpoint => checkpoint[Asked(i)] = out
        /\ n >= 2 => Asked(i) \in DOMAIN checkpoint
        /\ n >= 3 => bound[StepOf(i)] = res
        /\ n < 3 => bound[StepOf(i)] = None
        /\ n >= 6 => head = AdvancedAt(i, res)
    BY DEF AdvancingAt
  <1>10. ASSUME Moved,
                deferred'[StepOf(i)] = None,
                Asked(i) \in DOMAIN checkpoint',
                checkpoint'[Asked(i)] = out,
                n + 1 >= 3 => bound'[StepOf(i)] = res,
                n + 1 < 3 => bound'[StepOf(i)] = None,
                n + 1 >= 6 => head' = AdvancedAt(i, res),
                n + 1 = 7 => member' = AdvancedAt(i, res)
         PROVE  AdvancingAt(i, n + 1, out)'
    <2>1. job'.todo = SubSeq(plan, n + 1, last)' /\ job'.successors = next'
      BY <1>5, <1>6, <1>8, <1>9, <1>10 DEF Moved
    <2>2. res' = Given(i, out)' /\ plan' = Advancing6(i, Given(i, out))' /\ n + 1 <= last + 1
      BY <1>4, <1>6
    <2> QED
      BY <1>4, <1>6, <1>8, <1>9, <1>10, <2>1, <2>2 DEF AdvancingAt, plan, next
  <1> HIDE DEF plan, w, last, res, next
  <1>11. Static
    BY WriteEffect
  <1>12. CASE n = 1
    <2>1. w.op = "checkpoint" /\ w.req = Asked(i) /\ w.to = out
      BY <1>5, <1>6, <1>7, <1>12
    <2>2. /\ Moved
          /\ DOMAIN checkpoint' = DOMAIN checkpoint \cup {Asked(i)} /\ checkpoint'[Asked(i)] = out
          /\ \A q \in DOMAIN checkpoint : q # Asked(i) => checkpoint'[q] = checkpoint[q]
          /\ UNCHANGED <<head, heads, bound, deferred, resolved, member>>
      BY <2>1, WriteEffect DEF w
    <2>3. RecoveryInv'
      BY <1>9, <1>11, <2>2, CheckpointKeeps
    <2>5. AdvancingAt(i, n + 1, out)'
      BY <1>9, <1>10, <1>12, <2>2
    <2> QED
      BY <1>12, <2>2, <2>3, <2>5
  <1>13. CASE n \in {2, 3}
    <2>1. w.op = "bindResult" /\ w.step = StepOf(i) /\ w.to = res
      BY <1>5, <1>6, <1>7, <1>13
    <2>2. bound[w.step] \in {None, w.to} /\ (bound[StepOf(i)] # None => res = bound[StepOf(i)])
      BY <1>9, <1>13, <2>1
    <2>3. /\ Moved /\ (\A h \in Steps : bound'[h] = IF h = w.step THEN w.to ELSE bound[h])
          /\ UNCHANGED <<head, heads, deferred, checkpoint, resolved, member>>
      BY <2>1, <2>2, WriteEffect DEF w
    <2>4. (\A h \in Steps : bound'[h] = IF h = StepOf(i) THEN res ELSE bound[h]) /\ bound'[StepOf(i)] = res
      BY <1>2, <2>1, <2>3
    <2>5. /\ Asked(i) \in DOMAIN checkpoint /\ res = Given(i, checkpoint[Asked(i)])
          /\ Calm /\ checkpoint[Asked(i)] = "defer" => deferred[StepOf(i)] # None
          /\ member = None \/ res = bound[StepOf(i)]
      <3>1. AskingInv(i)
        BY <1>1, <1>2 DEF FrontierInv
      <3>2. bound[StepOf(i)] = None => member = None
        BY <3>1 DEF AskingInv
      <3> QED
        BY <1>9, <1>13, <2>2, <3>2 DEF res
    <2>6. RecoveryInv'
      BY <1>11, <2>2, <2>3, <2>4, <2>5, StepResultKeeps
    <2>7. AdvancingAt(i, n + 1, out)'
      BY <1>9, <1>10, <1>13, <2>3, <2>4, <2>5
    <2> QED
      BY <1>13, <2>3, <2>6, <2>7
  <1>14. CASE n = 4
    <2>1. w.op = "evictHead"
      BY <1>5, <1>6, <1>7, <1>14
    <2>2. Moved /\ head' = None /\ UNCHANGED <<heads, bound, deferred, checkpoint, resolved, member>>
      BY <2>1, WriteEffect DEF w
    <2>3. RecoveryInv'
      BY <1>11, <2>2, EvictHeadKeeps
    <2>5. AdvancingAt(i, n + 1, out)'
      BY <1>9, <1>10, <1>14, <2>2
    <2> QED
      BY <1>14, <2>2, <2>3, <2>5
  <1>15. CASE n = 5
    <2>1. w.op = "bindHead" /\ w.to = AdvancedAt(i, res)
      BY <1>5, <1>6, <1>7, <1>15
    <2>2. /\ Moved /\ head' = AdvancedAt(i, res) /\ heads' = heads \cup {AdvancedAt(i, res)}
          /\ UNCHANGED <<bound, deferred, checkpoint, resolved, member>>
      BY <2>1, WriteEffect DEF w
    <2>3. /\ AdvancedAt(i, res).step = StepOf(i) + 1 /\ AdvancedAt(i, res).pend = None
          /\ AdvancedAt(i, res).refs = Append(StateOf(i).refs, res)
      BY <1>1, AskedFacts DEF res
    <2>4. Behind(AdvancedAt(i, res), i)
      BY <1>2, <1>9, <1>15 DEF Behind
    <2>5. ASSUME Calm, NEW k \in 1 .. AdvancedAt(i, res).step
          PROVE  AdvancedAt(i, res).refs[k].req.step = k - 1 /\ ~Placeholder(AdvancedAt(i, res).refs[k])
      <3>1. StateOf(i).refs \in Seq(Result) /\ Len(StateOf(i).refs) = StepOf(i)
        BY <1>1, OpenState
      <3>2. CASE k = StepOf(i) + 1
        <4>1. AdvancedAt(i, res).refs[k] = res
          BY <1>2, <2>3, <3>1, <3>2
        <4> QED
          BY <1>2, <1>9, <2>5, <3>2, <4>1
      <3>3. CASE k # StepOf(i) + 1
        <4>1. k \in 1 .. StepOf(i)
          BY <1>2, <2>3, <2>5, <3>3
        <4>2. AdvancedAt(i, res).refs[k] = StateOf(i).refs[k]
          BY <1>2, <2>3, <3>1, <4>1
        <4> QED
          BY <1>1, <2>5, <4>1, <4>2, OpenHistory
      <3> QED
        BY <3>2, <3>3
    <2>6. InPlace(AdvancedAt(i, res))
      BY <2>3, <2>4, <2>5, OneOpen DEF InPlace
    <2>7. Calm => Reached(AdvancedAt(i, res), i)
      BY <1>9, <1>15 DEF Reached, res
    <2>8. RecoveryInv'
      BY <1>11, <2>2, <2>6, <2>7, OneOpen, BindHeadKeeps
    <2>9. AdvancingAt(i, n + 1, out)'
      BY <1>9, <1>10, <1>15, <2>2
    <2> QED
      BY <1>15, <2>2, <2>8, <2>9
  <1>16. CASE n = 6
    <2>1. w.op = "bindMember" /\ w.to = AdvancedAt(i, res) /\ out = "stop"
      BY <1>5, <1>6, <1>7, <1>16 DEF last
    <2>2. member \in {None, w.to}
      <3>1. AskingInv(i)
        BY <1>1, <1>2 DEF FrontierInv
      <3> QED
        BY <1>9, <1>16, <2>1, <3>1 DEF AskingInv
    <2>3. /\ Moved /\ member' = AdvancedAt(i, res)
          /\ UNCHANGED <<head, heads, bound, deferred, checkpoint, resolved>>
      BY <2>1, <2>2, WriteEffect DEF w
    <2>4. bound[StepOf(i)] # None /\ bound[StepOf(i)].out = "stop" /\ member' = AdvancedAt(i, bound[StepOf(i)])
      BY <1>2, <1>9, <1>16, <2>1, <2>3
    <2>5. RecoveryInv'
      BY <1>11, <2>3, <2>4, BindMemberKeeps
    <2>6. AdvancingAt(i, n + 1, out)'
      BY <1>9, <1>10, <1>16, <2>3
    <2> QED
      BY <1>16, <2>3, <2>5, <2>6
  <1>17. n \in 1 .. 6
    BY <1>4, <1>6
  <1> QED
    BY <1>12, <1>13, <1>14, <1>15, <1>16, <1>17

\* The state a fan-in leaves; ws is parked at the end of its own rows.
LEMMA OutcomeFacts ==
    ASSUME NEW ws, StateInv(ws), ws.pend # None
    PROVE  /\ ws.step \in Steps /\ ws.step \in Nat /\ ws.stage \in Nat /\ ws.intents \in Request
           /\ ws.refs \in Seq(Result) /\ Len(ws.refs) = ws.step
           /\ Merged(ws) \in Result /\ Merged(ws).req.step = ws.step /\ Merged(ws).out = "defer"
           /\ Merged(ws).resolved /\ ~Placeholder(Merged(ws))
           /\ Outcome(ws).stage = ws.stage + 1 /\ Outcome(ws).pend = None /\ ~Outcome(ws).terminal
           /\ SameStepResume => Outcome(ws).step = ws.step /\ Outcome(ws).refs = ws.refs
           /\ ~SameStepResume =>
                Outcome(ws).step = ws.step + 1 /\ Outcome(ws).refs = Append(ws.refs, Merged(ws))
  <1>1. /\ ws.step \in Steps /\ ws.stage \in Nat /\ ws.refs \in Seq(Result) /\ Len(ws.refs) = ws.step
        /\ ws.intents \in Request
    BY DEF StateInv, WorkState
  <1>2. ws.pend \in Result /\ ws.pend.req.step = ws.step /\ ws.pend.out = "defer"
    BY DEF StateInv, ResultAt, Placeholder
  <1>3. /\ Merged(ws) \in Result /\ Merged(ws).req.step = ws.step /\ Merged(ws).out = "defer"
        /\ Merged(ws).resolved
    BY <1>2 DEF Merged, Result
  <1> QED
    BY <1>1, <1>3, StepsFacts DEF Outcome, Settled, Placeholder

\* The history a fan-in leaves holds no placeholder if the one it starts from does not.
LEMMA OutcomeHistory ==
    ASSUME NEW ws, StateInv(ws), ws.pend # None,
           \A k \in 1 .. ws.step : ws.refs[k].req.step = k - 1 /\ ~Placeholder(ws.refs[k])
    PROVE  \A k \in 1 .. Outcome(ws).step :
                Outcome(ws).refs[k].req.step = k - 1 /\ ~Placeholder(Outcome(ws).refs[k])
  <1>1. CASE SameStepResume
    BY <1>1, OutcomeFacts
  <1>2. CASE ~SameStepResume
    <2> SUFFICES ASSUME NEW k \in 1 .. ws.step + 1
                 PROVE  /\ Append(ws.refs, Merged(ws))[k].req.step = k - 1
                        /\ ~Placeholder(Append(ws.refs, Merged(ws))[k])
      BY <1>2, OutcomeFacts
    <2>1. ws.step \in Nat /\ ws.refs \in Seq(Result) /\ Len(ws.refs) = ws.step
      BY OutcomeFacts
    <2>2. CASE k = ws.step + 1
      <3>1. Append(ws.refs, Merged(ws))[k] = Merged(ws)
        BY <2>1, <2>2
      <3>2. Merged(ws).req.step = ws.step /\ ~Placeholder(Merged(ws))
        BY OutcomeFacts
      <3> QED
        BY <2>1, <2>2, <3>1, <3>2
    <2>3. CASE k # ws.step + 1
      <3>1. k \in 1 .. ws.step
        BY <2>1, <2>3
      <3>2. Append(ws.refs, Merged(ws))[k] = ws.refs[k]
        BY <2>1, <3>1
      <3> QED
        BY <3>1, <3>2
    <2> QED
      BY <2>2, <2>3
  <1> QED
    BY <1>1, <1>2

\* A fan-in of GEPA that runs for the first time writes.
LEMMA ResumingMoves ==
    ASSUME IInv, RecoveryInv, Write, SameStepResume, NEW i, Open(i), ledger[i].kind = "eval_fanin",
           NEW n \in 1 .. 6, FanningAt(i, n)
    PROVE  n # 6 /\ Moved /\ RecoveryInv' /\ FanningAt(i, n + 1)'
  <1> DEFINE ws == ledger[i].input
             s == Outcome(ws)
             plan == Resuming4(ws, s)
             w == Head(job.todo)
  <1>1. FrontierInv /\ HeadsInv /\ i \in DOMAIN ledger
    BY DEF RecoveryInv, Open
  <1>2. /\ i \in Nat /\ StepOf(i) \in Steps /\ ws = StateOf(i) /\ ws.step = StepOf(i) /\ StateInv(ws) /\ ws.pend # None
        /\ ws.stage = i
    BY <1>1, OpenState
  <1>3. plan \in Seq({plan[m] : m \in 1 .. 4}) /\ Len(plan) = 4
    BY DEF Resuming4
  <1>4. n <= 5 /\ (n = 5 => head = s) /\ job.successors = NextStep(s) /\ (n >= 2 => ws.intents \in resolved)
    BY DEF FanningAt
  <1>5. /\ n <= 4 => w = plan[n] /\ Tail(job.todo) = SubSeq(plan, n + 1, 4)
        /\ n = 5 => job.todo = << >>
    <2>1. job.todo = SubSeq(plan, n, 4)
      BY DEF FanningAt
    <2> HIDE DEF plan
    <2> QED
      BY <1>3, <1>4, <2>1, Suffix, 4 \in 0 .. Len(plan), n \in 1 .. 4 + 1
  <1>6. n \in 1 .. 4
    <2>1. job.todo # << >>
      BY DEF Write
    <2> QED
      BY <1>4, <1>5, <2>1
  <1>7. /\ plan[1] = [op |-> "resolve", req |-> ws.intents]
        /\ plan[2] = [op |-> "evictIntents", step |-> ws.step]
        /\ plan[3] = [op |-> "evictHead"]
        /\ plan[4] = [op |-> "bindHead", to |-> s]
    BY DEF Resuming4
  <1>8. ws' = ws /\ s' = s /\ plan' = plan /\ NextStep(s)' = NextStep(s) /\ (SameStepResume' <=> SameStepResume)
    <2>1. UNCHANGED <<adapter, ledger>>
      BY DEF Write
    <2>2. ws' = ws /\ s' = s
      BY <2>1, SameStages DEF Outcome, Merged
    <2> QED
      BY <2>1, <2>2 DEF Resuming4, NextStep, SameStepResume
  <1>9. ASSUME Moved, ws.intents \in resolved', n + 1 = 5 => head' = s PROVE FanningAt(i, n + 1)'
    <2>1. job'.todo = SubSeq(plan, n + 1, 4)' /\ job'.successors = NextStep(s)'
      BY <1>4, <1>5, <1>6, <1>8, <1>9 DEF Moved
    <2> QED
      BY <1>6, <1>8, <1>9, <2>1 DEF FanningAt
  <1> HIDE DEF plan, w, s
  <1>11. Static
    BY WriteEffect
  <1>12. CASE n = 1
    <2>1. w.op = "resolve" /\ w.req = ws.intents
      BY <1>5, <1>7, <1>12
    <2>2. /\ Moved /\ resolved' = resolved \cup {ws.intents}
          /\ UNCHANGED <<head, heads, bound, deferred, checkpoint, member>>
      BY <2>1, WriteEffect DEF w
    <2>3. RecoveryInv'
      BY <1>11, <2>2, ResolveKeeps
    <2> QED
      BY <1>9, <1>12, <2>2, <2>3
  <1>13. CASE n = 2
    <2>1. w.op = "evictIntents" /\ w.step = ws.step
      BY <1>5, <1>7, <1>13
    <2>2. /\ Moved /\ (\A h \in Steps : deferred'[h] = IF h = w.step THEN None ELSE deferred[h])
          /\ UNCHANGED <<head, heads, bound, checkpoint, resolved, member>>
      BY <2>1, WriteEffect DEF w
    <2>3. deferred[ws.step] = None /\ w.step \in Steps
      BY <1>1, <1>2, <2>1, DeferredAsked, OneOpen
    <2>4. RecoveryInv'
      BY <1>11, <2>1, <2>2, <2>3, EvictIntentsKeeps
    <2> QED
      BY <1>4, <1>9, <1>13, <2>2, <2>4
  <1>14. CASE n = 3
    <2>1. w.op = "evictHead"
      BY <1>5, <1>7, <1>14
    <2>2. Moved /\ head' = None /\ UNCHANGED <<heads, bound, deferred, checkpoint, resolved, member>>
      BY <2>1, WriteEffect DEF w
    <2>3. RecoveryInv'
      BY <1>11, <2>2, EvictHeadKeeps
    <2> QED
      BY <1>4, <1>9, <1>14, <2>2, <2>3
  <1>15. CASE n = 4
    <2>1. w.op = "bindHead" /\ w.to = s
      BY <1>5, <1>7, <1>15
    <2>2. /\ Moved /\ head' = s /\ heads' = heads \cup {s}
          /\ UNCHANGED <<bound, deferred, checkpoint, resolved, member>>
      BY <2>1, WriteEffect DEF w
    <2>3. s.step = ws.step /\ s.stage = i + 1 /\ s.pend = None /\ s.refs = ws.refs /\ ~s.terminal
      BY <1>2, OutcomeFacts DEF s
    <2>4. Behind(s, i)
      BY <1>2, <2>3 DEF Behind
    <2>5. Calm => \A k \in 1 .. s.step : s.refs[k].req.step = k - 1 /\ ~Placeholder(s.refs[k])
      BY <1>1, <1>2, <2>3, OpenHistory
    <2>6. InPlace(s)
      BY <2>3, <2>4, <2>5, OneOpen DEF InPlace
    <2>7. Reached(s, i)
      BY <1>2, <2>3 DEF Reached
    <2>8. RecoveryInv'
      BY <1>11, <2>2, <2>6, <2>7, OneOpen, BindHeadKeeps
    <2> QED
      BY <1>4, <1>9, <1>15, <2>2, <2>8
  <1> QED
    BY <1>6, <1>12, <1>13, <1>14, <1>15

\* Any other fan-in that runs for the first time writes.
LEMMA MergingMoves ==
    ASSUME IInv, RecoveryInv, Write, ~SameStepResume, NEW i, Open(i), ledger[i].kind = "eval_fanin",
           NEW n \in 1 .. 6, FanningAt(i, n)
    PROVE  n # 6 /\ Moved /\ RecoveryInv' /\ FanningAt(i, n + 1)'
  <1> DEFINE ws == ledger[i].input
             s == Outcome(ws)
             plan == Merging5(ws)
             w == Head(job.todo)
  <1>1. FrontierInv /\ HeadsInv /\ i \in DOMAIN ledger
    BY DEF RecoveryInv, Open
  <1>2. /\ i \in Nat /\ StepOf(i) \in Steps /\ ws = StateOf(i) /\ ws.step = StepOf(i) /\ StateInv(ws) /\ ws.pend # None
        /\ ws.stage = i
    BY <1>1, OpenState
  <1>3. plan \in Seq({plan[m] : m \in 1 .. 5}) /\ Len(plan) = 5
    BY DEF Merging5
  <1>4. /\ n = 6 => head = s
        /\ job.successors = NextStep(s)
        /\ n >= 2 => ws.intents \in resolved
        /\ n >= 4 => bound[ws.step] = Merged(ws)
    BY DEF FanningAt
  <1>5. /\ n <= 5 => w = plan[n] /\ Tail(job.todo) = SubSeq(plan, n + 1, 5)
        /\ n = 6 => job.todo = << >>
    <2>1. job.todo = SubSeq(plan, n, 5)
      BY DEF FanningAt
    <2> HIDE DEF plan
    <2> QED
      BY <1>3, <1>4, <2>1, Suffix, 5 \in 0 .. Len(plan), n \in 1 .. 5 + 1
  <1>6. n \in 1 .. 5
    <2>1. job.todo # << >>
      BY DEF Write
    <2> QED
      BY <1>4, <1>5, <2>1
  <1>7. /\ plan[1] = [op |-> "resolve", req |-> ws.intents]
        /\ plan[2] = [op |-> "evictIntents", step |-> ws.step]
        /\ plan[3] = [op |-> "bindResult", step |-> ws.step, to |-> Merged(ws)]
        /\ plan[4] = [op |-> "evictHead"]
        /\ plan[5] = [op |-> "bindHead", to |-> s]
    BY DEF Merging5
  <1>8. /\ ws' = ws /\ s' = s /\ plan' = plan /\ NextStep(s)' = NextStep(s) /\ Merged(ws)' = Merged(ws)
        /\ SameStepResume' <=> SameStepResume
    <2>1. UNCHANGED <<adapter, ledger>>
      BY DEF Write
    <2>2. ws' = ws /\ Merged(ws)' = Merged(ws)
      BY <2>1 DEF Merged
    <2>3. s' = s
      BY <2>1, <2>2, SameStages DEF Outcome
    <2> QED
      BY <2>1, <2>2, <2>3 DEF Merging5, NextStep, SameStepResume
  <1>9. ASSUME Moved, ws.intents \in resolved', n + 1 = 6 => head' = s,
               n + 1 >= 4 => bound'[ws.step] = Merged(ws)
        PROVE  FanningAt(i, n + 1)'
    <2>1. job'.todo = SubSeq(plan, n + 1, 5)' /\ job'.successors = NextStep(s)'
      BY <1>4, <1>5, <1>6, <1>8, <1>9 DEF Moved
    <2> QED
      BY <1>6, <1>8, <1>9, <2>1 DEF FanningAt
  <1> HIDE DEF plan, w, s
  <1>11. Static
    BY WriteEffect
  <1>12. CASE n = 1
    <2>1. w.op = "resolve" /\ w.req = ws.intents
      BY <1>5, <1>7, <1>12
    <2>2. /\ Moved /\ resolved' = resolved \cup {ws.intents}
          /\ UNCHANGED <<head, heads, bound, deferred, checkpoint, member>>
      BY <2>1, WriteEffect DEF w
    <2>3. RecoveryInv'
      BY <1>11, <2>2, ResolveKeeps
    <2> QED
      BY <1>9, <1>12, <2>2, <2>3
  <1>13. CASE n = 2
    <2>1. w.op = "evictIntents" /\ w.step = ws.step
      BY <1>5, <1>7, <1>13
    <2>2. /\ Moved /\ (\A h \in Steps : deferred'[h] = IF h = w.step THEN None ELSE deferred[h])
          /\ UNCHANGED <<head, heads, bound, checkpoint, resolved, member>>
      BY <2>1, WriteEffect DEF w
    <2>3. deferred[ws.step] = None /\ w.step \in Steps
      BY <1>1, <1>2, <2>1, DeferredAsked, OneOpen
    <2>4. RecoveryInv'
      BY <1>11, <2>1, <2>2, <2>3, EvictIntentsKeeps
    <2> QED
      BY <1>4, <1>9, <1>13, <2>2, <2>4
  <1>14. CASE n = 3
    <2>1. w.op = "bindResult" /\ w.step = ws.step /\ w.to = Merged(ws)
      BY <1>5, <1>7, <1>14
    <2>2. FanningInv(i)
      BY <1>1 DEF FrontierInv
    <2>3. bound[w.step] \in {None, w.to}
      BY <1>2, <2>1, <2>2 DEF FanningInv
    <2>4. /\ Moved /\ (\A h \in Steps : bound'[h] = IF h = w.step THEN w.to ELSE bound[h])
          /\ UNCHANGED <<head, heads, deferred, checkpoint, resolved, member>>
      BY <2>1, <2>3, WriteEffect DEF w
    <2>5. (\A h \in Steps : bound'[h] = IF h = StepOf(i) THEN Merged(StateOf(i)) ELSE bound[h])
      BY <1>2, <2>1, <2>4
    <2>6. RecoveryInv'
      BY <1>11, <2>4, <2>5, MergedResultKeeps
    <2>7. bound'[ws.step] = Merged(ws)
      BY <1>2, <2>1, <2>4
    <2> QED
      BY <1>4, <1>9, <1>14, <2>4, <2>6, <2>7
  <1>15. CASE n = 4
    <2>1. w.op = "evictHead"
      BY <1>5, <1>7, <1>15
    <2>2. Moved /\ head' = None /\ UNCHANGED <<heads, bound, deferred, checkpoint, resolved, member>>
      BY <2>1, WriteEffect DEF w
    <2>3. RecoveryInv'
      BY <1>11, <2>2, EvictHeadKeeps
    <2> QED
      BY <1>4, <1>9, <1>15, <2>2, <2>3
  <1>16. CASE n = 5
    <2>1. w.op = "bindHead" /\ w.to = s
      BY <1>5, <1>7, <1>16
    <2>2. /\ Moved /\ head' = s /\ heads' = heads \cup {s}
          /\ UNCHANGED <<bound, deferred, checkpoint, resolved, member>>
      BY <2>1, WriteEffect DEF w
    <2>3. s.pend = None
      BY <1>2, OutcomeFacts DEF s
    <2>4. Calm => \A k \in 1 .. s.step : s.refs[k].req.step = k - 1 /\ ~Placeholder(s.refs[k])
      BY <1>1, <1>2, OpenHistory, OutcomeHistory DEF s
    <2>5. InPlace(s)
      BY <2>3, <2>4 DEF InPlace
    <2>6. RecoveryInv'
      BY <1>11, <2>2, <2>5, BindHeadKeeps
    <2> QED
      BY <1>4, <1>9, <1>16, <2>2, <2>6
  <1> QED
    BY <1>6, <1>12, <1>13, <1>14, <1>15, <1>16

\* A fan-in that is done precedes the open stage.
LEMMA DoneBefore ==
    ASSUME IInv, RecoveryInv, NEW j, DoneFanin(j)
    PROVE  /\ j \in DOMAIN ledger /\ j \in Nat /\ StateInv(ledger[j].input) /\ ledger[j].input.pend # None
           /\ ledger[j].input.stage = j
           /\ \A i : Open(i) => i \in Nat /\ j + 1 <= i /\ j # i
  <1>1. j \in DOMAIN ledger /\ j \in Nat
    BY DEF DoneFanin, IInv, StoreInv, TypeOK
  <1>2. StateInv(ledger[j].input) /\ ledger[j].input.pend # None
    BY <1>1 DEF DoneFanin, IInv, StoreInv, LedgerInv, StageInv
  <1>3. ASSUME NEW i, Open(i) PROVE i \in Nat /\ j + 1 <= i /\ j # i
    <2>1. i \in Nat /\ j <= i
      BY <1>1, <1>3, OpenState DEF RecoveryInv, OpenInv
    <2>2. j # i
      BY <1>3 DEF Open, DoneFanin
    <2> QED
      BY <1>1, <2>1, <2>2
  <1>4. ledger[j].input.stage = j
    BY <1>1 DEF RecoveryInv, FaninsInv
  <1> QED
    BY <1>1, <1>2, <1>3, <1>4

\* A head that a repeated fan-in of GEPA sets again is in its place.
LEMMA RepeatedInPlace ==
    ASSUME IInv, RecoveryInv, SameStepResume, NEW j, DoneFanin(j), NEW s \in WorkState, RepeatedState(j, s)
    PROVE  InPlace(s) /\ \A i \in DOMAIN ledger : Open(i) => Reached(s, i)
  <1>1. s.stage = j + 1 /\ s.step = ledger[j].input.step /\ s.pend = None
    BY DEF RepeatedState
  <1>2. ASSUME NEW i \in DOMAIN ledger, Open(i) PROVE Behind(s, i) /\ Reached(s, i)
    <2>1. i \in Nat /\ j + 1 <= i /\ j \in Nat
      BY <1>2, DoneBefore
    <2>2. ledger[j].input.step <= StepOf(i) /\ j \in DOMAIN ledger
      BY <1>2, DoneBefore DEF RecoveryInv, FaninsInv
    <2>3. StepOf(i) \in Nat /\ s.step \in Nat
      BY <1>2, OpenState, StepsFacts DEF RecoveryInv, WorkState
    <2>4. s.step < StepOf(i) \/ s.step = StepOf(i)
      BY <1>1, <2>2, <2>3
    <2>5. s.step = StepOf(i) => s.refs = StateOf(i).refs /\ ~s.terminal
      BY <1>2 DEF RepeatedState
    <2>6. s.stage <= i /\ s.stage <= i + 1
      BY <1>1, <2>1
    <2> QED
      BY <1>1, <2>4, <2>5, <2>6 DEF Behind, Reached
  <1> QED
    BY <1>1, <1>2 DEF InPlace, RepeatedState

\* What a repeated fan-in needs stays as it is.
LEMMA RepeatedKept ==
    ASSUME UNCHANGED <<adapter, ledger>>, NEW j, NEW s, RepeatedState(j, s),
           heads' \subseteq heads \cup {s}, s.stage \in Nat, s.step \in Nat
    PROVE  RepeatedState(j, s)'
  <1>1. Calm => Top(s)'
    BY DEF RepeatedState, Top
  <1> QED
    BY <1>1, SameStages DEF RepeatedState, Placeholder

\* A fan-in of GEPA that is repeated while the head has left its episode writes.
LEMMA StaleMoves ==
    ASSUME IInv, RecoveryInv, Write, SameStepResume, NEW j, DoneFanin(j), NEW n \in 1 .. 2,
           job.todo = SubSeq(<< [op |-> "resolve", req |-> ledger[j].input.intents] >>, n, 1),
           Calm => head # None /\ Top(head)
    PROVE  /\ n = 1 /\ Moved /\ RecoveryInv'
           /\ job'.todo = SubSeq(<< [op |-> "resolve", req |-> ledger'[j].input.intents] >>, n + 1, 1)
           /\ Calm' => head' # None /\ Top(head)'
           /\ UNCHANGED deferred
  <1> DEFINE plan == << [op |-> "resolve", req |-> ledger[j].input.intents] >>
             w == Head(job.todo)
  <1>1. plan \in Seq({plan[1]}) /\ Len(plan) = 1 /\ plan[1] = [op |-> "resolve", req |-> ledger[j].input.intents]
    OBVIOUS
  <1>2. /\ n <= 1 => w = plan[n] /\ Tail(job.todo) = SubSeq(plan, n + 1, 1)
        /\ n = 2 => job.todo = << >>
    <2>1. job.todo = SubSeq(plan, n, 1)
      OBVIOUS
    <2> HIDE DEF plan
    <2> QED
      BY <1>1, <2>1, Suffix, 1 \in 0 .. Len(plan), n \in 1 .. 1 + 1
  <1>3. n = 1
    <2>1. job.todo # << >>
      BY DEF Write
    <2> QED
      BY <1>2, <2>1
  <1>4. w.op = "resolve" /\ w.req = ledger[j].input.intents
    BY <1>1, <1>2, <1>3
  <1>5. /\ Moved /\ resolved' = resolved \cup {w.req}
        /\ UNCHANGED <<head, heads, bound, deferred, checkpoint, member>>
    BY <1>4, WriteEffect
  <1>6. Static /\ UNCHANGED <<adapter, ledger>>
    BY WriteEffect DEF Static
  <1>7. RecoveryInv'
    BY <1>5, <1>6, ResolveKeeps
  <1>8. Calm' = Calm /\ (Top(head)' <=> Top(head))
    BY <1>5, <1>6, SameStages DEF Top
  <1>9. job'.todo = SubSeq(<< [op |-> "resolve", req |-> ledger'[j].input.intents] >>, n + 1, 1)
    BY <1>2, <1>3, <1>5, <1>6 DEF Moved
  <1> QED
    BY <1>3, <1>5, <1>7, <1>8, <1>9

\* A fan-in of GEPA that is repeated sets the head again.
LEMMA AgainMoves ==
    ASSUME IInv, RecoveryInv, Write, SameStepResume, NEW j, DoneFanin(j), NEW s \in WorkState,
           RepeatedState(j, s), Calm => NothingDeferred, NEW n \in 1 .. 5,
           job.todo = SubSeq(Resuming4(ledger[j].input, s), n, 4)
    PROVE  /\ n # 5 /\ Moved /\ RecoveryInv' /\ RepeatedState(j, s)'
           /\ job'.todo = SubSeq(Resuming4(ledger[j].input, s), n + 1, 4)'
           /\ n = 4 => head' = s
           /\ Calm' => NothingDeferred'
  <1> DEFINE ws == ledger[j].input
             plan == Resuming4(ws, s)
             w == Head(job.todo)
  <1>2. /\ j \in DOMAIN ledger /\ ws.step \in Steps
    BY DoneBefore, OutcomeFacts
  <1>3. plan \in Seq({plan[m] : m \in 1 .. 4}) /\ Len(plan) = 4
    BY DEF Resuming4
  <1>5. /\ n <= 4 => w = plan[n] /\ Tail(job.todo) = SubSeq(plan, n + 1, 4)
        /\ n = 5 => job.todo = << >>
    <2>1. job.todo = SubSeq(plan, n, 4)
      OBVIOUS
    <2> HIDE DEF plan
    <2>2. PICK last : last = 4
      OBVIOUS
    <2>3. last \in 0 .. Len(plan) /\ n \in 1 .. last + 1 /\ job.todo = SubSeq(plan, n, last)
      BY <1>3, <2>1, <2>2
    <2>4. n <= last => w = plan[n]
      BY <1>3, <2>3, Suffix
    <2>5. n <= last => Tail(job.todo) = SubSeq(plan, n + 1, last)
      BY <1>3, <2>3, Suffix
    <2>6. n = last + 1 => job.todo = << >>
      BY <1>3, <2>3, Suffix
    <2> QED
      BY <2>2, <2>4, <2>5, <2>6
  <1>6. n \in 1 .. 4
    <2>1. job.todo # << >>
      BY DEF Write
    <2> QED
      BY <1>5, <2>1
  <1>7. /\ plan[1] = [op |-> "resolve", req |-> ws.intents]
        /\ plan[2] = [op |-> "evictIntents", step |-> ws.step]
        /\ plan[3] = [op |-> "evictHead"]
        /\ plan[4] = [op |-> "bindHead", to |-> s]
    BY DEF Resuming4
  <1>8. UNCHANGED <<adapter, ledger>> /\ ws' = ws /\ plan' = plan /\ Calm' = Calm
    <2>1. UNCHANGED <<adapter, ledger>>
      BY DEF Write
    <2> QED
      BY <2>1, SameStages DEF Resuming4
  <1>9. Moved => job'.todo = SubSeq(plan, n + 1, 4)'
    BY <1>5, <1>6, <1>8 DEF Moved
  <1>10. s.stage \in Nat /\ s.step \in Nat
    BY StepsFacts DEF WorkState
  <1>11. Static
    BY WriteEffect
  <1> HIDE DEF plan, w
  <1>12. CASE n = 1
    <2>1. w.op = "resolve" /\ w.req = ws.intents
      BY <1>5, <1>7, <1>12
    <2>2. /\ Moved /\ resolved' = resolved \cup {ws.intents}
          /\ UNCHANGED <<head, heads, bound, deferred, checkpoint, member>>
      BY <2>1, WriteEffect DEF w
    <2>3. RecoveryInv'
      BY <1>11, <2>2, ResolveKeeps
    <2>4. RepeatedState(j, s)'
      BY <1>8, <1>10, <2>2, RepeatedKept
    <2> QED
      BY <1>8, <1>9, <1>12, <2>2, <2>3, <2>4 DEF NothingDeferred, plan
  <1>13. CASE n = 2
    <2>1. w.op = "evictIntents" /\ w.step = ws.step
      BY <1>5, <1>7, <1>13
    <2>2. /\ Moved /\ (\A h \in Steps : deferred'[h] = IF h = w.step THEN None ELSE deferred[h])
          /\ UNCHANGED <<head, heads, bound, checkpoint, resolved, member>>
      BY <2>1, WriteEffect DEF w
    <2>3. w.step \in Steps /\ (Calm => deferred[w.step] = None)
      BY <1>2, <2>1 DEF NothingDeferred
    <2>4. RecoveryInv'
      BY <1>11, <2>2, <2>3, EvictIntentsKeeps
    <2>5. RepeatedState(j, s)'
      BY <1>8, <1>10, <2>2, RepeatedKept
    <2> QED
      BY <1>8, <1>9, <1>13, <2>2, <2>4, <2>5 DEF NothingDeferred, plan
  <1>14. CASE n = 3
    <2>1. w.op = "evictHead"
      BY <1>5, <1>7, <1>14
    <2>2. Moved /\ head' = None /\ UNCHANGED <<heads, bound, deferred, checkpoint, resolved, member>>
      BY <2>1, WriteEffect DEF w
    <2>3. RecoveryInv'
      BY <1>11, <2>2, EvictHeadKeeps
    <2>4. RepeatedState(j, s)'
      BY <1>8, <1>10, <2>2, RepeatedKept
    <2> QED
      BY <1>8, <1>9, <1>14, <2>2, <2>3, <2>4 DEF NothingDeferred, plan
  <1>15. CASE n = 4
    <2>1. w.op = "bindHead" /\ w.to = s
      BY <1>5, <1>7, <1>15
    <2>2. /\ Moved /\ head' = s /\ heads' = heads \cup {s}
          /\ UNCHANGED <<bound, deferred, checkpoint, resolved, member>>
      BY <2>1, WriteEffect DEF w
    <2>3. RecoveryInv'
      BY <1>11, <2>2, RepeatedInPlace, BindHeadKeeps
    <2>4. RepeatedState(j, s)'
      BY <1>8, <1>10, <2>2, RepeatedKept
    <2> QED
      BY <1>8, <1>9, <1>15, <2>2, <2>3, <2>4 DEF NothingDeferred, plan
  <1> QED
    BY <1>6, <1>12, <1>13, <1>14, <1>15

\* Any other fan-in that is repeated finds its writes made.
LEMMA RemergingMoves ==
    ASSUME IInv, RecoveryInv, Write, ~SameStepResume, NEW j, DoneFanin(j), NEW n \in 1 .. 6,
           job.todo = SubSeq(Merging5(ledger[j].input), n, 5)
    PROVE  /\ n # 6 /\ Moved /\ RecoveryInv'
           /\ job'.todo = SubSeq(Merging5(ledger[j].input), n + 1, 5)'
  <1> DEFINE ws == ledger[j].input
             s == Outcome(ws)
             plan == Merging5(ws)
             w == Head(job.todo)
  <1>1. FrontierInv /\ FaninsInv
    BY DEF RecoveryInv
  <1>2. j \in DOMAIN ledger /\ ws.step \in Steps /\ ws.step \in Nat /\ StateInv(ws) /\ ws.pend # None
    BY DoneBefore, OutcomeFacts
  <1>3. plan \in Seq({plan[m] : m \in 1 .. 5}) /\ Len(plan) = 5
    BY DEF Merging5
  <1>5. /\ n <= 5 => w = plan[n] /\ Tail(job.todo) = SubSeq(plan, n + 1, 5)
        /\ n = 6 => job.todo = << >>
    <2>1. job.todo = SubSeq(plan, n, 5)
      OBVIOUS
    <2> HIDE DEF plan
    <2> QED
      BY <1>3, <2>1, Suffix, 5 \in 0 .. Len(plan), n \in 1 .. 5 + 1
  <1>6. n \in 1 .. 5
    <2>1. job.todo # << >>
      BY DEF Write
    <2> QED
      BY <1>5, <2>1
  <1>7. /\ plan[1] = [op |-> "resolve", req |-> ws.intents]
        /\ plan[2] = [op |-> "evictIntents", step |-> ws.step]
        /\ plan[3] = [op |-> "bindResult", step |-> ws.step, to |-> Merged(ws)]
        /\ plan[4] = [op |-> "evictHead"]
        /\ plan[5] = [op |-> "bindHead", to |-> s]
    BY DEF Merging5
  <1>8. UNCHANGED <<adapter, ledger>> /\ plan' = plan
    <2>1. UNCHANGED <<adapter, ledger>>
      BY DEF Write
    <2>2. ws' = ws /\ Merged(ws)' = Merged(ws)
      BY <2>1 DEF Merged
    <2>3. s' = s
      BY <2>1, <2>2, SameStages DEF Outcome
    <2> QED
      BY <2>1, <2>2, <2>3 DEF Merging5
  <1>9. Moved => job'.todo = SubSeq(plan, n + 1, 5)'
    BY <1>5, <1>6, <1>8 DEF Moved
  <1>10. deferred[ws.step] = None
    <2>1. SUFFICES ASSUME deferred[ws.step] # None PROVE FALSE
      OBVIOUS
    <2>2. PICK i : Open(i) /\ StepOf(i) = ws.step /\ i \in DOMAIN ledger
      BY <1>1, <1>2, <2>1, DeferredAsked DEF Open
    <2>3. ws.step < StepOf(i)
      BY <1>1, <1>2, <2>2 DEF FaninsInv
    <2> QED
      BY <1>2, <2>2, <2>3
  <1>11. Static
    BY WriteEffect
  <1> HIDE DEF plan, w, s
  <1>12. CASE n = 1
    <2>1. w.op = "resolve" /\ w.req = ws.intents
      BY <1>5, <1>7, <1>12
    <2>2. /\ Moved /\ resolved' = resolved \cup {ws.intents}
          /\ UNCHANGED <<head, heads, bound, deferred, checkpoint, member>>
      BY <2>1, WriteEffect DEF w
    <2>3. RecoveryInv'
      BY <1>11, <2>2, ResolveKeeps
    <2> QED
      BY <1>9, <1>12, <2>2, <2>3 DEF plan
  <1>13. CASE n = 2
    <2>1. w.op = "evictIntents" /\ w.step = ws.step
      BY <1>5, <1>7, <1>13
    <2>2. /\ Moved /\ (\A h \in Steps : deferred'[h] = IF h = w.step THEN None ELSE deferred[h])
          /\ UNCHANGED <<head, heads, bound, checkpoint, resolved, member>>
      BY <2>1, WriteEffect DEF w
    <2>3. w.step \in Steps /\ deferred[w.step] = None
      BY <1>2, <1>10, <2>1
    <2>4. RecoveryInv'
      BY <1>11, <2>2, <2>3, EvictIntentsKeeps
    <2> QED
      BY <1>9, <1>13, <2>2, <2>4 DEF plan
  <1>14. CASE n = 3
    <2>1. w.op = "bindResult" /\ w.step = ws.step /\ w.to = Merged(ws)
      BY <1>5, <1>7, <1>14
    <2>2. bound[ws.step] = Merged(ws)
      BY <1>1, <1>2 DEF FaninsInv
    <2>3. bound[w.step] \in {None, w.to}
      BY <2>1, <2>2
    <2>4. /\ Moved /\ (\A h \in Steps : bound'[h] = IF h = w.step THEN w.to ELSE bound[h])
          /\ UNCHANGED <<head, heads, deferred, checkpoint, resolved, member>>
      BY <2>1, <2>3, WriteEffect DEF w
    <2>5. \A h \in Steps : bound'[h] = bound[h]
      BY <2>1, <2>2, <2>4
    <2>6. bound' = bound
      <3>1. IInv'
        BY WriteInvariant
      <3>2. bound \in [Steps -> Result \cup {None}] /\ bound' \in [Steps -> Result \cup {None}]
        BY <3>1 DEF IInv, StoreInv, TypeOK
      <3> QED
        BY <2>5, <3>2
    <2>7. RecoveryInv'
      BY <1>11, <2>4, <2>6, ResolveKeeps
    <2> QED
      BY <1>9, <1>14, <2>4, <2>7 DEF plan
  <1>15. CASE n = 4
    <2>1. w.op = "evictHead"
      BY <1>5, <1>7, <1>15
    <2>2. Moved /\ head' = None /\ UNCHANGED <<heads, bound, deferred, checkpoint, resolved, member>>
      BY <2>1, WriteEffect DEF w
    <2>3. RecoveryInv'
      BY <1>11, <2>2, EvictHeadKeeps
    <2> QED
      BY <1>9, <1>15, <2>2, <2>3 DEF plan
  <1>16. CASE n = 5
    <2>1. w.op = "bindHead" /\ w.to = s
      BY <1>5, <1>7, <1>16
    <2>2. /\ Moved /\ head' = s /\ heads' = heads \cup {s}
          /\ UNCHANGED <<bound, deferred, checkpoint, resolved, member>>
      BY <2>1, WriteEffect DEF w
    <2>3. s.pend = None
      BY <1>2, OutcomeFacts DEF s
    <2>4. Calm => \A k \in 1 .. ws.step : ws.refs[k].req.step = k - 1 /\ ~Placeholder(ws.refs[k])
      BY <1>1, <1>2 DEF FaninsInv, Entry
    <2>5. Calm => \A k \in 1 .. s.step : s.refs[k].req.step = k - 1 /\ ~Placeholder(s.refs[k])
      BY <1>2, <2>4, OutcomeHistory DEF s
    <2>6. InPlace(s)
      BY <2>3, <2>5 DEF InPlace
    <2>7. RecoveryInv'
      BY <1>11, <2>2, <2>6, BindHeadKeeps
    <2> QED
      BY <1>9, <1>16, <2>2, <2>7 DEF plan
  <1> QED
    BY <1>6, <1>12, <1>13, <1>14, <1>15, <1>16

\* None is no attempt: the absence of one is a value of its own, as it is in the program.
NoneIsNoAttempt ==
    \A i, todo, successors : [idx |-> i, todo |-> todo, successors |-> successors] # None

\* An attempt is at the open stage, or it repeats a fan-in.
LEMMA AttemptAt ==
    ASSUME IInv, AttemptInv, job # None
    PROVE  /\ job.idx \in DOMAIN ledger
           /\ (Open(job.idx) /\ ledger[job.idx].kind \in {"optim_step", "eval_fanin"}) \/ DoneFanin(job.idx)
  <1>1. job.idx \in DOMAIN ledger /\ TodoInv(job.idx, job.todo)
    BY DEF IInv, JobInv
  <1>2. ledger[job.idx].kind \in {"optim_step", "eval_fanin"}
    BY <1>1 DEF TodoInv
  <1> QED
    BY <1>1, <1>2 DEF AttemptInv, Open

\* A write keeps the invariant.
LEMMA WriteRecovers ==
    ASSUME IInv, RInv, Write, NoneIsNoAttempt
    PROVE  RInv'
  <1>0. PICK i : i = job.idx
    OBVIOUS
  <1>1. RecoveryInv /\ AttemptInv /\ FaultsInv /\ job # None
    BY DEF RInv, Write
  <1>2. UNCHANGED <<adapter, ledger, environment>>
    BY DEF Write
  <1>3. Calm' = Calm /\ SameStepResume' = SameStepResume
        /\ (Open(i)' <=> Open(i)) /\ (DoneFanin(i)' <=> DoneFanin(i))
    BY <1>2, SameStages
  <1>4. Moved => job' # None
    BY DEF Moved, NoneIsNoAttempt
  <1>5. Moved => QuietInv' /\ FaultsInv'
    BY <1>1, <1>2, <1>4 DEF QuietInv, FaultsInv, Moved, environment
  <1>6. CASE Open(i) /\ ledger[i].kind = "optim_step"
    <2>1. \/ \E n \in 1 .. 9 : ParkingAt(i, n)
          \/ \E n \in 1 .. 7, out \in Output : AdvancingAt(i, n, out)
      BY <1>1, <1>6, <1>0 DEF AttemptInv
    <2>2. CASE \E n \in 1 .. 9 : ParkingAt(i, n)
      <3>1. PICK n \in 1 .. 9 : ParkingAt(i, n)
        BY <2>2
      <3>2. n # 9 /\ Moved /\ RecoveryInv' /\ ParkingAt(i, n + 1)'
        BY <1>1, <1>6, <3>1, ParkingMoves
      <3>3. n + 1 \in 1 .. 9 /\ job'.idx = i
        BY <3>2, <1>0 DEF Moved
      <3>4. (\E m \in 1 .. 9 : ParkingAt(i, m)')
        BY <3>2, <3>3
      <3>5. AttemptInv'
        BY <1>2, <1>3, <1>6, <3>3, <3>4 DEF AttemptInv, Open
      <3> QED
        BY <1>5, <3>2, <3>5 DEF RInv
    <2>3. CASE \E n \in 1 .. 7, out \in Output : AdvancingAt(i, n, out)
      <3>1. PICK n \in 1 .. 7, out \in Output : AdvancingAt(i, n, out)
        BY <2>3
      <3>2. n # 7 /\ Moved /\ RecoveryInv' /\ AdvancingAt(i, n + 1, out)'
        BY <1>1, <1>6, <3>1, AdvancingMoves
      <3>3. n + 1 \in 1 .. 7 /\ job'.idx = i
        BY <3>2, <1>0 DEF Moved
      <3>4. \E m \in 1 .. 7, x \in Output : AdvancingAt(i, m, x)'
        BY <3>2, <3>3
      <3>5. AttemptInv'
        BY <1>2, <1>3, <1>6, <3>3, <3>4 DEF AttemptInv, Open
      <3> QED
        BY <1>5, <3>2, <3>5 DEF RInv
    <2> QED
      BY <2>1, <2>2, <2>3
  <1>7. CASE Open(i) /\ ledger[i].kind = "eval_fanin"
    <2>1. PICK n \in 1 .. 6 : FanningAt(i, n)
      BY <1>1, <1>7, <1>0 DEF AttemptInv
    <2>2. n # 6 /\ Moved /\ RecoveryInv' /\ FanningAt(i, n + 1)'
      BY <1>1, <1>7, <2>1, ResumingMoves, MergingMoves
    <2>3. n + 1 \in 1 .. 6 /\ job'.idx = i
      BY <2>2, <1>0 DEF Moved
    <2>4. \E m \in 1 .. 6 : FanningAt(i, m)'
      BY <2>2, <2>3
    <2>5. AttemptInv'
      BY <1>2, <1>3, <1>7, <2>3, <2>4 DEF AttemptInv, Open
    <2> QED
      BY <1>5, <2>2, <2>5 DEF RInv
  <1>8. CASE DoneFanin(i)
    <2>1. PICK n \in 1 .. 6 : RepeatingAt(i, n)
      BY <1>1, <1>8, <1>0 DEF AttemptInv, DoneFanin
    <2>2. Calm /\ SameStepResume => NothingDeferred /\ crashes = 0
      BY <1>1, <1>8, <1>0 DEF AttemptInv, DoneFanin
    <2>3. n # 6 /\ Moved /\ RecoveryInv' /\ RepeatingAt(i, n + 1)' /\ (Calm /\ SameStepResume => NothingDeferred')
      <3>1. CASE ~SameStepResume
        <4>1. job.todo = SubSeq(Merging5(ledger[i].input), n, 5)
          BY <2>1, <3>1 DEF RepeatingAt
        <4> QED
          BY <1>1, <1>3, <1>8, <3>1, <4>1, RemergingMoves DEF RepeatingAt
      <3>2. CASE SameStepResume /\ n <= 2 /\ (Calm => head # None /\ Top(head))
                 /\ job.todo = SubSeq(<< [op |-> "resolve", req |-> ledger[i].input.intents] >>, n, 1)
        <4>1. /\ n = 1 /\ Moved /\ RecoveryInv'
              /\ job'.todo = SubSeq(<< [op |-> "resolve", req |-> ledger'[i].input.intents] >>, n + 1, 1)
              /\ Calm' => head' # None /\ Top(head)'
              /\ UNCHANGED deferred
          BY <1>1, <1>8, <3>2, n \in 1 .. 2, StaleMoves
        <4>2. RepeatingAt(i, n + 1)'
          BY <1>3, <3>2, <4>1 DEF RepeatingAt
        <4> QED
          BY <2>2, <4>1, <4>2 DEF NothingDeferred
      <3>3. CASE SameStepResume /\ \E s \in WorkState :
                    /\ RepeatedState(i, s) /\ n <= 5
                    /\ job.todo = SubSeq(Resuming4(ledger[i].input, s), n, 4)
        <4>1. PICK s \in WorkState : /\ RepeatedState(i, s) /\ n <= 5
                                     /\ job.todo = SubSeq(Resuming4(ledger[i].input, s), n, 4)
          BY <3>3
        <4>2. /\ n # 5 /\ Moved /\ RecoveryInv' /\ RepeatedState(i, s)'
              /\ job'.todo = SubSeq(Resuming4(ledger[i].input, s), n + 1, 4)'
              /\ n = 4 => head' = s
              /\ Calm' => NothingDeferred'
          BY <1>1, <1>8, <2>2, <3>3, <4>1, n \in 1 .. 5, AgainMoves
        <4>3. WorkState' = WorkState
          BY DEF WorkState
        <4>4. n + 1 <= 5 /\ (n + 1 = 5 => n = 4)
          BY <4>1, <4>2
        <4>5. RepeatingAt(i, n + 1)'
          BY <1>3, <3>3, <4>2, <4>3, <4>4 DEF RepeatingAt
        <4> QED
          BY <1>3, <4>1, <4>2, <4>5
      <3> QED
        BY <2>1, <3>1, <3>2, <3>3 DEF RepeatingAt
    <2>4. n + 1 \in 1 .. 6 /\ job'.idx = i
      BY <2>3, <1>0 DEF Moved
    <2>5. \E m \in 1 .. 6 : RepeatingAt(i, m)'
      BY <2>3, <2>4
    <2>6. ledger'[i].done /\ DoneFanin(i)' /\ ~Open(i)'
      BY <1>2, <1>3, <1>8 DEF DoneFanin, Open
    <2>7. AttemptInv'
      BY <1>2, <1>3, <2>2, <2>3, <2>4, <2>5, <2>6 DEF AttemptInv, environment
    <2> QED
      BY <1>5, <2>3, <2>7 DEF RInv
  <1>9. (Open(i) /\ ledger[i].kind \in {"optim_step", "eval_fanin"}) \/ DoneFanin(i)
    BY <1>1, <1>0, AttemptAt
  <1> QED
    BY <1>6, <1>7, <1>8, <1>9

-----------------------------------------------------------------------------
(* An optim_step decides.                                                  *)

\* A plan is written part after part.
LEMMA EightWrites ==
    ASSUME NEW a, NEW b, NEW c, NEW d, NEW e, NEW f, NEW g, NEW h
    PROVE  /\ << a >> \o << b >> \o << c >> \o << d >> \o << e, f >> \o << g >> \o << h >> =
                SubSeq(<< a, b, c, d, e, f, g, h >>, 1, 8)
           /\ << >> \o << d >> \o << e, f >> \o << g >> \o << h >> = SubSeq(<< a, b, c, d, e, f, g, h >>, 4, 8)
  OBVIOUS

\* The plan of an attempt that advances the member, part after part.
LEMMA SixWrites ==
    ASSUME NEW a, NEW b, NEW c, NEW d, NEW e, NEW f
    PROVE  /\ << a >> \o << >> \o << b >> \o << c >> \o << d, e >> \o << f >> =
                SubSeq(<< a, b, c, d, e, f >>, 1, 6)
           /\ << a >> \o << >> \o << b >> \o << c >> \o << d, e >> \o << >> =
                SubSeq(<< a, b, c, d, e, f >>, 1, 5)
           /\ << >> \o << c >> \o << d, e >> \o << f >> = SubSeq(<< a, b, c, d, e, f >>, 3, 6)
           /\ << >> \o << c >> \o << d, e >> \o << >> = SubSeq(<< a, b, c, d, e, f >>, 3, 5)
  OBVIOUS

\* Before the opening stage has run there is nothing to rebuild its state from.
LEMMA OpeningState ==
    ASSUME IInv, FaultsInv, job = None, ~ledger[0].done
    PROVE  LoadWorkState(None) = Settled(0, 0, << >>, FALSE)
  <1>1. head = None /\ \A k \in Steps : bound[k] = None
    BY DEF FaultsInv
  <1>2. ~AcceptHead
    BY <1>1 DEF AcceptHead
  <1>3. LoadWorkState(None) = Rebuilt
    BY <1>2 DEF LoadWorkState
  <1> DEFINE P(k) == /\ \A j \in 0 .. k - 1 : bound[j] # None
                     /\ \A j \in 0 .. k - 2 : bound[j].out # "stop"
                     /\ \/ bound[k] = None
                        \/ k > 0 /\ bound[k - 1].out = "stop"
             count == CHOOSE k \in Steps : P(k)
  <1>4. 0 \in Steps /\ P(0)
    BY <1>1, StepsFacts
  <1>5. ASSUME NEW k \in Steps, P(k) PROVE k = 0
    <2>1. SUFFICES ASSUME k # 0 PROVE FALSE
      OBVIOUS
    <2>2. 0 \in 0 .. k - 1
      BY <2>1, StepsFacts
    <2> QED
      BY <1>1, <1>4, <1>5, <2>2
  <1>6. count = 0
    <2>1. count \in Steps /\ P(count)
      <3> HIDE DEF P
      <3> QED
        BY <1>4
    <2> QED
      BY <1>5, <2>1
  <1>7. Rebuilt = Settled(0, count, [k \in 1 .. count |-> bound[k - 1]], count > 0 /\ bound[count - 1].out = "stop")
    BY DEF Rebuilt
  <1>8. [k \in 1 .. 0 |-> bound[k - 1]] = << >>
    OBVIOUS
  <1> HIDE DEF count
  <1>9. Rebuilt = Settled(0, 0, << >>, FALSE)
    <2>1. (count > 0 /\ bound[count - 1].out = "stop") = FALSE
      BY <1>6
    <2>2. [k \in 1 .. count |-> bound[k - 1]] = << >>
      BY <1>6, <1>8
    <2> QED
      BY <1>6, <1>7, <2>1, <2>2
  <1> QED
    BY <1>3, <1>9

\* An optim_step starts from its state, at its stage.
LEMMA LoadedStateOf ==
    ASSUME IInv, RInv, job = None, NEW i, Open(i), ledger[i].kind = "optim_step"
    PROVE  LoadWorkState(ledger[i].input) = StateOf(i) /\ ExpectedStage(StateOf(i)) = i
  <1>1. StateOf(i).pend = None /\ StateOf(i).stage = i /\ i \in DOMAIN ledger
    BY OpenState DEF RInv, RecoveryInv
  <1>2. CASE i = 0
    <2>1. ledger[0].input = None /\ ~ledger[0].done
      BY <1>2 DEF IInv, StoreInv, LedgerInv, Open
    <2> QED
      BY <1>1, <1>2, <2>1, OpeningState DEF RInv, StateOf, ExpectedStage
  <1>3. CASE i # 0
    <2>1. ledger[i].input # None
      BY <1>1, <1>3 DEF IInv, StoreInv, LedgerInv, StageInv
    <2> QED
      BY <1>1, <1>3, <2>1 DEF LoadWorkState, StateOf, ExpectedStage
  <1> QED
    BY <1>2, <1>3

\* What follows when the open optim_step plans its writes.
LEMMA StepPlanned ==
    ASSUME IInv, RInv, NoneIsNoAttempt, NEW i, Open(i), ledger[i].kind = "optim_step", NEW todo, NEW successors,
           Run(i, todo, successors),
           UNCHANGED <<adapter, store, ledger, completed, environment>>,
           \/ \E n \in 1 .. 9 : ParkingAt(i, n)'
           \/ \E n \in 1 .. 7, out \in Output : AdvancingAt(i, n, out)'
    PROVE  RInv'
  <1>1. job' = [idx |-> i, todo |-> todo, successors |-> successors] /\ raised' = raised
    BY DEF Run
  <1>2. job' # None /\ job'.idx = i
    BY <1>1 DEF NoneIsNoAttempt
  <1>3. RecoveryInv'
    BY EvictHeadKeeps DEF RInv, Static, store
  <1>4. QuietInv' /\ FaultsInv'
    BY <1>1, <1>2 DEF RInv, QuietInv, FaultsInv, environment
  <1>5. ~ledger[i].done /\ ledger' = ledger
    BY DEF Open
  <1>6. AttemptInv'
    BY <1>2, <1>5 DEF AttemptInv
  <1> QED
    BY <1>3, <1>4, <1>6 DEF RInv

\* It parks the member: from the beginning, or from the bindings of an earlier attempt.
LEMMA DeferPlanned ==
    ASSUME IInv, RInv, NoneIsNoAttempt, NEW i, Open(i), ledger[i].kind = "optim_step", NEW todo, NEW n \in {1, 4},
           Defer(i, todo, StepOf(i), StateOf(i).refs, Given(i, "defer"), Asked(i)),
           todo = IF n = 4 THEN << >>
                  ELSE << [op |-> "checkpoint", req |-> Asked(i), to |-> "defer"] >>
                         \o BindIntents(StepOf(i), Asked(i)) \o BindResult(StepOf(i), Given(i, "defer")),
           UNCHANGED <<adapter, store, ledger, completed, environment>>,
           Asked(i) \in DOMAIN checkpoint => checkpoint[Asked(i)] = "defer",
           n = 4 => Asked(i) \in DOMAIN checkpoint /\ deferred[StepOf(i)] = Asked(i),
           bound[StepOf(i)] = IF n = 4 THEN Given(i, "defer") ELSE None,
           member = None
    PROVE  RInv'
  <1>1. UNCHANGED <<adapter, ledger, head, heads, bound, deferred, checkpoint, resolved, member>>
    BY DEF store
  <1> DEFINE whole == todo \o BindIntents(StepOf(i), Asked(i)) \o Persist(ParkedAt(i))
                           \o EvictResult(StepOf(i)) \o EvictIntents(StepOf(i))
  <1>2. Run(i, whole, FanOut(ParkedAt(i)))
    BY DEF Defer, ParkedAt
  <1>3. whole = SubSeq(Parking8(i), n, 8)
    BY EightWrites DEF Parking8, BindIntents, BindResult, Persist, EvictResult, EvictIntents
  <1> HIDE DEF whole
  <1>4. /\ StepOf(i)' = StepOf(i) /\ Asked(i)' = Asked(i) /\ ParkedAt(i)' = ParkedAt(i)
        /\ Given(i, "defer")' = Given(i, "defer")
    BY <1>1, SameStages
  <1>5. Parking8(i)' = Parking8(i) /\ FanOut(ParkedAt(i))' = FanOut(ParkedAt(i))
    BY <1>4 DEF Parking8, FanOut
  <1>6. job'.todo = whole /\ job'.successors = FanOut(ParkedAt(i))
    BY <1>2 DEF Run
  <1>7. ParkingAt(i, n)'
    BY <1>1, <1>3, <1>4, <1>5, <1>6 DEF ParkingAt
  <1>8. n \in 1 .. 9
    OBVIOUS
  <1> QED
    BY <1>2, <1>7, <1>8, StepPlanned

\* It advances the member.
LEMMA AdvancePlanned ==
    ASSUME IInv, RInv, NoneIsNoAttempt, NEW i, Open(i), ledger[i].kind = "optim_step", NEW todo, NEW n \in {1, 3},
           NEW out \in Output, NEW intents, ~(Unresolved(Given(i, out)) /\ intents # None),
           AfterRunStep(i, StateOf(i), todo, Given(i, out), intents),
           todo = IF n = 3 THEN << >>
                  ELSE << [op |-> "checkpoint", req |-> Asked(i), to |-> out] >>
                         \o << >> \o BindResult(StepOf(i), Given(i, out)),
           UNCHANGED <<adapter, store, ledger, completed, environment>>,
           Calm => out # "defer",
           deferred[StepOf(i)] = None,
           Asked(i) \in DOMAIN checkpoint => checkpoint[Asked(i)] = out,
           n = 3 => Asked(i) \in DOMAIN checkpoint,
           bound[StepOf(i)] = IF n = 3 THEN Given(i, out) ELSE None
    PROVE  RInv'
  <1> DEFINE res == Given(i, out)
             s == AdvancedAt(i, res)
             last == IF out = "stop" THEN 6 ELSE 5
             next == IF out = "stop" THEN << >> ELSE NextStep(s)
             whole == todo \o BindResult(StepOf(i), res) \o Persist(s)
                           \o (IF out = "stop" THEN BindMember(s) ELSE << >>)
  <1>1. UNCHANGED <<adapter, ledger, head, heads, bound, deferred, checkpoint, resolved, member>>
    BY DEF store
  <1>2. s.terminal = (out = "stop") /\ res.out = out
    BY AskedFacts DEF RInv, RecoveryInv
  <1>3. s = Settled(i + 1, StateOf(i).step + 1, Append(StateOf(i).refs, res), res.out = "stop")
    BY DEF AdvancedAt, StepOf
  <1>4. Run(i, whole, next)
    <2> HIDE DEF res, s
    <2>1. Run(i, todo \o BindResult(StateOf(i).step, res) \o Persist(s)
                      \o (IF s.terminal THEN BindMember(s) ELSE << >>),
                 IF s.terminal THEN << >> ELSE NextStep(s))
      BY <1>3 DEF AfterRunStep, res
    <2> QED
      BY <1>2, <2>1 DEF StepOf
  <1>5. whole = SubSeq(Advancing6(i, res), n, last)
    <2> HIDE DEF res, s
    <2>1. Advancing6(i, res) =
            << [op |-> "checkpoint", req |-> Asked(i), to |-> out],
               [op |-> "bindResult", step |-> StepOf(i), to |-> res],
               [op |-> "bindResult", step |-> StepOf(i), to |-> res],
               [op |-> "evictHead"], [op |-> "bindHead", to |-> s],
               [op |-> "bindMember", to |-> s] >>
      BY <1>2 DEF Advancing6, s
    <2>2. CASE n = 3
      BY <2>1, <2>2, SixWrites DEF BindResult, Persist, BindMember
    <2>3. CASE n = 1
      BY <2>1, <2>3, SixWrites DEF BindResult, Persist, BindMember, res
    <2> QED
      BY <2>2, <2>3
  <1>6. /\ StepOf(i)' = StepOf(i) /\ Asked(i)' = Asked(i) /\ StateOf(i)' = StateOf(i) /\ res' = res
        /\ s' = s /\ Calm' = Calm
    BY <1>1, SameStages
  <1> HIDE DEF whole
  <1>7. Advancing6(i, res)' = Advancing6(i, res) /\ next' = next
    <2> HIDE DEF res, s
    <2>1. AdvancedAt(i, res)' = AdvancedAt(i, res)
      BY <1>6 DEF AdvancedAt
    <2> QED
      BY <1>6, <2>1 DEF Advancing6, NextStep, s
  <1>8. job'.todo = whole /\ job'.successors = next
    BY <1>4 DEF Run
  <1>9. AdvancingAt(i, n, out)'
    <2>1. n <= last + 1 /\ n < 6
      OBVIOUS
    <2>2. job'.todo = SubSeq(Advancing6(i, res), n, last)' /\ job'.successors = next'
      BY <1>5, <1>7, <1>8
    <2> QED
      BY <1>1, <1>6, <2>1, <2>2 DEF AdvancingAt
  <1>10. n \in 1 .. 7
    OBVIOUS
  <1> QED
    BY <1>4, <1>9, <1>10, StepPlanned

\* An attempt at an optim_step plans, and does not raise.
LEMMA OptimStepRecovers ==
    ASSUME IInv, RInv, NoneIsNoAttempt, job = None, NEW i, Open(i), ledger[i].kind = "optim_step",
           OptimStep(i), UNCHANGED <<adapter, store, ledger, completed, environment>>
    PROVE  RInv'
  <1> DEFINE st == StateOf(i)
             k == StepOf(i)
  <1>1. FrontierInv /\ i \in DOMAIN ledger
    BY DEF RInv, RecoveryInv, Open
  <1>2. LoadWorkState(ledger[i].input) = st /\ ExpectedStage(st) = i
    BY LoadedStateOf
  <1>3. ~st.terminal /\ st.pend = None /\ st.step = k /\ k \in Steps /\ k \in Nat /\ OpenInv(i)
    BY <1>1, OpenState
  <1>4. AskingInv(i)
    BY <1>1 DEF FrontierInv
  <1>5. RequestOf(i, st) = Asked(i)
    BY <1>3 DEF RequestOf, Asked, RequestAt
  <1>6. PriorBound(st)
    <2>1. k > 0 => k \in 1 .. k
      BY <1>3
    <2> QED
      BY <1>3, <2>1 DEF PriorBound, OpenInv
  <1>7. \A h \in Steps : deferred[h] # None =>
            h = k /\ deferred[h] = Asked(i) /\ Asked(i) \in DOMAIN checkpoint /\ checkpoint[Asked(i)] = "defer"
    BY <1>1, DeferredAsked, OneOpen
  <1>8. /\ Asked(i) \in Request /\ Asked(i) # None
        /\ \A out \in Output : /\ Given(i, out).out = out /\ ~Given(i, out).resolved /\ Given(i, out) # None
                               /\ Given(i, out).req = Asked(i)
    BY <1>1, AskedFacts, ConstantsAssumption
  <1>9. bound[k] # None =>
            /\ Asked(i) \in DOMAIN checkpoint /\ checkpoint[Asked(i)] \in Output
            /\ bound[k] = Given(i, checkpoint[Asked(i)]) /\ bound[k].out = checkpoint[Asked(i)]
            /\ bound[k].req = Asked(i) /\ ~bound[k].resolved
    BY <1>4, <1>8 DEF AskingInv, IInv, StoreInv, TypeOK
  <1>10. UnresolvedDeferrals(st) # {} => k \in UnresolvedDeferrals(st) /\ bound[k] # None /\ deferred[k] # None
    <2>1. ASSUME NEW h \in UnresolvedDeferrals(st) PROVE h = k /\ bound[h] # None /\ deferred[h] # None
      <3>1. bound[h] # None /\ deferred[h] # None /\ h \in {k} \cup ({k - 1} \cap Nat)
        BY <1>3, <2>1 DEF UnresolvedDeferrals, Unresolved
      <3>2. h \in Steps
        BY <1>3, <3>1, StepsFacts DEF Steps
      <3> QED
        BY <1>7, <3>1, <3>2
    <2> QED
      BY <2>1
  <1>11. UnresolvedDeferrals(st) = {} => ~(Unresolved(bound[k]) /\ deferred[k] # None)
    BY <1>3 DEF UnresolvedDeferrals
  <1>12. bound[k] = None \/ bound[k].out = "defer" => member = None
    BY <1>4 DEF AskingInv
  <1> HIDE DEF st, k
  <1>13. CASE StepRecover(i, st)
    <2>1. UnresolvedDeferrals(st) # {}
      BY <1>13 DEF StepRecover
    <2>2. RecoveryStep(st) = k /\ bound[k] # None /\ deferred[k] # None
      BY <1>3, <1>10, <2>1 DEF RecoveryStep
    <2>3. /\ deferred[k] = Asked(i) /\ checkpoint[Asked(i)] = "defer" /\ Asked(i) \in DOMAIN checkpoint
          /\ bound[k] = Given(i, "defer")
      BY <1>3, <1>7, <1>9, <2>2
    <2>4. Defer(i, << >>, k, st.refs, Given(i, "defer"), Asked(i))
      BY <1>13, <2>2, <2>3 DEF StepRecover
    <2>5. member = None
      BY <1>9, <1>12, <2>2, <2>3
    <2> QED
      BY <2>3, <2>4, <2>5, DeferPlanned, 4 \in {1, 4} DEF st, k
  <1>14. CASE UnresolvedDeferrals(st) = {} /\ StepBound(i, st)
    <2>1. bound[k] # None /\ AfterRunStep(i, st, << >>, bound[k], deferred[k])
      BY <1>3, <1>14 DEF StepBound
    <2>2. PICK out \in Output : out = checkpoint[Asked(i)]
      BY <1>9, <2>1
    <2>3. bound[k] = Given(i, out) /\ Asked(i) \in DOMAIN checkpoint /\ bound[k].out = out /\ ~bound[k].resolved
      BY <1>9, <2>1, <2>2
    <2>4. ~(Unresolved(bound[k]) /\ deferred[k] # None)
      BY <1>11, <1>14
    <2>5. deferred[k] = None
      <3>1. SUFFICES ASSUME deferred[k] # None PROVE FALSE
        OBVIOUS
      <3>2. out = "defer"
        BY <1>3, <1>7, <2>2, <3>1
      <3> QED
        BY <2>1, <2>3, <2>4, <3>1, <3>2 DEF Unresolved
    <2>6. Calm => out # "defer"
      BY <1>4, <2>1, <2>2, <2>5 DEF AskingInv, k
    <2>7. AfterRunStep(i, st, << >>, Given(i, out), deferred[k])
      BY <2>1, <2>3
    <2> QED
      BY <2>2, <2>3, <2>4, <2>5, <2>6, <2>7, AdvancePlanned, 3 \in {1, 3} DEF st, k
  <1>15. CASE StepInvoke(i, st)
    <2>1. bound[k] = None
      BY <1>3, <1>15 DEF StepInvoke
    <2>2. PICK out \in Answers(i, Asked(i)) :
            LET res == [req |-> Asked(i), out |-> out, resolved |-> FALSE]
                intents == IF out = "defer" THEN Asked(i) ELSE deferred[k]
            IN  AfterRunStep(i, st,
                    << [op |-> "checkpoint", req |-> Asked(i), to |-> out] >>
                      \o (IF out = "defer" THEN BindIntents(k, Asked(i)) ELSE << >>)
                      \o BindResult(k, res),
                    res, intents)
      BY <1>3, <1>5, <1>15 DEF StepInvoke
    <2>3. out \in Output /\ (Asked(i) \in DOMAIN checkpoint => checkpoint[Asked(i)] = out)
      BY <2>2 DEF Answers, IInv, StoreInv, TypeOK
    <2>4. member = None
      BY <1>12, <2>1
    <2> DEFINE todo == << [op |-> "checkpoint", req |-> Asked(i), to |-> out] >>
                      \o (IF out = "defer" THEN BindIntents(k, Asked(i)) ELSE << >>)
                      \o BindResult(k, Given(i, out))
               intents == IF out = "defer" THEN Asked(i) ELSE deferred[k]
    <2>5. AfterRunStep(i, st, todo, Given(i, out), intents)
      BY <2>2 DEF Given
    <2> HIDE DEF todo, intents
    <2>6. CASE out = "defer"
      <3>1. Unresolved(Given(i, out)) /\ intents = Asked(i)
        BY <1>8, <2>3, <2>6 DEF Unresolved, intents
      <3>2. Defer(i, todo, k, st.refs, Given(i, "defer"), Asked(i))
        BY <1>3, <1>8, <2>5, <2>6, <3>1 DEF AfterRunStep
      <3>3. todo = << [op |-> "checkpoint", req |-> Asked(i), to |-> "defer"] >>
                         \o BindIntents(k, Asked(i)) \o BindResult(k, Given(i, "defer"))
        BY <2>6 DEF todo
      <3>4. /\ todo = IF 1 = 4 THEN << >>
                        ELSE << [op |-> "checkpoint", req |-> Asked(i), to |-> "defer"] >>
                               \o BindIntents(k, Asked(i)) \o BindResult(k, Given(i, "defer"))
            /\ bound[k] = IF 1 = 4 THEN Given(i, "defer") ELSE None
            /\ 1 # 4
        BY <2>1, <3>3
      <3> QED
        BY <2>3, <2>4, <2>6, <3>2, <3>4, DeferPlanned, 1 \in {1, 4} DEF st, k
    <2>7. CASE out # "defer"
      <3>1. deferred[k] = None
        BY <1>3, <1>7, <2>3, <2>7
      <3>2. intents = None
        BY <2>7, <3>1 DEF intents
      <3>3. todo = << [op |-> "checkpoint", req |-> Asked(i), to |-> out] >>
                         \o << >> \o BindResult(k, Given(i, out))
        BY <2>7 DEF todo
      <3>4. /\ todo = IF 1 = 3 THEN << >>
                        ELSE << [op |-> "checkpoint", req |-> Asked(i), to |-> out] >>
                               \o << >> \o BindResult(k, Given(i, out))
            /\ bound[k] = IF 1 = 3 THEN Given(i, out) ELSE None
            /\ 1 # 3
        BY <2>1, <3>3
      <3> QED
        BY <2>3, <2>5, <2>7, <3>1, <3>2, <3>4, AdvancePlanned, 1 \in {1, 3} DEF st, k
    <2> QED
      BY <2>6, <2>7
  <1>16. ~StepRefused(i, st)
    BY <1>3, <1>5, <1>6, <1>9 DEF StepRefused
  <1>17. ~StepTerminal(i, st) /\ ~StepResume(i, st)
    BY <1>3 DEF StepTerminal, StepResume
  <1> QED
    BY <1>2, <1>13, <1>14, <1>15, <1>16, <1>17 DEF OptimStep

-----------------------------------------------------------------------------
(* A fan-in decides.                                                       *)

\* Its plans, part after part.
LEMMA FaninWrites ==
    ASSUME NEW a, NEW b, NEW c, NEW d, NEW e
    PROVE  /\ << a >> \o << b >> \o << c, d >> = SubSeq(<< a, b, c, d >>, 1, 4)
           /\ << a >> \o << b >> \o << c >> \o << d, e >> = SubSeq(<< a, b, c, d, e >>, 1, 5)
           /\ << a >> = SubSeq(<< a >>, 1, 1)
  OBVIOUS

\* No head is of a later episode than the open fan-in.
LEMMA HeadNotLater ==
    ASSUME IInv, RecoveryInv, SameStepResume, NEW i, Open(i), ledger[i].kind = "eval_fanin"
    PROVE  /\ ~HeadIsLaterEpisode(ledger[i].input)
           /\ head # None /\ head.step = ledger[i].input.step /\ head.pend = None =>
                head.refs = ledger[i].input.refs /\ head.terminal = FALSE
  <1> DEFINE ws == ledger[i].input
  <1>1. /\ ws = StateOf(i) /\ ws.step = StepOf(i) /\ ws.step \in Nat /\ ws.stage = i /\ i \in Nat
        /\ ws.origin \in Nat /\ i \in DOMAIN ledger
    BY OpenState DEF RecoveryInv
  <1>2. SUFFICES ASSUME head # None
                 PROVE  /\ ~HeadIsLaterEpisode(ws)
                        /\ head.step = ws.step /\ head.pend = None => head.refs = ws.refs /\ head.terminal = FALSE
    BY DEF HeadIsLaterEpisode
  <1>3. Behind(head, i)
    BY <1>1, <1>2 DEF RecoveryInv, HeadsInv
  <1>4. /\ head.step \in Nat /\ head.stage \in Nat /\ head.terminal \in BOOLEAN
        /\ head.pend = None <=> head.origin = None
        /\ head.origin # None => head.origin \in Nat
    BY <1>2, StepsFacts DEF IInv, StoreInv, HeadInv, StateInv, WorkState
  <1>5. \/ head.step < ws.step
        \/ /\ head.step = ws.step
           /\ head.pend # None => head.origin <= ws.origin
           /\ head.pend = None => head.stage <= ws.stage + 1 /\ head.refs = ws.refs /\ ~head.terminal
    BY <1>1, <1>3 DEF Behind
  <1>6. CASE head.step < ws.step
    BY <1>1, <1>4, <1>6 DEF HeadIsLaterEpisode
  <1>7. CASE ~(head.step < ws.step)
    BY <1>1, <1>4, <1>5, <1>7 DEF HeadIsLaterEpisode
  <1> QED
    BY <1>6, <1>7

\* A fan-in that has not run before plans.
LEMMA FaninRecovers ==
    ASSUME IInv, RInv, NoneIsNoAttempt, job = None, NEW i, Open(i), ledger[i].kind = "eval_fanin",
           EvalFanin(i), UNCHANGED <<adapter, store, ledger, completed, environment>>
    PROVE  RInv'
  <1> DEFINE ws == ledger[i].input
             s == Outcome(ws)
             plan == IF SameStepResume THEN Resuming4(ws, s) ELSE Merging5(ws)
             last == IF SameStepResume THEN 4 ELSE 5
  <1>1. /\ ws = StateOf(i) /\ ws.step = StepOf(i) /\ ws.stage = i /\ StateInv(ws)
        /\ ws.refs \in Seq(Result) /\ Len(ws.refs) = ws.step /\ i \in DOMAIN ledger /\ ~ledger[i].done
    BY OpenState DEF RInv, RecoveryInv
  <1>2. Run(i, SubSeq(plan, 1, last), NextStep(s))
    <2>1. CASE SameStepResume
      <3>1. FaninResume(i, ws)
        BY <2>1, HeadNotLater DEF EvalFanin, FaninStale, FaninMerge, RInv
      <3>2. SubSeq(ws.refs, 1, ws.step) = ws.refs
        BY <1>1
      <3>3. s = Settled(ws.stage + 1, ws.step, ws.refs, FALSE)
        BY <2>1 DEF Outcome
      <3>4. Run(i, Resolve(ws) \o EvictIntents(ws.step) \o Persist(s), NextStep(s))
        BY <2>1, <3>1, <3>2, <3>3, HeadNotLater DEF FaninResume, RInv
      <3>5. Resolve(ws) \o EvictIntents(ws.step) \o Persist(s) = SubSeq(plan, 1, last)
        BY <2>1, FaninWrites DEF Resolve, EvictIntents, Persist, Resuming4
      <3> QED
        BY <3>4, <3>5
    <2>2. CASE ~SameStepResume
      <3>1. FaninMerge(i, ws)
        BY <2>2 DEF EvalFanin, FaninStale, FaninResume
      <3>2. s = Settled(ws.stage + 1, ws.step + 1, Append(ws.refs, Merged(ws)), FALSE)
        BY <2>2 DEF Outcome
      <3>3. Run(i, Resolve(ws) \o EvictIntents(ws.step) \o BindResult(ws.step, Merged(ws)) \o Persist(s), NextStep(s))
        BY <3>1, <3>2 DEF FaninMerge, Merged
      <3>4. Resolve(ws) \o EvictIntents(ws.step) \o BindResult(ws.step, Merged(ws)) \o Persist(s) = SubSeq(plan, 1, last)
        BY <2>2, FaninWrites DEF Resolve, EvictIntents, BindResult, Persist, Merging5
      <3> QED
        BY <3>3, <3>4
    <2> QED
      BY <2>1, <2>2
  <1>3. /\ job' = [idx |-> i, todo |-> SubSeq(plan, 1, last), successors |-> NextStep(s)]
        /\ raised' = raised
    BY <1>2 DEF Run
  <1>4. job' # None /\ job'.idx = i /\ job'.todo = SubSeq(plan, 1, last) /\ job'.successors = NextStep(s)
    BY <1>3 DEF NoneIsNoAttempt
  <1>5. UNCHANGED <<adapter, ledger, head, heads, bound, deferred, checkpoint, resolved, member, completed>>
    BY DEF store
  <1>6. /\ ws' = ws /\ s' = s /\ plan' = plan /\ NextStep(s)' = NextStep(s)
        /\ SameStepResume' <=> SameStepResume
    <2>2. ws' = ws /\ Merged(ws)' = Merged(ws) /\ (SameStepResume' <=> SameStepResume)
      BY <1>5 DEF Merged, SameStepResume
    <2>3. s' = s
      BY <1>5, <2>2, SameStages DEF Outcome
    <2> QED
      BY <2>2, <2>3 DEF Merging5, Resuming4, NextStep
  <1>7. FanningAt(i, 1)'
    BY <1>4, <1>6 DEF FanningAt
  <1>8. RecoveryInv'
    BY <1>5, EvictHeadKeeps DEF RInv, Static
  <1>9. QuietInv' /\ FaultsInv'
    BY <1>3, <1>4, <1>5 DEF RInv, QuietInv, FaultsInv, environment
  <1>10. AttemptInv'
    <2>1. \E n \in 1 .. 6 : FanningAt(i, n)'
      BY <1>7
    <2> QED
      BY <1>1, <1>4, <1>5, <2>1 DEF AttemptInv
  <1> QED
    BY <1>8, <1>9, <1>10 DEF RInv

\* What follows when a fan-in that is done is delivered again.
LEMMA RepeatPlanned ==
    ASSUME IInv, RInv, NoneIsNoAttempt, job = None, NEW j, DoneFanin(j), NEW todo, NEW successors,
           Run(j, todo, successors), UNCHANGED <<adapter, store, ledger, completed, crashes>>,
           MixedFaults \/ crashes = 0,
           RepeatingAt(j, 1)'
    PROVE  RInv'
  <1>1. job' = [idx |-> j, todo |-> todo, successors |-> successors] /\ raised' = raised
    BY DEF Run
  <1>2. job' # None /\ job'.idx = j
    BY <1>1 DEF NoneIsNoAttempt
  <1>3. UNCHANGED <<adapter, ledger, head, heads, bound, deferred, checkpoint, resolved, member, completed>>
    BY DEF store
  <1>4. RecoveryInv'
    BY <1>3, EvictHeadKeeps DEF RInv, Static
  <1>5. QuietInv' /\ FaultsInv'
    BY <1>1, <1>2, <1>3 DEF RInv, QuietInv, FaultsInv
  <1>6. Calm /\ SameStepResume => NothingDeferred /\ crashes = 0
    BY DEF RInv, QuietInv, Calm
  <1>7. Calm' = Calm /\ SameStepResume' = SameStepResume /\ (NothingDeferred' <=> NothingDeferred)
    BY <1>3, SameStages DEF NothingDeferred
  <1>8. \E n \in 1 .. 6 : RepeatingAt(j, n)'
    OBVIOUS
  <1>9. DoneFanin(j)' /\ ledger'[j].done
    BY <1>3 DEF DoneFanin
  <1>10. AttemptInv'
    BY <1>2, <1>6, <1>7, <1>8, <1>9 DEF AttemptInv, Open
  <1> QED
    BY <1>4, <1>5, <1>10 DEF RInv

\* Without crashes, the head is the latest of all; a fan-in that does not find it later
\* resumes at its stage.
LEMMA ResumesAtTop ==
    ASSUME IInv, RecoveryInv, SameStepResume, NEW j, DoneFanin(j), head # None, Top(head),
           ~HeadIsLaterEpisode(ledger[j].input), Calm
    PROVE  head.stage = j + 1 /\ head.step = ledger[j].input.step
  <1> DEFINE ws == ledger[j].input
  <1>1. j \in DOMAIN ledger /\ j \in Nat /\ ws.stage = j /\ StateInv(ws) /\ ws.pend # None
    BY DoneBefore
  <1>2. ws.step \in Nat /\ ws.origin \in Nat /\ Rows \in Nat
    BY <1>1, StepsFacts, ConstantsAssumption DEF StateInv, WorkState
  <1>3. ws.origin + Rows + 1 = j
    BY <1>1 DEF RecoveryInv, FaninsInv
  <1>4. PICK h \in heads : h.stage = j + 1 /\ h.step = ws.step
    BY <1>1 DEF RecoveryInv, FaninsInv
  <1>5. j + 1 <= head.stage /\ ws.step <= head.step
    BY <1>4 DEF Top
  <1>6. /\ head.step \in Nat /\ head.stage \in Nat
        /\ head.pend = None <=> head.origin = None
        /\ head.origin # None => head.origin \in Nat
    BY StepsFacts DEF IInv, StoreInv, HeadInv, StateInv, WorkState
  <1>7. head.pend # None => head.stage = head.origin + Rows + 1
    BY DEF RecoveryInv, HeadsInv
  <1>8. head.step = ws.step /\ (IF head.origin # None THEN head.origin <= ws.origin ELSE head.stage <= ws.stage + 1)
    BY <1>1, <1>2, <1>5, <1>6 DEF HeadIsLaterEpisode
  <1>9. head.origin = None
    BY <1>2, <1>3, <1>5, <1>6, <1>7, <1>8
  <1> QED
    BY <1>1, <1>5, <1>6, <1>8, <1>9

\* A repeated fan-in of GEPA resumes with a state that is in its place.
LEMMA RepeatedPlan ==
    ASSUME IInv, RecoveryInv, SameStepResume, NEW j, DoneFanin(j),
           Calm => head # None /\ Top(head),
           ~HeadIsLaterEpisode(ledger[j].input), NEW s,
           s = IF head # None /\ head.step = ledger[j].input.step /\ head.pend = None
               THEN Settled(ledger[j].input.stage + 1, head.step, head.refs, head.terminal)
               ELSE Settled(ledger[j].input.stage + 1, ledger[j].input.step,
                            SubSeq(ledger[j].input.refs, 1, ledger[j].input.step), FALSE)
    PROVE  s \in WorkState /\ RepeatedState(j, s)
  <1> DEFINE ws == ledger[j].input
             again == head # None /\ head.step = ws.step /\ head.pend = None
  <1>1. j \in DOMAIN ledger /\ j \in Nat /\ ws.stage = j /\ StateInv(ws)
    BY DoneBefore
  <1>2. ws.refs \in Seq(Result) /\ Len(ws.refs) = ws.step /\ ws.step \in Steps /\ ws.step \in Nat
    BY <1>1, StepsFacts DEF StateInv, WorkState
  <1>3. SubSeq(ws.refs, 1, ws.step) = ws.refs
    BY <1>2
  <1>4. Calm => Top(s)
    <2>1. Calm => head.stage = j + 1 /\ head.step = ws.step
      BY ResumesAtTop
    <2>2. s.stage = j + 1 /\ s.step = ws.step
      BY <1>1 DEF Settled
    <2> QED
      BY <2>1, <2>2 DEF Top
  <1>5. CASE again
    <2>1. s = Settled(j + 1, head.step, head.refs, head.terminal)
      BY <1>1, <1>5
    <2>2. /\ s.stage = j + 1 /\ s.step = ws.step /\ s.pend = None /\ s.refs = head.refs
          /\ s.terminal = head.terminal /\ s.step = head.step
      BY <1>5, <2>1 DEF Settled
    <2>3. head \in WorkState /\ head \in heads
      BY <1>5 DEF IInv, StoreInv, HeadInv, StateInv, RecoveryInv, HeadsInv
    <2>4. s \in WorkState
      BY <1>1, <2>1, <2>3 DEF WorkState, Settled
    <2>5. Calm => \A k \in 1 .. s.step : s.refs[k].req.step = k - 1 /\ ~Placeholder(s.refs[k])
      BY <2>2, <2>3 DEF RecoveryInv, HeadsInv
    <2>6. ASSUME NEW i \in DOMAIN ledger, Open(i), s.step = StepOf(i)
          PROVE  s.refs = StateOf(i).refs /\ ~s.terminal
      <3>1. Behind(head, i)
        BY <2>3, <2>6 DEF RecoveryInv, HeadsInv
      <3>2. StepOf(i) \in Nat
        BY <2>6, OpenState DEF RecoveryInv
      <3>3. \A res : AdvancedAt(i, res).step = StepOf(i) + 1
        BY DEF AdvancedAt, Settled
      <3> QED
        BY <1>5, <2>2, <2>6, <3>1, <3>2, <3>3 DEF Behind
    <2> QED
      BY <1>4, <2>2, <2>4, <2>5, <2>6 DEF RepeatedState
  <1>6. CASE ~again
    <2>1. s = [stage |-> j + 1, step |-> ws.step, refs |-> ws.refs, terminal |-> FALSE,
               pend |-> None, origin |-> None, intents |-> None]
      BY <1>1, <1>3, <1>6 DEF Settled
    <2>2. /\ s.stage = j + 1 /\ s.step = ws.step /\ s.pend = None /\ s.refs = ws.refs
          /\ ~s.terminal
      <3> HIDE DEF ws
      <3> QED
        BY ONLY <2>1
    <2>3. j + 1 \in Nat
      BY <1>1
    <2>4. s \in WorkState
      <3> HIDE DEF ws
      <3> QED
        BY ONLY <1>2, <2>1, <2>3 DEF WorkState
    <2>5. Calm => \A k \in 1 .. ws.step : ws.refs[k].req.step = k - 1 /\ ~Placeholder(ws.refs[k])
      BY <1>1 DEF RecoveryInv, FaninsInv, Entry
    <2>6. \A i \in DOMAIN ledger : Open(i) /\ ws.step = StepOf(i) => ws.refs = StateOf(i).refs
      BY <1>1 DEF RecoveryInv, FaninsInv
    <2> HIDE DEF ws
    <2> QED
      BY <1>4, <2>2, <2>4, <2>5, <2>6 DEF RepeatedState, ws
  <1> QED
    BY <1>5, <1>6

\* A fan-in that is delivered again plans.
LEMMA RedeliverRecovers ==
    ASSUME IInv, RInv, NoneIsNoAttempt, NEW j \in DOMAIN ledger, Redeliver(j)
    PROVE  RInv'
  <1> DEFINE ws == ledger[j].input
  <1>1. DoneFanin(j) /\ job = None
    BY DEF Redeliver, DoneFanin
  <1>2. /\ UNCHANGED <<adapter, ledger, head, heads, bound, deferred, checkpoint, resolved, member, completed>>
        /\ UNCHANGED <<adapter, store, ledger, completed, crashes>>
        /\ MixedFaults \/ crashes = 0
    BY DEF Redeliver, store
  <1>3. /\ ws' = ws /\ (SameStepResume' <=> SameStepResume) /\ Calm' = Calm /\ Merged(ws)' = Merged(ws)
        /\ Outcome(ws)' = Outcome(ws)
    <2>1. ws' = ws /\ Merged(ws)' = Merged(ws)
      BY <1>2 DEF Merged
    <2>2. (SameStepResume' <=> SameStepResume) /\ Calm' = Calm
      BY <1>2, SameStages
    <2> QED
      BY <2>1, <2>2 DEF Outcome
  <1>4. Calm /\ SameStepResume => head # None /\ Top(head)
    <2>1. ledger[0].done
      BY <1>1 DEF DoneFanin, IInv, StoreInv, LedgerInv
    <2> QED
      BY <1>1, <1>2, <2>1 DEF RInv, QuietInv, Calm
  <1>5. CASE FaninMerge(j, ws)
    <2>1. ~SameStepResume
      BY <1>5 DEF FaninMerge
    <2>2. Outcome(ws) = Settled(ws.stage + 1, ws.step + 1, Append(ws.refs, Merged(ws)), FALSE)
      BY <2>1 DEF Outcome
    <2>3. Run(j, Resolve(ws) \o EvictIntents(ws.step) \o BindResult(ws.step, Merged(ws)) \o Persist(Outcome(ws)),
              NextStep(Outcome(ws)))
      BY <1>5, <2>2 DEF FaninMerge, Merged
    <2>4. Resolve(ws) \o EvictIntents(ws.step) \o BindResult(ws.step, Merged(ws)) \o Persist(Outcome(ws))
            = SubSeq(Merging5(ws), 1, 5)
      BY FaninWrites DEF Resolve, EvictIntents, BindResult, Persist, Merging5
    <2>5. Run(j, SubSeq(Merging5(ws), 1, 5), NextStep(Outcome(ws)))
      BY <2>3, <2>4
    <2>6. Merging5(ws)' = Merging5(ws)
      BY <1>3 DEF Merging5
    <2>7. RepeatingAt(j, 1)'
      BY <1>3, <2>1, <2>5, <2>6 DEF RepeatingAt, Run
    <2> QED
      BY <1>1, <1>2, <2>5, <2>7, RepeatPlanned
  <1>6. CASE FaninStale(j, ws)
    <2>1. SameStepResume /\ Run(j, Resolve(ws), << >>)
      BY <1>6 DEF FaninStale
    <2>2. job'.todo = SubSeq(<< [op |-> "resolve", req |-> ws.intents] >>, 1, 1)
      BY <2>1, FaninWrites DEF Run, Resolve
    <2>3. Calm' => head' # None /\ Top(head)'
      BY <1>2, <1>3, <1>4, <2>1 DEF Top
    <2>4. RepeatingAt(j, 1)'
      BY <1>3, <2>1, <2>2, <2>3 DEF RepeatingAt
    <2> QED
      BY <1>1, <1>2, <2>1, <2>4, RepeatPlanned
  <1>7. CASE FaninResume(j, ws)
    <2>1. SameStepResume /\ ~HeadIsLaterEpisode(ws)
      BY <1>7 DEF FaninResume
    <2>2. PICK s : /\ s = IF head # None /\ head.step = ws.step /\ head.pend = None
                          THEN Settled(ws.stage + 1, head.step, head.refs, head.terminal)
                          ELSE Settled(ws.stage + 1, ws.step, SubSeq(ws.refs, 1, ws.step), FALSE)
                   /\ Run(j, Resolve(ws) \o EvictIntents(ws.step) \o Persist(s), NextStep(s))
      BY <1>7 DEF FaninResume
    <2>3. s \in WorkState /\ RepeatedState(j, s)
      BY <1>1, <1>4, <2>1, <2>2, RepeatedPlan DEF RInv
    <2>4. Resolve(ws) \o EvictIntents(ws.step) \o Persist(s) = SubSeq(Resuming4(ws, s), 1, 4)
      BY FaninWrites DEF Resolve, EvictIntents, Persist, Resuming4
    <2>5. Run(j, SubSeq(Resuming4(ws, s), 1, 4), NextStep(s))
      BY <2>2, <2>4
    <2>6. Resuming4(ws, s)' = Resuming4(ws, s) /\ WorkState' = WorkState
      BY <1>3 DEF Resuming4, WorkState
    <2>7. s.stage \in Nat /\ s.step \in Nat
      BY <2>3, StepsFacts DEF WorkState
    <2>8. RepeatedState(j, s)'
      BY <1>2, <2>3, <2>7, RepeatedKept
    <2>9. RepeatingAt(j, 1)'
      BY <1>3, <2>1, <2>3, <2>5, <2>6, <2>8 DEF RepeatingAt, Run
    <2> QED
      BY <1>1, <1>2, <2>5, <2>9, RepeatPlanned
  <1> QED
    BY <1>5, <1>6, <1>7 DEF Redeliver, EvalFanin

-----------------------------------------------------------------------------
(* The completion of an attempt.                                           *)

\* What the completion of the open stage records.
Recorded(i, succ) ==
    /\ UNCHANGED <<adapter, head, heads, bound, deferred, checkpoint, resolved, member, completed>>
    /\ DOMAIN ledger' = DOMAIN ledger \cup DOMAIN succ
    /\ i \in DOMAIN ledger' /\ ledger'[i].done
    /\ ledger'[i].kind = ledger[i].kind /\ ledger'[i].input = ledger[i].input
    /\ \A x \in DOMAIN ledger : x # i => ledger'[x] = ledger[x]
    /\ \A x \in DOMAIN succ : ledger'[x] = succ[x] /\ ~succ[x].done
    /\ \A x : Open(x)' <=> x \in DOMAIN succ /\ succ[x].kind # "eval_row"
    /\ \A x : DoneFanin(x)' =>
        /\ ledger'[x].input = ledger[x].input
        /\ DoneFanin(x) \/ (x = i /\ ledger[i].kind = "eval_fanin")

\* The opening stage is done, and nothing else changes.
Closed == job' = None /\ raised' = raised /\ UNCHANGED environment /\ ledger'[0].done

\* The completion of the open stage records that and nothing else.
LEMMA CompletionRecords ==
    ASSUME IInv, RecoveryInv, Complete, NEW i, i = job.idx, Open(i), NEW succ, succ = job.successors,
           \A x \in DOMAIN succ : x \in Nat /\ x > i /\ ~succ[x].done
    PROVE  Recorded(i, succ) /\ Closed
  <1>1. i \in DOMAIN ledger /\ ~ledger[i].done /\ i \in Nat
    BY OpenState DEF RecoveryInv
  <1>2. \A x \in DOMAIN ledger : x \in Nat /\ x <= i
    BY OpenState DEF RecoveryInv, OpenInv, IInv, StoreInv, TypeOK
  <1>3. \A x \in DOMAIN succ : x \notin DOMAIN ledger
    BY <1>1, <1>2
  <1>4. ledger' = [x \in DOMAIN ledger \cup DOMAIN succ |->
                    IF x = i THEN [ledger[x] EXCEPT !.done = TRUE]
                    ELSE IF x \in DOMAIN ledger THEN ledger[x] ELSE succ[x]]
    BY <1>1 DEF Complete
  <1>5. /\ DOMAIN ledger' = DOMAIN ledger \cup DOMAIN succ
        /\ \A x \in DOMAIN ledger : x # i => ledger'[x] = ledger[x]
        /\ \A x \in DOMAIN succ : ledger'[x] = succ[x]
    BY <1>1, <1>3, <1>4
  <1>6. ledger'[i] = [ledger[i] EXCEPT !.done = TRUE]
    BY <1>1, <1>4
  <1>7. ledger[i] \in Stage
    BY <1>1 DEF IInv, StoreInv, TypeOK
  <1>8. ledger'[i].done /\ ledger'[i].kind = ledger[i].kind /\ ledger'[i].input = ledger[i].input
    BY <1>6, <1>7 DEF Stage
  <1>9. UNCHANGED <<adapter, head, heads, bound, deferred, checkpoint, resolved, member, completed>>
    BY DEF Complete, store
  <1>10. \A x : Open(x)' <=> x \in DOMAIN succ /\ succ[x].kind # "eval_row"
    <2>1. ASSUME NEW x \in DOMAIN ledger PROVE ~Open(x)'
      <3>1. CASE x = i
        BY <1>8, <3>1 DEF Open
      <3>2. CASE x # i
        <4>1. ~Open(x)
          BY <3>2, OneOpen
        <4> QED
          BY <1>5, <2>1, <3>2, <4>1 DEF Open
      <3> QED
        BY <3>1, <3>2
    <2>2. ASSUME NEW x \in DOMAIN succ PROVE Open(x)' <=> succ[x].kind # "eval_row"
      BY <1>5, <2>2 DEF Open
    <2>3. ASSUME NEW x, x \notin DOMAIN ledger, x \notin DOMAIN succ PROVE ~Open(x)'
      BY <1>5, <2>3 DEF Open
    <2> QED
      BY <1>3, <2>1, <2>2, <2>3
  <1>11. ASSUME NEW x, DoneFanin(x)'
         PROVE  /\ ledger'[x].input = ledger[x].input
                /\ DoneFanin(x) \/ (x = i /\ ledger[i].kind = "eval_fanin")
    <2>1. x \in DOMAIN ledger' /\ ledger'[x].done /\ ledger'[x].kind = "eval_fanin"
      BY <1>11 DEF DoneFanin
    <2>2. x \in DOMAIN ledger
      BY <1>5, <2>1
    <2>3. CASE x = i
      BY <1>8, <2>1, <2>3
    <2>4. CASE x # i
      BY <1>5, <2>1, <2>2, <2>4 DEF DoneFanin
    <2> QED
      BY <2>3, <2>4
  <1>12. ledger'[0].done
    <2>1. 0 \in DOMAIN ledger /\ (~ledger[0].done => DOMAIN ledger = {0})
      BY DEF IInv, StoreInv, LedgerInv
    <2>2. CASE i = 0
      BY <1>8, <2>2
    <2>3. CASE i # 0
      BY <1>1, <1>5, <2>1, <2>3
    <2> QED
      BY <2>2, <2>3
  <1>13. job' = None /\ raised' = raised /\ UNCHANGED environment
    BY DEF Complete
  <1> QED
    BY <1>1, <1>5, <1>8, <1>9, <1>10, <1>11, <1>12, <1>13 DEF Recorded, Closed


\* What the stage that opens next needs: its kind and the state t it starts from.
Opens(f, kind, t) ==
    /\ t.stage = f /\ ~t.terminal
    /\ \A k \in 1 .. t.step : bound[k - 1] = t.refs[k] /\ Entry(bound[k - 1], k - 1)
    /\ \A k \in Steps : k >= t.step => bound[k] = None
    /\ t.step \in Steps
    /\ kind = "eval_fanin" => t.origin + Rows + 1 = f
    /\ member = None /\ completed = "no" /\ NothingDeferred
    /\ SameStepResume => \A h \in heads :
        \/ h.step < t.step
        \/ /\ h.step = t.step
           /\ h.pend # None => h.origin <= (IF kind = "eval_fanin" THEN t.origin ELSE f)
           /\ h.pend = None =>
                h.stage <= (IF kind = "eval_fanin" THEN f + 1 ELSE f) /\ h.refs = t.refs /\ ~h.terminal
    /\ Calm => \A r \in DOMAIN checkpoint : checkpoint[r] = "defer" =>
        r \in resolved \/ (kind = "eval_fanin" /\ r = t.intents)
    /\ Calm /\ SameStepResume => \A h \in heads : h.stage <= (IF kind = "eval_fanin" THEN f + 1 ELSE f)

\* Its fan-ins that are done.
Follows(j, t) ==
    LET ws == ledger[j].input IN
    /\ ws.stage = j /\ ws.origin + Rows + 1 = j
    /\ Calm => \A k \in 1 .. ws.step : Entry(ws.refs[k], k - 1)
    /\ ~SameStepResume => bound[ws.step] = Merged(ws)
    /\ SameStepResume => \E h \in heads : h.stage = j + 1 /\ h.step = ws.step
    /\ ws.step <= t.step
    /\ ~SameStepResume => ws.step < t.step
    /\ ws.step = t.step => ws.refs = t.refs

\* The stage that opens next finds what it needs.
LEMMA NextOpened ==
    ASSUME IInv, RecoveryInv, NEW i, NEW succ, Recorded(i, succ), NEW f \in Nat \ {0}, f \in DOMAIN succ, NEW t,
           succ[f].input = t, succ[f].kind \in {"optim_step", "eval_fanin"},
           \A x \in DOMAIN succ : succ[x].kind # "eval_row" => x = f,
           \A x \in DOMAIN ledger' : x <= f,
           Opens(f, succ[f].kind, t),
           \A j : DoneFanin(j) => Follows(j, t),
           ledger[i].kind = "eval_fanin" => Follows(i, t)
    PROVE  RecoveryInv'
  <1> DEFINE kind == succ[f].kind
  <1>1. /\ f \in DOMAIN ledger' /\ ledger'[f] = succ[f]
        /\ \A x : Open(x)' <=> x = f
    BY DEF Recorded
  <1>2. StateOf(f)' = t /\ StepOf(f)' = t.step /\ ledger'[f].kind = kind /\ Open(f)'
    BY <1>1 DEF StateOf, StepOf
  <1>3. Calm' = Calm /\ SameStepResume' = SameStepResume
    BY DEF Recorded, Calm, SameStepResume
  <1>4. UNCHANGED <<adapter, head, heads, bound, deferred, checkpoint, resolved, member, completed>>
    BY DEF Recorded
  <1>5. t.step \in Steps /\ t.step \in Nat /\ bound[t.step] = None
    <2>1. t.step \in Steps
      BY DEF Opens
    <2>2. t.step \in Nat
      BY <2>1, StepsFacts
    <2>3. t.step >= t.step
      BY <2>2
    <2> QED
      BY <2>1, <2>2, <2>3 DEF Opens
  <1>6. FrontierInv'
    <2>1. OpenInv(f)'
      <3>1. \A k \in Steps : k > t.step => bound[k] = None
        BY <1>5, StepsFacts DEF Opens
      <3> QED
        BY <1>2, <1>3, <1>4, <3>1 DEF Opens, OpenInv, Entry, Placeholder
    <2>2. AskingInv(f)'
      BY <1>2, <1>4, <1>5 DEF AskingInv, Opens
    <2>3. kind = "eval_fanin" => FanningInv(f)'
      BY <1>2, <1>4, <1>5 DEF FanningInv, Opens
    <2>4. \A k \in Steps : deferred'[k] = None
      BY <1>4 DEF Opens, NothingDeferred
    <2> QED
      BY <1>1, <1>2, <2>1, <2>2, <2>3, <2>4 DEF FrontierInv
  <1>7. ChainInv'
    BY <1>1 DEF ChainInv
  <1>8. FaninsInv'
    <2>1. ASSUME NEW j, DoneFanin(j)' PROVE Follows(j, t) /\ ledger'[j].input = ledger[j].input
      BY <2>1 DEF Recorded
    <2>2. \A ws : Merged(ws)' = Merged(ws)
      BY DEF Merged
    <2>3. SUFFICES ASSUME NEW j, DoneFanin(j)'
                   PROVE  /\ ledger[j].input.stage = j /\ ledger[j].input.origin + Rows + 1 = j
                          /\ Calm => \A k \in 1 .. ledger[j].input.step : Entry(ledger[j].input.refs[k], k - 1)
                          /\ ~SameStepResume => bound[ledger[j].input.step] = Merged(ledger[j].input)
                          /\ SameStepResume => \E h \in heads : h.stage = j + 1 /\ h.step = ledger[j].input.step
                          /\ ledger[j].input.step <= t.step
                          /\ ~SameStepResume => ledger[j].input.step < t.step
                          /\ ledger[j].input.step = t.step => ledger[j].input.refs = t.refs
      <3>1. \A res, k : Entry(res, k)' <=> Entry(res, k)
        BY <1>3 DEF Entry, Placeholder
      <3>2. \A j : DoneFanin(j)' => Merged(ledger[j].input)' = Merged(ledger[j].input)
        BY <2>1 DEF Merged
      <3> QED
        BY <1>1, <1>2, <1>3, <1>4, <2>1, <3>1, <3>2 DEF FaninsInv
    <2> QED
      BY <2>1, <2>3 DEF Follows
  <1>9. HeadsInv'
    <2>1. ASSUME NEW h \in heads, SameStepResume PROVE Behind(h, f)'
      BY <1>2, <1>4, <2>1 DEF Behind, Opens
    <2>2. /\ head # None => head \in heads
          /\ \A h \in heads :
                /\ h.pend # None => h.stage = h.origin + Rows + 1
                /\ Calm => \A k \in 1 .. h.step : h.refs[k].req.step = k - 1 /\ ~Placeholder(h.refs[k])
      BY DEF RecoveryInv, HeadsInv
    <2>3. \A res : Placeholder(res)' <=> Placeholder(res)
      BY DEF Placeholder
    <2> QED
      BY <1>1, <1>3, <1>4, <2>1, <2>2, <2>3 DEF HeadsInv
  <1>10. EvaluationsInv'
    <2>1. ASSUME Calm, NEW r \in DOMAIN checkpoint, checkpoint[r] = "defer"
          PROVE  r \in resolved \/ (kind = "eval_fanin" /\ r = t.intents)
      BY <2>1 DEF Opens
    <2> QED
      BY <1>1, <1>2, <1>3, <1>4, <2>1 DEF EvaluationsInv
  <1>11. WatermarkInv'
    <2>1. ASSUME NEW h \in heads, SameStepResume, Calm PROVE Reached(h, f)'
      BY <1>2, <2>1 DEF Reached, Opens
    <2> QED
      BY <1>1, <1>3, <1>4, <2>1 DEF WatermarkInv
  <1> QED
    BY <1>6, <1>7, <1>8, <1>9, <1>10, <1>11 DEF RecoveryInv

\* The attempt is over; without crashes the head is the latest.
LEMMA ClosedKeeps ==
    ASSUME IInv, RInv, NEW i, NEW succ, Recorded(i, succ), Closed, RecoveryInv',
           Calm /\ SameStepResume => NothingDeferred /\ head # None /\ Top(head)
    PROVE  RInv'
  <1>1. UNCHANGED <<adapter, head, heads, bound, deferred, checkpoint, resolved, member, completed>>
    BY DEF Recorded
  <1>2. Calm' = Calm /\ SameStepResume' = SameStepResume /\ (Top(head)' <=> Top(head))
        /\ (NothingDeferred' <=> NothingDeferred)
    BY <1>1 DEF Calm, SameStepResume, Top, NothingDeferred
  <1>3. QuietInv' /\ FaultsInv' /\ AttemptInv'
    BY <1>1, <1>2 DEF QuietInv, FaultsInv, AttemptInv, Closed, RInv, environment
  <1> QED
    BY <1>3 DEF RInv

\* The stages a parked member and a settled one open.
LEMMA FanOutStages ==
    ASSUME NEW p, p.origin \in Nat, p.stage = p.origin + Rows + 1
    PROVE  /\ DOMAIN FanOut(p) = p.origin + 1 .. p.stage
           /\ p.stage \in DOMAIN FanOut(p) /\ FanOut(p)[p.stage].kind = "eval_fanin" /\ FanOut(p)[p.stage].input = p
           /\ \A x \in DOMAIN FanOut(p) : /\ x \in Nat /\ x > p.origin /\ x <= p.stage
                                          /\ ~FanOut(p)[x].done
                                          /\ FanOut(p)[x].kind # "eval_row" => x = p.stage
  <1>1. Rows \in Nat
    BY ConstantsAssumption
  <1>2. p.stage \in Nat /\ p.stage \in p.origin + 1 .. p.stage
    BY <1>1
  <1>3. \A x \in p.origin + 1 .. p.stage : x \in Nat /\ x > p.origin /\ x <= p.stage
    BY <1>2
  <1>4. \A x \in p.origin + 1 .. p.stage :
            /\ x < p.stage => FanOut(p)[x].kind = "eval_row"
            /\ ~(x < p.stage) => FanOut(p)[x].kind = "eval_fanin" /\ FanOut(p)[x].input = p
            /\ ~FanOut(p)[x].done
    BY DEF FanOut
  <1>5. DOMAIN FanOut(p) = p.origin + 1 .. p.stage
    BY DEF FanOut
  <1>6. ~(p.stage < p.stage)
    BY <1>2
  <1>7. FanOut(p)[p.stage].kind = "eval_fanin" /\ FanOut(p)[p.stage].input = p
    BY <1>2, <1>4, <1>6
  <1>8. \A x \in p.origin + 1 .. p.stage :
            ~FanOut(p)[x].done /\ (FanOut(p)[x].kind # "eval_row" => x = p.stage)
    <2> SUFFICES ASSUME NEW x \in p.origin + 1 .. p.stage
                 PROVE  ~FanOut(p)[x].done /\ (FanOut(p)[x].kind # "eval_row" => x = p.stage)
      OBVIOUS
    <2>1. x < p.stage \/ x = p.stage
      BY <1>2, <1>3
    <2> QED
      BY <1>4, <2>1
  <1> QED
    BY <1>2, <1>3, <1>5, <1>7, <1>8

\* A settled member opens the next optim_step.
LEMMA NextStepStages ==
    ASSUME NEW s
    PROVE  /\ DOMAIN NextStep(s) = {s.stage}
           /\ NextStep(s)[s.stage].kind = "optim_step" /\ NextStep(s)[s.stage].input = s
           /\ ~NextStep(s)[s.stage].done
  BY DEF NextStep

\* An attempt that parked completes.
LEMMA ParkedCompletes ==
    ASSUME IInv, RInv, Complete, NEW i, i = job.idx, Open(i), ledger[i].kind = "optim_step", ParkingAt(i, 9)
    PROVE  RInv'
  <1> DEFINE p == ParkedAt(i)
             f == i + Rows + 1
             succ == FanOut(p)
  <1>1. RecoveryInv /\ FrontierInv /\ HeadsInv /\ FaninsInv /\ EvaluationsInv /\ WatermarkInv
    BY DEF RInv, RecoveryInv
  <1>2. /\ i \in Nat /\ i \in DOMAIN ledger /\ StepOf(i) \in Steps /\ StepOf(i) \in Nat /\ OpenInv(i)
        /\ ~StateOf(i).terminal
    BY <1>1, OpenState
  <1>3. /\ p.step = StepOf(i) /\ p.stage = f /\ p.pend = Given(i, "defer") /\ p.origin = i
        /\ p.intents = Asked(i) /\ p.refs = StateOf(i).refs /\ ~p.terminal
    BY <1>1, AskedFacts
  <1>4. /\ job.successors = succ /\ member = None /\ head = p
        /\ Asked(i) \in DOMAIN checkpoint /\ checkpoint[Asked(i)] = "defer"
        /\ deferred[StepOf(i)] = None /\ bound[StepOf(i)] = None
    BY DEF ParkingAt
  <1>5. f \in Nat \ {0} /\ Rows \in Nat
    BY <1>2, ConstantsAssumption
  <1> HIDE DEF p
  <1>6. /\ DOMAIN succ = i + 1 .. f /\ f \in DOMAIN succ /\ succ[f].kind = "eval_fanin" /\ succ[f].input = p
        /\ \A x \in DOMAIN succ : /\ x \in Nat /\ x > i /\ x <= f /\ ~succ[x].done
                                  /\ succ[x].kind # "eval_row" => x = f
    <2> HIDE DEF f
    <2>1. p.origin \in Nat /\ p.stage = p.origin + Rows + 1
      BY <1>2, <1>3 DEF f
    <2> QED
      BY <1>3, <2>1, FanOutStages
  <1> HIDE DEF succ, f
  <1>7. Recorded(i, succ) /\ Closed
    BY <1>1, <1>4, <1>6, CompletionRecords
  <1>8. NothingDeferred
    <2>1. \A k \in Steps : deferred[k] # None => k = StepOf(i)
      BY <1>1, OneOpen DEF FrontierInv
    <2> QED
      BY <1>4, <2>1 DEF NothingDeferred
  <1>9. SameStepResume => \A h \in heads :
            \/ h.step < StepOf(i)
            \/ /\ h.step = StepOf(i)
               /\ h.pend # None => h.origin <= i
               /\ h.pend = None => h.stage <= i /\ h.refs = StateOf(i).refs /\ ~h.terminal
    <2>1. SameStepResume => \A h \in heads : Behind(h, i)
      BY <1>1, <1>2 DEF HeadsInv
    <2> QED
      BY <1>4, <2>1 DEF Behind
  <1>10. \A h \in heads : h.stage \in Nat /\ h.step \in Nat
    BY StepsFacts DEF IInv, StoreInv, TypeOK, WorkState
  <1>11. Calm /\ SameStepResume => \A h \in heads : h.stage <= f
    <2>1. Calm /\ SameStepResume => \A h \in heads : Reached(h, i)
      BY <1>1, <1>2 DEF WatermarkInv
    <2>2. Calm /\ SameStepResume => \A h \in heads : h.stage <= i \/ h = p
      BY <1>4, <2>1 DEF Reached, p
    <2> QED
      BY <1>2, <1>3, <1>5, <1>10, <2>2 DEF f
  <1>12. Opens(f, "eval_fanin", p)
    <2>1. \A k \in Steps : k >= StepOf(i) => bound[k] = None
      <3>1. \A k \in Steps : k >= StepOf(i) => k = StepOf(i) \/ k > StepOf(i)
        BY <1>2, StepsFacts
      <3> QED
        BY <1>2, <1>4, <3>1 DEF OpenInv
    <2>2. SameStepResume => \A h \in heads :
            \/ h.step < p.step
            \/ /\ h.step = p.step
               /\ h.pend # None => h.origin <= p.origin
               /\ h.pend = None => h.stage <= f + 1 /\ h.refs = p.refs /\ ~h.terminal
      BY <1>2, <1>3, <1>5, <1>9, <1>10 DEF f
    <2>3. Calm /\ SameStepResume => \A h \in heads : h.stage <= f + 1
      BY <1>5, <1>10, <1>11
    <2>4. Calm => \A r \in DOMAIN checkpoint : checkpoint[r] = "defer" => r \in resolved \/ r = p.intents
      BY <1>1, <1>2, <1>3, OneOpen DEF EvaluationsInv
    <2>5. p.origin + Rows + 1 = f
      BY <1>3 DEF f
    <2>6. \A k \in 1 .. p.step : bound[k - 1] = p.refs[k] /\ Entry(bound[k - 1], k - 1)
      BY <1>2, <1>3 DEF OpenInv
    <2>7. completed = "no"
      BY <1>2 DEF OpenInv
    <2> QED
      BY <1>2, <1>3, <1>4, <1>8, <2>1, <2>2, <2>3, <2>4, <2>5, <2>6, <2>7 DEF Opens
  <1>13. \A j : DoneFanin(j) => Follows(j, p)
    BY <1>1, <1>2, <1>3 DEF FaninsInv, Follows, DoneFanin
  <1>14. \A x \in DOMAIN ledger' : x <= f
    <2>1. \A x \in DOMAIN ledger : x \in Nat /\ x <= i
      BY <1>2 DEF OpenInv, IInv, StoreInv, TypeOK
    <2>2. DOMAIN ledger' = DOMAIN ledger \cup DOMAIN succ
      BY <1>7 DEF Recorded
    <2> QED
      BY <1>2, <1>5, <1>6, <2>1, <2>2 DEF f
  <1>15. RecoveryInv'
    <2>1. /\ succ[f].kind \in {"optim_step", "eval_fanin"} /\ Opens(f, succ[f].kind, p)
          /\ ledger[i].kind = "eval_fanin" => Follows(i, p)
      BY <1>6, <1>12
    <2>2. /\ f \in DOMAIN succ /\ succ[f].input = p
          /\ \A x \in DOMAIN succ : succ[x].kind # "eval_row" => x = f
      BY <1>6
    <2> QED
      BY <1>1, <1>5, <1>7, <1>13, <1>14, <2>1, <2>2, NextOpened
  <1>16. Calm /\ SameStepResume => head # None /\ Top(head)
    <2>1. SameStepResume => \A h \in heads : h.step <= p.step
      BY <1>2, <1>3, <1>9, <1>10
    <2>2. p # None
      <3>1. p \in heads \/ head = None
        BY <1>1, <1>4 DEF HeadsInv
      <3>2. p \in WorkState
        <4>1. Given(i, "defer") \in Result /\ "defer" \in Output /\ Asked(i) \in Request
          BY <1>1, AskedFacts DEF Output
        <4>2. StateOf(i).refs \in Seq(Result) /\ Len(StateOf(i).refs) = StepOf(i)
          BY <1>1, OpenState
        <4>3. p.refs \in Seq(Result) /\ Len(p.refs) = p.step
          BY <1>3, <4>2
        <4>4. Given(i, "defer") # None /\ Asked(i) # None /\ i # None /\ f \in Nat
          BY <1>2, <1>5, <4>1, ConstantsAssumption
        <4>5. p = [stage |-> f, step |-> StepOf(i), refs |-> StateOf(i).refs, terminal |-> FALSE,
                   pend |-> Given(i, "defer"), origin |-> i, intents |-> Asked(i)]
          BY <1>3 DEF p, ParkedAt, Parked
        <4> QED
          BY <1>2, <4>1, <4>2, <4>4, <4>5 DEF WorkState
      <3> QED
        BY <3>2, ConstantsAssumption
    <2> QED
      BY <1>3, <1>4, <1>11, <2>1, <2>2 DEF Top
  <1> QED
    BY <1>7, <1>8, <1>15, <1>16, ClosedKeeps

\* An attempt that advanced the member completes.
LEMMA AdvancedCompletes ==
    ASSUME IInv, RInv, Complete, NEW i, i = job.idx, Open(i), ledger[i].kind = "optim_step",
           NEW out \in Output, out # "stop", AdvancingAt(i, 6, out)
    PROVE  RInv'
  <1> DEFINE res == Given(i, out)
             s == AdvancedAt(i, res)
             f == i + 1
             succ == NextStep(s)
  <1>1. RecoveryInv /\ FrontierInv /\ HeadsInv /\ FaninsInv /\ EvaluationsInv /\ WatermarkInv
    BY DEF RInv, RecoveryInv
  <1>2. /\ i \in Nat /\ i \in DOMAIN ledger /\ StepOf(i) \in Steps /\ StepOf(i) \in Nat /\ OpenInv(i)
        /\ StepOf(i) < MaxSteps /\ StepOf(i) + 1 \in Steps
        /\ StateOf(i).refs \in Seq(Result) /\ Len(StateOf(i).refs) = StepOf(i)
    BY <1>1, OpenState, StepsFacts
  <1>3. /\ s.step = StepOf(i) + 1 /\ s.stage = f /\ s.pend = None /\ s.refs = Append(StateOf(i).refs, res)
        /\ ~s.terminal
        /\ res \in Result /\ res.out = out /\ res.req = Asked(i) /\ Asked(i).step = StepOf(i)
        /\ Placeholder(res) <=> out = "defer"
        /\ res # None
    <2>1. i \in Nat /\ Open(i) /\ FrontierInv
      BY <1>1, <1>2
    <2>2. s.step = StepOf(i) + 1 /\ s.stage = f /\ s.pend = None /\ s.refs = Append(StateOf(i).refs, res)
      BY <2>1, AskedFacts
    <2>3. /\ res \in Result /\ res.out = out /\ res.req = Asked(i) /\ Asked(i).step = StepOf(i)
          /\ Placeholder(res) <=> out = "defer"
          /\ res # None
      BY <2>1, AskedFacts
    <2>4. ~s.terminal
      BY <2>3 DEF AdvancedAt, Settled
    <2> QED
      BY <2>2, <2>3, <2>4
  <1>4. /\ job.successors = succ /\ head = s
        /\ Calm => out # "defer"
        /\ Asked(i) \in DOMAIN checkpoint /\ checkpoint[Asked(i)] = out
        /\ deferred[StepOf(i)] = None /\ bound[StepOf(i)] = res
    BY DEF AdvancingAt
  <1>5. f \in Nat \ {0}
    BY <1>2
  <1> HIDE DEF s, res
  <1>6. /\ DOMAIN succ = {f} /\ f \in DOMAIN succ /\ succ[f].kind = "optim_step" /\ succ[f].input = s
        /\ \A x \in DOMAIN succ : /\ x \in Nat /\ x > i /\ x <= f /\ ~succ[x].done
                                  /\ succ[x].kind # "eval_row" => x = f
    <2> HIDE DEF f
    <2>1. /\ DOMAIN succ = {f} /\ succ[f].kind = "optim_step" /\ succ[f].input = s /\ ~succ[f].done
      BY <1>3, NextStepStages
    <2>2. f \in Nat /\ f > i /\ f <= f
      BY <1>2 DEF f
    <2> QED
      BY <2>1, <2>2
  <1> HIDE DEF succ, f
  <1>7. Recorded(i, succ) /\ Closed
    BY <1>1, <1>4, <1>6, CompletionRecords
  <1>8. NothingDeferred
    <2>1. \A k \in Steps : deferred[k] # None => k = StepOf(i)
      BY <1>1, OneOpen DEF FrontierInv
    <2> QED
      BY <1>4, <2>1 DEF NothingDeferred
  <1>9. SameStepResume => \A h \in heads : h.step <= StepOf(i) \/ h = s
    <2>1. SameStepResume => \A h \in heads : Behind(h, i)
      BY <1>1, <1>2 DEF HeadsInv
    <2>2. \A h \in heads : h.step \in Nat
      BY StepsFacts DEF IInv, StoreInv, TypeOK, WorkState
    <2> QED
      BY <1>2, <1>4, <2>1, <2>2 DEF Behind, s
  <1>10. \A h \in heads : h.stage \in Nat /\ h.step \in Nat
    BY StepsFacts DEF IInv, StoreInv, TypeOK, WorkState
  <1>11. Calm /\ SameStepResume => \A h \in heads : h.stage <= f
    <2>1. Calm /\ SameStepResume => \A h \in heads : Reached(h, i)
      BY <1>1, <1>2 DEF WatermarkInv
    <2>2. Calm /\ SameStepResume => \A h \in heads : h.stage <= i \/ h = s
      BY <1>4, <2>1 DEF Reached, s, res
    <2> QED
      BY <1>2, <1>3, <1>10, <2>2 DEF f
  <1>12. Opens(f, "optim_step", s)
    <2>1. \A k \in Steps : k >= s.step => bound[k] = None
      <3>1. \A k \in Steps : k >= s.step => k > StepOf(i)
        BY <1>2, <1>3, StepsFacts
      <3> QED
        BY <1>2, <3>1 DEF OpenInv
    <2>2. SameStepResume => \A h \in heads :
            \/ h.step < s.step
            \/ /\ h.step = s.step
               /\ h.pend # None => h.origin <= f
               /\ h.pend = None => h.stage <= f /\ h.refs = s.refs /\ ~h.terminal
      <3>1. f <= f /\ s.step = StepOf(i) + 1
        BY <1>3, <1>5
      <3>2. \A h \in heads : h.step <= StepOf(i) => h.step < s.step
        BY <1>2, <1>3, <1>10
      <3> QED
        BY <1>3, <1>9, <3>1, <3>2
    <2>4. Calm => \A r \in DOMAIN checkpoint : checkpoint[r] = "defer" => r \in resolved
      <3>1. Calm => \A r \in DOMAIN checkpoint : checkpoint[r] = "defer" => r \in resolved \/ r = Asked(i)
        BY <1>1, <1>2, OneOpen DEF EvaluationsInv
      <3> QED
        BY <1>4, <3>1
    <2>6. ASSUME NEW k \in 1 .. s.step PROVE bound[k - 1] = s.refs[k] /\ Entry(bound[k - 1], k - 1)
      <3>1. CASE k = StepOf(i) + 1
        <4>1. s.refs[k] = res /\ k - 1 = StepOf(i)
          BY <1>2, <1>3, <3>1
        <4> QED
          BY <1>3, <1>4, <4>1 DEF Entry
      <3>2. CASE k # StepOf(i) + 1
        <4>1. k \in 1 .. StepOf(i)
          BY <1>2, <1>3, <3>2
        <4>2. s.refs[k] = StateOf(i).refs[k]
          BY <1>2, <1>3, <4>1
        <4> QED
          BY <1>2, <4>1, <4>2 DEF OpenInv
      <3> QED
        BY <3>1, <3>2
    <2>7. completed = "no"
      BY <1>2 DEF OpenInv
    <2>8. member = None
      <3>1. AskingInv(i)
        BY <1>1, <1>2 DEF FrontierInv
      <3> QED
        BY <1>3, <1>4, <3>1 DEF AskingInv
    <2> QED
      BY <1>2, <1>3, <1>8, <1>11, <2>1, <2>2, <2>4, <2>6, <2>7, <2>8 DEF Opens
  <1>13. \A j : DoneFanin(j) => Follows(j, s)
    <2> SUFFICES ASSUME NEW j, DoneFanin(j) PROVE Follows(j, s)
      OBVIOUS
    <2>1. j \in DOMAIN ledger /\ ledger[j].input.step \in Nat
      BY <1>1, DoneBefore, OutcomeFacts
    <2>2. ledger[j].input.step <= StepOf(i)
      BY <1>1, <1>2, <2>1 DEF FaninsInv
    <2>3. ledger[j].input.step < s.step
      BY <1>2, <1>3, <2>1, <2>2
    <2>4. ledger[j].input.step <= s.step /\ ledger[j].input.step # s.step
      BY <1>2, <1>3, <2>1, <2>3
    <2> QED
      BY <1>1, <2>1, <2>3, <2>4 DEF FaninsInv, Follows
  <1>14. \A x \in DOMAIN ledger' : x <= f
    <2>1. \A x \in DOMAIN ledger : x \in Nat /\ x <= i
      BY <1>2 DEF OpenInv, IInv, StoreInv, TypeOK
    <2>2. DOMAIN ledger' = DOMAIN ledger \cup DOMAIN succ
      BY <1>7 DEF Recorded
    <2> QED
      BY <1>2, <1>5, <1>6, <2>1, <2>2 DEF f
  <1>15. RecoveryInv'
    <2>1. /\ succ[f].kind \in {"optim_step", "eval_fanin"} /\ Opens(f, succ[f].kind, s)
          /\ ledger[i].kind = "eval_fanin" => Follows(i, s)
      BY <1>6, <1>12
    <2>2. /\ f \in DOMAIN succ /\ succ[f].input = s
          /\ \A x \in DOMAIN succ : succ[x].kind # "eval_row" => x = f
      BY <1>6
    <2> QED
      BY <1>1, <1>5, <1>7, <1>13, <1>14, <2>1, <2>2, NextOpened
  <1>16. Calm /\ SameStepResume => head # None /\ Top(head)
    <2>1. SameStepResume => \A h \in heads : h.step <= s.step
      BY <1>2, <1>3, <1>9, <1>10
    <2>2. s # None
      <3>1. s \in WorkState
        <4>1. s.refs \in Seq(Result) /\ Len(s.refs) = s.step
          BY <1>2, <1>3
        <4>2. s = [stage |-> f, step |-> StepOf(i) + 1, refs |-> s.refs, terminal |-> s.terminal,
                   pend |-> None, origin |-> None, intents |-> None]
          BY DEF s, AdvancedAt, Settled, f
        <4>3. s.terminal \in BOOLEAN
          BY DEF s, AdvancedAt, Settled
        <4> QED
          BY <1>2, <1>3, <1>5, <4>1, <4>2, <4>3 DEF WorkState
      <3> QED
        BY <3>1, ConstantsAssumption
    <2> QED
      BY <1>3, <1>4, <1>11, <2>1, <2>2 DEF Top
  <1> QED
    BY <1>7, <1>8, <1>15, <1>16, ClosedKeeps

\* An attempt that ended the run completes.
LEMMA EndedCompletes ==
    ASSUME IInv, RInv, Complete, NEW i, i = job.idx, Open(i), ledger[i].kind = "optim_step",
           AdvancingAt(i, 7, "stop")
    PROVE  RInv'
  <1> DEFINE res == Given(i, "stop")
             s == AdvancedAt(i, res)
             succ == << >>
  <1>1. RecoveryInv /\ FrontierInv /\ HeadsInv /\ FaninsInv /\ EvaluationsInv /\ WatermarkInv
    BY DEF RInv, RecoveryInv
  <1>2. /\ i \in Nat /\ i \in DOMAIN ledger /\ StepOf(i) \in Steps /\ StepOf(i) \in Nat /\ OpenInv(i)
        /\ StepOf(i) + 1 \in Steps
        /\ StateOf(i).refs \in Seq(Result) /\ Len(StateOf(i).refs) = StepOf(i)
    BY <1>1, OpenState, StepsFacts
  <1>3. /\ s.step = StepOf(i) + 1 /\ s.stage = i + 1 /\ s.refs = Append(StateOf(i).refs, res)
        /\ s.terminal
        /\ res \in Result /\ res.out = "stop" /\ res.req = Asked(i) /\ Asked(i).step = StepOf(i)
        /\ ~Placeholder(res)
    BY <1>1, AskedFacts DEF Output
  <1>4. /\ job.successors = succ /\ head = s /\ member = s
        /\ Asked(i) \in DOMAIN checkpoint /\ checkpoint[Asked(i)] = "stop"
        /\ deferred[StepOf(i)] = None /\ bound[StepOf(i)] = res
    BY DEF AdvancingAt
  <1> HIDE DEF s, res
  <1>5. DOMAIN succ = {}
    OBVIOUS
  <1> HIDE DEF succ
  <1>6. Recorded(i, succ) /\ Closed
    BY <1>1, <1>4, <1>5, CompletionRecords
  <1>7. \A x : ~Open(x)'
    BY <1>5, <1>6 DEF Recorded
  <1>8. NothingDeferred
    <2>1. \A k \in Steps : deferred[k] # None => k = StepOf(i)
      BY <1>1, OneOpen DEF FrontierInv
    <2> QED
      BY <1>4, <2>1 DEF NothingDeferred
  <1>9. /\ UNCHANGED <<adapter, head, heads, bound, deferred, checkpoint, resolved, member, completed>>
        /\ Calm' = Calm /\ SameStepResume' = SameStepResume
    BY <1>6 DEF Recorded, Calm, SameStepResume
  <1>10. \A h \in heads : h.stage \in Nat /\ h.step \in Nat
    BY StepsFacts DEF IInv, StoreInv, TypeOK, WorkState
  <1>11. s # None
    <2>1. PICK stage, step, refs, terminal :
            /\ stage = i + 1 /\ step = StepOf(i) + 1 /\ refs = Append(StateOf(i).refs, res)
            /\ terminal = (res.out = "stop")
      OBVIOUS
    <2>2. stage \in Nat /\ step \in Steps /\ refs \in Seq(Result) /\ Len(refs) = step /\ terminal \in BOOLEAN
      BY <1>2, <1>3, <2>1
    <2>3. s = Settled(stage, step, refs, terminal)
      BY <2>1 DEF s, AdvancedAt, Settled
    <2>4. s = [stage |-> stage, step |-> step, refs |-> refs, terminal |-> terminal,
               pend |-> None, origin |-> None, intents |-> None]
      BY <2>3 DEF Settled
    <2>5. s \in WorkState
      BY ONLY <2>2, <2>4 DEF WorkState
    <2> QED
      BY <2>5, ConstantsAssumption
  <1>12. FrontierInv'
    BY <1>7, <1>8, <1>9 DEF FrontierInv, NothingDeferred
  <1>13. ChainInv'
    <2>1. Len(s.refs) = StepOf(i) + 1 /\ s.refs # << >>
      BY <1>2, <1>3
    <2>2. ASSUME NEW k \in 1 .. StepOf(i) + 1
          PROVE  /\ bound[k - 1] = s.refs[k]
                 /\ s.refs[k].req.step = k - 1
                 /\ s.refs[k].out = "stop" <=> k = StepOf(i) + 1
                 /\ Calm => ~Placeholder(s.refs[k])
      <3>1. CASE k = StepOf(i) + 1
        <4>1. s.refs[k] = res /\ k - 1 = StepOf(i)
          BY <1>2, <1>3, <3>1
        <4> QED
          BY <1>3, <1>4, <3>1, <4>1
      <3>2. CASE k # StepOf(i) + 1
        <4>1. k \in 1 .. StepOf(i)
          BY <1>2, <3>2
        <4>2. s.refs[k] = StateOf(i).refs[k]
          BY <1>2, <1>3, <4>1
        <4> QED
          BY <1>2, <3>2, <4>1, <4>2 DEF OpenInv, Entry
      <3> QED
        BY <3>1, <3>2
    <2>3. bound[StepOf(i) + 1] = None
      BY <1>2 DEF OpenInv
    <2>4. \A x : Placeholder(x)' <=> Placeholder(x)
      BY DEF Placeholder
    <2>5. Ended'
      <3>1. member' = s /\ bound' = bound /\ Calm' = Calm
        BY <1>4, <1>9
      <3>2. s # None /\ s.terminal /\ s.refs # << >> /\ Len(s.refs) = StepOf(i) + 1
        BY <1>3, <1>11, <2>1
      <3>3. bound[Len(s.refs)] = None
        BY <2>3, <3>2
      <3>4. \A k \in 1 .. Len(s.refs) :
                 /\ bound[k - 1] = s.refs[k]
                 /\ s.refs[k].req.step = k - 1
                 /\ s.refs[k].out = "stop" <=> k = Len(s.refs)
                 /\ Calm => ~Placeholder(s.refs[k])
        BY <2>2, <3>2
      <3> HIDE DEF Calm
      <3> QED
        BY ONLY <3>1, <3>2, <3>3, <3>4, <2>4 DEF Ended
    <2> QED
      BY <2>5 DEF ChainInv
  <1>14. FaninsInv'
    <2>1. ASSUME NEW j, DoneFanin(j)' PROVE DoneFanin(j) /\ ledger'[j].input = ledger[j].input
      BY <1>6, <2>1 DEF Recorded
    <2>2. \A res1, k : Entry(res1, k)' <=> Entry(res1, k)
      BY <1>9 DEF Entry, Placeholder
    <2>3. \A j : DoneFanin(j)' => Merged(ledger[j].input)' = Merged(ledger[j].input)
      BY <2>1 DEF Merged
    <2>4. \A j : DoneFanin(j)' => j \in DOMAIN ledger
      BY <2>1 DEF DoneFanin
    <2> QED
      BY <1>1, <1>7, <1>9, <2>1, <2>2, <2>3, <2>4 DEF FaninsInv
  <1>15. HeadsInv'
    BY <1>1, <1>7, <1>9 DEF HeadsInv, Placeholder
  <1>16. EvaluationsInv'
    <2>1. Calm => \A r \in DOMAIN checkpoint : checkpoint[r] = "defer" => r \in resolved \/ r = Asked(i)
      BY <1>1, <1>2, OneOpen DEF EvaluationsInv
    <2> QED
      BY <1>4, <1>9, <2>1 DEF EvaluationsInv
  <1>17. WatermarkInv'
    BY <1>7 DEF WatermarkInv
  <1>18. Calm /\ SameStepResume => Top(head)
    <2>1. Calm /\ SameStepResume => \A h \in heads : Reached(h, i) /\ Behind(h, i)
      BY <1>1, <1>2 DEF WatermarkInv, HeadsInv
    <2>2. Calm /\ SameStepResume => \A h \in heads : h.stage <= i \/ h = s
      BY <1>4, <2>1 DEF Reached, s, res
    <2>3. Calm /\ SameStepResume => \A h \in heads : h.step <= StepOf(i) \/ h = s
      BY <1>2, <1>4, <1>10, <2>1 DEF Behind, s
    <2> QED
      BY <1>2, <1>3, <1>4, <1>10, <2>2, <2>3 DEF Top
  <1>19. RecoveryInv'
    BY <1>12, <1>13, <1>14, <1>15, <1>16, <1>17 DEF RecoveryInv
  <1> QED
    BY <1>4, <1>6, <1>8, <1>11, <1>18, <1>19, ClosedKeeps

\* A fan-in that resumed or merged its episode completes.
LEMMA FaninCompletes ==
    ASSUME IInv, RInv, Complete, NEW i, i = job.idx, Open(i), ledger[i].kind = "eval_fanin",
           NEW ws, ws = ledger[i].input, NEW s, s = Outcome(ws),
           job.successors = NextStep(s), ws.intents \in resolved, head = s,
           ~SameStepResume => bound[ws.step] = Merged(ws)
    PROVE  RInv'
  <1> DEFINE f == i + 1
             succ == NextStep(s)
  <1>1. RecoveryInv /\ FrontierInv /\ HeadsInv /\ FaninsInv /\ EvaluationsInv /\ WatermarkInv
    BY DEF RInv, RecoveryInv
  <1>2. /\ i \in Nat /\ i \in DOMAIN ledger /\ OpenInv(i) /\ FanningInv(i)
        /\ StateOf(i) = ws /\ StepOf(i) = ws.step /\ StateInv(ws) /\ ws.pend # None /\ ws.stage = i
        /\ ws.step \in Steps /\ ws.step \in Nat /\ ws.step < MaxSteps /\ ws.step + 1 \in Steps
        /\ ws.refs \in Seq(Result) /\ Len(ws.refs) = ws.step /\ ws.origin \in Nat /\ Rows \in Nat
    BY <1>1, OpenState, StepsFacts, ConstantsAssumption DEF FrontierInv
  <1>3. /\ s.stage = f /\ s.pend = None /\ ~s.terminal
        /\ SameStepResume => s.step = ws.step /\ s.refs = ws.refs
        /\ ~SameStepResume => s.step = ws.step + 1 /\ s.refs = Append(ws.refs, Merged(ws))
        /\ Merged(ws).req.step = ws.step /\ Merged(ws).out = "defer" /\ ~Placeholder(Merged(ws))
    BY <1>2, OutcomeFacts
  <1>4. s.step \in Steps /\ s.step \in Nat /\ ws.step <= s.step
    BY <1>2, <1>3
  <1>5. f \in Nat \ {0} /\ f = i + 1
    BY <1>2
  <1>6. /\ DOMAIN succ = {f} /\ f \in DOMAIN succ /\ succ[f].kind = "optim_step" /\ succ[f].input = s
        /\ \A x \in DOMAIN succ : /\ x \in Nat /\ x > i /\ x <= f /\ ~succ[x].done
                                  /\ succ[x].kind # "eval_row" => x = f
    <2> HIDE DEF f
    <2>1. /\ DOMAIN succ = {f} /\ succ[f].kind = "optim_step" /\ succ[f].input = s /\ ~succ[f].done
      BY <1>3, NextStepStages
    <2>2. f \in Nat /\ f > i /\ f <= f
      BY <1>2, <1>5
    <2> QED
      BY <2>1, <2>2
  <1> HIDE DEF succ, f
  <1>7. Recorded(i, succ) /\ Closed
    <2>1. succ = job.successors
      BY DEF succ
    <2> QED
      BY <1>1, <1>6, <2>1, CompletionRecords
  <1>8. NothingDeferred
    <2>1. \A k \in Steps : deferred[k] # None =>
            \E x \in DOMAIN ledger : Open(x) /\ ledger[x].kind = "optim_step"
      BY <1>1 DEF FrontierInv
    <2> QED
      BY <2>1, OneOpen DEF NothingDeferred
  <1>9. \A h \in heads :
            /\ h.stage \in Nat /\ h.step \in Nat
            /\ h.pend = None <=> h.origin = None
            /\ h.origin # None => h.origin \in Nat
    BY StepsFacts DEF IInv, StoreInv, TypeOK, WorkState
  <1>10. SameStepResume => \A h \in heads :
            \/ h.step < ws.step
            \/ /\ h.step = ws.step
               /\ h.pend # None => h.origin <= ws.origin
               /\ h.pend = None => h.stage <= i + 1 /\ h.refs = ws.refs /\ ~h.terminal
    <2>1. SameStepResume => \A h \in heads : Behind(h, i)
      BY <1>1, <1>2 DEF HeadsInv
    <2> QED
      BY <1>2, <2>1 DEF Behind
  <1>11. Calm /\ SameStepResume => \A h \in heads : h.stage <= f
    <2>1. Calm /\ SameStepResume => \A h \in heads : Reached(h, i)
      BY <1>1, <1>2 DEF WatermarkInv
    <2> QED
      BY <1>5, <2>1 DEF Reached
  <1>12. ws.origin + Rows + 1 = i /\ member = None /\ completed = "no"
    BY <1>2 DEF FanningInv, OpenInv
  <1>13. Opens(f, "optim_step", s)
    <2>1. \A k \in Steps : k >= s.step => bound[k] = None
      <3>1. CASE SameStepResume
        <4>1. \A k \in Steps : k >= s.step => k = ws.step \/ k > ws.step
          <5>1. s.step = ws.step
            BY <1>3, <3>1
          <5>2. \A k \in Steps : k \in Nat
            BY StepsFacts
          <5> QED
            BY ONLY <1>2, <5>1, <5>2
        <4>2. bound[ws.step] = None
          BY <1>2, <3>1 DEF FanningInv
        <4> QED
          BY <1>2, <4>1, <4>2 DEF OpenInv
      <3>2. CASE ~SameStepResume
        <4>1. \A k \in Steps : k >= s.step => k > ws.step
          BY <1>2, <1>3, <3>2, StepsFacts
        <4> QED
          BY <1>2, <4>1 DEF OpenInv
      <3> QED
        BY <3>1, <3>2
    <2>2. SameStepResume => \A h \in heads :
            \/ h.step < s.step
            \/ /\ h.step = s.step
               /\ h.pend # None => h.origin <= f
               /\ h.pend = None => h.stage <= f /\ h.refs = s.refs /\ ~h.terminal
      <3>1. \A h \in heads : h.pend # None /\ h.origin <= ws.origin => h.origin <= f
        BY <1>2, <1>5, <1>9, <1>12
      <3> QED
        BY <1>3, <1>5, <1>10, <3>1
    <2>3. Calm => \A r \in DOMAIN checkpoint : checkpoint[r] = "defer" => r \in resolved
      <3>1. Calm => \A r \in DOMAIN checkpoint : checkpoint[r] = "defer" => r \in resolved \/ r = ws.intents
        BY <1>1, <1>2, OneOpen DEF EvaluationsInv
      <3> QED
        BY <3>1
    <2>4. ASSUME NEW k \in 1 .. s.step PROVE bound[k - 1] = s.refs[k] /\ Entry(bound[k - 1], k - 1)
      <3>1. CASE k \in 1 .. ws.step
        <4>1. s.refs[k] = ws.refs[k]
          BY <1>2, <1>3, <3>1
        <4> QED
          BY <1>2, <3>1, <4>1 DEF OpenInv
      <3>2. CASE k \notin 1 .. ws.step
        <4>1. ~SameStepResume /\ k = ws.step + 1
          BY <1>2, <1>3, <3>2
        <4>2. s.refs[k] = Merged(ws) /\ k - 1 = ws.step
          BY <1>2, <1>3, <4>1
        <4> QED
          BY <1>3, <4>1, <4>2 DEF Entry
      <3> QED
        BY <3>1, <3>2
    <2> QED
      BY <1>3, <1>4, <1>8, <1>11, <1>12, <2>1, <2>2, <2>3, <2>4 DEF Opens
  <1>14. \A j : DoneFanin(j) => Follows(j, s)
    <2> SUFFICES ASSUME NEW j, DoneFanin(j) PROVE Follows(j, s)
      OBVIOUS
    <2>1. j \in DOMAIN ledger /\ ledger[j].input.step \in Nat
      BY <1>1, DoneBefore, OutcomeFacts
    <2>2. /\ ledger[j].input.step <= ws.step
          /\ ~SameStepResume => ledger[j].input.step < ws.step
          /\ ledger[j].input.step = ws.step => ledger[j].input.refs = ws.refs
      BY <1>1, <1>2, <2>1 DEF FaninsInv
    <2>3. /\ ledger[j].input.step <= s.step
          /\ ~SameStepResume => ledger[j].input.step < s.step
          /\ ledger[j].input.step = s.step => ledger[j].input.refs = s.refs
      BY <1>2, <1>3, <1>4, <2>1, <2>2
    <2> QED
      BY <1>1, <2>1, <2>3 DEF FaninsInv, Follows
  <1>15. s \in heads
    <2>1. s # None
      <3>1. ASSUME NEW step \in Steps, NEW refs \in Seq(Result), Len(refs) = step,
                   NEW terminal \in BOOLEAN, s = Settled(i + 1, step, refs, terminal)
            PROVE  s \in WorkState
        <4>1. s = [stage |-> i + 1, step |-> step, refs |-> refs, terminal |-> terminal,
                   pend |-> None, origin |-> None, intents |-> None]
          BY <3>1 DEF Settled
        <4>2. i + 1 \in Nat
          BY <1>2
        <4> QED
          BY ONLY <3>1, <4>1, <4>2 DEF WorkState
      <3>2. CASE SameStepResume
        <4>1. s = Settled(i + 1, ws.step, ws.refs, FALSE)
          BY <1>2, <3>2 DEF Outcome
        <4> QED
          BY <1>2, <3>1, <4>1, ConstantsAssumption
      <3>3. CASE ~SameStepResume
        <4>1. PICK refs, step : refs = Append(ws.refs, Merged(ws)) /\ step = ws.step + 1
          OBVIOUS
        <4>2. s = Settled(i + 1, step, refs, FALSE)
          BY <1>2, <3>3, <4>1 DEF Outcome
        <4>3. Merged(ws) \in Result
          BY <1>2, OutcomeFacts
        <4>4. refs \in Seq(Result) /\ Len(refs) = step /\ step \in Steps
          BY <1>2, <4>1, <4>3
        <4> QED
          BY <3>1, <4>2, <4>4, ConstantsAssumption
      <3> QED
        BY <3>2, <3>3
    <2> QED
      BY <1>1, <2>1 DEF HeadsInv
  <1>16. Follows(i, s)
    <2>1. Calm => \A k \in 1 .. ws.step : Entry(ws.refs[k], k - 1)
      BY <1>2 DEF OpenInv
    <2>2. SameStepResume => \E h \in heads : h.stage = i + 1 /\ h.step = ws.step
      BY <1>3, <1>5, <1>15
    <2>3. /\ ~SameStepResume => ws.step < s.step
          /\ ws.step = s.step => ws.refs = s.refs
      BY <1>2, <1>3
    <2> QED
      BY <1>2, <1>4, <1>12, <2>1, <2>2, <2>3 DEF Follows
  <1>17. \A x \in DOMAIN ledger' : x <= f
    <2>1. \A x \in DOMAIN ledger : x \in Nat /\ x <= i
      BY <1>2 DEF OpenInv, IInv, StoreInv, TypeOK
    <2>2. DOMAIN ledger' = DOMAIN ledger \cup DOMAIN succ
      BY <1>7 DEF Recorded
    <2> QED
      BY <1>2, <1>5, <1>6, <2>1, <2>2
  <1>18. RecoveryInv'
    <2>1. /\ succ[f].kind \in {"optim_step", "eval_fanin"} /\ Opens(f, succ[f].kind, s)
          /\ ledger[i].kind = "eval_fanin" => Follows(i, s)
      BY <1>6, <1>13, <1>16
    <2>2. /\ f \in DOMAIN succ /\ succ[f].input = s
          /\ \A x \in DOMAIN succ : succ[x].kind # "eval_row" => x = f
      BY <1>6
    <2> QED
      BY <1>1, <1>5, <1>7, <1>14, <1>17, <2>1, <2>2, NextOpened
  <1>19. Calm /\ SameStepResume => head # None /\ Top(head)
    <2>1. SameStepResume => \A h \in heads : h.step <= s.step
      BY <1>2, <1>3, <1>9, <1>10
    <2>2. s # None
      BY <1>15, ConstantsAssumption DEF IInv, StoreInv, TypeOK
    <2> QED
      BY <1>3, <1>11, <2>1, <2>2 DEF Top
  <1> QED
    BY <1>7, <1>8, <1>18, <1>19, ClosedKeeps

\* A fan-in that was delivered again completes: its completion is already recorded.
LEMMA RepeatCompletes ==
    ASSUME IInv, RInv, Complete, NEW j, j = job.idx, DoneFanin(j), NEW n \in 1 .. 6, RepeatingAt(j, n)
    PROVE  RInv'
  <1>1. /\ job.todo = << >> /\ job # None /\ job' = None /\ ledger' = ledger
        /\ UNCHANGED <<adapter, head, heads, bound, deferred, checkpoint, resolved, member, completed>>
        /\ UNCHANGED <<raised, crashes, replays>>
    BY DEF Complete, DoneFanin, store, environment
  <1>2. RecoveryInv'
    BY <1>1, EvictHeadKeeps DEF RInv, Static
  <1>3. ledger[0].done
    BY DEF DoneFanin, IInv, StoreInv, LedgerInv
  <1>4. Calm /\ SameStepResume => NothingDeferred /\ head # None /\ Top(head)
    <2> SUFFICES ASSUME Calm, SameStepResume PROVE NothingDeferred /\ head # None /\ Top(head)
      OBVIOUS
    <2> DEFINE ws == ledger[j].input
    <2>1. NothingDeferred
      BY <1>1 DEF RInv, AttemptInv, DoneFanin
    <2>2. CASE /\ n <= 2 /\ job.todo = SubSeq(<< [op |-> "resolve", req |-> ws.intents] >>, n, 1)
               /\ Calm => head # None /\ Top(head)
      BY <2>1, <2>2
    <2>3. CASE \E s \in WorkState :
            /\ RepeatedState(j, s)
            /\ n <= 5 /\ job.todo = SubSeq(Resuming4(ws, s), n, 4)
            /\ n = 5 => head = s
      <3>1. PICK s \in WorkState : /\ RepeatedState(j, s)
                                   /\ n <= 5 /\ job.todo = SubSeq(Resuming4(ws, s), n, 4)
                                   /\ n = 5 => head = s
        BY <2>3
      <3>2. n = 5
        <4> SUFFICES ASSUME n <= 4 PROVE FALSE
          BY <3>1
        <4>1. PICK p : p = Resuming4(ws, s)
          OBVIOUS
        <4>2. PICK S : p \in Seq(S) /\ Len(p) = 4
          <5>1. \E S : Resuming4(ws, s) \in Seq(S) /\ Len(Resuming4(ws, s)) = 4
            <6>1. Resuming4(ws, s) \in Seq({Resuming4(ws, s)[1], Resuming4(ws, s)[2],
                                            Resuming4(ws, s)[3], Resuming4(ws, s)[4]})
              BY DEF Resuming4
            <6>2. Len(Resuming4(ws, s)) = 4
              BY DEF Resuming4
            <6> QED
              BY <6>1, <6>2
          <5> QED
            BY <4>1, <5>1
        <4>3. 4 \in 0 .. Len(p) /\ n \in 1 .. 4 + 1
          BY <4>2
        <4> QED
          BY <1>1, <3>1, <4>1, <4>2, <4>3, Suffix
      <3>3. head = s /\ s # None /\ Top(s)
        BY <3>1, <3>2, ConstantsAssumption DEF RepeatedState
      <3> QED
        BY <2>1, <3>3
    <2> QED
      BY <2>2, <2>3 DEF RepeatingAt
  <1>5. Calm' = Calm /\ SameStepResume' = SameStepResume /\ (Top(head)' <=> Top(head))
        /\ (NothingDeferred' <=> NothingDeferred)
    BY <1>1 DEF Calm, SameStepResume, Top, NothingDeferred
  <1>6. QuietInv' /\ FaultsInv' /\ AttemptInv'
    BY <1>1, <1>3, <1>4, <1>5 DEF QuietInv, FaultsInv, AttemptInv, RInv
  <1> QED
    BY <1>2, <1>6 DEF RInv

\* A plan with nothing left to write has been written to its end.
LEMMA Finished ==
    ASSUME NEW S, NEW p \in Seq(S), NEW m \in 0 .. Len(p), NEW n \in 1 .. m + 1, SubSeq(p, n, m) = << >>
    PROVE  n = m + 1
  <1>1. n <= m => SubSeq(p, n, m) # << >>
    BY Suffix
  <1> QED
    BY <1>1

\* A completion keeps the invariant.
LEMMA CompleteRecovers ==
    ASSUME IInv, RInv, Complete
    PROVE  RInv'
  <1>0. PICK i : i = job.idx
    OBVIOUS
  <1>1. RecoveryInv /\ AttemptInv /\ job # None /\ job.todo = << >>
    BY DEF RInv, Complete
  <1>2. CASE Open(i) /\ ledger[i].kind = "optim_step"
    <2>1. \/ \E n \in 1 .. 9 : ParkingAt(i, n)
          \/ \E n \in 1 .. 7, out \in Output : AdvancingAt(i, n, out)
      BY <1>0, <1>1, <1>2 DEF AttemptInv
    <2>2. ASSUME NEW n \in 1 .. 9, ParkingAt(i, n) PROVE RInv'
      <3>0. PICK p, last : p = Parking8(i) /\ last = 8
        OBVIOUS
      <3>1. SubSeq(p, n, last) = << >>
        BY <1>1, <2>2, <3>0 DEF ParkingAt
      <3>2. p \in Seq({p[m] : m \in 1 .. 8}) /\ Len(p) = 8
        BY <3>0 DEF Parking8
      <3>4. n = last + 1
        BY <3>0, <3>1, <3>2, Finished, last \in 0 .. Len(p), n \in 1 .. last + 1
      <3>3. n = 9
        BY <3>0, <3>4
      <3> QED
        BY <1>0, <1>2, <2>2, <3>3, ParkedCompletes
    <2>3. ASSUME NEW n \in 1 .. 7, NEW out \in Output, AdvancingAt(i, n, out) PROVE RInv'
      <3>1. PICK p, last : p = Advancing6(i, Given(i, out)) /\ last = IF out = "stop" THEN 6 ELSE 5
        OBVIOUS
      <3>2. SubSeq(p, n, last) = << >> /\ n <= last + 1
        BY <1>1, <2>3, <3>1 DEF AdvancingAt
      <3>3. p \in Seq({p[m] : m \in 1 .. 6}) /\ Len(p) = 6
        BY <3>1 DEF Advancing6
      <3>4. last \in {5, 6}
        BY <3>1
      <3>5. n = last + 1
        BY <3>2, <3>3, <3>4, Finished, last \in 0 .. Len(p), n \in 1 .. last + 1
      <3>6. CASE out = "stop"
        <4>1. n = 7
          BY <3>1, <3>5, <3>6
        <4> QED
          BY <1>0, <1>2, <2>3, <3>6, <4>1, EndedCompletes
      <3>7. CASE out # "stop"
        <4>1. n = 6
          BY <3>1, <3>5, <3>7
        <4> QED
          BY <1>0, <1>2, <2>3, <3>7, <4>1, AdvancedCompletes
      <3> QED
        BY <3>6, <3>7
    <2> QED
      BY <2>1, <2>2, <2>3
  <1>3. CASE Open(i) /\ ledger[i].kind = "eval_fanin"
    <2>1. PICK n \in 1 .. 6 : FanningAt(i, n)
      BY <1>0, <1>1, <1>3 DEF AttemptInv
    <2>2. PICK ws, s : ws = ledger[i].input /\ s = Outcome(ws)
      OBVIOUS
    <2>3. /\ job.successors = NextStep(s) /\ ws.intents \in resolved /\ head = s
          /\ ~SameStepResume => bound[ws.step] = Merged(ws)
      <3>1. CASE SameStepResume
        <4>1. PICK p, last : p = Resuming4(ws, s) /\ last = 4
          OBVIOUS
        <4>2. SubSeq(p, n, last) = << >> /\ n <= 5
          BY <1>1, <2>1, <2>2, <3>1, <4>1 DEF FanningAt
        <4>3. p \in Seq({p[m] : m \in 1 .. 4}) /\ Len(p) = 4
          BY <4>1 DEF Resuming4
        <4>5. n = last + 1
          BY <4>1, <4>2, <4>3, Finished, last \in 0 .. Len(p), n \in 1 .. last + 1
        <4>4. n = 5
          BY <4>1, <4>5
        <4> QED
          BY <2>1, <2>2, <3>1, <4>4 DEF FanningAt
      <3>2. CASE ~SameStepResume
        <4>1. PICK p, last : p = Merging5(ws) /\ last = 5
          OBVIOUS
        <4>2. SubSeq(p, n, last) = << >>
          BY <1>1, <2>1, <2>2, <3>2, <4>1 DEF FanningAt
        <4>3. p \in Seq({p[m] : m \in 1 .. 5}) /\ Len(p) = 5
          BY <4>1 DEF Merging5
        <4>5. n = last + 1
          BY <4>1, <4>2, <4>3, Finished, last \in 0 .. Len(p), n \in 1 .. last + 1
        <4>4. n = 6
          BY <4>1, <4>5
        <4> QED
          BY <2>1, <2>2, <3>2, <4>4 DEF FanningAt
      <3> QED
        BY <3>1, <3>2
    <2> QED
      BY <1>0, <1>3, <2>2, <2>3, FaninCompletes
  <1>4. CASE DoneFanin(i)
    <2>1. PICK n \in 1 .. 6 : RepeatingAt(i, n)
      BY <1>0, <1>1, <1>4 DEF AttemptInv, DoneFanin
    <2> QED
      BY <1>0, <1>4, <2>1, RepeatCompletes
  <1>5. (Open(i) /\ ledger[i].kind \in {"optim_step", "eval_fanin"}) \/ DoneFanin(i)
    BY <1>0, <1>1, AttemptAt
  <1> QED
    BY <1>2, <1>3, <1>4, <1>5

-----------------------------------------------------------------------------
(* Rows, run completion and crashes.                                       *)

\* What a row that is done, or a step that changes nothing, leaves as it was.
Undisturbed ==
    /\ UNCHANGED <<adapter, store, job, raised, completed, environment>>
    /\ DOMAIN ledger' = DOMAIN ledger
    /\ \A x \in DOMAIN ledger : ledger'[x].kind = ledger[x].kind /\ ledger'[x].input = ledger[x].input
    /\ \A x : /\ Open(x)' <=> Open(x)
              /\ DoneFanin(x)' <=> DoneFanin(x)
    /\ \A x \in DOMAIN ledger : /\ StateOf(x)' = StateOf(x) /\ StepOf(x)' = StepOf(x) /\ Asked(x)' = Asked(x)
                                /\ ParkedAt(x)' = ParkedAt(x)
                                /\ \A y : Given(x, y)' = Given(x, y) /\ AdvancedAt(x, y)' = AdvancedAt(x, y)
    /\ ledger'[0].done <=> ledger[0].done

\* A row is done.
LEMMA RowEffect ==
    ASSUME IInv, NEW r \in DOMAIN ledger, EvalRow(r)
    PROVE  Undisturbed
  <1>1. /\ ledger[r].kind = "eval_row" /\ ~ledger[r].done /\ ledger' = [ledger EXCEPT ![r].done = TRUE]
        /\ UNCHANGED <<adapter, store, job, raised, completed, environment>>
    BY DEF EvalRow
  <1>2. ledger[r] \in Stage
    BY DEF IInv, StoreInv, TypeOK
  <1>3. /\ DOMAIN ledger' = DOMAIN ledger
        /\ \A j \in DOMAIN ledger : j # r => ledger'[j] = ledger[j]
        /\ ledger'[r] = [ledger[r] EXCEPT !.done = TRUE]
    BY <1>1
  <1>4. ledger'[r].kind = "eval_row" /\ ledger'[r].input = ledger[r].input /\ ledger'[r].done
    BY <1>1, <1>2, <1>3 DEF Stage
  <1>5. \A x \in DOMAIN ledger : ledger'[x].kind = ledger[x].kind /\ ledger'[x].input = ledger[x].input
    BY <1>1, <1>3, <1>4
  <1>6. \A x : /\ Open(x)' <=> Open(x)
               /\ DoneFanin(x)' <=> DoneFanin(x)
    <2>1. ASSUME NEW x \in DOMAIN ledger
          PROVE  (Open(x)' <=> Open(x)) /\ (DoneFanin(x)' <=> DoneFanin(x))
      <3>1. CASE x = r
        BY <1>1, <1>3, <1>4, <3>1 DEF Open, DoneFanin
      <3>2. CASE x # r
        BY <1>3, <2>1, <3>2 DEF Open, DoneFanin
      <3> QED
        BY <3>1, <3>2
    <2> QED
      BY <1>3, <2>1 DEF Open, DoneFanin
  <1>7. SameStepResume' <=> SameStepResume
    BY <1>1 DEF SameStepResume
  <1>8. ASSUME NEW x \in DOMAIN ledger
        PROVE  /\ StateOf(x)' = StateOf(x) /\ StepOf(x)' = StepOf(x) /\ Asked(x)' = Asked(x)
               /\ ParkedAt(x)' = ParkedAt(x)
               /\ \A y : Given(x, y)' = Given(x, y) /\ AdvancedAt(x, y)' = AdvancedAt(x, y)
    <2>1. StateOf(x)' = StateOf(x)
      BY <1>5, <1>8 DEF StateOf
    <2>2. StepOf(x)' = StepOf(x)
      BY <2>1 DEF StepOf
    <2>3. Asked(x)' = Asked(x)
      BY <1>7, <2>2 DEF Asked, RequestAt
    <2>4. \A y : Given(x, y)' = Given(x, y) /\ AdvancedAt(x, y)' = AdvancedAt(x, y)
      BY <2>1, <2>2, <2>3 DEF Given, AdvancedAt
    <2>5. ParkedAt(x)' = ParkedAt(x)
      BY <2>1, <2>2, <2>3, <2>4 DEF ParkedAt
    <2> QED
      BY <2>1, <2>2, <2>3, <2>4, <2>5
  <1>9. ledger'[0].done <=> ledger[0].done
    <2>1. 0 \in DOMAIN ledger /\ ledger[0].kind = "optim_step"
      BY DEF IInv, StoreInv, LedgerInv
    <2> QED
      BY <1>1, <1>3, <2>1
  <1> QED
    BY <1>1, <1>3, <1>5, <1>6, <1>8, <1>9 DEF Undisturbed

\* Such a step keeps the recovery invariant.
LEMMA UndisturbedKeeps ==
    ASSUME IInv, RecoveryInv, Undisturbed
    PROVE  RecoveryInv'
  <1>1. /\ UNCHANGED <<adapter, head, heads, bound, deferred, checkpoint, resolved, member, completed>>
        /\ DOMAIN ledger' = DOMAIN ledger
        /\ \A x \in DOMAIN ledger : ledger'[x].kind = ledger[x].kind /\ ledger'[x].input = ledger[x].input
        /\ \A x : Open(x)' <=> Open(x)
        /\ \A x : DoneFanin(x)' <=> DoneFanin(x)
    BY DEF Undisturbed, store
  <1>2. /\ \A x \in DOMAIN ledger : StateOf(x)' = StateOf(x) /\ StepOf(x)' = StepOf(x) /\ Asked(x)' = Asked(x)
        /\ \A x \in DOMAIN ledger : ParkedAt(x)' = ParkedAt(x)
        /\ \A x \in DOMAIN ledger : \A y : Given(x, y)' = Given(x, y)
        /\ \A x \in DOMAIN ledger : \A y : AdvancedAt(x, y)' = AdvancedAt(x, y)
    BY DEF Undisturbed
  <1>3. /\ FrontierInv /\ ChainInv /\ FaninsInv /\ HeadsInv /\ EvaluationsInv /\ WatermarkInv
    BY DEF RecoveryInv
  <1>4. /\ Calm' = Calm /\ SameStepResume' = SameStepResume
        /\ \A res : Placeholder(res)' <=> Placeholder(res)
    BY <1>1 DEF Calm, SameStepResume, Placeholder
  <1>5. \A res, k : Entry(res, k)' <=> Entry(res, k)
    BY <1>4 DEF Entry
  <1>6. FrontierInv'
    <2>1. ASSUME NEW x \in DOMAIN ledger, Open(x)
          PROVE  /\ OpenInv(x)'
                 /\ ledger'[x].kind = "optim_step" => AskingInv(x)'
                 /\ ledger'[x].kind = "eval_fanin" => FanningInv(x)'
      <3>1. /\ OpenInv(x)
            /\ ledger[x].kind = "optim_step" => AskingInv(x)
            /\ ledger[x].kind = "eval_fanin" => FanningInv(x)
        BY <1>3, <2>1 DEF FrontierInv
      <3>2. OpenInv(x)'
        BY <1>1, <1>2, <1>5, <2>1, <3>1 DEF OpenInv
      <3>3. AskingInv(x) => AskingInv(x)'
        <4>1. (checkpoint[Asked(x)])' = checkpoint[Asked(x)] /\ (bound[StepOf(x)])' = bound[StepOf(x)]
          BY <1>1, <1>2
        <4>2. /\ Given(x, checkpoint[Asked(x)])' = Given(x, checkpoint[Asked(x)])
              /\ AdvancedAt(x, bound[StepOf(x)])' = AdvancedAt(x, bound[StepOf(x)])
          <5>1. StateOf(x)' = StateOf(x) /\ StepOf(x)' = StepOf(x) /\ Asked(x)' = Asked(x)
            BY <1>2
          <5> QED
            BY <4>1, <5>1 DEF Given, AdvancedAt
        <4> QED
          BY <1>1, <1>2, <1>4, <4>1, <4>2 DEF AskingInv
      <3>4. FanningInv(x) => FanningInv(x)'
        <4>1. Merged(StateOf(x))' = Merged(StateOf(x))
          BY <1>2 DEF Merged
        <4> QED
          BY <1>1, <1>2, <1>4, <4>1 DEF FanningInv
      <3> QED
        BY <1>1, <3>1, <3>2, <3>3, <3>4
    <2> QED
      BY <1>1, <1>2, <1>3, <2>1 DEF FrontierInv
  <1>7. ChainInv'
    <2>1. Ended => Ended'
      BY <1>1, <1>4 DEF Ended
    <2> QED
      BY <1>1, <1>3, <2>1 DEF ChainInv
  <1>8. FaninsInv'
    <2>1. \A x \in DOMAIN ledger : Merged(ledger[x].input)' = Merged(ledger[x].input)
      BY <1>1 DEF Merged
    <2> SUFFICES ASSUME NEW j \in DOMAIN ledger, DoneFanin(j)
               PROVE  /\ ledger[j].input.stage = j /\ ledger[j].input.origin + Rows + 1 = j
                      /\ Calm => \A k \in 1 .. ledger[j].input.step : Entry(ledger[j].input.refs[k], k - 1)
                      /\ ~SameStepResume => bound[ledger[j].input.step] = Merged(ledger[j].input)
                      /\ SameStepResume => \E h \in heads : h.stage = j + 1 /\ h.step = ledger[j].input.step
                      /\ \A i \in DOMAIN ledger : Open(i) =>
                            /\ ledger[j].input.step <= StepOf(i)
                            /\ ~SameStepResume => ledger[j].input.step < StepOf(i)
                            /\ ledger[j].input.step = StepOf(i) => ledger[j].input.refs = StateOf(i).refs
      BY <1>1, <1>2, <1>4, <1>5, <2>1 DEF FaninsInv
    <2> QED
      BY <1>3 DEF FaninsInv
  <1>9. HeadsInv'
    <2>1. ASSUME NEW h, NEW x \in DOMAIN ledger PROVE Behind(h, x)' <=> Behind(h, x)
      <3>1. AdvancedAt(x, bound[StepOf(x)])' = AdvancedAt(x, bound[StepOf(x)])
        <4>1. StateOf(x)' = StateOf(x) /\ StepOf(x)' = StepOf(x) /\ (bound[StepOf(x)])' = bound[StepOf(x)]
          BY <1>1, <1>2
        <4> QED
          BY <4>1 DEF AdvancedAt
      <3> QED
        BY <1>1, <1>2, <3>1 DEF Behind
    <2> QED
      BY <1>1, <1>3, <1>4, <2>1 DEF HeadsInv
  <1>10. EvaluationsInv'
    BY <1>1, <1>2, <1>3, <1>4 DEF EvaluationsInv
  <1>11. WatermarkInv'
    <2>1. ASSUME NEW h, NEW x \in DOMAIN ledger PROVE Reached(h, x)' <=> Reached(h, x)
      <3>1. AdvancedAt(x, Given(x, checkpoint[Asked(x)]))' = AdvancedAt(x, Given(x, checkpoint[Asked(x)]))
        <4>1. StateOf(x)' = StateOf(x) /\ StepOf(x)' = StepOf(x) /\ Asked(x)' = Asked(x)
          BY <1>2
        <4>2. (checkpoint[Asked(x)])' = checkpoint[Asked(x)]
          BY <1>1, <4>1
        <4>3. Given(x, checkpoint[Asked(x)])' = Given(x, checkpoint[Asked(x)])
          BY <4>1, <4>2 DEF Given
        <4> QED
          BY <4>1, <4>3 DEF AdvancedAt
      <3> QED
        BY <1>1, <1>2, <3>1 DEF Reached
    <2> QED
      BY <1>1, <1>3, <1>4, <2>1 DEF WatermarkInv
  <1> QED
    BY <1>6, <1>7, <1>8, <1>9, <1>10, <1>11 DEF RecoveryInv

\* Such a step leaves the running attempt where it was.
LEMMA UndisturbedRecovers ==
    ASSUME IInv, RInv, Undisturbed
    PROVE  RInv'
  <1>1. /\ UNCHANGED <<adapter, head, heads, bound, deferred, checkpoint, resolved, member, completed, job, raised>>
        /\ UNCHANGED <<crashes, replays>>
        /\ DOMAIN ledger' = DOMAIN ledger
        /\ \A x \in DOMAIN ledger : ledger'[x].kind = ledger[x].kind /\ ledger'[x].input = ledger[x].input
        /\ \A x : Open(x)' <=> Open(x)
        /\ \A x : DoneFanin(x)' <=> DoneFanin(x)
        /\ ledger'[0].done <=> ledger[0].done
    BY DEF Undisturbed, store, environment
  <1>2. RecoveryInv'
    BY UndisturbedKeeps DEF RInv
  <1>3. /\ Calm' = Calm /\ SameStepResume' = SameStepResume
        /\ \A res : Placeholder(res)' <=> Placeholder(res)
        /\ NothingDeferred' <=> NothingDeferred
        /\ \A t : Top(t)' <=> Top(t)
        /\ \A ws : Outcome(ws)' = Outcome(ws)
    BY <1>1 DEF Calm, SameStepResume, Placeholder, NothingDeferred, Top, Outcome
  <1>4. QuietInv' /\ FaultsInv'
    <2>1. Top(head)' <=> Top(head)
      BY <1>1 DEF Top
    <2> QED
      BY <1>1, <1>3, <2>1 DEF QuietInv, FaultsInv, RInv
  <1>5. AttemptInv'
    <2>1. SUFFICES ASSUME job # None PROVE AttemptInv'
      BY <1>1 DEF AttemptInv
    <2>2. PICK i : i = job.idx
      OBVIOUS
    <2>3. /\ i \in DOMAIN ledger /\ AttemptInv
          /\ (Open(i) /\ ledger[i].kind \in {"optim_step", "eval_fanin"}) \/ DoneFanin(i)
      BY <2>1, <2>2, AttemptAt DEF RInv
    <2>4. PICK a, k, p, ws : a = Asked(i) /\ k = StepOf(i) /\ p = ParkedAt(i) /\ ws = ledger[i].input
      OBVIOUS
    <2>5. /\ Asked(i)' = a /\ StepOf(i)' = k /\ ParkedAt(i)' = p /\ ledger'[i].input = ws
          /\ \A y : Given(i, y)' = Given(i, y)
          /\ \A y : AdvancedAt(i, y)' = AdvancedAt(i, y)
      BY <1>1, <2>3, <2>4 DEF Undisturbed
    <2>6. CASE Open(i) /\ ledger[i].kind = "optim_step"
      <3>1. \A n : ParkingAt(i, n) => ParkingAt(i, n)'
        <4>1. Given(i, "defer")' = Given(i, "defer")
          BY <2>5
        <4>2. Parking8(i)' = Parking8(i) /\ FanOut(ParkedAt(i))' = FanOut(ParkedAt(i))
          BY <2>4, <2>5, <4>1 DEF Parking8, FanOut
        <4> QED
          BY <1>1, <2>4, <2>5, <4>1, <4>2 DEF ParkingAt
      <3>2. ASSUME NEW n, NEW out, AdvancingAt(i, n, out) PROVE AdvancingAt(i, n, out)'
        <4>1. PICK res, s : res = Given(i, out) /\ s = AdvancedAt(i, res)
          OBVIOUS
        <4>2. Given(i, out)' = res /\ AdvancedAt(i, res)' = s
          BY <2>5, <4>1
        <4>3. AdvancedAt(i, Given(i, out))' = s /\ Advancing6(i, Given(i, out))' = Advancing6(i, Given(i, out))
          BY <2>4, <2>5, <4>1, <4>2 DEF AdvancedAt, Advancing6
        <4>4. NextStep(AdvancedAt(i, Given(i, out)))' = NextStep(AdvancedAt(i, Given(i, out)))
          BY <4>1, <4>3 DEF NextStep
        <4> QED
          BY <1>1, <1>3, <2>4, <2>5, <3>2, <4>1, <4>2, <4>3, <4>4 DEF AdvancingAt
      <3>3. \/ \E n \in 1 .. 9 : ParkingAt(i, n)'
            \/ \E n \in 1 .. 7, out \in Output : AdvancingAt(i, n, out)'
        BY <2>1, <2>2, <2>3, <2>6, <3>1, <3>2 DEF AttemptInv
      <3>4. ~ledger'[i].done /\ ledger'[i].kind = "optim_step"
        BY <1>1, <2>3, <2>6 DEF Open
      <3> QED
        BY <1>1, <2>2, <3>3, <3>4 DEF AttemptInv
    <2>7. CASE Open(i) /\ ledger[i].kind = "eval_fanin"
      <3>1. ASSUME NEW n, FanningAt(i, n) PROVE FanningAt(i, n)'
        <4>1. PICK s : s = Outcome(ws)
          OBVIOUS
        <4>2. Outcome(ledger[i].input)' = s
          BY <1>3, <2>5, <4>1 DEF Outcome, Merged
        <4>3. /\ NextStep(Outcome(ledger[i].input))' = NextStep(s)
              /\ Resuming4(ledger[i].input, Outcome(ledger[i].input))' = Resuming4(ws, s)
              /\ Merged(ledger[i].input)' = Merged(ws)
          BY <2>5, <4>2 DEF NextStep, Resuming4, Merged
        <4>4. Merging5(ledger[i].input)' = Merging5(ws)
          BY <2>5, <4>1, <4>2, <4>3 DEF Merging5
        <4> QED
          BY <1>1, <1>3, <2>4, <2>5, <3>1, <4>1, <4>2, <4>3, <4>4 DEF FanningAt
      <3>2. \E n \in 1 .. 6 : FanningAt(i, n)'
        BY <2>1, <2>2, <2>3, <2>7, <3>1 DEF AttemptInv
      <3>3. ~ledger'[i].done /\ ledger'[i].kind = "eval_fanin"
        BY <1>1, <2>3, <2>7 DEF Open
      <3> QED
        BY <1>1, <2>2, <3>2, <3>3 DEF AttemptInv
    <2>8. CASE DoneFanin(i)
      <3>1. ASSUME NEW s, RepeatedState(i, s) PROVE RepeatedState(i, s)'
        <4>1. \A x \in DOMAIN ledger : StateOf(x)' = StateOf(x) /\ StepOf(x)' = StepOf(x)
          BY DEF Undisturbed
        <4> QED
          BY <1>1, <1>3, <2>3, <3>1, <4>1 DEF RepeatedState
      <3>2. ASSUME NEW n, RepeatingAt(i, n) PROVE RepeatingAt(i, n)'
        <4>1. /\ Merging5(ledger[i].input)' = Merging5(ws)
              /\ \A s : Resuming4(ledger[i].input, s)' = Resuming4(ws, s)
              /\ WorkState' = WorkState
          <5>1. Outcome(ledger[i].input)' = Outcome(ws) /\ Merged(ledger[i].input)' = Merged(ws)
            BY <1>3, <2>5 DEF Outcome, Merged
          <5> QED
            BY <2>5, <5>1 DEF Merging5, Resuming4, WorkState
        <4>2. Top(head)' <=> Top(head)
          BY <1>1 DEF Top
        <4> QED
          BY <1>1, <1>3, <2>4, <2>5, <3>1, <3>2, <4>1, <4>2 DEF RepeatingAt
      <3>3. \E n \in 1 .. 6 : RepeatingAt(i, n)'
        BY <2>1, <2>2, <2>3, <2>8, <3>2 DEF AttemptInv, DoneFanin
      <3>4. Calm /\ SameStepResume => NothingDeferred /\ crashes = 0
        BY <2>1, <2>2, <2>3, <2>8 DEF AttemptInv, DoneFanin
      <3>5. DoneFanin(i)' /\ ~Open(i)'
        <4>1. ~Open(i)
          BY <2>8 DEF Open, DoneFanin
        <4> QED
          BY <1>1, <2>8, <4>1
      <3> QED
        BY <1>1, <1>3, <2>2, <3>3, <3>4, <3>5 DEF AttemptInv
    <2> QED
      BY <2>3, <2>6, <2>7, <2>8
  <1> QED
    BY <1>2, <1>4, <1>5 DEF RInv

\* A step that changes nothing is one.
LEMMA StutterUndisturbed ==
    ASSUME UNCHANGED vars
    PROVE  Undisturbed
  <1>1. UNCHANGED <<adapter, store, ledger, job, raised, completed, environment>>
    BY DEF vars
  <1> QED
    BY <1>1, SameStages DEF Undisturbed

\* A crash leaves the stage to be delivered again.  The opening stage does not crash.
LEMMA CrashRecovers ==
    ASSUME IInv, RInv, Crash, CrashFrom > 0
    PROVE  RInv'
  <1>1. /\ UNCHANGED <<adapter, ledger, head, heads, bound, deferred, checkpoint, resolved, member, completed>>
        /\ UNCHANGED <<raised, replays>> /\ job' = None /\ crashes' = crashes + 1
        /\ MixedFaults \/ replays = 0
    BY DEF Crash, store
  <1>2. RecoveryInv'
    BY <1>1, EvictHeadKeeps DEF RInv, Static
  <1>3. ledger[0].done
    <2>1. job.idx \in DOMAIN ledger /\ job.idx >= CrashFrom
      BY DEF Crash, IInv, JobInv
    <2>2. job.idx # 0
      BY <2>1, ConstantsAssumption
    <2> QED
      BY <2>1, <2>2 DEF IInv, StoreInv, LedgerInv
  <1>4. crashes' # 0
    BY <1>1, ConstantsAssumption DEF IInv, StoreInv, TypeOK
  <1> QED
    BY <1>1, <1>2, <1>3, <1>4 DEF RInv, QuietInv, FaultsInv, AttemptInv

\* The run completes when no stage is open.
LEMMA CompletionRecovers ==
    ASSUME IInv, RInv, RunCompletion
    PROVE  RInv'
  <1>1. /\ UNCHANGED <<adapter, ledger, head, heads, bound, deferred, checkpoint, resolved, member>>
        /\ UNCHANGED <<raised, crashes, replays, job>> /\ job = None
        /\ \A x \in DOMAIN ledger : ledger[x].done
    BY DEF RunCompletion, store, environment, Drained
  <1>2. \A x : ~Open(x) /\ ~Open(x)'
    BY <1>1 DEF Open
  <1>3. FrontierInv'
    BY <1>1, <1>2 DEF FrontierInv, RInv, RecoveryInv
  <1>4. RecoveryInv'
    BY <1>1, <1>3, ChainKept, FaninsKept, HeadsKept, EvaluationsKept, WatermarkKept DEF RInv, RecoveryInv
  <1>5. Calm' = Calm /\ SameStepResume' = SameStepResume /\ (Top(head)' <=> Top(head))
        /\ (NothingDeferred' <=> NothingDeferred)
    BY <1>1 DEF Calm, SameStepResume, Top, NothingDeferred
  <1> QED
    BY <1>1, <1>4, <1>5 DEF RInv, QuietInv, FaultsInv, AttemptInv

\* The run starts at its opening stage.
LEMMA InitRecovers ==
    ASSUME Init
    PROVE  RInv
  <1>1. /\ DOMAIN ledger = {0} /\ ledger[0].kind = "optim_step" /\ ~ledger[0].done
        /\ \A k \in Steps : bound[k] = None /\ deferred[k] = None
        /\ head = None /\ heads = {} /\ member = None /\ job = None /\ raised = {} /\ completed = "no"
        /\ DOMAIN checkpoint = {} /\ crashes = 0 /\ replays = 0
    BY DEF Init
  <1>2. /\ Open(0) /\ \A x : Open(x) => x = 0
        /\ \A x : ~DoneFanin(x)
    BY <1>1 DEF Open, DoneFanin
  <1>3. StateOf(0).stage = 0 /\ StepOf(0) = 0 /\ ~StateOf(0).terminal
    BY DEF StateOf, StepOf, Settled
  <1>4. OpenInv(0)
    <2>1. 1 .. 0 = {} /\ 0 <= 0
      OBVIOUS
    <2> QED
      BY <1>1, <1>3, <2>1 DEF OpenInv
  <1>5. AskingInv(0)
    BY <1>1, <1>3, StepsFacts DEF AskingInv
  <1>6. FrontierInv
    BY <1>1, <1>2, <1>4, <1>5 DEF FrontierInv
  <1>7. ChainInv /\ FaninsInv /\ HeadsInv /\ EvaluationsInv /\ WatermarkInv
    BY <1>1, <1>2 DEF ChainInv, FaninsInv, HeadsInv, EvaluationsInv, WatermarkInv
  <1>8. QuietInv /\ FaultsInv /\ AttemptInv
    BY <1>1 DEF QuietInv, FaultsInv, AttemptInv, NothingDeferred
  <1> QED
    BY <1>6, <1>7, <1>8 DEF RInv, RecoveryInv

\* Every step keeps the invariant.
LEMMA NextRecovers ==
    ASSUME IInv, RInv, [Next]_vars, CrashFrom > 0, NoneIsNoAttempt
    PROVE  RInv'
  <1>1. CASE UNCHANGED vars
    BY <1>1, StutterUndisturbed, UndisturbedRecovers
  <1>2. ASSUME NEW i \in DOMAIN ledger, Deliver(i) PROVE RInv'
    <2>1. UNCHANGED <<adapter, store, ledger, completed, environment>> /\ ~ledger[i].done /\ Handle(i) /\ job = None
      BY <1>2 DEF Deliver
    <2>2. CASE ledger[i].kind = "optim_step" /\ OptimStep(i)
      <3>1. Open(i)
        BY <2>1, <2>2 DEF Open
      <3> QED
        BY <2>1, <2>2, <3>1, OptimStepRecovers
    <2>3. CASE ledger[i].kind = "eval_fanin" /\ EvalFanin(i)
      <3>1. Open(i)
        BY <2>1, <2>3 DEF Open
      <3> QED
        BY <2>1, <2>3, <3>1, FaninRecovers
    <2> QED
      BY <2>1, <2>2, <2>3 DEF Handle
  <1>3. ASSUME NEW i \in DOMAIN ledger, EvalRow(i) PROVE RInv'
    BY <1>3, RowEffect, UndisturbedRecovers
  <1>4. CASE Write
    BY <1>4, WriteRecovers
  <1>5. CASE Complete
    BY <1>5, CompleteRecovers
  <1>6. CASE RunCompletion
    BY <1>6, CompletionRecovers
  <1>7. ASSUME NEW i \in DOMAIN ledger, Redeliver(i) PROVE RInv'
    BY <1>7, RedeliverRecovers
  <1>8. CASE Crash
    BY <1>8, CrashRecovers
  <1>9. CASE Done
    BY <1>1, <1>9 DEF Done
  <1> QED
    BY <1>1, <1>2, <1>3, <1>4, <1>5, <1>6, <1>7, <1>8, <1>9 DEF Next, Progress

-----------------------------------------------------------------------------
(* The theorems.                                                           *)

\* The invariant is one of the specification, if the opening stage does not crash.
THEOREM RecoveryInvariance ==
    ASSUME CrashFrom > 0, NoneIsNoAttempt
    PROVE  Spec => []RInv
  <1>1. Init => RInv
    BY InitRecovers
  <1>2. IInv /\ RInv /\ [Next]_vars => RInv'
    BY NextRecovers
  <1> QED
    BY <1>1, <1>2, Invariance, PTL DEF Spec

\* Whatever crashes between two writes of a stage after the opening one, and however
\* often fan-ins are delivered again, the retried stage succeeds: execute_optim_step_sync
\* and execute_eval_fanin_sync never meet a store they refuse or cannot write to.
THEOREM EveryRetrySucceeds ==
    ASSUME CrashFrom > 0, NoneIsNoAttempt
    PROVE  Spec => []RetriesSucceed
  <1>1. RInv => RetriesSucceed
    BY DEF RInv, FaultsInv, RetriesSucceed
  <1> QED
    BY <1>1, RecoveryInvariance, PTL

\* Under the same faults the chain of stages does not break before the run has ended
\* and its result can be assembled: execute_run_completion_for_run_sync, which runs when
\* every stage is done, finds the terminal state and the bindings it checks.
THEOREM ChainAlwaysReachesTerminal ==
    ASSUME CrashFrom > 0, NoneIsNoAttempt
    PROVE  Spec => []ChainReachesTerminal
  <1>1. RInv => ChainReachesTerminal
    <2> SUFFICES ASSUME RInv, Drained PROVE member # None /\ Terminalizable(member)
      BY DEF ChainReachesTerminal
    <2>1. \A i \in DOMAIN ledger : ~Open(i)
      BY DEF Drained, Open
    <2>2. Ended
      BY <2>1 DEF RInv, RecoveryInv, ChainInv
    <2> QED
      BY <2>2 DEF Ended, Terminalizable
  <1> QED
    BY <1>1, RecoveryInvariance, PTL

\* A run mixes crashes and repeated fan-ins only if its adapter is not GEPA's.
CalmFaults == MixedFaults => "gepa" \notin Adapters

\* Then the run is calm.
LEMMA RunIsCalm ==
    ASSUME IInv, CalmFaults
    PROVE  Calm
  BY DEF IInv, StoreInv, TypeOK, CalmFaults, Calm, SameStepResume

\* The placeholder result of a step that a deferral interrupted never enters a history,
\* which lists the steps in order: recovery and the fan-ins evict it or merge it.
THEOREM NoPlaceholderInHistory ==
    ASSUME CrashFrom > 0, NoneIsNoAttempt, CalmFaults
    PROVE  Spec => []HistoryHasNoPlaceholder
  <1>1. IInv /\ RInv => HistoryHasNoPlaceholder
    <2> SUFFICES ASSUME IInv, RInv, NEW s \in heads, NEW k \in 1 .. Len(s.refs)
                 PROVE  s.refs[k].req.step = k - 1 /\ ~Placeholder(s.refs[k])
      BY DEF HistoryHasNoPlaceholder
    <2>1. Len(s.refs) = s.step
      BY DEF IInv, StoreInv, TypeOK, WorkState
    <2> QED
      BY <2>1, RunIsCalm DEF RInv, RecoveryInv, HeadsInv
  <1> QED
    BY <1>1, Invariance, RecoveryInvariance, PTL

\* When the run has completed, every evaluation a step deferred has a resolution: no
\* episode is lost between the step that opens it and the fan-in that closes it.
THEOREM EveryEvaluationResolved ==
    ASSUME CrashFrom > 0, NoneIsNoAttempt, CalmFaults
    PROVE  Spec => []NoEvaluationDropped
  <1>1. IInv /\ RInv => NoEvaluationDropped
    <2> SUFFICES ASSUME IInv, RInv, completed = "yes", NEW r \in DOMAIN checkpoint, checkpoint[r] = "defer"
                 PROVE  r \in resolved
      BY DEF NoEvaluationDropped
    <2>1. \A i \in DOMAIN ledger : ~Open(i)
      BY DEF RInv, RecoveryInv, FrontierInv, OpenInv
    <2> QED
      BY <2>1, RunIsCalm DEF RInv, RecoveryInv, EvaluationsInv
  <1> QED
    BY <1>1, Invariance, RecoveryInvariance, PTL

\* A head that a write binds is not behind any head before it.
LEMMA WriteAdvances ==
    ASSUME IInv, RInv, Calm, SameStepResume, Write, head' # None, head' # head, NEW h \in heads
    PROVE  h.stage <= head'.stage
  <1>0. PICK i, w : i = job.idx /\ w = Head(job.todo)
    OBVIOUS
  <1>1. RecoveryInv /\ AttemptInv /\ FrontierInv /\ WatermarkInv /\ job # None /\ job.todo # << >>
    BY DEF RInv, RecoveryInv, Write
  <1>2. w.op = "bindHead" /\ head' = w.to
    BY <1>0 DEF Write, WriteHead, WriteResult, WriteIntents, WriteCheckpoint, WriteResolution, WriteMember, store
  <1>3. h.stage \in Nat /\ \A x \in DOMAIN ledger : Open(x) => Reached(h, x)
    BY <1>1 DEF IInv, StoreInv, TypeOK, WorkState, WatermarkInv
  <1>4. CASE Open(i) /\ ledger[i].kind = "optim_step"
    <2>1. i \in Nat /\ i \in DOMAIN ledger /\ Rows \in Nat
      BY <1>1, <1>4, OpenState, ConstantsAssumption
    <2>2. \/ \E n \in 1 .. 9 : ParkingAt(i, n)
          \/ \E n \in 1 .. 7, out \in Output : AdvancingAt(i, n, out)
      BY <1>0, <1>1, <1>4 DEF AttemptInv
    <2>3. ASSUME NEW n \in 1 .. 9, ParkingAt(i, n) PROVE h.stage <= head'.stage
      <3>1. PICK p, last : p = Parking8(i) /\ last = 8
        OBVIOUS
      <3>2. job.todo = SubSeq(p, n, last)
        BY <2>3, <3>1 DEF ParkingAt
      <3>3. p \in Seq({p[m] : m \in 1 .. 8}) /\ Len(p) = 8
        BY <3>1 DEF Parking8
      <3>4. n <= last => w = p[n]
        BY <1>0, <3>1, <3>2, <3>3, Suffix, last \in 0 .. Len(p), n \in 1 .. last + 1
      <3>5. n = last + 1 => job.todo = << >>
        BY <3>1, <3>2, <3>3, Suffix, last \in 0 .. Len(p), n \in 1 .. last + 1
      <3>6. n \in 1 .. 8 /\ w = p[n]
        BY <1>1, <3>1, <3>4, <3>5
      <3>7. w.op = "bindHead" => n = 6 /\ w.to = ParkedAt(i)
        BY <3>1, <3>6 DEF Parking8
      <3>8. ParkedAt(i).stage = i + Rows + 1
        BY <1>1, <1>4, AskedFacts
      <3>9. h.stage <= i \/ h = ParkedAt(i)
        BY <1>2, <1>3, <1>4, <2>1, <2>3, <3>7 DEF Reached, ParkingAt
      <3> QED
        BY <1>2, <1>3, <2>1, <3>7, <3>8, <3>9
    <2>4. ASSUME NEW n \in 1 .. 7, NEW out \in Output, AdvancingAt(i, n, out) PROVE h.stage <= head'.stage
      <3>1. PICK p, last : p = Advancing6(i, Given(i, out)) /\ last = IF out = "stop" THEN 6 ELSE 5
        OBVIOUS
      <3>2. job.todo = SubSeq(p, n, last) /\ n <= last + 1 /\ last \in {5, 6}
        BY <2>4, <3>1 DEF AdvancingAt
      <3>3. p \in Seq({p[m] : m \in 1 .. 6}) /\ Len(p) = 6
        BY <3>1 DEF Advancing6
      <3>4. n <= last => w = p[n]
        BY <1>0, <3>2, <3>3, Suffix, last \in 0 .. Len(p), n \in 1 .. last + 1
      <3>5. n = last + 1 => job.todo = << >>
        BY <3>2, <3>3, Suffix, last \in 0 .. Len(p), n \in 1 .. last + 1
      <3>6. n \in 1 .. 6 /\ w = p[n]
        BY <1>1, <3>2, <3>4, <3>5
      <3>7. w.op = "bindHead" => n = 5 /\ w.to = AdvancedAt(i, Given(i, out))
        BY <3>1, <3>6 DEF Advancing6
      <3>8. AdvancedAt(i, Given(i, out)).stage = i + 1
        BY <1>1, <1>4, AskedFacts
      <3>9. Asked(i) \in DOMAIN checkpoint /\ checkpoint[Asked(i)] = out /\ out # "defer"
        BY <1>2, <2>4, <3>7 DEF AdvancingAt
      <3>10. h.stage <= i \/ h = AdvancedAt(i, Given(i, out))
        BY <1>3, <1>4, <2>1, <3>9 DEF Reached
      <3> QED
        BY <1>2, <1>3, <2>1, <3>7, <3>8, <3>10
    <2> QED
      BY <2>2, <2>3, <2>4
  <1>5. ASSUME NEW ws, NEW s, NEW n \in 1 .. 5, job.todo = SubSeq(Resuming4(ws, s), n, 4) PROVE head' = s
    <2>1. PICK p, last : p = Resuming4(ws, s) /\ last = 4
      OBVIOUS
    <2>2. job.todo = SubSeq(p, n, last)
      BY <1>5, <2>1
    <2>3. p \in Seq({p[m] : m \in 1 .. 4}) /\ Len(p) = 4
      BY <2>1 DEF Resuming4
    <2>4. n <= last => w = p[n]
      BY <1>0, <2>1, <2>2, <2>3, Suffix, last \in 0 .. Len(p), n \in 1 .. last + 1
    <2>5. n = last + 1 => job.todo = << >>
      BY <2>1, <2>2, <2>3, Suffix, last \in 0 .. Len(p), n \in 1 .. last + 1
    <2>6. n \in 1 .. 4 /\ w = p[n]
      BY <1>1, <2>1, <2>4, <2>5
    <2>7. w.op = "bindHead" => w.to = s
      BY <2>1, <2>6 DEF Resuming4
    <2> QED
      BY <1>2, <2>7
  <1>6. CASE Open(i) /\ ledger[i].kind = "eval_fanin"
    <2>1. /\ i \in DOMAIN ledger /\ ledger[i].input.stage = i
          /\ StateInv(ledger[i].input) /\ ledger[i].input.pend # None
      BY <1>1, <1>6, OpenState
    <2>2. PICK n \in 1 .. 6 : FanningAt(i, n)
      BY <1>0, <1>1, <1>6 DEF AttemptInv
    <2>3. n \in 1 .. 5 /\ job.todo = SubSeq(Resuming4(ledger[i].input, Outcome(ledger[i].input)), n, 4)
      BY <2>2 DEF FanningAt
    <2>4. head' = Outcome(ledger[i].input)
      BY <1>5, <2>3
    <2>5. Outcome(ledger[i].input).stage = i + 1
      BY <2>1, OutcomeFacts
    <2>6. h.stage <= i + 1
      BY <1>3, <1>6, <2>1 DEF Reached
    <2> QED
      BY <2>4, <2>5, <2>6
  <1>7. CASE DoneFanin(i)
    <2>1. PICK n \in 1 .. 6 : RepeatingAt(i, n)
      BY <1>0, <1>1, <1>7 DEF AttemptInv, DoneFanin
    <2>2. CASE n <= 2 /\ job.todo = SubSeq(<< [op |-> "resolve", req |-> ledger[i].input.intents] >>, n, 1)
      <3>1. PICK p, last : p = << [op |-> "resolve", req |-> ledger[i].input.intents] >> /\ last = 1
        OBVIOUS
      <3>2. job.todo = SubSeq(p, n, last) /\ n <= last + 1
        BY <2>2, <3>1
      <3>3. p \in Seq({p[m] : m \in 1 .. 1}) /\ Len(p) = 1
        BY <3>1
      <3>4. n <= last => w = p[n]
        BY <1>0, <3>1, <3>2, <3>3, Suffix, last \in 0 .. Len(p), n \in 1 .. last + 1
      <3>5. n = last + 1 => job.todo = << >>
        BY <3>1, <3>2, <3>3, Suffix, last \in 0 .. Len(p), n \in 1 .. last + 1
      <3>6. w = [op |-> "resolve", req |-> ledger[i].input.intents]
        BY <1>1, <2>2, <3>1, <3>4, <3>5
      <3> QED
        BY <1>2, <3>6
    <2>3. CASE \E s \in WorkState :
            RepeatedState(i, s) /\ n <= 5 /\ job.todo = SubSeq(Resuming4(ledger[i].input, s), n, 4)
      <3>1. PICK s \in WorkState :
                RepeatedState(i, s) /\ n <= 5 /\ job.todo = SubSeq(Resuming4(ledger[i].input, s), n, 4)
        BY <2>3
      <3>2. head' = s
        BY <1>5, <3>1, n \in 1 .. 5
      <3> QED
        BY <3>1, <3>2 DEF RepeatedState, Top
    <2> QED
      BY <2>1, <2>2, <2>3 DEF RepeatingAt
  <1>8. (Open(i) /\ ledger[i].kind \in {"optim_step", "eval_fanin"}) \/ DoneFanin(i)
    BY <1>0, <1>1, AttemptAt
  <1> QED
    BY <1>4, <1>6, <1>7, <1>8

\* The watermark by which GEPA's fan-ins order episodes never goes back: no write of a
\* stage, retried or repeated, binds a head of an earlier stage than any before it.
THEOREM WatermarkOnlyAdvances ==
    ASSUME CrashFrom > 0, NoneIsNoAttempt, CalmFaults
    PROVE  Spec => HeadOnlyAdvances
  <1> DEFINE Advances == SameStepResume /\ head' # None /\ head' # head => \A s \in heads : s.stage <= head'.stage
  <1>1. IInv /\ RInv /\ [Next]_vars => [Advances]_vars
    <2> SUFFICES ASSUME IInv, RInv, [Next]_vars PROVE Advances
      OBVIOUS
    <2>1. CASE UNCHANGED head
      BY <2>1
    <2>2. CASE Write
      BY <2>2, RunIsCalm, WriteAdvances
    <2>3. CASE Next /\ ~Write
      BY <2>1, <2>3 DEF Next, Progress, Deliver, EvalRow, Complete, RunCompletion, Redeliver, Crash, Done,
                        store, vars
    <2> QED
      BY <2>1, <2>2, <2>3 DEF vars, store
  <1> QED
    BY <1>1, Invariance, RecoveryInvariance, PTL DEF Spec, HeadOnlyAdvances
=============================================================================
