--------------------------- MODULE CodexStepProofs ---------------------------
(***************************************************************************)
(* Safety of the tool-using step for every set of attempts, server threads *)
(* and calls, every capacity and every report of the agent: capacity,      *)
(* the one answer of a call, and the accounting of what was paid for.      *)
(***************************************************************************)
EXTENDS CodexStep, FiniteSetTheorems, FunctionTheorems, TLAPS

-----------------------------------------------------------------------------
(* The inductive invariant.                                                *)

Active == {"acquire", "evaluate", "publish", "complete"}

\* A call, its effect and what the ledger recorded of it.
CallInv(c) ==
    /\ entries[c].ordinal # 0 <=> entries[c].state \in {"accepted", "completed"}
    /\ entries[c].state = "refused" => entries[c].result # None
    /\ entries[c].state = "completed" =>
           effect[c].status = "settled" /\ entries[c].result = effect[c].result
    /\ effect[c].status = "settled" => effect[c].result # None
    /\ effect[c].status = "free" => effect[c].fence = 0
    /\ effect[c].status = "held" /\ effect[c].lapsed => effect[c].fence < MaxFence
    /\ terminals[c] # None =>
           entries[c].state \in {"refused", "completed"} /\ terminals[c] = entries[c].result

\* The execution of a call.  Attempts never execute one.
ExecInv(w) ==
    LET r == exec[w]
    IN  /\ r.pc # "idle" => r.call \in Calls
        /\ r.pc \in Active => entries[r.call].state \in {"accepted", "completed"}
        /\ r.pc = "evaluate" => r.fence # 0
        /\ r.pc = "publish" => r.result # None
        /\ r.pc = "complete" => effect[r.call].status = "settled"
        /\ w \in Attempts => r.pc = "idle"

\* Ordinals are those of distinct calls, and dense.
CapacityInv ==
    /\ IsFiniteSet(Admitted)
    /\ \A c, d \in Admitted : entries[c].ordinal = entries[d].ordinal => c = d
    /\ CapacityIsDense

\* No agent can reach the server: nothing is admitted any more.
Quiet == ~(host # None /\ att[host].pc \in {"agent", "join"})

QuietInv ==
    Quiet => \A w \in Workers : exec[w].pc \in {"idle", "evaluate", "publish", "complete"}

\* An output that accounts for everything that was admitted.
Accounted(output) ==
    /\ output \in Output
    /\ Admitted \subseteq ToSet(slots) \cup output.interrupted
    /\ output.status = "complete" =>
        /\ ToSet(slots) = Admitted
        /\ Admitted \subseteq InState("completed")
        /\ Len(slots) = consumed
        /\ output.selected # None =>
               /\ entries[output.selected].state = "completed"
               /\ entries[output.selected].result.kind = "scored"

\* Before the adapter is invoked nothing is issued; once it is settled its output and
\* the ledger are final.
LeaseInv ==
    /\ lease.status = "free" => host = None /\ slots = << >>
    /\ lease.status = "settled" => Accounted(lease.output) /\ lease.output.debit = Len(slots)
    /\ bound # None =>
        lease.status = "settled" /\ bound.output = lease.output /\ bound.evidence = slots
    /\ NoStrandedLease

\* What an attempt has issued: each call once, completed, with its answer recorded.
IssuedInv(a) ==
    LET r == att[a]
    IN  /\ IsInjective(r.issued)
        /\ \A c \in ToSet(r.issued) : entries[c].state = "completed" /\ terminals[c] # None
        /\ IF r.pc = "record"
           THEN r.todo # << >> /\ slots = Append(r.issued, Head(r.todo))
           ELSE slots = r.issued

\* What it still has to issue, from the report or for the reconciliation.
TodoInv(a) ==
    LET r == att[a]
        reporting == r.pc \in {"report", "select"} \cup {"issue", "record"} /\ r.phase = "report"
    IN  /\ r.pc \in {"count", "report", "select"} => r.phase = "report"
        /\ reporting => r.count = consumed
        /\ r.pc = "select" => r.count <= Len(r.issued)
        /\ r.pc \in {"issue", "record"} /\ r.phase = "report" =>
            /\ r.todo # << >>
            /\ Head(r.todo) \notin ToSet(r.issued)
            /\ entries[Head(r.todo)].state = "completed"
        /\ r.pc \in {"issue", "record"} /\ r.phase = "reconcile" =>
            /\ IsInjective(r.todo)
            /\ \A c \in ToSet(r.todo) : entries[c].state = "completed" /\ c \notin ToSet(r.issued)
            /\ r.output \in Output /\ r.output.status = "failed"
            /\ Admitted \subseteq ToSet(r.issued) \cup ToSet(r.todo) \cup r.output.interrupted

\* An attempt at run_step.
AttemptInv(a) ==
    LET r == att[a]
    IN  /\ r.pc \in {"idle", "acquire", "agent", "join"} => r.issued = << >>
        /\ r.pc \in {"idle", "acquire", "agent"} => r.phase = "report"
        /\ r.pc \in Invoking =>
            /\ host = a /\ lease.status \in {"held", "recovery"}
            /\ IssuedInv(a) /\ TodoInv(a)
        /\ r.pc \in {"checkpoint", "settle"} => Accounted(r.output)
        /\ r.pc = "settle" => r.output.debit = Len(slots)
        /\ r.pc \in {"finish", "bind"} => lease.status = "settled" /\ r.output = lease.output
        /\ r.pc = "bind" => r.evidence = slots

IInv ==
    /\ TypeOK
    /\ \A c \in Calls : CallInv(c)
    /\ \A w \in Workers : ExecInv(w)
    /\ CapacityInv
    /\ QuietInv
    /\ LeaseInv
    /\ \A a \in Attempts : AttemptInv(a)

-----------------------------------------------------------------------------
(* Sequences without repetition.                                           *)

\* Appending a new call to a sequence of distinct calls.
LEMMA AppendDistinct ==
    ASSUME NEW S, NEW s \in Seq(S), NEW x \in S
    PROVE  /\ Append(s, x) \in Seq(S)
           /\ ToSet(Append(s, x)) = ToSet(s) \cup {x}
           /\ IsInjective(s) /\ x \notin ToSet(s) => IsInjective(Append(s, x))
  <1>1. /\ Append(s, x) \in Seq(S) /\ Len(s) \in Nat /\ DOMAIN s = 1 .. Len(s)
        /\ DOMAIN Append(s, x) = 1 .. (Len(s) + 1)
        /\ \A i \in 1 .. Len(s) : Append(s, x)[i] = s[i]
        /\ Append(s, x)[Len(s) + 1] = x
    OBVIOUS
  <1>2. ToSet(Append(s, x)) = ToSet(s) \cup {x}
    BY <1>1 DEF ToSet
  <1>3. IsInjective(s) /\ x \notin ToSet(s) => IsInjective(Append(s, x))
    BY <1>1 DEF ToSet, IsInjective
  <1> QED
    BY <1>1, <1>2, <1>3

\* Taking the first call off a sequence of distinct calls.
LEMMA TailDistinct ==
    ASSUME NEW S, NEW s \in Seq(S), s # << >>
    PROVE  /\ Head(s) \in S /\ Head(s) \in ToSet(s) /\ Tail(s) \in Seq(S)
           /\ ToSet(s) = {Head(s)} \cup ToSet(Tail(s))
           /\ IsInjective(s) => IsInjective(Tail(s)) /\ Head(s) \notin ToSet(Tail(s))
  <1>1. /\ Len(s) \in Nat \ {0} /\ DOMAIN s = 1 .. Len(s) /\ \A i \in 1 .. Len(s) : s[i] \in S
        /\ Tail(s) \in Seq(S) /\ Len(Tail(s)) = Len(s) - 1
        /\ DOMAIN Tail(s) = 1 .. (Len(s) - 1)
        /\ \A i \in 1 .. (Len(s) - 1) : Tail(s)[i] = s[i + 1]
        /\ Head(s) = s[1]
    OBVIOUS
  <1>2. Head(s) \in S /\ Head(s) \in ToSet(s)
    BY <1>1 DEF ToSet
  <1>3. ToSet(s) = {Head(s)} \cup ToSet(Tail(s))
    <2>1. ASSUME NEW i \in 1 .. Len(s), i # 1 PROVE i - 1 \in 1 .. (Len(s) - 1) /\ Tail(s)[i - 1] = s[i]
      BY <1>1, <2>1
    <2>2. ASSUME NEW i \in 1 .. (Len(s) - 1) PROVE i + 1 \in 1 .. Len(s) /\ Tail(s)[i] = s[i + 1]
      BY <1>1, <2>2
    <2>3. ASSUME NEW x \in ToSet(s), x # Head(s) PROVE x \in ToSet(Tail(s))
      <3>1. PICK i \in 1 .. Len(s) : x = s[i]
        BY <1>1 DEF ToSet
      <3>2. i # 1
        BY <1>1, <2>3, <3>1
      <3>3. i - 1 \in DOMAIN Tail(s) /\ Tail(s)[i - 1] = x
        BY <1>1, <2>1, <3>1, <3>2
      <3> QED
        BY <3>3 DEF ToSet
    <2>4. \A x \in {Head(s)} \cup ToSet(Tail(s)) : x \in ToSet(s)
      BY <1>1, <1>2, <2>2 DEF ToSet
    <2> QED
      BY <2>3, <2>4
  <1>4. IsInjective(s) => IsInjective(Tail(s)) /\ Head(s) \notin ToSet(Tail(s))
    BY <1>1 DEF ToSet, IsInjective
  <1> QED
    BY <1>1, <1>2, <1>3, <1>4

\* A sequence of distinct calls is as long as it has calls.
LEMMA DistinctLength ==
    ASSUME NEW S, NEW s \in Seq(S), IsInjective(s)
    PROVE  IsFiniteSet(ToSet(s)) /\ Cardinality(ToSet(s)) = Len(s)
  <1>1. Len(s) \in Nat /\ DOMAIN s = 1 .. Len(s) /\ s \in [1 .. Len(s) -> ToSet(s)]
    BY DEF ToSet
  <1>2. s \in Bijection(1 .. Len(s), ToSet(s))
    BY <1>1, Fun_IsBij DEF ToSet, IsInjective
  <1>3. IsFiniteSet(1 .. Len(s)) /\ Cardinality(1 .. Len(s)) = Len(s)
    BY <1>1, FS_Interval
  <1> QED
    BY <1>2, <1>3, FS_Bijection DEF ExistsBijection

\* InDebitOrder lists each member of a finite set of admitted calls once.
LEMMA DebitOrder ==
    ASSUME NEW S \in SUBSET Calls, IsFiniteSet(S),
           \A c \in S : entries[c].ordinal \in Nat,
           \A c, d \in S : entries[c].ordinal = entries[d].ordinal => c = d
    PROVE  /\ InDebitOrder(S) \in Seq(Calls)
           /\ ToSet(InDebitOrder(S)) = S
           /\ IsInjective(InDebitOrder(S))
  <1> DEFINE Ord(c) == entries[c].ordinal
             Below(c) == {d \in S : Ord(d) <= Ord(c)}
             n == Cardinality(S)
             rank == [c \in S |-> Cardinality(Below(c))]
             Sorted(s) == \A i, j \in DOMAIN s : i < j => Ord(s[i]) < Ord(s[j])
  <1>1. n \in Nat
    BY FS_CardinalityType
  <1>2. ASSUME NEW c \in S PROVE IsFiniteSet(Below(c)) /\ Cardinality(Below(c)) \in 1 .. n
    <2>1. Below(c) \in SUBSET S /\ c \in Below(c)
      OBVIOUS
    <2>2. IsFiniteSet(Below(c)) /\ Cardinality(Below(c)) <= n
      BY <2>1, FS_Subset
    <2>3. Cardinality(Below(c)) \in Nat /\ Cardinality(Below(c)) # 0
      BY <2>1, <2>2, FS_CardinalityType, FS_EmptySet
    <2> QED
      BY <1>1, <2>2, <2>3
  <1>3. ASSUME NEW c \in S, NEW d \in S, Ord(c) < Ord(d) PROVE rank[c] < rank[d]
    <2>1. Below(c) \in SUBSET Below(d) /\ d \in Below(d) /\ d \notin Below(c)
      BY <1>3
    <2>2. Cardinality(Below(c)) <= Cardinality(Below(d)) /\ Cardinality(Below(c)) # Cardinality(Below(d))
      BY <1>2, <2>1, FS_Subset
    <2>3. Cardinality(Below(c)) \in Nat /\ Cardinality(Below(d)) \in Nat
      BY <1>2, FS_CardinalityType
    <2> QED
      BY <2>2, <2>3
  <1>4. rank \in [S -> 1 .. n]
    BY <1>2
  <1>5. \A c, d \in S : rank[c] = rank[d] => c = d
    <2>1. ASSUME NEW c \in S, NEW d \in S, c # d PROVE rank[c] # rank[d]
      <3>1. Ord(c) < Ord(d) \/ Ord(d) < Ord(c)
        BY <2>1
      <3>2. rank[c] \in Nat /\ rank[d] \in Nat
        BY <1>1, <1>4
      <3> HIDE DEF rank, Ord
      <3> QED
        BY <1>3, <3>1, <3>2
    <2> QED
      BY <2>1
  <1> HIDE DEF rank
  <1>6. \A i \in 1 .. n : \E c \in S : rank[c] = i
    <2>1. rank \in Injection(S, 1 .. n)
      BY <1>4, <1>5, Fun_IsInj
    <2>2. IsFiniteSet(1 .. n) /\ Cardinality(1 .. n) = n
      BY <1>1, FS_Interval
    <2>3. rank \in Surjection(S, 1 .. n)
      BY <2>1, <2>2, FS_Injection
    <2> QED
      BY <2>3 DEF Surjection
  <1>7. PICK s \in [1 .. n -> S] : \A i \in 1 .. n : rank[s[i]] = i
    <2> DEFINE s == [i \in 1 .. n |-> CHOOSE c \in S : rank[c] = i]
    <2>1. \A i \in 1 .. n : s[i] \in S /\ rank[s[i]] = i
      BY <1>6
    <2>2. s \in [1 .. n -> S]
      BY <2>1
    <2> HIDE DEF s
    <2> QED
      BY <2>1, <2>2
  <1>8. Sorted(s)
    <2>1. ASSUME NEW i \in 1 .. n, NEW j \in 1 .. n, i < j PROVE Ord(s[i]) < Ord(s[j])
      <3>1. s[i] \in S /\ s[j] \in S /\ rank[s[i]] = i /\ rank[s[j]] = j
        BY <1>7
      <3>2. ~(Ord(s[j]) < Ord(s[i]))
        BY <1>1, <1>3, <2>1, <3>1
      <3>3. s[i] # s[j]
        BY <2>1, <3>1
      <3> QED
        BY <3>1, <3>2, <3>3
    <2> QED
      BY <2>1
  <1> DEFINE t == InDebitOrder(S)
  <1>9. t \in [1 .. n -> S] /\ Sorted(t)
    BY <1>8 DEF InDebitOrder
  <1> HIDE DEF t
  <1>10. \A i, j \in 1 .. n : t[i] = t[j] => i = j
    <2>1. ASSUME NEW i \in 1 .. n, NEW j \in 1 .. n, i # j PROVE t[i] # t[j]
      <3>1. (i < j \/ j < i) /\ t[i] \in S /\ t[j] \in S
        BY <1>9, <2>1
      <3>2. Ord(t[i]) < Ord(t[j]) \/ Ord(t[j]) < Ord(t[i])
        BY <1>9, <3>1
      <3> QED
        BY <3>1, <3>2
    <2> QED
      BY <2>1
  <1>11. t \in Surjection(1 .. n, S)
    <2>1. t \in Injection(1 .. n, S)
      BY <1>9, <1>10, Fun_IsInj
    <2>2. Cardinality(1 .. n) = n
      BY <1>1, FS_Interval
    <2> QED
      BY <2>1, <2>2, FS_Injection
  <1>12. ToSet(t) = S
    BY <1>9, <1>11 DEF ToSet, Surjection
  <1>13. t \in Seq(Calls) /\ IsInjective(t)
    BY <1>1, <1>9, <1>10 DEF IsInjective
  <1> QED
    BY <1>12, <1>13 DEF t

-----------------------------------------------------------------------------
(* What a step of the executor leaves as it was.                           *)

Lingering == {"idle", "evaluate", "publish", "complete"}

\* Answers and settled effects are final, an accepted call stays accepted until it is
\* completed, and when no agent is there nothing is admitted.
Steady ==
    /\ \A c \in Calls :
        /\ entries[c].state \in {"refused", "completed"} => entries'[c] = entries[c]
        /\ entries[c].state = "accepted" => entries'[c].state \in {"accepted", "completed"}
        /\ effect[c].status = "settled" => effect'[c] = effect[c]
    /\ Quiet => consumed' = consumed /\ \A c \in Calls : entries'[c].ordinal = entries[c].ordinal

\* While an attempt is past the agent, or the invocation is settled, no agent is there.
LEMMA QuietWhen ==
    ASSUME IInv
    PROVE  /\ lease.status = "settled" => Quiet
           /\ \A a \in Attempts : att[a].pc \in Invoking \ {"agent", "join"} => Quiet
  <1>1. host \in Attempts \cup {None} /\ \A a \in Attempts : AttemptInv(a)
    BY DEF IInv, TypeOK
  <1> QED
    BY <1>1 DEF Quiet, AttemptInv, Invoking

\* An output that accounts for everything goes on doing so.
LEMMA AccountedStays ==
    ASSUME IInv, TypeOK', Steady, Quiet, UNCHANGED slots, NEW output, Accounted(output)
    PROVE  Accounted(output)'
  <1>1. Admitted' = Admitted /\ consumed' = consumed
    BY DEF Steady, Admitted
  <1>2. output.selected # None => output.selected \in Calls
    BY DEF Accounted, Output
  <1>3. InState("completed") \subseteq InState("completed")'
    BY DEF Steady, InState
  <1> QED
    BY <1>1, <1>2, <1>3 DEF Accounted, Steady

\* A step of the executor from what it does to the store and to the worker.
LEMMA ExecutorStep ==
    ASSUME IInv, TypeOK', Steady, UNCHANGED <<ledger, lease, host, att, bound>>,
           \A c \in Calls : CallInv(c)', CapacityInv',
           \A w \in Workers : \/ exec'[w] = exec[w]
                              \/ ExecInv(w)' /\ (Quiet => exec'[w].pc \in Lingering)
    PROVE  IInv'
  <1>1. Quiet' = Quiet /\ slots' = slots /\ terminals' = terminals
    BY DEF Quiet, ledger
  <1>2. ASSUME NEW w \in Workers, exec'[w] = exec[w] PROVE ExecInv(w)'
    BY <1>2 DEF IInv, ExecInv, Steady, Active
  <1>3. QuietInv'
    BY <1>1 DEF IInv, QuietInv, Lingering
  <1>4. ASSUME NEW output, Accounted(output), Quiet PROVE Accounted(output)'
    BY <1>1, <1>4, AccountedStays
  <1>5. LeaseInv'
    <2>1. lease.status = "settled" => Accounted(lease.output)'
      <3>1. PICK output : output = lease.output
        OBVIOUS
      <3>2. lease.status = "settled" => Accounted(output)'
        BY <1>4, <3>1, QuietWhen DEF IInv, LeaseInv
      <3> QED
        BY <3>1, <3>2 DEF Accounted
    <2> QED
      BY <1>1, <2>1 DEF IInv, LeaseInv, NoStrandedLease
  <1>6. ASSUME NEW a \in Attempts PROVE AttemptInv(a)'
    <2>1. AttemptInv(a)
      BY DEF IInv
    <2>2. PICK r \in Progress : r = att[a] /\ r = att'[a]
      BY DEF IInv, TypeOK
    <2>3. ASSUME r.pc \in Invoking PROVE IssuedInv(a)'
      <3>1. IssuedInv(a)
        BY <2>1, <2>2, <2>3 DEF AttemptInv
      <3>2. ToSet(r.issued) \subseteq Calls
        BY DEF Progress, ToSet
      <3> QED
        BY <1>1, <2>2, <3>1, <3>2 DEF IssuedInv, Steady
    <2>4. ASSUME r.pc \in Invoking PROVE TodoInv(a)'
      <3>1. TodoInv(a)
        BY <2>1, <2>2, <2>4 DEF AttemptInv
      <3>2. r.pc \in {"agent", "join"} \/ Quiet
        BY <2>2, <2>4, QuietWhen
      <3>3. CASE r.pc \in {"agent", "join"}
        BY <2>2, <3>3 DEF TodoInv
      <3>4. CASE Quiet
        <4>1. Admitted' = Admitted /\ consumed' = consumed
          BY <3>4 DEF Steady, Admitted
        <4>2. r.todo # << >> => Head(r.todo) \in Calls
          BY DEF Progress
        <4>3. ToSet(r.todo) \subseteq Calls
          BY DEF Progress, ToSet
        <4> QED
          BY <2>2, <3>1, <4>1, <4>2, <4>3 DEF TodoInv, Steady
      <3> QED
        BY <3>2, <3>3, <3>4
    <2>5. r.pc \in {"checkpoint", "settle"} => Accounted(r.output)'
      BY <1>4, <2>1, <2>2, QuietWhen DEF AttemptInv, Invoking
    <2>6. r.pc \in {"checkpoint", "settle"} => Accounted(att[a].output)'
      BY <2>2, <2>5 DEF Accounted
    <2> QED
      BY <1>1, <2>1, <2>2, <2>3, <2>4, <2>6 DEF AttemptInv
  <1> QED
    BY <1>2, <1>3, <1>5, <1>6 DEF IInv

\* Capacity is untouched when no ordinal changes.
LEMMA CapacityKept ==
    ASSUME IInv, consumed' = consumed, \A c \in Calls : entries'[c].ordinal = entries[c].ordinal
    PROVE  CapacityInv'
  <1>1. Admitted' = Admitted
    BY DEF Admitted
  <1>2. {entries[c].ordinal : c \in Admitted}' = {entries[c].ordinal : c \in Admitted}
    BY <1>1 DEF Admitted
  <1> QED
    BY <1>1, <1>2 DEF IInv, CapacityInv, CapacityIsDense, Admitted

\* A step that changes nothing but the worker's execution.
LEMMA WorkerStep ==
    ASSUME IInv, NEW w \in Workers, NEW r \in Execution, exec' = [exec EXCEPT ![w] = r],
           UNCHANGED <<toolStore, ledger, lease, host, att, bound, crashes>>,
           ExecInv(w)', Quiet => r.pc \in Lingering
    PROVE  IInv'
  <1>1. TypeOK' /\ exec'[w] = r /\ \A v \in Workers \ {w} : exec'[v] = exec[v]
    BY DEF IInv, TypeOK, toolStore, ledger
  <1>2. \A c \in Calls : CallInv(c)'
    BY DEF IInv, CallInv, toolStore, ledger
  <1>3. CapacityInv' /\ Steady
    BY CapacityKept DEF Steady, toolStore
  <1> QED
    BY <1>1, <1>2, <1>3, ExecutorStep

\* A worker that has come back owes nothing.
LEMMA RestingInv ==
    /\ Resting \in Execution /\ Resting.pc \in Lingering
    /\ \A w \in Workers : exec'[w] = Resting => ExecInv(w)'
  BY ConstantsAssumption DEF Resting, ExecInv, Active, Execution, Lingering

-----------------------------------------------------------------------------
(* Steps of the executor.                                                  *)

\* A call that has no entry has no recorded answer.
LEMMA NoEntryNoTerminal ==
    ASSUME IInv, NEW c \in Calls, entries[c].state \in {"none", "accepted"}
    PROVE  terminals[c] = None
  BY DEF IInv, CallInv

\* A call that fails validation is refused, unless it was decided meanwhile.
LEMMA RefuseInvariant ==
    ASSUME IInv, NEW w \in Workers, Refuse(w)
    PROVE  IInv'
  <1>a. PICK c \in Calls : c = exec[w].call
    BY DEF IInv, Refuse, At, ExecInv
  <1>b. PICK new \in Entry : new = [state |-> "refused", ordinal |-> 0, result |-> [kind |-> "validation"]]
    <2>1. [kind |-> "validation"] \in ToolResult /\ 0 \in 0 .. MaxToolCalls
      BY ConstantsAssumption DEF ToolResult, Refusal
    <2> QED
      BY <2>1 DEF Entry
  <1>1. /\ TypeOK /\ exec[w].pc = "refuse" /\ ~Quiet /\ CallInv(c) /\ exec' = [exec EXCEPT ![w] = Resting]
        /\ UNCHANGED <<consumed, effect, ledger, lease, host, att, bound, crashes>>
    BY DEF IInv, Refuse, At, QuietInv, Return
  <1>2. exec' \in [Workers -> Execution] /\ exec'[w] = Resting /\ \A v \in Workers \ {w} : exec'[v] = exec[v]
    BY <1>1, RestingInv DEF TypeOK
  <1>3. CASE entries[c].state # "none"
    <2>1. entries' = entries
      BY <1>3, <1>a DEF Refuse
    <2> QED
      BY <1>1, <1>2, <2>1, RestingInv, WorkerStep DEF toolStore
  <1>4. CASE entries[c].state = "none"
    <2>1. entries' = [entries EXCEPT ![c] = new]
      BY <1>4, <1>a, <1>b DEF Refuse
    <2>2. entries'[c] = new /\ \A d \in Calls \ {c} : entries'[d] = entries[d]
      BY <1>1, <2>1 DEF TypeOK
    <2>3. TypeOK'
      BY <1>1, <1>2, <2>1 DEF TypeOK, ledger
    <2>4. /\ new.state = "refused" /\ new.ordinal = 0 /\ new.result # None
          /\ entries[c].ordinal = 0 /\ terminals[c] = None
      <3>1. new.result \in Refusal
        BY <1>b DEF Refusal
      <3>2. new.result # None
        BY <3>1, ConstantsAssumption DEF ToolResult
      <3> QED
        BY <1>1, <1>4, <1>b, <3>2 DEF CallInv
    <2>5. \A d \in Calls : CallInv(d)'
      BY <1>1, <2>2, <2>4 DEF IInv, CallInv, ledger
    <2>6. CapacityInv'
      BY <1>1, <2>2, <2>4, CapacityKept
    <2>7. Steady
      BY <1>1, <1>4, <2>2 DEF Steady
    <2> QED
      BY <1>1, <1>2, <2>3, <2>5, <2>6, <2>7, RestingInv, ExecutorStep
  <1> QED
    BY <1>3, <1>4

\* Capacity is debited by one, for a call that had no entry.
LEMMA CapacityDebited ==
    ASSUME IInv, NEW c \in Calls, entries[c].ordinal = 0, consumed < MaxToolCalls,
           consumed' = consumed + 1, entries'[c].ordinal = consumed + 1,
           \A d \in Calls \ {c} : entries'[d].ordinal = entries[d].ordinal
    PROVE  CapacityInv'
  <1>1. /\ consumed \in Nat /\ MaxToolCalls \in Nat /\ IsFiniteSet(Admitted)
        /\ consumed = Cardinality(Admitted) /\ {entries[d].ordinal : d \in Admitted} = 1 .. consumed
        /\ \A d, e \in Admitted : entries[d].ordinal = entries[e].ordinal => d = e
    BY ConstantsAssumption DEF IInv, TypeOK, CapacityInv, CapacityIsDense
  <1>2. Admitted' = Admitted \cup {c} /\ c \notin Admitted
    BY <1>1 DEF Admitted
  <1>3. IsFiniteSet(Admitted') /\ Cardinality(Admitted') = consumed + 1
    BY <1>1, <1>2, FS_AddElement
  <1>4. \A d \in Admitted : entries'[d].ordinal = entries[d].ordinal /\ entries[d].ordinal \in 1 .. consumed
    BY <1>1, <1>2 DEF Admitted
  <1>5. \A d, e \in Admitted' : entries'[d].ordinal = entries'[e].ordinal => d = e
    BY <1>1, <1>2, <1>4
  <1>6. {entries'[d].ordinal : d \in Admitted'} = 1 .. (consumed + 1)
    <2>1. \A d \in Admitted' : entries'[d].ordinal \in 1 .. (consumed + 1)
      BY <1>1, <1>2, <1>4
    <2>2. ASSUME NEW n \in 1 .. (consumed + 1) PROVE \E d \in Admitted' : entries'[d].ordinal = n
      <3>1. CASE n = consumed + 1
        BY <1>2, <3>1
      <3>2. CASE n # consumed + 1
        <4>1. n \in 1 .. consumed
          BY <1>1, <3>2
        <4>2. PICK d \in Admitted : entries[d].ordinal = n
          BY <1>1, <4>1
        <4> QED
          BY <1>2, <1>4, <4>2
      <3> QED
        BY <3>1, <3>2
    <2> QED
      BY <2>1, <2>2
  <1> QED
    BY <1>1, <1>3, <1>5, <1>6 DEF CapacityInv, CapacityIsDense

\* Admission: one transaction replays the entry, debits capacity or refuses.
LEMMA AdmitInvariant ==
    ASSUME IInv, NEW w \in Workers, Admit(w)
    PROVE  IInv'
  <1>a. PICK c \in Calls : c = exec[w].call
    BY DEF IInv, Admit, At, ExecInv
  <1>b. PICK new : new = IF entries[c].state = "none" THEN Decision ELSE entries[c]
    OBVIOUS
  <1>1. /\ TypeOK /\ exec[w] \in Execution /\ exec[w].pc = "admit" /\ ~Quiet /\ CallInv(c) /\ ExecInv(w)
        /\ entries[c] \in Entry /\ consumed \in 0 .. MaxToolCalls /\ MaxToolCalls \in Nat
        /\ entries' = [entries EXCEPT ![c] = new]
        /\ consumed' = IF entries[c].state = "none" /\ new.state = "accepted" THEN new.ordinal ELSE consumed
        /\ IF new.state = "refused" THEN Return(w) ELSE Goto(w, "acquire")
        /\ UNCHANGED <<effect, ledger, lease, host, att, bound, crashes>>
    BY <1>a, <1>b, ConstantsAssumption DEF IInv, TypeOK, Admit, At, QuietInv
  <1>2. \/ entries[c].state # "none" /\ new = entries[c]
        \/ /\ entries[c].state = "none" /\ consumed < MaxToolCalls
           /\ new = [state |-> "accepted", ordinal |-> consumed + 1, result |-> None]
        \/ /\ entries[c].state = "none" /\ new = [state |-> "refused", ordinal |-> 0,
                                                  result |-> [kind |-> "capacity"]]
    BY <1>b DEF Decision
  <1>3. /\ new \in Entry
        /\ new.ordinal # 0 <=> new.state \in {"accepted", "completed"}
        /\ new.state # "none"
        /\ new.state = "refused" => new.result # None
        /\ new.state = "completed" => new = entries[c]
        /\ entries[c].state # "none" => new = entries[c]
    <2>1. [kind |-> "capacity"] \in ToolResult /\ [kind |-> "capacity"] # None
      BY ConstantsAssumption DEF ToolResult, Refusal
    <2>2. CASE entries[c].state # "none" /\ new = entries[c]
      BY <1>1, <2>2 DEF CallInv
    <2>3. CASE /\ entries[c].state = "none" /\ consumed < MaxToolCalls
               /\ new = [state |-> "accepted", ordinal |-> consumed + 1, result |-> None]
      <3>1. consumed + 1 \in 0 .. MaxToolCalls /\ consumed + 1 # 0
        BY <1>1, <2>3
      <3> QED
        BY <2>3, <3>1 DEF Entry
    <2>4. CASE /\ entries[c].state = "none" /\ new = [state |-> "refused", ordinal |-> 0,
                                                      result |-> [kind |-> "capacity"]]
      BY <1>1, <2>1, <2>4 DEF Entry
    <2> QED
      BY <1>2, <2>2, <2>3, <2>4
  <1>4. entries'[c] = new /\ \A d \in Calls \ {c} : entries'[d] = entries[d]
    BY <1>1 DEF TypeOK
  <1>5. PICK r \in Execution : /\ exec' = [exec EXCEPT ![w] = r]
                               /\ r.pc = "idle" \/ (r.pc = "acquire" /\ r.call = c /\ new.state # "refused")
    <2>1. CASE new.state = "refused"
      BY <1>1, <2>1, RestingInv DEF Return, Resting, TypeOK
    <2>2. CASE new.state # "refused"
      <3>1. [exec[w] EXCEPT !.pc = "acquire"] \in Execution
        BY <1>1 DEF Execution
      <3>2. exec' = [exec EXCEPT ![w] = [exec[w] EXCEPT !.pc = "acquire"]]
        BY <1>1, <2>2 DEF Goto
      <3> QED
        BY <1>1, <1>a, <2>2, <3>1, <3>2 DEF Execution
    <2> QED
      BY <2>1, <2>2
  <1>6. exec' \in [Workers -> Execution] /\ exec'[w] = r /\ \A v \in Workers \ {w} : exec'[v] = exec[v]
    BY <1>1, <1>5 DEF TypeOK
  <1>7. consumed' \in 0 .. MaxToolCalls /\ CapacityInv'
    <2>1. CASE entries[c].state = "none" /\ new.state = "accepted"
      <3>1. consumed < MaxToolCalls /\ new.ordinal = consumed + 1 /\ entries[c].ordinal = 0
        BY <1>1, <1>2, <2>1 DEF CallInv
      <3>2. CapacityInv'
        BY <1>1, <1>4, <2>1, <3>1, CapacityDebited
      <3> QED
        BY <1>1, <2>1, <3>1, <3>2
    <2>2. CASE ~(entries[c].state = "none" /\ new.state = "accepted")
      <3>1. consumed' = consumed /\ new.ordinal = entries[c].ordinal
        BY <1>1, <1>2, <2>2 DEF CallInv
      <3> QED
        BY <1>1, <1>4, <3>1, CapacityKept
    <2> QED
      BY <2>1, <2>2
  <1>8. TypeOK'
    BY <1>1, <1>3, <1>6, <1>7 DEF TypeOK, ledger
  <1>9. \A d \in Calls : CallInv(d)'
    <2>1. CallInv(c)'
      BY <1>1, <1>3, <1>4 DEF CallInv, ledger
    <2> QED
      BY <1>1, <1>4, <2>1 DEF IInv, CallInv, ledger
  <1>10. Steady
    BY <1>1, <1>3, <1>4 DEF Steady
  <1>11. ExecInv(w)'
    BY <1>1, <1>3, <1>4, <1>5, <1>6 DEF ExecInv, Active, Entry
  <1> QED
    BY <1>1, <1>6, <1>7, <1>8, <1>9, <1>10, <1>11, ExecutorStep

\* The store of effects changes for one call whose effect is not settled, and the
\* worker's execution with it.
LEMMA EffectStep ==
    ASSUME IInv, NEW w \in Workers, NEW r \in Execution, exec' = [exec EXCEPT ![w] = r],
           NEW c \in Calls, effect[c].status # "settled",
           NEW new \in ToolEffect, effect' = [effect EXCEPT ![c] = new],
           new.status = "settled" => new.result # None,
           new.status = "free" => new.fence = 0,
           new.status = "held" /\ new.lapsed => new.fence < MaxFence,
           UNCHANGED <<entries, consumed, ledger, lease, host, att, bound, crashes>>,
           r = exec[w] \/ (ExecInv(w)' /\ (Quiet => r.pc \in Lingering))
    PROVE  IInv'
  <1>1. effect'[c] = new /\ \A d \in Calls \ {c} : effect'[d] = effect[d]
    BY DEF IInv, TypeOK
  <1>2. TypeOK' /\ exec'[w] = r /\ \A v \in Workers \ {w} : exec'[v] = exec[v]
    BY DEF IInv, TypeOK, ledger
  <1>3. \A d \in Calls : CallInv(d)'
    BY <1>1 DEF IInv, CallInv, ledger
  <1>4. Steady /\ CapacityInv'
    BY <1>1, CapacityKept DEF Steady
  <1> QED
    BY <1>2, <1>3, <1>4, ExecutorStep

\* The lease of a call's effect is won.
LEMMA ObtainInvariant ==
    ASSUME IInv, NEW w \in Workers, Obtain(w)
    PROVE  IInv'
  <1>a. PICK c \in Calls : c = exec[w].call
    BY DEF IInv, Obtain, At, ExecInv
  <1>b. PICK n : n = effect[c].fence + 1
    OBVIOUS
  <1> DEFINE new == [NoEffect EXCEPT !.status = "held", !.fence = n]
             r == [exec[w] EXCEPT !.pc = "evaluate", !.fence = n]
  <1>1. /\ TypeOK /\ exec[w] \in Execution /\ exec[w].pc = "acquire" /\ ~Quiet /\ CallInv(c) /\ ExecInv(w)
        /\ effect[c] \in ToolEffect /\ effect[c].status # "settled"
        /\ effect[c].status = "free" \/ (effect[c].status = "held" /\ effect[c].lapsed)
        /\ effect' = [effect EXCEPT ![c] = new] /\ exec' = [exec EXCEPT ![w] = r]
        /\ UNCHANGED <<entries, consumed, ledger, lease, host, att, bound, crashes>>
    BY <1>a, <1>b DEF IInv, TypeOK, Obtain, At, QuietInv
  <1>2. n \in 1 .. MaxFence
    <2>1. effect[c].fence \in Nat /\ effect[c].fence < MaxFence /\ MaxFence \in Nat
      BY <1>1, ConstantsAssumption DEF CallInv, ToolEffect
    <2> QED
      BY <1>b, <2>1
  <1>3. new \in ToolEffect /\ new.status = "held" /\ ~new.lapsed
    <2>1. NoEffect \in ToolEffect /\ NoEffect.lapsed = FALSE
      BY ConstantsAssumption DEF NoEffect, ToolEffect
    <2>2. n \in 0 .. MaxFence
      BY <1>2
    <2> QED
      BY <2>1, <2>2 DEF ToolEffect
  <1>4. r \in Execution /\ r.pc = "evaluate" /\ r.fence = n /\ r.call = c
    <2>1. n \in 0 .. MaxFence
      BY <1>2
    <2> QED
      BY <1>1, <1>a, <2>1 DEF Execution
  <1> HIDE DEF new, r
  <1>5. ExecInv(w)'
    <2>1. exec'[w] = r
      BY <1>1 DEF TypeOK
    <2> QED
      BY <1>1, <1>2, <1>4, <1>a, <2>1 DEF ExecInv, Active
  <1> QED
    BY <1>1, <1>3, <1>4, <1>5, EffectStep

\* An effect that was settled before is taken up.
LEMMA ObtainTerminalInvariant ==
    ASSUME IInv, NEW w \in Workers, ObtainTerminal(w)
    PROVE  IInv'
  <1>a. PICK c \in Calls : c = exec[w].call
    BY DEF IInv, ObtainTerminal, At, ExecInv
  <1> DEFINE r == [exec[w] EXCEPT !.pc = "complete"]
  <1>1. /\ TypeOK /\ exec[w] \in Execution /\ exec[w].pc = "acquire" /\ ExecInv(w)
        /\ effect[c].status = "settled" /\ exec' = [exec EXCEPT ![w] = r]
        /\ UNCHANGED <<toolStore, ledger, lease, host, att, bound, crashes>>
    BY <1>a DEF IInv, TypeOK, ObtainTerminal, At, Goto
  <1>2. r \in Execution /\ r.pc = "complete" /\ r.call = c
    BY <1>1, <1>a DEF Execution
  <1> HIDE DEF r
  <1>3. ExecInv(w)'
    <2>1. exec'[w] = r
      BY <1>1 DEF TypeOK
    <2> QED
      BY <1>1, <1>2, <1>a, <2>1 DEF ExecInv, Active, toolStore
  <1> QED
    BY <1>1, <1>2, <1>3, WorkerStep DEF Lingering

\* A lease that another holds, or nobody may redrive, turns the worker away.
LEMMA NotObtainedInvariant ==
    ASSUME IInv, NEW w \in Workers, NotObtained(w)
    PROVE  IInv'
  <1>a. PICK c \in Calls : c = exec[w].call
    BY DEF IInv, NotObtained, At, ExecInv
  <1> DEFINE new == [effect[c] EXCEPT !.status = "recovery"]
  <1>1. /\ TypeOK /\ effect[c] \in ToolEffect /\ effect[c].status # "settled"
        /\ exec' = [exec EXCEPT ![w] = Resting]
        /\ effect' = [effect EXCEPT ![c] = new] \/ effect' = effect
        /\ UNCHANGED <<entries, consumed, ledger, lease, host, att, bound, crashes>>
    BY <1>a DEF IInv, TypeOK, NotObtained, At, Return
  <1>2. new \in ToolEffect /\ new.status = "recovery"
    BY <1>1 DEF ToolEffect
  <1>3. exec'[w] = Resting
    BY <1>1 DEF TypeOK
  <1> HIDE DEF new
  <1>4. CASE effect' = effect
    BY <1>1, <1>3, <1>4, RestingInv, WorkerStep DEF toolStore
  <1>5. CASE effect' = [effect EXCEPT ![c] = new]
    BY <1>1, <1>2, <1>3, <1>5, RestingInv, EffectStep
  <1> QED
    BY <1>1, <1>4, <1>5

\* An evaluation ends with a result.
LEMMA EvaluateInvariant ==
    ASSUME IInv, NEW w \in Workers, Evaluate(w)
    PROVE  IInv'
  <1>a. PICK kind \in {"scored", "failed"} :
            exec' = [exec EXCEPT ![w].pc = "publish",
                                 ![w].result = [kind |-> kind, fence |-> exec[w].fence]]
    BY DEF Evaluate
  <1> DEFINE result == [kind |-> kind, fence |-> exec[w].fence]
             r == [exec[w] EXCEPT !.pc = "publish", !.result = result]
  <1>1. /\ TypeOK /\ exec[w] \in Execution /\ exec[w].pc = "evaluate" /\ ExecInv(w)
        /\ exec' = [exec EXCEPT ![w] = r]
        /\ UNCHANGED <<toolStore, ledger, lease, host, att, bound, crashes>>
    BY <1>a DEF IInv, TypeOK, Evaluate, At
  <1>2. exec[w].fence \in 1 .. MaxFence
    BY <1>1, ConstantsAssumption DEF ExecInv, Execution
  <1>3. result \in Evaluated /\ result # None
    BY <1>2, ConstantsAssumption DEF Evaluated, ToolResult
  <1> HIDE DEF result
  <1>4. r \in Execution /\ r.pc = "publish" /\ r.call = exec[w].call /\ r.result = result
    BY <1>1, <1>3 DEF Execution
  <1> HIDE DEF r
  <1>5. ExecInv(w)'
    <2>1. exec'[w] = r
      BY <1>1 DEF TypeOK
    <2> QED
      BY <1>1, <1>3, <1>4, <2>1 DEF ExecInv, Active, toolStore
  <1> QED
    BY <1>1, <1>4, <1>5, WorkerStep DEF Lingering

\* The owner of an effect settles it.
LEMMA PublishInvariant ==
    ASSUME IInv, NEW w \in Workers, Publish(w)
    PROVE  IInv'
  <1>a. PICK c \in Calls : c = exec[w].call
    BY DEF IInv, Publish, At, ExecInv
  <1> DEFINE new == [effect[c] EXCEPT !.status = "settled", !.lapsed = FALSE, !.result = exec[w].result]
             r == [exec[w] EXCEPT !.pc = "complete"]
  <1>1. /\ TypeOK /\ exec[w] \in Execution /\ exec[w].pc = "publish" /\ ExecInv(w)
        /\ effect[c] \in ToolEffect /\ effect[c].status = "held"
        /\ effect' = [effect EXCEPT ![c] = new] /\ exec' = [exec EXCEPT ![w] = r]
        /\ UNCHANGED <<entries, consumed, ledger, lease, host, att, bound, crashes>>
    BY <1>a DEF IInv, TypeOK, Publish, Current, At, Goto
  <1>2. new \in ToolEffect /\ new.status = "settled" /\ new.result # None
    BY <1>1 DEF ToolEffect, Execution, ExecInv
  <1>3. r \in Execution /\ r.pc = "complete" /\ r.call = c
    BY <1>1, <1>a DEF Execution
  <1> HIDE DEF new, r
  <1>4. ExecInv(w)'
    <2>1. exec'[w] = r /\ effect'[c] = new
      BY <1>1 DEF TypeOK
    <2> QED
      BY <1>1, <1>2, <1>3, <1>a, <2>1 DEF ExecInv, Active
  <1> QED
    BY <1>1, <1>2, <1>3, <1>4, EffectStep DEF Lingering

\* The entry is completed with the answer its effect was settled with.
LEMMA CompleteInvariant ==
    ASSUME IInv, NEW w \in Workers, Complete(w)
    PROVE  IInv'
  <1>a. PICK c \in Calls : c = exec[w].call
    BY DEF IInv, Complete, At, ExecInv
  <1> DEFINE new == [entries[c] EXCEPT !.state = "completed", !.result = effect[c].result]
  <1>1. /\ TypeOK /\ CallInv(c) /\ entries[c] \in Entry /\ effect[c] \in ToolEffect
        /\ entries[c].state \in {"accepted", "completed"} /\ effect[c].status = "settled"
        /\ entries' = [entries EXCEPT ![c] = new] /\ exec' = [exec EXCEPT ![w] = Resting]
        /\ UNCHANGED <<consumed, effect, ledger, lease, host, att, bound, crashes>>
    BY <1>a DEF IInv, TypeOK, Complete, At, Return, ExecInv, Active
  <1>2. /\ new \in Entry /\ new.state = "completed" /\ new.ordinal = entries[c].ordinal
        /\ new.result = effect[c].result
        /\ entries[c].state = "completed" => new = entries[c]
    BY <1>1 DEF Entry, ToolEffect, ToolResult, CallInv
  <1> HIDE DEF new
  <1>3. entries'[c] = new /\ \A d \in Calls \ {c} : entries'[d] = entries[d]
    BY <1>1 DEF TypeOK
  <1>4. exec' \in [Workers -> Execution] /\ exec'[w] = Resting /\ \A v \in Workers \ {w} : exec'[v] = exec[v]
    BY <1>1, RestingInv DEF TypeOK
  <1>5. TypeOK'
    BY <1>1, <1>2, <1>4 DEF TypeOK, ledger
  <1>6. \A d \in Calls : CallInv(d)'
    <2>1. CallInv(c)'
      BY <1>1, <1>2, <1>3 DEF CallInv, ledger
    <2> QED
      BY <1>1, <1>3, <2>1 DEF IInv, CallInv, ledger
  <1>7. CapacityInv' /\ Steady
    BY <1>1, <1>2, <1>3, CapacityKept DEF Steady
  <1> QED
    BY <1>1, <1>4, <1>5, <1>6, <1>7, RestingInv, ExecutorStep

\* A call raises, and leaves its lease and entry behind.
LEMMA RaiseInvariant ==
    ASSUME IInv, NEW w \in Workers, Raise(w)
    PROVE  IInv'
  <1>1. exec' = [exec EXCEPT ![w] = Resting] /\ exec'[w] = Resting
    BY DEF IInv, TypeOK, Raise, Return
  <1> QED
    BY <1>1, RestingInv, WorkerStep DEF Raise

\* The lease of an effect runs out.
LEMMA ToolLapseInvariant ==
    ASSUME IInv, NEW c \in Calls, ToolLapse(c)
    PROVE  IInv'
  <1> DEFINE new == [effect[c] EXCEPT !.lapsed = TRUE]
  <1>1. /\ TypeOK /\ effect[c] \in ToolEffect /\ effect[c].status = "held" /\ effect[c].fence < MaxFence
        /\ effect' = [effect EXCEPT ![c] = new]
        /\ UNCHANGED <<entries, consumed, exec, ledger, lease, host, att, bound, crashes>>
    BY DEF IInv, TypeOK, ToolLapse
  <1>2. new \in ToolEffect /\ new.status = "held" /\ new.fence < MaxFence
    BY <1>1 DEF ToolEffect
  <1> HIDE DEF new
  <1>3. effect'[c] = new /\ \A d \in Calls \ {c} : effect'[d] = effect[d]
    BY <1>1 DEF TypeOK
  <1>4. TypeOK'
    BY <1>1, <1>2 DEF TypeOK, ledger
  <1>5. \A d \in Calls : CallInv(d)'
    BY <1>1, <1>2, <1>3 DEF IInv, CallInv, ledger
  <1>6. CapacityInv' /\ Steady
    BY <1>1, <1>3, CapacityKept DEF Steady
  <1> QED
    BY <1>1, <1>4, <1>5, <1>6, ExecutorStep

\* The agent calls the server, which looks the call up.
LEMMA ServeInvariant ==
    ASSUME IInv, NEW t \in Threads, NEW c \in Calls, Serve(t, c)
    PROVE  IInv'
  <1>a. PICK r : r = Dispatch(c)
    OBVIOUS
  <1>1. /\ TypeOK /\ t \in Workers /\ t \notin Attempts /\ ~Quiet /\ entries[c] \in Entry
        /\ exec' = [exec EXCEPT ![t] = r]
        /\ UNCHANGED <<toolStore, ledger, lease, host, att, bound, crashes>>
    BY <1>a, ConstantsAssumption DEF IInv, TypeOK, Serve, Doing, Quiet, Workers
  <1>2. /\ r \in Execution
        /\ r.pc \in {"idle", "refuse", "admit", "acquire"}
        /\ r.pc # "idle" => r.call = c
        /\ r.pc = "acquire" => entries[c].state \in {"accepted", "completed"}
    <2>1. Resting \in Execution
      BY <1>1, RestingInv
    <2>2. r = Resting \/ \E pc \in {"refuse", "admit", "acquire"} :
            /\ r = [Resting EXCEPT !.call = c, !.pc = pc]
            /\ pc = "acquire" => entries[c].state \in {"accepted", "completed"}
      BY <1>1, <1>a, <2>1 DEF Dispatch, Entry
    <2>3. CASE r = Resting
      BY <2>1, <2>3 DEF Resting
    <2>4. ASSUME NEW pc \in {"refuse", "admit", "acquire"}, r = [Resting EXCEPT !.call = c, !.pc = pc],
                 pc = "acquire" => entries[c].state \in {"accepted", "completed"}
          PROVE  /\ r \in Execution /\ r.pc = pc /\ r.call = c
      BY <2>1, <2>4 DEF Execution
    <2> QED
      BY <2>2, <2>3, <2>4
  <1>3. ExecInv(t)'
    <2>1. exec'[t] = r
      BY <1>1 DEF TypeOK
    <2> QED
      BY <1>1, <1>2, <2>1 DEF ExecInv, Active, toolStore
  <1> QED
    BY <1>1, <1>2, <1>3, WorkerStep

-----------------------------------------------------------------------------
(* What a step of an attempt leaves as it was.                             *)

\* The others keep their progress; one that is invoking keeps the ledger, and what was
\* settled stays.
Apart(a) ==
    /\ UNCHANGED toolStore
    /\ \A b \in Attempts \ {a} :
        /\ att'[b] = att[b]
        /\ att[b].pc \in Invoking =>
               /\ UNCHANGED <<host, ledger>>
               /\ lease'.status \in {"held", "recovery"}
    /\ lease.status = "settled" => UNCHANGED <<lease, ledger>>

\* A step that leaves the others alone keeps what holds of them.
LEMMA ApartKeeps ==
    ASSUME IInv, NEW a \in Attempts, Apart(a), NEW b \in Attempts \ {a}
    PROVE  AttemptInv(b)'
  <1>1. AttemptInv(b) /\ att'[b] = att[b] /\ UNCHANGED <<entries, consumed, effect>>
    BY DEF IInv, Apart, toolStore
  <1>2. CASE att[b].pc \in Invoking
    <2>1. UNCHANGED <<host, slots, terminals>> /\ lease'.status \in {"held", "recovery"}
      BY <1>2 DEF Apart, ledger
    <2>2. IssuedInv(b)'
      BY <1>1, <1>2, <2>1 DEF AttemptInv, IssuedInv
    <2>3. TodoInv(b)'
      BY <1>1, <1>2 DEF AttemptInv, TodoInv, Admitted
    <2>4. att[b].pc \in {"checkpoint", "settle"} => Accounted(att[b].output)'
      BY <1>1, <2>1 DEF AttemptInv, Accounted, Admitted, InState
    <2> QED
      BY <1>1, <1>2, <2>1, <2>2, <2>3, <2>4 DEF AttemptInv, Invoking
  <1>3. CASE att[b].pc \in {"finish", "bind"}
    BY <1>1, <1>3 DEF AttemptInv, Apart, ledger, Invoking
  <1>4. CASE att[b].pc \in {"idle", "acquire"}
    BY <1>1, <1>4 DEF AttemptInv, Invoking
  <1> QED
    BY <1>2, <1>3, <1>4 DEF IInv, TypeOK, Progress

\* A step of an attempt from its own part.
LEMMA AttemptStep ==
    ASSUME IInv, NEW a \in Attempts, TypeOK', Apart(a), AttemptInv(a)', UNCHANGED exec,
           \A c \in Calls : CallInv(c)', QuietInv', LeaseInv'
    PROVE  IInv'
  <1>1. CapacityInv'
    BY CapacityKept DEF Apart, toolStore
  <1>2. \A w \in Workers : ExecInv(w)'
    BY DEF IInv, ExecInv, Apart, toolStore
  <1>3. \A b \in Attempts : AttemptInv(b)'
    BY ApartKeeps
  <1> QED
    BY <1>1, <1>2, <1>3 DEF IInv

\* A step that changes nothing but the attempt's progress.
LEMMA LocalStep ==
    ASSUME IInv, NEW a \in Attempts, NEW r \in Progress, att' = [att EXCEPT ![a] = r],
           UNCHANGED <<toolStore, exec, ledger, lease, host, bound, crashes>>, AttemptInv(a)',
           att[a].pc \in {"agent", "join"} =>
               r.pc \in {"agent", "join"} \/ \A w \in Workers : exec[w].pc \in Lingering,
           att[a].pc \in Invoking => r.pc \in Invoking \/ lease.status # "held" \/ lease.lapsed
    PROVE  IInv'
  <1>1. /\ TypeOK' /\ TypeOK /\ att'[a] = r /\ \A b \in Attempts \ {a} : att'[b] = att[b]
        /\ \A b \in Attempts : AttemptInv(b)
    BY DEF IInv, TypeOK, toolStore, ledger
  <1>2. Apart(a)
    BY <1>1 DEF Apart, AttemptInv
  <1>3. \A c \in Calls : CallInv(c)'
    BY DEF IInv, CallInv, toolStore, ledger
  <1>4. QuietInv'
    <2> SUFFICES ASSUME Quiet' PROVE \A w \in Workers : exec[w].pc \in Lingering
      BY DEF QuietInv, Lingering
    <2>1. CASE Quiet
      BY <2>1 DEF IInv, QuietInv, Lingering
    <2>2. CASE ~Quiet
      BY <1>1, <2>2 DEF Quiet, TypeOK
    <2> QED
      BY <2>1, <2>2
  <1>5. LeaseInv'
    <2>1. NoStrandedLease'
      BY <1>1 DEF IInv, LeaseInv, NoStrandedLease, TypeOK
    <2>2. lease.status = "settled" => Accounted(lease.output)'
      BY DEF IInv, LeaseInv, Accounted, Admitted, InState, toolStore, ledger
    <2> QED
      BY <2>1, <2>2 DEF IInv, LeaseInv, ledger
  <1> QED
    BY <1>1, <1>2, <1>3, <1>4, <1>5, AttemptStep

\* An attempt that has come back owes nothing.
LEMMA AwayInv ==
    /\ Away \in Progress /\ Away.pc = "idle"
    /\ \A a \in Attempts : att'[a] = Away => AttemptInv(a)'
  <1>1. Away \in Progress
    BY ConstantsAssumption DEF Away, Progress
  <1> QED
    BY <1>1 DEF Away, AttemptInv, Invoking

\* Everything an attempt has issued was admitted, so the ledger fits the capacity.
LEMMA IssuedFits ==
    ASSUME IInv, NEW a \in Attempts, att[a].pc \in Invoking
    PROVE  /\ att[a].issued \in Seq(Calls) /\ ToSet(att[a].issued) \subseteq Admitted
           /\ IsFiniteSet(ToSet(att[a].issued))
           /\ Cardinality(ToSet(att[a].issued)) = Len(att[a].issued)
           /\ Len(att[a].issued) <= consumed
           /\ Len(att[a].issued) \in 0 .. MaxToolCalls
           /\ consumed <= Len(att[a].issued) => ToSet(att[a].issued) = Admitted
           /\ \A c \in Admitted \ ToSet(att[a].issued) : Len(att[a].issued) < MaxToolCalls
  <1>a. PICK s \in Seq(Calls) : s = att[a].issued
    BY DEF IInv, TypeOK, Progress
  <1>1. /\ IsInjective(s) /\ \A c \in ToSet(s) : entries[c].state = "completed"
        /\ IsFiniteSet(Admitted) /\ consumed = Cardinality(Admitted)
        /\ consumed \in 0 .. MaxToolCalls /\ MaxToolCalls \in Nat
    BY <1>a, ConstantsAssumption DEF IInv, TypeOK, AttemptInv, IssuedInv, CapacityInv, CapacityIsDense
  <1>2. ToSet(s) \subseteq Calls
    BY DEF ToSet
  <1>3. ToSet(s) \subseteq Admitted
    BY <1>1, <1>2 DEF IInv, CallInv, Admitted
  <1>4. IsFiniteSet(ToSet(s)) /\ Cardinality(ToSet(s)) = Len(s) /\ Len(s) \in Nat
    BY <1>1, DistinctLength
  <1>5. Len(s) <= consumed /\ (Len(s) = consumed => ToSet(s) = Admitted)
    BY <1>1, <1>3, <1>4, FS_Subset
  <1>6. \A c \in Admitted \ ToSet(s) : Len(s) < MaxToolCalls
    BY <1>1, <1>4, <1>5
  <1> QED
    BY <1>1, <1>3, <1>4, <1>5, <1>6, <1>a

-----------------------------------------------------------------------------
(* Steps of an attempt that change nothing but its progress.               *)

\* The facts every such step starts from
LEMMA AttemptFacts ==
    ASSUME IInv, NEW a \in Attempts
    PROVE  /\ TypeOK /\ att[a] \in Progress /\ AttemptInv(a)
           /\ att[a].pc \in Invoking => IssuedInv(a) /\ TodoInv(a) /\ host = a
                                        /\ lease.status \in {"held", "recovery"}
  BY DEF IInv, TypeOK, AttemptInv

\* The agent ends, with or without a report.
LEMMA AgentEndsInvariant ==
    ASSUME IInv, NEW a \in Attempts, AgentEnds(a)
    PROVE  IInv'
  <1>1. /\ att[a].pc = "agent" /\ att[a].pc \in Invoking
        /\ UNCHANGED <<toolStore, exec, ledger, lease, host, bound, crashes>>
    BY DEF AgentEnds, Doing, Invoking
  <1>2. PICK todo \in Seq(Calls), phase \in {"report", "reconcile"} :
            att' = [att EXCEPT ![a] = [att[a] EXCEPT !.pc = "join", !.todo = todo, !.phase = phase]]
    <2>1. \A report \in Report : report \in Seq(Calls)
      BY ConstantsAssumption DEF Report
    <2>2. ASSUME NEW report \in Report, att' = [att EXCEPT ![a].pc = "join", ![a].todo = report]
          PROVE  att' = [att EXCEPT ![a] = [att[a] EXCEPT !.pc = "join", !.todo = report,
                                                          !.phase = att[a].phase]]
      BY <2>2, AttemptFacts DEF Progress, TypeOK
    <2>3. ASSUME att' = [att EXCEPT ![a].pc = "join", ![a].phase = "reconcile"]
          PROVE  att' = [att EXCEPT ![a] = [att[a] EXCEPT !.pc = "join", !.todo = att[a].todo,
                                                          !.phase = "reconcile"]]
      BY <2>3, AttemptFacts DEF Progress, TypeOK
    <2>4. att[a].todo \in Seq(Calls) /\ att[a].phase \in {"report", "reconcile"}
      BY AttemptFacts DEF Progress
    <2> QED
      BY <2>1, <2>2, <2>3, <2>4 DEF AgentEnds
  <1> DEFINE r == [att[a] EXCEPT !.pc = "join", !.todo = todo, !.phase = phase]
  <1>3. r \in Progress /\ r.pc = "join" /\ r.pc \in Invoking /\ r.issued = att[a].issued
    BY AttemptFacts DEF Progress, Invoking
  <1>4. att'[a] = r
    BY <1>2, AttemptFacts DEF TypeOK
  <1> HIDE DEF r
  <1>5. AttemptInv(a)'
    <2>1. IssuedInv(a)'
      BY <1>1, <1>3, <1>4, AttemptFacts DEF IssuedInv, toolStore, ledger
    <2>2. TodoInv(a)'
      BY <1>3, <1>4 DEF TodoInv
    <2> QED
      BY <1>1, <1>3, <1>4, <2>1, <2>2, AttemptFacts DEF AttemptInv
  <1> QED
    BY <1>1, <1>2, <1>3, <1>5, LocalStep DEF r

\* A move of an attempt inside its invocation that issues nothing.
LEMMA ProceedStep ==
    ASSUME IInv, NEW a \in Attempts, att[a].pc \in Invoking \ {"record"},
           NEW r \in Progress, att' = [att EXCEPT ![a] = r],
           UNCHANGED <<toolStore, exec, ledger, lease, host, bound, crashes>>,
           r.pc \in Invoking \ {"agent", "join", "record"}, r.issued = att[a].issued, TodoInv(a)',
           r.pc \in {"checkpoint", "settle"} => Accounted(r.output),
           r.pc = "settle" => r.output.debit = Len(slots),
           att[a].pc \in {"agent", "join"} => \A w \in Workers : exec[w].pc \in Lingering
    PROVE  IInv'
  <1>1. att'[a] = r
    BY AttemptFacts DEF TypeOK
  <1>2. IssuedInv(a)'
    BY <1>1, AttemptFacts DEF IssuedInv, toolStore, ledger
  <1>3. r.pc \in {"checkpoint", "settle"} => Accounted(r.output)'
    BY DEF Accounted, Admitted, InState, toolStore, ledger
  <1>4. r.pc \in {"checkpoint", "settle"} => Accounted(att[a].output)'
    BY <1>1, <1>3 DEF Accounted
  <1>5. AttemptInv(a)'
    BY <1>1, <1>2, <1>4, AttemptFacts DEF AttemptInv, Invoking, ledger
  <1> QED
    BY <1>5, LocalStep

\* The server is left behind.
LEMMA JoinInvariant ==
    ASSUME IInv, NEW a \in Attempts, Join(a)
    PROVE  IInv'
  <1>a. PICK pc \in {"count", "reconcile"} : pc = IF att[a].phase = "report" THEN "count" ELSE "reconcile"
    OBVIOUS
  <1> DEFINE r == [att[a] EXCEPT !.pc = pc]
  <1>1. /\ att[a].pc = "join" /\ att[a].pc \in Invoking \ {"record"} /\ att' = [att EXCEPT ![a] = r]
        /\ UNCHANGED <<toolStore, exec, ledger, lease, host, bound, crashes>>
    BY <1>a DEF Join, Doing, Invoking, Proceed
  <1>2. /\ r \in Progress /\ r.pc = pc /\ r.pc \in Invoking \ {"agent", "join", "record"}
        /\ r.issued = att[a].issued /\ r.phase = att[a].phase
    BY AttemptFacts DEF Progress, Invoking
  <1>3. \A w \in Workers : exec[w].pc \in Lingering
    BY DEF Join, IInv, ExecInv, Workers, Lingering, At
  <1>4. att'[a] = r
    BY <1>1, AttemptFacts DEF TypeOK
  <1> HIDE DEF r
  <1>5. TodoInv(a)'
    BY <1>a, <1>2, <1>4 DEF TodoInv
  <1> QED
    BY <1>1, <1>2, <1>3, <1>5, ProceedStep

\* The count of admitted calls is read, or the artifact is not this run's.
LEMMA CountInvariant ==
    ASSUME IInv, NEW a \in Attempts, Count(a) \/ Mismatch(a)
    PROVE  IInv'
  <1>1. /\ att[a].pc = "count" /\ att[a].pc \in Invoking \ {"record"} /\ att[a].phase = "report"
        /\ UNCHANGED <<toolStore, exec, ledger, lease, host, bound, crashes>>
    BY AttemptFacts DEF Count, Mismatch, Doing, Invoking, TodoInv
  <1>2. CASE Count(a)
    <2> DEFINE r == [att[a] EXCEPT !.pc = "report", !.count = consumed]
    <2>1. att' = [att EXCEPT ![a] = r] /\ consumed \in 0 .. MaxToolCalls
      BY <1>2, AttemptFacts DEF Count, TypeOK
    <2>2. /\ r \in Progress /\ r.pc = "report" /\ r.pc \in Invoking \ {"agent", "join", "record"}
          /\ r.issued = att[a].issued /\ r.phase = "report" /\ r.count = consumed
      BY <1>1, <2>1, AttemptFacts DEF Progress, Invoking
    <2>3. att'[a] = r
      BY <2>1, AttemptFacts DEF TypeOK
    <2> HIDE DEF r
    <2>4. TodoInv(a)'
      BY <1>1, <2>2, <2>3 DEF TodoInv, toolStore
    <2> QED
      BY <1>1, <2>1, <2>2, <2>4, ProceedStep
  <1>3. CASE Mismatch(a)
    <2> DEFINE r == [att[a] EXCEPT !.pc = "reconcile"]
    <2>1. att' = [att EXCEPT ![a] = r]
      BY <1>3 DEF Mismatch, Proceed
    <2>2. /\ r \in Progress /\ r.pc = "reconcile" /\ r.pc \in Invoking \ {"agent", "join", "record"}
          /\ r.issued = att[a].issued
      BY AttemptFacts DEF Progress, Invoking
    <2>3. att'[a] = r
      BY <2>1, AttemptFacts DEF TypeOK
    <2> HIDE DEF r
    <2>4. TodoInv(a)'
      BY <2>2, <2>3 DEF TodoInv
    <2> QED
      BY <1>1, <2>1, <2>2, <2>4, ProceedStep
  <1> QED
    BY <1>2, <1>3

\* The report is read call by call, and compared with what was admitted.
LEMMA ReportInvariant ==
    ASSUME IInv, NEW a \in Attempts, ReportCall(a) \/ ReportEnds(a)
    PROVE  IInv'
  <1>1. /\ att[a].pc = "report" /\ att[a].pc \in Invoking \ {"record"}
        /\ UNCHANGED <<toolStore, exec, ledger, lease, host, bound, crashes>>
    BY DEF ReportCall, ReportEnds, Doing, Invoking
  <1>2. att[a].phase = "report" /\ att[a].count = consumed
    BY <1>1, AttemptFacts DEF TodoInv
  <1>3. PICK pc \in {"issue", "select", "reconcile"} :
            /\ Proceed(a, pc)
            /\ pc = "issue" => att[a].todo # << >> /\ Acceptable(a, Head(att[a].todo))
            /\ pc = "select" => ~(Len(att[a].issued) < att[a].count)
    BY DEF ReportCall, ReportEnds
  <1> DEFINE r == [att[a] EXCEPT !.pc = pc]
  <1>4. /\ r \in Progress /\ r.pc = pc /\ r.pc \in Invoking \ {"agent", "join", "record"}
        /\ r.issued = att[a].issued /\ r.phase = "report" /\ r.count = consumed /\ r.todo = att[a].todo
    BY <1>2, AttemptFacts DEF Progress, Invoking
  <1>5. att' = [att EXCEPT ![a] = r] /\ att'[a] = r
    BY <1>3, AttemptFacts DEF Proceed, TypeOK
  <1> HIDE DEF r
  <1>6. TodoInv(a)'
    <2>1. pc = "select" => r.count <= Len(r.issued)
      <3>1. consumed \in Nat /\ Len(att[a].issued) \in Nat
        BY AttemptFacts, ConstantsAssumption DEF TypeOK, Progress
      <3> QED
        BY <1>2, <1>3, <1>4, <3>1
    <2> QED
      BY <1>1, <1>3, <1>4, <1>5, <2>1 DEF TodoInv, Acceptable, toolStore
  <1> QED
    BY <1>1, <1>4, <1>5, <1>6, ProceedStep

\* The report covers what was admitted: the step completes, or fails after all.
LEMMA SelectInvariant ==
    ASSUME IInv, NEW a \in Attempts, Select(a)
    PROVE  IInv'
  <1>1. /\ att[a].pc = "select" /\ att[a].pc \in Invoking \ {"record"}
        /\ UNCHANGED <<toolStore, exec, ledger, lease, host, bound, crashes>>
    BY DEF Select, Doing, Invoking
  <1>2. CASE Proceed(a, "reconcile")
    <2> DEFINE r == [att[a] EXCEPT !.pc = "reconcile"]
    <2>1. att' = [att EXCEPT ![a] = r]
      BY <1>2 DEF Proceed
    <2>2. /\ r \in Progress /\ r.pc = "reconcile" /\ r.pc \in Invoking \ {"agent", "join", "record"}
          /\ r.issued = att[a].issued
      BY AttemptFacts DEF Progress, Invoking
    <2>3. att'[a] = r
      BY <2>1, AttemptFacts DEF TypeOK
    <2> HIDE DEF r
    <2>4. TodoInv(a)'
      BY <2>2, <2>3 DEF TodoInv
    <2> QED
      BY <1>1, <2>1, <2>2, <2>4, ProceedStep
  <1>3. ASSUME NEW c \in {None} \cup {d \in ToSet(att[a].issued) : terminals[d].kind = "scored"},
               att' = [att EXCEPT ![a].pc = "checkpoint",
                                  ![a].output = [status |-> "complete", selected |-> c,
                                                 interrupted |-> {}, nested |-> {}, debit |-> 0]]
        PROVE  IInv'
    <2>a. PICK output : output = [status |-> "complete", selected |-> c, interrupted |-> {},
                                  nested |-> {}, debit |-> 0]
      OBVIOUS
    <2> DEFINE r == [att[a] EXCEPT !.pc = "checkpoint", !.output = output]
    <2>1. /\ IssuedInv(a) /\ slots = att[a].issued /\ att[a].count = consumed
          /\ att[a].count <= Len(att[a].issued) /\ consumed \in Nat
      BY <1>1, AttemptFacts, ConstantsAssumption DEF IssuedInv, TodoInv, TypeOK
    <2>2. ToSet(slots) = Admitted /\ Len(slots) = consumed /\ ToSet(slots) \subseteq Calls
      <3>1. Len(att[a].issued) <= consumed /\ ToSet(att[a].issued) = Admitted /\ Len(att[a].issued) \in Nat
        BY <1>1, <2>1, IssuedFits
      <3> QED
        BY <2>1, <3>1 DEF Admitted
    <2>3. Admitted \subseteq InState("completed")
      BY <2>1, <2>2 DEF IssuedInv, InState
    <2>4. c # None => /\ c \in Calls /\ entries[c].state = "completed"
                      /\ entries[c].result.kind = "scored"
      BY <1>3, <2>1, <2>2 DEF IssuedInv, IInv, CallInv
    <2>5. output \in Output
      BY <2>a, <2>4, ConstantsAssumption DEF Output
    <2>6. Accounted(output)
      BY <2>2, <2>3, <2>4, <2>5, <2>a DEF Accounted
    <2>7. /\ r \in Progress /\ r.pc = "checkpoint" /\ r.pc \in Invoking \ {"agent", "join", "record"}
          /\ r.issued = att[a].issued /\ r.output = output
      BY <2>5, AttemptFacts DEF Progress, Invoking
    <2>8. att' = [att EXCEPT ![a] = r] /\ att'[a] = r
      BY <1>3, <2>a, AttemptFacts DEF TypeOK
    <2> HIDE DEF r
    <2>9. TodoInv(a)'
      BY <2>7, <2>8 DEF TodoInv
    <2> QED
      BY <1>1, <2>6, <2>7, <2>8, <2>9, ProceedStep
  <1> QED
    BY <1>2, <1>3 DEF Select

\* The failure is assembled: completed calls are to be issued, accepted ones named.
LEMMA ReconcileInvariant ==
    ASSUME IInv, NEW a \in Attempts, Reconcile(a)
    PROVE  IInv'
  <1>1. /\ att[a].pc = "reconcile" /\ att[a].pc \in Invoking \ {"record"}
        /\ UNCHANGED <<toolStore, exec, ledger, lease, host, bound, crashes>>
    BY DEF Reconcile, Doing, Invoking
  <1>2. /\ InState("completed") \subseteq Admitted /\ Admitted \subseteq Calls
        /\ Admitted \subseteq InState("completed") \cup InState("accepted")
    BY DEF IInv, CallInv, Admitted, InState
  <1>3. PICK todo \in Seq(Calls) :
            todo = InDebitOrder(ToIssue(a)) /\ ToSet(todo) = ToIssue(a) /\ IsInjective(todo)
    <2>1. ToIssue(a) \in SUBSET Calls /\ ToIssue(a) \subseteq Admitted
      BY <1>2 DEF ToIssue
    <2>2. IsFiniteSet(ToIssue(a))
      BY <2>1, FS_Subset DEF IInv, CapacityInv
    <2>3. /\ \A c \in ToIssue(a) : entries[c].ordinal \in Nat
          /\ \A c, d \in ToIssue(a) : entries[c].ordinal = entries[d].ordinal => c = d
      <3>1. \A c \in Calls : entries[c].ordinal \in Nat
        BY ConstantsAssumption DEF IInv, TypeOK, Entry
      <3> QED
        BY <2>1, <3>1 DEF IInv, CapacityInv
    <2>4. /\ InDebitOrder(ToIssue(a)) \in Seq(Calls)
          /\ ToSet(InDebitOrder(ToIssue(a))) = ToIssue(a) /\ IsInjective(InDebitOrder(ToIssue(a)))
      BY <2>1, <2>2, <2>3, DebitOrder
    <2> QED
      BY <2>4
  <1>o. PICK output : output = [status |-> "failed", selected |-> None,
                                interrupted |-> Interrupted(a), nested |-> {}, debit |-> 0]
    OBVIOUS
  <1>4. output \in Output /\ output.status = "failed" /\ output.interrupted = Interrupted(a)
    <2>1. Interrupted(a) \in SUBSET Calls /\ 0 \in 0 .. MaxToolCalls
      BY ConstantsAssumption DEF Interrupted, InState
    <2> QED
      BY <1>o, <2>1 DEF Output
  <1> DEFINE r == [att[a] EXCEPT !.pc = "issue", !.phase = "reconcile", !.todo = todo, !.output = output]
  <1>5. /\ r \in Progress /\ r.pc = "issue" /\ r.pc \in Invoking \ {"agent", "join", "record"}
        /\ r.issued = att[a].issued /\ r.phase = "reconcile" /\ r.todo = todo /\ r.output = output
    BY <1>4, AttemptFacts DEF Progress, Invoking
  <1>6. att' = [att EXCEPT ![a] = r] /\ att'[a] = r
    BY <1>3, <1>o, AttemptFacts DEF Reconcile, TypeOK
  <1> HIDE DEF r
  <1>7. /\ \A c \in ToSet(todo) : entries[c].state = "completed" /\ c \notin ToSet(att[a].issued)
        /\ Admitted \subseteq ToSet(att[a].issued) \cup ToSet(todo) \cup output.interrupted
    BY <1>2, <1>3, <1>4 DEF ToIssue, Interrupted, InState
  <1>8. Admitted' = Admitted
    BY <1>1 DEF Admitted, toolStore
  <1>9. TodoInv(a)'
    BY <1>1, <1>3, <1>4, <1>5, <1>6, <1>7, <1>8 DEF TodoInv, toolStore
  <1> QED
    BY <1>1, <1>5, <1>6, <1>9, ProceedStep

\* All completed calls are issued: the failure accounts for the failed ones.
LEMMA ReconciledInvariant ==
    ASSUME IInv, NEW a \in Attempts, Reconciled(a)
    PROVE  IInv'
  <1>1. /\ att[a].pc = "issue" /\ att[a].pc \in Invoking \ {"record"} /\ att[a].todo = << >>
        /\ UNCHANGED <<toolStore, exec, ledger, lease, host, bound, crashes>>
    BY DEF Reconciled, Doing, Invoking
  <1>2. /\ att[a].phase = "reconcile" /\ att[a].output \in Output /\ att[a].output.status = "failed"
        /\ Admitted \subseteq ToSet(att[a].issued) \cup ToSet(att[a].todo) \cup att[a].output.interrupted
    BY <1>1, AttemptFacts DEF TodoInv, Progress
  <1>3. ToSet(att[a].todo) = {} /\ slots = att[a].issued
    BY <1>1, AttemptFacts DEF ToSet, IssuedInv
  <1>4. PICK nested \in SUBSET Calls : nested = {c \in ToSet(att[a].issued) : terminals[c].kind = "failed"}
    <2>1. ToSet(att[a].issued) \subseteq Calls
      BY <1>1, IssuedFits DEF Admitted
    <2> QED
      BY <2>1
  <1>5. PICK output \in Output : /\ output = [att[a].output EXCEPT !.nested = nested]
                                 /\ output.status = "failed"
                                 /\ output.interrupted = att[a].output.interrupted
    <2> DEFINE o == [att[a].output EXCEPT !.nested = nested]
    <2>1. o \in Output /\ o.status = "failed" /\ o.interrupted = att[a].output.interrupted
      BY <1>2 DEF Output
    <2> QED
      BY <2>1
  <1> DEFINE r == [att[a] EXCEPT !.pc = "checkpoint", !.output = output]
  <1>6. /\ r \in Progress /\ r.pc = "checkpoint" /\ r.pc \in Invoking \ {"agent", "join", "record"}
        /\ r.issued = att[a].issued /\ r.output = output
    BY AttemptFacts DEF Progress, Invoking
  <1>7. att' = [att EXCEPT ![a] = r] /\ att'[a] = r
    BY <1>4, <1>5, AttemptFacts DEF Reconciled, TypeOK, Progress
  <1> HIDE DEF r
  <1>8. TodoInv(a)'
    BY <1>6, <1>7 DEF TodoInv
  <1>9. Accounted(output)
    BY <1>2, <1>3, <1>5 DEF Accounted
  <1> QED
    BY <1>1, <1>6, <1>7, <1>8, <1>9, ProceedStep

\* Every slot has its terminal, so the checkpoint is always made.
LEMMA CheckpointInvariant ==
    ASSUME IInv, NEW a \in Attempts, Checkpoint(a)
    PROVE  IInv'
  <1>1. /\ att[a].pc = "checkpoint" /\ att[a].pc \in Invoking \ {"record"}
        /\ UNCHANGED <<toolStore, exec, ledger, lease, host, bound, crashes>>
    BY DEF Checkpoint, Doing, Invoking
  <1>2. slots = att[a].issued /\ EvidenceExists /\ Accounted(att[a].output) /\ att[a].output \in Output
    BY <1>1, AttemptFacts DEF AttemptInv, IssuedInv, EvidenceExists, Accounted
  <1>3. Len(slots) \in 0 .. MaxToolCalls
    BY <1>1, <1>2, IssuedFits
  <1>4. PICK output \in Output : /\ output = [att[a].output EXCEPT !.debit = Len(slots)]
                                 /\ output.debit = Len(slots)
                                 /\ output.status = att[a].output.status
                                 /\ output.selected = att[a].output.selected
                                 /\ output.interrupted = att[a].output.interrupted
    <2> DEFINE o == [att[a].output EXCEPT !.debit = Len(slots)]
    <2>1. /\ o \in Output /\ o.debit = Len(slots) /\ o.status = att[a].output.status
          /\ o.selected = att[a].output.selected /\ o.interrupted = att[a].output.interrupted
      BY <1>2, <1>3 DEF Output
    <2> QED
      BY <2>1
  <1> DEFINE r == [att[a] EXCEPT !.pc = "settle", !.output = output]
  <1>5. /\ r \in Progress /\ r.pc = "settle" /\ r.pc \in Invoking \ {"agent", "join", "record"}
        /\ r.issued = att[a].issued /\ r.output = output
    BY AttemptFacts DEF Progress, Invoking
  <1>6. att' = [att EXCEPT ![a] = r] /\ att'[a] = r
    BY <1>2, <1>4, AttemptFacts DEF Checkpoint, TypeOK, Progress
  <1> HIDE DEF r
  <1>7. TodoInv(a)'
    BY <1>5, <1>6 DEF TodoInv
  <1>8. Accounted(output)
    BY <1>2, <1>4 DEF Accounted
  <1> QED
    BY <1>1, <1>4, <1>5, <1>6, <1>7, <1>8, ProceedStep

\* A step is started, or one that was settled before is taken up.
LEMMA StartInvariant ==
    ASSUME IInv, NEW a \in Attempts, Start(a) \/ LoadCheckpoint(a)
    PROVE  IInv'
  <1>1. /\ att[a].pc \in {"idle", "acquire"} /\ att[a].pc \notin Invoking
        /\ UNCHANGED <<toolStore, exec, ledger, lease, host, bound, crashes>>
    BY DEF Start, LoadCheckpoint, Doing, Invoking
  <1>2. PICK pc \in {"acquire", "finish"}, output \in Output \cup {None} :
            /\ att' = [att EXCEPT ![a] = [att[a] EXCEPT !.pc = pc, !.output = output]]
            /\ pc = "finish" => lease.status = "settled" /\ output = lease.output
    <2>1. CASE Start(a)
      <3>1. att' = [att EXCEPT ![a] = [att[a] EXCEPT !.pc = "acquire", !.output = att[a].output]]
        BY <2>1, AttemptFacts DEF Start, Proceed, Progress, TypeOK
      <3>2. att[a].output \in Output \cup {None}
        BY AttemptFacts DEF Progress
      <3> QED
        BY <3>1, <3>2
    <2>2. CASE LoadCheckpoint(a)
      <3>1. att' = [att EXCEPT ![a] = [att[a] EXCEPT !.pc = "finish", !.output = lease.output]]
        BY <2>2, AttemptFacts DEF LoadCheckpoint, Progress, TypeOK
      <3>2. lease.output \in Output \cup {None}
        BY AttemptFacts DEF TypeOK, AdapterEffect
      <3> QED
        BY <2>2, <3>1, <3>2 DEF LoadCheckpoint
    <2> QED
      BY <2>1, <2>2
  <1> DEFINE r == [att[a] EXCEPT !.pc = pc, !.output = output]
  <1>3. /\ r \in Progress /\ r.pc = pc /\ r.issued = att[a].issued /\ r.phase = att[a].phase
        /\ r.output = output
    BY AttemptFacts DEF Progress
  <1>4. att' = [att EXCEPT ![a] = r] /\ att'[a] = r
    BY <1>2, AttemptFacts DEF TypeOK
  <1> HIDE DEF r
  <1>5. AttemptInv(a)'
    BY <1>1, <1>2, <1>3, <1>4, AttemptFacts DEF AttemptInv, Invoking
  <1> QED
    BY <1>1, <1>3, <1>4, <1>5, LocalStep

\* The lease was lost before the checkpoint could be published.
LEMMA SettleStaleInvariant ==
    ASSUME IInv, NEW a \in Attempts, SettleStale(a)
    PROVE  IInv'
  <1>1. /\ att[a].pc = "settle" /\ lease.lapsed /\ att' = [att EXCEPT ![a] = Away] /\ att'[a] = Away
        /\ UNCHANGED <<toolStore, exec, ledger, lease, host, bound, crashes>>
    BY AttemptFacts DEF SettleStale, Doing, Leave, TypeOK
  <1> QED
    BY <1>1, AwayInv, LocalStep

\* The evidence is read again, for the result.
LEMMA FinishInvariant ==
    ASSUME IInv, NEW a \in Attempts, Finish(a)
    PROVE  IInv'
  <1>1. /\ att[a].pc = "finish" /\ att[a].pc \notin Invoking
        /\ UNCHANGED <<toolStore, exec, ledger, lease, host, bound, crashes>>
    BY DEF Finish, Doing, Invoking
  <1>2. CASE Leave(a)
    <2>1. att' = [att EXCEPT ![a] = Away] /\ att'[a] = Away
      BY <1>2, AttemptFacts DEF Leave, TypeOK
    <2> QED
      BY <1>1, <2>1, AwayInv, LocalStep
  <1>3. CASE att' = [att EXCEPT ![a].pc = "bind", ![a].evidence = slots]
    <2> DEFINE r == [att[a] EXCEPT !.pc = "bind", !.evidence = slots]
    <2>1. slots \in Seq(Calls)
      BY AttemptFacts DEF TypeOK
    <2>2. r \in Progress /\ r.pc = "bind" /\ r.output = att[a].output /\ r.evidence = slots
      BY <2>1, AttemptFacts DEF Progress
    <2>3. att' = [att EXCEPT ![a] = r] /\ att'[a] = r
      BY <1>3, AttemptFacts DEF TypeOK
    <2> HIDE DEF r
    <2>4. AttemptInv(a)'
      BY <1>1, <2>2, <2>3, AttemptFacts DEF AttemptInv, Invoking, ledger
    <2> QED
      BY <1>1, <2>2, <2>3, <2>4, LocalStep
  <1> QED
    BY <1>2, <1>3 DEF Finish

-----------------------------------------------------------------------------
(* Steps of an attempt on the lease, the ledger and the binding.           *)

\* While the adapter is invoked nothing is settled or bound, and nobody else invokes it.
LEMMA OneInvocation ==
    ASSUME IInv, NEW a \in Attempts, att[a].pc \in Invoking
    PROVE  /\ host = a /\ lease.status \in {"held", "recovery"} /\ bound = None
           /\ \A b \in Attempts \ {a} : att[b].pc \notin Invoking
  BY DEF IInv, AttemptInv, LeaseInv

\* The adapter is invoked under a free lease.
LEMMA InvokeInvariant ==
    ASSUME IInv, NEW a \in Attempts, Invoke(a)
    PROVE  IInv'
  <1>1. /\ att[a].pc = "acquire" /\ lease.status = "free" /\ lease' = [lease EXCEPT !.status = "held"]
        /\ host' = a /\ att' = [att EXCEPT ![a] = [att[a] EXCEPT !.pc = "agent"]]
        /\ UNCHANGED <<toolStore, exec, ledger, bound, crashes>>
    BY DEF Invoke, Doing, Proceed
  <1>2. host = None /\ slots = << >> /\ bound = None
    BY <1>1 DEF IInv, LeaseInv
  <1>3. lease' \in AdapterEffect /\ lease'.status = "held"
    BY <1>1, AttemptFacts DEF TypeOK, AdapterEffect
  <1> DEFINE r == [att[a] EXCEPT !.pc = "agent"]
  <1>4. /\ r \in Progress /\ r.pc = "agent" /\ r.pc \in Invoking
        /\ r.issued = << >> /\ r.phase = "report"
    <2>1. att[a].issued = << >> /\ att[a].phase = "report"
      BY <1>1, AttemptFacts DEF AttemptInv
    <2> QED
      BY <2>1, AttemptFacts DEF Progress, Invoking
  <1>5. att' = [att EXCEPT ![a] = r] /\ att'[a] = r /\ \A b \in Attempts \ {a} : att'[b] = att[b]
    BY <1>1, AttemptFacts DEF TypeOK
  <1> HIDE DEF r
  <1>6. TypeOK'
    BY <1>1, <1>3, <1>4, <1>5, AttemptFacts DEF TypeOK, toolStore, ledger
  <1>7. Apart(a)
    <2>1. \A b \in Attempts : att[b].pc \notin Invoking
      BY <1>1 DEF IInv, AttemptInv
    <2> QED
      BY <1>1, <1>5, <2>1 DEF Apart
  <1>8. AttemptInv(a)'
    <2>1. IsInjective(<< >>) /\ ToSet(<< >>) = {}
      BY DEF IsInjective, ToSet
    <2>2. IssuedInv(a)'
      BY <1>1, <1>2, <1>4, <1>5, <2>1 DEF IssuedInv, ledger
    <2>3. TodoInv(a)'
      BY <1>4, <1>5 DEF TodoInv
    <2> QED
      BY <1>1, <1>3, <1>4, <1>5, <2>2, <2>3 DEF AttemptInv
  <1>9. \A c \in Calls : CallInv(c)'
    BY <1>1 DEF IInv, CallInv, toolStore, ledger
  <1>10. QuietInv'
    BY <1>1, <1>4, <1>5, ConstantsAssumption DEF QuietInv, Quiet
  <1>11. LeaseInv'
    BY <1>1, <1>2, <1>3, <1>4, <1>5 DEF LeaseInv, NoStrandedLease
  <1> QED
    BY <1>1, <1>6, <1>7, <1>8, <1>9, <1>10, <1>11, AttemptStep

\* The lease belongs to another, or is beyond recovery.
LEMMA NotInvokedInvariant ==
    ASSUME IInv, NEW a \in Attempts, NotInvoked(a)
    PROVE  IInv'
  <1>1. /\ att[a].pc = "acquire" /\ lease.status \in {"held", "recovery"}
        /\ lease' = IF lease.lapsed THEN [lease EXCEPT !.status = "recovery"] ELSE lease
        /\ att' = [att EXCEPT ![a] = Away]
        /\ UNCHANGED <<toolStore, exec, ledger, host, bound, crashes>>
    BY DEF NotInvoked, Doing, Leave
  <1>2. /\ lease' \in AdapterEffect /\ lease'.status \in {"held", "recovery"}
        /\ lease'.status = "held" /\ ~lease'.lapsed => lease.status = "held" /\ ~lease.lapsed
    BY <1>1, AttemptFacts DEF TypeOK, AdapterEffect
  <1>3. att'[a] = Away /\ \A b \in Attempts \ {a} : att'[b] = att[b]
    BY <1>1, AttemptFacts DEF TypeOK
  <1>4. TypeOK'
    BY <1>1, <1>2, AwayInv, AttemptFacts DEF TypeOK, toolStore, ledger
  <1>5. Apart(a)
    BY <1>1, <1>2, <1>3 DEF Apart
  <1>6. AttemptInv(a)'
    BY <1>3, AwayInv
  <1>7. \A c \in Calls : CallInv(c)'
    BY <1>1 DEF IInv, CallInv, toolStore, ledger
  <1>8. QuietInv'
    <2>1. Quiet' => Quiet
      BY <1>1, <1>3, AttemptFacts DEF Quiet, TypeOK
    <2> QED
      BY <1>1, <2>1 DEF IInv, QuietInv
  <1>9. LeaseInv'
    <2>1. NoStrandedLease'
      BY <1>1, <1>2, <1>3, AttemptFacts DEF IInv, LeaseInv, NoStrandedLease, TypeOK, Invoking
    <2> QED
      BY <1>1, <1>2, <2>1 DEF IInv, LeaseInv
  <1> QED
    BY <1>1, <1>4, <1>5, <1>6, <1>7, <1>8, <1>9, AttemptStep

\* The checkpoint is published.
LEMMA SettleInvariant ==
    ASSUME IInv, NEW a \in Attempts, Settle(a)
    PROVE  IInv'
  <1>1. /\ att[a].pc = "settle" /\ att[a].pc \in Invoking \ {"agent", "join"} /\ lease.status = "held"
        /\ lease' = [status |-> "settled", lapsed |-> FALSE, output |-> att[a].output]
        /\ att' = [att EXCEPT ![a] = [att[a] EXCEPT !.pc = "finish"]]
        /\ UNCHANGED <<toolStore, exec, ledger, host, bound, crashes>>
    BY DEF Settle, Doing, Proceed, Invoking
  <1>2. /\ Accounted(att[a].output) /\ att[a].output.debit = Len(slots) /\ att[a].output \in Output
    BY <1>1, AttemptFacts DEF AttemptInv, Accounted
  <1>3. lease' \in AdapterEffect /\ lease'.status = "settled" /\ lease'.output = att[a].output
    BY <1>1, <1>2 DEF AdapterEffect
  <1> DEFINE r == [att[a] EXCEPT !.pc = "finish"]
  <1>4. r \in Progress /\ r.pc = "finish" /\ r.output = att[a].output
    BY AttemptFacts DEF Progress
  <1>5. att' = [att EXCEPT ![a] = r] /\ att'[a] = r /\ \A b \in Attempts \ {a} : att'[b] = att[b]
    BY <1>1, AttemptFacts DEF TypeOK
  <1> HIDE DEF r
  <1>6. TypeOK'
    BY <1>1, <1>3, <1>4, <1>5, AttemptFacts DEF TypeOK, toolStore, ledger
  <1>7. Apart(a)
    BY <1>1, <1>5, OneInvocation DEF Apart
  <1>8. AttemptInv(a)'
    BY <1>3, <1>4, <1>5 DEF AttemptInv, Invoking
  <1>9. \A c \in Calls : CallInv(c)'
    BY <1>1 DEF IInv, CallInv, toolStore, ledger
  <1>10. QuietInv'
    <2>1. Quiet
      BY <1>1, QuietWhen
    <2> QED
      BY <1>1, <2>1 DEF IInv, QuietInv
  <1>11. LeaseInv'
    <2>1. PICK output : output = att[a].output /\ lease'.output = output
      BY <1>3
    <2>2. Accounted(output)'
      BY <1>1, <1>2, <2>1 DEF Accounted, Admitted, InState, toolStore, ledger
    <2>3. Accounted(lease.output)'
      BY <2>1, <2>2 DEF Accounted
    <2>4. bound' = None /\ slots' = slots
      BY <1>1, OneInvocation DEF ledger
    <2> QED
      BY <1>2, <1>3, <2>3, <2>4 DEF LeaseInv, NoStrandedLease
  <1> QED
    BY <1>1, <1>6, <1>7, <1>8, <1>9, <1>10, <1>11, AttemptStep

\* The first result of the step is bound.
LEMMA BindInvariant ==
    ASSUME IInv, NEW a \in Attempts, Bind(a)
    PROVE  IInv'
  <1>1. /\ att[a].pc = "bind" /\ att' = [att EXCEPT ![a] = Away]
        /\ bound' = IF bound = None THEN [output |-> att[a].output, evidence |-> att[a].evidence] ELSE bound
        /\ UNCHANGED <<toolStore, exec, ledger, lease, host, crashes>>
    BY DEF Bind, Doing, Leave
  <1>2. /\ lease.status = "settled" /\ att[a].output = lease.output /\ att[a].evidence = slots
        /\ lease.output \in Output /\ slots \in Seq(Calls)
    BY <1>1, AttemptFacts DEF AttemptInv, IInv, LeaseInv, Accounted, TypeOK
  <1>3. /\ bound' \in StepResult /\ bound'.output = lease.output /\ bound'.evidence = slots
    <2>1. CASE bound = None
      BY <1>1, <1>2, <2>1 DEF StepResult
    <2>2. CASE bound # None
      BY <1>1, <2>2 DEF IInv, TypeOK, LeaseInv
    <2> QED
      BY <2>1, <2>2
  <1>4. att'[a] = Away /\ \A b \in Attempts \ {a} : att'[b] = att[b]
    BY <1>1, AttemptFacts DEF TypeOK
  <1>5. TypeOK'
    BY <1>1, <1>3, AwayInv, AttemptFacts DEF TypeOK, toolStore, ledger
  <1>6. Apart(a)
    BY <1>1, <1>2, <1>4 DEF Apart, IInv, AttemptInv
  <1>7. AttemptInv(a)'
    BY <1>4, AwayInv
  <1>8. \A c \in Calls : CallInv(c)'
    BY <1>1 DEF IInv, CallInv, toolStore, ledger
  <1>9. QuietInv'
    <2>1. Quiet
      BY <1>2, QuietWhen
    <2> QED
      BY <1>1, <2>1 DEF IInv, QuietInv
  <1>10. LeaseInv'
    <2>1. Accounted(lease.output)'
      BY <1>1, <1>2 DEF IInv, LeaseInv, Accounted, Admitted, InState, toolStore, ledger
    <2> QED
      BY <1>1, <1>2, <1>3, <2>1 DEF IInv, LeaseInv, NoStrandedLease, ledger
  <1> QED
    BY <1>1, <1>5, <1>6, <1>7, <1>8, <1>9, <1>10, AttemptStep

\* The call that an attempt issues is completed, new to the ledger, and fits the budget.
LEMMA NextIssue ==
    ASSUME IInv, NEW a \in Attempts, att[a].pc \in {"issue", "record"}, att[a].todo # << >>
    PROVE  /\ Head(att[a].todo) \in Calls /\ entries[Head(att[a].todo)].state = "completed"
           /\ Head(att[a].todo) \notin ToSet(att[a].issued)
           /\ Len(att[a].issued) < MaxToolCalls
           /\ Tail(att[a].todo) \in Seq(Calls)
  <1>1. att[a].todo \in Seq(Calls) /\ att[a].phase \in {"report", "reconcile"} /\ att[a].pc \in Invoking
    BY AttemptFacts DEF Progress, Invoking
  <1>2. /\ Head(att[a].todo) \in Calls /\ Head(att[a].todo) \in ToSet(att[a].todo)
        /\ Tail(att[a].todo) \in Seq(Calls)
    BY <1>1, TailDistinct
  <1>3. /\ entries[Head(att[a].todo)].state = "completed"
        /\ Head(att[a].todo) \notin ToSet(att[a].issued)
    BY <1>1, <1>2, AttemptFacts DEF TodoInv
  <1>4. Head(att[a].todo) \in Admitted
    BY <1>2, <1>3 DEF IInv, CallInv, Admitted
  <1> QED
    BY <1>1, <1>2, <1>3, <1>4, IssuedFits

\* A slot is reserved: the ledger never refuses one.
LEMMA ReserveInvariant ==
    ASSUME IInv, NEW a \in Attempts, Reserve(a)
    PROVE  IInv'
  <1>1. /\ att[a].pc = "issue" /\ att[a].todo # << >> /\ att[a].pc \in Invoking \ {"agent", "join"}
        /\ UNCHANGED <<toolStore, exec, terminals, lease, host, bound, crashes>>
    BY DEF Reserve, Doing, Invoking
  <1>2. PICK c \in Calls : /\ c = Head(att[a].todo) /\ entries[c].state = "completed"
                           /\ c \notin ToSet(att[a].issued) /\ Len(att[a].issued) < MaxToolCalls
    BY <1>1, NextIssue
  <1>3. slots = att[a].issued /\ slots \in Seq(Calls)
    BY <1>1, AttemptFacts DEF IssuedInv, TypeOK
  <1>4. slots' = Append(slots, c) /\ att' = [att EXCEPT ![a] = [att[a] EXCEPT !.pc = "record"]]
    BY <1>2, <1>3 DEF Reserve, Proceed
  <1>5. slots' \in Seq(Calls)
    BY <1>3, <1>4, AppendDistinct
  <1> DEFINE r == [att[a] EXCEPT !.pc = "record"]
  <1>6. /\ r \in Progress /\ r.pc = "record" /\ r.pc \in Invoking /\ r.issued = att[a].issued
        /\ r.todo = att[a].todo /\ r.phase = att[a].phase /\ r.count = att[a].count
        /\ r.output = att[a].output
    BY AttemptFacts DEF Progress, Invoking
  <1>7. att' = [att EXCEPT ![a] = r] /\ att'[a] = r /\ \A b \in Attempts \ {a} : att'[b] = att[b]
    BY <1>4, AttemptFacts DEF TypeOK
  <1> HIDE DEF r
  <1>8. TypeOK'
    BY <1>1, <1>5, <1>6, <1>7, AttemptFacts DEF TypeOK, toolStore
  <1>9. Apart(a)
    BY <1>1, <1>7, OneInvocation DEF Apart
  <1>10. AttemptInv(a)'
    <2>1. IssuedInv(a)'
      BY <1>1, <1>2, <1>3, <1>4, <1>6, <1>7, AttemptFacts DEF IssuedInv, toolStore
    <2>2. Admitted' = Admitted
      BY <1>1 DEF Admitted, toolStore
    <2>3. TodoInv(a)'
      BY <1>1, <1>6, <1>7, <2>2, AttemptFacts DEF TodoInv, toolStore
    <2> QED
      BY <1>1, <1>6, <1>7, <2>1, <2>3, AttemptFacts DEF AttemptInv
  <1>11. \A d \in Calls : CallInv(d)'
    BY <1>1 DEF IInv, CallInv, toolStore
  <1>12. QuietInv'
    <2>1. Quiet
      BY <1>1, QuietWhen
    <2> QED
      BY <1>1, <2>1 DEF IInv, QuietInv
  <1>13. LeaseInv'
    <2>1. lease'.status \in {"held", "recovery"} /\ bound' = None /\ host' = a
      BY <1>1, OneInvocation
    <2> QED
      BY <1>6, <1>7, <2>1 DEF LeaseInv, NoStrandedLease
  <1> QED
    BY <1>1, <1>8, <1>9, <1>10, <1>11, <1>12, <1>13, AttemptStep

\* The answer of the call is recorded in its slot: it has one, and is not executed.
LEMMA RecordInvariant ==
    ASSUME IInv, NEW a \in Attempts, Record(a)
    PROVE  IInv'
  <1>1. /\ att[a].pc = "record" /\ att[a].pc \in Invoking \ {"agent", "join"}
        /\ UNCHANGED <<toolStore, slots, lease, host, bound, crashes>>
    BY DEF Record, Doing, Invoking
  <1>2. att[a].todo # << >> /\ slots = Append(att[a].issued, Head(att[a].todo))
    BY <1>1, AttemptFacts DEF IssuedInv
  <1>3. PICK c \in Calls : c = Head(att[a].todo) /\ entries[c].state = "completed"
                           /\ c \notin ToSet(att[a].issued)
    BY <1>1, <1>2, NextIssue
  <1>4. PICK pc \in {"report", "issue"} : pc = IF att[a].phase = "report" THEN "report" ELSE "issue"
    OBVIOUS
  <1>5. PICK todo \in Seq(Calls), issued \in Seq(Calls) :
            /\ todo = Tail(att[a].todo) /\ issued = Append(att[a].issued, c)
            /\ ToSet(issued) = ToSet(att[a].issued) \cup {c} /\ IsInjective(issued)
            /\ ToSet(att[a].todo) = {c} \cup ToSet(todo)
            /\ IsInjective(att[a].todo) => IsInjective(todo) /\ c \notin ToSet(todo)
    <2>1. att[a].todo \in Seq(Calls) /\ att[a].issued \in Seq(Calls) /\ IsInjective(att[a].issued)
      BY <1>1, AttemptFacts DEF Progress, IssuedInv
    <2>2. /\ Append(att[a].issued, c) \in Seq(Calls)
          /\ ToSet(Append(att[a].issued, c)) = ToSet(att[a].issued) \cup {c}
          /\ IsInjective(Append(att[a].issued, c))
      BY <1>3, <2>1, AppendDistinct
    <2>3. /\ Tail(att[a].todo) \in Seq(Calls) /\ ToSet(att[a].todo) = {c} \cup ToSet(Tail(att[a].todo))
          /\ IsInjective(att[a].todo) =>
                 IsInjective(Tail(att[a].todo)) /\ c \notin ToSet(Tail(att[a].todo))
      BY <1>2, <1>3, <2>1, TailDistinct
    <2> QED
      BY <2>2, <2>3
  <1> DEFINE r == [att[a] EXCEPT !.pc = pc, !.todo = todo, !.issued = issued]
  <1>6. /\ terminals' = [terminals EXCEPT ![c] = IF @ = None THEN entries[c].result ELSE @]
        /\ att' = [att EXCEPT ![a] = r] /\ exec' = exec
    <2>1. c \in Answered
      BY <1>3 DEF Answered, InState
    <2> QED
      BY <1>3, <1>4, <1>5, <2>1, AttemptFacts DEF Record, TypeOK, Progress
  <1>7. /\ r \in Progress /\ r.pc = pc /\ r.pc \in Invoking /\ r.issued = issued /\ r.todo = todo
        /\ r.phase = att[a].phase /\ r.count = att[a].count /\ r.output = att[a].output
    BY AttemptFacts DEF Progress, Invoking
  <1>8. att'[a] = r /\ \A b \in Attempts \ {a} : att'[b] = att[b]
    BY <1>6, AttemptFacts DEF TypeOK
  <1> HIDE DEF r
  <1>9. /\ entries[c].result \in ToolResult /\ entries[c].result # None
        /\ terminals'[c] = entries[c].result /\ \A d \in Calls \ {c} : terminals'[d] = terminals[d]
    <2>1. CallInv(c) /\ entries[c] \in Entry /\ effect[c] \in ToolEffect
      BY AttemptFacts DEF IInv, TypeOK
    <2>2. entries[c].result # None /\ entries[c].result \in ToolResult
      BY <1>3, <2>1 DEF CallInv, Entry
    <2>3. terminals'[c] = entries[c].result
      BY <1>6, <2>1, AttemptFacts DEF CallInv, TypeOK
    <2> QED
      BY <1>6, <2>2, <2>3, AttemptFacts DEF TypeOK
  <1>10. TypeOK'
    <2>1. terminals' \in [Calls -> ToolResult \cup {None}]
      BY <1>6, <1>9, AttemptFacts DEF TypeOK
    <2> QED
      BY <1>1, <1>6, <1>7, <2>1, AttemptFacts DEF TypeOK, toolStore
  <1>11. Apart(a)
    BY <1>1, <1>8, OneInvocation DEF Apart
  <1>12. AttemptInv(a)'
    <2>1. IssuedInv(a)'
      <3>1. \A d \in ToSet(issued) : d \in Calls
        BY DEF ToSet
      <3>2. \A d \in ToSet(issued) : entries'[d].state = "completed" /\ terminals'[d] # None
        BY <1>1, <1>3, <1>5, <1>9, <3>1, AttemptFacts DEF IssuedInv, toolStore
      <3> QED
        BY <1>1, <1>2, <1>3, <1>5, <1>7, <1>8, <3>2 DEF IssuedInv
    <2>2. Admitted' = Admitted
      BY <1>1 DEF Admitted, toolStore
    <2>3. att[a].phase \in {"report", "reconcile"}
      BY AttemptFacts DEF Progress
    <2>4. CASE att[a].phase = "report"
      <3>1. pc = "report" /\ att[a].count = consumed
        BY <1>1, <1>4, <2>4, AttemptFacts DEF TodoInv
      <3> QED
        BY <1>1, <1>7, <1>8, <2>1, <2>4, <3>1, OneInvocation DEF AttemptInv, TodoInv, toolStore
    <2>5. CASE att[a].phase = "reconcile"
      <3>1. pc = "issue"
        BY <1>4, <2>5
      <3>2. TodoInv(a)'
        <4>1. /\ IsInjective(todo)
              /\ \A d \in ToSet(todo) : entries'[d].state = "completed" /\ d \notin ToSet(issued)
              /\ Admitted' \subseteq ToSet(issued) \cup ToSet(todo) \cup att[a].output.interrupted
              /\ att[a].output \in Output /\ att[a].output.status = "failed"
          BY <1>1, <1>5, <2>2, <2>5, AttemptFacts DEF TodoInv, toolStore
        <4> QED
          BY <1>7, <1>8, <2>5, <3>1, <4>1 DEF TodoInv
      <3> QED
        BY <1>1, <1>7, <1>8, <2>1, <3>1, <3>2, OneInvocation DEF AttemptInv
    <2> QED
      BY <2>3, <2>4, <2>5
  <1>13. \A d \in Calls : CallInv(d)'
    <2>1. ASSUME NEW d \in Calls PROVE CallInv(d)'
      <3>1. CallInv(d)
        BY DEF IInv
      <3>2. CASE d = c
        BY <1>1, <1>3, <1>9, <3>1, <3>2 DEF CallInv, toolStore
      <3>3. CASE d # c
        BY <1>1, <1>9, <3>1, <3>3 DEF CallInv, toolStore
      <3> QED
        BY <3>2, <3>3
    <2> QED
      BY <2>1
  <1>14. QuietInv'
    <2>1. Quiet
      BY <1>1, QuietWhen
    <2> QED
      BY <1>6, <2>1 DEF IInv, QuietInv
  <1>15. LeaseInv'
    <2>1. lease'.status \in {"held", "recovery"} /\ bound' = None /\ host' = a
      BY <1>1, OneInvocation
    <2> QED
      BY <1>7, <1>8, <2>1 DEF LeaseInv, NoStrandedLease
  <1> QED
    BY <1>6, <1>10, <1>11, <1>12, <1>13, <1>14, <1>15, AttemptStep

-----------------------------------------------------------------------------
(* Crashes and lapsing leases.                                             *)

\* The process of an attempt dies, and with the host everything that it executed.
LEMMA CrashInvariant ==
    ASSUME IInv, NEW a \in Attempts, Crash(a)
    PROVE  IInv'
  <1>1. /\ att' = [att EXCEPT ![a] = Away] /\ crashes < MaxCrashes /\ crashes' = crashes + 1
        /\ host' = IF host = a THEN None ELSE host
        /\ exec' = IF host = a THEN [w \in Workers |-> Resting] ELSE exec
        /\ UNCHANGED <<toolStore, ledger, lease, bound>>
    BY DEF Crash, Leave
  <1>2. att'[a] = Away /\ \A b \in Attempts \ {a} : att'[b] = att[b]
    BY <1>1, AttemptFacts DEF TypeOK
  <1>3. CASE host = a
    <2>1. host' = None /\ exec' = [w \in Workers |-> Resting]
      BY <1>1, <1>3
    <2>2. TypeOK'
      <3>1. Resting \in Execution
        BY RestingInv
      <3>2. crashes' \in 0 .. MaxCrashes
        BY <1>1, AttemptFacts, ConstantsAssumption DEF TypeOK
      <3> QED
        BY <1>1, <2>1, <3>1, <3>2, AwayInv, AttemptFacts DEF TypeOK, toolStore, ledger
    <2>3. \A w \in Workers : exec'[w] = Resting
      BY <2>1
    <2>4. \A w \in Workers : ExecInv(w)'
      BY <2>3, RestingInv
    <2>5. QuietInv'
      BY <2>3 DEF QuietInv, Resting
    <2>6. Apart(a)
      BY <1>1, <1>2, <1>3 DEF Apart, IInv, AttemptInv
    <2>7. \A b \in Attempts : AttemptInv(b)'
      BY <1>2, <2>6, AwayInv, ApartKeeps
    <2>8. \A c \in Calls : CallInv(c)'
      BY <1>1 DEF IInv, CallInv, toolStore, ledger
    <2>9. LeaseInv'
      <3>1. lease.status = "settled" => Accounted(lease.output)'
        BY <1>1 DEF IInv, LeaseInv, Accounted, Admitted, InState, toolStore, ledger
      <3> QED
        BY <1>1, <2>1, <3>1 DEF IInv, LeaseInv, NoStrandedLease, ledger
    <2>10. CapacityInv'
      BY <1>1, CapacityKept DEF toolStore
    <2> QED
      BY <2>2, <2>4, <2>5, <2>7, <2>8, <2>9, <2>10 DEF IInv
  <1>4. CASE host # a
    <2>1. host' = host /\ exec' = exec
      BY <1>1, <1>4
    <2>2. TypeOK'
      <3>1. crashes' \in 0 .. MaxCrashes
        BY <1>1, AttemptFacts, ConstantsAssumption DEF TypeOK
      <3> QED
        BY <1>1, <2>1, <3>1, AwayInv, AttemptFacts DEF TypeOK, toolStore, ledger
    <2>3. Apart(a)
      BY <1>1, <1>2, <2>1 DEF Apart, IInv, AttemptInv
    <2>4. AttemptInv(a)'
      BY <1>2, AwayInv
    <2>5. \A c \in Calls : CallInv(c)'
      BY <1>1 DEF IInv, CallInv, toolStore, ledger
    <2>6. QuietInv'
      <3>1. Quiet' => Quiet
        BY <1>2, <1>4, <2>1, AttemptFacts DEF Quiet, TypeOK
      <3> QED
        BY <2>1, <3>1 DEF IInv, QuietInv
    <2>7. LeaseInv'
      <3>1. lease.status = "settled" => Accounted(lease.output)'
        BY <1>1 DEF IInv, LeaseInv, Accounted, Admitted, InState, toolStore, ledger
      <3>2. NoStrandedLease'
        BY <1>1, <1>2, <1>4, <2>1, AttemptFacts DEF IInv, LeaseInv, NoStrandedLease, TypeOK
      <3> QED
        BY <1>1, <2>1, <3>1, <3>2 DEF IInv, LeaseInv, ledger
    <2> QED
      BY <2>1, <2>2, <2>3, <2>4, <2>5, <2>6, <2>7, AttemptStep
  <1> QED
    BY <1>3, <1>4

\* The lease of the invocation runs out.
LEMMA LapseInvariant ==
    ASSUME IInv, Lapse
    PROVE  IInv'
  <1>1. /\ lease.status = "held" /\ lease' = [lease EXCEPT !.lapsed = TRUE]
        /\ UNCHANGED <<entries, consumed, effect, exec, slots, terminals, host, att, bound, crashes>>
    BY DEF Lapse, toolStore, ledger
  <1>2. lease' \in AdapterEffect /\ lease'.status = "held" /\ lease'.lapsed
    BY <1>1 DEF IInv, TypeOK, AdapterEffect
  <1>3. TypeOK'
    BY <1>1, <1>2 DEF IInv, TypeOK
  <1>4. \A a \in Attempts : AttemptInv(a)'
    <2>1. ASSUME NEW a \in Attempts PROVE AttemptInv(a)'
      <3>1. IssuedInv(a) => IssuedInv(a)'
        BY <1>1 DEF IssuedInv
      <3>2. TodoInv(a) => TodoInv(a)'
        BY <1>1 DEF TodoInv, Admitted
      <3>3. Accounted(att[a].output) => Accounted(att[a].output)'
        BY <1>1 DEF Accounted, Admitted, InState
      <3> QED
        BY <1>1, <1>2, <3>1, <3>2, <3>3, AttemptFacts DEF AttemptInv
    <2> QED
      BY <2>1
  <1>5. \A c \in Calls : CallInv(c)'
    BY <1>1 DEF IInv, CallInv
  <1>6. \A w \in Workers : ExecInv(w)'
    BY <1>1 DEF IInv, ExecInv
  <1>7. CapacityInv'
    BY <1>1, CapacityKept
  <1>8. QuietInv'
    BY <1>1 DEF IInv, QuietInv, Quiet
  <1>9. LeaseInv'
    BY <1>1, <1>2 DEF IInv, LeaseInv, NoStrandedLease
  <1> QED
    BY <1>3, <1>4, <1>5, <1>6, <1>7, <1>8, <1>9 DEF IInv

-----------------------------------------------------------------------------
(* The invariant holds, and what follows from it.                          *)

\* Nothing is admitted, issued or settled when the run begins.
LEMMA InitInvariant == Init => IInv
  <1> SUFFICES ASSUME Init PROVE IInv
    OBVIOUS
  <1>1. TypeOK
    <2>1. entries \in [Calls -> Entry]
      BY ConstantsAssumption DEF Init, NoEntry, Entry
    <2>2. effect \in [Calls -> ToolEffect]
      BY ConstantsAssumption DEF Init, NoEffect, ToolEffect
    <2>3. exec \in [Workers -> Execution]
      BY RestingInv DEF Init
    <2>4. lease \in AdapterEffect
      BY DEF Init, AdapterEffect
    <2>5. att \in [Attempts -> Progress]
      BY AwayInv DEF Init
    <2> QED
      BY <2>1, <2>2, <2>3, <2>4, <2>5, ConstantsAssumption DEF Init, TypeOK
  <1>2. \A c \in Calls : CallInv(c)
    BY DEF Init, CallInv, NoEntry, NoEffect
  <1>3. \A w \in Workers : ExecInv(w)
    BY DEF Init, ExecInv, Resting, Active
  <1>4. CapacityInv
    <2>1. Admitted = {}
      BY DEF Admitted, Init, NoEntry
    <2> QED
      BY <2>1, FS_EmptySet, ConstantsAssumption DEF Init, CapacityInv, CapacityIsDense
  <1>5. QuietInv
    BY DEF Init, QuietInv, Resting
  <1>6. LeaseInv
    BY DEF Init, LeaseInv, NoStrandedLease
  <1>7. \A a \in Attempts : AttemptInv(a)
    BY DEF Init, Away, AttemptInv, Invoking
  <1> QED
    BY <1>1, <1>2, <1>3, <1>4, <1>5, <1>6, <1>7 DEF IInv

\* Every step keeps the invariant.
LEMMA NextInvariant == IInv /\ [Next]_vars => IInv'
  <1> SUFFICES ASSUME IInv, [Next]_vars PROVE IInv'
    OBVIOUS
  <1>1. ASSUME NEW a \in Attempts, RunStep(a) PROVE IInv'
    BY <1>1, StartInvariant, InvokeInvariant, NotInvokedInvariant, AgentEndsInvariant,
       JoinInvariant, CountInvariant, ReportInvariant, SelectInvariant, ReconcileInvariant,
       ReconciledInvariant, ReserveInvariant, RecordInvariant, CheckpointInvariant,
       SettleInvariant, SettleStaleInvariant, FinishInvariant, BindInvariant DEF RunStep
  <1>2. ASSUME NEW w \in Workers, Execute(w) \/ Raise(w) PROVE IInv'
    BY <1>2, RefuseInvariant, AdmitInvariant, ObtainInvariant, ObtainTerminalInvariant,
       NotObtainedInvariant, EvaluateInvariant, PublishInvariant, CompleteInvariant,
       RaiseInvariant DEF Execute
  <1>3. CASE UNCHANGED vars
    <2>1. UNCHANGED <<entries, consumed, effect, exec, slots, terminals, lease, host, att, bound, crashes>>
      BY <1>3 DEF vars, toolStore, ledger
    <2>2. \A a \in Attempts : AttemptInv(a)'
      <3>1. ASSUME NEW a \in Attempts PROVE AttemptInv(a)'
        <4>1. IssuedInv(a) => IssuedInv(a)'
          BY <2>1 DEF IssuedInv
        <4>2. TodoInv(a) => TodoInv(a)'
          BY <2>1 DEF TodoInv, Admitted
        <4>3. Accounted(att[a].output) => Accounted(att[a].output)'
          BY <2>1 DEF Accounted, Admitted, InState
        <4> QED
          BY <2>1, <4>1, <4>2, <4>3, AttemptFacts DEF AttemptInv
      <3> QED
        BY <3>1
    <2>3. \A c \in Calls : CallInv(c)'
      BY <2>1 DEF IInv, CallInv
    <2>4. \A w \in Workers : ExecInv(w)'
      BY <2>1 DEF IInv, ExecInv
    <2>5. CapacityInv'
      BY <2>1, CapacityKept
    <2>6. QuietInv'
      BY <2>1 DEF IInv, QuietInv, Quiet
    <2>7. LeaseInv'
      <3>1. Accounted(lease.output) => Accounted(lease.output)'
        BY <2>1 DEF Accounted, Admitted, InState
      <3> QED
        BY <2>1, <3>1 DEF IInv, LeaseInv, NoStrandedLease
    <2>8. TypeOK'
      BY <2>1 DEF IInv, TypeOK
    <2> QED
      BY <2>2, <2>3, <2>4, <2>5, <2>6, <2>7, <2>8 DEF IInv
  <1> QED
    BY <1>1, <1>2, <1>3, CrashInvariant, ServeInvariant, ToolLapseInvariant, LapseInvariant DEF Next

\* The invariant holds of every state that the attempts, the agent, crashes and lapsing
\* leases can bring about.
THEOREM Invariance == Spec => []IInv
  BY InitInvariant, NextInvariant, PTL DEF Spec

\* The state of the tool call store, the ledger, the leases and the attempts is of its type.
THEOREM TypeCorrect == Spec => []TypeOK
  <1>1. IInv => TypeOK
    BY DEF IInv
  <1> QED
    BY <1>1, Invariance, PTL

\* However many server threads race for the last of the capacity, the admitted calls carry
\* the ordinals 1 .. consumed, each once, and no more than the capacity is admitted.
THEOREM CapacityStaysDense == Spec => []CapacityIsDense
  <1>1. IInv => CapacityIsDense
    BY DEF IInv, CapacityInv
  <1> QED
    BY <1>1, Invariance, PTL

\* The answer the store completed a call with is what its effect lease was settled with, and
\* what the ledger recorded: a takeover and the return of the first owner do not change it.
THEOREM AnswersAgree == Spec => []OneAnswerPerCall
  <1>1. IInv => OneAnswerPerCall
    BY DEF IInv, CallInv, OneAnswerPerCall
  <1> QED
    BY <1>1, Invariance, PTL

\* An attempt that issues calls, for a report or in the reconciliation of a failure, finds
\* them answered and never evaluates one.
THEOREM IssuingBuysNothing == Spec => []ReconciliationBuysNothing
  <1>1. IInv => ReconciliationBuysNothing
    BY DEF IInv, ExecInv, Workers, ReconciliationBuysNothing, At
  <1> QED
    BY <1>1, Invariance, PTL

\* Whatever the agent reports, an invocation that neither dies nor loses its lease does not
\* leave the adapter's effect behind unsettled.
THEOREM LeaseIsNotStranded == Spec => []NoStrandedLease
  <1>1. IInv => NoStrandedLease
    BY DEF IInv, LeaseInv
  <1> QED
    BY <1>1, Invariance, PTL

\* Every admitted call is among the evidence of the bound result or named by its failure, and
\* the budget is debited by the evidence.
THEOREM SpendStaysAccounted == Spec => []SpendIsAccounted
  <1>1. IInv => SpendIsAccounted
    BY DEF IInv, LeaseInv, Accounted, SpendIsAccounted
  <1> QED
    BY <1>1, Invariance, PTL

\* A step that completed has exactly the admitted calls as its evidence, all of them
\* completed, and selected one that was scored.
THEOREM CompleteStepsAreTotal == Spec => []CompleteStepIsTotal
  <1>1. ASSUME IInv PROVE CompleteStepIsTotal
    <2>1. InState("completed") \subseteq Admitted
      BY <1>1 DEF IInv, CallInv, InState, Admitted
    <2> QED
      BY <1>1, <2>1 DEF IInv, LeaseInv, Accounted, CompleteStepIsTotal
  <1> QED
    BY <1>1, Invariance, PTL
=============================================================================
