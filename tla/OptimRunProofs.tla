--------------------------- MODULE OptimRunProofs ----------------------------
(***************************************************************************)
(* The spend of a GEPA run is on its chain of Step Results once, and a     *)
(* completed run of COPRO or GEPA returns the best it measured, for every  *)
(* budget, every batch, every answer of the evaluation service and of the  *)
(* models, and any number of crashes.                                      *)
(***************************************************************************)
EXTENDS OptimRun, SequenceTheorems, FiniteSetTheorems, WellFoundedInduction, TLAPS

-----------------------------------------------------------------------------
(* The trail of a search: the states it passes from effect to effect, which*)
(* do not depend on its budget.                                            *)

\* The state of a search without its budget: where one search stops, one with a larger
\* budget turns to the next parent.
Unlimited(s) == [s EXCEPT !.limit = 0, !.at = IF s.at = "stop" THEN "parent" ELSE s.at]

\* The state behind an effect
After(t, e) ==
    IF e.request.kind = "evaluate" THEN Unlimited(Evaluated(t, e.request, e.result[1]))
    ELSE Unlimited(Reflected(t, e.result[1]))

\* A search goes past an effect that is recorded and is not a failed reflection.
Passed(e) == e.result # <<>> /\ (e.request.kind = "propose" => ~e.result[1].failed)

Reached(T, n) == IF n = 0 THEN NewSearch(0) ELSE After(T[n - 1], effects[n])

\* T[n] is the state of every search before effect n + 1, which is the one it asks for.
Trail(T) ==
    \A n \in 0 .. Len(effects) - 1 :
        /\ T[n] = Reached(T, n)
        /\ effects[n + 1].request = NextEffect(T[n])
        /\ n > 0 => Passed(effects[n])

\* The effects there are lie within a budget.
Below(T, limit) ==
    \A n \in 0 .. Len(effects) - 1 : T[n].at = "parent" => T[n].consumed \in Nat /\ T[n].consumed < limit

-----------------------------------------------------------------------------
(* The inductive invariant.                                                *)

Continuing == results = <<>> \/ results[Len(results)].status = "continue"

CurrentCheckpoint == IF results = <<>> THEN NoCheckpoint ELSE results[Len(results)].state.checkpoint

\* A reflection that was billed is recorded.
Billed(call) ==
    \E n \in DOMAIN effects : call = <<"reflection", n - 1>> /\ effects[n].result # <<>>

ShapeInv ==
    /\ \E S : effects \in Seq(S)
    /\ \E S : results \in Seq(S)
    /\ \A n \in DOMAIN effects :
           effects[n] = [request |-> effects[n].request, resolution |-> effects[n].resolution,
                         result |-> effects[n].result]

\* No two Step Results share evidence or usage.
DisjointInv ==
    \A i, j \in DOMAIN results : i # j =>
        /\ \A e \in results[i].evidence, f \in results[j].evidence : e.id # f.id
        /\ \A call \in results[i].usage : call \notin results[j].usage

\* The calls of the process so far are on no Step Result.
Unreported(calls) ==
    \A call \in calls : Billed(call) /\ \A i \in DOMAIN results : call \notin results[i].usage

UsageInv ==
    /\ \A i \in DOMAIN results : \A call \in results[i].usage : Billed(call)
    /\ Unreported(usage)

\* A chain that has ended has all the evaluations.
SettledInv == ~Continuing => Evaluations \subseteq RecordedEvidence(results)

PhaseInv ==
    /\ pc \in {"invoke", "search", "effect"} => Continuing /\ req.checkpoint = CurrentCheckpoint /\ ckpt = None
    /\ final # None => pc = "down" /\ ~Continuing

StoreInv == ShapeInv /\ DisjointInv /\ UsageInv /\ SettledInv /\ PhaseInv

\* The state of a search, field by field
State(at, limit, consumed, ordinal, pool, child, before, attempt, skipped) ==
    [at |-> at, limit |-> limit, consumed |-> consumed, ordinal |-> ordinal, pool |-> pool,
     child |-> child, before |-> before, attempt |-> attempt, skipped |-> skipped]

SearchShape(s) ==
    \E at \in {"seed", "parent", "reflect", "child", "value", "stop"},
       limit \in Nat, consumed \in Nat, ordinal \in Nat :
        \E pool, child, before, attempt, skipped :
            s = State(at, limit, consumed, ordinal, pool, child, before, attempt, skipped)

\* A search stops where its budget says so.
Budgeted(s) ==
    /\ s.at = "stop" => s.consumed >= s.limit
    /\ s.at = "parent" => s.consumed < s.limit

\* The running search is on the trail and has touched every evaluation behind it.
SearchInv(T) ==
    pc \in {"search", "effect"} =>
        /\ SearchShape(search) /\ Budgeted(search)
        /\ search.limit = NextBudget(req.checkpoint, MaxMetricCalls)
        /\ search.ordinal <= Len(effects)
        /\ Unlimited(search) = Reached(T, search.ordinal)
        /\ search.ordinal > 0 => Passed(effects[search.ordinal])
        /\ \A n \in 1 .. search.ordinal :
               effects[n].request.kind = "evaluate" => \E t \in touched : t.id = n - 1
        /\ pc = "effect" => /\ search.at # "stop" /\ search.ordinal < Len(effects)
                            /\ effects[search.ordinal + 1].request = Request

\* An output that is not bound yet reports what no Step Result has; if it goes on its
\* checkpoint is past all effects, and if it ends the run it completes the evidence.
OutputInv(T, o) ==
    /\ \A e \in o.evidence : e.id \notin RecordedEvidence(results)
    /\ Unreported(o.usage)
    /\ o.status = "continue" =>
           o.state.checkpoint.consumed \in Nat /\ Below(T, NextBudget(o.state.checkpoint, MaxMetricCalls))
    /\ o.status # "continue" =>
           \A id \in Evaluations : id \in RecordedEvidence(results) \/ \E e \in o.evidence : e.id = id

TrailInv(T) ==
    /\ Trail(T)
    /\ Continuing => CurrentCheckpoint.consumed \in Nat /\ Below(T, NextBudget(CurrentCheckpoint, MaxMetricCalls))
    /\ SearchInv(T)
    /\ pc \in {"emit", "resolve", "parked"} => OutputInv(T, out)
    /\ ckpt # None => OutputInv(T, ckpt)

GepaInv == StoreInv /\ \E T : TrailInv(T)

\* A run without a budget never has a search, nor an effect.
BudgetInv ==
    /\ MaxMetricCalls \in Nat
    /\ MaxMetricCalls = 0 => effects = <<>> /\ pc \notin {"search", "effect"}

IInv == run.key = "gepa" => GepaInv /\ BudgetInv

-----------------------------------------------------------------------------
(* The search.                                                             *)

\* The fields of a search.
LEMMA Fields ==
    ASSUME NEW at \in {"seed", "parent", "reflect", "child", "value", "stop"},
           NEW limit \in Nat, NEW consumed \in Nat, NEW ordinal \in Nat,
           NEW pool, NEW child, NEW before, NEW attempt, NEW skipped,
           NEW s, s = State(at, limit, consumed, ordinal, pool, child, before, attempt, skipped)
    PROVE  /\ SearchShape(s)
           /\ s.at = at /\ s.limit = limit /\ s.consumed = consumed /\ s.ordinal = ordinal
           /\ s.pool = pool /\ s.before = before /\ s.attempt = attempt /\ s.skipped = skipped
           /\ at = "stop" =>
                Unlimited(s) = State("parent", 0, consumed, ordinal, pool, child, before, attempt, skipped)
           /\ at # "stop" =>
                Unlimited(s) = State(at, 0, consumed, ordinal, pool, child, before, attempt, skipped)
  <1>1. SearchShape(s)
    BY DEF SearchShape
  <1>2. /\ s.at = at /\ s.limit = limit /\ s.consumed = consumed /\ s.ordinal = ordinal
        /\ s.pool = pool /\ s.before = before /\ s.attempt = attempt /\ s.skipped = skipped
    BY DEF State
  <1>3. ASSUME at = "stop"
        PROVE  Unlimited(s) = State("parent", 0, consumed, ordinal, pool, child, before, attempt, skipped)
    <2>1. Unlimited(s) = [s EXCEPT !.limit = 0, !.at = "parent"]
      BY <1>2, <1>3 DEF Unlimited
    <2> QED
      BY <2>1 DEF State
  <1>4. ASSUME at # "stop"
        PROVE  Unlimited(s) = State(at, 0, consumed, ordinal, pool, child, before, attempt, skipped)
    <2>1. Unlimited(s) = [s EXCEPT !.limit = 0, !.at = at]
      BY <1>2, <1>4 DEF Unlimited
    <2> QED
      BY <2>1 DEF State
  <1> QED
    BY <1>1, <1>2, <1>3, <1>4

\* A search that has not stopped, and the same without its budget
LEMMA Parts ==
    ASSUME NEW s, SearchShape(s), s.at # "stop"
    PROVE  \E at \in {"seed", "parent", "reflect", "child", "value"},
              limit \in Nat, consumed \in Nat, ordinal \in Nat :
              \E pool, child, before, attempt, skipped :
                /\ s = State(at, limit, consumed, ordinal, pool, child, before, attempt, skipped)
                /\ Unlimited(s) = State(at, 0, consumed, ordinal, pool, child, before, attempt, skipped)
                /\ s.at = at /\ s.limit = limit /\ s.consumed = consumed /\ s.ordinal = ordinal
  <1>1. PICK at \in {"seed", "parent", "reflect", "child", "value", "stop"},
             limit \in Nat, consumed \in Nat, ordinal \in Nat :
             \E pool, child, before, attempt, skipped :
               s = State(at, limit, consumed, ordinal, pool, child, before, attempt, skipped)
    BY DEF SearchShape
  <1>2. PICK pool, child, before, attempt, skipped :
               s = State(at, limit, consumed, ordinal, pool, child, before, attempt, skipped)
    BY <1>1
  <1>3. s.at = at /\ s.limit = limit /\ s.consumed = consumed /\ s.ordinal = ordinal
    BY <1>1, <1>2, Fields
  <1>4. at \in {"seed", "parent", "reflect", "child", "value"} /\ at # "stop"
    BY <1>1, <1>3
  <1>5. Unlimited(s) = State(at, 0, consumed, ordinal, pool, child, before, attempt, skipped)
    BY <1>1, <1>2, <1>4, Fields
  <1> QED
    BY <1>1, <1>2, <1>3, <1>4, <1>5

\* Between iterations the budget decides whether the search stops, and nothing else.
LEMMA Iterates ==
    ASSUME NEW at, NEW limit \in Nat, NEW consumed \in Nat, NEW ordinal \in Nat,
           NEW pool, NEW child, NEW before, NEW attempt, NEW skipped,
           NEW v, v = NextIteration(State(at, limit, consumed, ordinal, pool, child, before, attempt, skipped))
    PROVE  /\ SearchShape(v) /\ Budgeted(v) /\ v.ordinal = ordinal /\ v.limit = limit
           /\ Unlimited(v) = State("parent", 0, consumed, ordinal, pool, None, before, 0, skipped)
  <1>1. CASE consumed >= limit
    <2>1. v = State("stop", limit, consumed, ordinal, pool, None, before, 0, skipped)
      BY <1>1 DEF NextIteration, State
    <2>2. /\ SearchShape(v) /\ v.at = "stop" /\ v.limit = limit /\ v.consumed = consumed /\ v.ordinal = ordinal
          /\ Unlimited(v) = State("parent", 0, consumed, ordinal, pool, None, before, 0, skipped)
      BY <2>1, Fields
    <2> QED
      BY <1>1, <2>2 DEF Budgeted
  <1>2. CASE ~(consumed >= limit)
    <2>1. v = State("parent", limit, consumed, ordinal, pool, None, before, 0, skipped)
      BY <1>2 DEF NextIteration, State
    <2>2. /\ SearchShape(v) /\ v.at = "parent" /\ v.limit = limit /\ v.consumed = consumed /\ v.ordinal = ordinal
          /\ Unlimited(v) = State("parent", 0, consumed, ordinal, pool, None, before, 0, skipped)
      BY <2>1, Fields
    <2> QED
      BY <1>2, <2>2 DEF Budgeted
  <1> QED
    BY <1>1, <1>2

\* What an evaluation does to a search does not depend on its budget, but for the stop.
LEMMA EvaluatedAlike ==
    ASSUME NEW s, SearchShape(s), s.at # "stop",
           NEW request, Len(request.batch) \in Nat, NEW result
    PROVE  /\ SearchShape(Evaluated(s, request, result)) /\ Budgeted(Evaluated(s, request, result))
           /\ Evaluated(s, request, result).ordinal = s.ordinal + 1
           /\ Evaluated(s, request, result).limit = s.limit
           /\ Unlimited(Evaluated(s, request, result)) = Unlimited(Evaluated(Unlimited(s), request, result))
  <1>t. PICK t : t = Unlimited(s)
    OBVIOUS
  <1>a. PICK at \in {"seed", "parent", "reflect", "child", "value"},
             limit \in Nat, consumed \in Nat, ordinal \in Nat :
             \E pool, child, before, attempt, skipped :
               /\ s = State(at, limit, consumed, ordinal, pool, child, before, attempt, skipped)
               /\ t = State(at, 0, consumed, ordinal, pool, child, before, attempt, skipped)
               /\ s.at = at /\ s.limit = limit /\ s.consumed = consumed /\ s.ordinal = ordinal
    BY <1>t, Parts
  <1>b. PICK pool, child, before, attempt, skipped :
               /\ s = State(at, limit, consumed, ordinal, pool, child, before, attempt, skipped)
               /\ t = State(at, 0, consumed, ordinal, pool, child, before, attempt, skipped)
               /\ s.at = at /\ s.limit = limit /\ s.consumed = consumed /\ s.ordinal = ordinal
    BY <1>a
  <1>c. limit \in Nat /\ consumed \in Nat /\ ordinal \in Nat /\ 0 \in Nat
    BY <1>a
  <1>d. at \in {"seed", "parent", "reflect", "child", "value"}
    BY <1>a
  <1>1. PICK score : score = BatchScore(request.batch, result.rows)
    OBVIOUS
  <1>2. PICK n \in Nat, c \in Nat : n = ordinal + 1 /\ c = consumed + Len(request.batch)
    <2>1. PICK l \in Nat : l = Len(request.batch)
      OBVIOUS
    <2>2. ordinal + 1 \in Nat /\ consumed + l \in Nat
      BY <1>c
    <2> QED
      BY <2>1, <2>2
  <1>3. PICK s1, t1 : /\ s1 = [s EXCEPT !.ordinal = @ + 1, !.consumed = @ + Len(request.batch)]
                      /\ t1 = [t EXCEPT !.ordinal = @ + 1, !.consumed = @ + Len(request.batch)]
    OBVIOUS
  <1>4. /\ s1 = State(at, limit, c, n, pool, child, before, attempt, skipped)
        /\ t1 = State(at, 0, c, n, pool, child, before, attempt, skipped)
    <2>1. t = State(at, 0, consumed, ordinal, pool, child, before, attempt, skipped)
      BY <1>b
    <2>2. s = State(at, limit, consumed, ordinal, pool, child, before, attempt, skipped)
      BY <1>b
    <2>3. s1 = State(at, limit, c, n, pool, child, before, attempt, skipped)
      BY <1>2, <1>3, <2>2 DEF State
    <2>4. t1 = State(at, 0, c, n, pool, child, before, attempt, skipped)
      BY <1>2, <1>3, <2>1 DEF State
    <2> QED
      BY <2>3, <2>4
  <1>5. n \in Nat /\ c \in Nat
    BY <1>2
  <1>6. s.at = at /\ t.at = at /\ s.before = before /\ t.before = before
    BY <1>b, <1>c, <1>d, Fields
  <1>7. CASE at = "parent"
    <2>1. PICK v, w : v = [s1 EXCEPT !.at = "reflect", !.before = score]
                      /\ w = [t1 EXCEPT !.at = "reflect", !.before = score]
      OBVIOUS
    <2>2. /\ v = State("reflect", limit, c, n, pool, child, score, attempt, skipped)
          /\ w = State("reflect", 0, c, n, pool, child, score, attempt, skipped)
      BY <1>4, <2>1 DEF State
    <2>3. Evaluated(s, request, result) = v /\ Evaluated(t, request, result) = w
      BY <1>1, <1>3, <1>6, <1>7, <2>1 DEF Evaluated
    <2>4. SearchShape(v) /\ v.at = "reflect" /\ v.limit = limit /\ v.ordinal = n /\ Unlimited(v) = Unlimited(w)
      BY <1>c, <1>5, <2>2, Fields
    <2> QED
      BY <1>t, <1>b, <1>2, <2>3, <2>4 DEF Budgeted
  <1>8. CASE at = "child" /\ score > before
    <2>1. PICK v, w : v = [s1 EXCEPT !.at = "value"] /\ w = [t1 EXCEPT !.at = "value"]
      OBVIOUS
    <2>2. /\ v = State("value", limit, c, n, pool, child, before, attempt, skipped)
          /\ w = State("value", 0, c, n, pool, child, before, attempt, skipped)
      BY <1>4, <2>1 DEF State
    <2>3. Evaluated(s, request, result) = v /\ Evaluated(t, request, result) = w
      BY <1>1, <1>3, <1>6, <1>8, <2>1 DEF Evaluated
    <2>4. SearchShape(v) /\ v.at = "value" /\ v.limit = limit /\ v.ordinal = n /\ Unlimited(v) = Unlimited(w)
      BY <1>c, <1>5, <2>2, Fields
    <2> QED
      BY <1>t, <1>b, <1>2, <2>3, <2>4 DEF Budgeted
  <1>9. CASE at = "child" /\ ~(score > before)
    <2>1. Evaluated(s, request, result) = NextIteration(s1) /\ Evaluated(t, request, result) = NextIteration(t1)
      BY <1>1, <1>3, <1>6, <1>9 DEF Evaluated
    <2>2. PICK v, w : v = NextIteration(s1) /\ w = NextIteration(t1)
      OBVIOUS
    <2>3. /\ SearchShape(v) /\ Budgeted(v) /\ v.ordinal = n /\ v.limit = limit
          /\ Unlimited(v) = State("parent", 0, c, n, pool, None, before, 0, skipped)
      BY <1>4, <1>c, <1>5, <2>2, Iterates
    <2>4. Unlimited(w) = State("parent", 0, c, n, pool, None, before, 0, skipped)
      BY <1>4, <1>c, <1>5, <2>2, Iterates
    <2> QED
      BY <1>t, <1>b, <1>2, <2>1, <2>2, <2>3, <2>4
  <1>10. CASE at \notin {"parent", "child"}
    <2>1. PICK p : p = Append(pool, [text |-> request.text, score |-> score])
      OBVIOUS
    <2>2. PICK s2, t2 : /\ s2 = [s1 EXCEPT !.pool = Append(@, [text |-> request.text, score |-> score])]
                        /\ t2 = [t1 EXCEPT !.pool = Append(@, [text |-> request.text, score |-> score])]
      OBVIOUS
    <2>3. /\ s2 = State(at, limit, c, n, p, child, before, attempt, skipped)
          /\ t2 = State(at, 0, c, n, p, child, before, attempt, skipped)
      BY <1>4, <2>1, <2>2 DEF State
    <2>4. Evaluated(s, request, result) = NextIteration(s2) /\ Evaluated(t, request, result) = NextIteration(t2)
      BY <1>1, <1>3, <1>6, <1>10, <2>2 DEF Evaluated
    <2>5. PICK v, w : v = NextIteration(s2) /\ w = NextIteration(t2)
      OBVIOUS
    <2>6. /\ SearchShape(v) /\ Budgeted(v) /\ v.ordinal = n /\ v.limit = limit
          /\ Unlimited(v) = State("parent", 0, c, n, p, None, before, 0, skipped)
      BY <1>c, <1>5, <2>3, <2>5, Iterates
    <2>7. Unlimited(w) = State("parent", 0, c, n, p, None, before, 0, skipped)
      BY <1>c, <1>5, <2>3, <2>5, Iterates
    <2> QED
      BY <1>t, <1>b, <1>2, <2>4, <2>5, <2>6, <2>7
  <1> QED
    BY <1>d, <1>7, <1>8, <1>9, <1>10

\* Neither does what a reflection does.
LEMMA ReflectedAlike ==
    ASSUME NEW s, SearchShape(s), s.at \notin {"stop", "parent"},
           NEW result
    PROVE  /\ SearchShape(Reflected(s, result)) /\ Budgeted(Reflected(s, result))
           /\ Reflected(s, result).ordinal = s.ordinal + 1
           /\ Reflected(s, result).limit = s.limit
           /\ Unlimited(Reflected(s, result)) = Unlimited(Reflected(Unlimited(s), result))
  <1>t. PICK t : t = Unlimited(s)
    OBVIOUS
  <1>a. PICK at \in {"seed", "parent", "reflect", "child", "value"},
             limit \in Nat, consumed \in Nat, ordinal \in Nat :
             \E pool, child, before, attempt, skipped :
               /\ s = State(at, limit, consumed, ordinal, pool, child, before, attempt, skipped)
               /\ t = State(at, 0, consumed, ordinal, pool, child, before, attempt, skipped)
               /\ s.at = at /\ s.limit = limit /\ s.consumed = consumed /\ s.ordinal = ordinal
    BY <1>t, Parts
  <1>b. PICK pool, child, before, attempt, skipped :
               /\ s = State(at, limit, consumed, ordinal, pool, child, before, attempt, skipped)
               /\ t = State(at, 0, consumed, ordinal, pool, child, before, attempt, skipped)
               /\ s.at = at /\ s.limit = limit /\ s.consumed = consumed /\ s.ordinal = ordinal
    BY <1>a
  <1>c. limit \in Nat /\ consumed \in Nat /\ ordinal \in Nat /\ 0 \in Nat
    BY <1>a
  <1>d. at \in {"seed", "parent", "reflect", "child", "value"}
    BY <1>a
  <1>1. PICK n \in Nat : n = ordinal + 1
    BY <1>c
  <1>2. PICK s1, t1 : s1 = [s EXCEPT !.ordinal = @ + 1] /\ t1 = [t EXCEPT !.ordinal = @ + 1]
    OBVIOUS
  <1>3. /\ s1 = State(at, limit, consumed, n, pool, child, before, attempt, skipped)
        /\ t1 = State(at, 0, consumed, n, pool, child, before, attempt, skipped)
    BY <1>b, <1>1, <1>2 DEF State
  <1>4. s.ordinal = ordinal /\ s.attempt = attempt /\ t.ordinal = ordinal /\ t.attempt = attempt
    BY <1>b, <1>c, <1>d, Fields
  <1>5. PICK note : note = skipped \cup {<<ordinal, attempt>>}
    OBVIOUS
  <1>6. PICK s2, t2 : /\ s2 = [s1 EXCEPT !.skipped = @ \cup {<<s.ordinal, s.attempt>>}]
                      /\ t2 = [t1 EXCEPT !.skipped = @ \cup {<<t.ordinal, t.attempt>>}]
    OBVIOUS
  <1>7. /\ s2 = State(at, limit, consumed, n, pool, child, before, attempt, note)
        /\ t2 = State(at, 0, consumed, n, pool, child, before, attempt, note)
    BY <1>3, <1>4, <1>5, <1>6 DEF State
  <1>8. CASE ~result.rejected
    <2>1. PICK text : text = result.text
      OBVIOUS
    <2>2. PICK v, w : /\ v = [s1 EXCEPT !.at = "child", !.child = result.text]
                      /\ w = [t1 EXCEPT !.at = "child", !.child = result.text]
      OBVIOUS
    <2>3. /\ v = State("child", limit, consumed, n, pool, text, before, attempt, skipped)
          /\ w = State("child", 0, consumed, n, pool, text, before, attempt, skipped)
      BY <1>3, <2>1, <2>2 DEF State
    <2>4. Reflected(s, result) = v /\ Reflected(t, result) = w
      BY <1>2, <1>8, <2>2 DEF Reflected
    <2>5. SearchShape(v) /\ v.at = "child" /\ v.limit = limit /\ v.ordinal = n /\ Unlimited(v) = Unlimited(w)
      BY <1>c, <1>1, <2>3, Fields
    <2> QED
      BY <1>t, <1>b, <1>1, <2>4, <2>5 DEF Budgeted
  <1>9. CASE result.rejected /\ attempt + 1 < MaxAttempts
    <2>1. PICK k : k = attempt + 1
      OBVIOUS
    <2>a. PICK v, w : v = [s2 EXCEPT !.attempt = @ + 1] /\ w = [t2 EXCEPT !.attempt = @ + 1]
      OBVIOUS
    <2>2. /\ v = State(at, limit, consumed, n, pool, child, before, k, note)
          /\ w = State(at, 0, consumed, n, pool, child, before, k, note)
      BY <1>7, <2>1, <2>a DEF State
    <2>3. Reflected(s, result) = v /\ Reflected(t, result) = w
      BY <1>2, <1>4, <1>6, <1>9, <2>a DEF Reflected
    <2>4. SearchShape(v) /\ v.at = at /\ v.limit = limit /\ v.ordinal = n /\ Unlimited(v) = Unlimited(w)
      BY <1>c, <1>d, <1>1, <2>2, Fields
    <2> QED
      BY <1>t, <1>b, <1>1, <2>3, <2>4 DEF Budgeted
  <1>10. CASE result.rejected /\ ~(attempt + 1 < MaxAttempts)
    <2>1. Reflected(s, result) = NextIteration(s2) /\ Reflected(t, result) = NextIteration(t2)
      BY <1>2, <1>4, <1>6, <1>10 DEF Reflected
    <2>2. PICK v, w : v = NextIteration(s2) /\ w = NextIteration(t2)
      OBVIOUS
    <2>3. /\ SearchShape(v) /\ Budgeted(v) /\ v.ordinal = n /\ v.limit = limit
          /\ Unlimited(v) = State("parent", 0, consumed, n, pool, None, before, 0, note)
      BY <1>1, <1>c, <1>7, <2>2, Iterates
    <2>4. Unlimited(w) = State("parent", 0, consumed, n, pool, None, before, 0, note)
      BY <1>1, <1>c, <1>7, <2>2, Iterates
    <2> QED
      BY <1>t, <1>b, <1>1, <2>1, <2>2, <2>3, <2>4
  <1> QED
    BY <1>8, <1>9, <1>10

\* An answer takes a search one effect further along the trail.
LEMMA AnsweredSearch ==
    ASSUME NEW s, SearchShape(s), s.at # "stop", NEW e,
           e.request.kind = "evaluate" => Len(e.request.batch) \in Nat,
           e.request.kind # "evaluate" => s.at # "parent",
           NEW v,
           e.request.kind = "evaluate" => v = Evaluated(s, e.request, e.result[1]),
           e.request.kind # "evaluate" => v = Reflected(s, e.result[1])
    PROVE  /\ SearchShape(v) /\ Budgeted(v) /\ v.ordinal = s.ordinal + 1 /\ v.limit = s.limit
           /\ Unlimited(v) = After(Unlimited(s), e)
  <1>1. PICK t : t = Unlimited(s)
    OBVIOUS
  <1>2. CASE e.request.kind = "evaluate"
    <2>1. v = Evaluated(s, e.request, e.result[1]) /\ Len(e.request.batch) \in Nat
      BY <1>2
    <2>2. After(t, e) = Unlimited(Evaluated(t, e.request, e.result[1]))
      BY <1>2 DEF After
    <2> QED
      BY <1>1, <2>1, <2>2, EvaluatedAlike
  <1>3. CASE e.request.kind # "evaluate"
    <2>1. v = Reflected(s, e.result[1]) /\ s.at \notin {"stop", "parent"}
      BY <1>3
    <2>2. After(t, e) = Unlimited(Reflected(t, e.result[1]))
      BY <1>3 DEF After
    <2> QED
      BY <1>1, <2>1, <2>2, ReflectedAlike
  <1> QED
    BY <1>2, <1>3

-----------------------------------------------------------------------------
(* What every step keeps.                                                  *)

\* A step leaves the chain alone, and a recorded effect as it was.
Kept ==
    /\ results' = results /\ MaxMetricCalls' = MaxMetricCalls
    /\ Len(effects') = Len(effects)
    /\ \A n \in 1 .. Len(effects) :
           /\ effects'[n].request = effects[n].request
           /\ effects[n].result = <<>> \/ effects'[n].result = effects[n].result

\* The store and the effects are sequences.
LEMMA Domains ==
    ASSUME ShapeInv
    PROVE  /\ Len(effects) \in Nat /\ DOMAIN effects = 1 .. Len(effects)
           /\ Len(results) \in Nat /\ DOMAIN results = 1 .. Len(results)
           /\ results # <<>> => Len(results) > 0
           /\ \A n \in 1 .. Len(effects) :
                  effects[n] = [request |-> effects[n].request, resolution |-> effects[n].resolution,
                                result |-> effects[n].result]
  <1>1. PICK S : effects \in Seq(S)
    BY DEF ShapeInv
  <1>2. PICK R : results \in Seq(R)
    BY DEF ShapeInv
  <1>3. /\ Len(effects) \in Nat /\ DOMAIN effects = 1 .. Len(effects)
        /\ Len(results) \in Nat /\ DOMAIN results = 1 .. Len(results)
    BY <1>1, <1>2, LenProperties
  <1>4. results # <<>> => Len(results) > 0
    BY <1>2, EmptySeq, LenProperties
  <1> QED
    BY <1>3, <1>4 DEF ShapeInv

\* The trail, and what is on the chain, stay as they are.
LEMMA Frame ==
    ASSUME StoreInv, ShapeInv', Kept, NEW T, Trail(T)
    PROVE  /\ Trail(T)'
           /\ Continuing' <=> Continuing
           /\ CurrentCheckpoint' = CurrentCheckpoint
           /\ RecordedEvidence(results)' = RecordedEvidence(results)
           /\ Evaluations' = Evaluations
           /\ DisjointInv'
           /\ SettledInv'
           /\ \A i \in DOMAIN results' : \A call \in results'[i].usage : Billed(call)'
           /\ \A calls : Unreported(calls) => Unreported(calls)'
           /\ \A limit : Below(T, limit) => Below(T, limit)'
           /\ \A n \in 0 .. Len(effects) :
                  (n > 0 => Passed(effects[n])) =>
                      /\ Reached(T, n)' = Reached(T, n)
                      /\ n > 0 => Passed(effects[n])'
  <1>1. ShapeInv /\ DisjointInv /\ UsageInv /\ SettledInv
    BY DEF StoreInv
  <1>2. /\ Len(effects) \in Nat /\ DOMAIN effects = 1 .. Len(effects)
        /\ Len(results) \in Nat /\ DOMAIN results = 1 .. Len(results)
    BY <1>1, Domains
  <1>3. /\ Len(effects') \in Nat /\ DOMAIN effects' = 1 .. Len(effects')
    <2>1. PICK S : effects' \in Seq(S)
      BY DEF ShapeInv
    <2> QED
      BY <2>1, LenProperties
  <1>4. Len(effects') = Len(effects) /\ results' = results /\ DOMAIN effects' = DOMAIN effects
    BY <1>2, <1>3 DEF Kept
  <1>5. ASSUME NEW n \in 0 .. Len(effects), n > 0 => Passed(effects[n])
        PROVE  Reached(T, n)' = Reached(T, n) /\ (n > 0 => Passed(effects[n])')
    <2>1. CASE n = 0
      BY <2>1 DEF Reached
    <2>2. CASE n > 0
      <3>1. n \in 1 .. Len(effects)
        BY <1>2, <2>2
      <3>2. effects'[n].request = effects[n].request /\ effects'[n].result = effects[n].result
        BY <1>5, <2>2, <3>1 DEF Kept, Passed
      <3>3. Passed(effects[n])'
        BY <1>5, <2>2, <3>2 DEF Passed
      <3>4. After(T[n - 1], effects'[n]) = After(T[n - 1], effects[n])
        BY <3>2 DEF After
      <3> QED
        BY <2>2, <3>3, <3>4 DEF Reached
    <2> QED
      BY <1>2, <2>1, <2>2
  <1>6. Trail(T)'
    <2> SUFFICES ASSUME NEW n \in 0 .. Len(effects') - 1
                 PROVE  /\ T[n] = Reached(T, n)' /\ effects'[n + 1].request = NextEffect(T[n])
                        /\ n > 0 => Passed(effects[n])'
      BY DEF Trail
    <2>1. n \in 0 .. Len(effects) - 1 /\ n \in 0 .. Len(effects) /\ n + 1 \in 1 .. Len(effects)
      BY <1>2, <1>4
    <2>2. T[n] = Reached(T, n) /\ effects[n + 1].request = NextEffect(T[n]) /\ (n > 0 => Passed(effects[n]))
      BY <2>1 DEF Trail
    <2> QED
      BY <1>5, <2>1, <2>2 DEF Kept
  <1>7. /\ Continuing' <=> Continuing
        /\ CurrentCheckpoint' = CurrentCheckpoint
        /\ RecordedEvidence(results)' = RecordedEvidence(results)
        /\ DisjointInv'
    BY <1>1, <1>4 DEF Continuing, CurrentCheckpoint, DisjointInv, RecordedEvidence
  <1>8. Evaluations' = Evaluations
    <2>1. \A k \in DOMAIN effects : effects'[k].request = effects[k].request
      BY <1>2 DEF Kept
    <2> QED
      BY <1>4, <2>1 DEF Evaluations
  <1>9. SettledInv'
    BY <1>1, <1>7, <1>8 DEF SettledInv
  <1>10. ASSUME NEW call, Billed(call)
         PROVE  Billed(call)'
    <2>1. PICK n \in DOMAIN effects : call = <<"reflection", n - 1>> /\ effects[n].result # <<>>
      BY <1>10 DEF Billed
    <2>2. effects'[n].result # <<>> /\ n \in DOMAIN effects'
      BY <1>2, <1>4, <2>1 DEF Kept
    <2> QED
      BY <2>1, <2>2 DEF Billed
  <1>11. \A i \in DOMAIN results' : \A call \in results'[i].usage : Billed(call)'
    BY <1>1, <1>4, <1>10 DEF UsageInv
  <1>12. \A calls : Unreported(calls) => Unreported(calls)'
    BY <1>4, <1>10 DEF Unreported
  <1>13. \A limit : Below(T, limit) => Below(T, limit)'
    BY <1>4 DEF Below
  <1> QED
    BY <1>5, <1>6, <1>7, <1>8, <1>9, <1>11, <1>12, <1>13

\* An output that is not bound yet
LEMMA FrameOutput ==
    ASSUME StoreInv, ShapeInv', Kept, NEW T, Trail(T), NEW o, OutputInv(T, o)
    PROVE  OutputInv(T, o)'
  <1>1. /\ RecordedEvidence(results)' = RecordedEvidence(results)
        /\ Evaluations' = Evaluations
        /\ Unreported(o.usage) => Unreported(o.usage)'
        /\ \A limit : Below(T, limit) => Below(T, limit)'
    BY Frame
  <1>2. PICK limit : limit = NextBudget(o.state.checkpoint, MaxMetricCalls)
    OBVIOUS
  <1>3. NextBudget(o.state.checkpoint, MaxMetricCalls)' = limit
    BY <1>2 DEF Kept
  <1>4. Below(T, NextBudget(o.state.checkpoint, MaxMetricCalls)) =>
            Below(T, NextBudget(o.state.checkpoint, MaxMetricCalls))'
    BY <1>1, <1>2, <1>3 DEF Below
  <1> QED
    BY <1>1, <1>4 DEF OutputInv

\* The effects stay within the budget of the chain's checkpoint.
LEMMA FrameCheckpoint ==
    ASSUME StoreInv, ShapeInv', Kept, NEW T, TrailInv(T)
    PROVE  Continuing' => CurrentCheckpoint'.consumed \in Nat /\ Below(T, NextBudget(CurrentCheckpoint, MaxMetricCalls))'
  <1>1. Trail(T)
    BY DEF TrailInv
  <1>2. (Continuing' <=> Continuing) /\ CurrentCheckpoint' = CurrentCheckpoint
    BY <1>1, Frame
  <1>3. PICK limit : limit = NextBudget(CurrentCheckpoint, MaxMetricCalls)
    OBVIOUS
  <1>4. Below(T, limit) => Below(T, limit)'
    BY <1>1, Frame
  <1>5. NextBudget(CurrentCheckpoint, MaxMetricCalls)' = limit
    BY <1>2, <1>3 DEF Kept
  <1> QED
    BY <1>2, <1>3, <1>4, <1>5 DEF Below, TrailInv

\* An exception or a crash leaves the invariant.
LEMMA DownStep ==
    ASSUME StoreInv, ShapeInv', Kept, NEW T, TrailInv(T),
           pc' = "down", Forget, ckpt' \in {ckpt, None}, final' = None \/ ~Continuing
    PROVE  GepaInv'
  <1>1. Trail(T)
    BY DEF TrailInv
  <1>2. /\ Trail(T)' /\ (Continuing' <=> Continuing) /\ CurrentCheckpoint' = CurrentCheckpoint
        /\ DisjointInv' /\ SettledInv'
        /\ \A i \in DOMAIN results' : \A call \in results'[i].usage : Billed(call)'
    BY <1>1, Frame
  <1>3. UsageInv'
    <2>1. usage' = {}
      BY DEF Forget
    <2> QED
      BY <1>2, <2>1 DEF UsageInv, Unreported
  <1>4. PhaseInv'
    BY <1>2 DEF PhaseInv
  <1>5. TrailInv(T)'
    <2>1. Continuing' => /\ CurrentCheckpoint'.consumed \in Nat
                         /\ Below(T, NextBudget(CurrentCheckpoint, MaxMetricCalls))'
      BY FrameCheckpoint
    <2>2. SearchInv(T)'
      BY DEF SearchInv
    <2>3. ckpt' # None => OutputInv(T, ckpt)'
      <3>1. SUFFICES ASSUME ckpt' # None PROVE OutputInv(T, ckpt)'
        OBVIOUS
      <3>2. PICK o : o = ckpt
        OBVIOUS
      <3>3. ckpt' = o /\ OutputInv(T, o)
        BY <3>1, <3>2 DEF TrailInv
      <3>4. OutputInv(T, o)'
        BY <1>1, <3>3, FrameOutput
      <3> QED
        BY <3>3, <3>4 DEF OutputInv
    <2> QED
      BY <1>2, <2>1, <2>2, <2>3 DEF TrailInv
  <1> QED
    BY <1>2, <1>3, <1>4, <1>5 DEF GepaInv, StoreInv

\* A step outside the search, which starts a step or goes on with an output
LEMMA OutsideStep ==
    ASSUME StoreInv, ShapeInv', Kept, NEW T, TrailInv(T),
           pc' \notin {"down", "search", "effect"}, final' = None,
           pc' = "invoke" => Continuing /\ req'.checkpoint = CurrentCheckpoint /\ ckpt' = None,
           ckpt' # None => OutputInv(T, ckpt'),
           pc' \in {"emit", "resolve", "parked"} => OutputInv(T, out'),
           Unreported(usage')
    PROVE  GepaInv'
  <1>1. Trail(T)
    BY DEF TrailInv
  <1>2. /\ Trail(T)' /\ (Continuing' <=> Continuing) /\ CurrentCheckpoint' = CurrentCheckpoint
        /\ DisjointInv' /\ SettledInv'
        /\ \A i \in DOMAIN results' : \A call \in results'[i].usage : Billed(call)'
    BY <1>1, Frame
  <1>3. UsageInv'
    <2>1. PICK calls : calls = usage'
      OBVIOUS
    <2>2. Unreported(calls)'
      BY <1>1, <2>1, Frame
    <2> QED
      BY <1>2, <2>1, <2>2 DEF UsageInv, Unreported
  <1>4. PhaseInv'
    BY <1>2 DEF PhaseInv
  <1>5. \A o : OutputInv(T, o) => OutputInv(T, o)'
    BY <1>1, FrameOutput
  <1>6. TrailInv(T)'
    <2>1. SearchInv(T)'
      BY DEF SearchInv
    <2>2. ckpt' # None => OutputInv(T, ckpt)'
      <3>1. PICK o : o = ckpt'
        OBVIOUS
      <3> QED
        BY <1>5, <3>1 DEF OutputInv
    <2>3. pc' \in {"emit", "resolve", "parked"} => OutputInv(T, out)'
      <3>1. PICK o : o = out'
        OBVIOUS
      <3> QED
        BY <1>5, <3>1 DEF OutputInv
    <2> QED
      BY <1>2, <2>1, <2>2, <2>3, FrameCheckpoint DEF TrailInv
  <1> QED
    BY <1>2, <1>3, <1>4, <1>6 DEF GepaInv, StoreInv

\* A step that writes neither the effects nor the chain
LEMMA Still ==
    ASSUME ShapeInv, effects' = effects, results' = results, run' = run
    PROVE  Kept /\ ShapeInv'
  BY DEF Kept, ShapeInv, MaxMetricCalls

\* An exception leaves what is durable.
LEMMA RaiseStep ==
    ASSUME StoreInv, ShapeInv', Kept, NEW T, TrailInv(T), NEW reason, Raise(reason),
           ckpt' = ckpt, final' = final
    PROVE  GepaInv'
  <1>1. pc' = "down" /\ Forget
    BY DEF Raise
  <1>2. final' = None \/ ~Continuing
    BY DEF StoreInv, PhaseInv
  <1> QED
    BY <1>1, <1>2, DownStep

-----------------------------------------------------------------------------
(* The controller and the harness.                                         *)

\* The next turn of the controller's loop
LEMMA TurnStep ==
    ASSUME run.key = "gepa", GepaInv, Turn, UNCHANGED <<run, durable>>, final = None
    PROVE  GepaInv'
  <1>1. PICK T : TrailInv(T)
    BY DEF GepaInv
  <1>2. StoreInv /\ ShapeInv /\ ckpt' = ckpt /\ final' = None /\ Kept /\ ShapeInv'
    BY Still DEF GepaInv, StoreInv, durable
  <1>3. CASE results # <<>> /\ Last(results).status # "continue"
    <2>1. pc' = "terminalize" /\ usage' = {}
      BY <1>3 DEF Turn, Forget
    <2>2. ckpt' # None => OutputInv(T, ckpt')
      BY <1>1, <1>2 DEF TrailInv
    <2>3. Unreported(usage')
      BY <2>1 DEF Unreported
    <2> QED
      BY <1>1, <1>2, <2>1, <2>2, <2>3, OutsideStep
  <1>4. CASE ~(results # <<>> /\ Last(results).status # "continue")
    <2>1. ~Unmeasured(results)
      BY DEF Unmeasured
    <2>2. /\ RequestAfter(results, req') /\ out' = ckpt /\ usage' = {}
          /\ pc' = IF ckpt = None THEN "invoke" ELSE "resolve"
      BY <1>4, <2>1 DEF Turn
    <2>3. Continuing
      BY <1>4 DEF Continuing, Last
    <2>4. req'.checkpoint = CurrentCheckpoint
      <3>1. CASE results = <<>>
        <4>1. req' = GepaFirst(Terminal, stage, MaxMetricCalls)
          BY <2>2, <3>1 DEF RequestAfter
        <4> QED
          BY <3>1, <4>1 DEF GepaFirst, CurrentCheckpoint
      <3>2. CASE results # <<>>
        <4>1. req' = GepaNext(results, Terminal, stage)
          BY <2>2, <3>2 DEF RequestAfter
        <4> QED
          BY <3>2, <4>1 DEF GepaNext, CurrentCheckpoint
      <3> QED
        BY <3>1, <3>2
    <2>5. ckpt' # None => OutputInv(T, ckpt')
      BY <1>1, <1>2 DEF TrailInv
    <2>6. pc' \in {"emit", "resolve", "parked"} => OutputInv(T, out')
      BY <1>1, <2>2 DEF TrailInv
    <2>7. Unreported(usage')
      BY <2>2 DEF Unreported
    <2> QED
      BY <1>1, <1>2, <2>2, <2>3, <2>4, <2>5, <2>6, <2>7, OutsideStep
  <1> QED
    BY <1>3, <1>4

\* drive starts from the chain, or raises when a request does not rebuild.
LEMMA DriveStep ==
    ASSUME run.key = "gepa", GepaInv, Drive
    PROVE  GepaInv'
  <1>1. PICK T : TrailInv(T)
    BY DEF GepaInv
  <1>2. UNCHANGED <<run, durable>> /\ final = None
    BY DEF Drive
  <1>3. CASE run.platform \/ Rebuilds(results)
    <2>1. Turn
      BY <1>3 DEF Drive
    <2> QED
      BY <1>2, <2>1, TurnStep
  <1>4. CASE ~(run.platform \/ Rebuilds(results))
    <2>1. Raise("conflict")
      BY <1>4 DEF Drive
    <2>2. StoreInv /\ ShapeInv /\ ckpt' = ckpt /\ final' = final /\ Kept /\ ShapeInv'
      BY <1>2, Still DEF GepaInv, StoreInv, durable
    <2> QED
      BY <1>1, <2>1, <2>2, RaiseStep
  <1> QED
    BY <1>3, <1>4

\* The loop of drive goes on after a step.
LEMMA AdvanceStep ==
    ASSUME run.key = "gepa", GepaInv, Advance
    PROVE  GepaInv'
  <1>1. Turn /\ UNCHANGED <<run, durable>> /\ pc = "next"
    BY DEF Advance
  <1>2. final = None
    BY <1>1 DEF GepaInv, StoreInv, PhaseInv
  <1> QED
    BY <1>1, <1>2, TurnStep

\* The run gets its result only from a chain that has ended.
LEMMA TerminalizeStep ==
    ASSUME GepaInv, TerminalizeRun
    PROVE  GepaInv'
  <1>1. PICK T : TrailInv(T)
    BY DEF GepaInv
  <1>2. /\ StoreInv /\ ShapeInv /\ effects' = effects /\ results' = results /\ ckpt' = ckpt
        /\ Kept /\ ShapeInv'
    BY Still DEF GepaInv, StoreInv, TerminalizeRun
  <1>3. CASE OptimResultValid(results, Terminal, Last(results).accepted)
    <2>1. pc' = "down" /\ Forget
      BY <1>3 DEF TerminalizeRun
    <2>2. ~Continuing
      <3>1. /\ results # <<>>
            /\ \A i \in DOMAIN results : (results[i].status = "continue") <=> (i < Len(results))
        BY <1>3 DEF OptimResultValid
      <3>2. Len(results) \in DOMAIN results /\ ~(Len(results) < Len(results))
        BY <1>2, <3>1, Domains
      <3> QED
        BY <3>1, <3>2 DEF Continuing
    <2> QED
      BY <1>1, <1>2, <2>1, <2>2, DownStep
  <1>4. CASE ~OptimResultValid(results, Terminal, Last(results).accepted)
    <2>1. Raise("terminal") /\ final' = final
      BY <1>4 DEF TerminalizeRun
    <2> QED
      BY <1>1, <1>2, <2>1, RaiseStep
  <1> QED
    BY <1>3, <1>4

\* A step of the harness that keeps the output it holds
LEMMA HoldStep ==
    ASSUME GepaInv, effects' = effects, results' = results, run' = run, final' = final, UNCHANGED memory,
           pc \in {"emit", "resolve", "parked"}, pc' \in {"emit", "resolve", "parked"},
           ckpt' \in {ckpt, out}
    PROVE  GepaInv'
  <1>1. PICK T : TrailInv(T)
    BY DEF GepaInv
  <1>2. StoreInv /\ ShapeInv /\ Kept /\ ShapeInv'
    BY Still DEF GepaInv, StoreInv
  <1>3. final' = None
    BY <1>2 DEF StoreInv, PhaseInv
  <1>4. out' = out /\ usage' = usage
    BY DEF memory
  <1>5. OutputInv(T, out) /\ (ckpt # None => OutputInv(T, ckpt))
    BY <1>1 DEF TrailInv
  <1>6. OutputInv(T, out') /\ (ckpt' # None => OutputInv(T, ckpt'))
    BY <1>4, <1>5
  <1>7. Unreported(usage')
    BY <1>2, <1>4 DEF StoreInv, UsageInv
  <1> QED
    BY <1>1, <1>2, <1>3, <1>6, <1>7, OutsideStep

\* A valid output becomes the checkpoint of the step.
LEMMA CheckpointStep ==
    ASSUME GepaInv, Checkpoint
    PROVE  GepaInv'
  <1>1. effects' = effects /\ results' = results /\ run' = run /\ final' = final /\ pc = "emit"
    BY DEF Checkpoint
  <1>2. CASE OutputAccepted(run.key, req, Terminal, out)
    <2>1. ckpt' = out /\ pc' = "resolve" /\ UNCHANGED memory
      BY <1>2 DEF Checkpoint
    <2> QED
      BY <1>1, <2>1, HoldStep
  <1>3. CASE ~OutputAccepted(run.key, req, Terminal, out)
    <2>1. Raise("output") /\ ckpt' = ckpt
      BY <1>3 DEF Checkpoint
    <2>2. PICK T : TrailInv(T)
      BY DEF GepaInv
    <2>3. StoreInv /\ Kept /\ ShapeInv'
      BY <1>1, Still DEF GepaInv, StoreInv
    <2> QED
      BY <1>1, <2>1, <2>2, <2>3, RaiseStep
  <1> QED
    BY <1>2, <1>3

\* A resolution of an intent touches neither the chain nor the effects.
LEMMA ResolveStep ==
    ASSUME GepaInv, NEW reward, ResolveIntent(reward)
    PROVE  GepaInv'
  <1>1. /\ effects' = effects /\ results' = results /\ run' = run /\ final' = final /\ UNCHANGED memory
        /\ pc = "resolve" /\ pc' = pc /\ ckpt' = ckpt
    BY DEF ResolveIntent
  <1> QED
    BY <1>1, HoldStep

\* A platform step with intents parks its output.
LEMMA ParkStep ==
    ASSUME GepaInv, Park
    PROVE  GepaInv'
  <1>1. effects' = effects /\ results' = results /\ run' = run /\ final' = final /\ ckpt' = ckpt /\ pc = "resolve"
    BY DEF Park, durable
  <1>2. CASE StepResultValid(req, Terminal, out, <<>>)
    <2>1. pc' = "parked" /\ UNCHANGED memory
      BY <1>2 DEF Park
    <2> QED
      BY <1>1, <2>1, HoldStep
  <1>3. CASE ~StepResultValid(req, Terminal, out, <<>>)
    <2>1. Raise("result")
      BY <1>3 DEF Park
    <2>2. PICK T : TrailInv(T)
      BY DEF GepaInv
    <2>3. StoreInv /\ Kept /\ ShapeInv'
      BY <1>1, Still DEF GepaInv, StoreInv
    <2> QED
      BY <1>1, <2>1, <2>2, <2>3, RaiseStep
  <1> QED
    BY <1>2, <1>3

\* A process dies.
LEMMA CrashStep ==
    ASSUME GepaInv, Crash
    PROVE  GepaInv'
  <1>1. /\ effects' = effects /\ results' = results /\ run' = run /\ final' = final /\ ckpt' = ckpt
        /\ pc # "down" /\ pc' = "down" /\ Forget
    BY DEF Crash, durable
  <1>2. PICK T : TrailInv(T)
    BY DEF GepaInv
  <1>3. StoreInv /\ Kept /\ ShapeInv' /\ final = None
    BY <1>1, Still DEF GepaInv, StoreInv, PhaseInv
  <1> QED
    BY <1>1, <1>2, <1>3, DownStep

\* A resolution in the store of effects changes neither a request nor an answer.
LEMMA ResolutionKept ==
    ASSUME ShapeInv, NEW k, NEW resolution, results' = results, run' = run,
           effects' = [effects EXCEPT ![k].resolution = resolution]
    PROVE  Kept /\ ShapeInv'
  <1>1. PICK S : effects \in Seq(S)
    BY DEF ShapeInv
  <1>2. /\ Len(effects) \in Nat /\ DOMAIN effects = 1 .. Len(effects)
        /\ \A n \in 1 .. Len(effects) :
               effects[n] = [request |-> effects[n].request, resolution |-> effects[n].resolution,
                             result |-> effects[n].result]
    BY Domains
  <1>3. DOMAIN effects' = 1 .. Len(effects)
    BY <1>2
  <1>4. \A n \in 1 .. Len(effects) :
            \E r : effects'[n] = [request |-> effects[n].request, resolution |-> r, result |-> effects[n].result]
    <2> TAKE n \in 1 .. Len(effects)
    <2>1. CASE n = k
      <3>1. effects'[n] = [effects[n] EXCEPT !.resolution = resolution]
        BY <1>2, <2>1
      <3>2. effects'[n] = [request |-> effects[n].request, resolution |-> resolution, result |-> effects[n].result]
        BY <1>2, <3>1
      <3> QED
        BY <3>2
    <2>2. CASE n # k
      <3>1. effects'[n] = effects[n]
        BY <1>2, <2>2
      <3> QED
        BY <1>2, <3>1
    <2> QED
      BY <2>1, <2>2
  <1>5. \A n \in 1 .. Len(effects) :
            /\ effects'[n].request = effects[n].request /\ effects'[n].result = effects[n].result
            /\ effects'[n] = [request |-> effects'[n].request, resolution |-> effects'[n].resolution,
                              result |-> effects'[n].result]
    <2> TAKE n \in 1 .. Len(effects)
    <2>1. PICK r : effects'[n] = [request |-> effects[n].request, resolution |-> r, result |-> effects[n].result]
      BY <1>4
    <2> QED
      BY <2>1
  <1>6. PICK R : R = {effects'[n] : n \in 1 .. Len(effects)}
    OBVIOUS
  <1>7. effects' \in Seq(R) /\ Len(effects') = Len(effects)
    <2>1. effects' = [n \in 1 .. Len(effects) |-> effects'[n]]
      BY <1>3
    <2>2. effects' \in [1 .. Len(effects) -> R]
      BY <1>6, <2>1
    <2>3. effects' \in Seq(R)
      BY <1>2, <2>2, SeqDef, Zenon
    <2>4. Len(effects') \in Nat /\ DOMAIN effects' = 1 .. Len(effects')
      BY <2>3, LenProperties
    <2> QED
      BY <1>2, <1>3, <2>3, <2>4
  <1>8. Kept
    BY <1>5, <1>7 DEF Kept, MaxMetricCalls
  <1>9. ShapeInv'
    BY <1>3, <1>5, <1>7 DEF ShapeInv
  <1> QED
    BY <1>8, <1>9

\* Fan-in binds the resolution, drops the pending output and starts a new stage.
LEMMA ResumeStep ==
    ASSUME GepaInv, pc = "parked", NEW resolution, FanInResume(resolution)
    PROVE  GepaInv'
  <1>1. PICK T : TrailInv(T)
    BY DEF GepaInv
  <1>2. PICK k : k = Deferred
    OBVIOUS
  <1>3. /\ effects' = [effects EXCEPT ![k].resolution = resolution]
        /\ results' = results /\ run' = run /\ ckpt' = None /\ pc' = "down" /\ Forget /\ final' = final
    BY <1>2 DEF FanInResume
  <1>4. StoreInv /\ Kept /\ ShapeInv' /\ final = None
    BY <1>3, ResolutionKept DEF GepaInv, StoreInv, PhaseInv
  <1> QED
    BY <1>1, <1>3, <1>4, DownStep

\* A Step Result joins the chain.
LEMMA BindStep ==
    ASSUME GepaInv, BindResult
    PROVE  GepaInv'
  <1>1. PICK T : TrailInv(T)
    BY DEF GepaInv
  <1>2. StoreInv /\ ShapeInv /\ DisjointInv /\ UsageInv /\ Trail(T) /\ OutputInv(T, out)
    BY <1>1 DEF GepaInv, StoreInv, TrailInv, BindResult
  <1>3. effects' = effects /\ run' = run /\ final' = final /\ pc = "resolve" /\ final = None
    BY <1>2 DEF BindResult, StoreInv, PhaseInv
  <1>4. CASE StepResultValid(req, Terminal, out, resolved)
    <2>1. PICK r : r = StepResult(resolved)
      OBVIOUS
    <2>2. results' = Append(results, r) /\ ckpt' = None /\ pc' = "next" /\ Forget
      BY <1>4, <2>1 DEF BindResult
    <2>3. r.status = out.status /\ r.evidence = out.evidence /\ r.usage = out.usage /\ r.state = out.state
      BY <2>1 DEF StepResult
    <2>4. PICK n \in Nat : n = Len(results)
      BY <1>2, Domains
    <2>5. /\ \E S : results' \in Seq(S)
          /\ Len(results') = n + 1 /\ DOMAIN results = 1 .. n /\ DOMAIN results' = 1 .. n + 1
          /\ results'[n + 1] = r /\ \A i \in 1 .. n : results'[i] = results[i]
      <3>1. PICK S : results \in Seq(S)
        BY <1>2 DEF ShapeInv
      <3>2. results \in Seq(S \cup {r}) /\ r \in S \cup {r}
        BY <3>1
      <3>3. results' \in Seq(S \cup {r}) /\ Len(results') = Len(results) + 1
        BY <2>2, <3>2, AppendProperties
      <3>4. DOMAIN results = 1 .. n /\ DOMAIN results' = 1 .. n + 1
        BY <2>4, <3>2, <3>3, LenProperties
      <3>5. results'[n + 1] = r /\ \A i \in 1 .. n : results'[i] = results[i]
        BY <2>2, <2>4, <3>2, AppendProperties
      <3> QED
        BY <2>4, <3>3, <3>4, <3>5
    <2>6. ShapeInv'
      BY <1>2, <1>3, <2>5 DEF ShapeInv
    <2>7. /\ \A i \in 1 .. n : \A e \in r.evidence, f \in results[i].evidence : e.id # f.id
          /\ \A i \in 1 .. n : \A call \in r.usage : call \notin results[i].usage
          /\ \A call \in r.usage : Billed(call)
      BY <1>2, <2>3, <2>5 DEF OutputInv, Unreported, RecordedEvidence
    <2>8. DisjointInv'
      <3> SUFFICES ASSUME NEW i \in 1 .. n + 1, NEW j \in 1 .. n + 1, i # j
                   PROVE  /\ \A e \in results'[i].evidence, f \in results'[j].evidence : e.id # f.id
                          /\ \A call \in results'[i].usage : call \notin results'[j].usage
        BY <2>5 DEF DisjointInv
      <3>1. CASE i \in 1 .. n /\ j \in 1 .. n
        BY <1>2, <2>5, <3>1 DEF DisjointInv
      <3>2. CASE i = n + 1 /\ j \in 1 .. n
        BY <2>5, <2>7, <3>2
      <3>3. CASE i \in 1 .. n /\ j = n + 1
        BY <2>5, <2>7, <3>3
      <3> QED
        BY <3>1, <3>2, <3>3
    <2>9. UsageInv'
      <3>1. \A call : Billed(call)' <=> Billed(call)
        BY <1>3 DEF Billed
      <3>2. usage' = {}
        BY <2>2 DEF Forget
      <3>3. \A i \in 1 .. n + 1 : \A call \in results'[i].usage : Billed(call)
        <4> TAKE i \in 1 .. n + 1
        <4>1. CASE i \in 1 .. n
          BY <1>2, <2>5, <4>1 DEF UsageInv
        <4>2. CASE i = n + 1
          BY <2>5, <2>7, <4>2
        <4> QED
          BY <4>1, <4>2
      <3> QED
        BY <2>5, <3>1, <3>2, <3>3 DEF UsageInv, Unreported
    <2>10. results' # <<>> /\ (Continuing' <=> out.status = "continue")
      <3>1. results' # <<>>
        BY <2>5
      <3> QED
        BY <2>3, <2>5, <3>1 DEF Continuing
    <2>11. SettledInv'
      <3> SUFFICES ASSUME out.status # "continue"
                   PROVE  Evaluations' \subseteq RecordedEvidence(results)'
        BY <2>10 DEF SettledInv
      <3>1. Evaluations' = Evaluations
        BY <1>3 DEF Evaluations
      <3>2. \A id \in Evaluations : id \in RecordedEvidence(results) \/ \E e \in r.evidence : e.id = id
        BY <1>2, <2>3 DEF OutputInv
      <3>3. ASSUME NEW id, id \in RecordedEvidence(results)
            PROVE  id \in RecordedEvidence(results')
        <4>1. PICK i \in 1 .. n : id \in {e.id : e \in results[i].evidence}
          BY <2>5, <3>3 DEF RecordedEvidence
        <4>2. results'[i] = results[i] /\ i \in DOMAIN results'
          BY <2>5
        <4> QED
          BY <4>1, <4>2 DEF RecordedEvidence
      <3>4. ASSUME NEW id, \E e \in r.evidence : e.id = id
            PROVE  id \in RecordedEvidence(results')
        <4>1. results'[n + 1] = r /\ n + 1 \in DOMAIN results'
          BY <2>5
        <4>2. id \in {e.id : e \in results'[n + 1].evidence}
          BY <3>4, <4>1
        <4> QED
          BY <4>1, <4>2 DEF RecordedEvidence
      <3> QED
        BY <3>1, <3>2, <3>3, <3>4
    <2>12. PhaseInv'
      BY <1>3, <2>2 DEF PhaseInv
    <2>13. TrailInv(T)'
      <3>1. Trail(T)'
        BY <1>2, <1>3 DEF Trail, Reached
      <3>2. Continuing' => CurrentCheckpoint'.consumed \in Nat /\ Below(T, NextBudget(CurrentCheckpoint, MaxMetricCalls))'
        <4> SUFFICES ASSUME out.status = "continue"
                     PROVE  CurrentCheckpoint'.consumed \in Nat /\ Below(T, NextBudget(CurrentCheckpoint, MaxMetricCalls))'
          BY <2>10
        <4>1. CurrentCheckpoint' = out.state.checkpoint
          BY <2>3, <2>5, <2>10 DEF CurrentCheckpoint
        <4>2. out.state.checkpoint.consumed \in Nat /\ Below(T, NextBudget(out.state.checkpoint, MaxMetricCalls))
          BY <1>2 DEF OutputInv
        <4>3. NextBudget(CurrentCheckpoint, MaxMetricCalls)' = NextBudget(out.state.checkpoint, MaxMetricCalls)
          BY <1>3, <4>1 DEF MaxMetricCalls
        <4> QED
          BY <1>3, <4>1, <4>2, <4>3 DEF Below
      <3>3. SearchInv(T)'
        BY <2>2 DEF SearchInv
      <3> QED
        BY <2>2, <3>1, <3>2, <3>3 DEF TrailInv
    <2> QED
      BY <2>6, <2>8, <2>9, <2>11, <2>12, <2>13 DEF GepaInv, StoreInv
  <1>5. CASE ~StepResultValid(req, Terminal, out, resolved)
    <2>1. Raise("result") /\ results' = results /\ ckpt' = ckpt
      BY <1>5 DEF BindResult
    <2>2. Kept /\ ShapeInv'
      BY <1>2, <1>3, <2>1, Still
    <2> QED
      BY <1>1, <1>2, <1>3, <2>1, <2>2, RaiseStep
  <1> QED
    BY <1>4, <1>5

-----------------------------------------------------------------------------
(* The invocation of GEPA.                                                 *)

\* What the next effect of a search asks for, at its slot
LEMMA RequestOf ==
    ASSUME SearchShape(search), search.at # "stop"
    PROVE  /\ Request.ordinal = search.ordinal
           /\ Request.kind = "evaluate" => Len(Request.batch) \in Nat
           /\ Request.kind # "evaluate" => search.at # "parent"
           /\ search.ordinal \in Nat /\ search.consumed \in Nat
           /\ Unlimited(search).at = search.at /\ Unlimited(search).consumed = search.consumed
  <1>1. PICK at \in {"seed", "parent", "reflect", "child", "value"},
             limit \in Nat, consumed \in Nat, ordinal \in Nat :
             \E pool, child, before, attempt, skipped :
               /\ search = State(at, limit, consumed, ordinal, pool, child, before, attempt, skipped)
               /\ Unlimited(search) = State(at, 0, consumed, ordinal, pool, child, before, attempt, skipped)
               /\ search.at = at /\ search.limit = limit /\ search.consumed = consumed /\ search.ordinal = ordinal
    BY Parts
  <1>2. Unlimited(search).at = at /\ Unlimited(search).consumed = consumed
    BY <1>1 DEF State
  <1>3. Len(Valset) \in Nat /\ Len(Minibatch) \in Nat
    BY GepaAssumption
  <1>4. CASE at = "seed"
    <2>1. Request = [kind |-> "evaluate", ordinal |-> search.ordinal, text |-> Seed, batch |-> Valset, attempt |-> 0]
      BY <1>1, <1>4 DEF Request, NextEffect
    <2> QED
      BY <1>1, <1>2, <1>3, <2>1
  <1>5. CASE at = "parent"
    <2>1. PICK parent : parent = search.pool[Best(search.pool)].text
      OBVIOUS
    <2>2. Request = [kind |-> "evaluate", ordinal |-> search.ordinal, text |-> parent, batch |-> Minibatch, attempt |-> 0]
      BY <1>1, <1>5, <2>1 DEF Request, NextEffect
    <2> QED
      BY <1>1, <1>2, <1>3, <2>2
  <1>6. CASE at = "reflect"
    <2>1. PICK parent : parent = search.pool[Best(search.pool)].text
      OBVIOUS
    <2>2. Request = [kind |-> "propose", ordinal |-> search.ordinal, text |-> parent, batch |-> <<>>, attempt |-> search.attempt]
      BY <1>1, <1>6, <2>1 DEF Request, NextEffect
    <2> QED
      BY <1>1, <1>2, <1>6, <2>2
  <1>7. CASE at = "child"
    <2>1. Request = [kind |-> "evaluate", ordinal |-> search.ordinal, text |-> search.child, batch |-> Minibatch, attempt |-> 0]
      BY <1>1, <1>7 DEF Request, NextEffect
    <2> QED
      BY <1>1, <1>2, <1>3, <2>1
  <1>8. CASE at = "value"
    <2>1. Request = [kind |-> "evaluate", ordinal |-> search.ordinal, text |-> search.child, batch |-> Valset, attempt |-> 0]
      BY <1>1, <1>8 DEF Request, NextEffect
    <2> QED
      BY <1>1, <1>2, <1>3, <2>1
  <1> QED
    BY <1>1, <1>4, <1>5, <1>6, <1>7, <1>8

\* A search asks for the same whatever its budget.
LEMMA SameEffect ==
    ASSUME SearchShape(search), search.at # "stop"
    PROVE  NextEffect(Unlimited(search)) = NextEffect(search)
  <1>1. PICK at \in {"seed", "parent", "reflect", "child", "value"},
             limit \in Nat, consumed \in Nat, ordinal \in Nat :
             \E pool, child, before, attempt, skipped :
               /\ search = State(at, limit, consumed, ordinal, pool, child, before, attempt, skipped)
               /\ Unlimited(search) = State(at, 0, consumed, ordinal, pool, child, before, attempt, skipped)
               /\ search.at = at /\ search.limit = limit /\ search.consumed = consumed /\ search.ordinal = ordinal
    BY Parts
  <1>2. PICK s, t : s = search /\ t = Unlimited(search)
    OBVIOUS
  <1>3. s.at = t.at /\ s.pool = t.pool /\ s.ordinal = t.ordinal /\ s.child = t.child /\ s.attempt = t.attempt
    BY <1>1, <1>2 DEF State
  <1>4. NextEffect(s) = NextEffect(t)
    BY <1>3 DEF NextEffect
  <1> QED
    BY <1>2, <1>4

\* A checkpoint's budget
LEMMA BudgetIsNat ==
    ASSUME BudgetInv, NEW checkpoint, checkpoint.consumed \in Nat
    PROVE  NextBudget(checkpoint, MaxMetricCalls) \in Nat
  <1>1. MaxMetricCalls \in Nat
    BY DEF BudgetInv
  <1>2. checkpoint.consumed + 1 \in Nat
    OBVIOUS
  <1> QED
    BY <1>1, <1>2 DEF NextBudget

\* A search starts at the head of the trail, with the budget after its checkpoint.
LEMMA BeginStep ==
    ASSUME GepaInv, BudgetInv, GepaBegin
    PROVE  GepaInv'
  <1>1. PICK T : TrailInv(T)
    BY DEF GepaInv
  <1>2. /\ StoreInv /\ ShapeInv /\ pc = "invoke" /\ ckpt' = ckpt /\ final' = final
        /\ effects' = effects /\ results' = results /\ run' = run /\ Kept /\ ShapeInv' /\ Trail(T)
    BY <1>1, Still DEF GepaInv, StoreInv, GepaBegin, durable, TrailInv
  <1>3. CASE Refused
    <2>1. Raise("exhausted")
      BY <1>3 DEF GepaBegin
    <2> QED
      BY <1>1, <1>2, <2>1, RaiseStep
  <1>4. CASE ~Refused
    <2>1. PICK limit : limit = NextBudget(req.checkpoint, MaxMetricCalls)
      OBVIOUS
    <2>2. /\ search' = NewSearch(limit) /\ pc' = "search" /\ req' = req /\ touched' = touched /\ usage' = usage
      BY <1>4, <2>1 DEF GepaBegin
    <2>3. Continuing /\ req.checkpoint = CurrentCheckpoint /\ ckpt = None
      BY <1>2 DEF StoreInv, PhaseInv
    <2>4. limit \in Nat
      BY <1>1, <2>1, <2>3, BudgetIsNat DEF TrailInv
    <2>5. /\ Trail(T)' /\ (Continuing' <=> Continuing) /\ CurrentCheckpoint' = CurrentCheckpoint
          /\ DisjointInv' /\ SettledInv'
          /\ \A i \in DOMAIN results' : \A call \in results'[i].usage : Billed(call)'
      BY <1>2, Frame
    <2>6. UsageInv'
      BY <1>2, <2>2 DEF StoreInv, UsageInv, Unreported, Billed
    <2>7. PhaseInv'
      BY <1>2, <2>2, <2>3, <2>5 DEF StoreInv, PhaseInv
    <2>8. search' = State("seed", limit, 0, 0, <<>>, None, 0, 0, {})
      BY <2>2 DEF NewSearch, State
    <2>9. /\ SearchShape(search') /\ search'.at = "seed" /\ search'.limit = limit /\ search'.ordinal = 0
          /\ Unlimited(search') = State("seed", 0, 0, 0, <<>>, None, 0, 0, {})
      BY <2>4, <2>8, Fields
    <2>10. SearchInv(T)'
      <3>1. SearchShape(search)' /\ Budgeted(search)'
        BY <2>9 DEF SearchShape, Budgeted
      <3>2. search'.limit = NextBudget(req.checkpoint, MaxMetricCalls)'
        BY <1>2, <2>1, <2>2, <2>9 DEF MaxMetricCalls
      <3>3. Unlimited(search)' = Reached(T, search.ordinal)'
        <4>1. Unlimited(search)' = NewSearch(0)
          BY <2>9 DEF NewSearch, State, Unlimited
        <4> QED
          BY <2>9, <4>1 DEF Reached
      <3>4. Len(effects') \in Nat
        BY <1>2, Domains
      <3> QED
        BY <2>2, <2>9, <3>1, <3>2, <3>3, <3>4 DEF SearchInv
    <2>11. TrailInv(T)'
      BY <1>1, <1>2, <2>2, <2>3, <2>5, <2>10, FrameCheckpoint DEF TrailInv
    <2> QED
      BY <1>2, <2>5, <2>6, <2>7, <2>11 DEF GepaInv, StoreInv
  <1> QED
    BY <1>3, <1>4

\* The slot of the effect a search waits for: it is on the trail, and if another effect
\* is behind it the search has gone past it before.
LEMMA Slot ==
    ASSUME StoreInv, NEW T, TrailInv(T), pc = "effect"
    PROVE  /\ SearchShape(search) /\ search.at # "stop" /\ search.ordinal \in Nat /\ search.ordinal < Len(effects)
           /\ Request.ordinal = search.ordinal
           /\ Entry = effects[search.ordinal + 1] /\ Entry.request = Request
           /\ search.ordinal + 1 \in DOMAIN effects /\ search.ordinal + 1 \in 1 .. Len(effects)
           /\ T[search.ordinal] = Unlimited(search)
           /\ search.ordinal + 1 < Len(effects) => Passed(Entry)
           /\ Recorded(effects, Request) <=> Entry.result # <<>>
  <1>1. Len(effects) \in Nat /\ DOMAIN effects = 1 .. Len(effects)
    BY Domains DEF StoreInv
  <1>2. /\ SearchShape(search) /\ search.at # "stop" /\ search.ordinal < Len(effects)
        /\ effects[search.ordinal + 1].request = Request
        /\ Unlimited(search) = Reached(T, search.ordinal)
    BY DEF TrailInv, SearchInv
  <1>3. PICK n \in Nat : n = search.ordinal /\ Request.ordinal = n
    BY <1>2, RequestOf
  <1>4. Entry = effects[n + 1] /\ Entry.request = Request
    BY <1>2, <1>3 DEF Entry
  <1>5. n \in 0 .. Len(effects) - 1 /\ n + 1 \in 1 .. Len(effects)
    BY <1>1, <1>2, <1>3
  <1>6. T[n] = Unlimited(search)
    BY <1>2, <1>3, <1>5 DEF TrailInv, Trail
  <1>7. n + 1 < Len(effects) => Passed(Entry)
    <2> SUFFICES ASSUME n + 1 < Len(effects) PROVE Passed(Entry)
      OBVIOUS
    <2>1. n + 1 \in 0 .. Len(effects) - 1 /\ n + 1 > 0
      BY <1>1
    <2> QED
      BY <1>4, <2>1 DEF TrailInv, Trail
  <1>8. Recorded(effects, Request) <=> Entry.result # <<>>
    BY <1>1, <1>3, <1>4, <1>5 DEF Recorded
  <1> QED
    BY <1>1, <1>2, <1>3, <1>4, <1>5, <1>6, <1>7, <1>8

\* A recorded answer takes the search to the next effect.
LEMMA AnswerStep ==
    ASSUME StoreInv, ShapeInv', Kept, NEW T, TrailInv(T), pc = "effect", pc' = "search",
           ckpt' = ckpt, final' = final, req' = req, NEW e, e = effects'[search.ordinal + 1], Passed(e),
           e.request.kind = "evaluate" => search' = Evaluated(search, e.request, e.result[1]),
           e.request.kind # "evaluate" => search' = Reflected(search, e.result[1]),
           touched \subseteq touched',
           e.request.kind = "evaluate" => \E t \in touched' : t.id = search.ordinal,
           Unreported(usage)'
    PROVE  GepaInv'
  <1>1. /\ SearchShape(search) /\ search.at # "stop" /\ search.ordinal \in Nat /\ search.ordinal < Len(effects)
        /\ Entry = effects[search.ordinal + 1] /\ Entry.request = Request
        /\ search.ordinal + 1 \in 1 .. Len(effects)
        /\ T[search.ordinal] = Unlimited(search)
    BY Slot
  <1>2. PICK n \in Nat : n = search.ordinal
    BY <1>1
  <1>3. e.request = Request
    BY <1>1 DEF Kept
  <1>4. /\ e.request.kind = "evaluate" => Len(e.request.batch) \in Nat
        /\ e.request.kind # "evaluate" => search.at # "parent"
    BY <1>1, <1>3, RequestOf
  <1>5. PICK s, v : s = search /\ v = search'
    OBVIOUS
  <1>6. /\ SearchShape(v) /\ Budgeted(v) /\ v.ordinal = n + 1 /\ v.limit = search.limit
        /\ Unlimited(v) = After(Unlimited(search), e)
    <2>1. /\ e.request.kind = "evaluate" => v = Evaluated(s, e.request, e.result[1])
          /\ e.request.kind # "evaluate" => v = Reflected(s, e.result[1])
      BY <1>5
    <2>2. SearchShape(s) /\ s.at # "stop" /\ (e.request.kind # "evaluate" => s.at # "parent")
      BY <1>1, <1>4, <1>5
    <2>3. /\ SearchShape(v) /\ Budgeted(v) /\ v.ordinal = s.ordinal + 1 /\ v.limit = s.limit
          /\ Unlimited(v) = After(Unlimited(s), e)
      BY <1>4, <2>1, <2>2, AnsweredSearch
    <2> QED
      BY <1>2, <1>5, <2>3
  <1>7. Trail(T)
    BY DEF TrailInv
  <1>8. /\ Trail(T)' /\ (Continuing' <=> Continuing) /\ CurrentCheckpoint' = CurrentCheckpoint
        /\ DisjointInv' /\ SettledInv'
        /\ \A i \in DOMAIN results' : \A call \in results'[i].usage : Billed(call)'
    BY <1>7, Frame
  <1>9. UsageInv'
    BY <1>8 DEF UsageInv
  <1>10. Continuing /\ req.checkpoint = CurrentCheckpoint /\ ckpt = None /\ final = None
    BY DEF StoreInv, PhaseInv
  <1>11. PhaseInv'
    BY <1>8, <1>10 DEF PhaseInv
  <1>12. SearchInv(T)'
    <2>1. SearchShape(search)' /\ Budgeted(search)'
      <3>1. SearchShape(search') /\ Budgeted(search')
        BY <1>5, <1>6
      <3> QED
        BY <3>1 DEF SearchShape, Budgeted
    <2>2. search'.limit = NextBudget(req.checkpoint, MaxMetricCalls)'
      BY <1>5, <1>6 DEF TrailInv, SearchInv, Kept
    <2>3. search'.ordinal = n + 1 /\ n + 1 <= Len(effects') /\ n + 1 > 0
      BY <1>1, <1>2, <1>5, <1>6 DEF Kept
    <2>4. Unlimited(search)' = Reached(T, search.ordinal)'
      <3>1. Unlimited(search)' = After(T[n], e)
        BY <1>1, <1>2, <1>5, <1>6 DEF Unlimited
      <3>2. Reached(T, search.ordinal)' = After(T[n], e)
        BY <1>2, <2>3 DEF Reached
      <3> QED
        BY <3>1, <3>2
    <2>5. Passed(effects[search.ordinal])'
      BY <1>2, <2>3 DEF Passed
    <2>6. \A k \in 1 .. n + 1 : effects'[k].request.kind = "evaluate" => \E t \in touched' : t.id = k - 1
      <3> TAKE k \in 1 .. n + 1
      <3>1. CASE k \in 1 .. n
        <4>1. effects[k].request.kind = "evaluate" => \E t \in touched : t.id = k - 1
          BY <1>2, <3>1 DEF TrailInv, SearchInv
        <4>2. effects'[k].request = effects[k].request
          BY <1>1, <1>2, <3>1 DEF Kept
        <4> QED
          BY <4>1, <4>2
      <3>2. CASE k = n + 1
        BY <1>2, <3>2
      <3> QED
        BY <3>1, <3>2
    <2> QED
      BY <2>1, <2>2, <2>3, <2>4, <2>5, <2>6 DEF SearchInv
  <1>13. TrailInv(T)'
    BY <1>8, <1>10, <1>12, FrameCheckpoint DEF TrailInv
  <1> QED
    BY <1>8, <1>9, <1>11, <1>13 DEF GepaInv, StoreInv

\* The broker answers from the store.
LEMMA EvaluateReplayedStep ==
    ASSUME GepaInv, EvaluateReplayed
    PROVE  GepaInv'
  <1>1. PICK T : TrailInv(T)
    BY DEF GepaInv
  <1>2. /\ StoreInv /\ pc = "effect" /\ ckpt' = ckpt /\ final' = final /\ req' = req /\ usage' = usage
        /\ effects' = effects /\ results' = results /\ run' = run /\ Kept /\ ShapeInv' /\ pc' = "search"
    BY Still DEF GepaInv, StoreInv, EvaluateReplayed, durable, Effect
  <1>3. PICK e : e = effects'[search.ordinal + 1]
    OBVIOUS
  <1>4. e = Entry /\ e.request = Request /\ e.request.kind = "evaluate" /\ e.result # <<>> /\ Request.ordinal = search.ordinal
    BY <1>1, <1>2, <1>3, Slot DEF EvaluateReplayed, Effect
  <1>5. Passed(e)
    BY <1>4 DEF Passed
  <1>6. search' = Evaluated(search, e.request, e.result[1])
    BY <1>4 DEF EvaluateReplayed, Answer
  <1>7. touched \subseteq touched' /\ \E t \in touched' : t.id = search.ordinal
    <2>1. PICK t : t = [id |-> Request.ordinal, step |-> Answer.resolution.step, text |-> Request.text,
                        batch |-> Request.batch, replayed |-> TRUE]
      OBVIOUS
    <2>2. touched' = touched \cup {t} /\ t.id = search.ordinal
      BY <1>4, <2>1 DEF EvaluateReplayed, Touch
    <2> QED
      BY <2>2
  <1>8. Unreported(usage)'
    BY <1>2 DEF StoreInv, UsageInv, Unreported, Billed
  <1> QED
    BY <1>1, <1>2, <1>3, <1>4, <1>5, <1>6, <1>7, <1>8, AnswerStep

\* The service binds its resolution; the search still waits.
LEMMA EvaluateFreshStep ==
    ASSUME GepaInv, NEW resolution, EvaluateFresh(resolution)
    PROVE  GepaInv'
  <1>1. PICK T : TrailInv(T)
    BY DEF GepaInv
  <1>2. PICK k : k = Request.ordinal + 1
    OBVIOUS
  <1>3. /\ effects' = [effects EXCEPT ![k].resolution = resolution] /\ results' = results /\ run' = run
        /\ pc = "effect" /\ pc' = pc /\ ckpt' = ckpt /\ final' = final /\ req' = req
        /\ search' = search /\ touched' = touched /\ usage' = usage
    BY <1>2 DEF EvaluateFresh, Effect, memory
  <1>4. StoreInv /\ ShapeInv /\ Kept /\ ShapeInv' /\ Trail(T)
    BY <1>1, <1>3, ResolutionKept DEF GepaInv, StoreInv, TrailInv
  <1>5. /\ Trail(T)' /\ (Continuing' <=> Continuing) /\ CurrentCheckpoint' = CurrentCheckpoint
        /\ DisjointInv' /\ SettledInv'
        /\ \A i \in DOMAIN results' : \A call \in results'[i].usage : Billed(call)'
        /\ \A calls : Unreported(calls) => Unreported(calls)'
        /\ \A n \in 0 .. Len(effects) :
               (n > 0 => Passed(effects[n])) => Reached(T, n)' = Reached(T, n) /\ (n > 0 => Passed(effects[n])')
    BY <1>4, Frame
  <1>6. UsageInv'
    <2>1. PICK calls : calls = usage
      OBVIOUS
    <2>2. Unreported(calls)'
      BY <1>4, <1>5, <2>1 DEF StoreInv, UsageInv
    <2> QED
      BY <1>3, <1>5, <2>1, <2>2 DEF UsageInv, Unreported
  <1>7. Continuing /\ req.checkpoint = CurrentCheckpoint /\ ckpt = None /\ final = None
    BY <1>3, <1>4 DEF StoreInv, PhaseInv
  <1>8. PhaseInv'
    BY <1>3, <1>5, <1>7 DEF PhaseInv
  <1>9. SearchInv(T)'
    <2>1. /\ SearchShape(search) /\ search.at # "stop" /\ search.ordinal \in Nat /\ search.ordinal < Len(effects)
          /\ search.ordinal + 1 \in 1 .. Len(effects)
      BY <1>1, <1>3, <1>4, Slot
    <2>2. PICK n \in Nat : n = search.ordinal
      BY <2>1
    <2>3. /\ Budgeted(search) /\ search.limit = NextBudget(req.checkpoint, MaxMetricCalls)
          /\ Unlimited(search) = Reached(T, n)
          /\ n > 0 => Passed(effects[n])
          /\ \A i \in 1 .. n : effects[i].request.kind = "evaluate" => \E t \in touched : t.id = i - 1
          /\ effects[n + 1].request = Request
      BY <1>1, <1>3, <2>2 DEF TrailInv, SearchInv
    <2>4. Len(effects') = Len(effects) /\ Len(effects) \in Nat
      BY <1>4, Domains DEF Kept
    <2>5. \A i \in 1 .. n + 1 : effects'[i].request = effects[i].request
      BY <1>4, <2>1, <2>2, <2>4 DEF Kept
    <2>6. n \in 0 .. Len(effects)
      BY <2>1, <2>2, <2>4
    <2>7. Reached(T, n)' = Reached(T, n) /\ (n > 0 => Passed(effects[n])')
      BY <1>5, <2>3, <2>6
    <2>8. SearchShape(search)' /\ Budgeted(search)'
      BY <1>3, <2>1, <2>3 DEF SearchShape, Budgeted
    <2>9. Unlimited(search)' = Reached(T, search.ordinal)'
      BY <1>3, <2>2, <2>3, <2>7 DEF Unlimited, Reached
    <2>10. search'.ordinal > 0 => Passed(effects[search.ordinal])'
      BY <1>3, <2>2, <2>7 DEF Passed
    <2>11. effects'[n + 1].request = Request'
      BY <1>3, <2>3, <2>5 DEF Request
    <2>12. \A i \in 1 .. n : effects'[i].request.kind = "evaluate" => \E t \in touched' : t.id = i - 1
      BY <1>3, <2>3, <2>5
    <2>13. NextBudget(req.checkpoint, MaxMetricCalls)' = NextBudget(req.checkpoint, MaxMetricCalls)
      BY <1>3 DEF MaxMetricCalls
    <2> QED
      BY <1>3, <2>1, <2>2, <2>3, <2>4, <2>8, <2>9, <2>10, <2>11, <2>12, <2>13 DEF SearchInv
  <1>10. TrailInv(T)'
    BY <1>1, <1>3, <1>4, <1>5, <1>7, <1>9, FrameCheckpoint DEF TrailInv
  <1> QED
    BY <1>4, <1>5, <1>6, <1>8, <1>10 DEF GepaInv, StoreInv

\* An answer is recorded once.
LEMMA RecordKept ==
    ASSUME ShapeInv, NEW k \in 1 .. Len(effects), NEW result, effects[k].result = <<>>,
           results' = results, run' = run, effects' = [effects EXCEPT ![k].result = <<result>>]
    PROVE  /\ Kept /\ ShapeInv'
           /\ effects'[k].request = effects[k].request /\ effects'[k].result = <<result>>
  <1>1. PICK S : effects \in Seq(S)
    BY DEF ShapeInv
  <1>2. /\ Len(effects) \in Nat /\ DOMAIN effects = 1 .. Len(effects)
        /\ \A n \in 1 .. Len(effects) :
               effects[n] = [request |-> effects[n].request, resolution |-> effects[n].resolution,
                             result |-> effects[n].result]
    BY Domains
  <1>3. DOMAIN effects' = 1 .. Len(effects)
    BY <1>2
  <1>4. effects'[k] = [request |-> effects[k].request, resolution |-> effects[k].resolution, result |-> <<result>>]
    <2>1. effects'[k] = [effects[k] EXCEPT !.result = <<result>>]
      BY <1>2
    <2> QED
      BY <1>2, <2>1
  <1>5. \A n \in 1 .. Len(effects) : n # k => effects'[n] = effects[n]
    BY <1>2
  <1>6. effects'[k].request = effects[k].request /\ effects'[k].result = <<result>>
    BY <1>4
  <1>7. \A n \in 1 .. Len(effects) :
            /\ effects'[n].request = effects[n].request
            /\ effects[n].result = <<>> \/ effects'[n].result = effects[n].result
            /\ effects'[n] = [request |-> effects'[n].request, resolution |-> effects'[n].resolution,
                              result |-> effects'[n].result]
    <2> TAKE n \in 1 .. Len(effects)
    <2>1. CASE n = k
      BY <1>4, <1>6, <2>1
    <2>2. CASE n # k
      BY <1>2, <1>5, <2>2
    <2> QED
      BY <2>1, <2>2
  <1>8. PICK R : R = {effects'[n] : n \in 1 .. Len(effects)}
    OBVIOUS
  <1>9. effects' \in Seq(R) /\ Len(effects') = Len(effects)
    <2>1. effects' = [n \in 1 .. Len(effects) |-> effects'[n]]
      BY <1>3
    <2>2. effects' \in [1 .. Len(effects) -> R]
      BY <1>8, <2>1
    <2>3. effects' \in Seq(R)
      BY <1>2, <2>2, SeqDef, Zenon
    <2>4. Len(effects') \in Nat /\ DOMAIN effects' = 1 .. Len(effects')
      BY <2>3, LenProperties
    <2> QED
      BY <1>2, <1>3, <2>3, <2>4
  <1>10. Kept
    BY <1>7, <1>9 DEF Kept, MaxMetricCalls
  <1>11. ShapeInv'
    BY <1>3, <1>7, <1>9 DEF ShapeInv
  <1> QED
    BY <1>6, <1>10, <1>11

\* The service's resolution is recorded as the answer.
LEMMA EvaluateRecordStep ==
    ASSUME GepaInv, EvaluateRecord
    PROVE  GepaInv'
  <1>1. PICK T : TrailInv(T)
    BY DEF GepaInv
  <1>2. /\ StoreInv /\ ShapeInv /\ pc = "effect" /\ results' = results /\ run' = run /\ ckpt' = ckpt /\ final' = final
        /\ Request.kind = "evaluate" /\ ~Recorded(effects, Request)
    BY DEF GepaInv, StoreInv, EvaluateRecord, Effect
  <1>3. PICK n : n = search.ordinal
    OBVIOUS
  <1>4. /\ Request.ordinal = n /\ Entry = effects[n + 1] /\ Entry.request = Request
        /\ n + 1 \in 1 .. Len(effects) /\ effects[n + 1].result = <<>>
    BY <1>1, <1>2, <1>3, Slot
  <1>5. PICK result : result = EvaluationResult(Request, Entry.resolution)
    OBVIOUS
  <1>6. CASE RowsValid(Request, result)
    <2>1. /\ effects' = Record(effects, Request, result) /\ Touch(result, FALSE)
          /\ search' = Evaluated(search, Request, result)
          /\ pc' = "search" /\ req' = req /\ usage' = usage
      BY <1>5, <1>6 DEF EvaluateRecord
    <2>2. effects' = [effects EXCEPT ![n + 1].result = <<result>>]
      BY <1>4, <2>1 DEF Record
    <2>3. /\ Kept /\ ShapeInv'
          /\ effects'[n + 1].request = effects[n + 1].request /\ effects'[n + 1].result = <<result>>
      BY <1>2, <1>4, <2>2, RecordKept
    <2>4. PICK e : e = effects'[search.ordinal + 1]
      OBVIOUS
    <2>5. e.request = Request /\ e.request.kind = "evaluate" /\ e.result = <<result>>
      BY <1>2, <1>3, <1>4, <2>3, <2>4
    <2>6. Passed(e) /\ e.result[1] = result
      BY <2>5 DEF Passed
    <2>7. touched \subseteq touched' /\ \E t \in touched' : t.id = search.ordinal
      <3>1. PICK t : t = [id |-> Request.ordinal, step |-> result.resolution.step, text |-> Request.text,
                          batch |-> Request.batch, replayed |-> FALSE]
        OBVIOUS
      <3>2. touched' = touched \cup {t} /\ t.id = search.ordinal
        BY <1>3, <1>4, <2>1, <3>1 DEF Touch
      <3> QED
        BY <3>2
    <2>8. Unreported(usage)'
      <3>1. PICK calls : calls = usage
        OBVIOUS
      <3>2. Unreported(calls)'
        BY <1>1, <1>2, <2>3, <3>1, Frame DEF StoreInv, UsageInv, TrailInv
      <3> QED
        BY <2>1, <3>1, <3>2 DEF Unreported
    <2>9. search' = Evaluated(search, e.request, e.result[1])
      BY <2>1, <2>5, <2>6
    <2> QED
      BY <1>1, <1>2, <2>1, <2>3, <2>4, <2>5, <2>6, <2>7, <2>8, <2>9, AnswerStep
  <1>7. CASE ~RowsValid(Request, result)
    <2>1. Raise("rows") /\ effects' = effects
      BY <1>5, <1>7 DEF EvaluateRecord
    <2>2. Kept /\ ShapeInv'
      BY <1>2, <2>1, Still
    <2> QED
      BY <1>1, <1>2, <2>1, <2>2, RaiseStep
  <1> QED
    BY <1>6, <1>7

-----------------------------------------------------------------------------
(* The outputs of an invocation.                                           *)

\* An output before its spend is filled in, field by field
AdapterOutput(status, failure, proposed, accepted, intents, delta, seed, retained, state) ==
    [status |-> status, failure |-> failure, proposed |-> proposed, accepted |-> accepted, intents |-> intents,
     evidence |-> {}, usage |-> {}, delta |-> delta, seedRetained |-> seed, retained |-> retained, state |-> state]

\* The output o ends the step with this status and state.
Ends(o, status, state) ==
    \E failure, proposed, accepted, intents, delta, seed, retained :
        o = AdapterOutput(status, failure, proposed, accepted, intents, delta, seed, retained, state)

\* What an output reports is what Spent puts there.
LEMMA Reported ==
    ASSUME NEW o, NEW status, NEW state, Ends(o, status, state),
           NEW chain, NEW request, NEW seen, NEW calls
    PROVE  /\ Spent(o, chain, request, seen, calls).status = status
           /\ Spent(o, chain, request, seen, calls).state = state
           /\ Spent(o, chain, request, seen, calls).evidence = SearchEvidence(chain, request, seen)
           /\ Spent(o, chain, request, seen, calls).usage = calls
  <1>1. PICK failure, proposed, accepted, intents, delta, seed, retained :
             o = AdapterOutput(status, failure, proposed, accepted, intents, delta, seed, retained, state)
    BY DEF Ends
  <1>2. PICK evidence : evidence = SearchEvidence(chain, request, seen)
    OBVIOUS
  <1>3. PICK v : v = Spent(o, chain, request, seen, calls)
    OBVIOUS
  <1>4. v = [o EXCEPT !.evidence = evidence, !.usage = calls]
    BY <1>2, <1>3 DEF Spent
  <1>5. v = [status |-> status, failure |-> failure, proposed |-> proposed, accepted |-> accepted,
             intents |-> intents, evidence |-> evidence, usage |-> calls, delta |-> delta, seedRetained |-> seed,
             retained |-> retained, state |-> state]
    BY <1>1, <1>4 DEF AdapterOutput
  <1>6. v.status = status /\ v.state = state /\ v.evidence = evidence /\ v.usage = calls
    BY <1>5
  <1> QED
    BY <1>2, <1>3, <1>6

\* An invocation ends: it raises, or reports what the search touched and the chain lacks.
LEMMA EmitStep ==
    ASSUME StoreInv, ShapeInv', Kept, NEW T, TrailInv(T), pc \in {"invoke", "search", "effect"},
           ckpt' = ckpt, final' = final, NEW output, NEW reported, Emit(output, reported),
           NEW status, NEW state, Ends(output, status, state), Unreported(reported)',
           status = "continue" => state.checkpoint.consumed \in Nat /\ Below(T, NextBudget(state.checkpoint, MaxMetricCalls)),
           status # "continue" => \A id \in Evaluations : \E t \in touched : t.id = id
    PROVE  GepaInv'
  <1>1. CASE EvidenceRefused(results, req, touched)
    <2>1. Raise("evidence")
      BY <1>1 DEF Emit
    <2> QED
      BY <2>1, RaiseStep
  <1>2. CASE ~EvidenceRefused(results, req, touched)
    <2>1. PICK o : o = Spent(output, results, req, touched, reported)
      OBVIOUS
    <2>2. out' = o /\ pc' = "emit" /\ usage' = {}
      BY <1>2, <2>1 DEF Emit
    <2>3. PICK evidence : evidence = SearchEvidence(results, req, touched)
      OBVIOUS
    <2>4. o.status = status /\ o.state = state /\ o.evidence = evidence /\ o.usage = reported
      BY <2>1, <2>3, Reported
    <2>5. \A e \in evidence : e.id \notin RecordedEvidence(results)
      BY <2>3 DEF SearchEvidence
    <2>6. ASSUME NEW t \in touched, t.id \notin RecordedEvidence(results)
          PROVE  \E e \in evidence : e.id = t.id
      <3>1. PICK e : e = [id |-> t.id, step |-> req.index, text |-> t.text, batch |-> t.batch]
        OBVIOUS
      <3>2. e \in evidence /\ e.id = t.id
        BY <2>3, <2>6, <3>1 DEF SearchEvidence
      <3> QED
        BY <3>2
    <2>7. Trail(T)
      BY DEF TrailInv
    <2>8. /\ Trail(T)' /\ (Continuing' <=> Continuing) /\ CurrentCheckpoint' = CurrentCheckpoint
          /\ RecordedEvidence(results)' = RecordedEvidence(results) /\ Evaluations' = Evaluations
          /\ DisjointInv' /\ SettledInv'
          /\ \A i \in DOMAIN results' : \A call \in results'[i].usage : Billed(call)'
          /\ \A limit : Below(T, limit) => Below(T, limit)'
      BY <2>7, Frame
    <2>9. OutputInv(T, o)'
      <3>1. \A e \in o.evidence : e.id \notin RecordedEvidence(results)'
        BY <2>4, <2>5, <2>8
      <3>2. Unreported(o.usage)'
        BY <2>4 DEF Unreported
      <3>3. o.status = "continue" =>
                o.state.checkpoint.consumed \in Nat /\ Below(T, NextBudget(o.state.checkpoint, MaxMetricCalls))'
        <4> SUFFICES ASSUME o.status = "continue"
                     PROVE  o.state.checkpoint.consumed \in Nat /\ Below(T, NextBudget(o.state.checkpoint, MaxMetricCalls))'
          OBVIOUS
        <4>1. PICK limit : limit = NextBudget(o.state.checkpoint, MaxMetricCalls)
          OBVIOUS
        <4>2. o.state.checkpoint.consumed \in Nat /\ Below(T, limit)
          BY <2>4, <4>1
        <4>3. Below(T, limit)'
          BY <2>8, <4>2
        <4> QED
          BY <4>1, <4>2, <4>3 DEF Below, Kept
      <3>4. o.status # "continue" =>
                \A id \in Evaluations' : id \in RecordedEvidence(results)' \/ \E e \in o.evidence : e.id = id
        BY <2>4, <2>6, <2>8
      <3> QED
        BY <3>1, <3>2, <3>3, <3>4 DEF OutputInv
    <2>10. UsageInv'
      BY <2>2, <2>8 DEF UsageInv, Unreported
    <2>11. ckpt' = None /\ final' = None
      BY DEF StoreInv, PhaseInv
    <2>12. PhaseInv'
      BY <2>2, <2>11 DEF PhaseInv
    <2>13. OutputInv(T, out)'
      BY <2>2, <2>9 DEF OutputInv
    <2>14. SearchInv(T)'
      BY <2>2 DEF SearchInv
    <2>15. TrailInv(T)'
      BY <2>8, <2>11, <2>13, <2>14, FrameCheckpoint DEF TrailInv
    <2> QED
      BY <2>8, <2>10, <2>12, <2>15 DEF GepaInv, StoreInv
  <1> QED
    BY <1>1, <1>2

\* AdapterOutput's defaults
LEMMA Defaults ==
    ASSUME NEW status
    PROVE  \E seed : Output(status) = AdapterOutput(status, None, <<>>, <<>>, <<>>, 0, seed, None, None)
  <1>1. PICK o, seed : o = Output(status) /\ seed = FALSE
    OBVIOUS
  <1>2. o = AdapterOutput(status, None, <<>>, <<>>, <<>>, 0, seed, None, None)
    BY <1>1 DEF Output, Failed, AdapterOutput
  <1> QED
    BY <1>1, <1>2

\* A deferral goes on from the checkpoint it had, ...
LEMMA DeferredEnds ==
    ASSUME NEW r, NEW intent
    PROVE  Ends(DeferredOutput(r, intent), "continue", StateDelta(r, r.checkpoint, {}))
  <1>1. PICK state : state = StateDelta(r, r.checkpoint, {})
    OBVIOUS
  <1>2. PICK intents : intents = <<intent>>
    OBVIOUS
  <1>3. PICK seed : Output("continue") = AdapterOutput("continue", None, <<>>, <<>>, <<>>, 0, seed, None, None)
    BY Defaults
  <1>4. PICK o : o = Output("continue")
    OBVIOUS
  <1>5. o = AdapterOutput("continue", None, <<>>, <<>>, <<>>, 0, seed, None, None)
    BY <1>3, <1>4
  <1>6. PICK v : v = [o EXCEPT !.intents = intents, !.state = state]
    OBVIOUS
  <1>7. v = AdapterOutput("continue", None, <<>>, <<>>, intents, 0, seed, None, state)
    BY <1>5, <1>6 DEF AdapterOutput
  <1>8. DeferredOutput(r, intent) = v
    BY <1>1, <1>2, <1>4, <1>6 DEF DeferredOutput
  <1> QED
    BY <1>1, <1>7, <1>8 DEF Ends

\* ... a failed reflection fails the run, ...
LEMMA FailureEnds ==
    ASSUME NEW s
    PROVE  \E state : Ends(ReflectionFailureOutput(s), "failed", state)
  <1>1. PICK state : state = [checkpoint |-> None, skipped |-> s.skipped]
    OBVIOUS
  <1>2. PICK seed : seed = FALSE
    OBVIOUS
  <1>3. PICK o : o = Failed("gepa_reflection_failed")
    OBVIOUS
  <1>4. o = AdapterOutput("failed", "gepa_reflection_failed", <<>>, <<>>, <<>>, 0, seed, None, None)
    BY <1>2, <1>3 DEF Failed, AdapterOutput
  <1>5. PICK v : v = [o EXCEPT !.state = state]
    OBVIOUS
  <1>6. v = AdapterOutput("failed", "gepa_reflection_failed", <<>>, <<>>, <<>>, 0, seed, None, state)
    BY <1>4, <1>5 DEF AdapterOutput
  <1>7. ReflectionFailureOutput(s) = v
    BY <1>1, <1>3, <1>5 DEF ReflectionFailureOutput
  <1> QED
    BY <1>6, <1>7 DEF Ends

\* ... and a search that returned goes on unless it is terminal.
LEMMA SearchedEnds ==
    ASSUME NEW r, NEW s, s.consumed \in Nat, MaxMetricCalls \in Nat
    PROVE  \E status \in {"continue", "complete"}, state \in {StateDelta(r, UpdatedCheckpoint(s.consumed, MaxMetricCalls), s.skipped)} :
               /\ Ends(SearchedOutput(r, s, MaxMetricCalls), status, state)
               /\ status = "continue" => s.consumed < MaxMetricCalls
  <1>1. PICK state : state = StateDelta(r, UpdatedCheckpoint(s.consumed, MaxMetricCalls), s.skipped)
    OBVIOUS
  <1>2. PICK delta : delta = BudgetDelta(UpdatedCheckpoint(s.consumed, MaxMetricCalls))
    OBVIOUS
  <1>3. PICK best : best = ProjectResult(s).best
    OBVIOUS
  <1>4. PICK c : c = UpdatedCheckpoint(s.consumed, MaxMetricCalls)
    OBVIOUS
  <1>5. ProjectResult(s).consumed = s.consumed
    BY DEF ProjectResult
  <1>6. MaxMetricCalls \in Nat
    OBVIOUS
  <1>7. c.terminal <=> s.consumed >= MaxMetricCalls
    BY <1>4 DEF UpdatedCheckpoint
  <1>8. ASSUME NEW o, NEW status, NEW failure, NEW proposed, NEW accepted, NEW intents, NEW d, NEW seed, NEW retained, NEW st,
               o = AdapterOutput(status, failure, proposed, accepted, intents, d, seed, retained, st)
        PROVE  Ends([o EXCEPT !.state = state, !.delta = delta], status, state)
    <2>1. PICK v : v = [o EXCEPT !.state = state, !.delta = delta]
      OBVIOUS
    <2>2. v = AdapterOutput(status, failure, proposed, accepted, intents, delta, seed, retained, state)
      BY <1>8, <2>1 DEF AdapterOutput
    <2> QED
      BY <2>1, <2>2 DEF Ends
  <1>9. CASE s.consumed >= MaxMetricCalls
    <2>1. PICK o : o = TerminalOutput(best)
      OBVIOUS
    <2>2. SearchedOutput(r, s, MaxMetricCalls) = [o EXCEPT !.state = state, !.delta = delta]
      BY <1>1, <1>2, <1>3, <1>4, <1>5, <1>7, <1>9, <2>1 DEF SearchedOutput
    <2>3. \E accepted, seed, retained :
              o = AdapterOutput("complete", None, accepted, accepted, <<>>, 0, seed, retained, None)
      <3>1. PICK d : d = Output("complete")
        OBVIOUS
      <3>2. PICK no : d = AdapterOutput("complete", None, <<>>, <<>>, <<>>, 0, no, None, None)
        BY <3>1, Defaults
      <3>3. CASE best = Seed
        <4>1. PICK yes, retained : yes = TRUE /\ retained = SeedCandidate
          OBVIOUS
        <4>2. o = [d EXCEPT !.seedRetained = yes, !.retained = retained]
          BY <2>1, <3>1, <3>3, <4>1 DEF TerminalOutput
        <4>3. o = AdapterOutput("complete", None, <<>>, <<>>, <<>>, 0, yes, retained, None)
          BY <3>2, <4>2 DEF AdapterOutput
        <4> QED
          BY <4>3
      <3>4. CASE best # Seed
        <4>1. PICK winner : winner = [id |-> <<"gepa", 0>>, base |-> SeedCandidate.id, text |-> best]
          OBVIOUS
        <4>2. PICK accepted : accepted = <<winner>>
          OBVIOUS
        <4>3. o = [d EXCEPT !.proposed = accepted, !.accepted = accepted]
          BY <2>1, <3>1, <3>4, <4>1, <4>2 DEF TerminalOutput
        <4>4. o = AdapterOutput("complete", None, accepted, accepted, <<>>, 0, no, None, None)
          BY <3>2, <4>3 DEF AdapterOutput
        <4> QED
          BY <4>4
      <3> QED
        BY <3>3, <3>4
    <2>4. PICK accepted, seed, retained :
              o = AdapterOutput("complete", None, accepted, accepted, <<>>, 0, seed, retained, None)
      BY <2>3
    <2>5. Ends(SearchedOutput(r, s, MaxMetricCalls), "complete", state)
      BY <1>8, <2>2, <2>4
    <2> QED
      BY <1>1, <2>5
  <1>10. CASE ~(s.consumed >= MaxMetricCalls)
    <2>1. PICK o : o = Output("continue")
      OBVIOUS
    <2>2. SearchedOutput(r, s, MaxMetricCalls) = [o EXCEPT !.state = state, !.delta = delta]
      BY <1>1, <1>2, <1>3, <1>4, <1>5, <1>7, <1>10, <2>1 DEF SearchedOutput
    <2>3. PICK no : no = FALSE
      OBVIOUS
    <2>4. o = AdapterOutput("continue", None, <<>>, <<>>, <<>>, 0, no, None, None)
      BY <2>1, <2>3 DEF Output, Failed, AdapterOutput
    <2>5. Ends(SearchedOutput(r, s, MaxMetricCalls), "continue", state)
      BY <1>8, <2>2, <2>4
    <2>6. s.consumed < MaxMetricCalls
      BY <1>6, <1>10
    <2> QED
      BY <1>1, <2>5, <2>6
  <1> QED
    BY <1>9, <1>10

\* At a reflection no search has gone past, every evaluation is touched.
LEMMA AllTouched ==
    ASSUME StoreInv, NEW T, TrailInv(T), pc = "effect", Request.kind = "propose", ~Passed(Entry)
    PROVE  \A id \in Evaluations : \E t \in touched : t.id = id
  <1>1. Len(effects) \in Nat /\ DOMAIN effects = 1 .. Len(effects)
    BY Domains DEF StoreInv
  <1>2. PICK n \in Nat : /\ n = search.ordinal /\ n + 1 = Len(effects)
                         /\ effects[n + 1].request.kind = "propose"
    <2>1. /\ search.ordinal \in Nat /\ search.ordinal < Len(effects)
          /\ effects[search.ordinal + 1].request.kind = "propose"
          /\ ~(search.ordinal + 1 < Len(effects))
      BY Slot
    <2>2. PICK n \in Nat : n = search.ordinal
      BY <2>1
    <2>3. n + 1 = Len(effects)
      BY <1>1, <2>1, <2>2
    <2> QED
      BY <2>1, <2>2, <2>3
  <1>3. \A k \in 1 .. n : effects[k].request.kind = "evaluate" => \E t \in touched : t.id = k - 1
    BY <1>2 DEF TrailInv, SearchInv
  <1> TAKE id \in Evaluations
  <1>4. PICK k \in DOMAIN effects : id = k - 1 /\ effects[k].request.kind = "evaluate"
    BY DEF Evaluations
  <1>5. k # n + 1
    BY <1>2, <1>4
  <1>6. k \in 1 .. n
    BY <1>1, <1>2, <1>4, <1>5
  <1> QED
    BY <1>3, <1>4, <1>6

\* On the platform the step is left with a deferral.
LEMMA EvaluateDeferredStep ==
    ASSUME GepaInv, EvaluateDeferred
    PROVE  GepaInv'
  <1>1. PICK T : TrailInv(T)
    BY DEF GepaInv
  <1>2. /\ StoreInv /\ ShapeInv /\ pc = "effect" /\ results' = results /\ effects' = effects
        /\ ckpt' = ckpt /\ final' = final /\ Kept /\ ShapeInv'
    BY Still DEF GepaInv, StoreInv, EvaluateDeferred, Effect, durable
  <1>3. PICK intent : intent = [id |-> <<req.index, Request.ordinal>>, step |-> req.index, cand |-> Assembled(Request.text)]
    OBVIOUS
  <1>4. PICK output : output = DeferredOutput(req, intent)
    OBVIOUS
  <1>5. Emit(output, usage)
    BY <1>3, <1>4 DEF EvaluateDeferred
  <1>6. PICK state : state = StateDelta(req, req.checkpoint, {})
    OBVIOUS
  <1>7. Ends(output, "continue", state)
    BY <1>4, <1>6, DeferredEnds
  <1>8. state.checkpoint = CurrentCheckpoint /\ Continuing
    BY <1>2, <1>6 DEF StateDelta, StoreInv, PhaseInv
  <1>9. state.checkpoint.consumed \in Nat /\ Below(T, NextBudget(state.checkpoint, MaxMetricCalls))
    BY <1>1, <1>8 DEF TrailInv
  <1>10. Unreported(usage) /\ Trail(T)
    BY <1>1, <1>2 DEF StoreInv, UsageInv, TrailInv
  <1>11. PICK reported : reported = usage
    OBVIOUS
  <1>12. Unreported(reported)'
    BY <1>2, <1>10, <1>11, Frame
  <1> QED
    BY <1>1, <1>2, <1>5, <1>7, <1>9, <1>11, <1>12, EmitStep

\* A recorded reflection is applied again; a failed one fails again.
LEMMA ProposeReplayedStep ==
    ASSUME GepaInv, ProposeReplayed
    PROVE  GepaInv'
  <1>1. PICK T : TrailInv(T)
    BY DEF GepaInv
  <1>2. /\ StoreInv /\ ShapeInv /\ pc = "effect" /\ results' = results /\ effects' = effects
        /\ ckpt' = ckpt /\ final' = final /\ Kept /\ ShapeInv' /\ Request.kind = "propose" /\ Trail(T)
    BY <1>1, Still DEF GepaInv, StoreInv, ProposeReplayed, Effect, durable, TrailInv
  <1>3. PICK reported : reported = usage
    OBVIOUS
  <1>4. Unreported(reported)'
    BY <1>2, <1>3, Frame DEF StoreInv, UsageInv
  <1>5. /\ Entry = effects[search.ordinal + 1] /\ Entry.request = Request /\ Entry.result # <<>>
    BY <1>1, <1>2, Slot DEF ProposeReplayed
  <1>6. CASE Answer.failed
    <2>1. PICK output : output = ReflectionFailureOutput(search)
      OBVIOUS
    <2>2. Emit(output, reported)
      BY <1>3, <1>6, <2>1 DEF ProposeReplayed
    <2>3. PICK state : Ends(output, "failed", state)
      BY <2>1, FailureEnds
    <2>4. ~Passed(Entry)
      BY <1>2, <1>5, <1>6 DEF Passed, Answer
    <2>5. \A id \in Evaluations : \E t \in touched : t.id = id
      BY <1>1, <1>2, <2>4, AllTouched
    <2> QED
      BY <1>1, <1>2, <1>4, <2>2, <2>3, <2>5, EmitStep
  <1>7. CASE ~Answer.failed
    <2>1. /\ search' = Reflected(search, Answer) /\ pc' = "search" /\ req' = req
          /\ touched' = touched /\ usage' = usage
      BY <1>7 DEF ProposeReplayed
    <2>2. PICK e : e = effects'[search.ordinal + 1]
      OBVIOUS
    <2>3. e = Entry /\ e.request.kind = "propose" /\ e.result # <<>> /\ e.result[1] = Answer
      BY <1>2, <1>5, <2>2 DEF Answer
    <2>4. Passed(e)
      BY <1>7, <2>3 DEF Passed
    <2>5. search' = Reflected(search, e.result[1])
      BY <2>1, <2>3
    <2>6. Unreported(usage)'
      BY <1>3, <1>4, <2>1 DEF Unreported
    <2> QED
      BY <1>1, <1>2, <2>1, <2>2, <2>3, <2>4, <2>5, <2>6, AnswerStep
  <1> QED
    BY <1>6, <1>7

\* A fresh reflection is recorded and, if it was billed, reported by this process.
LEMMA ProposeFreshStep ==
    ASSUME GepaInv, NEW result, ProposeFresh(result)
    PROVE  GepaInv'
  <1>1. PICK T : TrailInv(T)
    BY DEF GepaInv
  <1>2. /\ StoreInv /\ ShapeInv /\ pc = "effect" /\ results' = results /\ run' = run
        /\ effects' = Record(effects, Request, result)
        /\ ckpt' = ckpt /\ final' = final /\ Request.kind = "propose" /\ Trail(T) /\ ~Recorded(effects, Request)
    BY <1>1 DEF GepaInv, StoreInv, ProposeFresh, Effect, TrailInv
  <1>3. PICK n \in Nat : n = search.ordinal
    BY <1>1, <1>2, Slot
  <1>4. /\ Request.ordinal = n /\ Entry = effects[n + 1] /\ Entry.request = Request
        /\ n + 1 \in 1 .. Len(effects) /\ Entry.result = <<>> /\ effects[n + 1].result = <<>>
    BY <1>1, <1>2, <1>3, Slot
  <1>5. effects' = [effects EXCEPT ![n + 1].result = <<result>>]
    BY <1>2, <1>4 DEF Record
  <1>6. /\ Kept /\ ShapeInv'
        /\ effects'[n + 1].request = effects[n + 1].request /\ effects'[n + 1].result = <<result>>
    BY <1>2, <1>4, <1>5, RecordKept
  <1>7. PICK reported : reported = usage \cup ProposalCallUsage(Request, result)
    OBVIOUS
  <1>8. Unreported(reported)'
    <2>1. PICK calls : calls = usage
      OBVIOUS
    <2>2. Unreported(calls)'
      BY <1>2, <1>6, <2>1, Frame DEF StoreInv, UsageInv
    <2>3. PICK call : call = <<"reflection", n>>
      OBVIOUS
    <2>4. reported \subseteq calls \cup {call}
      BY <1>4, <1>7, <2>1, <2>3 DEF ProposalCallUsage
    <2>5. Billed(call)'
      <3>1. n + 1 \in DOMAIN effects' /\ call = <<"reflection", (n + 1) - 1>> /\ effects'[n + 1].result # <<>>
        <4>1. n + 1 \in DOMAIN effects'
          BY <1>2, <1>4, <1>5, Domains
        <4>2. effects'[n + 1].result # <<>>
          BY <1>6
        <4>3. (n + 1) - 1 = n
          BY <1>3
        <4> QED
          BY <2>3, <4>1, <4>2, <4>3
      <3> QED
        BY <3>1 DEF Billed
    <2>6. ~Billed(call)
      <3> SUFFICES ASSUME NEW k \in DOMAIN effects, call = <<"reflection", k - 1>>, effects[k].result # <<>>
                   PROVE  FALSE
        BY DEF Billed
      <3>1. n = k - 1
        BY <2>3
      <3>2. k \in Nat
        BY <1>2, Domains
      <3>3. k = n + 1
        BY <1>3, <3>1, <3>2
      <3> QED
        BY <1>4, <3>3
    <2>7. \A i \in DOMAIN results : call \notin results[i].usage
      BY <1>2, <2>6 DEF StoreInv, UsageInv
    <2> QED
      BY <1>2, <2>2, <2>4, <2>5, <2>7 DEF Unreported
  <1>9. CASE result.failed
    <2>1. PICK output : output = ReflectionFailureOutput(search)
      OBVIOUS
    <2>2. Emit(output, reported)
      BY <1>7, <1>9, <2>1 DEF ProposeFresh
    <2>3. PICK state : Ends(output, "failed", state)
      BY <2>1, FailureEnds
    <2>4. ~Passed(Entry)
      BY <1>4 DEF Passed
    <2>5. \A id \in Evaluations : \E t \in touched : t.id = id
      BY <1>1, <1>2, <2>4, AllTouched
    <2> QED
      BY <1>1, <1>2, <1>6, <1>8, <2>2, <2>3, <2>5, EmitStep
  <1>10. CASE ~result.failed
    <2>1. /\ search' = Reflected(search, result) /\ pc' = "search" /\ req' = req
          /\ touched' = touched /\ usage' = reported
      BY <1>7, <1>10 DEF ProposeFresh
    <2>2. PICK e : e = effects'[search.ordinal + 1]
      OBVIOUS
    <2>3. e.request = Request /\ e.request.kind = "propose" /\ e.result = <<result>>
      BY <1>2, <1>3, <1>4, <1>6, <2>2
    <2>4. Passed(e) /\ e.result[1] = result
      BY <1>10, <2>3 DEF Passed
    <2>5. search' = Reflected(search, e.result[1])
      BY <2>1, <2>4
    <2>6. Unreported(usage)'
      BY <1>8, <2>1 DEF Unreported
    <2> QED
      BY <1>1, <1>2, <1>6, <2>1, <2>2, <2>3, <2>4, <2>5, <2>6, AnswerStep
  <1> QED
    BY <1>9, <1>10

\* A search that stops has gone past every effect, and its checkpoint's budget is no
\* smaller than its own.
LEMMA SearchEndsStep ==
    ASSUME GepaInv, BudgetInv, SearchEnds
    PROVE  GepaInv'
  <1>1. PICK T : TrailInv(T)
    BY DEF GepaInv
  <1>2. /\ StoreInv /\ ShapeInv /\ pc = "search" /\ search.at = "stop" /\ results' = results /\ effects' = effects
        /\ ckpt' = ckpt /\ final' = final /\ Kept /\ ShapeInv' /\ Trail(T)
    BY <1>1, Still DEF GepaInv, StoreInv, SearchEnds, TrailInv
  <1>3. /\ SearchShape(search) /\ Budgeted(search) /\ search.limit = NextBudget(req.checkpoint, MaxMetricCalls)
        /\ search.ordinal <= Len(effects) /\ Unlimited(search) = Reached(T, search.ordinal)
        /\ \A k \in 1 .. search.ordinal :
               effects[k].request.kind = "evaluate" => \E t \in touched : t.id = k - 1
    BY <1>1, <1>2 DEF TrailInv, SearchInv
  <1>4. /\ search.consumed \in Nat /\ search.ordinal \in Nat /\ search.limit \in Nat
        /\ Unlimited(search).at = "parent" /\ Unlimited(search).consumed = search.consumed
    <2>1. PICK at \in {"seed", "parent", "reflect", "child", "value", "stop"},
               limit \in Nat, consumed \in Nat, ordinal \in Nat :
               \E pool, child, before, attempt, skipped :
                 search = State(at, limit, consumed, ordinal, pool, child, before, attempt, skipped)
      BY <1>3 DEF SearchShape
    <2>2. PICK pool, child, before, attempt, skipped :
                 search = State(at, limit, consumed, ordinal, pool, child, before, attempt, skipped)
      BY <2>1
    <2>3. PICK s : s = search
      OBVIOUS
    <2>4. s.at = at /\ s.limit = limit /\ s.consumed = consumed /\ s.ordinal = ordinal
      BY <2>1, <2>2, <2>3, Fields
    <2>5. at = "stop"
      BY <1>2, <2>3, <2>4
    <2>6. Unlimited(s) = State("parent", 0, consumed, ordinal, pool, child, before, attempt, skipped)
      BY <2>1, <2>2, <2>3, <2>5, Fields
    <2>7. Unlimited(s).at = "parent" /\ Unlimited(s).consumed = consumed
      BY <2>6 DEF State
    <2> QED
      BY <2>1, <2>3, <2>4, <2>7
  <1>5. search.consumed >= search.limit
    BY <1>2, <1>3 DEF Budgeted
  <1>6. Continuing /\ req.checkpoint = CurrentCheckpoint
    BY <1>2 DEF StoreInv, PhaseInv
  <1>7. CurrentCheckpoint.consumed \in Nat /\ Below(T, search.limit)
    BY <1>1, <1>3, <1>6 DEF TrailInv
  <1>8. Len(effects) \in Nat /\ DOMAIN effects = 1 .. Len(effects)
    BY <1>2, Domains
  <1>9. search.ordinal = Len(effects)
    <2> SUFFICES ASSUME search.ordinal \in 0 .. Len(effects) - 1 PROVE FALSE
      BY <1>3, <1>4, <1>8
    <2>1. T[search.ordinal] = Unlimited(search)
      BY <1>2, <1>3 DEF Trail
    <2>2. T[search.ordinal].at = "parent" => T[search.ordinal].consumed < search.limit
      BY <1>7 DEF Below
    <2>3. search.consumed < search.limit
      BY <1>4, <2>1, <2>2
    <2> QED
      BY <1>4, <1>5, <2>3
  <1>10. \A id \in Evaluations : \E t \in touched : t.id = id
    <2> TAKE id \in Evaluations
    <2>1. PICK k \in DOMAIN effects : id = k - 1 /\ effects[k].request.kind = "evaluate"
      BY DEF Evaluations
    <2> QED
      BY <1>3, <1>8, <1>9, <2>1
  <1>11. PICK output : output = SearchedOutput(req, search, MaxMetricCalls)
    OBVIOUS
  <1>12. PICK reported : reported = usage
    OBVIOUS
  <1>13. Unreported(reported)'
    BY <1>2, <1>12, Frame DEF StoreInv, UsageInv
  <1>14. PICK status \in {"continue", "complete"}, state \in {StateDelta(req, UpdatedCheckpoint(search.consumed, MaxMetricCalls), search.skipped)} :
               /\ Ends(output, status, state)
               /\ status = "continue" => search.consumed < MaxMetricCalls
    <2>1. PICK s : s = search
      OBVIOUS
    <2> QED
      BY <1>4, <1>11, <2>1, SearchedEnds DEF BudgetInv
  <1>15. status = "continue" => state.checkpoint.consumed \in Nat /\ Below(T, NextBudget(state.checkpoint, MaxMetricCalls))
    <2>1. state.checkpoint.consumed = search.consumed
      BY <1>14 DEF StateDelta, UpdatedCheckpoint
    <2>2. search.limit <= MaxMetricCalls /\ MaxMetricCalls \in Nat
      <3>1. MaxMetricCalls \in Nat
        BY DEF BudgetInv
      <3> QED
        BY <1>3, <1>6, <1>7, <3>1 DEF NextBudget
    <2>3. NextBudget(state.checkpoint, MaxMetricCalls) \in Nat /\ search.limit <= NextBudget(state.checkpoint, MaxMetricCalls)
      BY <1>4, <1>5, <2>1, <2>2 DEF NextBudget
    <2>4. PICK limit \in Nat, other \in Nat : limit = search.limit /\ other = NextBudget(state.checkpoint, MaxMetricCalls) /\ limit <= other
      BY <1>4, <2>3
    <2>5. Below(T, other)
      BY <1>7, <2>4 DEF Below
    <2> QED
      BY <1>4, <2>1, <2>4, <2>5
  <1>16. Raise("transcript") \/ Emit(output, reported)
    BY <1>11, <1>12 DEF SearchEnds, Report
  <1>17. CASE Raise("transcript")
    BY <1>1, <1>2, <1>17, RaiseStep
  <1>18. CASE Emit(output, reported)
    BY <1>1, <1>2, <1>10, <1>13, <1>14, <1>15, <1>18, EmitStep
  <1> QED
    BY <1>16, <1>17, <1>18

\* The next effect takes its slot: the trail grows by where the search is.
LEMMA RecordRequestStep ==
    ASSUME GepaInv, RecordRequest
    PROVE  GepaInv'
  <1>1. PICK T : TrailInv(T)
    BY DEF GepaInv
  <1>2. /\ StoreInv /\ ShapeInv /\ pc = "search" /\ search.at # "stop" /\ results' = results /\ run' = run
        /\ ckpt' = ckpt /\ final' = final /\ Trail(T)
    BY <1>1 DEF GepaInv, StoreInv, RecordRequest, TrailInv
  <1>3. /\ SearchShape(search) /\ Budgeted(search) /\ search.limit = NextBudget(req.checkpoint, MaxMetricCalls)
        /\ search.ordinal <= Len(effects) /\ Unlimited(search) = Reached(T, search.ordinal)
        /\ search.ordinal > 0 => Passed(effects[search.ordinal])
        /\ \A k \in 1 .. search.ordinal :
               effects[k].request.kind = "evaluate" => \E t \in touched : t.id = k - 1
    BY <1>1, <1>2 DEF TrailInv, SearchInv
  <1>4. PICK n \in Nat : n = search.ordinal /\ Request.ordinal = n
    BY <1>2, <1>3, RequestOf
  <1>5. /\ search.consumed \in Nat /\ Unlimited(search).at = search.at
        /\ Unlimited(search).consumed = search.consumed
    BY <1>2, <1>3, RequestOf
  <1>6. PICK l \in Nat : l = Len(effects) /\ DOMAIN effects = 1 .. l
    BY <1>2, Domains
  <1>7. Continuing /\ req.checkpoint = CurrentCheckpoint /\ ckpt = None /\ final = None
    BY <1>2 DEF StoreInv, PhaseInv
  <1>8. PICK request : request = Request
    OBVIOUS
  <1>a. NextEffect(Unlimited(search)) = Request
    BY <1>2, <1>3, SameEffect DEF Request
  <1>9. CASE SlotConflict(effects, Request)
    <2>1. Raise("effect") /\ effects' = effects
      BY <1>9 DEF RecordRequest
    <2>2. Kept /\ ShapeInv'
      BY <1>2, <2>1, Still
    <2> QED
      BY <1>1, <1>2, <2>1, <2>2, RaiseStep
  <1>10. CASE ~SlotConflict(effects, Request)
    <2>1. /\ effects' = Slotted(effects, Request) /\ pc' = "effect" /\ req' = req /\ search' = search
          /\ touched' = touched /\ usage' = usage
      BY <1>10 DEF RecordRequest, memory
    \* What does not depend on the case
    <2>2. ASSUME NEW U, ShapeInv', Trail(U)', Below(U, NextBudget(CurrentCheckpoint, MaxMetricCalls))',
                 Reached(U, n)' = Reached(T, n), n < Len(effects'), effects'[n + 1].request = request,
                 \A k \in 1 .. l : effects'[k] = effects[k], \A k \in 1 .. l : k \in DOMAIN effects'
          PROVE  GepaInv'
      <3>1. (Continuing' <=> Continuing) /\ CurrentCheckpoint' = CurrentCheckpoint
        BY <1>2 DEF Continuing, CurrentCheckpoint
      <3>2. DisjointInv' /\ SettledInv'
        BY <1>2, <1>7, <3>1 DEF StoreInv, DisjointInv, SettledInv
      <3>3. ASSUME NEW call, Billed(call) PROVE Billed(call)'
        BY <1>6, <2>2, <3>3 DEF Billed
      <3>4. UsageInv'
        BY <1>2, <2>1, <3>3 DEF StoreInv, UsageInv, Unreported
      <3>5. PhaseInv'
        BY <1>2, <1>7, <2>1, <3>1 DEF PhaseInv
      <3>6. SearchInv(U)'
        <4>1. SearchShape(search)' /\ Budgeted(search)'
          BY <1>3, <2>1 DEF SearchShape, Budgeted
        <4>2. Unlimited(search)' = Reached(U, search.ordinal)'
          BY <1>3, <1>4, <2>1, <2>2 DEF Unlimited, Reached
        <4>3. \A k \in 1 .. n : effects'[k] = effects[k]
          BY <1>3, <1>4, <1>6, <2>2
        <4>4. n > 0 => Passed(effects[search.ordinal])'
          BY <1>3, <1>4, <2>1, <4>3 DEF Passed
        <4>5. \A k \in 1 .. n : effects'[k].request.kind = "evaluate" => \E t \in touched' : t.id = k - 1
          BY <1>3, <1>4, <2>1, <4>3
        <4>6. effects'[n + 1].request = Request'
          BY <1>8, <2>1, <2>2 DEF Request
        <4>7. Len(effects') \in Nat
          BY <2>2, LenProperties DEF ShapeInv
        <4>8. NextBudget(req.checkpoint, MaxMetricCalls)' = NextBudget(req.checkpoint, MaxMetricCalls)
          BY <1>2, <2>1 DEF MaxMetricCalls
        <4> QED
          BY <1>2, <1>3, <1>4, <2>1, <2>2, <4>1, <4>2, <4>4, <4>5, <4>6, <4>7, <4>8 DEF SearchInv
      <3>7. TrailInv(U)'
        BY <1>1, <1>2, <1>7, <2>1, <2>2, <3>1, <3>6 DEF TrailInv
      <3> QED
        BY <2>2, <3>2, <3>4, <3>5, <3>7 DEF GepaInv, StoreInv
    <2>3. CASE n + 1 = l + 1
      <3>1. PICK slot : slot = [request |-> request, resolution |-> None, result |-> <<>>]
        OBVIOUS
      <3>2. effects' = Append(effects, slot)
        BY <1>4, <1>6, <1>8, <2>1, <2>3, <3>1 DEF Slotted
      <3>3. PICK S : effects \in Seq(S)
        BY <1>2 DEF ShapeInv
      <3>4. effects \in Seq(S \cup {slot}) /\ slot \in S \cup {slot}
        BY <3>3
      <3>5. /\ effects' \in Seq(S \cup {slot}) /\ Len(effects') = l + 1
            /\ effects'[l + 1] = slot /\ \A k \in 1 .. l : effects'[k] = effects[k]
        BY <1>6, <3>2, <3>4, AppendProperties
      <3>6. DOMAIN effects' = 1 .. l + 1
        BY <3>5, LenProperties
      <3>7. ShapeInv'
        <4>1. \A k \in 1 .. l + 1 :
                  effects'[k] = [request |-> effects'[k].request, resolution |-> effects'[k].resolution,
                                 result |-> effects'[k].result]
          <5> TAKE k \in 1 .. l + 1
          <5>1. CASE k \in 1 .. l
            BY <1>2, <1>6, <3>5, <5>1 DEF ShapeInv
          <5>2. CASE k = l + 1
            BY <3>1, <3>5, <5>2
          <5> QED
            BY <5>1, <5>2
        <4> QED
          BY <1>2, <3>5, <3>6, <4>1 DEF ShapeInv
      <3>8. PICK U : U = [k \in 0 .. l |-> IF k = l THEN Unlimited(search) ELSE T[k]]
        OBVIOUS
      <3>9. U[l] = Unlimited(search) /\ \A k \in 0 .. l - 1 : U[k] = T[k]
        BY <3>8
      <3>10. ASSUME NEW k \in 0 .. l PROVE Reached(U, k)' = Reached(T, k)
        <4>1. CASE k = 0
          BY <4>1 DEF Reached
        <4>2. CASE k > 0
          <5>1. k \in 1 .. l /\ k - 1 \in 0 .. l - 1
            BY <4>2
          <5>2. effects'[k] = effects[k] /\ U[k - 1] = T[k - 1]
            BY <3>5, <3>9, <5>1
          <5> QED
            BY <4>2, <5>2 DEF Reached
        <4> QED
          BY <4>1, <4>2
      <3>11. Trail(U)'
        <4> SUFFICES ASSUME NEW k \in 0 .. l
                     PROVE  /\ U[k] = Reached(U, k)' /\ effects'[k + 1].request = NextEffect(U[k])
                            /\ k > 0 => Passed(effects'[k])
          BY <3>5 DEF Trail, Passed
        <4>1. CASE k = l
          <5>1. U[k] = Reached(T, k)
            BY <1>3, <1>4, <2>3, <3>9, <4>1
          <5>2. k > 0 => Passed(effects[k]) /\ effects'[k] = effects[k]
            BY <1>3, <1>4, <2>3, <3>5, <4>1
          <5>3. effects'[k + 1].request = NextEffect(U[k])
            BY <1>8, <1>a, <3>1, <3>5, <3>9, <4>1 DEF Request
          <5> QED
            BY <3>10, <5>1, <5>2, <5>3
        <4>2. CASE k # l
          <5>1. k \in 0 .. Len(effects) - 1 /\ k \in 0 .. l - 1 /\ k + 1 \in 1 .. l
            BY <1>6, <4>2
          <5>2. T[k] = Reached(T, k) /\ effects[k + 1].request = NextEffect(T[k]) /\ (k > 0 => Passed(effects[k]))
            BY <1>2, <5>1 DEF Trail
          <5>3. U[k] = T[k]
            BY <3>9, <5>1
          <5>4. effects'[k + 1] = effects[k + 1] /\ (k > 0 => effects'[k] = effects[k])
            BY <3>5, <5>1
          <5> QED
            BY <3>10, <5>2, <5>3, <5>4
        <4> QED
          BY <4>1, <4>2
      <3>12. Below(U, NextBudget(CurrentCheckpoint, MaxMetricCalls))'
        <4>1. PICK limit : limit = NextBudget(CurrentCheckpoint, MaxMetricCalls)
          OBVIOUS
        <4>2. Below(T, limit)
          BY <1>1, <1>7, <4>1 DEF TrailInv
        <4>3. NextBudget(CurrentCheckpoint, MaxMetricCalls)' = limit
          BY <1>2, <4>1 DEF CurrentCheckpoint, MaxMetricCalls
        <4>4. ASSUME NEW k \in 0 .. l, U[k].at = "parent" PROVE U[k].consumed \in Nat /\ U[k].consumed < limit
          <5>1. CASE k = l
            <6>1. search.at = "parent" /\ U[k].consumed = search.consumed
              BY <1>5, <3>9, <4>4, <5>1
            <6>2. search.consumed < search.limit
              BY <1>3, <6>1 DEF Budgeted
            <6> QED
              BY <1>3, <1>5, <1>7, <4>1, <6>1, <6>2
          <5>2. CASE k # l
            <6>1. k \in 0 .. Len(effects) - 1 /\ U[k] = T[k]
              BY <1>6, <3>9, <5>2
            <6> QED
              BY <4>2, <4>4, <6>1 DEF Below
          <5> QED
            BY <5>1, <5>2
        <4> QED
          BY <3>5, <4>3, <4>4 DEF Below
      <3>13. n < Len(effects') /\ effects'[n + 1].request = request
        BY <2>3, <3>1, <3>5
      <3>14. Reached(U, n)' = Reached(T, n)
        BY <2>3, <3>10
      <3> QED
        BY <2>2, <3>5, <3>6, <3>7, <3>11, <3>12, <3>13, <3>14
    <2>4. CASE n + 1 # l + 1
      <3>1. effects' = effects
        BY <1>4, <1>6, <1>8, <2>1, <2>4 DEF Slotted
      <3>2. Kept /\ ShapeInv'
        BY <1>2, <3>1, Still
      <3>3. Trail(T)'
        BY <1>2, <3>2, Frame
      <3>4. Below(T, NextBudget(CurrentCheckpoint, MaxMetricCalls))'
        BY <1>1, <1>2, <1>7, <3>1 DEF TrailInv, Below, CurrentCheckpoint, MaxMetricCalls
      <3>5. n + 1 \in 1 .. l /\ effects[n + 1].request = request
        BY <1>4, <1>6, <1>8, <1>10, <2>4 DEF SlotConflict
      <3>6. Reached(T, n)' = Reached(T, n)
        BY <3>1 DEF Reached
      <3> QED
        BY <1>6, <2>2, <3>1, <3>2, <3>3, <3>4, <3>5, <3>6
    <2> QED
      BY <2>3, <2>4
  <1> QED
    BY <1>9, <1>10

-----------------------------------------------------------------------------
(* The theorems.                                                           *)

\* Nothing changes.
LEMMA StutterStep ==
    ASSUME GepaInv, UNCHANGED vars
    PROVE  GepaInv'
  <1>1. PICK T : TrailInv(T)
    BY DEF GepaInv
  <1>2. /\ pc' = pc /\ req' = req /\ out' = out /\ search' = search /\ touched' = touched /\ usage' = usage
        /\ ckpt' = ckpt /\ results' = results /\ effects' = effects /\ final' = final /\ run' = run
    BY DEF vars, memory, durable
  <1>3. StoreInv'
    BY <1>2 DEF GepaInv, StoreInv, ShapeInv, DisjointInv, UsageInv, Unreported, Billed, SettledInv, PhaseInv,
                Continuing, CurrentCheckpoint, RecordedEvidence, Evaluations
  <1>4. Trail(T)' /\ (Continuing' => CurrentCheckpoint'.consumed \in Nat /\ Below(T, NextBudget(CurrentCheckpoint, MaxMetricCalls))')
    BY <1>1, <1>2, Still, Frame, FrameCheckpoint DEF GepaInv, StoreInv, TrailInv
  <1>5. SearchInv(T)'
    <2>1. SearchShape(search)' <=> SearchShape(search)
      BY <1>2 DEF SearchShape
    <2>2. Budgeted(search)' <=> Budgeted(search)
      BY <1>2 DEF Budgeted
    <2>3. Unlimited(search)' = Unlimited(search) /\ Reached(T, search.ordinal)' = Reached(T, search.ordinal)
      BY <1>2 DEF Unlimited, Reached
    <2>4. NextBudget(req.checkpoint, MaxMetricCalls)' = NextBudget(req.checkpoint, MaxMetricCalls) /\ Request' = Request
      BY <1>2 DEF NextBudget, Request, MaxMetricCalls
    <2>5. Passed(effects[search.ordinal])' <=> Passed(effects[search.ordinal])
      BY <1>2 DEF Passed
    <2> QED
      BY <1>1, <1>2, <2>1, <2>2, <2>3, <2>4, <2>5 DEF TrailInv, SearchInv
  <1>6. (pc' \in {"emit", "resolve", "parked"} => OutputInv(T, out)') /\ (ckpt' # None => OutputInv(T, ckpt)')
    <2>1. PICK o, p : o = out /\ p = ckpt
      OBVIOUS
    <2>2. (OutputInv(T, o) => OutputInv(T, o)') /\ (OutputInv(T, p) => OutputInv(T, p)')
      BY <1>1, <1>2, Still, FrameOutput DEF GepaInv, StoreInv, TrailInv
    <2>3. (pc \in {"emit", "resolve", "parked"} => OutputInv(T, o)') /\ (ckpt # None => OutputInv(T, p)')
      BY <1>1, <2>1, <2>2 DEF TrailInv
    <2> QED
      BY <1>2, <2>1, <2>3 DEF OutputInv
  <1> QED
    BY <1>3, <1>4, <1>5, <1>6 DEF GepaInv, TrailInv

LEMMA RunKept ==
    ASSUME [Next]_vars
    PROVE  run' = run
  BY DEF Next, Step, Controller, RunStep, Invoke, Drive, Advance, TerminalizeRun, Checkpoint, BindResult, Park,
         ResolveIntent, FanInMerge, FanInResume, CoproInvoke, GepaBegin, RecordRequest, EvaluateReplayed,
         EvaluateRecord, EvaluateDeferred, EvaluateFresh, ProposeReplayed, ProposeFresh, SearchEnds, GepaUnbudgeted,
         Crash,
         Stopped, vars

\* A run without a budget does not turn to a search.
LEMMA BudgetStep ==
    ASSUME run.key = "gepa", BudgetInv, [Next]_vars
    PROVE  BudgetInv'
  <1>1. MaxMetricCalls' = MaxMetricCalls
    BY RunKept DEF MaxMetricCalls
  <1> SUFFICES ASSUME MaxMetricCalls = 0
               PROVE  effects' = <<>> /\ pc' \notin {"search", "effect"}
    BY <1>1 DEF BudgetInv
  <1>2. effects = <<>> /\ pc \notin {"search", "effect"}
    BY DEF BudgetInv
  <1>3. CASE Controller
    BY <1>2, <1>3 DEF Controller, Drive, Advance, TerminalizeRun, Turn, Raise, durable
  <1>4. CASE RunStep
    <2>1. CASE \E resolution : FanInResume(resolution)
      BY <1>2, <2>1 DEF FanInResume
    <2> QED
      BY <1>2, <1>4, <2>1 DEF RunStep, Checkpoint, BindResult, Park, ResolveIntent, FanInMerge, Raise, durable
  <1>5. CASE Invoke
    <2>1. CASE GepaBegin
      BY <1>2, <2>1 DEF GepaBegin, Raise, durable
    <2>2. CASE GepaUnbudgeted
      BY <1>2, <2>2 DEF GepaUnbudgeted, Report, Emit, Raise
    <2> QED
      BY <1>2, <1>5, <2>1, <2>2 DEF Invoke, CoproInvoke, RecordRequest, EvaluateReplayed, EvaluateRecord,
             EvaluateDeferred, Effect, ProposeReplayed, ProposeFresh, SearchEnds
  <1>6. CASE Crash \/ Stopped \/ UNCHANGED vars
    BY <1>2, <1>6 DEF Crash, Stopped, vars, durable
  <1> QED
    BY <1>3, <1>4, <1>5, <1>6 DEF Next, Step

\* Without a budget the one step ends the run, and there is no effect to report.
LEMMA UnbudgetedStep ==
    ASSUME GepaInv, BudgetInv, GepaUnbudgeted
    PROVE  GepaInv'
  <1>1. PICK T : TrailInv(T)
    BY DEF GepaInv
  <1>2. /\ StoreInv /\ ShapeInv /\ pc = "invoke" /\ results' = results /\ effects' = effects /\ run' = run
        /\ ckpt' = ckpt /\ final' = final /\ Kept /\ ShapeInv' /\ Trail(T)
    BY <1>1, Still DEF GepaInv, StoreInv, GepaUnbudgeted, TrailInv
  <1>3. effects = <<>> /\ MaxMetricCalls = 0
    BY DEF BudgetInv, GepaUnbudgeted
  <1>4. Evaluations = {}
    BY <1>3 DEF Evaluations
  <1>5. PICK s : s = NoSearch
    OBVIOUS
  <1>6. s.consumed = 0
    BY <1>5 DEF NoSearch, NewSearch
  <1>7. PICK output, reported : output = SearchedOutput(req, s, MaxMetricCalls) /\ reported = usage
    OBVIOUS
  <1>8. Unreported(reported)'
    BY <1>2, <1>7, Frame DEF StoreInv, UsageInv
  <1>9. PICK status \in {"continue", "complete"}, state \in {StateDelta(req, UpdatedCheckpoint(s.consumed, MaxMetricCalls), s.skipped)} :
               /\ Ends(output, status, state)
               /\ status = "continue" => s.consumed < MaxMetricCalls
    BY <1>3, <1>6, <1>7, SearchedEnds
  <1>10. status # "continue"
    BY <1>3, <1>6, <1>9
  <1>11. Raise("transcript") \/ Emit(output, reported)
    BY <1>5, <1>7 DEF GepaUnbudgeted, Report
  <1>12. CASE Raise("transcript")
    BY <1>1, <1>2, <1>12, RaiseStep
  <1>13. CASE Emit(output, reported)
    BY <1>1, <1>2, <1>4, <1>8, <1>9, <1>10, <1>13, EmitStep
  <1> QED
    BY <1>11, <1>12, <1>13

\* A launched run has neither effects nor results.
LEMMA InitInvariant == Init => IInv
  <1> SUFFICES ASSUME Init, run.key = "gepa" PROVE GepaInv /\ BudgetInv
    BY DEF IInv
  <1>1. /\ results = <<>> /\ effects = <<>> /\ usage = {} /\ pc = "down" /\ ckpt = None /\ final = None
    BY DEF Init
  <1>2. /\ results \in Seq({}) /\ effects \in Seq({}) /\ Len(results) = 0 /\ Len(effects) = 0
        /\ DOMAIN results = {} /\ DOMAIN effects = {}
    BY <1>1
  <1>3. Continuing /\ CurrentCheckpoint.consumed \in Nat
    BY <1>1 DEF Continuing, CurrentCheckpoint, NoCheckpoint
  <1>4. ShapeInv /\ DisjointInv
    BY <1>2 DEF ShapeInv, DisjointInv
  <1>5. UsageInv /\ SettledInv /\ PhaseInv
    BY <1>1, <1>2, <1>3 DEF UsageInv, Unreported, SettledInv, PhaseInv
  <1>6. PICK T : T = [n \in {} |-> n]
    OBVIOUS
  <1>7. Trail(T) /\ \A limit : Below(T, limit)
    BY <1>2 DEF Trail, Below
  <1>8. TrailInv(T)
    BY <1>1, <1>3, <1>7 DEF TrailInv, SearchInv
  <1>9. BudgetInv
    BY <1>1, OptimRunAssumption DEF Init, BudgetInv, MaxMetricCalls, GepaControl
  <1> QED
    BY <1>4, <1>5, <1>8, <1>9 DEF GepaInv, StoreInv

\* Every step of a run keeps the invariant.
LEMMA NextInvariant == IInv /\ [Next]_vars => IInv'
  <1> SUFFICES ASSUME IInv, [Next]_vars, run'.key = "gepa" PROVE GepaInv' /\ BudgetInv'
    BY DEF IInv
  <1>1. run' = run
    BY RunKept
  <1>2. run.key = "gepa" /\ GepaInv /\ BudgetInv
    BY <1>1 DEF IInv
  <1>a. SUFFICES GepaInv'
    BY <1>2, BudgetStep
  <1>3. CASE Controller
    BY <1>2, <1>3, DriveStep, AdvanceStep, TerminalizeStep DEF Controller
  <1>4. CASE RunStep
    <2>1. CASE Checkpoint \/ BindResult \/ Park
      BY <1>2, <2>1, CheckpointStep, BindStep, ParkStep
    <2>2. CASE \E reward \in Rewards \cup {None} : ResolveIntent(reward)
      BY <1>2, <2>2, ResolveStep
    <2>3. CASE \E rewards \in UNION {[1 .. n -> Rewards \cup {None}] : n \in 1 .. Breadth} : FanInMerge(rewards)
      BY <1>2, <2>3 DEF FanInMerge
    <2>4. CASE /\ pc = "parked" /\ run.key = "gepa"
               /\ \E resolution \in Resolutions(effects[Deferred].request, req.index) : FanInResume(resolution)
      BY <1>2, <2>4, ResumeStep
    <2> QED
      BY <1>4, <2>1, <2>2, <2>3, <2>4 DEF RunStep
  <1>5. CASE Invoke
    <2>1. CASE CoproInvoke
      BY <1>2, <2>1 DEF CoproInvoke
    <2>2. CASE GepaBegin \/ RecordRequest \/ EvaluateReplayed \/ EvaluateRecord \/ EvaluateDeferred
      BY <1>2, <2>2, BeginStep, RecordRequestStep, EvaluateReplayedStep, EvaluateRecordStep, EvaluateDeferredStep
    <2>3. CASE \E resolution \in Resolutions(Request, req.index) : EvaluateFresh(resolution)
      BY <1>2, <2>3, EvaluateFreshStep
    <2>4. CASE ProposeReplayed \/ SearchEnds \/ GepaUnbudgeted
      BY <1>2, <2>4, ProposeReplayedStep, SearchEndsStep, UnbudgetedStep
    <2>5. CASE \E result \in Reflections : ProposeFresh(result)
      BY <1>2, <2>5, ProposeFreshStep
    <2> QED
      BY <1>5, <2>1, <2>2, <2>3, <2>4, <2>5 DEF Invoke
  <1>6. CASE Crash
    BY <1>2, <1>6, CrashStep
  <1>7. CASE Stopped \/ UNCHANGED vars
    BY <1>2, <1>7, StutterStep DEF Stopped
  <1> QED
    BY <1>3, <1>4, <1>5, <1>6, <1>7 DEF Next, Step

\* The invariant holds in every state of a run: in particular every search, whatever its
\* budget and however often it was restarted, passes the states of one trail, and the
\* effects there are lie within the budget of the chain's checkpoint.
THEOREM Invariance == Spec => []IInv
  BY InitInvariant, NextInvariant, PTL DEF Spec

\* A search never meets the slot of its next effect bound to another request: every drive
\* of a step, before and after crashes, deferrals and larger budgets, asks for the same
\* effects in the same order (GepaEffectConflictError is not raised).
ReplayAgrees ==
    run.key = "gepa" /\ pc = "search" /\ search.at # "stop" => ~SlotConflict(effects, Request)

\* Replays agree with the store of effects (ReplayAgrees).
THEOREM ReplaysAgree == Spec => []ReplayAgrees
  <1>1. IInv => ReplayAgrees
    <2> SUFFICES ASSUME IInv, run.key = "gepa", pc = "search", search.at # "stop"
                 PROVE  ~SlotConflict(effects, Request)
      BY DEF ReplayAgrees
    <2>1. StoreInv /\ \E T : TrailInv(T)
      BY DEF IInv, GepaInv
    <2>2. PICK T : TrailInv(T)
      BY <2>1
    <2>3. /\ SearchShape(search) /\ search.ordinal <= Len(effects)
          /\ Unlimited(search) = Reached(T, search.ordinal)
      BY <2>2 DEF TrailInv, SearchInv
    <2>4. Len(effects) \in Nat /\ DOMAIN effects = 1 .. Len(effects)
      BY <2>1, Domains DEF StoreInv
    <2>5. PICK n \in Nat : n = search.ordinal /\ Request.ordinal = n
      BY <2>3, RequestOf
    <2>6. CASE n = Len(effects)
      BY <2>4, <2>5, <2>6 DEF SlotConflict
    <2>7. CASE n # Len(effects)
      <3>1. n \in 0 .. Len(effects) - 1 /\ n + 1 \in DOMAIN effects
        BY <2>3, <2>4, <2>5, <2>7
      <3>2. T[n] = Unlimited(search) /\ effects[n + 1].request = NextEffect(T[n])
        BY <2>2, <2>3, <2>5, <3>1 DEF TrailInv, Trail
      <3>3. effects[n + 1].request = Request
        BY <2>3, <3>2, SameEffect DEF Request
      <3> QED
        BY <2>5, <3>1, <3>3 DEF SlotConflict
    <2> QED
      BY <2>6, <2>7
  <1> QED
    BY <1>1, Invariance, PTL

\* The spend of a GEPA run is on its chain once (SpendCountedOnce), with any number of
\* crashes and lost evaluations.
THEOREM SpendOnce == Spec => []SpendCountedOnce
  <1>1. IInv => SpendCountedOnce
    <2> SUFFICES ASSUME IInv, run.key = "gepa"
                 PROVE  /\ \A id \in Evaluations :
                               /\ Cardinality(Reporting(id)) <= 1
                               /\ final # None => id \in RunCost.evaluations
                        /\ \A call \in paid : Cardinality(Billing(call)) <= 1
      BY DEF SpendCountedOnce
    <2>1. DisjointInv /\ SettledInv /\ PhaseInv
      BY DEF IInv, GepaInv, StoreInv
    <2>2. ASSUME NEW S, \A i, j \in S : i = j PROVE Cardinality(S) <= 1
      <3>1. CASE S = {}
        BY <3>1, FS_EmptySet
      <3>2. CASE S # {}
        <4>1. PICK i : i \in S
          BY <3>2
        <4>2. S = {i}
          BY <2>2, <4>1
        <4>3. Cardinality({i}) = 1
          BY FS_Singleton
        <4> QED
          BY <4>2, <4>3
      <3> QED
        BY <3>1, <3>2
    <2>3. ASSUME NEW id PROVE \A i, j \in Reporting(id) : i = j
      BY <2>1 DEF Reporting, DisjointInv
    <2>4. ASSUME NEW call PROVE \A i, j \in Billing(call) : i = j
      BY <2>1 DEF Billing, DisjointInv
    <2>5. ASSUME NEW id \in Evaluations, final # None PROVE id \in RunCost.evaluations
      <3>1. id \in RecordedEvidence(results)
        BY <2>1, <2>5 DEF SettledInv, PhaseInv
      <3>2. PICK i \in DOMAIN results : id \in {e.id : e \in results[i].evidence}
        BY <3>1 DEF RecordedEvidence
      <3>3. id \in EvidenceRefs(results[i])
        BY <3>2 DEF EvidenceRefs
      <3>4. RunCost.evaluations = UNION {EvidenceRefs(results[k]) : k \in DOMAIN results}
        BY DEF RunCost
      <3> QED
        BY <3>2, <3>3, <3>4
    <2>6. \A id \in Evaluations : Cardinality(Reporting(id)) <= 1
      BY <2>2, <2>3
    <2>7. \A call \in paid : Cardinality(Billing(call)) <= 1
      BY <2>2, <2>4
    <2> QED
      BY <2>5, <2>6, <2>7
  <1> QED
    BY <1>1, Invariance, PTL

-----------------------------------------------------------------------------
(* Sets of numbers, and sequences made from them.                          *)

\* Induction over the naturals, for a set.
LEMMA NatSetInduction ==
    ASSUME NEW S \in SUBSET Nat, 0 \in S, \A n \in S : n + 1 \in S
    PROVE  S = Nat
  <1> DEFINE R == OpToRel(<, Nat)
  <1> SUFFICES ASSUME Nat \ S # {} PROVE FALSE
    OBVIOUS
  <1>1. IsWellFoundedOn(R, Nat)
    BY NatLessThanWellFounded
  <1>2. \A x, y \in Nat : x < y => <<x, y>> \in R
    BY DEF OpToRel
  <1> HIDE DEF R
  <1>3. \E x \in Nat \ S : \A y \in Nat \ S : ~ (<<y, x>> \in R)
    BY <1>1, WFMin
  <1>4. PICK x \in Nat \ S : \A y \in Nat \ S : ~ (<<y, x>> \in R)
    BY <1>3
  <1>5. x # 0 /\ x - 1 \in Nat /\ x - 1 < x
    OBVIOUS
  <1>6. x - 1 \in S
    BY <1>2, <1>4, <1>5
  <1>7. x - 1 + 1 \in S
    BY <1>6
  <1> QED
    BY <1>4, <1>5, <1>7

\* A set of naturals has a least element.
LEMMA LeastExists ==
    ASSUME NEW S \in SUBSET Nat, S # {}
    PROVE  \E m \in S : \A n \in S : m <= n
  <1> DEFINE N == {n \in Nat : \A m \in S : n <= m}
  <1>1. SUFFICES ASSUME \A m \in S : \E n \in S : n < m PROVE FALSE
    OBVIOUS
  <1>2. 0 \in N
    OBVIOUS
  <1>3. \A n \in N : n + 1 \in N
    <2> SUFFICES ASSUME NEW n \in N, NEW m \in S PROVE n + 1 <= m
      OBVIOUS
    <2>1. PICK k \in S : k < m
      BY <1>1
    <2> QED
      BY <2>1
  <1>4. N = Nat
    <2> HIDE DEF N
    <2> QED
      BY <1>2, <1>3, NatSetInduction DEF N
  <1>5. PICK m \in S : TRUE
    OBVIOUS
  <1>6. m + 1 \in Nat
    BY <1>5
  <1>7. m + 1 <= m
    BY <1>4, <1>5, <1>6
  <1> QED
    BY <1>5, <1>7

\* The first of the highest in a set of places
Highest(T, score, k) ==
    k \in T /\ \A j \in T : score[k] > score[j] \/ (score[k] = score[j] /\ k <= j)

\* There is one.
LEMMA HighestExists ==
    ASSUME NEW n \in Nat, NEW T \in SUBSET (1 .. n), T # {}, NEW score, \A k \in T : score[k] \in Int
    PROVE  \E k : Highest(T, score, k)
  <1> DEFINE P(m) == T \cap (1 .. m) # {} => \E k : Highest(T \cap (1 .. m), score, k)
             N == {m \in Nat : P(m)}
  <1>1. 0 \in N
    OBVIOUS
  <1>2. \A m \in N : m + 1 \in N
    <2> SUFFICES ASSUME NEW m \in Nat, P(m) PROVE P(m + 1)
      <3> HIDE DEF P
      <3> QED
        OBVIOUS
    <2> SUFFICES ASSUME T \cap (1 .. m + 1) # {} PROVE \E k : Highest(T \cap (1 .. m + 1), score, k)
      OBVIOUS
    <2>1. CASE m + 1 \notin T
      <3>1. T \cap (1 .. m + 1) = T \cap (1 .. m)
        BY <2>1
      <3> QED
        BY <3>1
    <2>2. CASE m + 1 \in T
      <3>1. T \cap (1 .. m + 1) = (T \cap (1 .. m)) \cup {m + 1}
        BY <2>2
      <3>2. CASE T \cap (1 .. m) = {}
        <4>1. Highest(T \cap (1 .. m + 1), score, m + 1)
          BY <2>2, <3>1, <3>2 DEF Highest
        <4> QED
          BY <4>1
      <3>3. CASE T \cap (1 .. m) # {}
        <4>1. PICK k : Highest(T \cap (1 .. m), score, k)
          BY <3>3
        <4>2. k \in T /\ k \in Nat /\ k <= m /\ score[k] \in Int /\ score[m + 1] \in Int
          BY <2>2, <4>1 DEF Highest
        <4>3. CASE score[m + 1] > score[k]
          <5>1. Highest(T \cap (1 .. m + 1), score, m + 1)
            BY <2>2, <3>1, <4>1, <4>2, <4>3 DEF Highest
          <5> QED
            BY <5>1
        <4>4. CASE ~(score[m + 1] > score[k])
          <5>1. Highest(T \cap (1 .. m + 1), score, k)
            BY <3>1, <4>1, <4>2, <4>4 DEF Highest
          <5> QED
            BY <5>1
        <4> QED
          BY <4>3, <4>4
      <3> QED
        BY <3>2, <3>3
    <2> QED
      BY <2>1, <2>2
  <1>3. N = Nat
    <2> HIDE DEF N
    <2> QED
      BY <1>1, <1>2, NatSetInduction DEF N
  <1>4. n \in N /\ T \cap (1 .. n) = T
    BY <1>3
  <1> QED
    BY <1>4

\* A strict total order on S, by what comes before each element
Orders(before, S) ==
    /\ \A i \in S : before[i] \in SUBSET S /\ i \notin before[i]
    /\ \A i, j, k \in S : i \in before[j] /\ j \in before[k] => i \in before[k]
    /\ \A i, j \in S : i # j => i \in before[j] \/ j \in before[i]

\* Sorting loses nothing, repeats nothing and keeps the order.
LEMMA InOrderSorts ==
    ASSUME NEW S, IsFiniteSet(S), NEW before, Orders(before, S)
    PROVE  /\ Cardinality(S) \in Nat
           /\ InOrder(S, before) \in [1 .. Cardinality(S) -> S]
           /\ \A i \in S : \E n \in 1 .. Cardinality(S) : InOrder(S, before)[n] = i
           /\ \A m, n \in 1 .. Cardinality(S) : m < n => InOrder(S, before)[m] \in before[InOrder(S, before)[n]]
  <1>1. PICK N \in Nat : N = Cardinality(S)
    BY FS_CardinalityType
  <1>2. PICK order : order = InOrder(S, before)
    OBVIOUS
  <1>3. \A i \in S : IsFiniteSet(before[i]) /\ Cardinality(before[i]) \in Nat
    BY FS_Subset, FS_CardinalityType DEF Orders
  <1>4. \A i \in S : Cardinality(before[i]) + 1 \in 1 .. N
    <2> SUFFICES ASSUME NEW i \in S PROVE Cardinality(before[i]) + 1 \in 1 .. N
      OBVIOUS
    <2>1. IsFiniteSet(S \ {i}) /\ Cardinality(S \ {i}) = N - 1
      BY <1>1, FS_RemoveElement
    <2>2. before[i] \in SUBSET (S \ {i})
      BY DEF Orders
    <2>3. Cardinality(before[i]) <= N - 1
      BY <2>1, <2>2, FS_Subset
    <2> QED
      BY <1>3, <2>3
  <1>5. \A i, j \in S : i \in before[j] => Cardinality(before[i]) < Cardinality(before[j])
    <2> SUFFICES ASSUME NEW i \in S, NEW j \in S, i \in before[j]
                 PROVE  Cardinality(before[i]) < Cardinality(before[j])
      OBVIOUS
    <2>1. before[i] \in SUBSET before[j] /\ before[i] # before[j]
      BY DEF Orders
    <2> QED
      BY <1>3, <2>1, FS_Subset
  <1>6. PICK rank : rank = [i \in S |-> Cardinality(before[i]) + 1]
    OBVIOUS
  <1>7. rank \in Injection(S, 1 .. N)
    <2>1. rank \in [S -> 1 .. N]
      BY <1>4, <1>6
    <2>2. ASSUME NEW i \in S, NEW j \in S, rank[i] = rank[j] PROVE i = j
      BY <1>3, <1>5, <1>6, <2>2 DEF Orders
    <2> QED
      BY <2>1, <2>2 DEF Injection, IsInjective
  <1>8. rank \in Surjection(S, 1 .. N)
    <2>1. IsFiniteSet(1 .. N) /\ Cardinality(1 .. N) = N
      BY FS_Interval
    <2> QED
      BY <1>1, <1>7, <2>1, FS_Injection
  <1>9. \A n \in 1 .. N : \E i \in S : Cardinality(before[i]) = n - 1
    <2> SUFFICES ASSUME NEW n \in 1 .. N PROVE \E i \in S : Cardinality(before[i]) = n - 1
      OBVIOUS
    <2>1. PICK i \in S : rank[i] = n
      BY <1>8 DEF Surjection
    <2>2. Cardinality(before[i]) = n - 1
      BY <1>3, <1>6, <2>1
    <2> QED
      BY <2>2
  <1>10. order = [n \in 1 .. N |-> CHOOSE i \in S : Cardinality(before[i]) = n - 1]
    BY <1>1, <1>2 DEF InOrder
  <1>11. \A n \in 1 .. N : order[n] \in S /\ Cardinality(before[order[n]]) = n - 1
    BY <1>9, <1>10
  <1>12. order \in [1 .. N -> S]
    BY <1>10, <1>11
  <1>13. \A i \in S : \E n \in 1 .. N : order[n] = i
    <2> SUFFICES ASSUME NEW i \in S PROVE order[rank[i]] = i /\ rank[i] \in 1 .. N
      OBVIOUS
    <2>1. rank[i] \in 1 .. N /\ rank[i] = Cardinality(before[i]) + 1
      BY <1>4, <1>6
    <2>2. order[rank[i]] \in S /\ Cardinality(before[order[rank[i]]]) = Cardinality(before[i])
      BY <1>3, <1>11, <2>1
    <2> QED
      BY <1>3, <1>5, <2>1, <2>2 DEF Orders
  <1>14. \A m, n \in 1 .. N : m < n => order[m] \in before[order[n]]
    <2> SUFFICES ASSUME NEW m \in 1 .. N, NEW n \in 1 .. N, m < n PROVE order[m] \in before[order[n]]
      OBVIOUS
    <2>1. /\ order[m] \in S /\ order[n] \in S
          /\ Cardinality(before[order[m]]) = m - 1 /\ Cardinality(before[order[n]]) = n - 1
      BY <1>11
    <2> QED
      BY <1>5, <2>1 DEF Orders
  <1> QED
    BY <1>1, <1>2, <1>12, <1>13, <1>14

\* The n elements that are picked from a sequence, and where they are
Picks(s, places, n, at) ==
    /\ n \in Nat /\ at \in [1 .. n -> places]
    /\ \A i \in places : \E k \in 1 .. n : at[k] = i
    /\ \A j, k \in 1 .. n : j < k => at[j] < at[k]
    /\ Picked(s, places) = [k \in 1 .. n |-> s[at[k]]]

\* What is picked from a sequence are its elements at the places, in their order.
LEMMA PickedInOrder ==
    ASSUME NEW s, NEW places \in SUBSET Nat, IsFiniteSet(places)
    PROVE  \E n, at : Picks(s, places, n, at)
  <1>1. PICK before : before = [i \in places |-> {j \in places : j < i}]
    OBVIOUS
  <1>2. Orders(before, places)
    BY <1>1 DEF Orders
  <1>3. PICK at : at = InOrder(places, before)
    OBVIOUS
  <1>4. /\ Cardinality(places) \in Nat
        /\ at \in [1 .. Cardinality(places) -> places]
        /\ \A i \in places : \E n \in 1 .. Cardinality(places) : at[n] = i
        /\ \A m, n \in 1 .. Cardinality(places) : m < n => at[m] \in before[at[n]]
    BY <1>2, <1>3, InOrderSorts
  <1>5. \A m, n \in 1 .. Cardinality(places) : m < n => at[m] < at[n]
    BY <1>1, <1>4
  <1>6. Picked(s, places) = [n \in 1 .. Cardinality(places) |-> s[at[n]]]
    BY <1>1, <1>3, <1>4 DEF Picked
  <1>7. Picks(s, places, Cardinality(places), at)
    BY <1>4, <1>5, <1>6 DEF Picks
  <1> QED
    BY <1>7

-----------------------------------------------------------------------------
(* What COPRO chooses from its history.                                    *)

\* What was measured of a text
Measurement(text, score) == [text |-> text, score |-> score]

\* x is a measurement of a text that is not below y.
Covers(text, M, y) == \E x \in M : x.text = text /\ x.score >= y.score

\* The choice of a run among what was measured: the seed, which nothing beats, or distinct
\* proposals, none of them below one that was left out and the first not below anything.
Bests(M, seed, accepted) ==
    IF seed THEN \A y \in M : Covers(Seed, M, y)
    ELSE /\ \E S : accepted \in Seq(S)
         /\ \A m, n \in DOMAIN accepted : m # n => accepted[m].text # accepted[n].text
         /\ \A n \in DOMAIN accepted, y \in M :
                y.text # Seed /\ (\A m \in DOMAIN accepted : accepted[m].text # y.text)
                    => Covers(accepted[n].text, M, y)
         /\ 1 \in DOMAIN accepted => \A y \in M : Covers(accepted[1].text, M, y)

HistoryMeasurements(history) ==
    {Measurement(history[i].cand.text, history[i].reward) : i \in DOMAIN history}

\* An attempt has a number as its reward, and the text of the seed is the seed's only.
AttemptsValid(history) ==
    /\ \E X : history \in Seq(X)
    /\ \A i \in DOMAIN history :
           /\ history[i].reward \in Int
           /\ history[i].cand = SeedCandidate \/ history[i].cand.text # Seed

\* Every instruction has one best attempt.
LEMMA UniqueAttempts ==
    ASSUME NEW history, AttemptsValid(history)
    PROVE  /\ UniqueMeasured(history) \in SUBSET (1 .. Len(history)) /\ IsFiniteSet(UniqueMeasured(history))
           /\ Len(history) \in Nat /\ DOMAIN history = 1 .. Len(history)
           /\ \A i \in DOMAIN history : \E k \in UniqueMeasured(history) :
                  /\ history[k].cand.text = history[i].cand.text
                  /\ history[k].reward >= history[i].reward
           /\ \A i, k \in UniqueMeasured(history) : history[i].cand.text = history[k].cand.text => i = k
  <1>1. Len(history) \in Nat /\ DOMAIN history = 1 .. Len(history)
    BY DEF AttemptsValid
  <1>2. \A i \in DOMAIN history : history[i].reward \in Int
    BY DEF AttemptsValid
  <1>3. UniqueMeasured(history) \in SUBSET (1 .. Len(history))
    BY <1>1 DEF UniqueMeasured
  <1>4. IsFiniteSet(UniqueMeasured(history))
    <2>1. IsFiniteSet(1 .. Len(history))
      BY <1>1, FS_Interval
    <2> QED
      BY <1>3, <2>1, FS_Subset
  <1>5. ASSUME NEW i \in DOMAIN history
        PROVE  \E k \in UniqueMeasured(history) : /\ history[k].cand.text = history[i].cand.text
                                                  /\ history[k].reward >= history[i].reward
    <2>1. PICK T : T = SameText(history, i)
      OBVIOUS
    <2>2. T \in SUBSET (1 .. Len(history)) /\ i \in T
      BY <1>1, <2>1 DEF SameText
    <2>3. PICK score : score = [j \in DOMAIN history |-> history[j].reward]
      OBVIOUS
    <2>4. \A j \in T : score[j] \in Int
      BY <1>1, <1>2, <2>2, <2>3
    <2>5. PICK k : Highest(T, score, k)
      BY <1>1, <2>2, <2>4, HighestExists
    <2>6. k \in DOMAIN history /\ history[k].cand.text = history[i].cand.text
      BY <2>1, <2>5 DEF Highest, SameText
    <2>7. SameText(history, k) = T
      BY <2>1, <2>6 DEF SameText
    <2>8. \A j \in T : history[k].reward > history[j].reward \/ (history[k].reward = history[j].reward /\ k <= j)
      BY <1>1, <2>2, <2>3, <2>5, <2>6 DEF Highest
    <2>9. k \in UniqueMeasured(history)
      BY <2>6, <2>7, <2>8 DEF UniqueMeasured
    <2>10. history[k].reward >= history[i].reward
      BY <1>2, <2>2, <2>6, <2>8
    <2> QED
      BY <2>6, <2>9, <2>10
  <1>6. ASSUME NEW i \in UniqueMeasured(history), NEW k \in UniqueMeasured(history),
               history[i].cand.text = history[k].cand.text
        PROVE  i = k
    <2>1. i \in Nat /\ k \in Nat /\ i \in DOMAIN history /\ k \in DOMAIN history
      BY <1>1, <1>3
    <2>2. k \in SameText(history, i) /\ i \in SameText(history, k)
      BY <1>6, <2>1 DEF SameText
    <2>3. /\ history[i].reward > history[k].reward \/ (history[i].reward = history[k].reward /\ i <= k)
          /\ history[k].reward > history[i].reward \/ (history[k].reward = history[i].reward /\ k <= i)
      BY <2>2 DEF UniqueMeasured
    <2> QED
      BY <1>2, <2>1, <2>3
  <1> QED
    BY <1>1, <1>3, <1>4, <1>5, <1>6

\* The ranking r of a history: its best attempts, one of each text, in descending order
Ranks(r, history) ==
    /\ Len(r) \in Nat /\ DOMAIN r = 1 .. Len(r) /\ r \in Seq({history[i] : i \in DOMAIN history})
    /\ \A n \in DOMAIN r : \E i \in DOMAIN history : r[n] = history[i]
    /\ \A i \in DOMAIN history : \E n \in DOMAIN r :
           r[n].cand.text = history[i].cand.text /\ r[n].reward >= history[i].reward
    /\ \A m, n \in DOMAIN r : m < n => r[m].reward >= r[n].reward /\ r[m].cand.text # r[n].cand.text

LEMMA RankingRanks ==
    ASSUME NEW history, AttemptsValid(history)
    PROVE  Ranks(RankAttemptHistory(history), history)
  <1>1. PICK unique : unique = UniqueMeasured(history)
    OBVIOUS
  <1>2. /\ unique \in SUBSET (1 .. Len(history)) /\ IsFiniteSet(unique)
        /\ Len(history) \in Nat /\ DOMAIN history = 1 .. Len(history)
        /\ \A i \in DOMAIN history : \E k \in unique :
               /\ history[k].cand.text = history[i].cand.text
               /\ history[k].reward >= history[i].reward
        /\ \A i, k \in unique : history[i].cand.text = history[k].cand.text => i = k
    BY <1>1, UniqueAttempts
  <1>3. \A i \in unique : i \in DOMAIN history /\ history[i].reward \in Int
    BY <1>2 DEF AttemptsValid
  <1> DEFINE Above(i, k) == \/ history[i].reward > history[k].reward
                            \/ history[i].reward = history[k].reward /\ MeasuredBefore(history, i, k)
  <1>4. PICK first : first = [i \in unique |-> CHOOSE m \in SameText(history, i) : \A n \in SameText(history, i) : m <= n]
    OBVIOUS
  <1>5. ASSUME NEW i \in unique
        PROVE  /\ first[i] \in SameText(history, i) /\ first[i] \in Nat
               /\ \A n \in SameText(history, i) : n \in Nat /\ first[i] <= n
    <2>1. SameText(history, i) \in SUBSET Nat /\ i \in SameText(history, i)
      BY <1>2, <1>3 DEF SameText
    <2>2. \E m \in SameText(history, i) : \A n \in SameText(history, i) : m <= n
      BY <2>1, LeastExists
    <2> QED
      BY <1>4, <2>1, <2>2
  <1>6. ASSUME NEW i \in unique, NEW k \in unique
        PROVE  MeasuredBefore(history, i, k) <=> first[i] < first[k]
    <2>1. ASSUME MeasuredBefore(history, i, k) PROVE first[i] < first[k]
      <3>1. PICK j \in SameText(history, i) : \A l \in SameText(history, k) : j < l
        BY <2>1 DEF MeasuredBefore
      <3> QED
        BY <1>5, <3>1
    <2>2. ASSUME first[i] < first[k] PROVE MeasuredBefore(history, i, k)
      <3>1. \A l \in SameText(history, k) : first[i] < l
        BY <1>5, <2>2
      <3> QED
        BY <1>5, <3>1 DEF MeasuredBefore
    <2> QED
      BY <2>1, <2>2
  <1>7. ASSUME NEW i \in unique, NEW k \in unique, first[i] = first[k] PROVE i = k
    <2>1. first[i] \in SameText(history, i) /\ first[i] \in SameText(history, k)
      BY <1>5, <1>7
    <2> QED
      BY <1>2, <2>1 DEF SameText
  <1>8. \A i, k \in unique : Above(i, k) <=>
            \/ history[i].reward > history[k].reward
            \/ history[i].reward = history[k].reward /\ first[i] < first[k]
    BY <1>6
  <1>9. PICK before : before = [k \in unique |-> {i \in unique : Above(i, k)}]
    OBVIOUS
  <1>10. \A i, k \in unique : i \in before[k] <=>
            \/ history[i].reward > history[k].reward
            \/ history[i].reward = history[k].reward /\ first[i] < first[k]
    <2> HIDE DEF Above
    <2> QED
      BY <1>8, <1>9
  <1>11. Orders(before, unique)
    <2>1. \A i \in unique : before[i] \in SUBSET unique
      BY <1>9
    <2>2. \A i \in unique : first[i] \in Nat /\ history[i].reward \in Int
      BY <1>3, <1>5
    <2>3. \A i \in unique : i \notin before[i]
      BY <1>10, <2>2
    <2>4. ASSUME NEW i \in unique, NEW j \in unique, NEW k \in unique, i \in before[j], j \in before[k]
          PROVE  i \in before[k]
      BY <1>10, <2>2, <2>4
    <2>5. ASSUME NEW i \in unique, NEW j \in unique, i # j
          PROVE  i \in before[j] \/ j \in before[i]
      BY <1>7, <1>10, <2>2, <2>5
    <2> QED
      BY <2>1, <2>3, <2>4, <2>5 DEF Orders
  <1>12. PICK order : order = InOrder(unique, before)
    OBVIOUS
  <1>13. PICK N \in Nat :
            /\ N = Cardinality(unique)
            /\ order \in [1 .. N -> unique]
            /\ \A i \in unique : \E n \in 1 .. N : order[n] = i
            /\ \A m, n \in 1 .. N : m < n => order[m] \in before[order[n]]
    <2>1. /\ Cardinality(unique) \in Nat
          /\ order \in [1 .. Cardinality(unique) -> unique]
          /\ \A i \in unique : \E n \in 1 .. Cardinality(unique) : order[n] = i
          /\ \A m, n \in 1 .. Cardinality(unique) : m < n => order[m] \in before[order[n]]
      BY <1>2, <1>11, <1>12, InOrderSorts
    <2> QED
      BY <2>1
  <1>14. PICK r : r = RankAttemptHistory(history)
    OBVIOUS
  <1>15. r = [n \in 1 .. N |-> history[order[n]]]
    <2>1. r = [n \in DOMAIN order |-> history[order[n]]]
      BY <1>1, <1>9, <1>12, <1>14 DEF RankAttemptHistory
    <2> QED
      BY <1>13, <2>1
  <1> HIDE DEF Above
  <1>16. \A n \in 1 .. N : order[n] \in unique /\ order[n] \in DOMAIN history
    BY <1>3, <1>13
  <1>17. Len(r) = N /\ DOMAIN r = 1 .. N /\ r \in Seq({history[i] : i \in DOMAIN history})
    BY <1>15, <1>16
  <1>18. \A n \in DOMAIN r : \E i \in DOMAIN history : r[n] = history[i]
    BY <1>15, <1>16, <1>17
  <1>19. ASSUME NEW i \in DOMAIN history
         PROVE  \E n \in DOMAIN r : r[n].cand.text = history[i].cand.text /\ r[n].reward >= history[i].reward
    <2>1. PICK k \in unique : history[k].cand.text = history[i].cand.text /\ history[k].reward >= history[i].reward
      BY <1>2
    <2>2. PICK n \in 1 .. N : order[n] = k
      BY <1>13
    <2> QED
      BY <1>15, <1>17, <2>1, <2>2
  <1>20. ASSUME NEW m \in DOMAIN r, NEW n \in DOMAIN r, m < n
         PROVE  r[m].reward >= r[n].reward /\ r[m].cand.text # r[n].cand.text
    <2>1. order[m] \in unique /\ order[n] \in unique /\ order[m] \in before[order[n]]
      BY <1>13, <1>17, <1>20
    <2>2. order[m] # order[n]
      BY <1>11, <2>1 DEF Orders
    <2>3. history[order[m]].cand.text # history[order[n]].cand.text
      BY <1>2, <2>1, <2>2
    <2>4. history[order[m]].reward >= history[order[n]].reward
      BY <1>3, <1>10, <2>1
    <2> QED
      BY <1>15, <1>17, <2>3, <2>4
  <1> QED
    BY <1>14, <1>17, <1>18, <1>19, <1>20 DEF Ranks

\* What the end of a run accepts, or that it retains the seed, is its best.
LEMMA TerminalizeBest ==
    ASSUME NEW history, AttemptsValid(history), NEW required \in Nat, NEW short, NEW o,
           o = Terminalize(RankAttemptHistory(history), required, short)
    PROVE  /\ \E failure, accepted, seed, retained :
                  o = AdapterOutput(o.status, failure, accepted, accepted, <<>>, 0, seed, retained, None)
           /\ o.status \in {"complete", "failed"}
           /\ o.status = "complete" => Bests(HistoryMeasurements(history), o.seedRetained, o.accepted)
  <1>1. PICK r : r = RankAttemptHistory(history)
    OBVIOUS
  <1>2. Ranks(r, history)
    BY <1>1, RankingRanks
  <1>3. /\ Len(r) \in Nat /\ DOMAIN r = 1 .. Len(r)
        /\ \A n \in DOMAIN r : \E i \in DOMAIN history : r[n] = history[i]
        /\ \A i \in DOMAIN history : \E n \in DOMAIN r :
               r[n].cand.text = history[i].cand.text /\ r[n].reward >= history[i].reward
        /\ \A m, n \in DOMAIN r : m < n => r[m].reward >= r[n].reward /\ r[m].cand.text # r[n].cand.text
    BY <1>2 DEF Ranks
  <1>4. /\ \A i \in DOMAIN history : history[i].reward \in Int
        /\ \A n \in DOMAIN r : r[n].reward \in Int /\ (r[n].cand = SeedCandidate \/ r[n].cand.text # Seed)
    BY <1>3 DEF AttemptsValid
  <1>5. PICK M : M = HistoryMeasurements(history)
    OBVIOUS
  <1>6. \A n \in DOMAIN r : Measurement(r[n].cand.text, r[n].reward) \in M
    BY <1>3, <1>5 DEF HistoryMeasurements
  <1>7. ASSUME NEW y \in M
        PROVE  \E n \in DOMAIN r : r[n].cand.text = y.text /\ r[n].reward >= y.score /\ y.score \in Int
    <2>1. PICK i \in DOMAIN history : y = Measurement(history[i].cand.text, history[i].reward)
      BY <1>5, <1>7 DEF HistoryMeasurements
    <2>2. y.text = history[i].cand.text /\ y.score = history[i].reward
      BY <2>1 DEF Measurement
    <2> QED
      BY <1>3, <1>4, <2>2
  <1>8. ASSUME NEW n \in DOMAIN r, NEW y \in M, NEW k \in DOMAIN r, n <= k, r[k].reward >= y.score, y.score \in Int
        PROVE  Covers(r[n].cand.text, M, y)
    <2>1. r[n].reward \in Int /\ r[k].reward \in Int /\ r[n].reward >= r[k].reward
      BY <1>3, <1>4, <1>8
    <2>2. r[n].reward >= y.score
      BY <1>8, <2>1
    <2>3. PICK x : x = Measurement(r[n].cand.text, r[n].reward)
      OBVIOUS
    <2>4. x \in M /\ x.text = r[n].cand.text /\ x.score = r[n].reward
      BY <1>6, <1>8, <2>3 DEF Measurement
    <2> QED
      BY <2>2, <2>4 DEF Covers
  <1>9. CASE Len(r) < required
    <2>1. PICK no : no = FALSE
      OBVIOUS
    <2>2. o = AdapterOutput("failed", short, <<>>, <<>>, <<>>, 0, no, None, None)
      BY <1>1, <1>9, <2>1 DEF Terminalize, Failed, AdapterOutput
    <2>3. o.status = "failed"
      BY <2>2 DEF AdapterOutput
    <2> QED
      BY <2>2, <2>3
  <1>10. CASE ~(Len(r) < required) /\ SeedWon(r)
    <2>1. o = [Output("complete") EXCEPT !.seedRetained = TRUE, !.retained = SeedCandidate]
      BY <1>1, <1>10 DEF Terminalize
    <2>2. /\ o.status = "complete" /\ o.seedRetained = TRUE
          /\ \E accepted, seed, retained : o = AdapterOutput("complete", None, accepted, accepted, <<>>, 0, seed, retained, None)
      <3>1. PICK d : d = Output("complete")
        OBVIOUS
      <3>2. PICK no : d = AdapterOutput("complete", None, <<>>, <<>>, <<>>, 0, no, None, None)
        BY <3>1, Defaults
      <3>3. PICK yes, retained : yes = TRUE /\ retained = SeedCandidate
        OBVIOUS
      <3>4. o = [d EXCEPT !.seedRetained = yes, !.retained = retained]
        BY <2>1, <3>1, <3>3
      <3>5. o = AdapterOutput("complete", None, <<>>, <<>>, <<>>, 0, yes, retained, None)
        BY <3>2, <3>4 DEF AdapterOutput
      <3>6. o.status = "complete" /\ o.seedRetained = yes
        BY <3>5 DEF AdapterOutput
      <3> QED
        BY <3>3, <3>5, <3>6
    <2>3. r # <<>> /\ r[1].cand = SeedCandidate
      BY <1>10 DEF SeedWon
    <2>4. 1 \in DOMAIN r
      <3>1. r \in Seq({history[i] : i \in DOMAIN history})
        BY <1>2 DEF Ranks
      <3> QED
        BY <2>3, <3>1
    <2>5. r[1].cand.text = Seed
      BY <2>3 DEF SeedCandidate
    <2>6. \A y \in M : Covers(Seed, M, y)
      BY <1>3, <1>7, <1>8, <2>4, <2>5
    <2> QED
      BY <1>5, <2>2, <2>6 DEF Bests
  <1>11. CASE ~(Len(r) < required) /\ ~SeedWon(r)
    <2>1. PICK places : places = {i \in DOMAIN r : r[i].cand # SeedCandidate}
      OBVIOUS
    <2>2. places \in SUBSET Nat /\ places \in SUBSET (1 .. Len(r))
      BY <1>3, <2>1
    <2>3. IsFiniteSet(places)
      <3>1. IsFiniteSet(1 .. Len(r))
        BY <1>3, FS_Interval
      <3> QED
        BY <2>2, <3>1, FS_Subset
    <2>4. PICK N, at : Picks(r, places, N, at)
      BY <2>2, <2>3, PickedInOrder
    <2>5. /\ N \in Nat /\ at \in [1 .. N -> places]
          /\ \A i \in places : \E n \in 1 .. N : at[n] = i
          /\ \A m, n \in 1 .. N : m < n => at[m] < at[n]
          /\ Picked(r, places) = [n \in 1 .. N |-> r[at[n]]]
      BY <2>4 DEF Picks
    <2>6. PICK p : p = Picked(r, places)
      OBVIOUS
    <2>7. p = [n \in 1 .. N |-> r[at[n]]] /\ Len(p) = N
      BY <2>5, <2>6
    <2>8. PICK acc : acc = AcceptedWithoutSeed(r, required)
      OBVIOUS
    <2>9. acc = IF N < required THEN None ELSE [i \in 1 .. required |-> p[i].cand]
      BY <2>1, <2>6, <2>7, <2>8 DEF AcceptedWithoutSeed
    <2>10. CASE acc = None
      <3>1. PICK no : no = FALSE
        OBVIOUS
      <3>2. o = Failed(short)
        BY <1>1, <1>11, <2>8, <2>10 DEF Terminalize
      <3>3. o = AdapterOutput("failed", short, <<>>, <<>>, <<>>, 0, no, None, None)
        BY <3>1, <3>2 DEF Failed, AdapterOutput
      <3>4. o.status = "failed"
        BY <3>3 DEF AdapterOutput
      <3> QED
        BY <3>3, <3>4
    <2>11. CASE acc # None
      <3>1. o = [Output("complete") EXCEPT !.proposed = acc, !.accepted = acc]
        BY <1>1, <1>11, <2>8, <2>11 DEF Terminalize
      <3>2. /\ o.status = "complete" /\ o.seedRetained = FALSE /\ o.accepted = acc
            /\ \E accepted, seed, retained : o = AdapterOutput("complete", None, accepted, accepted, <<>>, 0, seed, retained, None)
        <4>1. PICK d, no : d = Output("complete") /\ no = FALSE
          OBVIOUS
        <4>2. d = AdapterOutput("complete", None, <<>>, <<>>, <<>>, 0, no, None, None)
          BY <4>1 DEF Output, Failed, AdapterOutput
        <4>3. o = [d EXCEPT !.proposed = acc, !.accepted = acc]
          BY <3>1, <4>1
        <4>4. o = AdapterOutput("complete", None, acc, acc, <<>>, 0, no, None, None)
          BY <4>2, <4>3 DEF AdapterOutput
        <4>5. o.status = "complete" /\ o.seedRetained = no /\ o.accepted = acc
          BY <4>4 DEF AdapterOutput
        <4> QED
          BY <4>1, <4>4, <4>5
      <3>3. N >= required /\ acc = [i \in 1 .. required |-> p[i].cand]
        BY <2>5, <2>9, <2>11
      <3>4. \A n \in 1 .. required : n \in 1 .. N /\ at[n] \in DOMAIN r /\ at[n] \in Nat /\ acc[n] = r[at[n]].cand
        <4> SUFFICES ASSUME NEW n \in 1 .. required
                     PROVE  n \in 1 .. N /\ at[n] \in DOMAIN r /\ at[n] \in Nat /\ acc[n] = r[at[n]].cand
          OBVIOUS
        <4>1. n \in 1 .. N
          BY <2>5, <3>3
        <4>2. at[n] \in places
          BY <2>5, <4>1
        <4>3. acc[n] = p[n].cand /\ p[n] = r[at[n]]
          BY <2>7, <3>3, <4>1
        <4> QED
          BY <1>3, <2>2, <4>1, <4>2, <4>3
      <3>5. \A m, n \in 1 .. required : m # n => acc[m].text # acc[n].text
        <4> SUFFICES ASSUME NEW m \in 1 .. required, NEW n \in 1 .. required, m < n
                     PROVE  acc[m].text # acc[n].text
          OBVIOUS
        <4>1. at[m] < at[n]
          BY <2>5, <3>4
        <4>2. /\ at[m] \in DOMAIN r /\ at[n] \in DOMAIN r
              /\ acc[m] = r[at[m]].cand /\ acc[n] = r[at[n]].cand
          BY <3>4
        <4> QED
          BY <1>3, <4>1, <4>2
      <3>6. ASSUME NEW n \in 1 .. required, NEW y \in M, y.text # Seed,
                   \A m \in 1 .. required : acc[m].text # y.text
            PROVE  Covers(acc[n].text, M, y)
        <4>1. PICK k \in DOMAIN r : r[k].cand.text = y.text /\ r[k].reward >= y.score /\ y.score \in Int
          BY <1>7, <3>6
        <4>2. k \in places
          BY <2>1, <3>6, <4>1 DEF SeedCandidate
        <4>3. PICK m \in 1 .. N : at[m] = k
          BY <2>5, <4>2
        <4>4. n < m
          BY <3>4, <3>6, <4>1, <4>3
        <4>5. at[n] < k
          BY <2>5, <3>4, <4>3, <4>4
        <4>6. k \in Nat
          BY <1>3
        <4> QED
          BY <1>8, <3>4, <3>6, <4>1, <4>5, <4>6
      <3>7. ASSUME 1 \in 1 .. required, NEW y \in M PROVE Covers(acc[1].text, M, y)
        <4>1. 1 \in DOMAIN r /\ r # <<>>
          BY <1>3, <1>11, <3>7
        <4>2. r[1].cand # SeedCandidate
          BY <1>11, <4>1 DEF SeedWon
        <4>3. 1 \in places
          BY <2>1, <4>1, <4>2
        <4>4. PICK m \in 1 .. N : at[m] = 1
          BY <2>5, <4>3
        <4>5. 1 \in 1 .. N /\ at[1] \in Nat /\ at[1] >= 1
          BY <2>2, <3>4, <3>7, <1>3
        <4>6. at[1] = 1
          BY <2>5, <4>4, <4>5
        <4>7. PICK k \in DOMAIN r : r[k].reward >= y.score /\ y.score \in Int
          BY <1>7
        <4>8. Covers(r[1].cand.text, M, y)
          BY <1>3, <1>8, <4>1, <4>7
        <4> QED
          BY <3>4, <3>7, <4>6, <4>8
      <3>8. DOMAIN acc = 1 .. required /\ \E S : acc \in Seq(S)
        <4>1. PICK S : S = {acc[n] : n \in 1 .. required}
          OBVIOUS
        <4>2. acc \in [1 .. required -> S]
          BY <3>3, <4>1
        <4> QED
          BY <3>3, <4>2
      <3>9. Bests(M, FALSE, acc)
        BY <3>5, <3>6, <3>7, <3>8 DEF Bests
      <3> QED
        BY <1>5, <3>2, <3>9
    <2> QED
      BY <2>10, <2>11
  <1> QED
    BY <1>9, <1>10, <1>11

-----------------------------------------------------------------------------
(* The history of a chain of Step Results.                                 *)

\* g[i] are the first i sequences, one after another.
Flattens(g, seqs, n) == g = [i \in 1 .. n |-> IF i = 1 THEN seqs[i] ELSE g[i - 1] \o seqs[i]]

LEMMA FlattensExist ==
    ASSUME NEW n \in Nat, NEW seqs
    PROVE  \E g : Flattens(g, seqs, n)
  <1> DEFINE N == {m \in Nat : \E g : Flattens(g, seqs, m)}
  <1>1. 0 \in N
    <2>1. PICK g : g = [i \in 1 .. 0 |-> seqs[i]]
      OBVIOUS
    <2>2. Flattens(g, seqs, 0)
      BY <2>1 DEF Flattens
    <2> QED
      BY <2>2
  <1>2. ASSUME NEW m \in N PROVE m + 1 \in N
    <2>1. PICK g : Flattens(g, seqs, m)
      OBVIOUS
    <2>2. \A i \in 1 .. m : g[i] = IF i = 1 THEN seqs[i] ELSE g[i - 1] \o seqs[i]
      BY <2>1 DEF Flattens
    <2>3. PICK h : h = [i \in 1 .. m + 1 |-> IF i <= m THEN g[i]
                                              ELSE IF i = 1 THEN seqs[i] ELSE g[i - 1] \o seqs[i]]
      OBVIOUS
    <2>4. ASSUME NEW i \in 1 .. m + 1
          PROVE  h[i] = IF i = 1 THEN seqs[i] ELSE h[i - 1] \o seqs[i]
      <3>1. i # 1 => i - 1 \in 1 .. m /\ i - 1 \in 1 .. m + 1 /\ h[i - 1] = g[i - 1]
        BY <2>3
      <3>2. i <= m => i \in 1 .. m
        OBVIOUS
      <3> QED
        BY <2>2, <2>3, <3>1, <3>2
    <2>5. Flattens(h, seqs, m + 1)
      BY <2>3, <2>4 DEF Flattens
    <2> QED
      BY <2>5
  <1>3. N = Nat
    <2> HIDE DEF N
    <2> QED
      BY <1>1, <1>2, NatSetInduction DEF N
  <1> QED
    BY <1>3

\* s holds what the first n sequences hold, and nothing else.
Holds(s, seqs, n, X) ==
    /\ s \in Seq(X)
    /\ \A k \in DOMAIN s : \E i \in 1 .. n : \E j \in DOMAIN seqs[i] : s[k] = seqs[i][j]
    /\ \A i \in 1 .. n : \A j \in DOMAIN seqs[i] : \E k \in DOMAIN s : s[k] = seqs[i][j]

LEMMA HoldsMore ==
    ASSUME NEW X, NEW n \in Nat, NEW seqs, NEW s, Holds(s, seqs, n, X), seqs[n + 1] \in Seq(X)
    PROVE  Holds(s \o seqs[n + 1], seqs, n + 1, X)
  <1>1. PICK t : t = seqs[n + 1]
    OBVIOUS
  <1>2. PICK u : u = s \o t
    OBVIOUS
  <1>3. s \in Seq(X) /\ t \in Seq(X)
    BY <1>1 DEF Holds
  <1>4. /\ u \in Seq(X) /\ Len(u) = Len(s) + Len(t)
        /\ \A k \in 1 .. Len(s) : u[k] = s[k]
        /\ \A k \in 1 .. Len(t) : u[Len(s) + k] = t[k]
    BY <1>2, <1>3
  <1>5. Len(s) \in Nat /\ Len(t) \in Nat /\ DOMAIN s = 1 .. Len(s) /\ DOMAIN t = 1 .. Len(t)
        /\ DOMAIN u = 1 .. Len(s) + Len(t)
    BY <1>3, <1>4
  <1>6. ASSUME NEW k \in DOMAIN u
        PROVE  \E i \in 1 .. n + 1 : \E j \in DOMAIN seqs[i] : u[k] = seqs[i][j]
    <2>1. CASE k <= Len(s)
      <3>1. k \in DOMAIN s /\ u[k] = s[k]
        BY <1>4, <1>5, <2>1
      <3>2. PICK i \in 1 .. n : \E j \in DOMAIN seqs[i] : s[k] = seqs[i][j]
        BY <3>1 DEF Holds
      <3>3. i \in 1 .. n + 1
        OBVIOUS
      <3> QED
        BY <3>1, <3>2, <3>3
    <2>2. CASE ~(k <= Len(s))
      <3>1. k - Len(s) \in 1 .. Len(t) /\ k = Len(s) + (k - Len(s))
        BY <1>5, <2>2
      <3>2. u[k] = t[k - Len(s)] /\ k - Len(s) \in DOMAIN t
        BY <1>4, <1>5, <3>1
      <3>3. n + 1 \in 1 .. n + 1
        OBVIOUS
      <3> QED
        BY <1>1, <3>2, <3>3
    <2> QED
      BY <2>1, <2>2
  <1>7. ASSUME NEW i \in 1 .. n + 1, NEW j \in DOMAIN seqs[i]
        PROVE  \E k \in DOMAIN u : u[k] = seqs[i][j]
    <2>1. CASE i \in 1 .. n
      <3>1. PICK k \in DOMAIN s : s[k] = seqs[i][j]
        BY <1>7, <2>1 DEF Holds
      <3>2. k \in DOMAIN u /\ u[k] = s[k]
        BY <1>4, <1>5, <3>1
      <3> QED
        BY <3>1, <3>2
    <2>2. CASE i = n + 1
      <3>1. j \in 1 .. Len(t) /\ seqs[i][j] = t[j]
        BY <1>1, <1>5, <1>7, <2>2
      <3>2. Len(s) + j \in DOMAIN u /\ u[Len(s) + j] = t[j]
        BY <1>4, <1>5, <3>1
      <3> QED
        BY <3>1, <3>2
    <2> QED
      BY <2>1, <2>2
  <1> QED
    BY <1>1, <1>2, <1>4, <1>6, <1>7 DEF Holds

\* Sequences one after another hold what each of them holds.
LEMMA FlattenHolds ==
    ASSUME NEW X, NEW seqs \in Seq(Seq(X))
    PROVE  Holds(FlattenSeq(seqs), seqs, Len(seqs), X)
  <1>1. PICK n \in Nat : n = Len(seqs)
    OBVIOUS
  <1>2. \A i \in 1 .. n : seqs[i] \in Seq(X)
    BY <1>1
  <1>3. CASE n = 0
    <2>1. seqs = <<>>
      BY <1>1, <1>3, EmptySeq
    <2>2. FlattenSeq(seqs) = <<>>
      BY <1>1, <1>3, <2>1 DEF FlattenSeq
    <2> QED
      BY <1>1, <1>3, <2>2 DEF Holds
  <1>4. CASE n > 0
    <2>1. \E g : Flattens(g, seqs, n)
      BY FlattensExist
    <2>2. PICK g : g = CHOOSE f : Flattens(f, seqs, n)
      OBVIOUS
    <2>3. \A i \in 1 .. n : g[i] = IF i = 1 THEN seqs[i] ELSE g[i - 1] \o seqs[i]
      <3>1. Flattens(g, seqs, n)
        BY <2>1, <2>2
      <3> QED
        BY <3>1 DEF Flattens
    <2>4. FlattenSeq(seqs) = g[n]
      BY <1>1, <1>4, <2>2 DEF FlattenSeq, Flattens
    <2> DEFINE N == {m \in Nat : m + 1 <= n => Holds(g[m + 1], seqs, m + 1, X)}
    <2>5. 0 \in N
      <3>1. g[1] = seqs[1] /\ seqs[1] \in Seq(X) /\ 1 \in 1 .. 1
        BY <1>2, <1>4, <2>3
      <3> QED
        BY <3>1 DEF Holds
    <2>6. ASSUME NEW m \in N PROVE m + 1 \in N
      <3> SUFFICES ASSUME m + 2 <= n PROVE Holds(g[m + 2], seqs, m + 2, X)
        OBVIOUS
      <3>1. Holds(g[m + 1], seqs, m + 1, X)
        OBVIOUS
      <3>2. m + 2 \in 1 .. n /\ m + 2 # 1 /\ m + 2 - 1 = m + 1
        OBVIOUS
      <3>3. g[m + 2] = g[m + 1] \o seqs[m + 2] /\ seqs[m + 2] \in Seq(X)
        <4>1. PICK i \in 1 .. n : i = m + 2 /\ i # 1 /\ i - 1 = m + 1
          BY <3>2
        <4>2. g[i] = g[i - 1] \o seqs[i] /\ seqs[i] \in Seq(X)
          BY <1>2, <2>3, <4>1
        <4> QED
          BY <4>1, <4>2
      <3>4. m + 1 \in Nat /\ m + 2 = (m + 1) + 1
        OBVIOUS
      <3> HIDE DEF N
      <3> QED
        BY <3>1, <3>3, <3>4, HoldsMore
    <2>7. N = Nat
      <3> HIDE DEF N
      <3> QED
        BY <2>5, <2>6, NatSetInduction DEF N
    <2>8. n - 1 \in N /\ n - 1 + 1 = n
      <3>1. n - 1 \in Nat /\ n - 1 + 1 = n
        BY <1>4
      <3> HIDE DEF N
      <3> QED
        BY <2>7, <3>1
    <2>9. Holds(g[n], seqs, n, X)
      BY <2>8
    <2> QED
      BY <1>1, <2>4, <2>9
  <1> QED
    BY <1>1, <1>3, <1>4

\* What was measured on a chain
ChainMeasurements(chain) ==
    UNION {{Measurement(chain[i].resolutions[k].cand.text, chain[i].resolutions[k].reward) :
               k \in DOMAIN chain[i].resolutions} : i \in DOMAIN chain}

\* A resolution that can be folded has a reward, and only the seed has the seed's text.
Good(resolution) ==
    /\ resolution.failure = None => resolution.reward \in Int
    /\ resolution.cand = SeedCandidate \/ resolution.cand.text # Seed

GoodChain(chain) ==
    /\ \E S : chain \in Seq(S)
    /\ \A i \in DOMAIN chain :
           /\ \E S : chain[i].resolutions \in Seq(S)
           /\ \A k \in DOMAIN chain[i].resolutions : Good(chain[i].resolutions[k])

\* The history of a chain is what was measured on it.
LEMMA HistoryOfChain ==
    ASSUME NEW chain, GoodChain(chain), Foldable(chain)
    PROVE  /\ AttemptsValid(AttemptHistory(chain))
           /\ HistoryMeasurements(AttemptHistory(chain)) = ChainMeasurements(chain)
  <1> DEFINE Start(i) == FoldLeft(LAMBDA n, r : n + Len(r.resolutions), 0, SubSeq(chain, 1, i - 1))
             Attempt(i, k) == [ordinal |-> Start(i) + k - 1, round |-> chain[i].req.index,
                               cand |-> chain[i].resolutions[k].cand, reward |-> chain[i].resolutions[k].reward]
             Attempts(i) == [k \in DOMAIN chain[i].resolutions |-> Attempt(i, k)]
  <1>1. PICK seqs : seqs = [i \in DOMAIN chain |-> Attempts(i)]
    OBVIOUS
  <1>2. AttemptHistory(chain) = FlattenSeq(seqs)
    BY <1>1 DEF AttemptHistory
  <1>3. \A i, k :
            /\ Attempt(i, k).cand = chain[i].resolutions[k].cand
            /\ Attempt(i, k).reward = chain[i].resolutions[k].reward
    OBVIOUS
  <1> HIDE DEF Attempt
  <1>4. PICK X : X = UNION {{Attempt(i, k) : k \in DOMAIN chain[i].resolutions} : i \in DOMAIN chain}
    OBVIOUS
  <1>5. Len(chain) \in Nat /\ DOMAIN chain = 1 .. Len(chain)
    BY DEF GoodChain
  <1>6. ASSUME NEW i \in DOMAIN chain
        PROVE  /\ seqs[i] \in Seq(X) /\ DOMAIN seqs[i] = DOMAIN chain[i].resolutions
               /\ \A k \in DOMAIN chain[i].resolutions : seqs[i][k] = Attempt(i, k)
    <2>1. PICK n \in Nat : DOMAIN chain[i].resolutions = 1 .. n
      <3>1. PICK S : chain[i].resolutions \in Seq(S)
        BY DEF GoodChain
      <3>2. Len(chain[i].resolutions) \in Nat /\ DOMAIN chain[i].resolutions = 1 .. Len(chain[i].resolutions)
        BY <3>1
      <3> QED
        BY <3>2
    <2>2. seqs[i] = [k \in 1 .. n |-> Attempt(i, k)]
      BY <1>1, <2>1
    <2>3. \A k \in 1 .. n : Attempt(i, k) \in X
      BY <1>4, <2>1
    <2> QED
      BY <2>1, <2>2, <2>3
  <1>7. seqs \in Seq(Seq(X)) /\ Len(seqs) = Len(chain)
    BY <1>1, <1>5, <1>6
  <1>8. PICK h : h = AttemptHistory(chain)
    OBVIOUS
  <1>9. Holds(h, seqs, Len(chain), X)
    BY <1>2, <1>7, <1>8, FlattenHolds
  <1>10. /\ h \in Seq(X)
         /\ \A p \in DOMAIN h : \E i \in DOMAIN chain : \E k \in DOMAIN chain[i].resolutions : h[p] = Attempt(i, k)
         /\ \A i \in DOMAIN chain : \A k \in DOMAIN chain[i].resolutions : \E p \in DOMAIN h : h[p] = Attempt(i, k)
    BY <1>5, <1>6, <1>9 DEF Holds
  <1>11. \A p \in DOMAIN h : h[p].reward \in Int /\ (h[p].cand = SeedCandidate \/ h[p].cand.text # Seed)
    <2> SUFFICES ASSUME NEW p \in DOMAIN h
                 PROVE  h[p].reward \in Int /\ (h[p].cand = SeedCandidate \/ h[p].cand.text # Seed)
      OBVIOUS
    <2>1. PICK i \in DOMAIN chain : \E k \in DOMAIN chain[i].resolutions : h[p] = Attempt(i, k)
      BY <1>10
    <2>2. PICK k \in DOMAIN chain[i].resolutions : h[p] = Attempt(i, k)
      BY <2>1
    <2>3. chain[i].resolutions[k].failure = None
      BY DEF Foldable
    <2>4. Good(chain[i].resolutions[k])
      BY DEF GoodChain
    <2> QED
      BY <1>3, <2>2, <2>3, <2>4 DEF Good
  <1>12. AttemptsValid(h)
    BY <1>10, <1>11 DEF AttemptsValid
  <1>13. ASSUME NEW y PROVE y \in HistoryMeasurements(h) <=> y \in ChainMeasurements(chain)
    <2>1. ASSUME y \in HistoryMeasurements(h) PROVE y \in ChainMeasurements(chain)
      <3>1. PICK p \in DOMAIN h : y = Measurement(h[p].cand.text, h[p].reward)
        BY <2>1 DEF HistoryMeasurements
      <3>2. PICK i \in DOMAIN chain : \E k \in DOMAIN chain[i].resolutions : h[p] = Attempt(i, k)
        BY <1>10
      <3>3. PICK k \in DOMAIN chain[i].resolutions : h[p] = Attempt(i, k)
        BY <3>2
      <3>4. y = Measurement(chain[i].resolutions[k].cand.text, chain[i].resolutions[k].reward)
        BY <1>3, <3>1, <3>3
      <3> QED
        BY <3>4 DEF ChainMeasurements
    <2>2. ASSUME y \in ChainMeasurements(chain) PROVE y \in HistoryMeasurements(h)
      <3>1. PICK i \in DOMAIN chain : \E k \in DOMAIN chain[i].resolutions :
                y = Measurement(chain[i].resolutions[k].cand.text, chain[i].resolutions[k].reward)
        BY <2>2 DEF ChainMeasurements
      <3>2. PICK k \in DOMAIN chain[i].resolutions :
                y = Measurement(chain[i].resolutions[k].cand.text, chain[i].resolutions[k].reward)
        BY <3>1
      <3>3. PICK p \in DOMAIN h : h[p] = Attempt(i, k)
        BY <1>10
      <3>4. y = Measurement(h[p].cand.text, h[p].reward)
        BY <1>3, <3>2, <3>3
      <3> QED
        BY <3>4 DEF HistoryMeasurements
    <2> QED
      BY <2>1, <2>2
  <1> QED
    BY <1>8, <1>12, <1>13

-----------------------------------------------------------------------------
(* The outputs of COPRO.                                                   *)

\* Only the seed is evaluated under the seed's text, and an output that completes the run
\* chooses the best of what was measured.
GoodOutput(o, M) ==
    /\ "status" \in DOMAIN o
    /\ \E S : o.intents \in Seq(S)
    /\ \A i \in DOMAIN o.intents : o.intents[i].cand = SeedCandidate \/ o.intents[i].cand.text # Seed
    /\ o.status = "complete" => o.intents = <<>> /\ Bests(M, o.seedRetained, o.accepted)

LEMMA EndedOutput ==
    ASSUME NEW o, NEW M, "status" \in DOMAIN o, o.intents = <<>>, o.status = "complete" => Bests(M, o.seedRetained, o.accepted)
    PROVE  GoodOutput(o, M)
  <1>1. o.intents \in Seq({}) /\ DOMAIN o.intents = {}
    OBVIOUS
  <1> QED
    BY <1>1 DEF GoodOutput

\* A draft that becomes a candidate does not repeat the seed.
LEMMA ProposedTexts ==
    ASSUME NEW n \in Nat, NEW drafts, DOMAIN drafts = 1 .. n, NEW request
    PROVE  \E m \in Nat : /\ DOMAIN Proposed(request, drafts) = 1 .. m
                          /\ \E S : Proposed(request, drafts) \in Seq(S)
                          /\ \A i \in 1 .. m : Proposed(request, drafts)[i].text # Seed
  <1>1. PICK places : places = {i \in DOMAIN drafts : Usable(drafts[i])}
    OBVIOUS
  <1>2. places \in SUBSET Nat /\ places \in SUBSET (1 .. n)
    BY <1>1
  <1>3. IsFiniteSet(places)
    <2>1. IsFiniteSet(1 .. n)
      BY FS_Interval
    <2> QED
      BY <1>2, <2>1, FS_Subset
  <1>4. PICK m, at : Picks(drafts, places, m, at)
    BY <1>2, <1>3, PickedInOrder
  <1>5. m \in Nat /\ at \in [1 .. m -> places] /\ Picked(drafts, places) = [k \in 1 .. m |-> drafts[at[k]]]
    BY <1>4 DEF Picks
  <1>6. PICK p : p = Proposed(request, drafts)
    OBVIOUS
  <1> DEFINE Candidate(i) == [id |-> <<"copro", Len(request.history) + i - 1>>, base |-> SeedCandidate.id,
                              text |-> drafts[at[i]].text]
  <1>7. p = [i \in 1 .. m |-> Candidate(i)]
    <2>1. PICK kept : kept = Picked(drafts, places)
      OBVIOUS
    <2>2. p = [i \in DOMAIN kept |-> [id |-> <<"copro", Len(request.history) + i - 1>>, base |-> SeedCandidate.id,
                                      text |-> kept[i].text]]
      BY <1>1, <1>6, <2>1 DEF Proposed
    <2>3. DOMAIN kept = 1 .. m /\ \A i \in 1 .. m : kept[i] = drafts[at[i]]
      BY <1>5, <2>1
    <2> QED
      BY <2>2, <2>3
  <1>8. \A i \in 1 .. m : p[i].text = drafts[at[i]].text
    BY <1>7
  <1>9. \A i \in 1 .. m : drafts[at[i]].text # Seed
    BY <1>1, <1>5 DEF Usable
  <1>10. PICK S : S = {p[i] : i \in 1 .. m}
    OBVIOUS
  <1> HIDE DEF Candidate
  <1>11. p \in [1 .. m -> S] /\ DOMAIN p = 1 .. m
    BY <1>7, <1>10
  <1>12. p \in Seq(S)
    BY <1>5, <1>11
  <1> QED
    BY <1>5, <1>6, <1>8, <1>9, <1>11, <1>12

\* A round asks for the evaluation of its proposals, and of the seed.
LEMMA ContinueOutput ==
    ASSUME NEW n \in Nat, NEW drafts, DOMAIN drafts = 1 .. n, NEW request, NEW plan, NEW M
    PROVE  GoodOutput(Continue(request, plan, drafts), M)
  <1>1. PICK m \in Nat : /\ DOMAIN Proposed(request, drafts) = 1 .. m
                         /\ \E S : Proposed(request, drafts) \in Seq(S)
                         /\ \A i \in 1 .. m : Proposed(request, drafts)[i].text # Seed
    BY ProposedTexts
  <1>2. PICK p, q : p = Proposed(request, drafts) /\ q = IF plan.seed THEN <<SeedCandidate>> ELSE <<>>
    OBVIOUS
  <1>3. PICK S : p \in Seq(S)
    BY <1>1, <1>2
  <1>4. p \in Seq(S \cup {SeedCandidate})
    BY <1>3, SeqMonotonic
  <1>5. q \in Seq(S \cup {SeedCandidate}) /\ \A i \in DOMAIN q : q[i] = SeedCandidate
    <2>1. CASE plan.seed
      <3>1. q = <<SeedCandidate>>
        BY <1>2, <2>1
      <3> QED
        BY <3>1
    <2>2. CASE ~plan.seed
      <3>1. q = <<>>
        BY <1>2, <2>2
      <3> QED
        BY <3>1
    <2> QED
      BY <2>1, <2>2
  <1>6. PICK occ : occ = p \o q
    OBVIOUS
  <1>7. occ = Occurrences(request, plan, drafts)
    BY <1>2, <1>6 DEF Occurrences
  <1>8. occ \in Seq(S \cup {SeedCandidate})
    BY <1>4, <1>5, <1>6, ConcatProperties
  <1>9. \A i \in DOMAIN occ : occ[i] = SeedCandidate \/ occ[i].text # Seed
    <2>1. Len(p) \in Nat /\ Len(q) \in Nat /\ DOMAIN p = 1 .. Len(p) /\ DOMAIN q = 1 .. Len(q)
      BY <1>4, <1>5, LenProperties
    <2>2. Len(occ) = Len(p) + Len(q) /\ DOMAIN occ = 1 .. Len(occ)
      BY <1>4, <1>5, <1>6, <1>8, ConcatProperties, LenProperties
    <2>3. \A i \in 1 .. Len(p) + Len(q) : occ[i] = IF i <= Len(p) THEN p[i] ELSE q[i - Len(p)]
      BY <1>4, <1>5, <1>6, ConcatProperties
    <2>4. ASSUME NEW i \in DOMAIN occ, i <= Len(p) PROVE occ[i].text # Seed
      BY <1>1, <1>2, <2>1, <2>2, <2>3, <2>4
    <2>5. ASSUME NEW i \in DOMAIN occ, ~(i <= Len(p)) PROVE occ[i] = SeedCandidate
      <3>1. i - Len(p) \in DOMAIN q
        BY <2>1, <2>2, <2>5
      <3> QED
        BY <1>5, <2>1, <2>2, <2>3, <2>5, <3>1
    <2> QED
      BY <2>4, <2>5
  <1> DEFINE Intent(i) == [id |-> <<request.index, Len(request.history) + i - 1>>, step |-> request.index, cand |-> occ[i]]
  <1>10. PICK intents : intents = [i \in DOMAIN occ |-> Intent(i)]
    OBVIOUS
  <1>11. \A i : Intent(i).cand = occ[i]
    OBVIOUS
  <1>12. PICK o : o = Continue(request, plan, drafts)
    OBVIOUS
  <1>13. "status" \in DOMAIN o /\ o.status = "continue" /\ o.intents = intents
    <2>1. PICK u, d : u = CallUsage(request, drafts) /\ d = plan.count
      OBVIOUS
    <2>2. PICK no, base : no = FALSE /\ base = Output("continue")
      OBVIOUS
    <2>3. o = [base EXCEPT !.proposed = p, !.accepted = p, !.intents = intents, !.usage = u, !.delta = d]
      BY <1>2, <1>7, <1>10, <1>12, <2>1, <2>2 DEF Continue
    <2>4. base = AdapterOutput("continue", None, <<>>, <<>>, <<>>, 0, no, None, None)
      BY <2>2 DEF Output, Failed, AdapterOutput
    <2> HIDE DEF Intent
    <2> QED
      BY <2>3, <2>4 DEF AdapterOutput
  <1> HIDE DEF Intent
  <1>14. PICK k \in Nat : DOMAIN occ = 1 .. k
    <2>1. Len(occ) \in Nat /\ DOMAIN occ = 1 .. Len(occ)
      BY <1>8, LenProperties
    <2> QED
      BY <2>1
  <1>15. PICK I : I = {intents[i] : i \in 1 .. k}
    OBVIOUS
  <1>16. intents \in [1 .. k -> I]
    BY <1>10, <1>14, <1>15
  <1>17. intents \in Seq(I) /\ DOMAIN intents = 1 .. k
    BY <1>14, <1>16
  <1>18. \A i \in DOMAIN intents : intents[i].cand = SeedCandidate \/ intents[i].cand.text # Seed
    BY <1>9, <1>10, <1>11, <1>14, <1>17
  <1> QED
    BY <1>12, <1>13, <1>17, <1>18 DEF GoodOutput

\* What an invocation of COPRO returns
LEMMA CoproOutput ==
    ASSUME CoproInvoke, AttemptsValid(req.history), AcceptedCountFor(req.contract, "complete") \in Nat
    PROVE  \/ \E reason : Raise(reason)
           \/ /\ pc' = "emit" /\ UNCHANGED <<req, search, touched, usage, raised>>
              /\ GoodOutput(out', HistoryMeasurements(req.history))
  <1>1. PICK M : M = HistoryMeasurements(req.history)
    OBVIOUS
  <1>2. PICK required \in Nat : required = AcceptedCountFor(req.contract, "complete")
    OBVIOUS
  <1>3. PICK plan, ranked : plan = PlanRound(req.round, req.history) /\ ranked = RankAttemptHistory(req.history)
    OBVIOUS
  <1>4. CASE RequestRefused(req)
    <2>1. Raise("request")
      BY <1>4 DEF CoproInvoke
    <2> QED
      BY <2>1
  <1>5. CASE ~RequestRefused(req) /\ IsFinalizing(req)
    <2>1. out' = Finalize(ranked, required) /\ pc' = "emit" /\ UNCHANGED <<req, search, touched, usage, raised>>
      BY <1>2, <1>3, <1>5 DEF CoproInvoke
    <2>2. GoodOutput(out', M)
      <3>1. CASE ranked = <<>>
        <4>1. out' = Failed("copro_no_measured_history")
          BY <2>1, <3>1 DEF Finalize
        <4>2. "status" \in DOMAIN out' /\ out'.intents = <<>> /\ out'.status = "failed"
          BY <4>1 DEF Failed
        <4> QED
          BY <4>2, EndedOutput
      <3>2. CASE ranked # <<>>
        <4>1. out' = Terminalize(ranked, required, "copro_insufficient_ranked_candidates")
          BY <2>1, <3>2 DEF Finalize
        <4>2. PICK o : o = out'
          OBVIOUS
        <4>3. /\ \E failure, accepted, seed, retained :
                     o = AdapterOutput(o.status, failure, accepted, accepted, <<>>, 0, seed, retained, None)
              /\ o.status = "complete" => Bests(M, o.seedRetained, o.accepted)
          BY <1>1, <1>3, <4>1, <4>2, TerminalizeBest
        <4>4. "status" \in DOMAIN o /\ o.intents = <<>>
          BY <4>3 DEF AdapterOutput
        <4> QED
          BY <4>2, <4>3, <4>4, EndedOutput
      <3> QED
        BY <3>1, <3>2
    <2> QED
      BY <1>1, <2>1, <2>2
  <1>6. CASE ~RequestRefused(req) /\ ~IsFinalizing(req)
    <2>1. /\ \E drafts \in DraftBatches(plan.count) : out' = Draw(req, plan, ranked, required, drafts)
          /\ pc' = "emit" /\ UNCHANGED <<req, search, touched, usage, raised>>
      BY <1>2, <1>3, <1>6 DEF CoproInvoke
    <2>2. PICK drafts \in DraftBatches(plan.count) : out' = Draw(req, plan, ranked, required, drafts)
      BY <2>1
    <2>3. PICK n \in Nat : DOMAIN drafts = 1 .. n
      <3>1. plan.count \in Nat
        BY <1>3, CoproAssumption DEF PlanRound, CoproControl
      <3> QED
        BY <3>1 DEF DraftBatches
    <2>4. PICK o : o = out'
      OBVIOUS
    <2>5. PICK u, d, p : u = CallUsage(req, drafts) /\ d = plan.count /\ p = Proposed(req, drafts)
      OBVIOUS
    <2>6. CASE req.budget < plan.count
      <3>1. o = Failed("copro_proposal_budget_exhausted")
        BY <2>2, <2>4, <2>6 DEF Draw
      <3>2. "status" \in DOMAIN o /\ o.intents = <<>> /\ o.status = "failed"
        BY <3>1 DEF Failed
      <3> QED
        BY <1>1, <2>1, <2>4, <3>2, EndedOutput
    <2>7. CASE ~(req.budget < plan.count) /\ Overfilled(req, plan, drafts)
      <3>1. PICK base, no : base = Failed("copro_proposal_cardinality") /\ no = FALSE
        OBVIOUS
      <3>2. base = AdapterOutput("failed", "copro_proposal_cardinality", <<>>, <<>>, <<>>, 0, no, None, None)
        BY <3>1 DEF Failed, AdapterOutput
      <3>3. o = [base EXCEPT !.proposed = p, !.usage = u, !.delta = d]
        BY <2>2, <2>4, <2>5, <2>7, <3>1 DEF Draw
      <3>4. "status" \in DOMAIN o /\ o.intents = <<>> /\ o.status = "failed"
        BY <3>2, <3>3 DEF AdapterOutput
      <3> QED
        BY <1>1, <2>1, <2>4, <3>4, EndedOutput
    <2>8. CASE ~(req.budget < plan.count) /\ ~Overfilled(req, plan, drafts) /\ p = <<>>
      <3>1. PICK base : base = Terminalize(ranked, required, "copro_proposal_round_empty")
        OBVIOUS
      <3>2. o = [base EXCEPT !.usage = u, !.delta = d]
        BY <2>2, <2>4, <2>5, <2>8, <3>1 DEF Draw, TerminalizeWithoutProposals
      <3>3. /\ \E failure, accepted, seed, retained :
                   base = AdapterOutput(base.status, failure, accepted, accepted, <<>>, 0, seed, retained, None)
            /\ base.status = "complete" => Bests(M, base.seedRetained, base.accepted)
        BY <1>1, <1>3, <3>1, TerminalizeBest
      <3>4. PICK status, failure, accepted, seed, retained :
                /\ base = AdapterOutput(status, failure, accepted, accepted, <<>>, 0, seed, retained, None)
                /\ base.status = status
        BY <3>3
      <3>5. base.seedRetained = seed /\ base.accepted = accepted
        BY <3>4 DEF AdapterOutput
      <3>6. "status" \in DOMAIN o /\ o.intents = <<>> /\ o.status = status /\ o.seedRetained = seed /\ o.accepted = accepted
        BY <3>2, <3>4 DEF AdapterOutput
      <3> QED
        BY <1>1, <2>1, <2>4, <3>3, <3>4, <3>5, <3>6, EndedOutput
    <2>9. CASE ~(req.budget < plan.count) /\ ~Overfilled(req, plan, drafts) /\ p # <<>>
      <3>1. o = Continue(req, plan, drafts)
        BY <2>2, <2>4, <2>5, <2>9 DEF Draw
      <3>2. GoodOutput(o, M)
        BY <2>3, <3>1, ContinueOutput
      <3> QED
        BY <1>1, <2>1, <2>4, <3>2
    <2> QED
      BY <2>6, <2>7, <2>8, <2>9
  <1> QED
    BY <1>4, <1>5, <1>6

\* Every contract of a COPRO step asks for a number of proposals.
LEMMA RequiredIsNat ==
    ASSUME run.topK \in Nat, NEW request, NEW chain, NEW history,
           \/ request = CoproFirst(Terminal)
           \/ request = CoproNext(chain, history, Terminal)
    PROVE  AcceptedCountFor(request.contract, "complete") \in Nat
  <1>1. PICK k \in Nat : k = run.topK
    OBVIOUS
  <1>2. AcceptedCountFor(Terminal, "complete") = k /\ Terminal.returned = k
    BY <1>1 DEF Terminal, TerminalContract, AcceptedCountFor
  <1>3. Breadth \in Nat /\ Breadth - 1 \in Nat
    BY CoproAssumption DEF CoproControl
  <1>4. PICK c : c = request.contract
    OBVIOUS
  <1>5. c.terminal = k /\ c.returned \in Nat
    <2>1. \A t, count : /\ ContinuingContract(t, count).terminal = AcceptedCountFor(t, "complete")
                        /\ ContinuingContract(t, count).returned = count
                        /\ FinalizingContract(t).terminal = AcceptedCountFor(t, "complete")
                        /\ FinalizingContract(t).returned = t.returned
      BY DEF ContinuingContract, FinalizingContract
    <2>2. CASE request = CoproFirst(Terminal)
      <3>1. c = ContinuingContract(Terminal, Breadth - 1)
        BY <1>4, <2>2 DEF CoproFirst
      <3> QED
        BY <1>2, <1>3, <2>1, <3>1
    <2>3. CASE request = CoproNext(chain, history, Terminal)
      <3>1. c = FinalizingContract(Terminal) \/ c = ContinuingContract(Terminal, Breadth)
        BY <1>4, <2>3 DEF CoproNext
      <3> QED
        BY <1>2, <1>3, <2>1, <3>1
    <2> QED
      BY <2>2, <2>3
  <1>6. AcceptedCountFor(c, "complete") \in Nat
    BY <1>5 DEF AcceptedCountFor
  <1> QED
    BY <1>4, <1>6

-----------------------------------------------------------------------------
(* A COPRO run.                                                            *)

\* None is no output.
NoneIsNoOutput == "status" \notin DOMAIN None

\* The launched run
RunInv == run.key \in {"copro", "gepa"} /\ run.topK \in Nat

\* Every resolution can be folded or is known to be lost, and a chain that is complete
\* has chosen the best of what was measured on it.
CoproStore ==
    /\ GoodChain(results)
    /\ \E S : resolved \in Seq(S)
    /\ \A k \in DOMAIN resolved : Good(resolved[k])
    /\ ckpt = None \/ ckpt.intents = <<>> \/ run.platform => resolved = <<>>
    /\ ckpt # None => GoodOutput(ckpt, ChainMeasurements(results))
    /\ results # <<>> /\ results[Len(results)].status = "complete" =>
           Bests(ChainMeasurements(results), results[Len(results)].seedRetained, results[Len(results)].accepted)

\* The request of a step has the history of the chain, and its output is as good.
CoproPhase ==
    /\ pc \notin {"search", "effect"}
    /\ pc = "invoke" =>
           /\ ckpt = None /\ AttemptsValid(req.history)
           /\ HistoryMeasurements(req.history) = ChainMeasurements(results)
           /\ AcceptedCountFor(req.contract, "complete") \in Nat
    /\ pc = "emit" => ckpt = None /\ GoodOutput(out, ChainMeasurements(results))
    /\ pc \in {"resolve", "parked"} => out = ckpt /\ GoodOutput(out, ChainMeasurements(results))
    /\ pc = "parked" => run.platform

CoproInv == CoproStore /\ CoproPhase

LEMMA EmptyChain ==
    /\ GoodChain(<<>>) /\ ChainMeasurements(<<>>) = {}
    /\ AttemptsValid(<<>>) /\ HistoryMeasurements(<<>>) = {}
  <1>1. <<>> \in Seq({}) /\ DOMAIN <<>> = {}
    OBVIOUS
  <1> QED
    BY <1>1 DEF GoodChain, ChainMeasurements, AttemptsValid, HistoryMeasurements

\* A step that writes nothing durable of a COPRO step and leaves it
LEMMA CoproIdle ==
    ASSUME CoproInv, UNCHANGED <<run, ckpt, resolved, results>>, pc' \in {"down", "next", "terminalize"}
    PROVE  CoproInv'
  <1>1. run' = run /\ ckpt' = ckpt /\ resolved' = resolved /\ results' = results
    OBVIOUS
  <1>2. CoproStore'
    BY <1>1 DEF CoproInv, CoproStore
  <1>3. CoproPhase'
    BY DEF CoproPhase
  <1> QED
    BY <1>2, <1>3 DEF CoproInv

LEMMA CoproRaise ==
    ASSUME CoproInv, UNCHANGED <<run, ckpt, resolved, results>>, NEW reason, Raise(reason)
    PROVE  CoproInv'
  BY CoproIdle DEF Raise

\* The controller
LEMMA CoproTurn ==
    ASSUME RunInv, run.key = "copro", CoproInv, Turn, UNCHANGED <<run, durable>>
    PROVE  CoproInv'
  <1>1. UNCHANGED <<run, ckpt, resolved, results>>
    BY DEF durable
  <1>2. CASE results # <<>> /\ Last(results).status # "continue"
    BY <1>1, <1>2, CoproIdle DEF Turn
  <1>3. CASE ~(results # <<>> /\ Last(results).status # "continue") /\ Unmeasured(results)
    <2>1. Raise("unmeasured")
      BY <1>3 DEF Turn
    <2> QED
      BY <1>1, <2>1, CoproRaise
  <1>4. CASE ~(results # <<>> /\ Last(results).status # "continue") /\ ~Unmeasured(results)
    <2>1. RequestAfter(results, req') /\ out' = ckpt /\ pc' = IF ckpt = None THEN "invoke" ELSE "resolve"
      BY <1>4 DEF Turn
    <2>2. GoodChain(results) /\ Foldable(results)
      BY <1>4 DEF CoproInv, CoproStore, Unmeasured
    <2>3. /\ AttemptsValid(req'.history) /\ HistoryMeasurements(req'.history) = ChainMeasurements(results)
          /\ AcceptedCountFor(req'.contract, "complete") \in Nat
      <3>1. PICK r : r = req'
        OBVIOUS
      <3>2. CASE results = <<>>
        <4>1. r = CoproFirst(Terminal)
          BY <2>1, <3>1, <3>2 DEF RequestAfter
        <4>2. r.history = <<>>
          BY <4>1 DEF CoproFirst
        <4>3. AcceptedCountFor(r.contract, "complete") \in Nat
          BY <4>1, RequiredIsNat DEF RunInv
        <4> QED
          BY <3>1, <3>2, <4>2, <4>3, EmptyChain
      <3>3. CASE results # <<>>
        <4>1. PICK h : h = AttemptHistory(results)
          OBVIOUS
        <4>2. r = CoproNext(results, h, Terminal)
          BY <2>1, <3>1, <3>3, <4>1 DEF RequestAfter
        <4>3. r.history = h
          BY <4>2 DEF CoproNext
        <4>4. AcceptedCountFor(r.contract, "complete") \in Nat
          BY <4>2, RequiredIsNat DEF RunInv
        <4>5. AttemptsValid(h) /\ HistoryMeasurements(h) = ChainMeasurements(results)
          BY <2>2, <4>1, HistoryOfChain
        <4> QED
          BY <3>1, <4>3, <4>4, <4>5
      <3> QED
        BY <3>2, <3>3
    <2>4. CoproStore'
      BY <1>1 DEF CoproInv, CoproStore
    <2>5. CoproPhase'
      BY <1>1, <2>1, <2>3 DEF CoproInv, CoproStore, CoproPhase
    <2> QED
      BY <2>4, <2>5 DEF CoproInv
  <1> QED
    BY <1>2, <1>3, <1>4

LEMMA CoproController ==
    ASSUME RunInv, run.key = "copro", CoproInv, Controller
    PROVE  CoproInv'
  <1>1. CASE Drive
    <2>1. UNCHANGED <<run, durable>>
      BY <1>1 DEF Drive
    <2>2. Turn \/ Raise("conflict")
      BY <1>1 DEF Drive
    <2> QED
      BY <2>1, <2>2, CoproTurn, CoproRaise DEF durable
  <1>2. CASE Advance
    BY <1>2, CoproTurn DEF Advance
  <1>3. CASE TerminalizeRun
    BY <1>3, CoproIdle DEF TerminalizeRun, Raise
  <1> QED
    BY <1>1, <1>2, <1>3 DEF Controller

\* A Step Result joins the chain.
LEMMA ChainGrows ==
    ASSUME NEW chain, GoodChain(chain), NEW r, NEW S, r.resolutions \in Seq(S),
           \A k \in DOMAIN r.resolutions : Good(r.resolutions[k])
    PROVE  /\ GoodChain(Append(chain, r)) /\ Append(chain, r) # <<>>
           /\ Append(chain, r)[Len(Append(chain, r))] = r
           /\ r.resolutions = <<>> => ChainMeasurements(Append(chain, r)) = ChainMeasurements(chain)
  <1>1. PICK X : chain \in Seq(X)
    BY DEF GoodChain
  <1>2. PICK n \in Nat : n = Len(chain) /\ DOMAIN chain = 1 .. n
    BY <1>1
  <1>3. PICK c : c = Append(chain, r)
    OBVIOUS
  <1>4. c \in Seq(X \cup {r}) /\ Len(c) = n + 1
    BY <1>1, <1>2, <1>3
  <1>5. DOMAIN c = 1 .. n + 1 /\ c[n + 1] = r /\ \A i \in 1 .. n : c[i] = chain[i]
    BY <1>1, <1>2, <1>3
  <1>6. ASSUME NEW i \in DOMAIN c
        PROVE  /\ \E Y : c[i].resolutions \in Seq(Y)
               /\ \A k \in DOMAIN c[i].resolutions : Good(c[i].resolutions[k])
    <2>1. CASE i \in 1 .. n
      <3>1. i \in DOMAIN chain /\ c[i] = chain[i]
        BY <1>2, <1>5, <2>1
      <3> QED
        BY <3>1 DEF GoodChain
    <2>2. CASE i = n + 1
      BY <1>5, <2>2
    <2> QED
      BY <1>5, <2>1, <2>2
  <1>7. GoodChain(c)
    BY <1>4, <1>6 DEF GoodChain
  <1>8. c # <<>>
    BY <1>4
  <1>9. ASSUME r.resolutions = <<>> PROVE ChainMeasurements(c) = ChainMeasurements(chain)
    <2>1. DOMAIN c[n + 1].resolutions = {}
      BY <1>5, <1>9
    <2>2. \A y : y \in ChainMeasurements(c) <=> y \in ChainMeasurements(chain)
      <3> DEFINE In(y, i, d) == \E k \in DOMAIN d[i].resolutions :
                                    y = Measurement(d[i].resolutions[k].cand.text, d[i].resolutions[k].reward)
      <3>1. \A y : y \in ChainMeasurements(c) <=> \E i \in 1 .. n + 1 : In(y, i, c)
        BY <1>5 DEF ChainMeasurements
      <3>2. \A y : y \in ChainMeasurements(chain) <=> \E i \in 1 .. n : In(y, i, chain)
        BY <1>2 DEF ChainMeasurements
      <3>3. \A y : \A i \in 1 .. n : In(y, i, c) <=> In(y, i, chain)
        BY <1>5
      <3>4. \A y : ~In(y, n + 1, c)
        BY <2>1
      <3>5. \A i : i \in 1 .. n + 1 <=> i \in 1 .. n \/ i = n + 1
        OBVIOUS
      <3> HIDE DEF In
      <3> QED
        BY <3>1, <3>2, <3>3, <3>4, <3>5
    <2> QED
      BY <2>2
  <1> QED
    BY <1>3, <1>4, <1>5, <1>7, <1>8, <1>9

\* What an evaluation resolves to can be folded or is known to be lost.
LEMMA ResolutionGood ==
    ASSUME NEW intent, NEW reward \in Rewards \cup {None},
           intent.cand = SeedCandidate \/ intent.cand.text # Seed
    PROVE  Good(Resolution(intent, reward))
  <1>1. PICK r : r = Resolution(intent, reward)
    OBVIOUS
  <1>2. /\ r.cand = intent.cand /\ r.reward = reward
        /\ r.failure = IF reward = None THEN "evaluation" ELSE None
    BY <1>1 DEF Resolution
  <1>3. r.failure = None => reward \in Int
    BY <1>2, OptimRunAssumption
  <1> QED
    BY <1>1, <1>2, <1>3 DEF Good

LEMMA CoproBind ==
    ASSUME CoproInv, BindResult
    PROVE  CoproInv'
  <1>1. pc = "resolve" /\ out = ckpt /\ GoodOutput(out, ChainMeasurements(results)) /\ run' = run
    BY DEF BindResult, CoproInv, CoproPhase
  <1>2. CASE StepResultValid(req, Terminal, out, resolved)
    <2>1. /\ results' = Append(results, StepResult(resolved))
          /\ ckpt' = None /\ resolved' = <<>> /\ pc' = "next"
      BY <1>2 DEF BindResult
    <2>2. PICK r : r = StepResult(resolved)
      OBVIOUS
    <2>3. /\ r.resolutions = resolved /\ r.status = out.status
          /\ r.seedRetained = out.seedRetained /\ r.accepted = out.accepted
      BY <2>2 DEF StepResult
    <2>4. PICK S : resolved \in Seq(S)
      BY DEF CoproInv, CoproStore
    <2>5. GoodChain(results) /\ \A k \in DOMAIN r.resolutions : Good(r.resolutions[k])
      BY <2>3 DEF CoproInv, CoproStore
    <2>6. /\ GoodChain(results') /\ results' # <<>> /\ results'[Len(results')] = r
          /\ r.resolutions = <<>> => ChainMeasurements(results') = ChainMeasurements(results)
      BY <2>1, <2>2, <2>3, <2>4, <2>5, ChainGrows
    <2>7. r.status = "complete" => Bests(ChainMeasurements(results'), r.seedRetained, r.accepted)
      <3> SUFFICES ASSUME r.status = "complete" PROVE Bests(ChainMeasurements(results'), r.seedRetained, r.accepted)
        OBVIOUS
      <3>1. out.intents = <<>> /\ Bests(ChainMeasurements(results), out.seedRetained, out.accepted)
        BY <1>1, <2>3 DEF GoodOutput
      <3>2. resolved = <<>>
        BY <1>1, <3>1 DEF CoproInv, CoproStore
      <3> QED
        BY <2>3, <2>6, <3>1, <3>2
    <2>8. resolved' \in Seq({}) /\ DOMAIN resolved' = {}
      BY <2>1
    <2>9. CoproStore'
      BY <2>1, <2>6, <2>7, <2>8 DEF CoproStore
    <2>10. CoproPhase'
      BY <2>1 DEF CoproPhase
    <2> QED
      BY <2>9, <2>10 DEF CoproInv
  <1>3. CASE ~StepResultValid(req, Terminal, out, resolved)
    <2>1. Raise("result") /\ UNCHANGED <<run, results, ckpt, resolved>>
      BY <1>3 DEF BindResult
    <2> QED
      BY <2>1, CoproRaise
  <1> QED
    BY <1>2, <1>3

LEMMA CoproMerge ==
    ASSUME CoproInv, NEW n \in 1 .. Breadth, NEW rewards \in [1 .. n -> Rewards \cup {None}], FanInMerge(rewards)
    PROVE  CoproInv'
  <1>1. pc = "parked" /\ GoodOutput(out, ChainMeasurements(results)) /\ run.platform /\ run' = run
    BY DEF FanInMerge, CoproInv, CoproPhase
  <1> DEFINE At(i) == Resolution(out.intents[i], rewards[i])
  <1>2. PICK rs : rs = [i \in DOMAIN rewards |-> At(i)]
    OBVIOUS
  <1>3. /\ results' = Append(results, StepResult(rs)) /\ Len(rewards) = Len(out.intents)
        /\ ckpt' = None /\ resolved' = resolved /\ pc' = "down"
    BY <1>2 DEF FanInMerge
  <1>4. n \in Nat /\ n > 0
    BY CoproAssumption DEF CoproControl
  <1>5. Len(rewards) = n /\ DOMAIN rewards = 1 .. n
    BY <1>4
  <1>6. DOMAIN out.intents = 1 .. n
    <2>1. PICK S : out.intents \in Seq(S)
      BY <1>1 DEF GoodOutput
    <2>2. DOMAIN out.intents = 1 .. Len(out.intents)
      BY <2>1, LenProperties
    <2> QED
      BY <1>3, <1>5, <2>2
  <1>7. \A i \in 1 .. n : Good(At(i))
    BY <1>1, <1>6, ResolutionGood DEF GoodOutput
  <1> HIDE DEF At
  <1>8. PICK S : S = {At(i) : i \in 1 .. n}
    OBVIOUS
  <1>9. rs \in [1 .. n -> S] /\ DOMAIN rs = 1 .. n
    BY <1>2, <1>5, <1>8
  <1>10. rs \in Seq(S) /\ \A k \in DOMAIN rs : Good(rs[k])
    BY <1>2, <1>4, <1>5, <1>7, <1>9
  <1>11. PICK r : r = StepResult(rs)
    OBVIOUS
  <1>12. r.resolutions = rs /\ r.status = out.status
    BY <1>11 DEF StepResult
  <1>13. r.status # "complete"
    <2>1. out.intents # <<>>
      BY <1>4, <1>6
    <2> QED
      BY <1>1, <1>12, <2>1 DEF GoodOutput
  <1>14. GoodChain(results) /\ resolved = <<>>
    BY <1>1 DEF CoproInv, CoproStore
  <1>15. GoodChain(results') /\ results'[Len(results')] = r
    BY <1>3, <1>10, <1>11, <1>12, <1>14, ChainGrows
  <1>16. resolved' \in Seq({}) /\ DOMAIN resolved' = {}
    BY <1>3, <1>14
  <1>17. CoproStore'
    BY <1>3, <1>13, <1>14, <1>15, <1>16 DEF CoproStore
  <1>18. CoproPhase'
    BY <1>3 DEF CoproPhase
  <1> QED
    BY <1>17, <1>18 DEF CoproInv

LEMMA CoproResolve ==
    ASSUME NoneIsNoOutput, CoproInv, NEW reward \in Rewards \cup {None}, ResolveIntent(reward)
    PROVE  CoproInv'
  <1>1. /\ pc = "resolve" /\ ~run.platform /\ Len(resolved) < Len(out.intents)
        /\ pc' = pc /\ out' = out /\ UNCHANGED <<run, ckpt, results>>
    BY DEF ResolveIntent, memory
  <1>2. out = ckpt /\ GoodOutput(out, ChainMeasurements(results))
    BY <1>1 DEF CoproInv, CoproPhase
  <1>3. PICK S : resolved \in Seq(S)
    BY DEF CoproInv, CoproStore
  <1>4. PICK I : out.intents \in Seq(I)
    BY <1>2 DEF GoodOutput
  <1>5. PICK n \in Nat : n = Len(resolved) /\ DOMAIN resolved = 1 .. n
    BY <1>3
  <1>6. n + 1 \in DOMAIN out.intents /\ out.intents # <<>>
    BY <1>1, <1>4, <1>5
  <1>7. PICK r : r = Resolution(out.intents[n + 1], reward)
    OBVIOUS
  <1>8. resolved' = Append(resolved, r)
    BY <1>5, <1>7 DEF ResolveIntent
  <1>9. Good(r)
    BY <1>2, <1>6, <1>7, ResolutionGood DEF GoodOutput
  <1>10. resolved' \in Seq(S \cup {r}) /\ DOMAIN resolved' = 1 .. n + 1
    BY <1>3, <1>5, <1>8
  <1>11. \A k \in DOMAIN resolved' : Good(resolved'[k])
    <2> SUFFICES ASSUME NEW k \in DOMAIN resolved' PROVE Good(resolved'[k])
      OBVIOUS
    <2>1. CASE k = n + 1
      BY <1>3, <1>5, <1>8, <1>9, <2>1
    <2>2. CASE k # n + 1
      <3>1. k \in 1 .. n /\ resolved'[k] = resolved[k]
        BY <1>3, <1>5, <1>8, <1>10, <2>2
      <3> QED
        BY <1>5, <3>1 DEF CoproInv, CoproStore
    <2> QED
      BY <2>1, <2>2
  <1>12. ~(ckpt = None \/ ckpt.intents = <<>> \/ run.platform)
    <2>1. ckpt # None
      BY <1>2 DEF GoodOutput, NoneIsNoOutput
    <2> QED
      BY <1>1, <1>2, <1>6, <2>1
  <1>13. CoproStore'
    BY <1>1, <1>10, <1>11, <1>12 DEF CoproInv, CoproStore
  <1>14. CoproPhase'
    BY <1>1, <1>2 DEF CoproPhase
  <1> QED
    BY <1>13, <1>14 DEF CoproInv

LEMMA CoproCheckpoint ==
    ASSUME CoproInv, Checkpoint
    PROVE  CoproInv'
  <1>1. pc = "emit" /\ ckpt = None /\ GoodOutput(out, ChainMeasurements(results))
    BY DEF Checkpoint, CoproInv, CoproPhase
  <1>2. resolved = <<>> /\ UNCHANGED <<run, resolved, results>>
    BY <1>1 DEF CoproInv, CoproStore, Checkpoint
  <1>3. CASE OutputAccepted(run.key, req, Terminal, out)
    <2>1. ckpt' = out /\ pc' = "resolve" /\ out' = out
      BY <1>3 DEF Checkpoint, memory
    <2>2. CoproStore'
      BY <1>1, <1>2, <2>1 DEF CoproInv, CoproStore
    <2>3. CoproPhase'
      BY <1>1, <1>2, <2>1 DEF CoproPhase
    <2> QED
      BY <2>2, <2>3 DEF CoproInv
  <1>4. CASE ~OutputAccepted(run.key, req, Terminal, out)
    <2>1. Raise("output") /\ ckpt' = ckpt
      BY <1>4 DEF Checkpoint
    <2> QED
      BY <1>2, <2>1, CoproRaise
  <1> QED
    BY <1>3, <1>4

LEMMA CoproPark ==
    ASSUME CoproInv, Park
    PROVE  CoproInv'
  <1>1. pc = "resolve" /\ run.platform /\ UNCHANGED <<run, ckpt, resolved, results>>
    BY DEF Park, durable
  <1>2. out = ckpt /\ GoodOutput(out, ChainMeasurements(results))
    BY <1>1 DEF CoproInv, CoproPhase
  <1>3. CASE StepResultValid(req, Terminal, out, <<>>)
    <2>1. pc' = "parked" /\ out' = out
      BY <1>3 DEF Park, memory
    <2>2. CoproStore'
      BY <1>1 DEF CoproInv, CoproStore
    <2>3. CoproPhase'
      BY <1>1, <1>2, <2>1 DEF CoproPhase
    <2> QED
      BY <2>2, <2>3 DEF CoproInv
  <1>4. CASE ~StepResultValid(req, Terminal, out, <<>>)
    <2>1. Raise("result")
      BY <1>4 DEF Park
    <2> QED
      BY <1>1, <2>1, CoproRaise
  <1> QED
    BY <1>3, <1>4

LEMMA CoproInvoked ==
    ASSUME CoproInv, CoproInvoke
    PROVE  CoproInv'
  <1>1. pc = "invoke" /\ UNCHANGED <<run, ckpt, resolved, results>>
    BY DEF CoproInvoke, durable
  <1>2. /\ ckpt = None /\ AttemptsValid(req.history)
        /\ HistoryMeasurements(req.history) = ChainMeasurements(results)
        /\ AcceptedCountFor(req.contract, "complete") \in Nat
    BY <1>1 DEF CoproInv, CoproPhase
  <1>3. CASE \E reason : Raise(reason)
    BY <1>1, <1>3, CoproRaise
  <1>4. CASE pc' = "emit" /\ GoodOutput(out', HistoryMeasurements(req.history))
    <2>1. CoproStore'
      BY <1>1 DEF CoproInv, CoproStore
    <2>2. CoproPhase'
      BY <1>1, <1>2, <1>4 DEF CoproPhase
    <2> QED
      BY <2>1, <2>2 DEF CoproInv
  <1> QED
    BY <1>2, <1>3, <1>4, CoproOutput

LEMMA CoproNextInvariant ==
    ASSUME NoneIsNoOutput, RunInv, run.key = "copro", CoproInv, [Next]_vars
    PROVE  CoproInv'
  <1>1. pc \notin {"search", "effect"} /\ run.key # "gepa"
    BY DEF CoproInv, CoproPhase
  <1>2. CASE Controller
    BY <1>2, CoproController
  <1>3. CASE RunStep
    <2>1. CASE Checkpoint \/ BindResult \/ Park
      BY <2>1, CoproCheckpoint, CoproBind, CoproPark
    <2>2. CASE \E reward \in Rewards \cup {None} : ResolveIntent(reward)
      BY <2>2, CoproResolve
    <2>3. CASE \E rewards \in UNION {[1 .. n -> Rewards \cup {None}] : n \in 1 .. Breadth} : FanInMerge(rewards)
      <3>1. PICK n \in 1 .. Breadth : \E rewards \in [1 .. n -> Rewards \cup {None}] : FanInMerge(rewards)
        BY <2>3
      <3> QED
        BY <3>1, CoproMerge
    <2> QED
      BY <1>1, <1>3, <2>1, <2>2, <2>3 DEF RunStep
  <1>4. CASE Invoke
    <2>1. CoproInvoke
      BY <1>1, <1>4 DEF Invoke, GepaBegin, RecordRequest, EvaluateReplayed, EvaluateRecord, EvaluateDeferred, Effect,
                        ProposeReplayed, ProposeFresh, SearchEnds, GepaUnbudgeted
    <2> QED
      BY <2>1, CoproInvoked
  <1>5. CASE Crash
    <2>1. pc' = "down" /\ UNCHANGED <<run, ckpt, resolved, results>>
      BY <1>5 DEF Crash, durable
    <2> QED
      BY <2>1, CoproIdle
  <1>6. CASE Stopped \/ UNCHANGED vars
    <2>1. UNCHANGED <<run, ckpt, resolved, results, pc, req, out>>
      BY <1>6 DEF Stopped, vars, durable, memory
    <2>2. CoproStore'
      BY <2>1 DEF CoproInv, CoproStore
    <2>3. CoproPhase'
      BY <2>1 DEF CoproInv, CoproPhase
    <2> QED
      BY <2>2, <2>3 DEF CoproInv
  <1> QED
    BY <1>2, <1>3, <1>4, <1>5, <1>6 DEF Next, Step

-----------------------------------------------------------------------------
(* The Optimization Result.                                                *)

\* It is taken from a chain that has ended, and nothing happens after it.
FinalInv ==
    final # None =>
        /\ pc = "down" /\ results # <<>>
        /\ final.status = results[Len(results)].status /\ final.accepted = results[Len(results)].accepted
        /\ final.seed = results[Len(results)].seedRetained
        /\ OptimResultValid(results, Terminal, results[Len(results)].accepted)

LEMMA FinalNext ==
    ASSUME FinalInv, [Next]_vars
    PROVE  FinalInv'
  <1>1. CASE TerminalizeRun /\ OptimResultValid(results, Terminal, Last(results).accepted)
    <2>1. PICK last : last = results[Len(results)] /\ last = Last(results)
      BY DEF Last
    <2>2. /\ final' = [status |-> last.status, accepted |-> last.accepted, seed |-> last.seedRetained]
          /\ pc' = "down" /\ results' = results /\ run' = run
      BY <1>1, <2>1 DEF TerminalizeRun
    <2>3. final'.status = last.status /\ final'.accepted = last.accepted /\ final'.seed = last.seedRetained
      BY <2>2
    <2>4. OptimResultValid(results', Terminal', last.accepted) /\ results' # <<>>
      BY <1>1, <2>1, <2>2 DEF OptimResultValid, Terminal
    <2> QED
      BY <2>1, <2>2, <2>3, <2>4 DEF FinalInv
  <1>2. CASE ~(TerminalizeRun /\ OptimResultValid(results, Terminal, Last(results).accepted))
    <2>1. final' = final
      BY <1>2 DEF Next, Step, Controller, RunStep, Invoke, Drive, Advance, TerminalizeRun, Checkpoint, BindResult, Park,
         ResolveIntent, FanInMerge, FanInResume, CoproInvoke, GepaBegin, RecordRequest, EvaluateReplayed,
         EvaluateRecord, EvaluateDeferred, EvaluateFresh, ProposeReplayed, ProposeFresh, SearchEnds, GepaUnbudgeted,
         Crash, Stopped, vars, durable
    <2>2. CASE final = None
      BY <2>1, <2>2 DEF FinalInv
    <2>3. CASE final # None
      <3>1. pc = "down"
        BY <2>3 DEF FinalInv
      <3>2. Stopped \/ UNCHANGED vars
        BY <2>3, <3>1 DEF Next, Step, Controller, RunStep, Invoke, Drive, Advance, TerminalizeRun, Checkpoint, BindResult,
           Park, ResolveIntent, FanInMerge, CoproInvoke, GepaBegin, RecordRequest, EvaluateReplayed,
           EvaluateRecord, EvaluateDeferred, Effect, ProposeReplayed, ProposeFresh, SearchEnds, GepaUnbudgeted, Crash
      <3>3. UNCHANGED <<final, pc, results, run>>
        BY <3>2 DEF Stopped, vars, durable
      <3> QED
        BY <3>3 DEF FinalInv, Terminal
    <2> QED
      BY <2>2, <2>3
  <1> QED
    BY <1>1, <1>2

\* What is measured of the texts, as one set
MeasuredAs(M) == \A t, y : y \in Scores(t) <=> \E m \in M : m.text = t /\ m.score = y

LEMMA CoveredIsAtLeast ==
    ASSUME NEW M, MeasuredAs(M), NEW text, NEW other, \A y \in M : y.text = other => Covers(text, M, y)
    PROVE  AtLeast(text, other)
  <1> SUFFICES ASSUME NEW y \in Scores(other) PROVE \E x \in Scores(text) : x >= y
    BY DEF AtLeast
  <1>1. PICK m \in M : m.text = other /\ m.score = y
    BY DEF MeasuredAs
  <1>2. PICK x \in M : x.text = text /\ x.score >= m.score
    BY <1>1 DEF Covers
  <1>3. x.score \in Scores(text)
    BY <1>2 DEF MeasuredAs
  <1> QED
    BY <1>1, <1>2, <1>3

\* Distinct texts are as many as their candidates.
LEMMA AsManyTexts ==
    ASSUME NEW accepted, NEW S, accepted \in Seq(S),
           \A m, n \in DOMAIN accepted : m # n => accepted[m].text # accepted[n].text
    PROVE  Cardinality({c.text : c \in ToSet(accepted)}) = Len(accepted)
  <1>1. Len(accepted) \in Nat /\ DOMAIN accepted = 1 .. Len(accepted)
    OBVIOUS
  <1>2. PICK N \in Nat : N = Len(accepted)
    BY <1>1
  <1>3. PICK chosen : chosen = {c.text : c \in ToSet(accepted)}
    OBVIOUS
  <1>4. chosen = {accepted[n].text : n \in 1 .. N}
    BY <1>1, <1>2, <1>3 DEF ToSet
  <1>5. PICK texts : texts = [n \in 1 .. N |-> accepted[n].text]
    OBVIOUS
  <1>6. \A n \in 1 .. N : texts[n] \in chosen
    BY <1>4, <1>5
  <1>7. texts \in [1 .. N -> chosen]
    BY <1>5, <1>6
  <1>8. \A m, n \in 1 .. N : texts[m] = texts[n] => m = n
    BY <1>1, <1>2, <1>5
  <1>9. \A t \in chosen : \E n \in 1 .. N : texts[n] = t
    BY <1>4, <1>5
  <1>10. texts \in Bijection(1 .. N, chosen)
    BY <1>7, <1>8, <1>9 DEF Bijection, Injection, IsInjective, Surjection
  <1>11. IsFiniteSet(1 .. N) /\ Cardinality(1 .. N) = N
    BY FS_Interval
  <1>12. ExistsBijection(1 .. N, chosen)
    BY <1>10 DEF ExistsBijection
  <1>13. Cardinality(chosen) = N
    BY <1>11, <1>12, FS_Bijection
  <1> QED
    BY <1>2, <1>3, <1>13

\* A choice of the best is what the result promises.
LEMMA BestIsWinner ==
    ASSUME FinalInv, NEW M, MeasuredAs(M),
           final # None /\ final.status = "complete" => Bests(M, final.seed, final.accepted)
    PROVE  WinnerIsBest
  <1> SUFFICES ASSUME final # None, final.status = "complete" PROVE WinnerIsBest
    BY DEF WinnerIsBest
  <1>1. Bests(M, final.seed, final.accepted)
    OBVIOUS
  <1>2. PICK accepted : accepted = final.accepted
    OBVIOUS
  <1>3. PICK chosen : chosen = {c.text : c \in ToSet(final.accepted)}
    OBVIOUS
  <1>4. CASE final.seed
    <2>1. \A t \in AllTexts : AtLeast(Seed, t)
      BY <1>1, <1>4, CoveredIsAtLeast DEF Bests
    <2> QED
      BY <1>4, <2>1 DEF WinnerIsBest
  <1>5. CASE ~final.seed
    <2>1. /\ \E S : accepted \in Seq(S)
          /\ \A m, n \in DOMAIN accepted : m # n => accepted[m].text # accepted[n].text
          /\ \A n \in DOMAIN accepted, y \in M :
                 y.text # Seed /\ (\A m \in DOMAIN accepted : accepted[m].text # y.text)
                     => Covers(accepted[n].text, M, y)
          /\ 1 \in DOMAIN accepted => \A y \in M : Covers(accepted[1].text, M, y)
      BY <1>1, <1>2, <1>5 DEF Bests
    <2>2. PICK S : accepted \in Seq(S)
      BY <2>1
    <2>3. Len(accepted) = run.topK
      <3>1. /\ final.accepted = results[Len(results)].accepted /\ final.seed = results[Len(results)].seedRetained
            /\ final.status = results[Len(results)].status
            /\ OptimResultValid(results, Terminal, results[Len(results)].accepted)
        BY DEF FinalInv
      <3>2. Len(accepted) = AcceptedCountFor(Terminal, "complete")
        BY <1>2, <1>5, <3>1 DEF OptimResultValid
      <3> QED
        BY <3>2 DEF AcceptedCountFor, Terminal, TerminalContract
    <2>4. Cardinality(chosen) = run.topK
      BY <1>2, <1>3, <2>1, <2>2, <2>3, AsManyTexts
    <2>5. \A t : t \in chosen <=> \E n \in DOMAIN accepted : accepted[n].text = t
      BY <1>2, <1>3 DEF ToSet
    <2>6. ASSUME NEW c \in chosen, NEW t \in AllTexts \ (chosen \cup {Seed}) PROVE AtLeast(c, t)
      <3>1. PICK n \in DOMAIN accepted : accepted[n].text = c
        BY <2>5
      <3>2. \A m \in DOMAIN accepted : accepted[m].text # t
        BY <2>5
      <3>3. \A y \in M : y.text = t => Covers(c, M, y)
        BY <2>1, <3>1, <3>2
      <3> QED
        BY <3>3, CoveredIsAtLeast
    <2>7. ASSUME accepted # <<>> PROVE AtLeast(accepted[1].text, Seed)
      <3>1. 1 \in DOMAIN accepted
        BY <2>2, <2>7
      <3> QED
        BY <2>1, <3>1, CoveredIsAtLeast
    <2> QED
      BY <1>2, <1>3, <1>5, <2>4, <2>6, <2>7 DEF WinnerIsBest
  <1> QED
    BY <1>4, <1>5

LEMMA CoproMeasured ==
    ASSUME run.key = "copro"
    PROVE  MeasuredAs(ChainMeasurements(results))
  <1> SUFFICES ASSUME NEW t, NEW y
               PROVE  y \in Scores(t) <=> \E m \in ChainMeasurements(results) : m.text = t /\ m.score = y
    BY DEF MeasuredAs
  <1>1. y \in Scores(t) <=> \E i \in DOMAIN results : \E x \in ToSet(results[i].resolutions) : x.cand.text = t /\ x.reward = y
    BY DEF Scores, Measured
  <1>2. y \in Scores(t) <=> \E i \in DOMAIN results : \E k \in DOMAIN results[i].resolutions :
            results[i].resolutions[k].cand.text = t /\ results[i].resolutions[k].reward = y
    BY <1>1 DEF ToSet
  <1>3. ASSUME y \in Scores(t) PROVE \E m \in ChainMeasurements(results) : m.text = t /\ m.score = y
    <2>1. PICK i \in DOMAIN results : \E k \in DOMAIN results[i].resolutions :
              results[i].resolutions[k].cand.text = t /\ results[i].resolutions[k].reward = y
      BY <1>2, <1>3
    <2>2. PICK k \in DOMAIN results[i].resolutions :
              results[i].resolutions[k].cand.text = t /\ results[i].resolutions[k].reward = y
      BY <2>1
    <2>3. PICK m : m = Measurement(results[i].resolutions[k].cand.text, results[i].resolutions[k].reward)
      OBVIOUS
    <2>4. m \in ChainMeasurements(results)
      BY <2>3 DEF ChainMeasurements
    <2>5. m.text = t /\ m.score = y
      BY <2>2, <2>3 DEF Measurement
    <2> QED
      BY <2>4, <2>5
  <1>4. ASSUME NEW m \in ChainMeasurements(results), m.text = t, m.score = y PROVE y \in Scores(t)
    <2>1. PICK i \in DOMAIN results : \E k \in DOMAIN results[i].resolutions :
              m = Measurement(results[i].resolutions[k].cand.text, results[i].resolutions[k].reward)
      BY DEF ChainMeasurements
    <2>2. PICK k \in DOMAIN results[i].resolutions :
              m = Measurement(results[i].resolutions[k].cand.text, results[i].resolutions[k].reward)
      BY <2>1
    <2>3. results[i].resolutions[k].cand.text = t /\ results[i].resolutions[k].reward = y
      BY <1>4, <2>2 DEF Measurement
    <2> QED
      BY <1>2, <2>3
  <1> QED
    BY <1>3, <1>4

LEMMA CoproWins ==
    ASSUME run.key = "copro", CoproInv, FinalInv
    PROVE  WinnerIsBest
  <1>1. final # None /\ final.status = "complete" => Bests(ChainMeasurements(results), final.seed, final.accepted)
    <2> SUFFICES ASSUME final # None, final.status = "complete"
                 PROVE  Bests(ChainMeasurements(results), final.seed, final.accepted)
      OBVIOUS
    <2>1. /\ results # <<>> /\ final.status = results[Len(results)].status
          /\ final.accepted = results[Len(results)].accepted
          /\ final.seed = results[Len(results)].seedRetained
      BY DEF FinalInv
    <2> QED
      BY <2>1 DEF CoproInv, CoproStore
  <1>2. MeasuredAs(ChainMeasurements(results))
    BY CoproMeasured
  <1> QED
    BY <1>1, <1>2, BestIsWinner

LEMMA CoproInit ==
    ASSUME Init
    PROVE  RunInv /\ FinalInv /\ CoproInv
  <1>1. RunInv
    BY OptimRunAssumption DEF Init, RunInv
  <1>2. FinalInv
    BY DEF Init, FinalInv
  <1>3. CoproStore
    <2>1. resolved = <<>> /\ results = <<>> /\ ckpt = None
      BY DEF Init
    <2>2. <<>> \in Seq({}) /\ DOMAIN <<>> = {}
      OBVIOUS
    <2> QED
      BY <2>1, <2>2, EmptyChain DEF CoproStore
  <1>4. CoproPhase
    BY DEF Init, CoproPhase
  <1> QED
    BY <1>1, <1>2, <1>3, <1>4 DEF CoproInv

-----------------------------------------------------------------------------
(* The scores of a GEPA run are numbers.                                   *)

\* The largest of some places is one of them.
LEMMA LargestPlace ==
    ASSUME NEW n \in Nat, NEW s \in SUBSET (1 .. n), s # {}
    PROVE  Max(s) \in s
  <1>1. PICK id : id = [k \in s |-> k]
    OBVIOUS
  <1>2. \A k \in s : id[k] \in Int
    BY <1>1
  <1>3. PICK k : Highest(s, id, k)
    BY <1>2, HighestExists
  <1>4. k \in s /\ \A j \in s : k >= j
    BY <1>1, <1>3 DEF Highest
  <1> QED
    BY <1>4 DEF Max

\* f[s] adds the values at the places s.
Adds(f, n, values) ==
    f = [s \in SUBSET (1 .. n) |-> IF s = {} THEN 0 ELSE f[s \ {Max(s)}] + values[Max(s)]]

LEMMA AddsExist ==
    ASSUME NEW n \in Nat, NEW values
    PROVE  \E f : Adds(f, n, values)
  <1> DEFINE S == 1 .. n
             Term(f, s) == IF s = {} THEN 0 ELSE f[s \ {Max(s)}] + values[Max(s)]
             UpTo(m) == {s \in SUBSET S : Cardinality(s) <= m}
             Summed(f, m) == f = [s \in SUBSET S |-> f[s]] /\ \A s \in UpTo(m) : f[s] = Term(f, s)
             N == {m \in Nat : \E f : Summed(f, m)}
  <1>0. IsFiniteSet(S)
    BY FS_Interval
  <1>1. \A s \in SUBSET S : IsFiniteSet(s) /\ Cardinality(s) \in Nat /\ (Cardinality(s) = 0 <=> s = {})
    BY <1>0, FS_Subset, FS_CardinalityType, FS_EmptySet
  <1>2. \A s \in SUBSET S : s # {} =>
            s \ {Max(s)} \in SUBSET S /\ Cardinality(s \ {Max(s)}) = Cardinality(s) - 1
    <2> SUFFICES ASSUME NEW s \in SUBSET S, s # {}
                 PROVE  s \ {Max(s)} \in SUBSET S /\ Cardinality(s \ {Max(s)}) = Cardinality(s) - 1
      OBVIOUS
    <2>1. Max(s) \in s
      BY LargestPlace
    <2> QED
      BY <1>1, <2>1, FS_RemoveElement
  <1>3. 0 \in N
    <2>1. PICK f : f = [s \in SUBSET S |-> 0]
      OBVIOUS
    <2>2. ASSUME NEW s \in UpTo(0) PROVE f[s] = Term(f, s)
      BY <1>1, <2>1
    <2> QED
      BY <2>1, <2>2
  <1>4. \A m \in N : m + 1 \in N
    <2> SUFFICES ASSUME NEW m \in Nat, \E f : Summed(f, m) PROVE \E g : Summed(g, m + 1)
      <3>1. \A m \in Nat : m + 1 \in Nat
        OBVIOUS
      <3> HIDE DEF Summed
      <3> QED
        BY <3>1
    <2>1. PICK f : Summed(f, m)
      OBVIOUS
    <2>2. PICK g : g = [s \in SUBSET S |-> IF Cardinality(s) <= m THEN f[s] ELSE Term(f, s)]
      OBVIOUS
    <2>3. ASSUME NEW s \in UpTo(m + 1) PROVE g[s] = Term(g, s)
      <3>1. g[s] = Term(f, s)
        BY <2>1, <2>2, <2>3
      <3>2. CASE s = {}
        BY <3>1, <3>2
      <3>3. CASE s # {}
        <4>1. s \ {Max(s)} \in SUBSET S /\ Cardinality(s \ {Max(s)}) <= m
          BY <1>1, <1>2, <2>3, <3>3
        <4>2. g[s \ {Max(s)}] = f[s \ {Max(s)}]
          BY <2>2, <4>1
        <4> QED
          BY <3>1, <3>3, <4>2
      <3> QED
        BY <3>2, <3>3
    <2> QED
      BY <2>2, <2>3
  <1>5. N = Nat
    <2> HIDE DEF N
    <2> QED
      BY <1>3, <1>4, NatSetInduction DEF N
  <1>6. Cardinality(S) \in N
    BY <1>1, <1>5
  <1>7. PICK f : Summed(f, Cardinality(S))
    BY <1>6
  <1>8. \A s \in SUBSET S : Cardinality(s) <= Cardinality(S)
    BY <1>0, FS_Subset
  <1> QED
    BY <1>7, <1>8 DEF Adds

\* Numbers add up to a number.
LEMMA SumIsNumber ==
    ASSUME NEW n \in Nat, NEW values, \A k \in 1 .. n : values[k] \in Int, NEW f, Adds(f, n, values)
    PROVE  f[1 .. n] \in Int
  <1>s. PICK S : S = 1 .. n
    OBVIOUS
  <1> DEFINE N == {m \in Nat : \A s \in SUBSET S : Cardinality(s) <= m => f[s] \in Int}
  <1>0. IsFiniteSet(S)
    BY <1>s, FS_Interval
  <1>1. \A s \in SUBSET S : IsFiniteSet(s) /\ Cardinality(s) \in Nat /\ (Cardinality(s) = 0 <=> s = {})
    BY <1>0, FS_Subset, FS_CardinalityType, FS_EmptySet
  <1>2. f[{}] \in Int
    BY DEF Adds
  <1>3. 0 \in N
    BY <1>1, <1>2
  <1>4. \A m \in N : m + 1 \in N
    <2> SUFFICES ASSUME NEW m \in N, NEW s \in SUBSET S, Cardinality(s) <= m + 1
                 PROVE  f[s] \in Int
      OBVIOUS
    <2>1. CASE s = {}
      BY <1>2, <2>1
    <2>2. CASE s # {}
      <3>1. Max(s) \in s
        BY <1>s, <2>2, LargestPlace
      <3>2. s \ {Max(s)} \in SUBSET S /\ Cardinality(s \ {Max(s)}) <= m
        BY <1>1, <3>1, FS_RemoveElement
      <3>3. f[s \ {Max(s)}] \in Int /\ values[Max(s)] \in Int
        BY <1>s, <3>1, <3>2
      <3>4. f[s] = f[s \ {Max(s)}] + values[Max(s)]
        BY <1>s, <2>2 DEF Adds
      <3> QED
        BY <3>3, <3>4
    <2> QED
      BY <2>1, <2>2
  <1>5. N = Nat
    <2> HIDE DEF N
    <2> QED
      BY <1>3, <1>4, NatSetInduction DEF N
  <1>6. Cardinality(S) \in N /\ Cardinality(S) <= Cardinality(S)
    BY <1>1, <1>5
  <1> QED
    BY <1>s, <1>6

\* The sum of a sequence of numbers
LEMMA TotalIsNumber ==
    ASSUME NEW n \in Nat, NEW s, DOMAIN s = 1 .. n, \A k \in 1 .. n : s[k] \in Int
    PROVE  FoldLeft(+, 0, s) \in Int
  <1>1. PICK f : f = CHOOSE g : Adds(g, n, s)
    OBVIOUS
  <1>2. Adds(f, n, s)
    BY <1>1, AddsExist
  <1>3. FoldLeft(+, 0, s) = f[1 .. n]
    BY <1>1 DEF FoldLeft, MapThenFoldSet, Adds
  <1> QED
    BY <1>2, <1>3, SumIsNumber

RowScore(row) == IF row.failed THEN 0 ELSE row.score

\* The score of a batch
LEMMA ScoreIsNumber ==
    ASSUME NEW batch, NEW n \in Nat, DOMAIN batch = 1 .. n, NEW rows,
           \A k \in 1 .. n : RowScore(Expanded(batch, rows)[k]) \in Int
    PROVE  BatchScore(batch, rows) \in Int
  <1>1. PICK all : all = Expanded(batch, rows)
    OBVIOUS
  <1>2. DOMAIN all = 1 .. n
    BY <1>1 DEF Expanded
  <1>3. PICK values : values = [k \in 1 .. n |-> RowScore(all[k])]
    OBVIOUS
  <1> DEFINE Sums(g) == g = [s \in SUBSET (1 .. n) |->
                            IF s = {} THEN 0
                            ELSE g[s \ {Max(s)}] + (IF all[Max(s)].failed THEN 0 ELSE all[Max(s)].score)]
  <1>4. ASSUME NEW g PROVE Sums(g) <=> Adds(g, n, values)
    <2>1. \A s \in SUBSET (1 .. n) : s # {} =>
              values[Max(s)] = IF all[Max(s)].failed THEN 0 ELSE all[Max(s)].score
      <3> SUFFICES ASSUME NEW s \in SUBSET (1 .. n), s # {}
                   PROVE  values[Max(s)] = IF all[Max(s)].failed THEN 0 ELSE all[Max(s)].score
        OBVIOUS
      <3>1. Max(s) \in 1 .. n
        BY LargestPlace
      <3> QED
        BY <1>3, <3>1 DEF RowScore
    <2>2. \A s \in SUBSET (1 .. n) :
              (IF s = {} THEN 0 ELSE g[s \ {Max(s)}] + values[Max(s)])
                = (IF s = {} THEN 0 ELSE g[s \ {Max(s)}] + (IF all[Max(s)].failed THEN 0 ELSE all[Max(s)].score))
      BY <2>1
    <2> QED
      BY <2>2 DEF Adds
  <1>5. PICK f : f = CHOOSE g : Sums(g)
    OBVIOUS
  <1>6. \E g : Sums(g)
    <2> HIDE DEF Sums
    <2> QED
      BY <1>4, AddsExist
  <1>7. Sums(f)
    <2> HIDE DEF Sums
    <2> QED
      BY <1>5, <1>6
  <1>8. Adds(f, n, values)
    <2> HIDE DEF Sums
    <2> QED
      BY <1>4, <1>7
  <1>9. BatchScore(batch, rows) = f[1 .. n]
    BY <1>1, <1>2, <1>5 DEF BatchScore, FoldLeft, MapThenFoldSet
  <1>10. \A k \in 1 .. n : values[k] \in Int
    BY <1>1, <1>3
  <1> QED
    BY <1>8, <1>9, <1>10, SumIsNumber

\* The mean of what completed
LEMMA RowIsNumber ==
    ASSUME NEW repeats \in Seq(Int \cup {None})
    PROVE  RowScore(ProjectRow(repeats)) \in Int
  <1>1. PICK places : places = {i \in DOMAIN repeats : repeats[i] # None}
    OBVIOUS
  <1>2. Len(repeats) \in Nat /\ DOMAIN repeats = 1 .. Len(repeats) /\ \A i \in DOMAIN repeats : repeats[i] \in Int \cup {None}
    OBVIOUS
  <1>3. places \in SUBSET (1 .. Len(repeats)) /\ places \in SUBSET Nat
    BY <1>1, <1>2
  <1>4. IsFiniteSet(places)
    <2>1. IsFiniteSet(1 .. Len(repeats))
      BY <1>2, FS_Interval
    <2> QED
      BY <1>3, <2>1, FS_Subset
  <1>5. PICK n, at : Picks(repeats, places, n, at)
    BY <1>3, <1>4, PickedInOrder
  <1>6. PICK present : present = Completed(repeats)
    OBVIOUS
  <1>7. n \in Nat /\ at \in [1 .. n -> places] /\ present = [k \in 1 .. n |-> repeats[at[k]]]
    BY <1>1, <1>5, <1>6 DEF Picks, Completed
  <1>8. \A k \in 1 .. n : present[k] \in Int
    BY <1>1, <1>2, <1>7
  <1>9. DOMAIN present = 1 .. n /\ present \in Seq(Int) /\ Len(present) = n
    BY <1>7, <1>8
  <1>10. CASE present = <<>>
    <2>1. ProjectRow(repeats) = [failed |-> TRUE, score |-> 0]
      BY <1>6, <1>10 DEF ProjectRow
    <2> QED
      BY <2>1 DEF RowScore
  <1>11. CASE present # <<>>
    <2>1. PICK total \in Int : total = FoldLeft(+, 0, present)
      BY <1>7, <1>8, <1>9, TotalIsNumber
    <2>2. n # 0
      BY <1>9, <1>11
    <2>3. total \div n \in Int
      BY <1>7, <2>2
    <2>4. ProjectRow(repeats) = [failed |-> FALSE, score |-> total \div n]
      BY <1>6, <1>9, <1>11, <2>1 DEF ProjectRow
    <2> QED
      BY <2>3, <2>4 DEF RowScore
  <1> QED
    BY <1>10, <1>11

\* Every position of a batch has an instance that stands for it.
LEMMA InstanceOf ==
    ASSUME NEW batch, NEW n \in Nat, DOMAIN batch = 1 .. n, NEW k \in 1 .. n
    PROVE  \E i \in DOMAIN UniqueBatch(batch) : UniqueBatch(batch)[i] = batch[k]
  <1>1. PICK places : places = {i \in DOMAIN batch : \A j \in 1 .. i - 1 : batch[j] # batch[i]}
    OBVIOUS
  <1>2. places \in SUBSET (1 .. n) /\ places \in SUBSET Nat
    BY <1>1
  <1>3. IsFiniteSet(places)
    <2>1. IsFiniteSet(1 .. n)
      BY FS_Interval
    <2> QED
      BY <1>2, <2>1, FS_Subset
  <1>4. PICK m, at : Picks(batch, places, m, at)
    BY <1>2, <1>3, PickedInOrder
  <1>5. PICK same : same = {j \in 1 .. n : batch[j] = batch[k]}
    OBVIOUS
  <1>6. same \in SUBSET Nat /\ k \in same
    BY <1>5
  <1>7. PICK i \in same : \A j \in same : i <= j
    BY <1>6, LeastExists
  <1>8. i \in places
    BY <1>1, <1>5, <1>7
  <1>9. PICK l \in 1 .. m : at[l] = i
    BY <1>4, <1>8 DEF Picks
  <1>10. UniqueBatch(batch) = [j \in 1 .. m |-> batch[at[j]]]
    BY <1>1, <1>4 DEF UniqueBatch, Picks
  <1>11. l \in DOMAIN UniqueBatch(batch) /\ UniqueBatch(batch)[l] = batch[k]
    BY <1>5, <1>9, <1>10
  <1> QED
    BY <1>11

\* The score of a candidate on the validation set
LEMMA ValueIsNumber ==
    ASSUME NEW request, request.batch = Valset, NEW step, NEW resolution \in Resolutions(request, step)
    PROVE  BatchScore(Valset, EvaluationResult(request, resolution).rows) \in Int
  <1>1. PICK n \in Nat : DOMAIN Valset = 1 .. n
    BY GepaAssumption
  <1>2. PICK unique : unique = UniqueBatch(Valset)
    OBVIOUS
  <1>3. PICK rows : rows = EvaluationResult(request, resolution).rows
    OBVIOUS
  <1>4. \A i \in DOMAIN unique : RowScore(rows[i]) \in Int
    <2>1. CASE \E rs \in [DOMAIN unique -> Repeats] :
                   resolution = [outcome |-> "completed", step |-> step, repeats |-> rs]
      <3>1. PICK rs \in [DOMAIN unique -> Repeats] :
                   resolution = [outcome |-> "completed", step |-> step, repeats |-> rs]
        BY <2>1
      <3>2. resolution.outcome = "completed" /\ resolution.repeats = rs
        BY <3>1
      <3>3. EvaluationResult(request, resolution) = CompletedResult(request, resolution)
        BY <3>2 DEF EvaluationResult
      <3>4. rows = [i \in DOMAIN rs |-> ProjectRow(rs[i])]
        BY <1>3, <3>2, <3>3 DEF CompletedResult
      <3>5. \A i \in DOMAIN unique : rs[i] \in Seq(Int \cup {None})
        BY OptimRunAssumption
      <3>6. \A i \in DOMAIN unique : RowScore(ProjectRow(rs[i])) \in Int
        BY <3>5, RowIsNumber
      <3> QED
        BY <3>4, <3>6
    <2>2. CASE resolution = [outcome |-> "failed", step |-> step, repeats |-> <<>>]
      <3>1. resolution.outcome = "failed"
        BY <2>2
      <3>2. EvaluationResult(request, resolution) = FailedResult(request, resolution)
        BY <3>1 DEF EvaluationResult
      <3>3. rows = [i \in DOMAIN unique |-> [failed |-> TRUE, score |-> 0]]
        BY <1>2, <1>3, <3>2 DEF FailedResult
      <3>4. \A i \in DOMAIN unique : rows[i].failed = TRUE
        BY <3>3
      <3> QED
        BY <3>4 DEF RowScore
    <2> QED
      BY <1>2, <2>1, <2>2 DEF Resolutions
  <1>5. ASSUME NEW k \in 1 .. n PROVE RowScore(Expanded(Valset, rows)[k]) \in Int
    <2>1. \E i \in DOMAIN unique : unique[i] = Valset[k]
      BY <1>1, <1>2, InstanceOf
    <2>2. PICK i : i = CHOOSE j \in DOMAIN unique : unique[j] = Valset[k]
      OBVIOUS
    <2>3. i \in DOMAIN unique
      BY <2>1, <2>2
    <2>4. Expanded(Valset, rows)[k] = rows[i]
      BY <1>1, <1>2, <2>2 DEF Expanded
    <2> QED
      BY <1>4, <2>3, <2>4
  <1>6. BatchScore(Valset, rows) \in Int
    BY <1>1, <1>5, ScoreIsNumber
  <1> QED
    BY <1>3, <1>6

-----------------------------------------------------------------------------
(* The pool of a GEPA search.                                              *)

\* An evaluation on the validation set, and what it measured
IsValued(e) == e.request.kind = "evaluate" /\ e.request.batch = Valset
Valuation(e) == Measurement(e.request.text, BatchScore(Valset, e.result[1].rows))

\* What was measured by the first n effects
ValuesTo(store, n) == {Valuation(store[k]) : k \in {j \in 1 .. n : IsValued(store[j])}}

\* The pool of a search has what the effects behind it measured, no more and no less.
PoolOf(s, store) ==
    /\ \E S : s.pool \in Seq(S)
    /\ \A m : m \in ValuesTo(store, s.ordinal) <=> \E i \in DOMAIN s.pool : s.pool[i] = m
    /\ \A m \in ValuesTo(store, s.ordinal) : m.score \in Int
    /\ s.at # "seed" => s.pool # <<>>

LEMMA IteratesPool ==
    ASSUME NEW at, NEW limit, NEW consumed, NEW ordinal, NEW pool, NEW child, NEW before, NEW attempt, NEW skipped
    PROVE  /\ NextIteration(State(at, limit, consumed, ordinal, pool, child, before, attempt, skipped)).pool = pool
           /\ NextIteration(State(at, limit, consumed, ordinal, pool, child, before, attempt, skipped)).at # "seed"
  <1>1. PICK s : s = State(at, limit, consumed, ordinal, pool, child, before, attempt, skipped)
    OBVIOUS
  <1>2. PICK next \in {"stop", "parent"} : next = IF s.consumed >= s.limit THEN "stop" ELSE "parent"
    OBVIOUS
  <1>3. NextIteration(s) = [s EXCEPT !.at = next, !.attempt = 0, !.child = None]
    BY <1>2 DEF NextIteration
  <1>4. NextIteration(s) = State(next, limit, consumed, ordinal, pool, None, before, 0, skipped)
    BY <1>1, <1>3 DEF State
  <1>5. NextIteration(s).pool = pool /\ NextIteration(s).at = next
    BY <1>4 DEF State
  <1> QED
    BY <1>1, <1>2, <1>5

\* What an evaluation adds to the pool
Entered(request, result) == [text |-> request.text, score |-> BatchScore(request.batch, result.rows)]

\* Only a valuation changes the pool.
LEMMA EvaluatedPool ==
    ASSUME NEW s, SearchShape(s), s.at # "stop", NEW request, NEW result
    PROVE  /\ s.at \in {"parent", "child"} => Evaluated(s, request, result).pool = s.pool
           /\ s.at \notin {"parent", "child"} =>
                  Evaluated(s, request, result).pool = Append(s.pool, Entered(request, result))
           /\ Evaluated(s, request, result).at # "seed"
  <1>1. PICK at \in {"seed", "parent", "reflect", "child", "value"},
             limit \in Nat, consumed \in Nat, ordinal \in Nat :
             \E pool, child, before, attempt, skipped :
               /\ s = State(at, limit, consumed, ordinal, pool, child, before, attempt, skipped)
               /\ s.at = at
    BY Parts
  <1>2. PICK pool, child, before, attempt, skipped :
               /\ s = State(at, limit, consumed, ordinal, pool, child, before, attempt, skipped)
               /\ s.at = at
    BY <1>1
  <1>3. s.pool = pool /\ s.before = before
    BY <1>2 DEF State
  <1>4. PICK score : score = BatchScore(request.batch, result.rows)
    OBVIOUS
  <1>5. PICK n, c : n = ordinal + 1 /\ c = consumed + Len(request.batch)
    OBVIOUS
  <1>6. PICK s1 : s1 = [s EXCEPT !.ordinal = @ + 1, !.consumed = @ + Len(request.batch)]
    OBVIOUS
  <1>7. s1 = State(at, limit, c, n, pool, child, before, attempt, skipped)
    BY <1>2, <1>5, <1>6 DEF State
  <1>8. PICK v : v = Evaluated(s, request, result)
    OBVIOUS
  <1>9. CASE at = "parent"
    <2>1. v = [s1 EXCEPT !.at = "reflect", !.before = score]
      BY <1>2, <1>4, <1>6, <1>8, <1>9 DEF Evaluated
    <2>2. v = State("reflect", limit, c, n, pool, child, score, attempt, skipped)
      BY <1>7, <2>1 DEF State
    <2>3. v.pool = pool /\ v.at = "reflect"
      BY <2>2 DEF State
    <2> QED
      BY <1>2, <1>3, <1>8, <1>9, <2>3
  <1>10. CASE at = "child" /\ score > before
    <2>1. v = [s1 EXCEPT !.at = "value"]
      BY <1>2, <1>3, <1>4, <1>6, <1>8, <1>10 DEF Evaluated
    <2>2. v = State("value", limit, c, n, pool, child, before, attempt, skipped)
      BY <1>7, <2>1 DEF State
    <2>3. v.pool = pool /\ v.at = "value"
      BY <2>2 DEF State
    <2> QED
      BY <1>2, <1>3, <1>8, <1>10, <2>3
  <1>11. CASE at = "child" /\ ~(score > before)
    <2>1. v = NextIteration(s1)
      BY <1>2, <1>3, <1>4, <1>6, <1>8, <1>11 DEF Evaluated
    <2>2. v.pool = pool /\ v.at # "seed"
      BY <1>7, <2>1, IteratesPool
    <2> QED
      BY <1>2, <1>3, <1>8, <1>11, <2>2
  <1>12. CASE at \notin {"parent", "child"}
    <2>1. PICK p : p = Append(pool, [text |-> request.text, score |-> score])
      OBVIOUS
    <2>2. PICK s2 : s2 = [s1 EXCEPT !.pool = Append(@, [text |-> request.text, score |-> score])]
      OBVIOUS
    <2>3. s2 = State(at, limit, c, n, p, child, before, attempt, skipped)
      BY <1>7, <2>1, <2>2 DEF State
    <2>4. v = NextIteration(s2)
      BY <1>2, <1>4, <1>6, <1>8, <1>12, <2>2 DEF Evaluated
    <2>5. v.pool = p /\ v.at # "seed"
      BY <2>3, <2>4, IteratesPool
    <2> QED
      BY <1>2, <1>3, <1>4, <1>8, <1>12, <2>1, <2>5 DEF Entered
  <1> QED
    BY <1>1, <1>9, <1>10, <1>11, <1>12

LEMMA ReflectedPool ==
    ASSUME NEW s, SearchShape(s), s.at = "reflect", NEW result
    PROVE  Reflected(s, result).pool = s.pool /\ Reflected(s, result).at # "seed"
  <1>1. PICK at \in {"seed", "parent", "reflect", "child", "value"},
             limit \in Nat, consumed \in Nat, ordinal \in Nat :
             \E pool, child, before, attempt, skipped :
               /\ s = State(at, limit, consumed, ordinal, pool, child, before, attempt, skipped)
               /\ s.at = at
    BY Parts
  <1>2. PICK pool, child, before, attempt, skipped :
               /\ s = State(at, limit, consumed, ordinal, pool, child, before, attempt, skipped)
               /\ s.at = at
    BY <1>1
  <1>3. s.pool = pool /\ at = "reflect"
    BY <1>2 DEF State
  <1>4. PICK n : n = ordinal + 1
    OBVIOUS
  <1>5. PICK s1 : s1 = [s EXCEPT !.ordinal = @ + 1]
    OBVIOUS
  <1>6. s1 = State(at, limit, consumed, n, pool, child, before, attempt, skipped)
    BY <1>2, <1>4, <1>5 DEF State
  <1>7. PICK note : note = skipped \cup {<<s.ordinal, s.attempt>>}
    OBVIOUS
  <1>8. PICK s2 : s2 = [s1 EXCEPT !.skipped = @ \cup {<<s.ordinal, s.attempt>>}]
    OBVIOUS
  <1>9. s2 = State(at, limit, consumed, n, pool, child, before, attempt, note)
    BY <1>6, <1>7, <1>8 DEF State
  <1>10. PICK v : v = Reflected(s, result)
    OBVIOUS
  <1>11. CASE ~result.rejected
    <2>1. PICK text : text = result.text
      OBVIOUS
    <2>2. v = [s1 EXCEPT !.at = "child", !.child = text]
      BY <1>5, <1>10, <1>11, <2>1 DEF Reflected
    <2>3. v = State("child", limit, consumed, n, pool, text, before, attempt, skipped)
      BY <1>6, <2>2 DEF State
    <2>4. v.pool = pool /\ v.at = "child"
      BY <2>3 DEF State
    <2> QED
      BY <1>3, <1>10, <2>4
  <1>12. CASE result.rejected /\ s.attempt + 1 < MaxAttempts
    <2>1. PICK k : k = attempt + 1
      OBVIOUS
    <2>2. v = [s2 EXCEPT !.attempt = @ + 1]
      BY <1>5, <1>8, <1>10, <1>12 DEF Reflected
    <2>3. v = State(at, limit, consumed, n, pool, child, before, k, note)
      BY <1>9, <2>1, <2>2 DEF State
    <2>4. v.pool = pool /\ v.at = at
      BY <2>3 DEF State
    <2> QED
      BY <1>3, <1>10, <2>4
  <1>13. CASE result.rejected /\ ~(s.attempt + 1 < MaxAttempts)
    <2>1. v = NextIteration(s2)
      BY <1>5, <1>8, <1>10, <1>13 DEF Reflected
    <2>2. v.pool = pool /\ v.at # "seed"
      BY <1>9, <2>1, IteratesPool
    <2> QED
      BY <1>3, <1>10, <2>2
  <1> QED
    BY <1>11, <1>12, <1>13

\* What a search asks for where
LEMMA Asked ==
    ASSUME NEW s, SearchShape(s), s.at # "stop"
    PROVE  /\ s.at \in {"seed", "value"} => NextEffect(s).kind = "evaluate" /\ NextEffect(s).batch = Valset
           /\ s.at \in {"parent", "child"} => NextEffect(s).kind = "evaluate" /\ NextEffect(s).batch = Minibatch
           /\ s.at \notin {"seed", "value", "parent", "child"} => s.at = "reflect" /\ NextEffect(s).kind = "propose"
           /\ s.ordinal \in Nat
  <1>1. PICK at \in {"seed", "parent", "reflect", "child", "value"},
             limit \in Nat, consumed \in Nat, ordinal \in Nat :
             \E pool, child, before, attempt, skipped :
               /\ s = State(at, limit, consumed, ordinal, pool, child, before, attempt, skipped)
               /\ s.at = at /\ s.ordinal = ordinal
    BY Parts
  <1>2. s.at = at /\ s.ordinal = ordinal
    BY <1>1
  <1>3. PICK parent : parent = s.pool[Best(s.pool)].text
    OBVIOUS
  <1>4. CASE at = "seed"
    <2>1. NextEffect(s) = [kind |-> "evaluate", ordinal |-> s.ordinal, text |-> Seed, batch |-> Valset, attempt |-> 0]
      BY <1>2, <1>4 DEF NextEffect
    <2> QED
      BY <1>1, <1>2, <1>4, <2>1
  <1>5. CASE at = "parent"
    <2>1. NextEffect(s) = [kind |-> "evaluate", ordinal |-> s.ordinal, text |-> parent, batch |-> Minibatch, attempt |-> 0]
      BY <1>2, <1>3, <1>5 DEF NextEffect
    <2> QED
      BY <1>1, <1>2, <1>5, <2>1
  <1>6. CASE at = "reflect"
    <2>1. NextEffect(s) = [kind |-> "propose", ordinal |-> s.ordinal, text |-> parent, batch |-> <<>>, attempt |-> s.attempt]
      BY <1>2, <1>3, <1>6 DEF NextEffect
    <2> QED
      BY <1>1, <1>2, <1>6, <2>1
  <1>7. CASE at = "child"
    <2>1. NextEffect(s) = [kind |-> "evaluate", ordinal |-> s.ordinal, text |-> s.child, batch |-> Minibatch, attempt |-> 0]
      BY <1>2, <1>7 DEF NextEffect
    <2> QED
      BY <1>1, <1>2, <1>7, <2>1
  <1>8. CASE at = "value"
    <2>1. NextEffect(s) = [kind |-> "evaluate", ordinal |-> s.ordinal, text |-> s.child, batch |-> Valset, attempt |-> 0]
      BY <1>2, <1>8 DEF NextEffect
    <2> QED
      BY <1>1, <1>2, <1>8, <2>1
  <1> QED
    BY <1>1, <1>4, <1>5, <1>6, <1>7, <1>8

\* An answer leaves the pool with what was measured.
LEMMA PoolGrows ==
    ASSUME Minibatch # Valset, NEW s, SearchShape(s), s.at # "stop", NEW store, PoolOf(s, store),
           NEW after, \A k \in 1 .. s.ordinal : /\ after[k].request = store[k].request
                                                /\ after[k].result = store[k].result,
           NEW e, e = after[s.ordinal + 1], e.request = NextEffect(s),
           IsValued(e) => Valuation(e).score \in Int,
           NEW v, v.ordinal = s.ordinal + 1,
           e.request.kind = "evaluate" => v = Evaluated(s, e.request, e.result[1]),
           e.request.kind # "evaluate" => v = Reflected(s, e.result[1])
    PROVE  PoolOf(v, after)
  <1>1. PICK n \in Nat : n = s.ordinal
    BY Asked
  <1>2. \A k \in 1 .. n : (IsValued(after[k]) <=> IsValued(store[k])) /\ Valuation(after[k]) = Valuation(store[k])
    BY <1>1 DEF IsValued, Valuation
  <1>3. ValuesTo(after, n) = ValuesTo(store, n)
    BY <1>2 DEF ValuesTo
  <1>4. 1 .. n + 1 = (1 .. n) \cup {n + 1}
    BY <1>1
  <1>5. PICK S : s.pool \in Seq(S)
    BY DEF PoolOf
  <1>6. CASE s.at \in {"seed", "value"}
    <2>1. IsValued(e) /\ v = Evaluated(s, e.request, e.result[1])
      BY <1>6, Asked DEF IsValued
    <2>2. PICK m : m = Valuation(e)
      OBVIOUS
    <2>3. m = Entered(e.request, e.result[1])
      BY <2>1, <2>2 DEF Valuation, Measurement, IsValued, Entered
    <2>4. v.pool = Append(s.pool, m) /\ v.at # "seed"
      BY <1>6, <2>1, <2>3, EvaluatedPool
    <2>5. s.pool \in Seq(S \cup {m}) /\ m \in S \cup {m}
      BY <1>5
    <2>6. PICK l \in Nat : l = Len(s.pool) /\ DOMAIN s.pool = 1 .. l
      BY <1>5
    <2>7. /\ v.pool \in Seq(S \cup {m}) /\ DOMAIN v.pool = 1 .. l + 1 /\ v.pool[l + 1] = m
          /\ \A k \in 1 .. l : v.pool[k] = s.pool[k]
      BY <2>4, <2>5, <2>6, AppendProperties, LenProperties
    <2>8. ValuesTo(after, n + 1) = ValuesTo(store, n) \cup {m}
      <3>1. {j \in 1 .. n + 1 : IsValued(after[j])} = {j \in 1 .. n : IsValued(after[j])} \cup {n + 1}
        BY <1>1, <1>4, <2>1
      <3> QED
        BY <1>1, <1>3, <2>2, <3>1 DEF ValuesTo
    <2>9. \A x : x \in ValuesTo(after, n + 1) <=> \E i \in DOMAIN v.pool : v.pool[i] = x
      <3>1. \A x : (\E i \in 1 .. l + 1 : v.pool[i] = x) <=> x = m \/ \E i \in 1 .. l : s.pool[i] = x
        <4>1. 1 .. l + 1 = (1 .. l) \cup {l + 1}
          OBVIOUS
        <4> QED
          BY <2>7, <4>1
      <3> QED
        BY <1>1, <2>6, <2>7, <2>8, <3>1 DEF PoolOf
    <2>10. \A x \in ValuesTo(after, n + 1) : x.score \in Int
      BY <1>1, <2>1, <2>2, <2>8 DEF PoolOf
    <2>11. v.pool # <<>>
      BY <2>7
    <2> QED
      BY <1>1, <2>7, <2>9, <2>10, <2>11 DEF PoolOf
  <1>7. CASE s.at \notin {"seed", "value"}
    <2>1. ~IsValued(e)
      BY <1>7, Asked DEF IsValued
    <2>2. v.pool = s.pool /\ v.at # "seed" /\ s.pool # <<>>
      <3>1. CASE s.at \in {"parent", "child"}
        <4>1. v = Evaluated(s, e.request, e.result[1])
          BY <3>1, Asked
        <4>2. v.pool = s.pool /\ v.at # "seed"
          BY <3>1, <4>1, EvaluatedPool
        <4> QED
          BY <1>7, <4>2 DEF PoolOf
      <3>2. CASE s.at \notin {"parent", "child"}
        <4>1. s.at = "reflect" /\ v = Reflected(s, e.result[1])
          BY <1>7, <3>2, Asked
        <4> QED
          BY <4>1, ReflectedPool DEF PoolOf
      <3> QED
        BY <3>1, <3>2
    <2>3. ValuesTo(after, n + 1) = ValuesTo(store, n)
      <3>1. {j \in 1 .. n + 1 : IsValued(after[j])} = {j \in 1 .. n : IsValued(after[j])}
        BY <1>1, <1>4, <2>1
      <3> QED
        BY <1>3, <3>1 DEF ValuesTo
    <2> QED
      BY <1>1, <1>5, <2>2, <2>3 DEF PoolOf
  <1> QED
    BY <1>6, <1>7

\* The best of a pool is at least as good as the others.
LEMMA BestOfPool ==
    ASSUME NEW pool, NEW S, pool \in Seq(S), pool # <<>>, \A i \in DOMAIN pool : pool[i].score \in Int
    PROVE  Best(pool) \in DOMAIN pool /\ \A j \in DOMAIN pool : pool[Best(pool)].score >= pool[j].score
  <1>1. Len(pool) \in Nat /\ DOMAIN pool = 1 .. Len(pool) /\ DOMAIN pool # {}
    <2>1. Len(pool) \in Nat /\ DOMAIN pool = 1 .. Len(pool)
      OBVIOUS
    <2>2. Len(pool) # 0
      BY EmptySeq
    <2> QED
      BY <2>1, <2>2
  <1>2. PICK score : score = [i \in DOMAIN pool |-> pool[i].score]
    OBVIOUS
  <1>3. \A i \in DOMAIN pool : score[i] \in Int
    BY <1>2
  <1>4. PICK k : Highest(DOMAIN pool, score, k)
    BY <1>1, <1>3, HighestExists
  <1>5. k \in DOMAIN pool /\ \A j \in DOMAIN pool :
            pool[j].score < pool[k].score \/ (pool[j].score = pool[k].score /\ k <= j)
    BY <1>2, <1>4 DEF Highest
  <1>6. PICK b : b = Best(pool)
    OBVIOUS
  <1>7. b \in DOMAIN pool /\ \A j \in DOMAIN pool :
            pool[j].score < pool[b].score \/ (pool[j].score = pool[b].score /\ b <= j)
    BY <1>5, <1>6 DEF Best
  <1> QED
    BY <1>6, <1>7

\* The choice an output of a search makes
Chooses(o, text) ==
    IF text = Seed THEN o.seedRetained = TRUE
    ELSE o.seedRetained = FALSE /\ \E winner : winner.text = text /\ o.accepted = <<winner>>

\* A search that completes the run chooses the best of its pool.
LEMMA SearchedChoice ==
    ASSUME NEW r, NEW s, s.consumed \in Nat, NEW chain, NEW seen, NEW calls,
           Spent(SearchedOutput(r, s, MaxMetricCalls), chain, r, seen, calls).status = "complete"
    PROVE  Chooses(Spent(SearchedOutput(r, s, MaxMetricCalls), chain, r, seen, calls), s.pool[Best(s.pool)].text)
  <1>1. PICK state : state = StateDelta(r, UpdatedCheckpoint(s.consumed, MaxMetricCalls), s.skipped)
    OBVIOUS
  <1>2. PICK delta : delta = BudgetDelta(UpdatedCheckpoint(s.consumed, MaxMetricCalls))
    OBVIOUS
  <1>3. PICK best : best = s.pool[Best(s.pool)].text
    OBVIOUS
  <1>4. PICK c : c = UpdatedCheckpoint(s.consumed, MaxMetricCalls)
    OBVIOUS
  <1>5. ProjectResult(s).consumed = s.consumed /\ ProjectResult(s).best = best
    BY <1>3 DEF ProjectResult
  <1>6. PICK evidence : evidence = SearchEvidence(chain, r, seen)
    OBVIOUS
  <1>7. PICK o : o = Spent(SearchedOutput(r, s, MaxMetricCalls), chain, r, seen, calls)
    OBVIOUS
  <1>8. ASSUME NEW d, NEW status, NEW proposed, NEW accepted, NEW seed, NEW retained,
               d = AdapterOutput(status, None, proposed, accepted, <<>>, 0, seed, retained, None),
               SearchedOutput(r, s, MaxMetricCalls) = [d EXCEPT !.state = state, !.delta = delta]
        PROVE  o.status = status /\ o.accepted = accepted /\ o.seedRetained = seed
    <2>1. PICK v : v = SearchedOutput(r, s, MaxMetricCalls)
      OBVIOUS
    <2>2. v = AdapterOutput(status, None, proposed, accepted, <<>>, delta, seed, retained, state)
      BY <1>8, <2>1 DEF AdapterOutput
    <2>3. o = [v EXCEPT !.evidence = evidence, !.usage = calls]
      BY <1>6, <1>7, <2>1 DEF Spent
    <2>4. o = [status |-> status, failure |-> None, proposed |-> proposed, accepted |-> accepted,
               intents |-> <<>>, evidence |-> evidence, usage |-> calls, delta |-> delta, seedRetained |-> seed,
               retained |-> retained, state |-> state]
      BY <2>2, <2>3 DEF AdapterOutput
    <2> QED
      BY <2>4
  <1>9. CASE c.terminal
    <2>1. PICK d : d = TerminalOutput(best)
      OBVIOUS
    <2>2. SearchedOutput(r, s, MaxMetricCalls) = [d EXCEPT !.state = state, !.delta = delta]
      BY <1>1, <1>2, <1>4, <1>5, <1>9, <2>1 DEF SearchedOutput
    <2>3. PICK base : base = Output("complete")
      OBVIOUS
    <2>4. PICK no : no = FALSE
      OBVIOUS
    <2>5. base = AdapterOutput("complete", None, <<>>, <<>>, <<>>, 0, no, None, None)
      BY <2>3, <2>4 DEF Output, Failed, AdapterOutput
    <2>6. CASE best = Seed
      <3>1. PICK yes, retained : yes = TRUE /\ retained = SeedCandidate
        OBVIOUS
      <3>2. d = [base EXCEPT !.seedRetained = yes, !.retained = retained]
        BY <2>1, <2>3, <2>6, <3>1 DEF TerminalOutput
      <3>3. d = AdapterOutput("complete", None, <<>>, <<>>, <<>>, 0, yes, retained, None)
        BY <2>5, <3>2 DEF AdapterOutput
      <3>4. o.seedRetained = yes
        BY <1>8, <2>2, <3>3
      <3> QED
        BY <1>3, <1>7, <2>6, <3>1, <3>4 DEF Chooses
    <2>7. CASE best # Seed
      <3>1. PICK winner : winner = [id |-> <<"gepa", 0>>, base |-> SeedCandidate.id, text |-> best]
        OBVIOUS
      <3>2. PICK accepted : accepted = <<winner>>
        OBVIOUS
      <3>3. d = [base EXCEPT !.proposed = accepted, !.accepted = accepted]
        BY <2>1, <2>3, <2>7, <3>1, <3>2 DEF TerminalOutput
      <3>4. d = AdapterOutput("complete", None, accepted, accepted, <<>>, 0, no, None, None)
        BY <2>5, <3>3 DEF AdapterOutput
      <3>5. o.seedRetained = no /\ o.accepted = accepted
        BY <1>8, <2>2, <3>4
      <3>6. winner.text = best
        BY <3>1
      <3> QED
        BY <1>3, <1>7, <2>4, <2>7, <3>2, <3>5, <3>6 DEF Chooses
    <2> QED
      BY <2>6, <2>7
  <1>10. CASE ~c.terminal
    <2>1. PICK d : d = Output("continue")
      OBVIOUS
    <2>2. SearchedOutput(r, s, MaxMetricCalls) = [d EXCEPT !.state = state, !.delta = delta]
      BY <1>1, <1>2, <1>4, <1>5, <1>10, <2>1 DEF SearchedOutput
    <2>3. PICK no : no = FALSE
      OBVIOUS
    <2>4. d = AdapterOutput("continue", None, <<>>, <<>>, <<>>, 0, no, None, None)
      BY <2>1, <2>3 DEF Output, Failed, AdapterOutput
    <2>5. o.status = "continue"
      BY <1>8, <2>2, <2>4
    <2> QED
      BY <1>7, <2>5
  <1> QED
    BY <1>9, <1>10

\* The best of a pool is the best of what was measured.
LEMMA PoolBests ==
    ASSUME NEW s, NEW store, PoolOf(s, store), s.at # "seed", NEW o, Chooses(o, s.pool[Best(s.pool)].text)
    PROVE  Bests(ValuesTo(store, s.ordinal), o.seedRetained, o.accepted)
  <1>1. PICK M : M = ValuesTo(store, s.ordinal)
    OBVIOUS
  <1>2. PICK pool : pool = s.pool
    OBVIOUS
  <1>3. /\ \A m : m \in M <=> \E i \in DOMAIN pool : pool[i] = m
        /\ \A m \in M : m.score \in Int
        /\ pool # <<>>
    BY <1>1, <1>2 DEF PoolOf
  <1>4. PICK S : pool \in Seq(S)
    BY <1>2 DEF PoolOf
  <1>5. \A i \in DOMAIN pool : pool[i].score \in Int
    BY <1>3
  <1>6. Best(pool) \in DOMAIN pool /\ \A j \in DOMAIN pool : pool[Best(pool)].score >= pool[j].score
    BY <1>3, <1>4, <1>5, BestOfPool
  <1>7. PICK b \in M : b = pool[Best(pool)] /\ \A y \in M : b.score >= y.score
    BY <1>3, <1>6
  <1>8. \A y \in M : Covers(b.text, M, y)
    BY <1>7 DEF Covers
  <1>9. CASE b.text = Seed
    BY <1>1, <1>2, <1>7, <1>8, <1>9 DEF Bests, Chooses
  <1>10. CASE b.text # Seed
    <2>1. o.seedRetained = FALSE
      BY <1>2, <1>7, <1>10 DEF Chooses
    <2>2. PICK winner : winner.text = b.text /\ o.accepted = <<winner>>
      BY <1>2, <1>7, <1>10 DEF Chooses
    <2>3. DOMAIN <<winner>> = {1} /\ <<winner>>[1] = winner /\ <<winner>> \in Seq({winner})
      OBVIOUS
    <2>4. PICK accepted : accepted = o.accepted
      OBVIOUS
    <2>5. DOMAIN accepted = {1} /\ accepted[1].text = b.text /\ \E X : accepted \in Seq(X)
      BY <2>2, <2>3, <2>4
    <2> QED
      BY <1>1, <1>8, <2>1, <2>4, <2>5 DEF Bests
  <1> QED
    BY <1>9, <1>10

-----------------------------------------------------------------------------
(* A GEPA run.                                                             *)

\* What is recorded was resolved by the service, and its score is a number.
EffectsInv ==
    \A n \in DOMAIN effects :
        /\ effects[n].resolution # None => \E step : effects[n].resolution \in Resolutions(effects[n].request, step)
        /\ IsValued(effects[n]) /\ effects[n].result # <<>> => Valuation(effects[n]).score \in Int

PoolInv == pc \in {"search", "effect"} => PoolOf(search, effects)

\* What the run has measured
Values == ValuesTo(effects, Len(effects))

\* An output that completes the run, bound or not, has chosen the best of what was
\* measured.
ChoiceInv ==
    /\ pc \in {"emit", "resolve", "parked"} =>
           Continuing /\ (out.status = "complete" => Bests(Values, out.seedRetained, out.accepted))
    /\ ckpt # None /\ ckpt.status = "complete" => Bests(Values, ckpt.seedRetained, ckpt.accepted)
    /\ results # <<>> /\ results[Len(results)].status = "complete" =>
           Bests(Values, results[Len(results)].seedRetained, results[Len(results)].accepted)

GepaChoice == EffectsInv /\ PoolInv /\ ChoiceInv

\* A step of the run that leaves the effects
LEMMA ChoiceIdle ==
    ASSUME GepaChoice, effects' = effects, results' = results, ckpt' \in {ckpt, None},
           pc' \notin {"search", "effect", "emit", "resolve", "parked"}
    PROVE  GepaChoice'
  <1>1. EffectsInv'
    BY DEF GepaChoice, EffectsInv
  <1>2. Values' = Values
    BY DEF Values
  <1>3. ChoiceInv'
    BY <1>2 DEF GepaChoice, ChoiceInv
  <1>4. PoolInv'
    BY DEF PoolInv
  <1> QED
    BY <1>1, <1>3, <1>4 DEF GepaChoice

\* A step that holds an output
LEMMA ChoiceHeld ==
    ASSUME GepaChoice, effects' = effects, results' = results, pc' \in {"resolve", "parked"}, Continuing,
           out'.status = "complete" => Bests(Values, out'.seedRetained, out'.accepted),
           ckpt' # None /\ ckpt'.status = "complete" => Bests(Values, ckpt'.seedRetained, ckpt'.accepted)
    PROVE  GepaChoice'
  <1>1. EffectsInv'
    BY DEF GepaChoice, EffectsInv
  <1>2. Values' = Values
    BY DEF Values
  <1>3. Continuing'
    BY DEF Continuing
  <1>4. ChoiceInv'
    BY <1>2, <1>3 DEF GepaChoice, ChoiceInv
  <1>5. PoolInv'
    BY DEF PoolInv
  <1> QED
    BY <1>1, <1>4, <1>5 DEF GepaChoice

LEMMA ChoiceRaise ==
    ASSUME GepaChoice, effects' = effects, results' = results, ckpt' = ckpt, NEW reason, Raise(reason)
    PROVE  GepaChoice'
  BY ChoiceIdle DEF Raise

LEMMA ChoiceTurn ==
    ASSUME GepaChoice, GepaInv, Turn, UNCHANGED <<run, durable>>
    PROVE  GepaChoice'
  <1>1. effects' = effects /\ results' = results /\ ckpt' = ckpt
    BY DEF durable
  <1>2. CASE pc' = "resolve"
    <2>1. ~(results # <<>> /\ Last(results).status # "continue") /\ out' = ckpt /\ ckpt # None
      BY <1>2 DEF Turn, Raise
    <2>2. Continuing
      BY <2>1 DEF Continuing, Last
    <2>3. ckpt.status = "complete" => Bests(Values, ckpt.seedRetained, ckpt.accepted)
      BY <2>1 DEF GepaChoice, ChoiceInv
    <2> QED
      BY <1>1, <1>2, <2>1, <2>2, <2>3, ChoiceHeld
  <1>3. CASE pc' # "resolve"
    <2>1. pc' \in {"terminalize", "down", "invoke"}
      BY <1>3 DEF Turn, Raise
    <2> QED
      BY <1>1, <2>1, ChoiceIdle
  <1> QED
    BY <1>2, <1>3

LEMMA ChoiceController ==
    ASSUME GepaChoice, GepaInv, Controller
    PROVE  GepaChoice'
  <1>1. CASE Drive
    <2>1. UNCHANGED <<run, durable>>
      BY <1>1 DEF Drive
    <2>2. Turn \/ Raise("conflict")
      BY <1>1 DEF Drive
    <2> QED
      BY <2>1, <2>2, ChoiceTurn, ChoiceRaise DEF durable
  <1>2. CASE Advance
    BY <1>2, ChoiceTurn DEF Advance
  <1>3. CASE TerminalizeRun
    <2>1. pc' = "down" /\ effects' = effects /\ results' = results /\ ckpt' = ckpt
      BY <1>3 DEF TerminalizeRun, Raise
    <2> QED
      BY <2>1, ChoiceIdle
  <1> QED
    BY <1>1, <1>2, <1>3 DEF Controller

LEMMA ChoiceCheckpoint ==
    ASSUME GepaChoice, Checkpoint
    PROVE  GepaChoice'
  <1>1. pc = "emit" /\ effects' = effects /\ results' = results
    BY DEF Checkpoint
  <1>2. Continuing /\ (out.status = "complete" => Bests(Values, out.seedRetained, out.accepted))
    BY <1>1 DEF GepaChoice, ChoiceInv
  <1>3. CASE OutputAccepted(run.key, req, Terminal, out)
    <2>1. ckpt' = out /\ pc' = "resolve" /\ out' = out
      BY <1>3 DEF Checkpoint, memory
    <2> QED
      BY <1>1, <1>2, <2>1, ChoiceHeld
  <1>4. CASE ~OutputAccepted(run.key, req, Terminal, out)
    <2>1. Raise("output") /\ ckpt' = ckpt
      BY <1>4 DEF Checkpoint
    <2> QED
      BY <1>1, <2>1, ChoiceRaise
  <1> QED
    BY <1>3, <1>4

LEMMA ChoiceWaits ==
    ASSUME GepaChoice, Park \/ \E reward : ResolveIntent(reward)
    PROVE  GepaChoice'
  <1>1. pc = "resolve" /\ effects' = effects /\ results' = results /\ ckpt' = ckpt
    BY DEF Park, ResolveIntent, durable
  <1>2. /\ Continuing /\ (out.status = "complete" => Bests(Values, out.seedRetained, out.accepted))
        /\ ckpt # None /\ ckpt.status = "complete" => Bests(Values, ckpt.seedRetained, ckpt.accepted)
    BY <1>1 DEF GepaChoice, ChoiceInv
  <1>3. CASE pc' \in {"resolve", "parked"} /\ out' = out
    BY <1>1, <1>2, <1>3, ChoiceHeld
  <1>4. CASE Raise("result")
    BY <1>1, <1>4, ChoiceRaise
  <1> QED
    BY <1>1, <1>3, <1>4 DEF Park, ResolveIntent, memory

LEMMA ChoiceBind ==
    ASSUME GepaChoice, GepaInv, BindResult
    PROVE  GepaChoice'
  <1>1. pc = "resolve" /\ effects' = effects
    BY DEF BindResult
  <1>2. Continuing /\ (out.status = "complete" => Bests(Values, out.seedRetained, out.accepted))
    BY <1>1 DEF GepaChoice, ChoiceInv
  <1>3. CASE StepResultValid(req, Terminal, out, resolved)
    <2>1. PICK bound : bound = StepResult(resolved)
      OBVIOUS
    <2>2. results' = Append(results, bound) /\ ckpt' = None /\ pc' = "next"
      BY <1>3, <2>1 DEF BindResult
    <2>3. PICK S : results \in Seq(S)
      BY DEF GepaInv, StoreInv, ShapeInv
    <2>4. results \in Seq(S \cup {bound}) /\ bound \in S \cup {bound}
      BY <2>3
    <2>5. results'[Len(results')] = bound
      BY <2>2, <2>4, AppendProperties
    <2>6. bound.status = out.status /\ bound.seedRetained = out.seedRetained /\ bound.accepted = out.accepted
      BY <2>1 DEF StepResult
    <2>7. EffectsInv'
      BY <1>1 DEF GepaChoice, EffectsInv
    <2>8. Values' = Values
      BY <1>1 DEF Values
    <2>9. ChoiceInv'
      BY <1>2, <2>2, <2>5, <2>6, <2>8 DEF ChoiceInv
    <2>10. PoolInv'
      BY <2>2 DEF PoolInv
    <2> QED
      BY <2>7, <2>9, <2>10 DEF GepaChoice
  <1>4. CASE ~StepResultValid(req, Terminal, out, resolved)
    <2>1. Raise("result") /\ results' = results /\ ckpt' = ckpt
      BY <1>4 DEF BindResult
    <2> QED
      BY <1>1, <2>1, ChoiceRaise
  <1> QED
    BY <1>3, <1>4

\* While effects are made nothing is chosen.
LEMMA ChoiceOpen ==
    ASSUME Continuing, results' = results, ckpt' = None, pc' \in {"search", "effect", "down"}
    PROVE  ChoiceInv'
  BY DEF Continuing, ChoiceInv

\* The service resolves an effect.
LEMMA ResolvedEffects ==
    ASSUME EffectsInv, ShapeInv, NEW k, NEW step, NEW resolution \in Resolutions(effects[k].request, step),
           effects' = [effects EXCEPT ![k].resolution = resolution]
    PROVE  /\ EffectsInv' /\ DOMAIN effects' = DOMAIN effects
           /\ \A n \in DOMAIN effects : effects'[n].request = effects[n].request /\ effects'[n].result = effects[n].result
  <1>1. /\ DOMAIN effects = 1 .. Len(effects)
        /\ \A n \in DOMAIN effects :
               effects[n] = [request |-> effects[n].request, resolution |-> effects[n].resolution,
                             result |-> effects[n].result]
    BY Domains DEF ShapeInv
  <1>2. DOMAIN effects' = DOMAIN effects
    OBVIOUS
  <1>3. \A n \in DOMAIN effects : n # k => effects'[n] = effects[n]
    OBVIOUS
  <1>4. ASSUME k \in DOMAIN effects
        PROVE  effects'[k] = [request |-> effects[k].request, resolution |-> resolution, result |-> effects[k].result]
    <2>1. effects'[k] = [effects[k] EXCEPT !.resolution = resolution]
      BY <1>4
    <2> QED
      BY <1>1, <1>4, <2>1
  <1>5. ASSUME NEW n \in DOMAIN effects
        PROVE  /\ effects'[n].request = effects[n].request /\ effects'[n].result = effects[n].result
               /\ effects'[n].resolution = IF n = k THEN resolution ELSE effects[n].resolution
    <2>1. CASE n = k
      BY <1>4, <1>5, <2>1
    <2>2. CASE n # k
      BY <1>3, <2>2
    <2> QED
      BY <2>1, <2>2
  <1>6. EffectsInv'
    <2> SUFFICES ASSUME NEW n \in DOMAIN effects'
                 PROVE  /\ effects'[n].resolution # None =>
                               \E st : effects'[n].resolution \in Resolutions(effects'[n].request, st)
                        /\ IsValued(effects'[n]) /\ effects'[n].result # <<>> => Valuation(effects'[n]).score \in Int
      BY DEF EffectsInv, IsValued, Valuation, Resolutions
    <2>1. n \in DOMAIN effects
      BY <1>2
    <2>2. effects'[n].request = effects[n].request /\ effects'[n].result = effects[n].result
      BY <1>5, <2>1
    <2>3. IsValued(effects'[n]) /\ effects'[n].result # <<>> => Valuation(effects'[n]).score \in Int
      BY <2>1, <2>2 DEF EffectsInv, IsValued, Valuation
    <2>4. effects'[n].resolution # None => \E st : effects'[n].resolution \in Resolutions(effects'[n].request, st)
      BY <1>5, <2>1, <2>2 DEF EffectsInv
    <2> QED
      BY <2>3, <2>4
  <1> QED
    BY <1>2, <1>5, <1>6

LEMMA ChoiceResume ==
    ASSUME GepaChoice, GepaInv, pc = "parked",
           NEW resolution \in Resolutions(effects[Deferred].request, req.index), FanInResume(resolution)
    PROVE  GepaChoice'
  <1>1. PICK k, step : k = Deferred /\ step = req.index
    OBVIOUS
  <1>2. /\ effects' = [effects EXCEPT ![k].resolution = resolution] /\ results' = results
        /\ ckpt' = None /\ pc' = "down"
    BY <1>1 DEF FanInResume
  <1>3. EffectsInv'
    BY <1>1, <1>2, ResolvedEffects DEF GepaChoice, GepaInv, StoreInv
  <1>4. Continuing
    BY DEF GepaChoice, ChoiceInv
  <1>5. ChoiceInv'
    BY <1>2, <1>4, ChoiceOpen
  <1>6. PoolInv'
    BY <1>2 DEF PoolInv
  <1> QED
    BY <1>3, <1>5, <1>6 DEF GepaChoice

\* A running search
LEMMA InSearch ==
    ASSUME GepaInv, pc \in {"search", "effect"}
    PROVE  /\ StoreInv /\ ShapeInv /\ Continuing /\ ckpt = None
           /\ SearchShape(search) /\ search.ordinal <= Len(effects)
           /\ Len(effects) \in Nat /\ DOMAIN effects = 1 .. Len(effects)
  <1>1. PICK T : TrailInv(T)
    BY DEF GepaInv
  <1>2. SearchShape(search) /\ search.ordinal <= Len(effects)
    BY <1>1 DEF TrailInv, SearchInv
  <1>3. StoreInv /\ ShapeInv /\ Continuing /\ ckpt = None
    BY DEF GepaInv, StoreInv, PhaseInv
  <1> QED
    BY <1>2, <1>3, Domains

\* A search at an effect
LEMMA InEffect ==
    ASSUME GepaInv, pc = "effect"
    PROVE  /\ search.at # "stop" /\ search.ordinal \in Nat /\ search.ordinal < Len(effects)
           /\ Request.ordinal = search.ordinal
           /\ Entry = effects[search.ordinal + 1] /\ Entry.request = Request
           /\ search.ordinal + 1 \in DOMAIN effects /\ search.ordinal + 1 \in 1 .. Len(effects)
           /\ Recorded(effects, Request) <=> Entry.result # <<>>
  <1>1. PICK T : TrailInv(T)
    BY DEF GepaInv
  <1>2. StoreInv
    BY DEF GepaInv
  <1> QED
    BY <1>1, <1>2, Slot

\* The pool depends on the effects behind the search.
LEMMA SamePool ==
    ASSUME NEW s, s.ordinal \in Nat, NEW store, NEW after, PoolOf(s, store),
           \A k \in 1 .. s.ordinal : after[k].request = store[k].request /\ after[k].result = store[k].result
    PROVE  PoolOf(s, after)
  <1>1. \A k \in 1 .. s.ordinal :
            (IsValued(after[k]) <=> IsValued(store[k])) /\ Valuation(after[k]) = Valuation(store[k])
    BY DEF IsValued, Valuation
  <1>2. ValuesTo(after, s.ordinal) = ValuesTo(store, s.ordinal)
    BY <1>1 DEF ValuesTo
  <1> QED
    BY <1>2 DEF PoolOf

LEMMA ChoiceBegin ==
    ASSUME GepaChoice, GepaInv, GepaBegin
    PROVE  GepaChoice'
  <1>1. pc = "invoke" /\ effects' = effects /\ results' = results /\ ckpt' = ckpt
    BY DEF GepaBegin, durable
  <1>2. Continuing /\ ckpt = None
    BY <1>1 DEF GepaInv, StoreInv, PhaseInv
  <1>3. CASE Refused
    <2>1. Raise("exhausted")
      BY <1>3 DEF GepaBegin
    <2> QED
      BY <1>1, <2>1, ChoiceRaise
  <1>4. CASE ~Refused
    <2>1. search' = NewSearch(NextBudget(req.checkpoint, MaxMetricCalls)) /\ pc' = "search"
      BY <1>4 DEF GepaBegin
    <2>2. PICK s : s = search'
      OBVIOUS
    <2>3. s.pool = <<>> /\ s.ordinal = 0 /\ s.at = "seed"
      BY <2>1, <2>2 DEF NewSearch
    <2>4. ValuesTo(effects', 0) = {}
      BY DEF ValuesTo
    <2>5. <<>> \in Seq({}) /\ DOMAIN <<>> = {}
      OBVIOUS
    <2>6. PoolOf(s, effects')
      BY <2>3, <2>4, <2>5 DEF PoolOf
    <2>7. PoolInv'
      BY <2>2, <2>6 DEF PoolInv, PoolOf, ValuesTo
    <2>8. EffectsInv'
      BY <1>1 DEF GepaChoice, EffectsInv
    <2>9. ChoiceInv'
      BY <1>1, <1>2, <2>1, ChoiceOpen
    <2> QED
      BY <2>7, <2>8, <2>9 DEF GepaChoice
  <1> QED
    BY <1>3, <1>4

LEMMA ChoiceRequest ==
    ASSUME GepaChoice, GepaInv, RecordRequest
    PROVE  GepaChoice'
  <1>1. pc = "search" /\ search.at # "stop" /\ results' = results /\ ckpt' = ckpt
    BY DEF RecordRequest
  <1>2. /\ ShapeInv /\ Continuing /\ ckpt = None /\ SearchShape(search) /\ search.ordinal <= Len(effects)
        /\ Len(effects) \in Nat /\ DOMAIN effects = 1 .. Len(effects)
    BY <1>1, InSearch
  <1>3. PICK l \in Nat, n \in Nat : l = Len(effects) /\ n = search.ordinal /\ Request.ordinal = n
    BY <1>1, <1>2, RequestOf
  <1>4. CASE SlotConflict(effects, Request)
    <2>1. Raise("effect") /\ effects' = effects
      BY <1>4 DEF RecordRequest
    <2> QED
      BY <1>1, <2>1, ChoiceRaise
  <1>5. CASE ~SlotConflict(effects, Request)
    <2>1. effects' = Slotted(effects, Request) /\ pc' = "effect" /\ search' = search
      BY <1>5 DEF RecordRequest, memory
    <2>2. ChoiceInv'
      BY <1>1, <1>2, <2>1, ChoiceOpen
    <2>3. PICK slot, request : slot = [request |-> request, resolution |-> None, result |-> <<>>] /\ request = Request
      OBVIOUS
    <2>4. \/ effects' = effects
          \/ /\ DOMAIN effects' = 1 .. l + 1 /\ effects'[l + 1] = slot
             /\ \A k \in 1 .. l : effects'[k] = effects[k]
      <3>1. CASE n + 1 = l + 1
        <4>1. effects' = Append(effects, slot)
          BY <1>3, <2>1, <2>3, <3>1 DEF Slotted
        <4>2. PICK S : effects \in Seq(S)
          BY <1>2 DEF ShapeInv
        <4>3. effects \in Seq(S \cup {slot}) /\ slot \in S \cup {slot}
          BY <4>2
        <4>4. /\ effects' \in Seq(S \cup {slot}) /\ Len(effects') = l + 1
              /\ effects'[l + 1] = slot /\ \A k \in 1 .. l : effects'[k] = effects[k]
          BY <1>3, <4>1, <4>3, AppendProperties
        <4> QED
          BY <4>4, LenProperties
      <3>2. CASE n + 1 # l + 1
        BY <1>3, <2>1, <3>2 DEF Slotted
      <3> QED
        BY <3>1, <3>2
    <2>5. \A k \in 1 .. l : effects'[k] = effects[k]
      BY <2>4
    <2>6. PoolOf(search, effects')
      <3>1. \A k \in 1 .. search.ordinal : effects'[k] = effects[k]
        BY <1>2, <1>3, <2>5
      <3>2. PoolOf(search, effects)
        BY <1>1 DEF GepaChoice, PoolInv
      <3>3. PICK s, store, after : s = search /\ store = effects /\ after = effects'
        OBVIOUS
      <3>4. s.ordinal \in Nat /\ PoolOf(s, store) /\ \A k \in 1 .. s.ordinal : after[k] = store[k]
        BY <1>3, <3>1, <3>2, <3>3
      <3>5. PoolOf(s, after)
        BY <3>4, SamePool
      <3> QED
        BY <3>3, <3>5
    <2>7. PoolInv'
      BY <2>1, <2>6 DEF PoolInv, PoolOf, ValuesTo
    <2>8. EffectsInv'
      <3> SUFFICES ASSUME NEW k \in DOMAIN effects'
                   PROVE  /\ effects'[k].resolution # None =>
                                 \E st : effects'[k].resolution \in Resolutions(effects'[k].request, st)
                          /\ IsValued(effects'[k]) /\ effects'[k].result # <<>> => Valuation(effects'[k]).score \in Int
        BY DEF EffectsInv, IsValued, Valuation, Resolutions
      <3>1. CASE k \in 1 .. l
        <4>1. effects'[k] = effects[k] /\ k \in DOMAIN effects
          BY <1>2, <1>3, <2>5, <3>1
        <4> QED
          BY <4>1 DEF GepaChoice, EffectsInv
      <3>2. CASE k \notin 1 .. l
        <4>1. effects'[k] = slot
          BY <1>2, <1>3, <2>4, <3>2
        <4>2. effects'[k].resolution = None /\ effects'[k].result = <<>>
          BY <2>3, <4>1
        <4> QED
          BY <4>2
      <3> QED
        BY <3>1, <3>2
    <2> QED
      BY <2>2, <2>7, <2>8 DEF GepaChoice
  <1> QED
    BY <1>4, <1>5

LEMMA ChoiceFresh ==
    ASSUME GepaChoice, GepaInv, NEW resolution \in Resolutions(Request, req.index), EvaluateFresh(resolution)
    PROVE  GepaChoice'
  <1>1. pc = "effect" /\ pc' = pc /\ search' = search /\ results' = results /\ ckpt' = ckpt
    BY DEF EvaluateFresh, Effect, memory
  <1>2. /\ ShapeInv /\ Continuing /\ ckpt = None /\ Len(effects) \in Nat /\ DOMAIN effects = 1 .. Len(effects)
    BY <1>1, InSearch
  <1>3. PICK n \in Nat : n = search.ordinal
    BY <1>1, InEffect
  <1>4. Request.ordinal = n /\ effects[n + 1].request = Request /\ n < Len(effects)
    BY <1>1, <1>3, InEffect
  <1>5. effects' = [effects EXCEPT ![n + 1].resolution = resolution]
    BY <1>4 DEF EvaluateFresh
  <1>6. PICK k, step : k = n + 1 /\ step = req.index
    OBVIOUS
  <1>7. resolution \in Resolutions(effects[k].request, step)
    BY <1>4, <1>6
  <1>8. /\ EffectsInv' /\ DOMAIN effects' = DOMAIN effects
        /\ \A i \in DOMAIN effects : effects'[i].request = effects[i].request /\ effects'[i].result = effects[i].result
    BY <1>2, <1>5, <1>6, <1>7, ResolvedEffects DEF GepaChoice
  <1>9. PICK s, store, after : s = search /\ store = effects /\ after = effects'
    OBVIOUS
  <1>10. /\ s.ordinal \in Nat /\ PoolOf(s, store)
         /\ \A i \in 1 .. s.ordinal : after[i].request = store[i].request /\ after[i].result = store[i].result
    BY <1>1, <1>2, <1>3, <1>4, <1>8, <1>9 DEF GepaChoice, PoolInv
  <1>11. PoolOf(s, after)
    BY <1>10, SamePool
  <1>12. PoolInv'
    BY <1>1, <1>9, <1>11 DEF PoolInv, PoolOf, ValuesTo
  <1>13. ChoiceInv'
    BY <1>1, <1>2, ChoiceOpen
  <1> QED
    BY <1>8, <1>12, <1>13 DEF GepaChoice

\* An effect is answered and the search goes on.
LEMMA ChoiceAnswered ==
    ASSUME Minibatch # Valset, GepaChoice, GepaInv, pc = "effect", pc' = "search", results' = results, ckpt' = ckpt,
           EffectsInv', \A k \in 1 .. search.ordinal : effects'[k] = effects[k],
           search.ordinal + 1 \in DOMAIN effects',
           NEW e, e = effects'[search.ordinal + 1], e.request = Request, e.result # <<>>,
           e.request.kind = "evaluate" => search' = Evaluated(search, e.request, e.result[1]),
           e.request.kind # "evaluate" => search' = Reflected(search, e.result[1])
    PROVE  GepaChoice'
  <1>1. Continuing /\ ckpt = None /\ SearchShape(search) /\ search.at # "stop"
    BY InSearch, InEffect
  <1>2. PICK s, store, after, v : s = search /\ store = effects /\ after = effects' /\ v = search'
    OBVIOUS
  <1>3. SearchShape(s) /\ s.at # "stop" /\ PoolOf(s, store)
    BY <1>1, <1>2 DEF GepaChoice, PoolInv
  <1>4. IsValued(e) => Valuation(e).score \in Int
    BY DEF EffectsInv, IsValued, Valuation
  <1>5. e.request = NextEffect(s) /\ e = after[s.ordinal + 1]
    BY <1>2 DEF Request
  <1>6. \A k \in 1 .. s.ordinal : after[k].request = store[k].request /\ after[k].result = store[k].result
    BY <1>2
  <1>7. v.ordinal = s.ordinal + 1
    <2>1. CASE e.request.kind = "evaluate"
      <3>1. PICK request, result : request = e.request /\ result = e.result[1] /\ Len(request.batch) \in Nat
        BY <1>1, <2>1, RequestOf
      <3>2. Evaluated(s, request, result).ordinal = s.ordinal + 1
        BY <1>3, <3>1, EvaluatedAlike
      <3> QED
        BY <1>2, <2>1, <3>1, <3>2
    <2>2. CASE e.request.kind # "evaluate"
      <3>1. s.at # "parent"
        BY <1>1, <1>2, <2>2, RequestOf
      <3>2. PICK result : result = e.result[1]
        OBVIOUS
      <3>3. Reflected(s, result).ordinal = s.ordinal + 1
        BY <1>3, <3>1, ReflectedAlike
      <3> QED
        BY <1>2, <2>2, <3>2, <3>3
    <2> QED
      BY <2>1, <2>2
  <1>8. /\ e.request.kind = "evaluate" => v = Evaluated(s, e.request, e.result[1])
        /\ e.request.kind # "evaluate" => v = Reflected(s, e.result[1])
    BY <1>2
  <1>9. PoolOf(v, after)
    BY <1>3, <1>4, <1>5, <1>6, <1>7, <1>8, PoolGrows
  <1>10. PoolInv'
    BY <1>2, <1>9 DEF PoolInv, PoolOf, ValuesTo
  <1>11. ChoiceInv'
    BY <1>1, ChoiceOpen
  <1> QED
    BY <1>10, <1>11 DEF GepaChoice

LEMMA ChoiceReplayed ==
    ASSUME Minibatch # Valset, GepaChoice, GepaInv, EvaluateReplayed
    PROVE  GepaChoice'
  <1>1. /\ pc = "effect" /\ pc' = "search" /\ results' = results /\ ckpt' = ckpt /\ effects' = effects
        /\ Request.kind = "evaluate" /\ Recorded(effects, Request) /\ search' = Evaluated(search, Request, Answer)
    BY DEF EvaluateReplayed, Effect, durable
  <1>2. PICK e : e = effects'[search.ordinal + 1]
    OBVIOUS
  <1>3. e = Entry /\ e.request = Request /\ e.result # <<>> /\ search.ordinal + 1 \in DOMAIN effects'
    BY <1>1, <1>2, InEffect
  <1>4. EffectsInv'
    BY <1>1 DEF GepaChoice, EffectsInv
  <1>5. search' = Evaluated(search, e.request, e.result[1])
    BY <1>1, <1>3 DEF Answer
  <1> QED
    BY <1>1, <1>2, <1>3, <1>4, <1>5, ChoiceAnswered

\* An answer is recorded.
LEMMA RecordedEffects ==
    ASSUME EffectsInv, ShapeInv, NEW k \in DOMAIN effects, NEW result,
           effects' = [effects EXCEPT ![k].result = <<result>>],
           IsValued(effects[k]) => BatchScore(Valset, result.rows) \in Int
    PROVE  /\ EffectsInv' /\ DOMAIN effects' = DOMAIN effects
           /\ \A n \in DOMAIN effects : n # k => effects'[n] = effects[n]
           /\ effects'[k].request = effects[k].request /\ effects'[k].result = <<result>>
  <1>1. effects[k] = [request |-> effects[k].request, resolution |-> effects[k].resolution, result |-> effects[k].result]
    BY DEF ShapeInv
  <1>2. DOMAIN effects' = DOMAIN effects /\ \A n \in DOMAIN effects : n # k => effects'[n] = effects[n]
    OBVIOUS
  <1>3. effects'[k] = [request |-> effects[k].request, resolution |-> effects[k].resolution, result |-> <<result>>]
    <2>1. effects'[k] = [effects[k] EXCEPT !.result = <<result>>]
      OBVIOUS
    <2> QED
      BY <1>1, <2>1
  <1>4. /\ effects'[k].request = effects[k].request /\ effects'[k].result = <<result>>
        /\ effects'[k].resolution = effects[k].resolution
    BY <1>3
  <1>5. EffectsInv'
    <2> SUFFICES ASSUME NEW n \in DOMAIN effects'
                 PROVE  /\ effects'[n].resolution # None =>
                               \E st : effects'[n].resolution \in Resolutions(effects'[n].request, st)
                        /\ IsValued(effects'[n]) /\ effects'[n].result # <<>> => Valuation(effects'[n]).score \in Int
      BY DEF EffectsInv, IsValued, Valuation, Resolutions
    <2>1. CASE n # k
      <3>1. n \in DOMAIN effects /\ effects'[n] = effects[n]
        BY <1>2, <2>1
      <3> QED
        BY <3>1 DEF EffectsInv
    <2>2. CASE n = k
      <3>1. effects'[n].resolution # None => \E st : effects'[n].resolution \in Resolutions(effects'[n].request, st)
        BY <1>4, <2>2 DEF EffectsInv
      <3>2. IsValued(effects'[n]) <=> IsValued(effects[k])
        BY <1>4, <2>2 DEF IsValued
      <3>3. effects'[n].result[1] = result
        BY <1>4, <2>2
      <3>4. Valuation(effects'[n]).score = BatchScore(Valset, result.rows)
        BY <3>3 DEF Valuation, Measurement
      <3> QED
        BY <3>1, <3>2, <3>4
    <2> QED
      BY <2>1, <2>2
  <1> QED
    BY <1>2, <1>4, <1>5

LEMMA ChoiceRecord ==
    ASSUME Minibatch # Valset, GepaChoice, GepaInv, EvaluateRecord
    PROVE  GepaChoice'
  <1>1. /\ pc = "effect" /\ results' = results /\ ckpt' = ckpt
        /\ Request.kind = "evaluate" /\ Entry.resolution # None
    BY DEF EvaluateRecord, Effect
  <1>2. ShapeInv /\ DOMAIN effects = 1 .. Len(effects)
    BY <1>1, InSearch
  <1>3. PICK n \in Nat : n = search.ordinal
    BY <1>1, InEffect
  <1>4. /\ Request.ordinal = n /\ Entry = effects[n + 1] /\ Entry.request = Request
        /\ n + 1 \in DOMAIN effects /\ n < Len(effects)
    BY <1>1, <1>3, InEffect
  <1>5. PICK result : result = EvaluationResult(Request, Entry.resolution)
    OBVIOUS
  <1>6. CASE RowsValid(Request, result)
    <2>1. /\ effects' = Record(effects, Request, result)
          /\ search' = Evaluated(search, Request, result) /\ pc' = "search"
      BY <1>5, <1>6 DEF EvaluateRecord
    <2>2. effects' = [effects EXCEPT ![n + 1].result = <<result>>]
      BY <1>4, <2>1 DEF Record
    <2>3. IsValued(effects[n + 1]) => BatchScore(Valset, result.rows) \in Int
      <3> SUFFICES ASSUME IsValued(effects[n + 1]) PROVE BatchScore(Valset, result.rows) \in Int
        OBVIOUS
      <3>1. PICK request, resolution : request = Request /\ resolution = Entry.resolution
        OBVIOUS
      <3>2. PICK step : resolution \in Resolutions(request, step)
        BY <1>1, <1>4, <3>1 DEF GepaChoice, EffectsInv
      <3>3. request.batch = Valset
        BY <1>4, <3>1 DEF IsValued
      <3>4. BatchScore(Valset, EvaluationResult(request, resolution).rows) \in Int
        BY <3>2, <3>3, ValueIsNumber
      <3> QED
        BY <1>5, <3>1, <3>4
    <2>4. PICK k : k = n + 1
      OBVIOUS
    <2>5. /\ EffectsInv' /\ DOMAIN effects' = DOMAIN effects
          /\ \A i \in DOMAIN effects : i # k => effects'[i] = effects[i]
          /\ effects'[k].request = effects[k].request /\ effects'[k].result = <<result>>
      BY <1>2, <1>4, <2>2, <2>3, <2>4, RecordedEffects DEF GepaChoice
    <2>6. PICK e : e = effects'[search.ordinal + 1]
      OBVIOUS
    <2>7. e.request = Request /\ e.result = <<result>> /\ search.ordinal + 1 \in DOMAIN effects'
      BY <1>3, <1>4, <2>4, <2>5, <2>6
    <2>8. e.result # <<>> /\ e.result[1] = result
      BY <2>7
    <2>9. \A i \in 1 .. search.ordinal : effects'[i] = effects[i]
      BY <1>2, <1>3, <1>4, <2>4, <2>5
    <2>10. search' = Evaluated(search, e.request, e.result[1]) /\ e.request.kind = "evaluate"
      BY <1>1, <2>1, <2>7, <2>8
    <2> QED
      BY <1>1, <2>1, <2>5, <2>6, <2>7, <2>8, <2>9, <2>10, ChoiceAnswered
  <1>7. CASE ~RowsValid(Request, result)
    <2>1. Raise("rows") /\ effects' = effects
      BY <1>5, <1>7 DEF EvaluateRecord
    <2> QED
      BY <1>1, <2>1, ChoiceRaise
  <1> QED
    BY <1>6, <1>7

\* An invocation ends.
LEMMA ChoiceEmit ==
    ASSUME GepaInv, pc \in {"invoke", "search", "effect"}, EffectsInv', results' = results, ckpt' = ckpt,
           NEW output, NEW reported, Emit(output, reported),
           NEW o, o = Spent(output, results, req, touched, reported),
           o.status = "complete" => Bests(Values', o.seedRetained, o.accepted)
    PROVE  GepaChoice'
  <1>1. Continuing /\ ckpt = None
    BY DEF GepaInv, StoreInv, PhaseInv
  <1>2. CASE EvidenceRefused(results, req, touched)
    <2>1. pc' = "down"
      BY <1>2 DEF Emit, Raise
    <2>2. PoolInv'
      BY <2>1 DEF PoolInv
    <2>3. ChoiceInv'
      BY <1>1, <2>1, ChoiceOpen
    <2> QED
      BY <2>2, <2>3 DEF GepaChoice
  <1>3. CASE ~EvidenceRefused(results, req, touched)
    <2>1. out' = o /\ pc' = "emit"
      BY <1>3 DEF Emit
    <2>2. PoolInv'
      BY <2>1 DEF PoolInv
    <2>3. Continuing' /\ ~(results' # <<>> /\ results'[Len(results')].status = "complete")
      BY <1>1 DEF Continuing
    <2>4. ChoiceInv'
      BY <1>1, <2>1, <2>3 DEF ChoiceInv
    <2> QED
      BY <2>2, <2>4 DEF GepaChoice
  <1> QED
    BY <1>2, <1>3

LEMMA ChoiceDeferred ==
    ASSUME GepaChoice, GepaInv, EvaluateDeferred
    PROVE  GepaChoice'
  <1>1. pc = "effect" /\ effects' = effects /\ results' = results /\ ckpt' = ckpt
    BY DEF EvaluateDeferred, Effect, durable
  <1>2. PICK intent, output, reported :
            /\ intent = [id |-> <<req.index, Request.ordinal>>, step |-> req.index, cand |-> Assembled(Request.text)]
            /\ output = DeferredOutput(req, intent) /\ reported = usage
    OBVIOUS
  <1>3. Emit(output, reported)
    BY <1>2 DEF EvaluateDeferred
  <1>4. PICK o : o = Spent(output, results, req, touched, reported)
    OBVIOUS
  <1>5. PICK state : Ends(output, "continue", state)
    BY <1>2, DeferredEnds
  <1>6. o.status = "continue"
    BY <1>4, <1>5, Reported
  <1>7. EffectsInv'
    BY <1>1 DEF GepaChoice, EffectsInv
  <1> QED
    BY <1>1, <1>3, <1>4, <1>6, <1>7, ChoiceEmit

\* A reflection fails.
LEMMA ChoiceFailed ==
    ASSUME GepaInv, pc = "effect", EffectsInv', results' = results, ckpt' = ckpt,
           NEW reported, Emit(ReflectionFailureOutput(search), reported)
    PROVE  GepaChoice'
  <1>1. PICK output : output = ReflectionFailureOutput(search)
    OBVIOUS
  <1>2. PICK state : Ends(output, "failed", state)
    BY <1>1, FailureEnds
  <1>3. PICK o : o = Spent(output, results, req, touched, reported)
    OBVIOUS
  <1>4. o.status = "failed"
    BY <1>2, <1>3, Reported
  <1> QED
    BY <1>1, <1>3, <1>4, ChoiceEmit

LEMMA ChoiceProposed ==
    ASSUME Minibatch # Valset, GepaChoice, GepaInv, ProposeReplayed
    PROVE  GepaChoice'
  <1>1. /\ pc = "effect" /\ effects' = effects /\ results' = results /\ ckpt' = ckpt
        /\ Request.kind = "propose" /\ Recorded(effects, Request)
    BY DEF ProposeReplayed, Effect, durable
  <1>2. EffectsInv'
    BY <1>1 DEF GepaChoice, EffectsInv
  <1>3. CASE Answer.failed
    <2>1. PICK reported : reported = usage
      OBVIOUS
    <2>2. Emit(ReflectionFailureOutput(search), reported)
      BY <1>3, <2>1 DEF ProposeReplayed
    <2> QED
      BY <1>1, <1>2, <2>2, ChoiceFailed
  <1>4. CASE ~Answer.failed
    <2>1. search' = Reflected(search, Answer) /\ pc' = "search"
      BY <1>4 DEF ProposeReplayed
    <2>2. PICK e : e = effects'[search.ordinal + 1]
      OBVIOUS
    <2>3. e = Entry /\ e.request = Request /\ e.result # <<>> /\ search.ordinal + 1 \in DOMAIN effects'
      BY <1>1, <2>2, InEffect
    <2>4. search' = Reflected(search, e.result[1]) /\ e.request.kind # "evaluate"
      BY <1>1, <2>1, <2>3 DEF Answer
    <2> QED
      BY <1>1, <1>2, <2>1, <2>2, <2>3, <2>4, ChoiceAnswered
  <1> QED
    BY <1>3, <1>4

LEMMA ChoiceReflected ==
    ASSUME Minibatch # Valset, GepaChoice, GepaInv, NEW result, ProposeFresh(result)
    PROVE  GepaChoice'
  <1>1. /\ pc = "effect" /\ results' = results /\ ckpt' = ckpt
        /\ Request.kind = "propose" /\ effects' = Record(effects, Request, result)
    BY DEF ProposeFresh, Effect
  <1>2. ShapeInv /\ DOMAIN effects = 1 .. Len(effects)
    BY <1>1, InSearch
  <1>3. PICK n \in Nat : n = search.ordinal
    BY <1>1, InEffect
  <1>4. /\ Request.ordinal = n /\ Entry = effects[n + 1] /\ Entry.request = Request
        /\ n + 1 \in DOMAIN effects /\ n < Len(effects)
    BY <1>1, <1>3, InEffect
  <1>5. PICK k : k = n + 1
    OBVIOUS
  <1>6. effects' = [effects EXCEPT ![k].result = <<result>>] /\ ~IsValued(effects[k])
    BY <1>1, <1>4, <1>5 DEF Record, IsValued
  <1>7. /\ EffectsInv' /\ DOMAIN effects' = DOMAIN effects
        /\ \A i \in DOMAIN effects : i # k => effects'[i] = effects[i]
        /\ effects'[k].request = effects[k].request /\ effects'[k].result = <<result>>
    BY <1>2, <1>4, <1>5, <1>6, RecordedEffects DEF GepaChoice
  <1>8. PICK reported : reported = usage \cup ProposalCallUsage(Request, result)
    OBVIOUS
  <1>9. CASE result.failed
    <2>1. Emit(ReflectionFailureOutput(search), reported)
      BY <1>8, <1>9 DEF ProposeFresh
    <2> QED
      BY <1>1, <1>7, <2>1, ChoiceFailed
  <1>10. CASE ~result.failed
    <2>1. search' = Reflected(search, result) /\ pc' = "search"
      BY <1>10 DEF ProposeFresh
    <2>2. PICK e : e = effects'[search.ordinal + 1]
      OBVIOUS
    <2>3. e.request = Request /\ e.result = <<result>> /\ search.ordinal + 1 \in DOMAIN effects'
      BY <1>3, <1>4, <1>5, <1>7, <2>2
    <2>4. e.result # <<>> /\ e.result[1] = result
      BY <2>3
    <2>5. \A i \in 1 .. search.ordinal : effects'[i] = effects[i]
      BY <1>2, <1>3, <1>4, <1>5, <1>7
    <2>6. search' = Reflected(search, e.result[1]) /\ e.request.kind # "evaluate"
      BY <1>1, <2>1, <2>3, <2>4
    <2> QED
      BY <1>1, <1>7, <2>1, <2>2, <2>3, <2>4, <2>5, <2>6, ChoiceAnswered
  <1> QED
    BY <1>9, <1>10

\* A search that ends has gone past every effect: what it measured is what the run has
\* measured, and it chooses the best of it.
LEMMA ChoiceSearched ==
    ASSUME GepaChoice, GepaInv, SearchEnds
    PROVE  GepaChoice'
  <1>1. PICK T : TrailInv(T)
    BY DEF GepaInv
  <1>2. /\ pc = "search" /\ search.at = "stop" /\ results' = results /\ effects' = effects /\ ckpt' = ckpt
        /\ PoolOf(search, effects) /\ Trail(T)
    BY <1>1 DEF SearchEnds, GepaChoice, PoolInv, TrailInv
  <1>3. /\ StoreInv /\ Len(effects) \in Nat /\ DOMAIN effects = 1 .. Len(effects)
    BY <1>2, InSearch
  <1>4. /\ SearchShape(search) /\ Budgeted(search) /\ search.limit = NextBudget(req.checkpoint, MaxMetricCalls)
        /\ search.ordinal <= Len(effects) /\ Unlimited(search) = Reached(T, search.ordinal)
    BY <1>1, <1>2 DEF TrailInv, SearchInv
  <1>5. /\ search.consumed \in Nat /\ search.ordinal \in Nat /\ search.limit \in Nat
        /\ Unlimited(search).at = "parent" /\ Unlimited(search).consumed = search.consumed
    <2>1. PICK at \in {"seed", "parent", "reflect", "child", "value", "stop"},
               limit \in Nat, consumed \in Nat, ordinal \in Nat :
               \E pool, child, before, attempt, skipped :
                 search = State(at, limit, consumed, ordinal, pool, child, before, attempt, skipped)
      BY <1>4 DEF SearchShape
    <2>2. PICK pool, child, before, attempt, skipped :
                 search = State(at, limit, consumed, ordinal, pool, child, before, attempt, skipped)
      BY <2>1
    <2>3. PICK s : s = search
      OBVIOUS
    <2>4. s.at = at /\ s.limit = limit /\ s.consumed = consumed /\ s.ordinal = ordinal
      BY <2>1, <2>2, <2>3, Fields
    <2>5. at = "stop"
      BY <1>2, <2>3, <2>4
    <2>6. Unlimited(s) = State("parent", 0, consumed, ordinal, pool, child, before, attempt, skipped)
      BY <2>1, <2>2, <2>3, <2>5, Fields
    <2>7. Unlimited(s).at = "parent" /\ Unlimited(s).consumed = consumed
      BY <2>6 DEF State
    <2> QED
      BY <2>1, <2>3, <2>4, <2>7
  <1>6. search.consumed >= search.limit
    BY <1>2, <1>4 DEF Budgeted
  <1>7. Below(T, search.limit)
    BY <1>1, <1>2, <1>3, <1>4 DEF TrailInv, StoreInv, PhaseInv
  <1>8. search.ordinal = Len(effects)
    <2> SUFFICES ASSUME search.ordinal \in 0 .. Len(effects) - 1 PROVE FALSE
      BY <1>3, <1>4, <1>5
    <2>1. T[search.ordinal] = Unlimited(search)
      BY <1>2, <1>4 DEF Trail
    <2>2. T[search.ordinal].at = "parent" => T[search.ordinal].consumed < search.limit
      BY <1>7 DEF Below
    <2>3. search.consumed < search.limit
      BY <1>5, <2>1, <2>2
    <2> QED
      BY <1>5, <1>6, <2>3
  <1>9. Values' = ValuesTo(effects, search.ordinal)
    BY <1>2, <1>8 DEF Values
  <1>10. EffectsInv'
    BY <1>2 DEF GepaChoice, EffectsInv
  <1>11. PICK output, reported : output = SearchedOutput(req, search, MaxMetricCalls) /\ reported = usage
    OBVIOUS
  <1>12. PICK o : o = Spent(output, results, req, touched, reported)
    OBVIOUS
  <1>13. o.status = "complete" => Bests(Values', o.seedRetained, o.accepted)
    <2> SUFFICES ASSUME o.status = "complete" PROVE Bests(Values', o.seedRetained, o.accepted)
      OBVIOUS
    <2>1. PICK s, store : s = search /\ store = effects
      OBVIOUS
    <2>2. Chooses(o, s.pool[Best(s.pool)].text)
      BY <1>5, <1>11, <1>12, <2>1, SearchedChoice
    <2>3. Bests(ValuesTo(store, s.ordinal), o.seedRetained, o.accepted)
      BY <1>2, <2>1, <2>2, PoolBests
    <2> QED
      BY <1>9, <2>1, <2>3
  <1>14. Raise("transcript") \/ Emit(output, reported)
    BY <1>11 DEF SearchEnds, Report
  <1>15. CASE Raise("transcript")
    BY <1>2, <1>15, ChoiceRaise
  <1>16. CASE Emit(output, reported)
    BY <1>2, <1>10, <1>12, <1>13, <1>16, ChoiceEmit
  <1> QED
    BY <1>14, <1>15, <1>16

\* Without a budget nothing is measured, and the seed is retained.
LEMMA ChoiceUnbudgeted ==
    ASSUME GepaChoice, GepaInv, BudgetInv, GepaUnbudgeted
    PROVE  GepaChoice'
  <1>1. pc = "invoke" /\ results' = results /\ effects' = effects /\ ckpt' = ckpt /\ effects = <<>>
    BY DEF GepaUnbudgeted, BudgetInv
  <1>2. EffectsInv'
    BY <1>1 DEF GepaChoice, EffectsInv
  <1>3. Values' = {}
    <2>1. Len(effects') = 0
      BY <1>1
    <2> QED
      BY <2>1 DEF Values, ValuesTo
  <1>4. PICK s : s = NoSearch
    OBVIOUS
  <1>5. s.consumed = 0 /\ s.pool = <<[text |-> Seed, score |-> 0]>>
    BY <1>4 DEF NoSearch, NewSearch
  <1>6. s.pool[Best(s.pool)].text = Seed
    <2>1. DOMAIN s.pool = {1} /\ s.pool[1].text = Seed /\ s.pool[1].score = 0
      BY <1>5
    <2>2. Best(s.pool) = 1
      BY <2>1 DEF Best
    <2> QED
      BY <2>1, <2>2
  <1>7. PICK output, reported : output = SearchedOutput(req, s, MaxMetricCalls) /\ reported = usage
    OBVIOUS
  <1>8. PICK o : o = Spent(output, results, req, touched, reported)
    OBVIOUS
  <1>9. o.status = "complete" => Bests(Values', o.seedRetained, o.accepted)
    <2> SUFFICES ASSUME o.status = "complete" PROVE Bests(Values', o.seedRetained, o.accepted)
      OBVIOUS
    <2>1. s.consumed \in Nat
      BY <1>5
    <2>2. Chooses(o, s.pool[Best(s.pool)].text)
      BY <1>7, <1>8, <2>1, SearchedChoice
    <2>3. o.seedRetained = TRUE
      BY <1>6, <2>2 DEF Chooses
    <2> QED
      BY <1>3, <2>3 DEF Bests
  <1>10. Raise("transcript") \/ Emit(output, reported)
    BY <1>4, <1>7 DEF GepaUnbudgeted, Report
  <1>11. CASE Raise("transcript")
    BY <1>1, <1>11, ChoiceRaise
  <1>12. CASE Emit(output, reported)
    BY <1>1, <1>2, <1>8, <1>9, <1>12, ChoiceEmit
  <1> QED
    BY <1>10, <1>11, <1>12

LEMMA GepaChoiceNext ==
    ASSUME Minibatch # Valset, run.key = "gepa", GepaInv, BudgetInv, GepaChoice, [Next]_vars
    PROVE  GepaChoice'
  <1>1. CASE Controller
    BY <1>1, ChoiceController
  <1>2. CASE RunStep
    <2>1. CASE Checkpoint \/ BindResult \/ Park
      BY <2>1, ChoiceCheckpoint, ChoiceBind, ChoiceWaits
    <2>2. CASE \E reward \in Rewards \cup {None} : ResolveIntent(reward)
      <3>1. \E reward : ResolveIntent(reward)
        BY <2>2
      <3> QED
        BY <3>1, ChoiceWaits
    <2>3. CASE \E rewards \in UNION {[1 .. n -> Rewards \cup {None}] : n \in 1 .. Breadth} : FanInMerge(rewards)
      BY <2>3 DEF FanInMerge
    <2>4. CASE /\ pc = "parked" /\ run.key = "gepa"
               /\ \E resolution \in Resolutions(effects[Deferred].request, req.index) : FanInResume(resolution)
      BY <2>4, ChoiceResume
    <2> QED
      BY <1>2, <2>1, <2>2, <2>3, <2>4 DEF RunStep
  <1>3. CASE Invoke
    <2>1. CASE CoproInvoke
      BY <2>1 DEF CoproInvoke
    <2>2. CASE GepaBegin \/ RecordRequest \/ EvaluateReplayed \/ EvaluateRecord \/ EvaluateDeferred
      BY <2>2, ChoiceBegin, ChoiceRequest, ChoiceReplayed, ChoiceRecord, ChoiceDeferred
    <2>3. CASE \E resolution \in Resolutions(Request, req.index) : EvaluateFresh(resolution)
      BY <2>3, ChoiceFresh
    <2>4. CASE ProposeReplayed \/ SearchEnds \/ GepaUnbudgeted
      BY <2>4, ChoiceProposed, ChoiceSearched, ChoiceUnbudgeted
    <2>5. CASE \E result \in Reflections : ProposeFresh(result)
      BY <2>5, ChoiceReflected
    <2> QED
      BY <1>3, <2>1, <2>2, <2>3, <2>4, <2>5 DEF Invoke
  <1>4. CASE Crash
    <2>1. pc' = "down" /\ effects' = effects /\ results' = results /\ ckpt' = ckpt
      BY <1>4 DEF Crash, durable
    <2> QED
      BY <2>1, ChoiceIdle
  <1>5. CASE Stopped \/ UNCHANGED vars
    <2>1. UNCHANGED <<pc, search, out, ckpt, results, effects>>
      BY <1>5 DEF Stopped, vars, memory, durable
    <2>2. EffectsInv'
      BY <2>1 DEF GepaChoice, EffectsInv
    <2>3. PoolInv'
      BY <2>1 DEF GepaChoice, PoolInv
    <2>4. ChoiceInv'
      <3>1. Values' = Values
        BY <2>1 DEF Values
      <3>2. Continuing' = Continuing
        BY <2>1 DEF Continuing
      <3> QED
        BY <2>1, <3>1, <3>2 DEF GepaChoice, ChoiceInv
    <2> QED
      BY <2>2, <2>3, <2>4 DEF GepaChoice
  <1> QED
    BY <1>1, <1>2, <1>3, <1>4, <1>5 DEF Next, Step

LEMMA GepaChoiceInit ==
    ASSUME Init
    PROVE  GepaChoice
  <1>1. pc = "down" /\ effects = <<>> /\ results = <<>> /\ ckpt = None
    BY DEF Init
  <1>2. DOMAIN effects = {}
    BY <1>1
  <1> QED
    BY <1>1, <1>2 DEF GepaChoice, EffectsInv, PoolInv, ChoiceInv

LEMMA GepaMeasured ==
    ASSUME run.key = "gepa", GepaInv
    PROVE  MeasuredAs(Values)
  <1>1. DOMAIN effects = 1 .. Len(effects)
    BY Domains DEF GepaInv, StoreInv
  <1> SUFFICES ASSUME NEW t, NEW y
               PROVE  y \in Scores(t) <=> \E m \in Values : m.text = t /\ m.score = y
    BY DEF MeasuredAs
  <1>2. y \in Scores(t) <=> \E n \in DOMAIN effects :
            /\ IsValued(effects[n]) /\ effects[n].request.text = t
            /\ y = BatchScore(Valset, effects[n].result[1].rows)
    BY DEF Scores, Valued, IsValued
  <1>3. \A m : m \in Values <=> \E n \in DOMAIN effects : IsValued(effects[n]) /\ m = Valuation(effects[n])
    BY <1>1 DEF Values, ValuesTo
  <1>4. \A n : /\ Valuation(effects[n]).text = effects[n].request.text
               /\ Valuation(effects[n]).score = BatchScore(Valset, effects[n].result[1].rows)
    BY DEF Valuation, Measurement
  <1> QED
    BY <1>2, <1>3, <1>4

LEMMA GepaWins ==
    ASSUME run.key = "gepa", GepaInv, GepaChoice, FinalInv
    PROVE  WinnerIsBest
  <1>1. final # None /\ final.status = "complete" => Bests(Values, final.seed, final.accepted)
    <2> SUFFICES ASSUME final # None, final.status = "complete"
                 PROVE  Bests(Values, final.seed, final.accepted)
      OBVIOUS
    <2>1. /\ results # <<>> /\ final.status = results[Len(results)].status
          /\ final.accepted = results[Len(results)].accepted
          /\ final.seed = results[Len(results)].seedRetained
      BY DEF FinalInv
    <2> QED
      BY <2>1 DEF GepaChoice, ChoiceInv
  <1>2. MeasuredAs(Values)
    BY GepaMeasured
  <1> QED
    BY <1>1, <1>2, BestIsWinner

-----------------------------------------------------------------------------
(* The winner of a run.                                                    *)

WinnerInv ==
    /\ RunInv /\ FinalInv
    /\ run.key = "copro" => CoproInv
    /\ run.key = "gepa" => GepaChoice

LEMMA WinnerNext ==
    ASSUME Minibatch # Valset, NoneIsNoOutput, IInv, WinnerInv, [Next]_vars
    PROVE  WinnerInv'
  <1>1. run' = run
    BY RunKept
  <1>2. RunInv'
    BY <1>1 DEF WinnerInv, RunInv
  <1>3. FinalInv'
    BY FinalNext DEF WinnerInv
  <1>4. run.key = "copro" => CoproInv'
    BY CoproNextInvariant DEF WinnerInv
  <1>5. run.key = "gepa" => GepaChoice'
    BY GepaChoiceNext DEF WinnerInv, IInv
  <1> QED
    BY <1>1, <1>2, <1>3, <1>4, <1>5 DEF WinnerInv

\* A completed run returns the best it measured (WinnerIsBest): COPRO's ranking of the
\* folded history of all its rounds, and the best of the pool of GEPA's last replayed
\* search, with any number of crashes, deferrals and lost results.  A valuation is told
\* from a minibatch evaluation by its batch, so the two batches must differ, and None
\* must not be a record with a status.
THEOREM WinnerAlwaysBest ==
    ASSUME Minibatch # Valset, NoneIsNoOutput
    PROVE  Spec => []WinnerIsBest
  <1>1. Init => WinnerInv
    BY CoproInit, GepaChoiceInit DEF WinnerInv
  <1>2. IInv /\ WinnerInv /\ [Next]_vars => WinnerInv'
    BY WinnerNext
  <1>3. IInv /\ WinnerInv => WinnerIsBest
    <2> SUFFICES ASSUME IInv, WinnerInv PROVE WinnerIsBest
      OBVIOUS
    <2>1. RunInv /\ FinalInv
      BY DEF WinnerInv
    <2>2. CASE run.key = "copro"
      BY <2>1, <2>2, CoproWins DEF WinnerInv
    <2>3. CASE run.key = "gepa"
      BY <2>1, <2>3, GepaWins DEF WinnerInv, IInv
    <2> QED
      BY <2>1, <2>2, <2>3 DEF RunInv
  <1> QED
    BY <1>1, <1>2, <1>3, Invariance, PTL DEF Spec

=============================================================================
