--------------------------- MODULE Miprov2Proofs ---------------------------
(***************************************************************************)
(* A completed MIPROv2 run has run the schedule it announced, and its      *)
(* winner heads the ranking it reports.  For every resolved control, every *)
(* effect budget, every score, failure and suggestion.                     *)
(***************************************************************************)
EXTENDS Miprov2, SequenceTheorems, FiniteSetTheorems, WellFoundedInduction, TLAPS
-----------------------------------------------------------------------------
(* Induction over numbers, and folds.                                       *)

\* Induction over the naturals, for a set.
LEMMA NatSetInduction ==
    ASSUME NEW S \in SUBSET Nat, 0 \in S, \A n \in S : n + 1 \in S
    PROVE  S = Nat
  <1> DEFINE R == OpToRel(<, Nat)
  <1> SUFFICES ASSUME Nat \ S # {} PROVE FALSE
    OBVIOUS
  <1>1. IsWellFoundedOn(R, Nat)
    BY NatLessThanWellFounded
  <1>2. \A x, y \in Nat : x < y => <<x, y>> \in R
    BY DEF OpToRel
  <1> HIDE DEF R
  <1>3. \E x \in Nat \ S : \A y \in Nat \ S : ~ (<<y, x>> \in R)
    BY <1>1, WFMin
  <1>4. PICK x \in Nat \ S : \A y \in Nat \ S : ~ (<<y, x>> \in R)
    BY <1>3
  <1>5. x # 0 /\ x - 1 \in Nat /\ x - 1 < x
    OBVIOUS
  <1>6. x - 1 \in S
    BY <1>2, <1>4, <1>5
  <1>7. x - 1 + 1 \in S
    BY <1>6
  <1> QED
    BY <1>4, <1>5, <1>7

\* The largest of some places is one of them.
LEMMA LargestPlace ==
    ASSUME NEW n \in Nat, NEW s \in SUBSET (1 .. n), s # {}
    PROVE  Max(s) \in s
  <1> DEFINE P(m) == \A t \in SUBSET (1 .. m) : t # {} => \E x \in t : \A y \in t : x >= y
             N == {m \in Nat : P(m)}
  <1>1. 0 \in N
    <2>1. 1 .. 0 = {}
      OBVIOUS
    <2>2. \A t \in SUBSET {} : t = {}
      OBVIOUS
    <2> QED
      BY <2>1, <2>2
  <1>2. \A m \in N : m + 1 \in N
    <2> SUFFICES ASSUME NEW m \in Nat, P(m), NEW t \in SUBSET (1 .. m + 1), t # {}
                 PROVE  \E x \in t : \A y \in t : x >= y
      OBVIOUS
    <2>1. CASE m + 1 \in t
      BY <2>1
    <2>2. CASE m + 1 \notin t
      <3>1. t \in SUBSET (1 .. m)
        BY <2>2
      <3> QED
        BY <3>1
    <2> QED
      BY <2>1, <2>2
  <1>3. N = Nat
    <2> HIDE DEF N
    <2> QED
      BY <1>1, <1>2, NatSetInduction DEF N
  <1>4. P(n)
    BY <1>3
  <1>5. \E x \in s : \A y \in s : x >= y
    BY <1>4
  <1> QED
    BY <1>5 DEF Max

\* f folds the places 1 .. n, the largest last.
Folds(f, n, base, step) ==
    f = [s \in SUBSET (1 .. n) |-> IF s = {} THEN base ELSE step[<<f[s \ {Max(s)}], Max(s)>>]]

\* A fold exists, and its values are where its steps lead.
LEMMA FoldExists ==
    ASSUME NEW n \in Nat, NEW X, NEW base \in X, NEW step, \A x \in X, i \in 1 .. n : step[<<x, i>>] \in X
    PROVE  \E f : Folds(f, n, base, step) /\ \A s \in SUBSET (1 .. n) : f[s] \in X
  <1> DEFINE S == 1 .. n
             Term(f, s) == IF s = {} THEN base ELSE step[<<f[s \ {Max(s)}], Max(s)>>]
             UpTo(m) == {s \in SUBSET S : Cardinality(s) <= m}
             Done(f, m) == /\ f = [s \in SUBSET S |-> f[s]]
                           /\ \A s \in SUBSET S : f[s] \in X
                           /\ \A s \in UpTo(m) : f[s] = Term(f, s)
             N == {m \in Nat : \E f : Done(f, m)}
  <1>0. IsFiniteSet(S)
    BY FS_Interval
  <1>1. \A s \in SUBSET S : IsFiniteSet(s) /\ Cardinality(s) \in Nat /\ (Cardinality(s) = 0 <=> s = {})
    BY <1>0, FS_Subset, FS_CardinalityType, FS_EmptySet
  <1>2. \A s \in SUBSET S : s # {} =>
            Max(s) \in S /\ s \ {Max(s)} \in SUBSET S /\ Cardinality(s \ {Max(s)}) = Cardinality(s) - 1
    <2> SUFFICES ASSUME NEW s \in SUBSET S, s # {}
                 PROVE  /\ Max(s) \in S /\ s \ {Max(s)} \in SUBSET S
                        /\ Cardinality(s \ {Max(s)}) = Cardinality(s) - 1
      OBVIOUS
    <2>1. Max(s) \in s
      BY LargestPlace
    <2> QED
      BY <1>1, <2>1, FS_RemoveElement
  <1>3. 0 \in N
    <2>1. PICK f : f = [s \in SUBSET S |-> base]
      OBVIOUS
    <2>2. ASSUME NEW s \in UpTo(0) PROVE f[s] = Term(f, s)
      BY <1>1, <2>1
    <2> QED
      BY <2>1, <2>2
  <1>4. \A m \in N : m + 1 \in N
    <2> SUFFICES ASSUME NEW m \in Nat, \E f : Done(f, m) PROVE \E g : Done(g, m + 1)
      <3>1. \A m \in Nat : m + 1 \in Nat
        OBVIOUS
      <3> HIDE DEF Done
      <3> QED
        BY <3>1
    <2>1. PICK f : Done(f, m)
      OBVIOUS
    <2>2. PICK g : g = [s \in SUBSET S |-> IF Cardinality(s) <= m THEN f[s] ELSE Term(f, s)]
      OBVIOUS
    <2>3. \A s \in SUBSET S : f[s] \in X
      BY <2>1
    <2>4. \A s \in SUBSET S : Term(f, s) \in X
      BY <1>2, <2>3
    <2>5. \A s \in SUBSET S : g[s] \in X
      BY <2>2, <2>3, <2>4
    <2>6. ASSUME NEW s \in UpTo(m + 1) PROVE g[s] = Term(g, s)
      <3>1. g[s] = Term(f, s)
        BY <2>1, <2>2, <2>6
      <3>2. CASE s = {}
        BY <3>1, <3>2
      <3>3. CASE s # {}
        <4>1. s \ {Max(s)} \in SUBSET S /\ Cardinality(s \ {Max(s)}) <= m
          BY <1>1, <1>2, <2>6, <3>3
        <4>2. g[s \ {Max(s)}] = f[s \ {Max(s)}]
          BY <2>2, <4>1
        <4> QED
          BY <3>1, <3>3, <4>2
      <3> QED
        BY <3>2, <3>3
    <2> QED
      BY <2>2, <2>5, <2>6
  <1>5. N = Nat
    <2> HIDE DEF N
    <2> QED
      BY <1>3, <1>4, NatSetInduction DEF N
  <1>6. Cardinality(S) \in N
    BY <1>1, <1>5
  <1>7. PICK f : Done(f, Cardinality(S))
    BY <1>6
  <1>8. \A s \in SUBSET S : Cardinality(s) <= Cardinality(S)
    BY <1>0, FS_Subset
  <1>9. \A s \in SUBSET S : f[s] = Term(f, s)
    BY <1>1, <1>7, <1>8
  <1> QED
    BY <1>7, <1>9 DEF Folds

\* The largest of the first places
LEMMA FirstPlaces ==
    ASSUME NEW k \in Nat \ {0}
    PROVE  1 .. k # {} /\ Max(1 .. k) = k /\ (1 .. k) \ {k} = 1 .. k - 1
  <1>1. k \in 1 .. k /\ \A y \in 1 .. k : k >= y
    OBVIOUS
  <1>2. \A x \in 1 .. k : (\A y \in 1 .. k : x >= y) => x = k
    BY <1>1
  <1>3. Max(1 .. k) = k
    <2>1. PICK S : S = 1 .. k
      OBVIOUS
    <2>2. \E x \in S : \A y \in S : x >= y
      BY <1>1, <2>1
    <2>3. Max(S) \in S /\ \A y \in S : Max(S) >= y
      BY <2>2 DEF Max
    <2> QED
      BY <1>2, <2>1, <2>3
  <1>4. (1 .. k) \ {k} = 1 .. k - 1
    OBVIOUS
  <1> QED
    BY <1>1, <1>3, <1>4

-----------------------------------------------------------------------------
(* The full evaluations of a study, and the best of them.                  *)

\* What is appended to a sequence is added to its range, and its head stays.
LEMMA Concatenated ==
    ASSUME NEW E, NEW q \in Seq(E), NEW r \in Seq(E)
    PROVE  /\ q \o r \in Seq(E) /\ Range(q \o r) = Range(q) \cup Range(r)
           /\ q # <<>> => q \o r # <<>> /\ (q \o r)[1] = q[1]
  <1>1. PICK t : t = q \o r
    OBVIOUS
  <1>2. /\ t \in Seq(E) /\ Len(t) = Len(q) + Len(r) /\ Len(q) \in Nat /\ Len(r) \in Nat
        /\ \A i \in 1 .. Len(t) : t[i] = IF i <= Len(q) THEN q[i] ELSE r[i - Len(q)]
    BY <1>1, ConcatProperties
  <1>3. DOMAIN q = 1 .. Len(q) /\ DOMAIN r = 1 .. Len(r) /\ DOMAIN t = 1 .. Len(t)
    BY <1>2
  <1>4. ASSUME NEW e \in Range(t) PROVE e \in Range(q) \cup Range(r)
    <2>1. PICK i \in 1 .. Len(t) : e = t[i]
      BY <1>3 DEF Range
    <2>2. CASE i <= Len(q)
      BY <1>2, <1>3, <2>1, <2>2 DEF Range
    <2>3. CASE i > Len(q)
      <3>1. i - Len(q) \in 1 .. Len(r) /\ e = r[i - Len(q)]
        BY <1>2, <2>1, <2>3
      <3> QED
        BY <1>3, <3>1 DEF Range
    <2> QED
      BY <1>2, <2>2, <2>3
  <1>5. ASSUME NEW e \in Range(q) PROVE e \in Range(t)
    <2>1. PICK i \in 1 .. Len(q) : e = q[i]
      BY <1>3 DEF Range
    <2>2. i \in 1 .. Len(t) /\ t[i] = q[i]
      BY <1>2, <2>1
    <2> QED
      BY <1>3, <2>1, <2>2 DEF Range
  <1>6. ASSUME NEW e \in Range(r) PROVE e \in Range(t)
    <2>1. PICK i \in 1 .. Len(r) : e = r[i]
      BY <1>3 DEF Range
    <2>2. PICK k : k = i + Len(q)
      OBVIOUS
    <2>3. k \in 1 .. Len(t) /\ ~ (k <= Len(q)) /\ k - Len(q) = i
      BY <1>2, <2>1, <2>2
    <2>4. t[k] = r[i]
      BY <1>2, <2>3
    <2> QED
      BY <1>3, <2>1, <2>3, <2>4 DEF Range
  <1>7. ASSUME q # <<>> PROVE t # <<>> /\ t[1] = q[1]
    <2>1. Len(q) > 0
      BY <1>2, <1>7, EmptySeq
    <2>2. Len(t) > 0 /\ 1 \in 1 .. Len(t)
      BY <1>2, <2>1
    <2> QED
      BY <1>2, <2>1, <2>2
  <1> QED
    BY <1>1, <1>2, <1>4, <1>5, <1>6, <1>7

\* A full evaluation, of a sample or of a promotion
FullOf(e) == [combo |-> e.combo, score |-> e.score]

\* What the first k samples have evaluated fully, with the baseline
FullSet(ctl, b, samples, k) ==
    {FullOf([combo |-> Base, score |-> b])}
    \cup {FullOf(samples[i]) : i \in {j \in 1 .. k : ~ ctl.minibatch}}
    \cup {FullOf(samples[i].promotion) : i \in {j \in 1 .. k : samples[j].promotion # None}}

\* The full evaluations are the baseline and what the samples evaluated fully.
LEMMA FullEvaluationsAre ==
    ASSUME NEW ctl, NEW b, NEW samples, NEW n \in Nat, DOMAIN samples = 1 .. n
    PROVE  /\ FullEvaluations(ctl, b, samples) \in Seq(FullSet(ctl, b, samples, n))
           /\ FullEvaluations(ctl, b, samples) # <<>>
           /\ FullEvaluations(ctl, b, samples)[1] = [combo |-> Base, score |-> b]
           /\ Range(FullEvaluations(ctl, b, samples)) = FullSet(ctl, b, samples, n)
  <1>1. PICK head : head = [combo |-> Base, score |-> b]
    OBVIOUS
  <1>2. FullOf([combo |-> Base, score |-> b]) = head
    BY <1>1 DEF FullOf
  <1>3. PICK trial : trial = [i \in 1 .. n |-> IF ctl.minibatch THEN <<>>
                                            ELSE <<[combo |-> samples[i].combo, score |-> samples[i].score]>>]
    OBVIOUS
  <1>4. PICK full : full = [i \in 1 .. n |->
            IF samples[i].promotion = None THEN <<>>
            ELSE <<[combo |-> samples[i].promotion.combo, score |-> samples[i].promotion.score]>>]
    OBVIOUS
  <1>5. PICK E : E = {head} \cup {FullOf(samples[i]) : i \in 1 .. n} \cup {FullOf(samples[i].promotion) : i \in 1 .. n}
    OBVIOUS
  <1>6. ASSUME NEW i \in 1 .. n
        PROVE  /\ trial[i] \in Seq(E) /\ Range(trial[i]) = IF ctl.minibatch THEN {} ELSE {FullOf(samples[i])}
               /\ full[i] \in Seq(E)
               /\ Range(full[i]) = IF samples[i].promotion = None THEN {} ELSE {FullOf(samples[i].promotion)}
    <2>1. FullOf(samples[i]) \in E /\ FullOf(samples[i].promotion) \in E
      BY <1>5
    <2>2. \A e \in E : <<e>> \in Seq(E) /\ Range(<<e>>) = {e}
      <3> SUFFICES ASSUME NEW e \in E PROVE <<e>> \in Seq(E) /\ Range(<<e>>) = {e}
        OBVIOUS
      <3>1. <<e>> \in Seq(E) /\ DOMAIN <<e>> = {1} /\ <<e>>[1] = e
        OBVIOUS
      <3>2. Range(<<e>>) = {<<e>>[x] : x \in {1}}
        BY <3>1 DEF Range
      <3> QED
        BY <3>1, <3>2
    <2>3. <<>> \in Seq(E) /\ Range(<<>>) = {}
      BY DEF Range
    <2>4. trial[i] = IF ctl.minibatch THEN <<>> ELSE <<FullOf(samples[i])>>
      BY <1>3 DEF FullOf
    <2>5. full[i] = IF samples[i].promotion = None THEN <<>> ELSE <<FullOf(samples[i].promotion)>>
      BY <1>4 DEF FullOf
    <2> QED
      BY <2>1, <2>2, <2>3, <2>4, <2>5
  <1> DEFINE Flat(f) == f = [s \in SUBSET (1 .. n) |-> IF s = {} THEN <<head>>
                                ELSE f[s \ {Max(s)}] \o trial[Max(s)] \o full[Max(s)]]
  <1>7. PICK step : step = [p \in Seq(E) \X (1 .. n) |-> p[1] \o trial[p[2]] \o full[p[2]]]
    OBVIOUS
  <1>8. \A x \in Seq(E), i \in 1 .. n : step[<<x, i>>] = x \o trial[i] \o full[i] /\ step[<<x, i>>] \in Seq(E)
    BY <1>6, <1>7, Concatenated
  <1>9. <<head>> \in Seq(E)
    BY <1>5
  <1>10. \E f : Flat(f)
    <2>1. PICK f : Folds(f, n, <<head>>, step) /\ \A s \in SUBSET (1 .. n) : f[s] \in Seq(E)
      BY <1>8, <1>9, FoldExists
    <2>2. ASSUME NEW s \in SUBSET (1 .. n), s # {}
          PROVE  step[<<f[s \ {Max(s)}], Max(s)>>] = f[s \ {Max(s)}] \o trial[Max(s)] \o full[Max(s)]
      <3>1. Max(s) \in 1 .. n /\ s \ {Max(s)} \in SUBSET (1 .. n)
        BY <2>2, LargestPlace
      <3> QED
        BY <1>8, <2>1, <3>1
    <2>3. Flat(f)
      BY <2>1, <2>2 DEF Folds
    <2> HIDE DEF Flat
    <2> QED
      BY <2>3
  <1>11. PICK f : f = CHOOSE g : Flat(g)
    OBVIOUS
  <1>12. Flat(f)
    <2> HIDE DEF Flat
    <2> QED
      BY <1>10, <1>11
  <1>13. FullEvaluations(ctl, b, samples) = f[1 .. n]
    <2>1. ASSUME NEW g PROVE Flat(g) <=>
              g = [s \in SUBSET (1 .. n) |-> IF s = {} THEN <<head>>
                     ELSE g[s \ {Max(s)}]
                          \o (IF ctl.minibatch THEN <<>>
                              ELSE <<[combo |-> samples[Max(s)].combo, score |-> samples[Max(s)].score]>>)
                          \o (IF samples[Max(s)].promotion = None THEN <<>>
                              ELSE <<[combo |-> samples[Max(s)].promotion.combo,
                                      score |-> samples[Max(s)].promotion.score]>>)]
      <3>1. ASSUME NEW s \in SUBSET (1 .. n), s # {}
            PROVE  /\ trial[Max(s)] = IF ctl.minibatch THEN <<>>
                              ELSE <<[combo |-> samples[Max(s)].combo, score |-> samples[Max(s)].score]>>
                   /\ full[Max(s)] = IF samples[Max(s)].promotion = None THEN <<>>
                              ELSE <<[combo |-> samples[Max(s)].promotion.combo,
                                      score |-> samples[Max(s)].promotion.score]>>
        <4>1. Max(s) \in 1 .. n
          BY <3>1, LargestPlace
        <4> QED
          BY <1>3, <1>4, <4>1
      <3> QED
        BY <3>1
    <2>2. f = CHOOSE g :
              g = [s \in SUBSET (1 .. n) |-> IF s = {} THEN <<head>>
                     ELSE g[s \ {Max(s)}]
                          \o (IF ctl.minibatch THEN <<>>
                              ELSE <<[combo |-> samples[Max(s)].combo, score |-> samples[Max(s)].score]>>)
                          \o (IF samples[Max(s)].promotion = None THEN <<>>
                              ELSE <<[combo |-> samples[Max(s)].promotion.combo,
                                      score |-> samples[Max(s)].promotion.score]>>)]
      <3> HIDE DEF Flat
      <3> QED
        BY <1>11, <2>1
    <2> QED
      BY <1>1, <2>2 DEF FullEvaluations, FoldLeft, MapThenFoldSet
  <1> DEFINE Of(k) == {head} \cup {FullOf(samples[i]) : i \in {j \in 1 .. k : ~ ctl.minibatch}}
                      \cup {FullOf(samples[i].promotion) : i \in {j \in 1 .. k : samples[j].promotion # None}}
             P(k) == k <= n => /\ f[1 .. k] \in Seq(E) /\ f[1 .. k] # <<>> /\ f[1 .. k][1] = head
                               /\ Range(f[1 .. k]) = Of(k)
             N == {k \in Nat : P(k)}
  <1>14. 0 \in N
    <2>1. 1 .. 0 = {} /\ f[{}] = <<head>>
      BY <1>12
    <2>2. Range(<<head>>) = {head}
      <3>1. DOMAIN <<head>> = {1} /\ <<head>>[1] = head
        OBVIOUS
      <3>2. Range(<<head>>) = {<<head>>[x] : x \in {1}}
        BY <3>1 DEF Range
      <3> QED
        BY <3>1, <3>2
    <2>3. Of(0) = {head}
      BY <2>1
    <2>4. <<head>> # <<>> /\ <<head>>[1] = head
      OBVIOUS
    <2>5. P(0)
      <3> HIDE DEF Of
      <3> QED
        BY <1>9, <2>1, <2>2, <2>3, <2>4
    <2> HIDE DEF P
    <2> QED
      BY <2>5
  <1>15. \A k \in N : k + 1 \in N
    <2> SUFFICES ASSUME NEW k \in Nat, P(k) PROVE P(k + 1)
      <3> HIDE DEF P
      <3> QED
        OBVIOUS
    <2> SUFFICES ASSUME k + 1 <= n
                 PROVE  /\ f[1 .. k + 1] \in Seq(E) /\ f[1 .. k + 1] # <<>> /\ f[1 .. k + 1][1] = head
                        /\ Range(f[1 .. k + 1]) = Of(k + 1)
      OBVIOUS
    <2>1. PICK q : q = f[1 .. k]
      OBVIOUS
    <2>2. q \in Seq(E) /\ q # <<>> /\ q[1] = head /\ Range(q) = Of(k)
      <3> HIDE DEF Of
      <3> QED
        BY <2>1
    <2>3. k + 1 \in 1 .. n /\ 1 .. k + 1 \in SUBSET (1 .. n)
      OBVIOUS
    <2>4. f[1 .. k + 1] = q \o trial[k + 1] \o full[k + 1]
      <3>1. 1 .. k + 1 # {} /\ Max(1 .. k + 1) = k + 1 /\ (1 .. k + 1) \ {k + 1} = 1 .. k
        BY FirstPlaces
      <3> QED
        BY <1>12, <2>1, <2>3, <3>1
    <2>5. PICK r : r = q \o trial[k + 1]
      OBVIOUS
    <2>6. r \in Seq(E) /\ r # <<>> /\ r[1] = head /\ Range(r) = Of(k) \cup Range(trial[k + 1])
      <3>1. trial[k + 1] \in Seq(E)
        BY <1>6, <2>3
      <3> HIDE DEF Of
      <3> QED
        BY <2>2, <2>5, <3>1, Concatenated
    <2>7. /\ f[1 .. k + 1] \in Seq(E) /\ f[1 .. k + 1] # <<>> /\ f[1 .. k + 1][1] = head
          /\ Range(f[1 .. k + 1]) = Of(k) \cup Range(trial[k + 1]) \cup Range(full[k + 1])
      <3>1. full[k + 1] \in Seq(E) /\ f[1 .. k + 1] = r \o full[k + 1]
        BY <1>6, <2>3, <2>4, <2>5
      <3> HIDE DEF Of
      <3> QED
        BY <2>6, <3>1, Concatenated
    <2>8. Of(k + 1) = Of(k) \cup (IF ctl.minibatch THEN {} ELSE {FullOf(samples[k + 1])})
                            \cup (IF samples[k + 1].promotion = None THEN {} ELSE {FullOf(samples[k + 1].promotion)})
      <3>1. \A i : i \in 1 .. k + 1 <=> i \in 1 .. k \/ i = k + 1
        OBVIOUS
      <3> QED
        BY <3>1
    <2>9. Range(f[1 .. k + 1]) = Of(k + 1)
      <3> HIDE DEF Of
      <3> QED
        BY <1>6, <2>3, <2>7, <2>8
    <2> QED
      BY <2>7, <2>9
  <1>16. N = Nat
    <2> HIDE DEF N
    <2> QED
      BY <1>14, <1>15, NatSetInduction DEF N
  <1>17. PICK evals : evals = FullEvaluations(ctl, b, samples)
    OBVIOUS
  <1>18. evals \in Seq(E) /\ evals # <<>> /\ evals[1] = head /\ Range(evals) = Of(n)
    <2>1. P(n)
      <3> HIDE DEF P
      <3> QED
        BY <1>16
    <2> HIDE DEF Of
    <2> QED
      BY <1>13, <1>17, <2>1
  <1>19. Of(n) = FullSet(ctl, b, samples, n)
    BY <1>2 DEF FullSet
  <1>20. evals \in Seq(Range(evals))
    <2>1. DOMAIN evals = 1 .. Len(evals) /\ Len(evals) \in Nat /\ evals = [i \in 1 .. Len(evals) |-> evals[i]]
      BY <1>18
    <2>2. \A i \in 1 .. Len(evals) : evals[i] \in Range(evals)
      BY <2>1 DEF Range
    <2> QED
      BY <2>1, <2>2
  <1> QED
    BY <1>1, <1>17, <1>18, <1>19, <1>20

\* The best of some evaluations: one of them, below none.
BestOf(best, head, seq, k) ==
    /\ best \in {head} \cup {seq[i] : i \in 1 .. k}
    /\ best.score >= head.score /\ \A i \in 1 .. k : best.score >= seq[i].score

\* Folding with the comparison of best_full_evaluation leaves the best.
LEMMA BestFolds ==
    ASSUME NEW ctl, NEW b, NEW samples, NEW head, head = [combo |-> Base, score |-> b],
           NEW seq, seq = Tail(FullEvaluations(ctl, b, samples)), NEW n \in Nat, DOMAIN seq = 1 .. n,
           head.score \in Int, \A i \in 1 .. n : seq[i].score \in Int
    PROVE  BestOf(BestFullEvaluation(ctl, b, samples), head, seq, n)
  <1> DEFINE Picks(f) == f = [s \in SUBSET (1 .. n) |-> IF s = {} THEN head
                                ELSE IF seq[Max(s)].score > f[s \ {Max(s)}].score THEN seq[Max(s)]
                                     ELSE f[s \ {Max(s)}]]
  <1>1. PICK E : E = {head} \cup {seq[i] : i \in 1 .. n}
    OBVIOUS
  <1>2. PICK step : step = [p \in E \X (1 .. n) |-> IF seq[p[2]].score > p[1].score THEN seq[p[2]] ELSE p[1]]
    OBVIOUS
  <1>3. \A x \in E, i \in 1 .. n :
            step[<<x, i>>] = (IF seq[i].score > x.score THEN seq[i] ELSE x) /\ step[<<x, i>>] \in E
    BY <1>1, <1>2
  <1>4. \E f : Picks(f)
    <2>1. PICK f : Folds(f, n, head, step) /\ \A s \in SUBSET (1 .. n) : f[s] \in E
      BY <1>1, <1>3, FoldExists
    <2>2. ASSUME NEW s \in SUBSET (1 .. n), s # {}
          PROVE  step[<<f[s \ {Max(s)}], Max(s)>>]
                    = IF seq[Max(s)].score > f[s \ {Max(s)}].score THEN seq[Max(s)] ELSE f[s \ {Max(s)}]
      <3>1. Max(s) \in 1 .. n /\ s \ {Max(s)} \in SUBSET (1 .. n)
        BY <2>2, LargestPlace
      <3> QED
        BY <1>3, <2>1, <3>1
    <2>3. Picks(f)
      BY <2>1, <2>2 DEF Folds
    <2> HIDE DEF Picks
    <2> QED
      BY <2>3
  <1>5. PICK f : f = CHOOSE g : Picks(g)
    OBVIOUS
  <1>6. Picks(f)
    <2> HIDE DEF Picks
    <2> QED
      BY <1>4, <1>5
  <1>7. BestFullEvaluation(ctl, b, samples) = f[1 .. n]
    BY <1>5 DEF BestFullEvaluation, FoldLeft, MapThenFoldSet
  <1> DEFINE P(k) == k <= n => BestOf(f[1 .. k], head, seq, k)
             N == {k \in Nat : P(k)}
  <1>8. 0 \in N
    <2>1. 1 .. 0 = {} /\ f[{}] = head
      BY <1>6
    <2>2. BestOf(f[1 .. 0], head, seq, 0)
      BY <2>1 DEF BestOf
    <2> QED
      BY <2>2
  <1>9. \A k \in N : k + 1 \in N
    <2> SUFFICES ASSUME NEW k \in Nat, P(k) PROVE P(k + 1)
      <3> HIDE DEF P
      <3> QED
        OBVIOUS
    <2> SUFFICES ASSUME k + 1 <= n PROVE BestOf(f[1 .. k + 1], head, seq, k + 1)
      OBVIOUS
    <2>1. PICK q : q = f[1 .. k]
      OBVIOUS
    <2>2. BestOf(q, head, seq, k)
      BY <2>1
    <2>3. k + 1 \in 1 .. n /\ 1 .. k + 1 \in SUBSET (1 .. n)
      OBVIOUS
    <2>4. f[1 .. k + 1] = IF seq[k + 1].score > q.score THEN seq[k + 1] ELSE q
      <3>1. 1 .. k + 1 # {} /\ Max(1 .. k + 1) = k + 1 /\ (1 .. k + 1) \ {k + 1} = 1 .. k
        <4>1. PICK l \in Nat \ {0} : l = k + 1
          OBVIOUS
        <4>2. 1 .. l # {} /\ Max(1 .. l) = l /\ (1 .. l) \ {l} = 1 .. l - 1
          BY <4>1, FirstPlaces
        <4>3. l - 1 = k
          BY <4>1
        <4> QED
          BY <4>1, <4>2, <4>3
      <3> QED
        BY <1>6, <2>1, <2>3, <3>1
    <2>5. q.score \in Int /\ seq[k + 1].score \in Int
      BY <2>2, <2>3 DEF BestOf
    <2>6. \A i : i \in 1 .. k + 1 <=> i \in 1 .. k \/ i = k + 1
      OBVIOUS
    <2>7. \A i \in 1 .. k : seq[i].score \in Int
      OBVIOUS
    <2>8. CASE seq[k + 1].score > q.score
      <3>1. f[1 .. k + 1] = seq[k + 1]
        BY <2>4, <2>8
      <3>2. seq[k + 1].score >= head.score /\ \A i \in 1 .. k : seq[k + 1].score >= seq[i].score
        BY <2>2, <2>5, <2>7, <2>8 DEF BestOf
      <3>3. \A i \in 1 .. k + 1 : seq[k + 1].score >= seq[i].score
        BY <2>5, <2>6, <3>2
      <3>4. seq[k + 1] \in {head} \cup {seq[i] : i \in 1 .. k + 1}
        BY <2>6
      <3>5. BestOf(seq[k + 1], head, seq, k + 1)
        BY <3>2, <3>3, <3>4 DEF BestOf
      <3> QED
        BY <3>1, <3>5
    <2>9. CASE ~ (seq[k + 1].score > q.score)
      <3>1. f[1 .. k + 1] = q
        BY <2>4, <2>9
      <3> QED
        BY <2>2, <2>5, <2>6, <2>7, <2>9, <3>1 DEF BestOf
    <2> QED
      BY <2>8, <2>9
  <1>10. N = Nat
    <2> HIDE DEF N
    <2> QED
      BY <1>8, <1>9, NatSetInduction DEF N
  <1>11. P(n)
    <2> HIDE DEF P
    <2> QED
      BY <1>10
  <1> QED
    BY <1>7, <1>11

\* The best full evaluation is a full evaluation, below none.
LEMMA BestFullEvaluationIs ==
    ASSUME NEW ctl, NEW b \in Int, NEW samples, NEW n \in Nat, DOMAIN samples = 1 .. n,
           \A i \in 1 .. n : /\ samples[i].score \in Int
                             /\ samples[i].promotion # None => samples[i].promotion.score \in Int
    PROVE  /\ BestFullEvaluation(ctl, b, samples) \in FullSet(ctl, b, samples, n)
           /\ \A e \in FullSet(ctl, b, samples, n) :
                  e.score \in Int /\ BestFullEvaluation(ctl, b, samples).score >= e.score
  <1>1. PICK evals, E : evals = FullEvaluations(ctl, b, samples) /\ E = FullSet(ctl, b, samples, n)
    OBVIOUS
  <1>2. PICK head : head = [combo |-> Base, score |-> b]
    OBVIOUS
  <1>3. evals \in Seq(E) /\ evals # <<>> /\ evals[1] = head /\ Range(evals) = E
    BY <1>1, <1>2, FullEvaluationsAre
  <1>4. ASSUME NEW e \in E PROVE e.score \in Int
    BY <1>1 DEF FullSet, FullOf
  <1>5. PICK seq : seq = Tail(evals)
    OBVIOUS
  <1>6. Len(evals) \in Nat /\ Len(evals) > 0 /\ DOMAIN evals = 1 .. Len(evals)
    BY <1>3, EmptySeq
  <1>7. PICK m \in Nat : m = Len(evals) - 1
    <2>1. Len(evals) - 1 \in Nat
      BY <1>6
    <2> QED
      BY <2>1
  <1>8. DOMAIN seq = 1 .. m /\ \A i \in 1 .. m : seq[i] = evals[i + 1]
    <2>1. seq \in Seq(E) /\ Len(seq) = Len(evals) - 1 /\ \A i \in 1 .. Len(seq) : seq[i] = evals[i + 1]
      BY <1>3, <1>5, HeadTailProperties
    <2> QED
      BY <1>7, <2>1
  <1>9. head \in E /\ \A i \in 1 .. m : seq[i] \in E
    BY <1>3, <1>6, <1>7, <1>8 DEF Range
  <1>10. head.score \in Int /\ \A i \in 1 .. m : seq[i].score \in Int
    BY <1>4, <1>9
  <1>11. PICK best : best = BestFullEvaluation(ctl, b, samples)
    OBVIOUS
  <1>12. BestOf(best, head, seq, m)
    BY <1>1, <1>2, <1>5, <1>8, <1>10, <1>11, BestFolds
  <1>13. best \in E
    BY <1>9, <1>12 DEF BestOf
  <1>14. ASSUME NEW e \in E PROVE best.score >= e.score
    <2>1. PICK i \in 1 .. Len(evals) : e = evals[i]
      BY <1>3, <1>6 DEF Range
    <2>2. CASE i = 1
      BY <1>3, <1>12, <2>1, <2>2 DEF BestOf
    <2>3. CASE i # 1
      <3>1. PICK j \in 1 .. m : i = j + 1
        BY <1>6, <1>7, <2>1, <2>3
      <3>2. e = seq[j]
        BY <1>8, <2>1, <3>1
      <3> QED
        BY <1>12, <3>2 DEF BestOf
    <2> QED
      BY <2>2, <2>3
  <1> QED
    BY <1>1, <1>4, <1>11, <1>13, <1>14

-----------------------------------------------------------------------------
(* The schedule of a study.                                                *)

\* A larger multiple is larger by at least one step.
LEMMA MultiplesGrow ==
    ASSUME NEW m \in Nat, NEW a \in Nat, NEW b \in Nat, a < b
    PROVE  a * m \in Nat /\ b * m \in Nat /\ a * m + m <= b * m
  <1>1. PICK d \in Nat : b = a + 1 + d
    <2>1. b - a - 1 \in Nat /\ b = a + 1 + (b - a - 1)
      OBVIOUS
    <2> QED
      BY <2>1
  <1>2. d * m \in Nat /\ a * m \in Nat /\ b * m \in Nat
    OBVIOUS
  <1>3. b * m = a * m + m + d * m
    BY <1>1
  <1> QED
    BY <1>2, <1>3

\* Quotient and rest are unique.
LEMMA QuotientAndRest ==
    ASSUME NEW m \in Nat \ {0}, NEW q \in Nat, NEW r \in Nat, r < m, NEW a, a = q * m + r
    PROVE  a \in Nat /\ a % m = r /\ a \div m = q
  <1>1. a \in Nat /\ q * m \in Nat
    OBVIOUS
  <1>2. PICK d \in Nat, s \in Nat : d = a \div m /\ s = a % m /\ s < m /\ a = d * m + s
    <2>1. a \div m \in Nat /\ a % m \in Nat /\ a % m < m /\ a = (a \div m) * m + (a % m)
      BY <1>1
    <2> QED
      BY <2>1
  <1>3. d = q
    <2>1. ASSUME d < q PROVE FALSE
      <3>1. d * m \in Nat /\ q * m \in Nat /\ d * m + m <= q * m
        BY <2>1, MultiplesGrow
      <3> QED
        BY <1>2, <3>1
    <2>2. ASSUME q < d PROVE FALSE
      <3>1. d * m \in Nat /\ q * m \in Nat /\ q * m + m <= d * m
        BY <2>2, MultiplesGrow
      <3> QED
        BY <1>2, <3>1
    <2> QED
      BY <2>1, <2>2
  <1>4. s = r
    BY <1>2, <1>3
  <1> QED
    BY <1>1, <1>2, <1>3, <1>4

\* k trials are q whole intervals and r trials more
Intervals(k, q, r, steps) == r < steps /\ k = q * steps + r

\* After k trials with q promotions, r trials since the last: the next trial is promoted
\* when its interval is over or the trials are, and then only.
LEMMA Cadence ==
    ASSUME NEW ctl, ctl.minibatch, NEW trials \in Nat, ctl.trials = trials, NEW steps \in Nat \ {0}, ctl.steps = steps,
           NEW k \in Nat, NEW q \in Nat, NEW r \in Nat, Intervals(k, q, r, steps), k < trials
    PROVE  /\ PromotionDue(ctl, k + 1 + q) <=> r + 1 = steps \/ k + 1 = trials
           /\ k + 1 = trials => AdjustedNumTrials(ctl) = trials + q + 2
  <1> USE DEF Intervals
  <1>1. PICK t, e, m : t = trials \div steps /\ e = trials % steps /\ m = steps + 1
    OBVIOUS
  <1>2. t \in Nat /\ e \in Nat /\ e < steps /\ trials = t * steps + e /\ t * steps \in Nat
    BY <1>1
  <1>3. AdjustedNumTrials(ctl) = trials + t + 1 + IF e # 0 THEN 1 ELSE 0
    BY <1>1 DEF AdjustedNumTrials
  <1>4. PromotionDue(ctl, k + 1 + q) <=> (k + q + 2) % m = 0 \/ k + q + 2 = AdjustedNumTrials(ctl) - 1
    <2>1. k + 1 + q + 1 = k + q + 2
      OBVIOUS
    <2> QED
      BY <1>1, <2>1 DEF PromotionDue
  <1>5. m \in Nat \ {0} /\ q * m = q * steps + q /\ q * steps \in Nat
    BY <1>1
  <1>6. CASE r + 1 = steps
    <2>1. k + q + 2 = (q + 1) * m + 0
      <3>1. (q + 1) * m = q * m + m
        BY <1>5
      <3> QED
        BY <1>1, <1>5, <1>6, <3>1
    <2>2. (k + q + 2) % m = 0
      <3>1. PICK a, d, z : a = k + q + 2 /\ d = q + 1 /\ z = 0
        OBVIOUS
      <3>2. d \in Nat /\ z \in Nat /\ z < m /\ a = d * m + z
        BY <1>5, <2>1, <3>1
      <3>3. a % m = z
        BY <1>5, <3>2, QuotientAndRest
      <3> QED
        BY <3>1, <3>3
    <2>3. ASSUME k + 1 = trials PROVE t = q + 1 /\ e = 0
      <3>1. PICK d \in Nat, z \in Nat, a \in Nat : d = q + 1 /\ z = 0 /\ a = trials
        OBVIOUS
      <3>2. d * steps = q * steps + steps
        BY <3>1
      <3>3. z < steps /\ a = d * steps + z
        BY <1>5, <1>6, <2>3, <3>1, <3>2
      <3>4. a % steps = z /\ a \div steps = d
        <4>1. PICK s \in Nat \ {0} : s = steps
          OBVIOUS
        <4>2. z < s /\ a = d * s + z
          BY <3>3, <4>1
        <4>3. a % s = z /\ a \div s = d
          BY <4>2, QuotientAndRest
        <4> QED
          BY <4>1, <4>3
      <3> QED
        BY <1>1, <3>1, <3>4
    <2> QED
      BY <1>2, <1>3, <1>4, <1>6, <2>2, <2>3
  <1>7. CASE r + 1 # steps /\ k + 1 = trials
    <2>1. t = q /\ e = r + 1
      <3>1. PICK z \in Nat, a \in Nat : z = r + 1 /\ a = trials
        OBVIOUS
      <3>2. z < steps /\ a = q * steps + z
        BY <1>5, <1>7, <3>1
      <3>3. a % steps = z /\ a \div steps = q
        <4>1. PICK s \in Nat \ {0} : s = steps
          OBVIOUS
        <4>2. z < s /\ a = q * s + z
          BY <3>2, <4>1
        <4>3. a % s = z /\ a \div s = q
          BY <4>2, QuotientAndRest
        <4> QED
          BY <4>1, <4>3
      <3> QED
        BY <1>1, <3>1, <3>3
    <2> QED
      BY <1>2, <1>3, <1>4, <1>7, <2>1
  <1>8. CASE r + 1 # steps /\ k + 1 # trials
    <2>1. (k + q + 2) % m = r + 2
      <3>1. PICK a \in Nat, z \in Nat : a = k + q + 2 /\ z = r + 2
        OBVIOUS
      <3>2. z < m /\ a = q * m + z
        BY <1>1, <1>5, <1>8, <3>1
      <3>3. a % m = z
        BY <1>5, <3>2, QuotientAndRest
      <3> QED
        BY <3>1, <3>3
    <2>2. q <= t
      <3> SUFFICES ASSUME t < q PROVE FALSE
        BY <1>2
      <3>1. t * steps + steps <= q * steps
        BY <1>2, MultiplesGrow
      <3> QED
        BY <1>2, <1>5, <3>1
    <2>3. k + q + 2 # AdjustedNumTrials(ctl) - 1
      <3> SUFFICES ASSUME k + q + 2 = AdjustedNumTrials(ctl) - 1 PROVE FALSE
        OBVIOUS
      <3>1. k + 2 = trials /\ q = t /\ e = 0
        BY <1>2, <1>3, <1>8, <2>2
      <3> QED
        BY <1>2, <1>5, <3>1
    <2> QED
      BY <1>4, <1>8, <2>1, <2>3
  <1> QED
    BY <1>6, <1>7, <1>8

\* The samples that were promoted, of the first k
Promotions(samples, k) == {i \in 1 .. k : samples[i].promotion # None}

\* No sample, no promotion.
LEMMA NoPromotions ==
    ASSUME NEW samples
    PROVE  Promotions(samples, 0) = {} /\ Cardinality(Promotions(samples, 0)) = 0
  <1>1. Promotions(samples, 0) = {}
    BY DEF Promotions
  <1> QED
    BY <1>1, FS_EmptySet

\* Promotions can be counted.
LEMMA PromotionsFinite ==
    ASSUME NEW samples, NEW k \in Nat
    PROVE  IsFiniteSet(Promotions(samples, k)) /\ Cardinality(Promotions(samples, k)) \in Nat
  <1>1. PICK P : P = Promotions(samples, k)
    OBVIOUS
  <1>2. IsFiniteSet(1 .. k) /\ P \in SUBSET (1 .. k)
    BY <1>1, FS_Interval DEF Promotions
  <1>3. IsFiniteSet(P) /\ Cardinality(P) \in Nat
    BY <1>2, FS_Subset, FS_CardinalityType
  <1> QED
    BY <1>1, <1>3

\* One sample more is one promotion more, or none.
LEMMA PromotionsGrow ==
    ASSUME NEW samples, NEW k \in Nat, NEW j, j = k + 1, NEW s, s = samples[j]
    PROVE  Cardinality(Promotions(samples, j))
                = Cardinality(Promotions(samples, k)) + IF s.promotion # None THEN 1 ELSE 0
  <1>1. PICK P : P = Promotions(samples, k)
    OBVIOUS
  <1>2. IsFiniteSet(P) /\ Cardinality(P) \in Nat
    BY <1>1, PromotionsFinite
  <1>3. j \notin P
    BY <1>1 DEF Promotions
  <1>4. Promotions(samples, j) = IF s.promotion # None THEN P \cup {j} ELSE P
    <2>1. \A i : i \in 1 .. j <=> i \in 1 .. k \/ i = j
      OBVIOUS
    <2> QED
      BY <1>1, <2>1 DEF Promotions
  <1>5. Cardinality(P \cup {j}) = Cardinality(P) + 1
    BY <1>2, <1>3, FS_AddElement
  <1> QED
    BY <1>1, <1>2, <1>4, <1>5

\* A trial is numbered after the trials and promotions before it.
LEMMA TrialNumbers ==
    ASSUME NEW ctl, NEW S, NEW samples \in Seq(S), BoundTranscript(ctl, samples), NEW i \in 1 .. Len(samples)
    PROVE  /\ samples[i].trial = i + Cardinality(Promotions(samples, i - 1))
           /\ samples[i].promotion # None <=> PromotionDue(ctl, samples[i].trial)
           /\ samples[i].promotion # None => samples[i].promotion.trial = samples[i].trial + 1
  <1>1. Len(samples) \in Nat /\ DOMAIN samples = 1 .. Len(samples)
    OBVIOUS
  <1>2. PICK before : before = SubSeq(samples, 1, i - 1)
    OBVIOUS
  <1>3. /\ samples[i].trial = NextTrial(before)
        /\ samples[i].promotion # None => samples[i].promotion.trial = samples[i].trial + 1
    BY <1>1, <1>2 DEF BoundTranscript
  <1>4. Len(before) = i - 1 /\ DOMAIN before = 1 .. i - 1 /\ \A j \in 1 .. i - 1 : before[j] = samples[j]
    <2>1. \A j \in 1 .. i - 1 : samples[j] \in S
      BY <1>1
    <2>2. before \in Seq(S) /\ Len(before) = i - 1 /\ \A j \in 1 .. i - 1 : before[j] = samples[j]
      BY <1>1, <1>2, <2>1
    <2> QED
      BY <2>2
  <1>5. {j \in DOMAIN before : before[j].promotion # None} = Promotions(samples, i - 1)
    BY <1>4 DEF Promotions
  <1>6. PICK n : n = Cardinality(Promotions(samples, i - 1))
    OBVIOUS
  <1>7. n \in Nat
    <2>1. i - 1 \in Nat
      BY <1>1
    <2> QED
      BY <1>6, <2>1, PromotionsFinite
  <1>8. samples[i].trial = 1 + (i - 1) + n
    BY <1>3, <1>4, <1>5, <1>6 DEF NextTrial
  <1>9. samples[i].trial = i + n
    BY <1>1, <1>7, <1>8
  <1>10. samples[i].promotion # None <=> PromotionDue(ctl, samples[i].trial)
    BY <1>1 DEF BoundTranscript, OnSchedule
  <1> QED
    BY <1>3, <1>6, <1>9, <1>10

\* The trial numbers of the first k samples and of their promotions
Trials(samples, k) ==
    {samples[i].trial : i \in 1 .. k} \cup {samples[i].promotion.trial : i \in Promotions(samples, k)}

\* Trial numbers have no gap.
LEMMA NoGap ==
    ASSUME NEW ctl, NEW S, NEW samples \in Seq(S), BoundTranscript(ctl, samples), NEW n \in Nat, n <= Len(samples)
    PROVE  Trials(samples, n) = 1 .. n + Cardinality(Promotions(samples, n))
  <1> DEFINE P(k) == k <= Len(samples) => Trials(samples, k) = 1 .. k + Cardinality(Promotions(samples, k))
             N == {k \in Nat : P(k)}
  <1>1. Len(samples) \in Nat
    OBVIOUS
  <1>2. 0 \in N
    <2>1. Trials(samples, 0) = {} /\ Cardinality(Promotions(samples, 0)) = 0
      <3>1. Promotions(samples, 0) = {} /\ Cardinality(Promotions(samples, 0)) = 0
        BY NoPromotions
      <3>2. 1 .. 0 = {}
        OBVIOUS
      <3> QED
        BY <3>1, <3>2 DEF Trials
    <2> QED
      BY <2>1
  <1>3. \A k \in N : k + 1 \in N
    <2> SUFFICES ASSUME NEW k \in Nat, P(k) PROVE P(k + 1)
      <3> HIDE DEF P
      <3> QED
        OBVIOUS
    <2> SUFFICES ASSUME k + 1 <= Len(samples)
                 PROVE  Trials(samples, k + 1) = 1 .. k + 1 + Cardinality(Promotions(samples, k + 1))
      OBVIOUS
    <2>1. PICK j \in Nat, s \in {samples[k + 1]}, p \in Nat, q \in Nat :
              /\ j = k + 1
              /\ p = Cardinality(Promotions(samples, k)) /\ q = Cardinality(Promotions(samples, k + 1))
      <3>1. k + 1 \in Nat
        OBVIOUS
      <3>2. Cardinality(Promotions(samples, k)) \in Nat /\ Cardinality(Promotions(samples, k + 1)) \in Nat
        BY <3>1, PromotionsFinite
      <3> QED
        BY <3>2
    <2>2. q = p + IF s.promotion # None THEN 1 ELSE 0
      <3>1. s = samples[j]
        BY <2>1
      <3>2. Cardinality(Promotions(samples, j))
                = Cardinality(Promotions(samples, k)) + IF s.promotion # None THEN 1 ELSE 0
        BY <2>1, <3>1, PromotionsGrow
      <3> QED
        BY <2>1, <3>2
    <2>3. j \in 1 .. Len(samples) /\ j - 1 = k
      BY <1>1, <2>1
    <2>4. /\ s.trial = j + p
          /\ s.promotion # None => s.promotion.trial = s.trial + 1
      BY <2>1, <2>3, TrialNumbers
    <2>5. \A i : i \in 1 .. k + 1 <=> i \in 1 .. k \/ i = k + 1
      OBVIOUS
    <2>6. Trials(samples, k + 1) = Trials(samples, k) \cup {s.trial}
              \cup IF s.promotion # None THEN {s.promotion.trial} ELSE {}
      BY <2>1, <2>5 DEF Trials, Promotions
    <2>7. Trials(samples, k) = 1 .. k + p
      BY <1>1, <2>1
    <2>8. CASE s.promotion # None
      <3>1. Trials(samples, k + 1) = (1 .. k + p) \cup {k + 1 + p, k + p + 2}
        BY <2>1, <2>4, <2>6, <2>7, <2>8
      <3>2. k + 1 + q = k + p + 2
        BY <2>2, <2>8
      <3>3. (1 .. k + p) \cup {k + 1 + p, k + p + 2} = 1 .. k + p + 2
        OBVIOUS
      <3> QED
        BY <2>1, <3>1, <3>2, <3>3
    <2>9. CASE s.promotion = None
      <3>1. Trials(samples, k + 1) = (1 .. k + p) \cup {k + 1 + p}
        BY <2>1, <2>4, <2>6, <2>7, <2>9
      <3>2. k + 1 + q = k + p + 1
        BY <2>2, <2>9
      <3>3. (1 .. k + p) \cup {k + 1 + p} = 1 .. k + p + 1
        OBVIOUS
      <3> QED
        BY <2>1, <3>1, <3>2, <3>3
    <2> QED
      BY <2>8, <2>9
  <1>4. N = Nat
    <2> HIDE DEF N
    <2> QED
      BY <1>2, <1>3, NatSetInduction DEF N
  <1>5. P(n)
    <2> HIDE DEF P
    <2> QED
      BY <1>4
  <1> QED
    BY <1>5

\* Whether the next sample is promoted, and what the schedule announced when it is the last.
LEMMA NextIsDue ==
    ASSUME NEW ctl, ctl.minibatch, NEW trials \in Nat, ctl.trials = trials, NEW steps \in Nat \ {0}, ctl.steps = steps,
           NEW S, NEW samples \in Seq(S), BoundTranscript(ctl, samples), Len(samples) = trials,
           NEW k \in Nat, k < trials, NEW q \in Nat, NEW r \in Nat, Intervals(k, q, r, steps),
           Cardinality(Promotions(samples, k)) = q
    PROVE  /\ samples[k + 1].promotion # None <=> r + 1 = steps \/ k + 1 = trials
           /\ Cardinality(Promotions(samples, k + 1)) = q + IF r + 1 = steps \/ k + 1 = trials THEN 1 ELSE 0
           /\ k + 1 = trials => AdjustedNumTrials(ctl) = trials + q + 2
  <1>1. /\ PromotionDue(ctl, k + 1 + q) <=> r + 1 = steps \/ k + 1 = trials
        /\ k + 1 = trials => AdjustedNumTrials(ctl) = trials + q + 2
    BY Cadence
  <1>2. PICK i : i = k + 1
    OBVIOUS
  <1>3. i \in 1 .. Len(samples) /\ i - 1 = k
    BY <1>2
  <1>4. samples[i].trial = i + q /\ (samples[i].promotion # None <=> PromotionDue(ctl, samples[i].trial))
    BY <1>3, TrialNumbers
  <1>5. samples[k + 1].promotion # None <=> r + 1 = steps \/ k + 1 = trials
    BY <1>1, <1>2, <1>4
  <1>6. Cardinality(Promotions(samples, k + 1)) = q + IF samples[k + 1].promotion # None THEN 1 ELSE 0
    <2>1. PICK s : s = samples[i]
      OBVIOUS
    <2>2. Cardinality(Promotions(samples, i))
              = Cardinality(Promotions(samples, k)) + IF s.promotion # None THEN 1 ELSE 0
      BY <1>2, <2>1, PromotionsGrow
    <2> QED
      BY <1>2, <2>1, <2>2
  <1> QED
    BY <1>1, <1>5, <1>6

\* A study that has all its trials has every promotion the schedule announced.
LEMMA ScheduleIsFull ==
    ASSUME NEW ctl, NEW trials \in Nat \ {0}, ctl.trials = trials, NEW steps \in Nat \ {0}, ctl.steps = steps,
           NEW S, NEW samples \in Seq(S), BoundTranscript(ctl, samples), Len(samples) = trials
    PROVE  IF ctl.minibatch
           THEN /\ samples[trials].promotion # None
                /\ AdjustedNumTrials(ctl) = 1 + trials + Cardinality(Promotions(samples, trials))
           ELSE Cardinality(Promotions(samples, trials)) = 0
  <1>1. CASE ~ ctl.minibatch
    <2>1. \A i \in 1 .. trials : samples[i].promotion = None
      BY <1>1, TrialNumbers DEF PromotionDue
    <2>2. Promotions(samples, trials) = {}
      BY <2>1 DEF Promotions
    <2> QED
      BY <1>1, <2>2, FS_EmptySet
  <1>2. CASE ctl.minibatch
    <2> DEFINE P(k) == k < trials => \E q, r \in Nat :
                           Intervals(k, q, r, steps) /\ Cardinality(Promotions(samples, k)) = q
               N == {k \in Nat : P(k)}
    <2>1. ASSUME NEW k \in Nat, k < trials, NEW q \in Nat, NEW r \in Nat, Intervals(k, q, r, steps),
                 Cardinality(Promotions(samples, k)) = q
          PROVE  /\ samples[k + 1].promotion # None <=> r + 1 = steps \/ k + 1 = trials
                 /\ Cardinality(Promotions(samples, k + 1)) = q + IF r + 1 = steps \/ k + 1 = trials THEN 1 ELSE 0
                 /\ k + 1 = trials => AdjustedNumTrials(ctl) = trials + q + 2
      <3>1. trials \in Nat
        OBVIOUS
      <3> HIDE DEF P
      <3> QED
        BY <1>2, <2>1, <3>1, NextIsDue
    <2>2. 0 \in N
      <3>1. 0 = 0 * steps + 0 /\ 0 < steps
        OBVIOUS
      <3>2. Cardinality(Promotions(samples, 0)) = 0
        BY NoPromotions
      <3>3. P(0)
        BY <3>1, <3>2 DEF Intervals
      <3> HIDE DEF P
      <3> QED
        BY <3>3
    <2>3. \A k \in N : k + 1 \in N
      <3> SUFFICES ASSUME NEW k \in Nat, P(k) PROVE P(k + 1)
        <4> HIDE DEF P
        <4> QED
          OBVIOUS
      <3> SUFFICES ASSUME k + 1 < trials
                   PROVE  \E q, r \in Nat :
                              Intervals(k + 1, q, r, steps) /\ Cardinality(Promotions(samples, k + 1)) = q
        OBVIOUS
      <3>1. PICK q \in Nat, r \in Nat :
                Intervals(k, q, r, steps) /\ Cardinality(Promotions(samples, k)) = q
        OBVIOUS
      <3>2. Cardinality(Promotions(samples, k + 1)) = q + IF r + 1 = steps THEN 1 ELSE 0
        BY <2>1, <3>1
      <3>3. CASE r + 1 = steps
        <4>1. PICK d \in Nat : d = q + 1
          OBVIOUS
        <4>2. d * steps = q * steps + steps
          BY <4>1
        <4>3. 0 < steps /\ k + 1 = d * steps + 0 /\ Cardinality(Promotions(samples, k + 1)) = d
          BY <3>1, <3>2, <3>3, <4>1, <4>2 DEF Intervals
        <4> QED
          BY <4>3 DEF Intervals
      <3>4. CASE r + 1 # steps
        <4>1. PICK z \in Nat : z = r + 1
          OBVIOUS
        <4>2. z < steps /\ k + 1 = q * steps + z /\ Cardinality(Promotions(samples, k + 1)) = q
          BY <3>1, <3>2, <3>4, <4>1 DEF Intervals
        <4> QED
          BY <4>2 DEF Intervals
      <3> QED
        BY <3>3, <3>4
    <2>4. N = Nat
      <3> HIDE DEF N
      <3> QED
        BY <2>2, <2>3, NatSetInduction DEF N
    <2>5. PICK k \in Nat : k + 1 = trials
      <3>1. trials - 1 \in Nat /\ trials - 1 + 1 = trials
        OBVIOUS
      <3> QED
        BY <3>1
    <2>6. P(k)
      <3> HIDE DEF P
      <3> QED
        BY <2>4
    <2>7. PICK q \in Nat, r \in Nat : Intervals(k, q, r, steps) /\ Cardinality(Promotions(samples, k)) = q
      BY <2>5, <2>6
    <2>8. /\ samples[trials].promotion # None /\ Cardinality(Promotions(samples, trials)) = q + 1
          /\ AdjustedNumTrials(ctl) = trials + q + 2
      <3>1. k < trials
        BY <2>5
      <3> QED
        BY <2>1, <2>5, <2>7, <3>1
    <2> QED
      BY <1>2, <2>8
  <1> QED
    BY <1>1, <1>2

-----------------------------------------------------------------------------
(* Sequences that grow.                                                     *)

IsSequence(q) == q \in Seq(Range(q))

\* The places of a sequence.
LEMMA SequenceFacts ==
    ASSUME NEW q, IsSequence(q)
    PROVE  Len(q) \in Nat /\ DOMAIN q = 1 .. Len(q)
  BY DEF IsSequence

\* What Append does, for a sequence of anything.
LEMMA OneLonger ==
    ASSUME NEW q, IsSequence(q), NEW x, NEW t, t = Append(q, x), NEW n, n = Len(q)
    PROVE  /\ IsSequence(t) /\ Len(t) = n + 1 /\ DOMAIN t = 1 .. n + 1
           /\ t[n + 1] = x /\ \A i \in 1 .. n : t[i] = q[i]
  <1>1. PICK S : S = Range(q) \cup {x}
    OBVIOUS
  <1>2. n \in Nat /\ DOMAIN q = 1 .. n
    BY DEF IsSequence
  <1>3. q \in Seq(S) /\ x \in S
    <2>1. \A i \in 1 .. n : q[i] \in S
      BY <1>1, <1>2 DEF Range
    <2>2. q = [i \in 1 .. n |-> q[i]]
      BY <1>2 DEF IsSequence
    <2> QED
      BY <1>1, <1>2, <2>1, <2>2 DEF IsSequence
  <1>4. t \in Seq(S) /\ Len(t) = n + 1 /\ t[n + 1] = x /\ \A i \in 1 .. n : t[i] = q[i]
    BY <1>2, <1>3, AppendProperties
  <1>5. DOMAIN t = 1 .. n + 1
    BY <1>4
  <1>6. t \in Seq(Range(t))
    <2>1. \A i \in 1 .. n + 1 : t[i] \in Range(t)
      BY <1>5 DEF Range
    <2> QED
      BY <1>2, <1>4, <1>5, <2>1
  <1> QED
    BY <1>4, <1>5, <1>6 DEF IsSequence

\* The evaluations a list of effects has paid for
Evaluations(effects) == Cardinality({i \in DOMAIN effects : effects[i].kind = "evaluations"})

\* One effect more is one evaluation more, or none.
LEMMA EvaluationsGrow ==
    ASSUME NEW q, IsSequence(q), NEW x, NEW t, t = Append(q, x)
    PROVE  /\ Evaluations(q) \in Nat
           /\ Evaluations(t) = Evaluations(q) + IF x.kind = "evaluations" THEN 1 ELSE 0
  <1>1. PICK n : n = Len(q)
    OBVIOUS
  <1>2. n \in Nat /\ DOMAIN q = 1 .. n
    BY <1>1, SequenceFacts
  <1>3. DOMAIN t = 1 .. n + 1 /\ t[n + 1] = x /\ \A i \in 1 .. n : t[i] = q[i]
    BY <1>1, OneLonger
  <1>4. PICK P : P = {i \in DOMAIN q : q[i].kind = "evaluations"}
    OBVIOUS
  <1>5. IsFiniteSet(P) /\ Cardinality(P) \in Nat
    <2>1. IsFiniteSet(1 .. n) /\ P \in SUBSET (1 .. n)
      BY <1>2, <1>4, FS_Interval
    <2> QED
      BY <2>1, FS_Subset, FS_CardinalityType
  <1>6. PICK j : j = n + 1
    OBVIOUS
  <1>7. j \notin P
    BY <1>2, <1>4, <1>6
  <1>8. PICK Q : Q = {i \in DOMAIN t : t[i].kind = "evaluations"}
    OBVIOUS
  <1>9. Q = IF x.kind = "evaluations" THEN P \cup {j} ELSE P
    <2>1. \A i : i \in 1 .. n + 1 <=> i \in 1 .. n \/ i = j
      BY <1>2, <1>6
    <2> QED
      BY <1>2, <1>3, <1>4, <1>6, <1>8, <2>1
  <1>10. Cardinality(P \cup {j}) = Cardinality(P) + 1
    BY <1>5, <1>7, FS_AddElement
  <1>11. Cardinality(Q) = Cardinality(P) + IF x.kind = "evaluations" THEN 1 ELSE 0
    BY <1>5, <1>9, <1>10
  <1>12. Evaluations(q) = Cardinality(P) /\ Evaluations(t) = Cardinality(Q)
    BY <1>4, <1>8 DEF Evaluations
  <1> QED
    BY <1>5, <1>11, <1>12

\* One trial more is one promotion more, or none.
LEMMA PromotionsAppended ==
    ASSUME NEW q, IsSequence(q), NEW x, NEW t, t = Append(q, x)
    PROVE  /\ Cardinality(Promotions(q, Len(q))) \in Nat
           /\ Cardinality(Promotions(t, Len(t)))
                = Cardinality(Promotions(q, Len(q))) + IF x.promotion # None THEN 1 ELSE 0
  <1>1. PICK n : n = Len(q)
    OBVIOUS
  <1>2. n \in Nat
    BY <1>1, SequenceFacts
  <1>3. PICK j : j = n + 1
    OBVIOUS
  <1>4. Len(t) = j /\ t[j] = x /\ \A i \in 1 .. n : t[i] = q[i]
    BY <1>1, <1>3, OneLonger
  <1>5. Cardinality(Promotions(t, j))
            = Cardinality(Promotions(t, n)) + IF x.promotion # None THEN 1 ELSE 0
    BY <1>2, <1>3, <1>4, PromotionsGrow
  <1>6. Promotions(t, n) = Promotions(q, n)
    BY <1>4 DEF Promotions
  <1>7. Cardinality(Promotions(q, n)) \in Nat
    BY <1>2, PromotionsFinite
  <1> QED
    BY <1>1, <1>4, <1>5, <1>6, <1>7

-----------------------------------------------------------------------------
(* What planning leaves alone.                                              *)

Tracked == {"phase", "baseline", "samples", "sample", "effects"}

\* x has the evidence of s, and is complete only when its trials are
Same(s, x) ==
    /\ Tracked \subseteq DOMAIN x
    /\ x.effects = s.effects /\ x.samples = s.samples /\ x.sample = s.sample /\ x.baseline = s.baseline
    /\ x.phase = "complete" => s.phase = "complete" \/ Len(s.samples) >= control.trials

Path(s, q) == q \in Seq(Range(q)) /\ q # <<>> /\ \A i \in DOMAIN q : Same(s, q[i])

\* A plan of one state.
LEMMA PathOne ==
    ASSUME NEW s, NEW x, Same(s, x)
    PROVE  Path(s, <<x>>)
  <1>1. <<x>> \in Seq({x}) /\ <<x>> # <<>> /\ DOMAIN <<x>> = {1} /\ <<x>>[1] = x
    OBVIOUS
  <1>2. Range(<<x>>) = {x}
    BY <1>1 DEF Range
  <1> QED
    BY <1>1, <1>2 DEF Path

\* A state before a plan.
LEMMA PathMore ==
    ASSUME NEW s, NEW d, Same(s, d), NEW q, Path(d, q)
    PROVE  Path(s, <<d>> \o q)
  <1>1. PICK S : S = Range(q) \cup {d}
    OBVIOUS
  <1>2. PICK n : n = Len(q)
    OBVIOUS
  <1>3. n \in Nat /\ DOMAIN q = 1 .. n /\ q \in Seq(Range(q)) /\ \A i \in 1 .. n : Same(d, q[i])
    BY <1>2 DEF Path
  <1>4. q \in Seq(S) /\ <<d>> \in Seq(S)
    <2>1. \A i \in 1 .. n : q[i] \in S
      BY <1>1, <1>3 DEF Range
    <2> QED
      BY <1>1, <1>2, <1>3, <2>1
  <1>5. PICK t : t = <<d>> \o q
    OBVIOUS
  <1>6. /\ t \in Seq(S) /\ Len(t) = n + 1 /\ DOMAIN t = 1 .. n + 1
        /\ t[1] = d /\ \A i \in 2 .. n + 1 : t[i] = q[i - 1]
    <2>1. Len(<<d>>) = 1 /\ <<d>>[1] = d
      OBVIOUS
    <2>2. t \in Seq(S) /\ Len(t) = 1 + n
          /\ \A i \in 1 .. Len(t) : t[i] = IF i <= 1 THEN <<d>>[i] ELSE q[i - 1]
      BY <1>2, <1>4, <1>5, <2>1, ConcatProperties
    <2> QED
      BY <1>3, <2>1, <2>2
  <1>7. \A i \in DOMAIN t : Same(s, t[i])
    <2> SUFFICES ASSUME NEW i \in 1 .. n + 1 PROVE Same(s, t[i])
      BY <1>6
    <2>1. CASE i = 1
      BY <1>6, <2>1
    <2>2. CASE i # 1
      <3>1. PICK x : x = q[i - 1]
        OBVIOUS
      <3>2. t[i] = x /\ Same(d, x)
        BY <1>3, <1>6, <2>2, <3>1
      <3>3. Same(s, x)
        BY <3>2 DEF Same
      <3> QED
        BY <3>2, <3>3
    <2> QED
      BY <2>1, <2>2
  <1>8. t # <<>>
    BY <1>3, <1>6
  <1>9. t \in Seq(Range(t))
    <2>1. \A i \in 1 .. n + 1 : t[i] \in Range(t)
      BY <1>6 DEF Range
    <2> QED
      BY <1>3, <1>6, <2>1
  <1> QED
    BY <1>5, <1>7, <1>8, <1>9 DEF Path

\* The planned state is on the path.
LEMMA PathLast ==
    ASSUME NEW s, NEW q, Path(s, q)
    PROVE  /\ Last(q) \in {q[i] : i \in DOMAIN q} /\ Same(s, Last(q))
  <1>1. Len(q) \in Nat /\ DOMAIN q = 1 .. Len(q) /\ Len(q) # 0
    BY EmptySeq DEF Path
  <1>2. Len(q) \in DOMAIN q /\ Last(q) = q[Len(q)]
    BY <1>1 DEF Last
  <1> QED
    BY <1>2 DEF Path

\* A state has its own evidence.
LEMMA SameHere ==
    ASSUME NEW s, Tracked \subseteq DOMAIN s
    PROVE  Same(s, s)
  BY DEF Same

\* Planning an evaluation leaves the evidence alone.
LEMMA SpecPath ==
    ASSUME NEW s, Tracked \subseteq DOMAIN s, NEW spec
    PROVE  Path(s, PlanEvaluationSpec(s, spec))
  <1>1. Same(s, [s EXCEPT !.spec = spec, !.evaluation = spec])
    BY DEF Same, Tracked
  <1>2. Same(s, [s EXCEPT !.spec = spec, !.binding = "request"])
    BY DEF Same, Tracked
  <1> QED
    BY <1>1, <1>2, PathOne DEF PlanEvaluationSpec

\* So does planning a sample, which completes a study only when its trials are done.
LEMMA SamplePath ==
    ASSUME NEW s, Tracked \subseteq DOMAIN s
    PROVE  Path(s, PlanSample(s))
  <1>1. CASE Len(s.samples) >= control.trials
    <2>1. PICK x : x = [s EXCEPT !.phase = "complete",
                                 !.winner = BestFullEvaluation(c, s.baseline.score, s.samples)]
      OBVIOUS
    <2>2. Same(s, x)
      BY <1>1, <2>1 DEF Same, Tracked
    <2>3. PlanSample(s) = <<x>>
      BY <1>1, <2>1 DEF PlanSample, c
    <2> QED
      BY <2>2, <2>3, PathOne
  <1>2. CASE ~ (Len(s.samples) >= control.trials)
    <2>1. PICK x : x = [s EXCEPT !.rng = @ + IF DrawsBatch THEN 1 ELSE 0]
      OBVIOUS
    <2>2. Same(s, x) /\ Tracked \subseteq DOMAIN x
      BY <2>1 DEF Same, Tracked
    <2>3. PlanSample(s) = PlanEvaluationSpec(x, SampleSpec(s, s.rng))
      BY <1>2, <2>1 DEF PlanSample, c
    <2>4. Path(x, PlanSample(s))
      BY <2>2, <2>3, SpecPath
    <2> QED
      BY <2>2, <2>4 DEF Path, Same
  <1> QED
    BY <1>1, <1>2

\* So does planning a proposal request.
LEMMA ProposalPath ==
    ASSUME NEW s, Tracked \subseteq DOMAIN s
    PROVE  Path(s, PlanProposal(s))
  <1>1. PICK p : p = PlanProposalRequest(c, IF s.proposal = None THEN StartProposal(c, Len(s.demos), s.rng)
                                            ELSE s.proposal)
    OBVIOUS
  <1>2. PICK done : done = [s EXCEPT !.phase = "baseline", !.proposal = p, !.rng = p.rng, !.pool = p.pool]
    OBVIOUS
  <1>3. PICK asks : asks = [s EXCEPT !.proposal = p, !.request = p.pending]
    OBVIOUS
  <1>4. Same(s, done) /\ Tracked \subseteq DOMAIN done
    BY <1>2 DEF Same, Tracked
  <1>5. Same(s, asks)
    BY <1>3 DEF Same, Tracked
  <1>6. PlanProposal(s) = IF p.pending # "" THEN <<asks>>
                          ELSE <<done>> \o PlanEvaluationSpec(done, Spec0(done))
    BY <1>1, <1>2, <1>3 DEF PlanProposal
  <1>7. Path(done, PlanEvaluationSpec(done, Spec0(done)))
    BY <1>4, SpecPath
  <1>8. Path(s, <<done>> \o PlanEvaluationSpec(done, Spec0(done)))
    BY <1>4, <1>7, PathMore
  <1>9. Path(s, <<asks>>)
    BY <1>5, PathOne
  <1> QED
    BY <1>6, <1>8, <1>9

\* So does planning a bootstrap attempt.
LEMMA BootstrapPath ==
    ASSUME NEW s, Tracked \subseteq DOMAIN s
    PROVE  Path(s, PlanBootstrap(s))
  <1>1. PICK stop : stop = Min({i \in s.plan .. Len(Plans(c)) - 1 : Untried(s, i)} \cup {Len(Plans(c))})
    OBVIOUS
  <1>2. PICK at : at = [s EXCEPT !.plan = stop,
                        !.demos = @ \o [i \in 1 .. stop - s.plan |->
                                            DemoSet(c, s.plan + i - 1, CompilerAt(s, s.plan + i - 1))]]
    OBVIOUS
  <1>3. PICK done : done = [at EXCEPT !.phase = "proposal", !.compiler = None]
    OBVIOUS
  <1>4. PICK tries : tries = [at EXCEPT !.compiler = CompilerAt(s, stop),
                                        !.attempt = NextAttempt(c, stop, CompilerAt(s, stop)),
                                        !.binding = "request"]
    OBVIOUS
  <1>5. PlanBootstrap(s) = IF stop < Len(Plans(c)) THEN <<tries>> ELSE <<done>> \o PlanProposal(done)
    BY <1>1, <1>2, <1>3, <1>4 DEF PlanBootstrap
  <1>6. Same(s, at)
    BY <1>2 DEF Same, Tracked
  <1>7. Same(s, tries)
    BY <1>4, <1>6 DEF Same, Tracked
  <1>8. Same(s, done) /\ Tracked \subseteq DOMAIN done
    BY <1>3, <1>6 DEF Same, Tracked
  <1>9. Path(s, <<done>> \o PlanProposal(done))
    BY <1>8, ProposalPath, PathMore
  <1>10. Path(s, <<tries>>)
    BY <1>7, PathOne
  <1> QED
    BY <1>5, <1>9, <1>10

\* So does planning.
LEMMA PlanPath ==
    ASSUME NEW s, Tracked \subseteq DOMAIN s, Canonical(s), s.phase # "failed"
    PROVE  Path(s, Plan(s))
  <1>1. s.phase \in {"complete", "bootstrap", "proposal", "baseline", "promotion", "sample"}
    BY DEF Canonical, CanonicalPhase
  <1>2. CASE s.attempt # None \/ s.request # "" \/ s.evaluation # None \/ s.phase = "complete"
    BY <1>2, SameHere, PathOne DEF Plan
  <1>3. CASE ~ (s.attempt # None \/ s.request # "" \/ s.evaluation # None \/ s.phase = "complete")
    <2>1. CASE s.spec # None
      <3>1. Plan(s) = PlanEvaluationSpec(s, s.spec)
        BY <1>3, <2>1 DEF Plan
      <3> QED
        BY <3>1, SpecPath
    <2>2. CASE s.spec = None
      <3>1. \/ Plan(s) = PlanBootstrap(s)
            \/ Plan(s) = PlanProposal(s)
            \/ Plan(s) = PlanEvaluationSpec(s, Spec0(s))
            \/ Plan(s) = PlanSample(s)
            \/ Plan(s) = PlanEvaluationSpec(s, PromotionSpec(s))
        BY <1>1, <1>3, <2>2 DEF Plan
      <3> QED
        BY <3>1, BootstrapPath, ProposalPath, SpecPath, SamplePath
    <2> QED
      BY <2>1, <2>2
  <1> QED
    BY <1>2, <1>3

-----------------------------------------------------------------------------
(* The inductive invariant.                                                 *)

\* As many evaluations were paid for as the transcript has scores
Counted(s) ==
    Evaluations(s.effects)
        = (IF s.baseline # None THEN 1 ELSE 0) + Len(s.samples)
            + Cardinality(Promotions(s.samples, Len(s.samples))) + (IF s.sample # None THEN 1 ELSE 0)

ScoredTrial(x) == x.score \in Int /\ (x.promotion # None => x.promotion.score \in Int)

\* What is true of every snapshot
Studied(s) ==
    /\ Tracked \subseteq DOMAIN s
    /\ IsSequence(s.effects) /\ IsSequence(s.samples)
    /\ s.baseline # None => s.baseline.score \in Int
    /\ \A i \in DOMAIN s.samples : ScoredTrial(s.samples[i])
    /\ s.sample # None =>
        /\ {"trial", "score", "promotion"} \subseteq DOMAIN s.sample
        /\ s.sample.score \in Int /\ PromotionDue(control, s.sample.trial)
    /\ Len(s.samples) > 0 => s.baseline # None
    /\ s.phase = "complete" => Len(s.samples) >= control.trials
    /\ s.phase # "failed" => Counted(s)

\* What the phase of a state tells
Phased(s) ==
    /\ s.phase = "baseline" => s.baseline = None
    /\ s.phase \in {"sample", "promotion"} => s.baseline # None
    /\ (s.sample # None) <=> (s.phase = "promotion")
    /\ s.evaluation # None => s.phase \in {"baseline", "sample", "promotion"}
    /\ s.attempt # None => s.phase = "bootstrap"

\* What a complete study reports
Reported(s) ==
    /\ s.sample = None
    /\ s.winner = BestFullEvaluation(control, s.baseline.score, s.samples)
    /\ BoundTranscript(control, s.samples)
    /\ s.baseline # None =>
        s.full = [i \in DOMAIN FullEvaluations(control, s.baseline.score, s.samples) |->
                    FullEvaluations(control, s.baseline.score, s.samples)[i].combo]

StudyInv ==
    /\ control \in Controls
    /\ resolution # None =>
        /\ resolution.outcome \in {"completed", "failed", "rejected", "partial"} /\ resolution.score \in Nat
        /\ Phased(snap) /\ (snap.attempt # None \/ snap.evaluation # None)
    /\ Studied(snap)
    /\ status = "complete" =>
        /\ snap.phase = "complete" /\ Reported(snap)
        /\ spent["evaluations"] = Evaluations(snap.effects)

\* The evaluations a state counts as consumed are those on its list of effects.
LEMMA ConsumedEvaluations ==
    ASSUME NEW s
    PROVE  Consumed(s, "evaluations") = Evaluations(s.effects)
  BY DEF Consumed, Evaluations

\* Planning keeps what is true of a snapshot.
LEMMA SameStudied ==
    ASSUME NEW s, NEW x, Studied(s), s.phase # "failed", Same(s, x)
    PROVE  Studied(x)
  BY DEF Studied, Same, Counted

\* The phase of a canonical state tells what it has.
LEMMA PhaseTells ==
    ASSUME NEW s, Canonical(s)
    PROVE  Phased(s)
  <1>1. /\ s.phase = "baseline" => s.baseline = None
        /\ s.phase \in {"sample", "promotion"} => s.baseline # None
    BY DEF Canonical, CanonicalPhase
  <1>2. (s.sample # None) <=> (s.phase = "promotion")
    BY DEF Canonical, CanonicalPending
  <1>3. ASSUME s.evaluation # None PROVE s.phase \in {"baseline", "sample", "promotion"}
    <2>1. s.spec # None
      BY <1>3 DEF Canonical, CanonicalPending
    <2> QED
      BY <2>1 DEF Canonical, CanonicalSpec
  <1>4. s.attempt # None => s.phase = "bootstrap"
    BY DEF Canonical, CanonicalBootstrap
  <1> QED
    BY <1>1, <1>2, <1>3, <1>4 DEF Phased

\* A canonical state that is complete has a bound transcript and reports it.
LEMMA CompleteReports ==
    ASSUME NEW s, Canonical(s), s.phase = "complete"
    PROVE  Reported(s)
  <1>1. s.winner # None /\ s.sample = None
    BY DEF Canonical, CanonicalPhase, CanonicalPending
  <1>2. s.winner = BestFullEvaluation(control, s.baseline.score, s.samples)
    BY <1>1 DEF Canonical, CanonicalWinner, c
  <1>3. BoundTranscript(control, s.samples)
    BY DEF Canonical, c
  <1>4. s.baseline # None =>
            s.full = [i \in DOMAIN FullEvaluations(control, s.baseline.score, s.samples) |->
                        FullEvaluations(control, s.baseline.score, s.samples)[i].combo]
    BY DEF Canonical, CanonicalFull, c
  <1> QED
    BY <1>1, <1>2, <1>3, <1>4 DEF Reported

\* Terminalizing keeps what is true of a snapshot.
LEMMA TerminalizedStudied ==
    ASSUME NEW s, Studied(s)
    PROVE  Studied(Terminalized(s))
  <1>1. PICK x : x = Terminalized(s)
    OBVIOUS
  <1>2. /\ Tracked \subseteq DOMAIN x
        /\ x.effects = s.effects /\ x.samples = s.samples /\ x.baseline = s.baseline
        /\ x.sample = None /\ x.phase = "failed"
    BY <1>1 DEF Terminalized, Studied, Tracked
  <1>3. Studied(x)
    BY <1>2 DEF Studied
  <1> QED
    BY <1>1, <1>3

\* An effect that is no evaluation
LEMMA OtherEffect ==
    ASSUME NEW s, Studied(s), NEW x, NEW e, e.kind # "evaluations", Tracked \subseteq DOMAIN x,
           x.effects = Append(s.effects, e), x.phase = s.phase,
           x.samples = s.samples, x.sample = s.sample, x.baseline = s.baseline
    PROVE  Studied(x)
  <1>1. PICK q, t : q = s.effects /\ t = x.effects
    OBVIOUS
  <1>2. IsSequence(q) /\ t = Append(q, e)
    BY <1>1 DEF Studied
  <1>3. Evaluations(q) \in Nat /\ Evaluations(t) = Evaluations(q) + 0
    BY <1>2, EvaluationsGrow
  <1>4. IsSequence(t)
    BY <1>2, OneLonger
  <1>5. Evaluations(x.effects) = Evaluations(s.effects) /\ IsSequence(x.effects)
    BY <1>1, <1>3, <1>4
  <1> QED
    BY <1>5 DEF Studied, Counted

\* So does folding a generation.
LEMMA FoldBootstrapStudied ==
    ASSUME NEW s, Studied(s), NEW result
    PROVE  Studied(FoldBootstrap(s, result))
  <1>1. PICK x, e : x = FoldBootstrap(s, result)
                    /\ e = Effect("bootstrap_generations", AttemptId(s.attempt), c.seeds)
    OBVIOUS
  <1>2. e.kind # "evaluations"
    BY <1>1 DEF Effect
  <1>3. /\ Tracked \subseteq DOMAIN x /\ x.effects = Append(s.effects, e) /\ x.phase = s.phase
        /\ x.samples = s.samples /\ x.sample = s.sample /\ x.baseline = s.baseline
    BY <1>1 DEF FoldBootstrap, Studied, Tracked
  <1>4. Studied(x)
    BY <1>2, <1>3, OtherEffect
  <1> QED
    BY <1>1, <1>4

\* An evaluation is paid for.
LEMMA EvaluatedIs ==
    ASSUME NEW s, Studied(s), NEW r, NEW y, y = Evaluated(s, r)
    PROVE  /\ Tracked \subseteq DOMAIN y /\ y.phase = s.phase
           /\ y.samples = s.samples /\ y.sample = s.sample /\ y.baseline = s.baseline
           /\ IsSequence(y.effects) /\ Evaluations(s.effects) \in Nat
           /\ Evaluations(y.effects) = Evaluations(s.effects) + 1
  <1>1. PICK e : e = Effect("evaluations", SpecId(s.evaluation), PlannedRows(r, s.evaluation.batch))
    OBVIOUS
  <1>2. e.kind = "evaluations"
    BY <1>1 DEF Effect
  <1>3. /\ Tracked \subseteq DOMAIN y /\ y.effects = Append(s.effects, e) /\ y.phase = s.phase
        /\ y.samples = s.samples /\ y.sample = s.sample /\ y.baseline = s.baseline
    BY <1>1 DEF Evaluated, Studied, Tracked
  <1>4. PICK q, t : q = s.effects /\ t = y.effects
    OBVIOUS
  <1>5. IsSequence(q) /\ t = Append(q, e)
    BY <1>3, <1>4 DEF Studied
  <1>6. Evaluations(q) \in Nat /\ Evaluations(t) = Evaluations(q) + 1
    BY <1>2, <1>5, EvaluationsGrow
  <1>7. IsSequence(t)
    BY <1>5, OneLonger
  <1> QED
    BY <1>3, <1>4, <1>6, <1>7

\* How many trials and promotions a transcript has are numbers.
LEMMA TranscriptCounts ==
    ASSUME NEW s, Studied(s)
    PROVE  Len(s.samples) \in Nat /\ Cardinality(Promotions(s.samples, Len(s.samples))) \in Nat
  <1>1. IsSequence(s.samples)
    BY DEF Studied
  <1>2. Len(s.samples) \in Nat
    BY <1>1, SequenceFacts
  <1> QED
    BY <1>2, PromotionsFinite

\* So does folding the evaluation of the baseline, if the result is canonical.
LEMMA FoldBaselineStudied ==
    ASSUME NEW s, Studied(s), Phased(s), s.phase = "baseline", NEW r, ObservedScore(r) \in Int,
           NEW x, x = FoldBaseline(s, r), Canonical(x)
    PROVE  Studied(x)
  <1>1. PICK y : y = Evaluated(s, r)
    OBVIOUS
  <1>2. /\ Tracked \subseteq DOMAIN y
        /\ y.samples = s.samples /\ y.sample = s.sample
        /\ IsSequence(y.effects) /\ Evaluations(s.effects) \in Nat
        /\ Evaluations(y.effects) = Evaluations(s.effects) + 1
    BY <1>1, EvaluatedIs
  <1>3. /\ Tracked \subseteq DOMAIN x /\ x.phase = "sample" /\ x.effects = y.effects
        /\ x.samples = s.samples /\ x.sample = s.sample
        /\ x.baseline = [score |-> ObservedScore(r), effect |-> s.evaluation]
    BY <1>1, <1>2 DEF FoldBaseline, Tracked
  <1>4. x.baseline # None /\ x.sample = None
    BY <1>3, PhaseTells DEF Phased
  <1>5. s.baseline = None /\ s.sample = None
    BY DEF Phased
  <1>6. Counted(x)
    <2>1. Counted(s)
      BY DEF Studied
    <2>2. Len(s.samples) \in Nat /\ Cardinality(Promotions(s.samples, Len(s.samples))) \in Nat
      BY TranscriptCounts
    <2> QED
      BY <1>2, <1>3, <1>4, <1>5, <2>1, <2>2 DEF Counted
  <1>7. x.baseline.score \in Int
    BY <1>3
  <1> QED
    BY <1>2, <1>3, <1>4, <1>6, <1>7 DEF Studied

\* A trial joins the transcript.
LEMMA TrialJoins ==
    ASSUME NEW s, Studied(s), Counted(s), s.baseline # None, NEW x, NEW trial, ScoredTrial(trial),
           Tracked \subseteq DOMAIN x, x.phase = "sample", x.baseline = s.baseline, x.sample = None,
           x.samples = Append(s.samples, trial),
           IsSequence(x.effects), Evaluations(s.effects) \in Nat, Evaluations(x.effects) = Evaluations(s.effects) + 1,
           (s.sample # None) <=> (trial.promotion # None)
    PROVE  Studied(x)
  <1>1. PICK q, t : q = s.samples /\ t = x.samples
    OBVIOUS
  <1>2. IsSequence(q) /\ t = Append(q, trial)
    BY <1>1 DEF Studied
  <1>3. PICK n : n = Len(q)
    OBVIOUS
  <1>4. n \in Nat /\ DOMAIN q = 1 .. n
    BY <1>2, <1>3, SequenceFacts
  <1>5. /\ IsSequence(t) /\ Len(t) = n + 1 /\ DOMAIN t = 1 .. n + 1
        /\ t[n + 1] = trial /\ \A i \in 1 .. n : t[i] = q[i]
    <2>1. IsSequence(t)
      BY <1>2, OneLonger
    <2>4. DOMAIN t = 1 .. n + 1
      BY <1>2, <1>3, OneLonger
    <2>5. Len(t) = n + 1
      BY <1>4, <2>1, <2>4, SequenceFacts
    <2>2. t[n + 1] = trial
      BY <1>2, <1>3, OneLonger
    <2>3. \A i \in 1 .. n : t[i] = q[i]
      BY <1>2, <1>3, OneLonger
    <2> QED
      BY <2>1, <2>2, <2>3, <2>4, <2>5
  <1>6. PICK p, o : p = Cardinality(Promotions(q, Len(q))) /\ o = Cardinality(Promotions(t, Len(t)))
    OBVIOUS
  <1>7. p \in Nat /\ o = p + IF trial.promotion # None THEN 1 ELSE 0
    BY <1>2, <1>6, PromotionsAppended
  <1>8. \A i \in DOMAIN t : ScoredTrial(t[i])
    <2>1. \A i \in 1 .. n : ScoredTrial(q[i])
      BY <1>1, <1>4 DEF Studied
    <2>2. \A i \in 1 .. n + 1 : i \in 1 .. n \/ i = n + 1
      BY <1>4
    <2> QED
      BY <1>5, <2>1, <2>2
  <1>9. Counted(x)
    <2>1. Evaluations(s.effects) = 1 + n + p + IF s.sample # None THEN 1 ELSE 0
      BY <1>1, <1>3, <1>6 DEF Counted
    <2>2. Evaluations(x.effects) = 1 + (n + 1) + o + 0
      BY <1>4, <1>7, <2>1
    <2> QED
      BY <1>1, <1>5, <1>6, <2>2 DEF Counted
  <1>10. s.baseline.score \in Int
    BY DEF Studied
  <1> QED
    BY <1>1, <1>5, <1>8, <1>9, <1>10 DEF Studied

\* So does folding that of a sample, which may have a promotion to follow.
LEMMA FoldSampleStudied ==
    ASSUME NEW s, Studied(s), Phased(s), s.phase = "sample", NEW r, ObservedScore(r) \in Int,
           NEW x, x = FoldSample(s, r), Canonical(x)
    PROVE  Studied(x)
  <1>1. PICK y : y = Evaluated(s, r)
    OBVIOUS
  <1>2. /\ Tracked \subseteq DOMAIN y /\ y.phase = s.phase
        /\ y.samples = s.samples /\ y.sample = s.sample /\ y.baseline = s.baseline
        /\ IsSequence(y.effects) /\ Evaluations(s.effects) \in Nat
        /\ Evaluations(y.effects) = Evaluations(s.effects) + 1
    BY <1>1, EvaluatedIs
  <1>3. PICK trial, made : trial = NextTrial(s.samples)
            /\ made = Provisional(trial, s.evaluation.combo, ObservedScore(r), s.evaluation)
    OBVIOUS
  <1>4. /\ DOMAIN made = {"trial", "combo", "score", "effect", "promotion"}
        /\ made.trial = trial /\ made.score = ObservedScore(r) /\ made.promotion = None
    BY <1>3 DEF Provisional
  <1>5. s.baseline # None /\ s.sample = None
    BY DEF Phased
  <1>6. Counted(s)
    BY DEF Studied
  <1>7. CASE PromotionDue(control, trial)
    <2>1. x = [y EXCEPT !.phase = "promotion", !.sample = made]
      BY <1>1, <1>3, <1>7 DEF FoldSample, c
    <2>2. /\ Tracked \subseteq DOMAIN x /\ x.phase = "promotion" /\ x.sample = made
          /\ x.effects = y.effects /\ x.samples = s.samples /\ x.baseline = s.baseline
      BY <1>2, <2>1 DEF Tracked
    <2>3. x.sample # None
      BY <2>2, PhaseTells DEF Phased
    <2>4. Counted(x)
      <3>1. Len(s.samples) \in Nat /\ Cardinality(Promotions(s.samples, Len(s.samples))) \in Nat
        BY TranscriptCounts
      <3> QED
        BY <1>2, <1>5, <1>6, <2>2, <2>3, <3>1 DEF Counted
    <2>5. {"trial", "score", "promotion"} \subseteq DOMAIN made
          /\ made.score \in Int /\ PromotionDue(control, made.trial)
      BY <1>4, <1>7
    <2> QED
      BY <1>2, <2>2, <2>4, <2>5 DEF Studied
  <1>8. CASE ~ PromotionDue(control, trial)
    <2>1. x = [y EXCEPT !.samples = Append(@, made),
                        !.full = IF c.minibatch THEN @ ELSE Append(@, made.combo)]
      BY <1>1, <1>3, <1>8 DEF FoldSample, c
    <2>2. /\ Tracked \subseteq DOMAIN x /\ x.phase = "sample" /\ x.sample = None
          /\ x.effects = y.effects /\ x.samples = Append(s.samples, made) /\ x.baseline = s.baseline
      BY <1>2, <1>5, <2>1 DEF Tracked
    <2>3. ScoredTrial(made) /\ made.promotion = None
      BY <1>4 DEF ScoredTrial
    <2> QED
      BY <1>2, <1>5, <1>6, <2>2, <2>3, TrialJoins
  <1> QED
    BY <1>7, <1>8

\* So does folding that of a promotion, with which the sample joins the transcript.
LEMMA FoldPromotionStudied ==
    ASSUME NEW s, Studied(s), Phased(s), s.phase = "promotion", NEW r, ObservedScore(r) \in Int,
           NEW x, x = FoldPromotion(s, r), Canonical(x)
    PROVE  Studied(x)
  <1>1. PICK y : y = Evaluated(s, r)
    OBVIOUS
  <1>2. /\ Tracked \subseteq DOMAIN y /\ y.phase = s.phase
        /\ y.samples = s.samples /\ y.sample = s.sample /\ y.baseline = s.baseline
        /\ IsSequence(y.effects) /\ Evaluations(s.effects) \in Nat
        /\ Evaluations(y.effects) = Evaluations(s.effects) + 1
    BY <1>1, EvaluatedIs
  <1>3. PICK promotion, made : promotion = Promoted(s.samples, s.sample, ObservedScore(r), s.evaluation)
            /\ made = [s.sample EXCEPT !.promotion = promotion]
    OBVIOUS
  <1>4. s.baseline # None /\ s.sample # None
    BY DEF Phased
  <1>5. Counted(s)
    BY DEF Studied
  <1>6. /\ made.trial = s.sample.trial /\ made.score = s.sample.score /\ made.promotion = promotion
        /\ PromotionDue(control, made.trial) /\ made.score \in Int
    BY <1>3, <1>4 DEF Studied
  <1>7. promotion.score \in Int
    BY <1>3 DEF Promoted
  <1>8. x = [y EXCEPT !.phase = "sample", !.sample = None, !.samples = Append(@, made),
                      !.full = Append(@, s.evaluation.combo)]
    BY <1>1, <1>3 DEF FoldPromotion
  <1>9. /\ Tracked \subseteq DOMAIN x /\ x.phase = "sample" /\ x.sample = None
        /\ x.effects = y.effects /\ x.samples = Append(s.samples, made) /\ x.baseline = s.baseline
    BY <1>2, <1>8 DEF Tracked
  <1>10. made.promotion # None
    <2>1. PICK q, t, n : q = s.samples /\ t = x.samples /\ n = Len(q)
      OBVIOUS
    <2>2. IsSequence(q) /\ t = Append(q, made) /\ n \in Nat
      <3>1. IsSequence(q) /\ t = Append(q, made)
        BY <1>9, <2>1 DEF Studied
      <3> QED
        BY <2>1, <3>1, SequenceFacts
    <2>3. DOMAIN t = 1 .. n + 1 /\ t[n + 1] = made
      BY <2>1, <2>2, OneLonger
    <2>4. n + 1 \in DOMAIN t
      BY <2>2, <2>3
    <2>5. \A i \in DOMAIN t : PromotionDue(control, t[i].trial) <=> t[i].promotion # None
      BY <2>1 DEF Canonical, BoundTranscript, OnSchedule, c
    <2> QED
      BY <1>6, <2>3, <2>4, <2>5
  <1>11. ScoredTrial(made)
    BY <1>6, <1>7 DEF ScoredTrial
  <1> QED
    BY <1>2, <1>4, <1>5, <1>9, <1>10, <1>11, TrialJoins

\* A step that finds what it loaded canonical has loaded a state that keeps what is true of a snapshot.
LEMMA LoadedStudied ==
    ASSUME StudyInv, ~ Partial, NEW s, s = Loaded, Canonical(s)
    PROVE  Studied(s)
  <1>1. Studied(snap)
    BY DEF StudyInv
  <1>2. CASE resolution = None
    BY <1>1, <1>2 DEF Loaded
  <1>3. CASE resolution # None
    <2>1. /\ resolution.outcome \in {"completed", "failed", "rejected"} /\ ObservedScore(resolution) \in Int
          /\ Phased(snap) /\ (snap.attempt # None \/ snap.evaluation # None)
      BY <1>3 DEF StudyInv, Partial, ObservedScore
    <2>2. s = Fold(snap, resolution)
      BY <1>3 DEF Loaded
    <2>3. CASE resolution.outcome = "rejected"
      <3>1. s = Terminalized(snap)
        BY <2>2, <2>3 DEF Fold
      <3> QED
        BY <1>1, <3>1, TerminalizedStudied
    <2>4. CASE resolution.outcome # "rejected" /\ snap.attempt # None
      <3>1. snap.phase \notin {"baseline", "sample", "promotion"}
        BY <2>1, <2>4 DEF Phased
      <3>2. s = FoldBootstrap(snap, BootstrapResult(resolution))
        BY <2>2, <2>4, <3>1 DEF Fold
      <3> QED
        BY <1>1, <3>2, FoldBootstrapStudied
    <2>5. CASE resolution.outcome # "rejected" /\ snap.attempt = None
      <3>1. snap.phase \in {"baseline", "sample", "promotion"}
        BY <2>1, <2>5 DEF Phased
      <3>2. CASE snap.phase = "baseline"
        <4>1. s = FoldBaseline(snap, resolution)
          BY <2>2, <2>5, <3>2 DEF Fold
        <4> QED
          BY <1>1, <2>1, <3>2, <4>1, FoldBaselineStudied
      <3>3. CASE snap.phase = "sample"
        <4>1. s = FoldSample(snap, resolution)
          BY <2>2, <2>5, <3>3 DEF Fold
        <4> QED
          BY <1>1, <2>1, <3>3, <4>1, FoldSampleStudied
      <3>4. CASE snap.phase = "promotion"
        <4>1. s = FoldPromotion(snap, resolution)
          BY <2>2, <2>5, <3>4 DEF Fold
        <4> QED
          BY <1>1, <2>1, <3>4, <4>1, FoldPromotionStudied
      <3> QED
        BY <3>1, <3>2, <3>3, <3>4
    <2> QED
      BY <2>3, <2>4, <2>5
  <1> QED
    BY <1>2, <1>3

\* A step that does not raise has a canonical plan, with the evidence it loaded and
\* as many evaluations as were debited.
LEMMA PlannedStudied ==
    ASSUME StudyInv, ~ Partial, NEW s, s = Loaded,
           NEW plan, plan = (IF s.phase = "failed" THEN <<s>> ELSE Plan(s)), Reason(s, plan) = "",
           NEW planned, planned = Last(plan)
    PROVE  Studied(planned) /\ Canonical(planned) /\ spent["evaluations"] = Evaluations(planned.effects)
  <1>1. Canonical(s) /\ \A kind \in Kinds : spent[kind] = Consumed(s, kind)
    BY DEF Reason
  <1>2. Studied(s)
    BY <1>1, LoadedStudied
  <1>3. spent["evaluations"] = Evaluations(s.effects)
    BY <1>1, ConsumedEvaluations DEF Kinds
  <1>4. CASE s.phase = "failed"
    <2>1. planned = s
      <3>1. Len(<<s>>) = 1 /\ <<s>>[1] = s
        OBVIOUS
      <3> QED
        BY <1>4, <3>1 DEF Last
    <2> QED
      BY <1>1, <1>2, <1>3, <2>1
  <1>5. CASE s.phase # "failed"
    <2>1. plan = Plan(s) /\ Tracked \subseteq DOMAIN s
      BY <1>2, <1>5 DEF Studied
    <2>2. Path(s, plan)
      BY <1>1, <1>5, <2>1, PlanPath
    <2>3. planned \in {plan[i] : i \in DOMAIN plan} /\ Same(s, planned)
      BY <2>2, PathLast
    <2>4. \A i \in DOMAIN plan : Canonical(plan[i])
      BY <1>5 DEF Reason
    <2>5. Canonical(planned)
      BY <2>3, <2>4
    <2>6. Studied(planned)
      BY <1>2, <1>5, <2>3, SameStudied
    <2>7. planned.effects = s.effects
      BY <2>3 DEF Same
    <2> QED
      BY <1>3, <2>5, <2>6, <2>7
  <1> QED
    BY <1>4, <1>5

\* The invariant holds at the start of a run.
LEMMA StudyStarts ==
    ASSUME Init PROVE StudyInv
  <1>1. snap = Start /\ resolution = None /\ status = "continue" /\ control \in Controls
    BY DEF Init
  <1>2. /\ Tracked \subseteq DOMAIN snap /\ snap.phase = "bootstrap" /\ snap.baseline = None /\ snap.sample = None
        /\ snap.samples = <<>> /\ snap.effects = <<>>
    BY <1>1 DEF Start, Tracked
  <1>3. IsSequence(<<>>) /\ Len(<<>>) = 0 /\ DOMAIN <<>> = {}
    BY DEF IsSequence
  <1>4. Evaluations(<<>>) = 0 /\ Cardinality(Promotions(<<>>, 0)) = 0
    <2>1. {i \in DOMAIN <<>> : <<>>[i].kind = "evaluations"} = {}
      BY <1>3
    <2> QED
      BY <2>1, NoPromotions, FS_EmptySet DEF Evaluations
  <1>5. Studied(snap)
    BY <1>2, <1>3, <1>4 DEF Studied, Counted
  <1> QED
    BY <1>1, <1>5 DEF StudyInv

\* A proposal call is an effect that is no evaluation.
LEMMA ProposeStudied ==
    ASSUME NEW s, Studied(s), NEW p, NEW x,
           x = [s EXCEPT
                  !.proposal = p, !.rng = p.rng, !.request = "",
                  !.effects = Append(@, Effect("proposal_calls",
                                  <<"proposal", Len(s.proposal.evidence), 0, 0>>, 0))]
    PROVE  Studied(x)
  <1>1. PICK e : e = Effect("proposal_calls", <<"proposal", Len(s.proposal.evidence), 0, 0>>, 0)
    OBVIOUS
  <1>2. e.kind # "evaluations"
    BY <1>1 DEF Effect
  <1>3. /\ Tracked \subseteq DOMAIN x /\ x.effects = Append(s.effects, e) /\ x.phase = s.phase
        /\ x.samples = s.samples /\ x.sample = s.sample /\ x.baseline = s.baseline
    BY <1>1 DEF Studied, Tracked
  <1> QED
    BY <1>2, <1>3, OtherEffect


\* A state a step stores, with the control as it was
LEMMA Stored ==
    ASSUME NEW x, Studied(x), snap' = x, control' = control
    PROVE  Studied(snap)'
  BY DEF Studied, Counted

\* Every step keeps the invariant.
LEMMA StepStudied ==
    ASSUME StudyInv, Next PROVE StudyInv'
  <1> USE DEF Store
  <1>1. control \in Controls /\ Studied(snap)
    BY DEF StudyInv
  <1>2. ASSUME NEW reason, Raise(reason) PROVE StudyInv'
    <2>1. UNCHANGED <<control, snap, resolution>> /\ status' = "stuck"
      BY <1>2 DEF Raise
    <2>2. Studied(snap)'
      BY <1>1, <2>1, Stored
    <2> QED
      BY <2>1, <2>2 DEF StudyInv, Phased
  <1>3. CASE RaisePartial
    BY <1>2, <1>3 DEF RaisePartial
  <1>4. CASE Invoke
    <2>1. PICK s : s = Loaded
      OBVIOUS
    <2>2. PICK plan : plan = IF s.phase = "failed" THEN <<s>> ELSE Plan(s)
      OBVIOUS
    <2>3. PICK planned : planned = Last(plan)
      OBVIOUS
    <2>4. /\ status = "continue" /\ ~ Partial
          /\ \/ Raise(Reason(s, plan))
             \/ /\ Reason(s, plan) = ""
                /\ \/ BindEval(planned) \/ Propose(planned) \/ Generate(planned)
                   \/ Evaluate(planned) \/ Terminate(planned)
      BY <1>4, <2>1, <2>2, <2>3 DEF Invoke
    <2>5. CASE Raise(Reason(s, plan))
      BY <1>2, <2>5
    <2>6. CASE Reason(s, plan) = ""
      <3>1. Studied(planned) /\ Canonical(planned) /\ spent["evaluations"] = Evaluations(planned.effects)
        BY <2>1, <2>2, <2>3, <2>4, <2>6, PlannedStudied
      <3>2. Phased(planned)
        BY <3>1, PhaseTells
      <3>3. CASE BindEval(planned)
        <4>1. PICK x : x = [planned EXCEPT !.binding = "resolved"]
          OBVIOUS
        <4>2. snap' = x /\ control' = control /\ resolution' = None /\ status' = "continue"
          BY <2>4, <3>3, <4>1 DEF BindEval
        <4>3. Studied(x)
          <5>1. /\ Tracked \subseteq DOMAIN x /\ x.phase = planned.phase /\ x.effects = planned.effects
                /\ x.samples = planned.samples /\ x.sample = planned.sample /\ x.baseline = planned.baseline
            BY <3>1, <4>1 DEF Studied, Tracked
          <5> QED
            BY <3>1, <5>1 DEF Studied, Counted
        <4>4. Studied(snap)'
          BY <4>2, <4>3, Stored
        <4> QED
          BY <1>1, <4>2, <4>4 DEF StudyInv
      <3>4. CASE Propose(planned)
        <4>1. PICK r \in Responses :
                LET p == FoldResponse(c, planned.proposal, r)
                    next == [planned EXCEPT
                                !.proposal = p, !.rng = p.rng, !.request = "",
                                !.effects = Append(@, Effect("proposal_calls",
                                                <<"proposal", Len(planned.proposal.evidence), 0, 0>>, 0))] IN
                IF p.stage = "failed"
                THEN Store(Terminalized(next), Cost(planned)) /\ status' = "failed"
                ELSE Store(next, Cost(planned)) /\ UNCHANGED status
          BY <3>4 DEF Propose
        <4>2. PICK p : p = FoldResponse(c, planned.proposal, r)
          OBVIOUS
        <4>3. PICK x : x = [planned EXCEPT
                                !.proposal = p, !.rng = p.rng, !.request = "",
                                !.effects = Append(@, Effect("proposal_calls",
                                                <<"proposal", Len(planned.proposal.evidence), 0, 0>>, 0))]
          OBVIOUS
        <4>4. /\ (snap' = Terminalized(x) /\ status' = "failed") \/ (snap' = x /\ status' = status)
              /\ control' = control
          BY <4>1, <4>2, <4>3
        <4>5. Studied(x) /\ Studied(Terminalized(x))
          BY <3>1, <4>3, ProposeStudied, TerminalizedStudied
        <4>6. Studied(snap)'
          BY <4>4, <4>5, Stored
        <4>7. resolution' = None /\ status' # "complete"
          BY <2>4, <3>4, <4>4 DEF Propose
        <4> QED
          BY <1>1, <4>4, <4>6, <4>7 DEF StudyInv
      <3>5. ASSUME snap' = planned, control' = control, status' = status,
                   resolution' \in Outcomes \cup [outcome : {"partial"}, score : {0}],
                   planned.attempt # None \/ planned.evaluation # None
            PROVE  StudyInv'
        <4>1. Studied(snap)'
          BY <3>1, <3>5, Stored
        <4>2. resolution'.outcome \in {"completed", "failed", "rejected", "partial"} /\ resolution'.score \in Nat
          BY <3>5, Miprov2Assumption DEF Outcomes
        <4>3. Phased(snap)'
          BY <3>2, <3>5 DEF Phased
        <4> QED
          BY <1>1, <2>4, <3>5, <4>1, <4>2, <4>3 DEF StudyInv
      <3>6. CASE Generate(planned)
        BY <3>5, <3>6 DEF Generate
      <3>7. CASE Evaluate(planned)
        BY <3>5, <3>7 DEF Evaluate
      <3>8. CASE Terminate(planned)
        <4>1. /\ snap' = planned /\ control' = control /\ resolution' = None
              /\ status' = planned.phase /\ spent' = [kind \in Kinds |-> spent[kind] + 0]
          BY <3>8 DEF Terminate, Nothing
        <4>2. Studied(snap)'
          BY <3>1, <4>1, Stored
        <4>3. ASSUME planned.phase = "complete" PROVE Reported(snap)'
          <5>1. Reported(planned)
            BY <3>1, <4>3, CompleteReports
          <5> QED
            BY <4>1, <5>1 DEF Reported
        <4>4. spent'["evaluations"] = Evaluations(planned.effects)
          <5>1. Evaluations(planned.effects) \in Nat
            <6>1. PICK q, t : q = planned.effects /\ t = Append(q, q)
              OBVIOUS
            <6>2. IsSequence(q)
              BY <3>1, <6>1 DEF Studied
            <6> QED
              BY <6>1, <6>2, EvaluationsGrow
          <5> QED
            BY <3>1, <4>1, <5>1 DEF Kinds
        <4> QED
          BY <1>1, <4>1, <4>2, <4>3, <4>4 DEF StudyInv, Evaluations
      <3> QED
        BY <2>4, <2>6, <3>3, <3>4, <3>6, <3>7, <3>8 DEF Raise
    <2> QED
      BY <2>4, <2>5, <2>6
  <1> QED
    BY <1>3, <1>4 DEF Next

\* Whatever the proposals, generations and evaluations come to, a run's snapshot has as
\* many paid evaluations as its transcript has scores, and a complete run reports the
\* best of a transcript on schedule.
THEOREM StudyInvariance == Spec => []StudyInv
  <1>1. Init => StudyInv
    BY StudyStarts
  <1>2. StudyInv /\ [Next]_vars => StudyInv'
    <2>1. ASSUME StudyInv, UNCHANGED vars PROVE StudyInv'
      BY <2>1 DEF StudyInv, vars, Studied, Counted, Phased, Reported
    <2> QED
      BY <2>1, StepStudied
  <1> QED
    BY <1>1, <1>2, PTL DEF Spec

\* The scores the run ranks are those of its full evaluations.
LEMMA RankedAreFull ==
    ASSUME NEW ctl, NEW b, NEW samples, NEW n \in Nat, DOMAIN samples = 1 .. n,
           ~ (ctl.minibatch /\ ctl.size >= ctl.valset)
    PROVE  RankedScores(ctl, b, samples) = {e.score : e \in FullSet(ctl, b, samples, n)}
  <1>1. PICK R, F : R = RankedScores(ctl, b, samples) /\ F = FullSet(ctl, b, samples, n)
    OBVIOUS
  <1>2. ASSUME NEW v \in R PROVE \E e \in F : e.score = v
    <2>1. PICK head : head = FullOf([combo |-> Base, score |-> b])
      OBVIOUS
    <2>2. CASE v = b
      <3>1. head \in F /\ head.score = b
        BY <1>1, <2>1 DEF FullSet, FullOf
      <3> QED
        BY <2>2, <3>1
    <2>3. CASE \E i \in DOMAIN samples : (~ ctl.minibatch \/ ctl.size >= ctl.valset) /\ v = samples[i].score
      <3>1. PICK i \in 1 .. n : v = samples[i].score
        BY <2>3
      <3>2. ~ ctl.minibatch
        BY <2>3
      <3>3. FullOf(samples[i]) \in F /\ FullOf(samples[i]).score = v
        BY <1>1, <3>1, <3>2 DEF FullSet, FullOf
      <3> QED
        BY <3>3
    <2>4. CASE \E i \in DOMAIN samples : samples[i].promotion # None /\ v = samples[i].promotion.score
      <3>1. PICK i \in 1 .. n : samples[i].promotion # None /\ v = samples[i].promotion.score
        BY <2>4
      <3>2. FullOf(samples[i].promotion) \in F /\ FullOf(samples[i].promotion).score = v
        BY <1>1, <3>1 DEF FullSet, FullOf
      <3> QED
        BY <3>2
    <2> QED
      BY <1>1, <1>2, <2>2, <2>3, <2>4 DEF RankedScores
  <1>3. ASSUME NEW e \in F PROVE e.score \in R
    <2>1. CASE e = FullOf([combo |-> Base, score |-> b])
      BY <1>1, <2>1 DEF RankedScores, FullOf
    <2>2. CASE \E i \in 1 .. n : ~ ctl.minibatch /\ e = FullOf(samples[i])
      BY <1>1, <2>2 DEF RankedScores, FullOf
    <2>3. CASE \E i \in 1 .. n : samples[i].promotion # None /\ e = FullOf(samples[i].promotion)
      BY <1>1, <2>3 DEF RankedScores, FullOf
    <2> QED
      BY <1>1, <1>3, <2>1, <2>2, <2>3 DEF FullSet
  <1> QED
    BY <1>1, <1>2, <1>3

\* The parts of a complete study the two results below need
LEMMA CompleteStudy ==
    ASSUME StudyInv, status = "complete", NEW n, n = Len(snap.samples)
    PROVE  /\ n \in Nat \ {0} /\ DOMAIN snap.samples = 1 .. n /\ n = control.trials
           /\ snap.samples \in Seq(Range(snap.samples)) /\ BoundTranscript(control, snap.samples)
           /\ control.steps \in Nat \ {0} /\ control.minibatch \in BOOLEAN
           /\ snap.baseline # None /\ snap.baseline.score \in Int
           /\ \A i \in 1 .. n : ScoredTrial(snap.samples[i])
           /\ spent["evaluations"] = 1 + n + Cardinality(Promotions(snap.samples, n))
  <1>1. Studied(snap) /\ snap.phase = "complete" /\ Reported(snap) /\ control \in Controls
        /\ spent["evaluations"] = Evaluations(snap.effects)
    BY DEF StudyInv
  <1>2. control.trials \in Nat \ {0} /\ control.steps \in Nat \ {0} /\ control.minibatch \in BOOLEAN
    BY <1>1, Miprov2Assumption DEF Control, Configured
  <1>3. IsSequence(snap.samples)
    BY <1>1 DEF Studied
  <1>4. n \in Nat /\ DOMAIN snap.samples = 1 .. n
    BY <1>3, SequenceFacts
  <1>5. n >= control.trials
    BY <1>1 DEF Studied
  <1>6. BoundTranscript(control, snap.samples) /\ snap.sample = None
    BY <1>1 DEF Reported
  <1>7. n <= control.trials
    BY <1>6 DEF BoundTranscript, OnSchedule
  <1>8. n = control.trials
    BY <1>2, <1>4, <1>5, <1>7
  <1>9. snap.baseline # None /\ snap.baseline.score \in Int
    BY <1>1, <1>2, <1>8 DEF Studied
  <1>10. \A i \in 1 .. n : ScoredTrial(snap.samples[i])
    BY <1>1, <1>4 DEF Studied
  <1>11. spent["evaluations"] = 1 + n + Cardinality(Promotions(snap.samples, n))
    <2>1. Counted(snap)
      BY <1>1 DEF Studied
    <2>2. Cardinality(Promotions(snap.samples, n)) \in Nat
      BY <1>4, PromotionsFinite
    <2> QED
      BY <1>1, <1>4, <1>6, <1>9, <2>1, <2>2 DEF Counted
  <1> QED
    BY <1>2, <1>3, <1>4, <1>6, <1>8, <1>9, <1>10, <1>11 DEF IsSequence

\* A completed study has run the schedule it announced, for every control: as many
\* evaluations as adjusted_num_trials promises, the last trial promoted when trials are
\* minibatches, and trial numbers without a gap.
THEOREM ScheduleAlwaysKept == Spec => []ScheduleKept
  <1>1. StudyInv => ScheduleKept
    <2> SUFFICES ASSUME StudyInv, status = "complete" PROVE ScheduleKept
      BY DEF ScheduleKept
    <2>1. PICK samples, n : samples = snap.samples /\ n = Len(samples)
      OBVIOUS
    <2>2. /\ n \in Nat \ {0} /\ DOMAIN samples = 1 .. n /\ n = control.trials
          /\ samples \in Seq(Range(samples)) /\ BoundTranscript(control, samples)
          /\ control.steps \in Nat \ {0} /\ control.minibatch \in BOOLEAN
          /\ spent["evaluations"] = 1 + n + Cardinality(Promotions(samples, n))
      BY <2>1, CompleteStudy
    <2>3. PICK steps \in Nat \ {0} : steps = control.steps
      BY <2>2
    <2>4. PICK S : S = Range(samples)
      OBVIOUS
    <2>5. samples \in Seq(S) /\ Len(samples) = n /\ control.trials = n /\ control.steps = steps
      BY <2>1, <2>2, <2>3, <2>4
    <2>6. IF control.minibatch
          THEN /\ samples[n].promotion # None
               /\ AdjustedNumTrials(control) = 1 + n + Cardinality(Promotions(samples, n))
          ELSE Cardinality(Promotions(samples, n)) = 0
      BY <2>2, <2>5, ScheduleIsFull
    <2>7. n \in Nat /\ n <= Len(samples)
      BY <2>2, <2>5
    <2>8. Trials(samples, n) = 1 .. n + Cardinality(Promotions(samples, n))
      BY <2>2, <2>5, <2>7, NoGap
    <2>9. control.minibatch => n \in Promotions(samples, n)
      BY <2>2, <2>6 DEF Promotions
    <2>10. spent["evaluations"] = IF control.minibatch THEN AdjustedNumTrials(control) ELSE n + 1
      BY <2>2, <2>6
    <2> QED
      BY <2>1, <2>2, <2>8, <2>9, <2>10 DEF ScheduleKept, Promotions, Trials
  <1> QED
    BY <1>1, StudyInvariance, PTL

\* The winner of a completed run has the best score of the ranking the run reports, and
\* is one of the candidates it evaluated on the whole validation set.
THEOREM WinnerAlwaysHeadsRanking == Spec => []WinnerHeadsRanking
  <1>1. StudyInv => WinnerHeadsRanking
    <2> SUFFICES ASSUME StudyInv, status = "complete", ~ (control.minibatch /\ control.size >= control.valset)
                 PROVE  /\ snap.winner.score = Max(RankedScores(control, snap.baseline.score, snap.samples))
                        /\ snap.winner.combo \in Range(snap.full)
      BY DEF WinnerHeadsRanking
    <2>1. PICK samples, n, b, w : samples = snap.samples /\ n = Len(samples) /\ b = snap.baseline.score
                                  /\ w = BestFullEvaluation(control, b, samples)
      OBVIOUS
    <2>2. n \in Nat /\ DOMAIN samples = 1 .. n /\ snap.baseline # None /\ b \in Int
          /\ \A i \in 1 .. n : ScoredTrial(samples[i])
      BY <2>1, CompleteStudy
    <2>3. PICK evals : evals = FullEvaluations(control, b, samples)
      OBVIOUS
    <2>4. snap.winner = w /\ snap.full = [i \in DOMAIN evals |-> evals[i].combo]
      BY <2>1, <2>2, <2>3 DEF StudyInv, Reported
    <2>5. PICK F : F = FullSet(control, b, samples, n)
      OBVIOUS
    <2>6. w \in F /\ \A e \in F : e.score \in Int /\ w.score >= e.score
      <3>1. \A i \in 1 .. n : /\ samples[i].score \in Int
                              /\ samples[i].promotion # None => samples[i].promotion.score \in Int
        BY <2>2 DEF ScoredTrial
      <3> QED
        BY <2>1, <2>2, <2>5, <3>1, BestFullEvaluationIs
    <2>7. Range(evals) = F
      BY <2>2, <2>3, <2>5, FullEvaluationsAre
    <2>8. w.combo \in Range(snap.full)
      <3>1. PICK i \in DOMAIN evals : w = evals[i]
        BY <2>6, <2>7 DEF Range
      <3>2. i \in DOMAIN snap.full /\ snap.full[i] = w.combo
        BY <2>4, <3>1
      <3> QED
        BY <3>2 DEF Range
    <2>9. w.score = Max(RankedScores(control, b, samples))
      <3>1. PICK R : R = RankedScores(control, b, samples)
        OBVIOUS
      <3>2. R = {e.score : e \in F}
        BY <2>2, <2>5, <3>1, RankedAreFull
      <3>3. w.score \in R /\ \A v \in R : v \in Int /\ w.score >= v
        BY <2>6, <3>2
      <3>4. Max(R) \in R /\ \A v \in R : Max(R) >= v
        BY <3>3 DEF Max
      <3>5. Max(R) \in Int /\ Max(R) >= w.score /\ w.score >= Max(R) /\ w.score \in Int
        BY <3>3, <3>4
      <3> QED
        BY <3>1, <3>5
    <2> QED
      BY <2>1, <2>4, <2>8, <2>9
  <1> QED
    BY <1>1, StudyInvariance, PTL

=============================================================================
