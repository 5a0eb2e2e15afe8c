------------------------- MODULE EvalClaimsProofs -------------------------
(***************************************************************************)
(* Safety of the claim protocol for every set of owners, evidence and row  *)
(* outcomes and every bound on calls and renewals.                         *)
(***************************************************************************)
EXTENDS EvalClaims, TLAPS

---------------------------------------------------------------------------
(* The inductive invariant                                                 *)

\* How event c may follow event q in a stream.
Follows(q, c) ==
    /\ q.att = None
    /\ IF c.owner = q.owner THEN c.gen = q.gen /\ c.hb = q.hb + 1
                            ELSE c.gen = q.gen + 1 /\ c.hb = 0

\* Generations never decrease along the stream and each has one owner.
StreamMonotone ==
    \A i, j \in 1..Len(stream) : i < j =>
        /\ stream[i].gen <= stream[j].gen
        /\ stream[i].gen = stream[j].gen => stream[i].owner = stream[j].owner

\* A result is attested by a renewal, never by the first claim.
StreamOrigin == stream # <<>> => stream[1].att = None

StreamInv == StreamWellFormed /\ StreamMonotone /\ StreamOrigin

\* An event on its way to the store still fits the slot it was computed for;
\* if that slot is free and it is a takeover, the lease is still expired.
Fits(d, s, over) ==
    /\ d.at <= Len(s) + 1
    /\ d.at = 1 => d.claim.gen = 0 /\ d.claim.hb = 0 /\ d.claim.att = None
    /\ d.at > 1 => Follows(s[d.at - 1], d.claim)
    /\ d.at > 1 /\ d.at = Len(s) + 1 /\ d.claim.owner # s[Len(s)].owner => over

\* The events the two threads of an owner hold.
DraftInv(o) ==
    /\ pc[o] \in {"claimbind", "renewbind", "publishbind"} =>
        /\ draft[o] \in Draft
        /\ draft[o].claim.owner = o
        /\ draft[o].claim.att = IF pc[o] = "publishbind" THEN res[o] ELSE None
        /\ pc[o] # "claimbind" => draft[o].claim.gen = owned[o]
        /\ Fits(draft[o], stream, expired)
    /\ hpc[o] = "bind" =>
        /\ hdraft[o] \in Draft
        /\ hdraft[o].claim.owner = o
        /\ hdraft[o].claim.att = None
        /\ Fits(hdraft[o], stream, expired)

\* The result a thread is about to publish or bind.
ResultInv(o) ==
    /\ pc[o] \in {"publish", "publishbind"} => res[o] \in Executed
    /\ pc[o] = "currentrejected" => res[o] \in Rejected
    /\ pc[o] \in {"bind", "adopt"} => res[o] \in Resolution /\ Valid(res[o])

\* A generation is owned by virtue of an event of the stream, and a call that
\* owns none knows why.
OwnedInv(o) ==
    /\ owned[o] # None =>
        \E i \in 1..Len(stream) : stream[i].owner = o /\ stream[i].gen = owned[o]
    /\ pc[o] = "reexisting" /\ owned[o] = None => resolution # None \/ Terminal
    /\ pc[o] = "reattested" /\ owned[o] = None => Terminal

\* What a call has decided to return or raise.
FateInv(o) ==
    /\ ret[o] # None => fate[o] = "returned" /\ ret[o] = resolution
    /\ fate[o] = "returned" => resolution # None
    /\ fate[o] \notin {"noresult", "unattested", "heartbeat"}

LocalInv(o) == DraftInv(o) /\ ResultInv(o) /\ OwnedInv(o) /\ FateInv(o)

IInv ==
    /\ TypeOK
    /\ StreamInv
    /\ ResolvedIsAttested
    /\ \A o \in Owners : LocalInv(o)

---------------------------------------------------------------------------
(* The stream under BindClaim                                              *)

\* The last event of a non-empty stream is an event.
LEMMA LatestType ==
    ASSUME stream \in Seq(Claim), stream # <<>>
    PROVE  Len(stream) \in Nat \ {0} /\ Latest \in Claim
  BY DEF Latest

\* Binding a draft that fits leaves the stream alone or appends the draft, and
\* the winner is what the draft's slot then holds.
LEMMA BindClaimEffect ==
    ASSUME stream \in Seq(Claim), NEW d \in Draft, Fits(d, stream, expired), BindClaim(d)
    PROVE  /\ stream' \in Seq(Claim)
           /\ \/ d.at = Len(stream) + 1 /\ stream' = Append(stream, d.claim)
              \/ d.at < Len(stream) + 1 /\ stream' = stream
           /\ d.at \in 1..Len(stream')
           /\ Winner(d) = stream'[d.at]
           /\ Winner(d) \in Claim
  <1>1. d.at \in Nat /\ d.at >= 1 /\ d.claim \in Claim /\ Len(stream) \in Nat
    BY DEF Draft
  <1>2. CASE d.at = Len(stream) + 1
    BY <1>1, <1>2 DEF BindClaim, Winner
  <1>3. CASE d.at < Len(stream) + 1
    <2>1. d.at \in 1..Len(stream) /\ stream' = stream
      BY <1>1, <1>3 DEF BindClaim
    <2> QED
      BY <1>1, <1>3, <2>1 DEF Winner
  <1> QED
    BY <1>1, <1>2, <1>3 DEF Fits

\* A terminal stream accepts no event: the one that would go into the next slot
\* was computed from a non-terminal predecessor.
LEMMA TerminalIsFinal ==
    ASSUME stream \in Seq(Claim), NEW d \in Draft, Fits(d, stream, expired), BindClaim(d), Terminal
    PROVE  stream' = stream
  BY LatestType DEF Fits, BindClaim, Draft, Terminal, Latest, Follows

\* Binding a draft that fits keeps the stream well formed.
LEMMA BindClaimWellFormed ==
    ASSUME stream \in Seq(Claim), StreamInv, NEW d \in Draft, Fits(d, stream, expired), BindClaim(d)
    PROVE  StreamInv'
  <1>1. CASE stream' = stream
    BY <1>1 DEF StreamInv, StreamWellFormed, StreamMonotone, StreamOrigin
  <1>2. CASE d.at = Len(stream) + 1 /\ stream' = Append(stream, d.claim)
    <2> DEFINE n == Len(stream)
    <2>1. /\ n \in Nat /\ Len(stream') = n + 1 /\ stream'[n + 1] = d.claim
          /\ \A i \in 1..n : stream'[i] = stream[i] /\ stream[i] \in Claim
      BY <1>2 DEF Draft
    <2>2. StreamWellFormed'
      <3> DEFINE Ok(s, i) ==
            IF i = 1
            THEN s[i].gen = 0 /\ s[i].hb = 0
            ELSE /\ s[i-1].att = None
                 /\ IF s[i].owner = s[i-1].owner
                    THEN s[i].gen = s[i-1].gen /\ s[i].hb = s[i-1].hb + 1
                    ELSE s[i].gen = s[i-1].gen + 1 /\ s[i].hb = 0
      <3>1. ASSUME NEW i \in 1..n PROVE Ok(stream', i)
        <4>1. Ok(stream, i)
          BY DEF StreamInv, StreamWellFormed
        <4>2. i = 1 \/ i - 1 \in 1..n
          BY <2>1
        <4> QED
          BY <4>1, <4>2, <2>1
      <3>2. Ok(stream', n + 1)
        <4>1. CASE n = 0
          BY <4>1, <1>2, <2>1 DEF Fits
        <4>2. CASE n > 0
          <5>1. Follows(stream[n], d.claim)
            BY <4>2, <1>2, <2>1 DEF Fits
          <5>2. n + 1 # 1 /\ (n + 1) - 1 = n /\ stream'[n] = stream[n]
            BY <4>2, <2>1
          <5> QED
            BY <5>1, <5>2, <2>1 DEF Follows
        <4> QED
          BY <4>1, <4>2, <2>1
      <3>3. \A i \in 1..(n + 1) : Ok(stream', i)
        BY <3>1, <3>2, <2>1
      <3> QED
        BY <3>3, <2>1 DEF StreamWellFormed
    <2>3. StreamMonotone'
      <3> SUFFICES ASSUME NEW i \in 1..(n + 1), NEW j \in 1..(n + 1), i < j
                   PROVE  /\ stream'[i].gen <= stream'[j].gen
                          /\ stream'[i].gen = stream'[j].gen => stream'[i].owner = stream'[j].owner
        BY <2>1 DEF StreamMonotone
      <3>1. CASE j \in 1..n
        BY <3>1, <2>1 DEF StreamInv, StreamMonotone
      <3>2. CASE j = n + 1
        <4>1. i \in 1..n /\ n \in 1..n
          BY <3>2, <2>1
        <4>2. Follows(stream[n], d.claim)
          BY <4>1, <1>2, <2>1 DEF Fits, Draft
        <4>3. /\ stream[i].gen <= stream[n].gen
              /\ stream[i].gen = stream[n].gen => stream[i].owner = stream[n].owner
          BY <4>1, <2>1 DEF StreamInv, StreamMonotone, Claim
        <4>4. stream[i] \in Claim /\ stream[n] \in Claim /\ d.claim \in Claim
          BY <4>1, <2>1 DEF Draft
        <4> QED
          BY <3>2, <4>1, <4>2, <4>3, <4>4, <2>1 DEF Follows, Claim
      <3> QED
        BY <3>1, <3>2, <2>1
    <2>4. StreamOrigin'
      <3>1. CASE n = 0
        BY <3>1, <1>2, <2>1 DEF StreamOrigin, Fits
      <3>2. CASE n > 0
        <4>1. stream # <<>> /\ 1 \in 1..n
          BY <3>2, <2>1
        <4> QED
          BY <4>1, <2>1 DEF StreamInv, StreamOrigin
      <3> QED
        BY <3>1, <3>2, <2>1
    <2> QED
      BY <2>2, <2>3, <2>4 DEF StreamInv
  <1> QED
    BY <1>1, <1>2, BindClaimEffect

\* What any step may do to the stream and the resolution.
Grow ==
    /\ stream' \in Seq(Claim)
    /\ \/ stream' = stream /\ (expired => expired')
       \/ ~Terminal /\ \E c \in Claim : stream' = Append(stream, c)
    /\ resolution' \in {resolution} \cup {r \in Resolution : resolution = None}

\* Binding a draft that fits is a growth of the store.
LEMMA BindClaimGrow ==
    ASSUME stream \in Seq(Claim), NEW d \in Draft, Fits(d, stream, expired), BindClaim(d),
           resolution' = resolution
    PROVE  Grow
  <1>1. d.claim \in Claim
    BY DEF Draft
  <1>2. CASE d.at = Len(stream) + 1
    <2>1. stream' = Append(stream, d.claim) /\ stream' # stream
      BY <1>1, <1>2 DEF BindClaim
    <2>2. ~Terminal
      BY <2>1, TerminalIsFinal
    <2> QED
      BY <1>1, <2>1, <2>2 DEF Grow
  <1>3. CASE d.at # Len(stream) + 1
    BY <1>3 DEF Grow, BindClaim
  <1> QED
    BY <1>2, <1>3

\* A draft that fits keeps fitting while others extend the stream.
LEMMA FitsStable ==
    ASSUME stream \in Seq(Claim), Grow, NEW d \in Draft, Fits(d, stream, expired),
           expired \in BOOLEAN, expired' \in BOOLEAN
    PROVE  Fits(d, stream', expired')
  <1>1. d.at \in Nat /\ d.at >= 1 /\ Len(stream) \in Nat
    BY DEF Draft
  <1>2. CASE stream' = stream /\ (expired => expired')
    BY <1>2, Zenon DEF Fits
  <1>3. ASSUME NEW c \in Claim, stream' = Append(stream, c)
        PROVE  Fits(d, stream', expired')
    <2>1. /\ Len(stream') = Len(stream) + 1
          /\ \A i \in 1..Len(stream) : stream'[i] = stream[i]
      BY <1>3
    <2>2. d.at > 1 => d.at - 1 \in 1..Len(stream)
      BY <1>1 DEF Fits
    <2> QED
      BY <1>1, <2>1, <2>2 DEF Fits
  <1> QED
    BY <1>2, <1>3 DEF Grow

\* A terminal stream, and so what it attests, is never touched again.
LEMMA AttestedStable ==
    ASSUME Grow, Terminal
    PROVE  stream' = stream /\ Terminal' /\ Attested' = Attested
  BY DEF Grow, Terminal, Attested, Latest

\* The steps of others preserve what an owner relies on.
LEMMA LocalStable ==
    ASSUME TypeOK, TypeOK', Grow, NEW o \in Owners, LocalInv(o),
           pc'[o] = pc[o], owned'[o] = owned[o], draft'[o] = draft[o],
           res'[o] = res[o], fate'[o] = fate[o], ret'[o] = ret[o],
           hpc'[o] = hpc[o], hdraft'[o] = hdraft[o]
    PROVE  LocalInv(o)'
  <1>0. /\ stream \in Seq(Claim) /\ expired \in BOOLEAN /\ expired' \in BOOLEAN
        /\ resolution \in Resolution \cup {None}
    BY DEF TypeOK
  <1>1. DraftInv(o)'
    BY <1>0, FitsStable DEF LocalInv, DraftInv
  <1>2. ResultInv(o)'
    <2>1. ASSUME NEW r, Valid(r) PROVE (r \in Executed => Attested' = r)
      <3> SUFFICES ASSUME r \in Executed PROVE Attested' = r
        OBVIOUS
      <3>1. Attested = r /\ r # None
        BY <2>1, ConstantsAssumption DEF Valid, Resolution
      <3>2. Terminal
        BY <3>1 DEF Attested
      <3> QED
        BY <3>1, <3>2, AttestedStable
    <2> QED
      BY <2>1 DEF LocalInv, ResultInv, Valid
  <1>3. OwnedInv(o)'
    <2>1. resolution # None => resolution' # None
      BY <1>0, ConstantsAssumption DEF Grow
    <2>2. ASSUME owned[o] # None
          PROVE  \E i \in 1..Len(stream') : stream'[i].owner = o /\ stream'[i].gen = owned[o]
      <3>1. PICK i \in 1..Len(stream) : stream[i].owner = o /\ stream[i].gen = owned[o]
        BY <2>2 DEF LocalInv, OwnedInv
      <3>2. i \in 1..Len(stream') /\ stream'[i] = stream[i]
        <4>1. CASE stream' = stream
          BY <4>1
        <4>2. ASSUME NEW c \in Claim, stream' = Append(stream, c)
              PROVE  i \in 1..Len(stream') /\ stream'[i] = stream[i]
          BY <4>2, <1>0
        <4> QED
          BY <4>1, <4>2 DEF Grow
      <3> QED
        BY <3>1, <3>2
    <2> QED
      BY <2>1, <2>2, AttestedStable DEF LocalInv, OwnedInv
  <1>4. FateInv(o)'
    BY <1>0, ConstantsAssumption DEF LocalInv, FateInv, Grow
  <1> QED
    BY <1>1, <1>2, <1>3, <1>4 DEF LocalInv

---------------------------------------------------------------------------
(* Type correctness                                                        *)

\* What the stream reads give a step: types of what is attested and drafted.
LEMMA ReadTypes ==
    ASSUME TypeOK, NEW o \in Owners
    PROVE  /\ Attested \in Executed \cup {None}
           /\ Origin(o) \in Draft
           /\ stream # <<>> => /\ Latest.gen \in Nat
                               /\ Takeover(o) \in Draft
                               /\ \A a \in Executed \cup {None} : Renewal(o, a) \in Draft
  <1>1. stream \in Seq(Claim) /\ Len(stream) \in Nat
    BY DEF TypeOK
  <1>2. Origin(o) \in Draft
    BY DEF Origin, Draft, Claim
  <1>3. ASSUME stream # <<>> PROVE Latest \in Claim /\ Len(stream) + 1 \in Nat \ {0}
    BY <1>1, <1>3, LatestType
  <1>4. Attested \in Executed \cup {None}
    BY <1>3 DEF Attested, Terminal, Claim
  <1>5. ASSUME stream # <<>>, NEW a \in Executed \cup {None} PROVE Renewal(o, a) \in Draft
    BY <1>3, <1>5 DEF Renewal, Draft, Claim
  <1>6. ASSUME stream # <<>> PROVE Takeover(o) \in Draft
    BY <1>3, <1>6 DEF Takeover, Draft, Claim
  <1>7. ASSUME stream # <<>> PROVE Latest.gen \in Nat
    BY <1>3, <1>7 DEF Claim
  <1> QED
    BY <1>2, <1>4, <1>5, <1>6, <1>7

\* The slot, the stream and the flag after an owner's bind are of their types.
LEMMA BindTypes ==
    ASSUME TypeOK, NEW d \in Draft, Fits(d, stream, expired), BindClaim(d)
    PROVE  /\ stream' \in Seq(Claim)
           /\ expired' \in BOOLEAN
           /\ Winner(d) \in Claim /\ Winner(d).gen \in Nat
  <1>1. stream \in Seq(Claim) /\ expired \in BOOLEAN
    BY DEF TypeOK
  <1>2. stream' \in Seq(Claim) /\ Winner(d) \in Claim
    BY <1>1, BindClaimEffect
  <1>3. expired' \in BOOLEAN
    BY <1>1 DEF BindClaim
  <1> QED
    BY <1>2, <1>3 DEF Claim

\* Every step of a state satisfying the invariant keeps the types.
LEMMA TypeStep ==
    ASSUME IInv, NEW o \in Owners,
           \/ \E m \in Modes : Start(o, m)
           \/ Resolve(o) \/ Heartbeat(o) \/ Crash(o)
    PROVE  TypeOK'
  <1> USE DEF store, main, beat
  <1>0. TypeOK /\ LocalInv(o)
    BY DEF IInv
  <1>a. /\ pc \in [Owners -> PCs]
        /\ draft \in [Owners -> Draft \cup {None}]
        /\ hdraft \in [Owners -> Draft \cup {None}]
        /\ owned \in [Owners -> Nat \cup {None}]
        /\ res \in [Owners -> Resolution \cup {None}]
        /\ fate \in [Owners -> Fates]
        /\ ret \in [Owners -> Resolution \cup {None}]
        /\ resolution \in Resolution \cup {None}
    BY <1>0 DEF TypeOK
  <1>b. Attested \in Executed \cup {None} /\ Origin(o) \in Draft
    BY <1>0, ReadTypes
  <1>c. stream # <<>> => Latest.gen \in Nat /\ Takeover(o) \in Draft
    BY <1>0, ReadTypes
  <1>d. ASSUME stream # <<>>, NEW a \in Executed \cup {None}
        PROVE  Renewal(o, a) \in Draft
    BY <1>0, <1>d, ReadTypes
  <1>e. stream # <<>> => Renewal(o, None) \in Draft
    BY <1>d
  <1>1. ASSUME NEW m \in Modes, Start(o, m) PROVE TypeOK'
    BY <1>0, <1>1 DEF TypeOK, PCs, Fates, Start, Goto
  <1>2. CASE CheckExisting(o)
    BY <1>0, <1>2 DEF TypeOK, PCs, Fates, Resolution, CheckExisting, ExistingOr, Load, Leave, Goto
  <1>3. CASE CheckAttested(o)
    <2>1. pc' \in [Owners -> PCs]
      BY <1>a, <1>3 DEF PCs, CheckAttested, Goto
    <2>2. res' \in [Owners -> Resolution \cup {None}]
      BY <1>a, <1>b, <1>3 DEF Resolution, CheckAttested
    <2> QED
      BY <1>0, <1>3, <2>1, <2>2 DEF TypeOK, CheckAttested
  <1>4. CASE ClaimCheckKey(o)
    BY <1>0, <1>4 DEF TypeOK, PCs, Fates, Resolution, ClaimCheckKey, Goto
  <1>5. CASE ClaimLatest(o)
    <2>1. pc' \in [Owners -> PCs]
      BY <1>a, <1>5 DEF PCs, ClaimLatest, Goto
    <2>2. draft' \in [Owners -> Draft \cup {None}]
      BY <1>a, <1>b, <1>c, <1>e, <1>5 DEF ClaimLatest
    <2>3. owned' \in [Owners -> Nat \cup {None}]
      BY <1>a, <1>c, <1>5 DEF ClaimLatest
    <2> QED
      BY <1>0, <1>5, <2>1, <2>2, <2>3 DEF TypeOK, ClaimLatest
  <1>6. CASE CheckExistingAgain(o)
    BY <1>0, <1>6 DEF TypeOK, PCs, Fates, Resolution, CheckExistingAgain, ExistingOr, Load, Leave, Goto
  <1>7. CASE CheckAttestedAgain(o)
    BY <1>0, <1>b, <1>7 DEF TypeOK, PCs, Fates, Resolution, CheckAttestedAgain, Leave, Goto
  <1>8. CASE RenewLatest(o)
    <2>1. pc' \in [Owners -> PCs]
      BY <1>a, <1>8 DEF PCs, RenewLatest, Leave, Goto
    <2>2. draft' \in [Owners -> Draft \cup {None}]
      BY <1>a, <1>b, <1>c, <1>e, <1>8 DEF RenewLatest, Current
    <2>3. hpc' \in [Owners -> {"off", "wait", "due", "bind"}]
      BY <1>0, <1>8 DEF TypeOK, RenewLatest, StartHeartbeat
    <2>4. fate' \in [Owners -> Fates] /\ ret' \in [Owners -> Resolution \cup {None}]
      BY <1>a, <1>8 DEF Fates, RenewLatest, Leave
    <2> QED
      BY <1>0, <1>8, <2>1, <2>2, <2>3, <2>4 DEF TypeOK, RenewLatest
  <1>9. CASE AssertOnEntry(o)
    BY <1>0, <1>9 DEF TypeOK, PCs, Fates, Resolution, AssertOnEntry, AssertCurrent, Leave, Goto
  <1>10. CASE CheckExistingEval(o)
    BY <1>0, <1>10 DEF TypeOK, PCs, Fates, Resolution, CheckExistingEval, ExistingOr, Load, Leave, Goto
  <1>11. CASE Defer(o)
    BY <1>0, <1>11 DEF TypeOK, PCs, Fates, Resolution, Defer, Leave, Goto
  <1>12. CASE AssertBeforeRows(o)
    BY <1>0, <1>12 DEF TypeOK, PCs, Fates, Resolution, AssertBeforeRows, AssertCurrent, Leave, Goto
  <1>13. CASE AssertBeforeEvaluate(o)
    BY <1>0, <1>13 DEF TypeOK, PCs, Fates, Resolution, AssertBeforeEvaluate, AssertCurrent, Leave, Goto
  <1>14. CASE Evaluate(o)
    <2>1. pc' \in [Owners -> PCs]
      BY <1>a, <1>14 DEF PCs, Evaluate, AfterResult, Leave, Goto
    <2>2. res' \in [Owners -> Resolution \cup {None}]
      BY <1>0, <1>14 DEF TypeOK, Evaluate
    <2>3. fate' \in [Owners -> Fates] /\ ret' \in [Owners -> Resolution \cup {None}]
      BY <1>a, <1>14 DEF Fates, Evaluate, Leave
    <2> QED
      BY <1>0, <1>14, <2>1, <2>2, <2>3 DEF TypeOK, Evaluate
  <1>15. CASE AssertBeforeRejected(o)
    BY <1>0, <1>15 DEF TypeOK, PCs, Fates, Resolution, AssertBeforeRejected, AssertCurrent, Leave, Goto
  <1>16. CASE Bind(o)
    <2>1. pc' \in [Owners -> PCs]
      BY <1>a, <1>16 DEF PCs, Bind, Leave, Goto
    <2>2. res[o] \in Resolution /\ BindWinner(o) \in Resolution
      BY <1>0, <1>16 DEF TypeOK, Bind, BindWinner, LocalInv, ResultInv
    <2>3. /\ resolution' \in Resolution \cup {None}
          /\ fate' \in [Owners -> Fates] /\ ret' \in [Owners -> Resolution \cup {None}]
      BY <1>a, <1>16, <2>2 DEF Fates, Bind, Leave
    <2> QED
      BY <1>0, <1>16, <2>1, <2>3 DEF TypeOK, Bind
  <1>17. CASE ClearPlatformIntent(o)
    BY <1>0, <1>17 DEF TypeOK, PCs, Fates, Resolution, ClearPlatformIntent, Goto
  <1>18. CASE Join(o)
    BY <1>0, <1>18 DEF TypeOK, PCs, Fates, Resolution, Join, Goto
  <1>19. CASE HeartbeatStop(o)
    BY <1>0, <1>19 DEF TypeOK, PCs, Fates, Resolution, HeartbeatStop
  <1>20. CASE HeartbeatDue(o)
    BY <1>0, <1>20 DEF TypeOK, PCs, Fates, Resolution, HeartbeatDue
  <1>21. CASE HeartbeatLatest(o)
    <2>1. hdraft' \in [Owners -> Draft \cup {None}]
      BY <1>a, <1>b, <1>c, <1>e, <1>21 DEF HeartbeatLatest, Current
    <2>2. /\ hpc' \in [Owners -> {"off", "wait", "due", "bind"}]
          /\ hberr' \in [Owners -> BOOLEAN]
      BY <1>0, <1>21 DEF TypeOK, HeartbeatLatest
    <2> QED
      BY <1>0, <1>21, <2>1, <2>2 DEF TypeOK, HeartbeatLatest
  <1>22. CASE Crash(o)
    BY <1>0, <1>22 DEF TypeOK, PCs, Fates, Resolution, Crash, Goto
  <1>23. CASE PublishLatest(o)
    <2>1. res[o] \in Executed
      BY <1>0, <1>23 DEF LocalInv, ResultInv, PublishLatest
    <2>2. pc' \in [Owners -> PCs]
      BY <1>a, <1>23 DEF PCs, PublishLatest, Leave, Goto
    <2>3. draft' \in [Owners -> Draft \cup {None}]
      <3>1. stream # <<>> => Renewal(o, res[o]) \in Draft
        BY <2>1, <1>d
      <3> QED
        BY <1>a, <1>23, <3>1 DEF PublishLatest, Current
    <2>4. fate' \in [Owners -> Fates] /\ ret' \in [Owners -> Resolution \cup {None}]
      BY <1>a, <1>23 DEF Fates, PublishLatest, Leave
    <2> QED
      BY <1>0, <1>23, <2>2, <2>3, <2>4 DEF TypeOK, PublishLatest
  <1>24. CASE AssembleRows(o)
    <2>1. \A k : \A i \in RowsOf(k) : rows[i].evidence \in Evidence
      <3>1. rows \in Seq(Row)
        BY <1>0, ConstantsAssumption DEF TypeOK
      <3>2. ASSUME NEW i \in 1..Len(rows) PROVE rows[i].evidence \in Evidence
        <4>1. rows[i] \in Row
          BY <3>1
        <4> QED
          BY <4>1 DEF Row
      <3> QED
        BY <3>2 DEF RowsOf
    <2>2. pc' \in [Owners -> PCs]
      BY <1>a, <1>24 DEF PCs, AssembleRows, Leave, Goto
    <2>3. res' \in [Owners -> Resolution \cup {None}]
      <3>1. ASSUME NEW k \in {"rejected", "failed"}, FirstRowDecides(o, k)
            PROVE  res' \in [Owners -> Resolution \cup {None}]
        BY <1>0, <2>1, <3>1 DEF TypeOK, FirstRowDecides, Resolution, Executed, Rejected
      <3>2. CASE UNCHANGED res
        BY <1>0, <3>2 DEF TypeOK
      <3> QED
        BY <1>24, <3>1, <3>2 DEF AssembleRows
    <2>4. fate' \in [Owners -> Fates] /\ ret' \in [Owners -> Resolution \cup {None}]
      BY <1>a, <1>24 DEF Fates, AssembleRows, Leave
    <2> QED
      BY <1>0, <1>24, <2>2, <2>3, <2>4 DEF TypeOK, AssembleRows
  <1>25. CASE ClaimAppend(o)
    <2>1. draft[o] \in Draft /\ Fits(draft[o], stream, expired) /\ BindClaim(draft[o])
      BY <1>0, <1>25 DEF LocalInv, DraftInv, ClaimAppend
    <2>2. /\ stream' \in Seq(Claim) /\ expired' \in BOOLEAN
          /\ Winner(draft[o]) \in Claim /\ Winner(draft[o]).gen \in Nat
      BY <1>0, <2>1, BindTypes
    <2>3. pc' \in [Owners -> PCs]
      BY <1>a, <1>25 DEF PCs, ClaimAppend, Goto
    <2>4. draft' \in [Owners -> Draft \cup {None}]
      <3>1. Len(stream) = 1 => stream # <<>>
        OBVIOUS
      <3> QED
        BY <1>a, <1>c, <1>25, <3>1 DEF ClaimAppend
    <2>5. owned' \in [Owners -> Nat \cup {None}]
      BY <1>a, <1>c, <1>25, <2>2 DEF ClaimAppend
    <2> QED
      BY <1>25, <2>2, <2>3, <2>4, <2>5, <1>0 DEF TypeOK, ClaimAppend
  <1>26. CASE RenewAppend(o)
    <2>1. draft[o] \in Draft /\ Fits(draft[o], stream, expired) /\ BindClaim(draft[o])
      BY <1>0, <1>26 DEF LocalInv, DraftInv, RenewAppend
    <2>2. /\ stream' \in Seq(Claim) /\ expired' \in BOOLEAN
          /\ Winner(draft[o]) \in Claim /\ Winner(draft[o]).gen \in Nat
      BY <1>0, <2>1, BindTypes
    <2> QED
      BY <1>0, <1>26, <2>2 DEF TypeOK, PCs, Fates, RenewAppend, StartHeartbeat, Leave, Goto
  <1>27. CASE PublishAppend(o)
    <2>1. draft[o] \in Draft /\ Fits(draft[o], stream, expired) /\ BindClaim(draft[o])
      BY <1>0, <1>27 DEF LocalInv, DraftInv, PublishAppend
    <2>2. /\ stream' \in Seq(Claim) /\ expired' \in BOOLEAN
          /\ Winner(draft[o]) \in Claim /\ Winner(draft[o]).gen \in Nat
      BY <1>0, <2>1, BindTypes
    <2> QED
      BY <1>0, <1>27, <2>2 DEF TypeOK, PCs, Fates, PublishAppend, Leave, Goto
  <1>28. CASE HeartbeatAppend(o)
    <2>1. hdraft[o] \in Draft /\ Fits(hdraft[o], stream, expired) /\ BindClaim(hdraft[o])
      BY <1>0, <1>28 DEF LocalInv, DraftInv, HeartbeatAppend
    <2>2. /\ stream' \in Seq(Claim) /\ expired' \in BOOLEAN
          /\ Winner(hdraft[o]) \in Claim /\ Winner(hdraft[o]).gen \in Nat
      BY <1>0, <2>1, BindTypes
    <2> QED
      BY <1>0, <1>28, <2>2 DEF TypeOK, HeartbeatAppend
  <1> QED
    BY <1>1, <1>2, <1>3, <1>4, <1>5, <1>6, <1>7, <1>8, <1>9, <1>10, <1>11, <1>12, <1>13, <1>14, <1>15, <1>16, <1>17, <1>18, <1>19, <1>20, <1>21, <1>22, <1>23, <1>24, <1>25, <1>26, <1>27, <1>28
       DEF Resolve, Heartbeat

---------------------------------------------------------------------------
(* Preservation                                                            *)

\* A step of owner o's process.
Step(o) ==
    \/ \E m \in Modes : Start(o, m)
    \/ Resolve(o) \/ Heartbeat(o) \/ Crash(o)

\* The other processes' threads stay where they are.
Others(o) ==
    \A p \in Owners : p # o =>
        /\ pc'[p] = pc[p] /\ owned'[p] = owned[p] /\ draft'[p] = draft[p]
        /\ res'[p] = res[p] /\ fate'[p] = fate[p] /\ ret'[p] = ret[p]
        /\ hpc'[p] = hpc[p] /\ hdraft'[p] = hdraft[p]

\* A step of one owner leaves the program counters, drafts and results of all
\* the others alone.
LEMMA FrameStep ==
    ASSUME TypeOK, NEW o \in Owners, Step(o)
    PROVE  Others(o)
  <1> USE DEF store, main, beat, Others
  <1>1. /\ pc \in [Owners -> PCs]
        /\ draft \in [Owners -> Draft \cup {None}]
        /\ hdraft \in [Owners -> Draft \cup {None}]
        /\ owned \in [Owners -> Nat \cup {None}]
        /\ res \in [Owners -> Resolution \cup {None}]
        /\ fate \in [Owners -> Fates]
        /\ ret \in [Owners -> Resolution \cup {None}]
        /\ hpc \in [Owners -> {"off", "wait", "due", "bind"}]
    BY DEF TypeOK
  <1>2. ASSUME NEW m \in Modes, Start(o, m) PROVE Others(o)
    BY <1>1, <1>2 DEF Start, Goto
  <1>3. CASE CheckExisting(o)
    BY <1>1, <1>3 DEF CheckExisting, ExistingOr, Load, Leave, Goto
  <1>4. CASE CheckAttested(o)
    BY <1>1, <1>4 DEF CheckAttested, Goto
  <1>5. CASE ClaimCheckKey(o)
    BY <1>1, <1>5 DEF ClaimCheckKey, Goto
  <1>6. CASE ClaimLatest(o)
    BY <1>1, <1>6 DEF ClaimLatest, Goto
  <1>7. CASE CheckExistingAgain(o)
    BY <1>1, <1>7 DEF CheckExistingAgain, ExistingOr, Load, Leave, Goto
  <1>8. CASE CheckAttestedAgain(o)
    BY <1>1, <1>8 DEF CheckAttestedAgain, Leave, Goto
  <1>9. CASE RenewLatest(o)
    BY <1>1, <1>9 DEF RenewLatest, StartHeartbeat, Leave, Goto
  <1>10. CASE AssertOnEntry(o)
    BY <1>1, <1>10 DEF AssertOnEntry, AssertCurrent, Leave, Goto
  <1>11. CASE CheckExistingEval(o)
    BY <1>1, <1>11 DEF CheckExistingEval, ExistingOr, Load, Leave, Goto
  <1>12. CASE Defer(o)
    BY <1>1, <1>12 DEF Defer, Leave, Goto
  <1>13. CASE AssertBeforeRows(o)
    BY <1>1, <1>13 DEF AssertBeforeRows, AssertCurrent, Leave, Goto
  <1>14. CASE AssembleRows(o)
    BY <1>1, <1>14 DEF AssembleRows, FirstRowDecides, Leave, Goto
  <1>15. CASE AssertBeforeEvaluate(o)
    BY <1>1, <1>15 DEF AssertBeforeEvaluate, AssertCurrent, Leave, Goto
  <1>16. CASE Evaluate(o)
    BY <1>1, <1>16 DEF Evaluate, AfterResult, Leave, Goto
  <1>17. CASE PublishLatest(o)
    BY <1>1, <1>17 DEF PublishLatest, Leave, Goto
  <1>18. CASE AssertBeforeRejected(o)
    BY <1>1, <1>18 DEF AssertBeforeRejected, AssertCurrent, Leave, Goto
  <1>19. CASE ClearPlatformIntent(o)
    BY <1>1, <1>19 DEF ClearPlatformIntent, Goto
  <1>20. CASE Join(o)
    BY <1>1, <1>20 DEF Join, Goto
  <1>21. CASE HeartbeatStop(o)
    BY <1>1, <1>21 DEF HeartbeatStop
  <1>22. CASE HeartbeatDue(o)
    BY <1>1, <1>22 DEF HeartbeatDue
  <1>23. CASE HeartbeatLatest(o)
    BY <1>1, <1>23 DEF HeartbeatLatest
  <1>24. CASE Crash(o)
    BY <1>1, <1>24 DEF Crash, Goto
  <1>25. CASE Bind(o)
    BY <1>1, <1>25 DEF Bind, Leave, Goto
  <1>26. CASE ClaimAppend(o)
    BY <1>1, <1>26 DEF ClaimAppend, Goto
  <1>27. CASE RenewAppend(o)
    BY <1>1, <1>27 DEF RenewAppend, StartHeartbeat, Leave, Goto
  <1>28. CASE PublishAppend(o)
    BY <1>1, <1>28 DEF PublishAppend, Leave, Goto
  <1>29. CASE HeartbeatAppend(o)
    BY <1>1, <1>29 DEF HeartbeatAppend
  <1> HIDE DEF Others
  <1> QED
    BY <1>2, <1>3, <1>4, <1>5, <1>6, <1>7, <1>8, <1>9, <1>10, <1>11, <1>12, <1>13, <1>14, <1>15, <1>16, <1>17, <1>18, <1>19, <1>20, <1>21, <1>22, <1>23, <1>24, <1>25, <1>26, <1>27, <1>28, <1>29
       DEF Step, Resolve, Heartbeat

\* A step that binds nothing.
Quiet == stream' = stream /\ expired' = expired /\ resolution' = resolution

\* A step that touches neither stream nor resolution keeps what is said of them.
LEMMA QuietStore ==
    ASSUME IInv, Quiet
    PROVE  /\ Grow /\ StreamInv' /\ ResolvedIsAttested'
           /\ Terminal' = Terminal /\ Attested' = Attested
           /\ \A r : Valid(r) => (r \in Executed => Attested' = r)
  <1>1. Grow
    BY DEF IInv, TypeOK, Grow, Quiet
  <1>2. StreamInv'
    BY DEF IInv, StreamInv, StreamWellFormed, StreamMonotone, StreamOrigin, Quiet
  <1>3. Terminal' = Terminal /\ Attested' = Attested
    BY DEF Quiet, Terminal, Attested, Latest
  <1> QED
    BY <1>1, <1>2, <1>3 DEF IInv, ResolvedIsAttested, Quiet, Valid

\* Binding a draft that fits keeps the stream invariant and what is attested of
\* the bound resolution.
LEMMA BindClaimStore ==
    ASSUME IInv, NEW d \in Draft, Fits(d, stream, expired), BindClaim(d),
           resolution' = resolution
    PROVE  Grow /\ StreamInv' /\ ResolvedIsAttested'
  <1>1. stream \in Seq(Claim) /\ StreamInv
    BY DEF IInv, TypeOK
  <1>2. Grow /\ StreamInv'
    BY <1>1, BindClaimGrow, BindClaimWellFormed
  <1>3. ASSUME resolution \in Executed PROVE Attested' = resolution
    <2>1. Attested = resolution /\ resolution # None
      BY <1>3, ConstantsAssumption DEF IInv, ResolvedIsAttested, Resolution
    <2>2. Terminal
      BY <2>1 DEF Attested
    <2> QED
      BY <1>2, <2>1, <2>2, AttestedStable
  <1> QED
    BY <1>2, <1>3 DEF ResolvedIsAttested

\* The drafts computed from the last event fit the stream they were read from.
LEMMA DraftsFit ==
    ASSUME TypeOK, NEW o \in Owners
    PROVE  /\ stream = <<>> =>
                /\ Origin(o) \in Draft /\ Origin(o).claim.owner = o
                /\ Origin(o).claim.att = None
                /\ Fits(Origin(o), stream, expired)
           /\ stream # <<>> /\ ~Terminal /\ Latest.owner # o /\ expired =>
                /\ Takeover(o) \in Draft /\ Takeover(o).claim.owner = o
                /\ Takeover(o).claim.att = None
                /\ Fits(Takeover(o), stream, expired)
           /\ stream # <<>> /\ ~Terminal /\ Latest.owner = o =>
                \A a \in Executed \cup {None} :
                    /\ Renewal(o, a) \in Draft /\ Renewal(o, a).claim.owner = o
                    /\ Renewal(o, a).claim.att = a /\ Renewal(o, a).claim.gen = Latest.gen
                    /\ Fits(Renewal(o, a), stream, expired)
  <1>1. stream \in Seq(Claim)
    BY DEF TypeOK
  <1>2. CASE stream = <<>>
    <2>1. Len(stream) = 0 /\ Origin(o) \in Draft
      BY <1>2, ReadTypes
    <2> QED
      BY <1>2, <2>1 DEF Origin, Fits
  <1>3. CASE stream # <<>>
    <2>1. Len(stream) \in Nat \ {0} /\ Latest \in Claim
      BY <1>1, <1>3, LatestType
    <2>2. Latest = stream[Len(stream)] /\ (Len(stream) + 1) - 1 = Len(stream)
      BY <2>1 DEF Latest
    <2>3. ASSUME ~Terminal PROVE Latest.att = None
      BY <1>3, <2>3 DEF Terminal
    <2>4. Takeover(o) \in Draft /\ \A a \in Executed \cup {None} : Renewal(o, a) \in Draft
      BY <1>3, ReadTypes
    <2>5. ASSUME ~Terminal, Latest.owner # o, expired
          PROVE  /\ Takeover(o).claim.owner = o /\ Takeover(o).claim.att = None
                 /\ Fits(Takeover(o), stream, expired)
      BY <2>1, <2>2, <2>3, <2>5 DEF Takeover, Fits, Follows
    <2>6. ASSUME ~Terminal, Latest.owner = o, NEW a \in Executed \cup {None}
          PROVE  /\ Renewal(o, a).claim.owner = o /\ Renewal(o, a).claim.att = a
                 /\ Renewal(o, a).claim.gen = Latest.gen
                 /\ Fits(Renewal(o, a), stream, expired)
      BY <2>1, <2>2, <2>3, <2>6 DEF Renewal, Fits, Follows
    <2> QED
      BY <1>3, <2>4, <2>5, <2>6
  <1> QED
    BY <1>2, <1>3

\* The owner's own invariant, for the steps that bind no claim event.
QuietStep(o) ==
    \/ \E m \in Modes : Start(o, m)
    \/ CheckExisting(o) \/ CheckAttested(o) \/ ClaimCheckKey(o)
    \/ ClaimLatest(o) \/ CheckExistingAgain(o) \/ CheckAttestedAgain(o)
    \/ RenewLatest(o) \/ AssertOnEntry(o) \/ CheckExistingEval(o)
    \/ Defer(o) \/ AssertBeforeRows(o) \/ AssembleRows(o)
    \/ AssertBeforeEvaluate(o) \/ Evaluate(o) \/ PublishLatest(o)
    \/ AssertBeforeRejected(o) \/ ClearPlatformIntent(o) \/ Join(o)
    \/ HeartbeatStop(o) \/ HeartbeatDue(o) \/ HeartbeatLatest(o)
    \/ Crash(o)

\* A step that leaves the shared store alone keeps its own owner's invariant.
LEMMA QuietLocalStep ==
    ASSUME IInv, NEW o \in Owners, QuietStep(o)
    PROVE  Quiet /\ LocalInv(o)'
  <1> USE DEF store, main, beat
  <1>0. TypeOK /\ LocalInv(o)
    BY DEF IInv
  <1>a. /\ pc \in [Owners -> PCs]
        /\ draft \in [Owners -> Draft \cup {None}]
        /\ hdraft \in [Owners -> Draft \cup {None}]
        /\ owned \in [Owners -> Nat \cup {None}]
        /\ res \in [Owners -> Resolution \cup {None}]
        /\ fate \in [Owners -> Fates]
        /\ ret \in [Owners -> Resolution \cup {None}]
        /\ hpc \in [Owners -> {"off", "wait", "due", "bind"}]
        /\ resolution \in Resolution \cup {None}
        /\ None \notin Resolution
    BY <1>0, ConstantsAssumption DEF TypeOK
  <1>q. ASSUME Quiet
        PROVE  /\ stream' = stream /\ expired' = expired /\ resolution' = resolution
               /\ Terminal' = Terminal /\ Attested' = Attested
    BY <1>q, QuietStore DEF Quiet
  <1>b. /\ Attested \in Executed \cup {None}
        /\ Terminal => Attested # None
    BY <1>0, ReadTypes DEF Attested, Terminal
  <1>c. /\ Executed \subseteq Resolution /\ Rejected \subseteq Resolution
        /\ \A r \in Resolution : r \in Executed \/ r \in Rejected
        /\ \A r \in Rejected : r \notin Executed
    BY DEF Resolution, Executed, Rejected
  <1>r. stream # <<>> => /\ Latest.gen \in Nat /\ Latest.gen # None
                         /\ \E i \in 1..Len(stream) : stream[i] = Latest
    BY <1>0, LatestType, ConstantsAssumption DEF TypeOK, Claim, Latest
  <1>1. ASSUME NEW m \in Modes, Start(o, m) PROVE Quiet /\ LocalInv(o)'
    <2>1. Quiet
      BY <1>1 DEF Quiet, Start, Goto
    <2>2. /\ stream' = stream /\ expired' = expired /\ resolution' = resolution
          /\ Terminal' = Terminal /\ Attested' = Attested
      BY <2>1, <1>q
    <2>3. DraftInv(o)'
      BY <1>0, <1>a, <1>1, <2>2 DEF LocalInv, DraftInv, Start, Goto
    <2>4. ResultInv(o)'
      BY <1>0, <1>a, <1>1, <2>2 DEF LocalInv, ResultInv, Valid, Start, Goto
    <2>5. OwnedInv(o)'
      BY <1>0, <1>a, <1>1, <1>r, <2>2 DEF LocalInv, OwnedInv, Start, Goto
    <2>6. FateInv(o)'
      BY <1>0, <1>a, <1>1, <2>2 DEF IInv, LocalInv, FateInv, OwnedInv, Valid, ResolvedIsAttested, Start, Goto
    <2> QED
      BY <2>1, <2>3, <2>4, <2>5, <2>6 DEF LocalInv
  <1>2. CASE CheckExisting(o)
    <2>1. Quiet
      BY <1>2 DEF Quiet, CheckExisting, ExistingOr, Load, Leave, Goto
    <2>2. /\ stream' = stream /\ expired' = expired /\ resolution' = resolution
          /\ Terminal' = Terminal /\ Attested' = Attested
      BY <2>1, <1>q
    <2>3. DraftInv(o)'
      BY <1>0, <1>a, <1>2, <2>2 DEF LocalInv, DraftInv, CheckExisting, ExistingOr, Load, Leave, Goto
    <2>4. ResultInv(o)'
      BY <1>0, <1>a, <1>2, <2>2 DEF LocalInv, ResultInv, Valid, CheckExisting, ExistingOr, Load, Leave, Goto
    <2>5. OwnedInv(o)'
      BY <1>0, <1>a, <1>2, <1>r, <2>2 DEF LocalInv, OwnedInv, CheckExisting, ExistingOr, Load, Leave, Goto
    <2>6. FateInv(o)'
      BY <1>0, <1>a, <1>2, <2>2 DEF IInv, LocalInv, FateInv, OwnedInv, Valid, ResolvedIsAttested, CheckExisting, ExistingOr, Load, Leave, Goto
    <2> QED
      BY <2>1, <2>3, <2>4, <2>5, <2>6 DEF LocalInv
  <1>3. CASE CheckAttested(o)
    <2>1. Quiet
      BY <1>3 DEF Quiet, CheckAttested, Goto
    <2>2. /\ stream' = stream /\ expired' = expired /\ resolution' = resolution
          /\ Terminal' = Terminal /\ Attested' = Attested
      BY <2>1, <1>q
    <2>3. DraftInv(o)'
      BY <1>0, <1>a, <1>3, <2>2 DEF LocalInv, DraftInv, CheckAttested, Goto
    <2>4. ResultInv(o)'
      BY <1>0, <1>a, <1>b, <1>c, <1>3, <2>2 DEF LocalInv, ResultInv, Valid, CheckAttested, Goto
    <2>5. OwnedInv(o)'
      BY <1>0, <1>a, <1>3, <1>r, <2>2 DEF LocalInv, OwnedInv, CheckAttested, Goto
    <2>6. FateInv(o)'
      BY <1>0, <1>a, <1>3, <2>2 DEF IInv, LocalInv, FateInv, OwnedInv, Valid, ResolvedIsAttested, CheckAttested, Goto
    <2> QED
      BY <2>1, <2>3, <2>4, <2>5, <2>6 DEF LocalInv
  <1>4. CASE ClaimCheckKey(o)
    <2>1. Quiet
      BY <1>4 DEF Quiet, ClaimCheckKey, Goto
    <2>2. /\ stream' = stream /\ expired' = expired /\ resolution' = resolution
          /\ Terminal' = Terminal /\ Attested' = Attested
      BY <2>1, <1>q
    <2>3. DraftInv(o)'
      BY <1>0, <1>a, <1>4, <2>2 DEF LocalInv, DraftInv, ClaimCheckKey, Goto
    <2>4. ResultInv(o)'
      BY <1>0, <1>a, <1>4, <2>2 DEF LocalInv, ResultInv, Valid, ClaimCheckKey, Goto
    <2>5. OwnedInv(o)'
      BY <1>0, <1>a, <1>4, <1>r, <2>2 DEF LocalInv, OwnedInv, ClaimCheckKey, Goto
    <2>6. FateInv(o)'
      BY <1>0, <1>a, <1>4, <2>2 DEF IInv, LocalInv, FateInv, OwnedInv, Valid, ResolvedIsAttested, ClaimCheckKey, Goto
    <2> QED
      BY <2>1, <2>3, <2>4, <2>5, <2>6 DEF LocalInv
  <1>5. CASE ClaimLatest(o)
    <2>1. Quiet
      BY <1>5 DEF Quiet, ClaimLatest, Goto
    <2>2. /\ stream' = stream /\ expired' = expired /\ resolution' = resolution
          /\ Terminal' = Terminal /\ Attested' = Attested
      BY <2>1, <1>q
    <2>d. pc'[o] = "claimbind" =>
            /\ draft'[o] \in Draft /\ draft'[o].claim.owner = o
            /\ draft'[o].claim.att = None /\ Fits(draft'[o], stream, expired)
      BY <1>0, <1>a, <1>5, DraftsFit DEF ClaimLatest, Goto, LeaseOver
    <2>3. DraftInv(o)'
      BY <1>0, <1>a, <1>5, <2>2, <2>d DEF LocalInv, DraftInv, ClaimLatest, Goto
    <2>4. ResultInv(o)'
      BY <1>0, <1>a, <1>5, <2>2 DEF LocalInv, ResultInv, Valid, ClaimLatest, Goto
    <2>5. OwnedInv(o)'
      BY <1>0, <1>a, <1>5, <1>r, <2>2 DEF LocalInv, OwnedInv, ClaimLatest, Goto
    <2>6. FateInv(o)'
      BY <1>0, <1>a, <1>5, <2>2 DEF IInv, LocalInv, FateInv, OwnedInv, Valid, ResolvedIsAttested, ClaimLatest, Goto
    <2> QED
      BY <2>1, <2>3, <2>4, <2>5, <2>6 DEF LocalInv
  <1>6. CASE CheckExistingAgain(o)
    <2>1. Quiet
      BY <1>6 DEF Quiet, CheckExistingAgain, ExistingOr, Load, Leave, Goto
    <2>2. /\ stream' = stream /\ expired' = expired /\ resolution' = resolution
          /\ Terminal' = Terminal /\ Attested' = Attested
      BY <2>1, <1>q
    <2>3. DraftInv(o)'
      BY <1>0, <1>a, <1>6, <2>2 DEF LocalInv, DraftInv, CheckExistingAgain, ExistingOr, Load, Leave, Goto
    <2>4. ResultInv(o)'
      BY <1>0, <1>a, <1>6, <2>2 DEF LocalInv, ResultInv, Valid, CheckExistingAgain, ExistingOr, Load, Leave, Goto
    <2>5. OwnedInv(o)'
      BY <1>0, <1>a, <1>6, <1>r, <2>2 DEF LocalInv, OwnedInv, CheckExistingAgain, ExistingOr, Load, Leave, Goto
    <2>6. FateInv(o)'
      BY <1>0, <1>a, <1>6, <2>2 DEF IInv, LocalInv, FateInv, OwnedInv, Valid, ResolvedIsAttested, CheckExistingAgain, ExistingOr, Load, Leave, Goto
    <2> QED
      BY <2>1, <2>3, <2>4, <2>5, <2>6 DEF LocalInv
  <1>7. CASE CheckAttestedAgain(o)
    <2>1. Quiet
      BY <1>7 DEF Quiet, CheckAttestedAgain, Leave, Goto
    <2>2. /\ stream' = stream /\ expired' = expired /\ resolution' = resolution
          /\ Terminal' = Terminal /\ Attested' = Attested
      BY <2>1, <1>q
    <2>3. DraftInv(o)'
      BY <1>0, <1>a, <1>7, <2>2 DEF LocalInv, DraftInv, CheckAttestedAgain, Leave, Goto
    <2>4. ResultInv(o)'
      BY <1>0, <1>a, <1>b, <1>c, <1>7, <2>2 DEF LocalInv, ResultInv, Valid, CheckAttestedAgain, Leave, Goto
    <2>5. OwnedInv(o)'
      BY <1>0, <1>a, <1>7, <1>r, <2>2 DEF LocalInv, OwnedInv, CheckAttestedAgain, Leave, Goto
    <2>6. FateInv(o)'
      BY <1>0, <1>a, <1>b, <1>7, <2>2 DEF IInv, LocalInv, FateInv, OwnedInv, Valid, ResolvedIsAttested, CheckAttestedAgain, Leave, Goto
    <2> QED
      BY <2>1, <2>3, <2>4, <2>5, <2>6 DEF LocalInv
  <1>8. CASE RenewLatest(o)
    <2>1. Quiet
      BY <1>8 DEF Quiet, RenewLatest, StartHeartbeat, Leave, Goto
    <2>2. /\ stream' = stream /\ expired' = expired /\ resolution' = resolution
          /\ Terminal' = Terminal /\ Attested' = Attested
      BY <2>1, <1>q
    <2>e. None \in Executed \cup {None}
      BY <1>0, <1>8 DEF LocalInv, ResultInv, RenewLatest
    <2>d. pc'[o] = "renewbind" =>
            /\ draft'[o] \in Draft /\ draft'[o].claim.owner = o
            /\ draft'[o].claim.att = None /\ Fits(draft'[o], stream, expired)
            /\ draft'[o].claim.gen = owned[o]
      BY <1>0, <1>a, <1>8, <2>e, DraftsFit DEF RenewLatest, StartHeartbeat, Leave, Goto, Current
    <2>3. DraftInv(o)'
      BY <1>0, <1>a, <1>8, <2>2, <2>d DEF LocalInv, DraftInv, RenewLatest, StartHeartbeat, Leave, Goto
    <2>4. ResultInv(o)'
      BY <1>0, <1>a, <1>8, <2>2 DEF LocalInv, ResultInv, Valid, RenewLatest, StartHeartbeat, Leave, Goto
    <2>5. OwnedInv(o)'
      BY <1>0, <1>a, <1>8, <1>r, <2>2 DEF LocalInv, OwnedInv, RenewLatest, StartHeartbeat, Leave, Goto
    <2>6. FateInv(o)'
      BY <1>0, <1>a, <1>8, <2>2 DEF IInv, LocalInv, FateInv, OwnedInv, Valid, ResolvedIsAttested, RenewLatest, StartHeartbeat, Leave, Goto
    <2> QED
      BY <2>1, <2>3, <2>4, <2>5, <2>6 DEF LocalInv
  <1>9. CASE AssertOnEntry(o)
    <2>1. Quiet
      BY <1>9 DEF Quiet, AssertOnEntry, AssertCurrent, Leave, Goto
    <2>2. /\ stream' = stream /\ expired' = expired /\ resolution' = resolution
          /\ Terminal' = Terminal /\ Attested' = Attested
      BY <2>1, <1>q
    <2>3. DraftInv(o)'
      BY <1>0, <1>a, <1>9, <2>2 DEF LocalInv, DraftInv, AssertOnEntry, AssertCurrent, Leave, Goto
    <2>4. ResultInv(o)'
      BY <1>0, <1>a, <1>9, <2>2 DEF LocalInv, ResultInv, Valid, AssertOnEntry, AssertCurrent, Leave, Goto
    <2>5. OwnedInv(o)'
      BY <1>0, <1>a, <1>9, <1>r, <2>2 DEF LocalInv, OwnedInv, AssertOnEntry, AssertCurrent, Leave, Goto
    <2>6. FateInv(o)'
      BY <1>0, <1>a, <1>9, <2>2 DEF IInv, LocalInv, FateInv, OwnedInv, Valid, ResolvedIsAttested, AssertOnEntry, AssertCurrent, Leave, Goto
    <2> QED
      BY <2>1, <2>3, <2>4, <2>5, <2>6 DEF LocalInv
  <1>10. CASE CheckExistingEval(o)
    <2>1. Quiet
      BY <1>10 DEF Quiet, CheckExistingEval, ExistingOr, Load, Leave, Goto
    <2>2. /\ stream' = stream /\ expired' = expired /\ resolution' = resolution
          /\ Terminal' = Terminal /\ Attested' = Attested
      BY <2>1, <1>q
    <2>3. DraftInv(o)'
      BY <1>0, <1>a, <1>10, <2>2 DEF LocalInv, DraftInv, CheckExistingEval, ExistingOr, Load, Leave, Goto
    <2>4. ResultInv(o)'
      BY <1>0, <1>a, <1>10, <2>2 DEF LocalInv, ResultInv, Valid, CheckExistingEval, ExistingOr, Load, Leave, Goto
    <2>5. OwnedInv(o)'
      BY <1>0, <1>a, <1>10, <1>r, <2>2 DEF LocalInv, OwnedInv, CheckExistingEval, ExistingOr, Load, Leave, Goto
    <2>6. FateInv(o)'
      BY <1>0, <1>a, <1>10, <2>2 DEF IInv, LocalInv, FateInv, OwnedInv, Valid, ResolvedIsAttested, CheckExistingEval, ExistingOr, Load, Leave, Goto
    <2> QED
      BY <2>1, <2>3, <2>4, <2>5, <2>6 DEF LocalInv
  <1>11. CASE Defer(o)
    <2>1. Quiet
      BY <1>11 DEF Quiet, Defer, Leave, Goto
    <2>2. /\ stream' = stream /\ expired' = expired /\ resolution' = resolution
          /\ Terminal' = Terminal /\ Attested' = Attested
      BY <2>1, <1>q
    <2>3. DraftInv(o)'
      BY <1>0, <1>a, <1>11, <2>2 DEF LocalInv, DraftInv, Defer, Leave, Goto
    <2>4. ResultInv(o)'
      BY <1>0, <1>a, <1>11, <2>2 DEF LocalInv, ResultInv, Valid, Defer, Leave, Goto
    <2>5. OwnedInv(o)'
      BY <1>0, <1>a, <1>11, <1>r, <2>2 DEF LocalInv, OwnedInv, Defer, Leave, Goto
    <2>6. FateInv(o)'
      BY <1>0, <1>a, <1>11, <2>2 DEF IInv, LocalInv, FateInv, OwnedInv, Valid, ResolvedIsAttested, Defer, Leave, Goto
    <2> QED
      BY <2>1, <2>3, <2>4, <2>5, <2>6 DEF LocalInv
  <1>12. CASE AssertBeforeRows(o)
    <2>1. Quiet
      BY <1>12 DEF Quiet, AssertBeforeRows, AssertCurrent, Leave, Goto
    <2>2. /\ stream' = stream /\ expired' = expired /\ resolution' = resolution
          /\ Terminal' = Terminal /\ Attested' = Attested
      BY <2>1, <1>q
    <2>3. DraftInv(o)'
      BY <1>0, <1>a, <1>12, <2>2 DEF LocalInv, DraftInv, AssertBeforeRows, AssertCurrent, Leave, Goto
    <2>4. ResultInv(o)'
      BY <1>0, <1>a, <1>12, <2>2 DEF LocalInv, ResultInv, Valid, AssertBeforeRows, AssertCurrent, Leave, Goto
    <2>5. OwnedInv(o)'
      BY <1>0, <1>a, <1>12, <1>r, <2>2 DEF LocalInv, OwnedInv, AssertBeforeRows, AssertCurrent, Leave, Goto
    <2>6. FateInv(o)'
      BY <1>0, <1>a, <1>12, <2>2 DEF IInv, LocalInv, FateInv, OwnedInv, Valid, ResolvedIsAttested, AssertBeforeRows, AssertCurrent, Leave, Goto
    <2> QED
      BY <2>1, <2>3, <2>4, <2>5, <2>6 DEF LocalInv
  <1>13. CASE AssembleRows(o)
    <2>1. Quiet
      BY <1>13 DEF Quiet, AssembleRows, FirstRowDecides, Leave, Goto
    <2>2. /\ stream' = stream /\ expired' = expired /\ resolution' = resolution
          /\ Terminal' = Terminal /\ Attested' = Attested
      BY <2>1, <1>q
    <2>3. DraftInv(o)'
      BY <1>0, <1>a, <1>13, <2>2 DEF LocalInv, DraftInv, AssembleRows, FirstRowDecides, Leave, Goto
    <2>e. ASSUME NEW k, FirstRowDecides(o, k)
          PROVE  \E e \in Evidence : res'[o] = [outcome |-> k, evidence |-> e]
      <3>1. rows \in Seq(Row)
        BY <1>0, ConstantsAssumption DEF TypeOK
      <3>2. PICK i \in RowsOf(k) :
              res' = [res EXCEPT ![o] = [outcome |-> k, evidence |-> rows[i].evidence]]
        BY <2>e DEF FirstRowDecides
      <3>3. rows[i] \in Row
        BY <3>1 DEF RowsOf
      <3> QED
        BY <1>a, <3>2, <3>3 DEF Row
    <2>4. ResultInv(o)'
      <3>1. pc'[o] = "publish" => res'[o] \in Executed
        <4>1. pc'[o] = "publish" => FirstRowDecides(o, "failed")
          BY <1>a, <1>13 DEF AssembleRows, Leave, Goto
        <4>2. ASSUME FirstRowDecides(o, "failed") PROVE res'[o] \in Executed
          <5>1. \E e \in Evidence : res'[o] = [outcome |-> "failed", evidence |-> e]
            BY <2>e, <4>2
          <5> QED
            BY <5>1 DEF Executed
        <4> QED
          BY <4>1, <4>2
      <3>2. pc'[o] = "currentrejected" => res'[o] \in Rejected
        <4>1. pc'[o] = "currentrejected" => FirstRowDecides(o, "rejected")
          BY <1>a, <1>13 DEF AssembleRows, Leave, Goto
        <4>2. ASSUME FirstRowDecides(o, "rejected") PROVE res'[o] \in Rejected
          <5>1. \E e \in Evidence : res'[o] = [outcome |-> "rejected", evidence |-> e]
            BY <2>e, <4>2
          <5> QED
            BY <5>1 DEF Rejected
        <4> QED
          BY <4>1, <4>2
      <3>3. pc'[o] \notin {"publishbind", "bind", "adopt"}
        BY <1>a, <1>13 DEF AssembleRows, Leave, Goto
      <3> QED
        BY <3>1, <3>2, <3>3 DEF ResultInv
    <2>5. OwnedInv(o)'
      BY <1>0, <1>a, <1>13, <1>r, <2>2 DEF LocalInv, OwnedInv, AssembleRows, FirstRowDecides, Leave, Goto
    <2>6. FateInv(o)'
      BY <1>0, <1>a, <1>13, <2>2 DEF IInv, LocalInv, FateInv, OwnedInv, Valid, ResolvedIsAttested, AssembleRows, FirstRowDecides, Leave, Goto
    <2> QED
      BY <2>1, <2>3, <2>4, <2>5, <2>6 DEF LocalInv
  <1>14. CASE AssertBeforeEvaluate(o)
    <2>1. Quiet
      BY <1>14 DEF Quiet, AssertBeforeEvaluate, AssertCurrent, Leave, Goto
    <2>2. /\ stream' = stream /\ expired' = expired /\ resolution' = resolution
          /\ Terminal' = Terminal /\ Attested' = Attested
      BY <2>1, <1>q
    <2>3. DraftInv(o)'
      BY <1>0, <1>a, <1>14, <2>2 DEF LocalInv, DraftInv, AssertBeforeEvaluate, AssertCurrent, Leave, Goto
    <2>4. ResultInv(o)'
      BY <1>0, <1>a, <1>14, <2>2 DEF LocalInv, ResultInv, Valid, AssertBeforeEvaluate, AssertCurrent, Leave, Goto
    <2>5. OwnedInv(o)'
      BY <1>0, <1>a, <1>14, <1>r, <2>2 DEF LocalInv, OwnedInv, AssertBeforeEvaluate, AssertCurrent, Leave, Goto
    <2>6. FateInv(o)'
      BY <1>0, <1>a, <1>14, <2>2 DEF IInv, LocalInv, FateInv, OwnedInv, Valid, ResolvedIsAttested, AssertBeforeEvaluate, AssertCurrent, Leave, Goto
    <2> QED
      BY <2>1, <2>3, <2>4, <2>5, <2>6 DEF LocalInv
  <1>15. CASE Evaluate(o)
    <2>1. Quiet
      BY <1>15 DEF Quiet, Evaluate, AfterResult, Leave, Goto
    <2>2. /\ stream' = stream /\ expired' = expired /\ resolution' = resolution
          /\ Terminal' = Terminal /\ Attested' = Attested
      BY <2>1, <1>q
    <2>3. DraftInv(o)'
      BY <1>0, <1>a, <1>15, <2>2 DEF LocalInv, DraftInv, Evaluate, AfterResult, Leave, Goto
    <2>4. ResultInv(o)'
      BY <1>0, <1>a, <1>b, <1>c, <1>15, <2>2 DEF LocalInv, ResultInv, Valid, Evaluate, AfterResult, Leave, Goto
    <2>5. OwnedInv(o)'
      BY <1>0, <1>a, <1>15, <1>r, <2>2 DEF LocalInv, OwnedInv, Evaluate, AfterResult, Leave, Goto
    <2>6. FateInv(o)'
      BY <1>0, <1>a, <1>15, <2>2 DEF IInv, LocalInv, FateInv, OwnedInv, Valid, ResolvedIsAttested, Evaluate, AfterResult, Leave, Goto
    <2> QED
      BY <2>1, <2>3, <2>4, <2>5, <2>6 DEF LocalInv
  <1>16. CASE PublishLatest(o)
    <2>1. Quiet
      BY <1>16 DEF Quiet, PublishLatest, Leave, Goto
    <2>2. /\ stream' = stream /\ expired' = expired /\ resolution' = resolution
          /\ Terminal' = Terminal /\ Attested' = Attested
      BY <2>1, <1>q
    <2>e. res[o] \in Executed \cup {None}
      BY <1>0, <1>16 DEF LocalInv, ResultInv, PublishLatest
    <2>d. pc'[o] = "publishbind" =>
            /\ draft'[o] \in Draft /\ draft'[o].claim.owner = o
            /\ draft'[o].claim.att = res[o] /\ Fits(draft'[o], stream, expired)
            /\ draft'[o].claim.gen = owned[o]
      BY <1>0, <1>a, <1>16, <2>e, DraftsFit DEF PublishLatest, Leave, Goto, Current
    <2>3. DraftInv(o)'
      BY <1>0, <1>a, <1>16, <2>2, <2>d DEF LocalInv, DraftInv, PublishLatest, Leave, Goto
    <2>4. ResultInv(o)'
      BY <1>0, <1>a, <1>b, <1>c, <1>16, <2>2 DEF LocalInv, ResultInv, Valid, PublishLatest, Leave, Goto
    <2>5. OwnedInv(o)'
      BY <1>0, <1>a, <1>16, <1>r, <2>2 DEF LocalInv, OwnedInv, PublishLatest, Leave, Goto
    <2>6. FateInv(o)'
      BY <1>0, <1>a, <1>16, <2>2 DEF IInv, LocalInv, FateInv, OwnedInv, Valid, ResolvedIsAttested, PublishLatest, Leave, Goto
    <2> QED
      BY <2>1, <2>3, <2>4, <2>5, <2>6 DEF LocalInv
  <1>17. CASE AssertBeforeRejected(o)
    <2>1. Quiet
      BY <1>17 DEF Quiet, AssertBeforeRejected, AssertCurrent, Leave, Goto
    <2>2. /\ stream' = stream /\ expired' = expired /\ resolution' = resolution
          /\ Terminal' = Terminal /\ Attested' = Attested
      BY <2>1, <1>q
    <2>3. DraftInv(o)'
      BY <1>0, <1>a, <1>17, <2>2 DEF LocalInv, DraftInv, AssertBeforeRejected, AssertCurrent, Leave, Goto
    <2>4. ResultInv(o)'
      BY <1>0, <1>a, <1>b, <1>c, <1>17, <2>2 DEF LocalInv, ResultInv, Valid, AssertBeforeRejected, AssertCurrent, Leave, Goto
    <2>5. OwnedInv(o)'
      BY <1>0, <1>a, <1>17, <1>r, <2>2 DEF LocalInv, OwnedInv, AssertBeforeRejected, AssertCurrent, Leave, Goto
    <2>6. FateInv(o)'
      BY <1>0, <1>a, <1>17, <2>2 DEF IInv, LocalInv, FateInv, OwnedInv, Valid, ResolvedIsAttested, AssertBeforeRejected, AssertCurrent, Leave, Goto
    <2> QED
      BY <2>1, <2>3, <2>4, <2>5, <2>6 DEF LocalInv
  <1>18. CASE ClearPlatformIntent(o)
    <2>1. Quiet
      BY <1>18 DEF Quiet, ClearPlatformIntent, Goto
    <2>2. /\ stream' = stream /\ expired' = expired /\ resolution' = resolution
          /\ Terminal' = Terminal /\ Attested' = Attested
      BY <2>1, <1>q
    <2>3. DraftInv(o)'
      BY <1>0, <1>a, <1>18, <2>2 DEF LocalInv, DraftInv, ClearPlatformIntent, Goto
    <2>4. ResultInv(o)'
      BY <1>0, <1>a, <1>18, <2>2 DEF LocalInv, ResultInv, Valid, ClearPlatformIntent, Goto
    <2>5. OwnedInv(o)'
      BY <1>0, <1>a, <1>18, <1>r, <2>2 DEF LocalInv, OwnedInv, ClearPlatformIntent, Goto
    <2>6. FateInv(o)'
      BY <1>0, <1>a, <1>18, <2>2 DEF IInv, LocalInv, FateInv, OwnedInv, Valid, ResolvedIsAttested, ClearPlatformIntent, Goto
    <2> QED
      BY <2>1, <2>3, <2>4, <2>5, <2>6 DEF LocalInv
  <1>19. CASE Join(o)
    <2>1. Quiet
      BY <1>19 DEF Quiet, Join, Goto
    <2>2. /\ stream' = stream /\ expired' = expired /\ resolution' = resolution
          /\ Terminal' = Terminal /\ Attested' = Attested
      BY <2>1, <1>q
    <2>3. DraftInv(o)'
      BY <1>0, <1>a, <1>19, <2>2 DEF LocalInv, DraftInv, Join, Goto
    <2>4. ResultInv(o)'
      BY <1>0, <1>a, <1>19, <2>2 DEF LocalInv, ResultInv, Valid, Join, Goto
    <2>5. OwnedInv(o)'
      BY <1>0, <1>a, <1>19, <1>r, <2>2 DEF LocalInv, OwnedInv, Join, Goto
    <2>6. FateInv(o)'
      BY <1>0, <1>a, <1>19, <2>2 DEF IInv, LocalInv, FateInv, OwnedInv, Valid, ResolvedIsAttested, Join, Goto
    <2> QED
      BY <2>1, <2>3, <2>4, <2>5, <2>6 DEF LocalInv
  <1>20. CASE HeartbeatStop(o)
    <2>1. Quiet
      BY <1>20 DEF Quiet, HeartbeatStop
    <2>2. /\ stream' = stream /\ expired' = expired /\ resolution' = resolution
          /\ Terminal' = Terminal /\ Attested' = Attested
      BY <2>1, <1>q
    <2>3. DraftInv(o)'
      BY <1>0, <1>a, <1>20, <2>2 DEF LocalInv, DraftInv, HeartbeatStop
    <2>4. ResultInv(o)'
      BY <1>0, <1>a, <1>20, <2>2 DEF LocalInv, ResultInv, Valid, HeartbeatStop
    <2>5. OwnedInv(o)'
      BY <1>0, <1>a, <1>20, <1>r, <2>2 DEF LocalInv, OwnedInv, HeartbeatStop
    <2>6. FateInv(o)'
      BY <1>0, <1>a, <1>20, <2>2 DEF IInv, LocalInv, FateInv, OwnedInv, Valid, ResolvedIsAttested, HeartbeatStop
    <2> QED
      BY <2>1, <2>3, <2>4, <2>5, <2>6 DEF LocalInv
  <1>21. CASE HeartbeatDue(o)
    <2>1. Quiet
      BY <1>21 DEF Quiet, HeartbeatDue
    <2>2. /\ stream' = stream /\ expired' = expired /\ resolution' = resolution
          /\ Terminal' = Terminal /\ Attested' = Attested
      BY <2>1, <1>q
    <2>3. DraftInv(o)'
      BY <1>0, <1>a, <1>21, <2>2 DEF LocalInv, DraftInv, HeartbeatDue
    <2>4. ResultInv(o)'
      BY <1>0, <1>a, <1>21, <2>2 DEF LocalInv, ResultInv, Valid, HeartbeatDue
    <2>5. OwnedInv(o)'
      BY <1>0, <1>a, <1>21, <1>r, <2>2 DEF LocalInv, OwnedInv, HeartbeatDue
    <2>6. FateInv(o)'
      BY <1>0, <1>a, <1>21, <2>2 DEF IInv, LocalInv, FateInv, OwnedInv, Valid, ResolvedIsAttested, HeartbeatDue
    <2> QED
      BY <2>1, <2>3, <2>4, <2>5, <2>6 DEF LocalInv
  <1>22. CASE HeartbeatLatest(o)
    <2>1. Quiet
      BY <1>22 DEF Quiet, HeartbeatLatest
    <2>2. /\ stream' = stream /\ expired' = expired /\ resolution' = resolution
          /\ Terminal' = Terminal /\ Attested' = Attested
      BY <2>1, <1>q
    <2>d. hpc'[o] = "bind" =>
            /\ hdraft'[o] \in Draft /\ hdraft'[o].claim.owner = o
            /\ hdraft'[o].claim.att = None /\ Fits(hdraft'[o], stream, expired)
      BY <1>0, <1>a, <1>22, DraftsFit DEF HeartbeatLatest, Current
    <2>3. DraftInv(o)'
      BY <1>0, <1>a, <1>22, <2>2, <2>d DEF LocalInv, DraftInv, HeartbeatLatest
    <2>4. ResultInv(o)'
      BY <1>0, <1>a, <1>22, <2>2 DEF LocalInv, ResultInv, Valid, HeartbeatLatest
    <2>5. OwnedInv(o)'
      BY <1>0, <1>a, <1>22, <1>r, <2>2 DEF LocalInv, OwnedInv, HeartbeatLatest
    <2>6. FateInv(o)'
      BY <1>0, <1>a, <1>22, <2>2 DEF IInv, LocalInv, FateInv, OwnedInv, Valid, ResolvedIsAttested, HeartbeatLatest
    <2> QED
      BY <2>1, <2>3, <2>4, <2>5, <2>6 DEF LocalInv
  <1>23. CASE Crash(o)
    <2>1. Quiet
      BY <1>23 DEF Quiet, Crash, Goto
    <2>2. /\ stream' = stream /\ expired' = expired /\ resolution' = resolution
          /\ Terminal' = Terminal /\ Attested' = Attested
      BY <2>1, <1>q
    <2>3. DraftInv(o)'
      BY <1>0, <1>a, <1>23, <2>2 DEF LocalInv, DraftInv, Crash, Goto
    <2>4. ResultInv(o)'
      BY <1>0, <1>a, <1>23, <2>2 DEF LocalInv, ResultInv, Valid, Crash, Goto
    <2>5. OwnedInv(o)'
      BY <1>0, <1>a, <1>23, <1>r, <2>2 DEF LocalInv, OwnedInv, Crash, Goto
    <2>6. FateInv(o)'
      BY <1>0, <1>a, <1>23, <2>2 DEF IInv, LocalInv, FateInv, OwnedInv, Valid, ResolvedIsAttested, Crash, Goto
    <2> QED
      BY <2>1, <2>3, <2>4, <2>5, <2>6 DEF LocalInv
  <1> QED
    BY <1>1, <1>2, <1>3, <1>4, <1>5, <1>6, <1>7, <1>8, <1>9, <1>10, <1>11, <1>12, <1>13, <1>14, <1>15, <1>16, <1>17, <1>18, <1>19, <1>20, <1>21, <1>22, <1>23
       DEF QuietStep

\* Binding the resolution: the first valid one wins and nothing else changes.
LEMMA BindStep ==
    ASSUME IInv, NEW o \in Owners, Bind(o)
    PROVE  Grow /\ StreamInv' /\ ResolvedIsAttested' /\ LocalInv(o)'
  <1> USE DEF store, main, beat
  <1>0. TypeOK /\ LocalInv(o)
    BY DEF IInv
  <1>a. /\ pc \in [Owners -> PCs]
        /\ draft \in [Owners -> Draft \cup {None}]
        /\ hdraft \in [Owners -> Draft \cup {None}]
        /\ owned \in [Owners -> Nat \cup {None}]
        /\ res \in [Owners -> Resolution \cup {None}]
        /\ fate \in [Owners -> Fates]
        /\ ret \in [Owners -> Resolution \cup {None}]
        /\ hpc \in [Owners -> {"off", "wait", "due", "bind"}]
        /\ resolution \in Resolution \cup {None}
        /\ None \notin Resolution
    BY <1>0, ConstantsAssumption DEF TypeOK
  <1>1. stream' = stream /\ expired' = expired
    BY DEF Bind
  <1>2. Terminal' = Terminal /\ Attested' = Attested
    BY <1>1 DEF Terminal, Attested, Latest
  <1>3. StreamInv'
    BY <1>1 DEF IInv, StreamInv, StreamWellFormed, StreamMonotone, StreamOrigin
  <1>4. res[o] \in Resolution /\ Valid(res[o])
    BY <1>0 DEF LocalInv, ResultInv, Bind
  <1>5. BindWinner(o) \in Resolution /\ Valid(BindWinner(o))
    BY <1>a, <1>4 DEF BindWinner, IInv, ResolvedIsAttested, Valid
  <1>6. /\ resolution' = BindWinner(o)
        /\ fate' = [fate EXCEPT ![o] = "returned"]
        /\ ret' = [ret EXCEPT ![o] = BindWinner(o)]
        /\ pc'[o] \in {"clear", "leave"}
    BY <1>a, <1>4, <1>5 DEF Bind, Goto
  <1>7. Grow
    BY <1>0, <1>1, <1>5, <1>6 DEF Grow, BindWinner, TypeOK
  <1>8. ResolvedIsAttested'
    BY <1>2, <1>5, <1>6 DEF ResolvedIsAttested, Valid
  <1>9. DraftInv(o)'
    BY <1>0, <1>1, <1>6 DEF LocalInv, DraftInv, Bind
  <1>10. ResultInv(o)'
    BY <1>6 DEF ResultInv
  <1>11. OwnedInv(o)'
    BY <1>0, <1>1, <1>6 DEF LocalInv, OwnedInv, Bind
  <1>12. FateInv(o)'
    BY <1>a, <1>5, <1>6 DEF FateInv
  <1> QED
    BY <1>3, <1>7, <1>8, <1>9, <1>10, <1>11, <1>12 DEF LocalInv

\* Binding a claim event: arbitration by slot, then what each caller does with
\* the winner.
AppendStep(o) == ClaimAppend(o) \/ RenewAppend(o) \/ PublishAppend(o) \/ HeartbeatAppend(o)

\* A step that binds a claim event keeps its own owner's invariant.
LEMMA AppendLocalStep ==
    ASSUME IInv, TypeOK', NEW o \in Owners, AppendStep(o)
    PROVE  Grow /\ StreamInv' /\ ResolvedIsAttested' /\ LocalInv(o)'
  <1> USE DEF store, main, beat
  <1>0. TypeOK /\ LocalInv(o)
    BY DEF IInv
  <1>a. /\ pc \in [Owners -> PCs]
        /\ draft \in [Owners -> Draft \cup {None}]
        /\ hdraft \in [Owners -> Draft \cup {None}]
        /\ owned \in [Owners -> Nat \cup {None}]
        /\ res \in [Owners -> Resolution \cup {None}]
        /\ fate \in [Owners -> Fates]
        /\ ret \in [Owners -> Resolution \cup {None}]
        /\ hpc \in [Owners -> {"off", "wait", "due", "bind"}]
        /\ resolution \in Resolution \cup {None}
        /\ None \notin Resolution
    BY <1>0, ConstantsAssumption DEF TypeOK
  <1>s. stream \in Seq(Claim) /\ expired \in BOOLEAN /\ expired' \in BOOLEAN
    BY <1>0 DEF TypeOK
  \* What holds whichever thread binds its draft d.
  <1>b. ASSUME NEW d \in Draft, Fits(d, stream, expired), BindClaim(d), resolution' = resolution
        PROVE  /\ Grow /\ StreamInv' /\ ResolvedIsAttested'
               /\ d.at \in 1..Len(stream') /\ Winner(d) = stream'[d.at] /\ Winner(d) \in Claim
               /\ Winner(d).gen \in Nat /\ Winner(d).gen # None
               /\ Terminal => Terminal'
               /\ Winner(d).att # None => Attested' = Winner(d).att
               /\ \A e \in Draft : Fits(e, stream, expired) => Fits(e, stream', expired')
               /\ \A p \in Owners, g \in Nat :
                    (\E i \in 1..Len(stream) : stream[i].owner = p /\ stream[i].gen = g) =>
                     \E i \in 1..Len(stream') : stream'[i].owner = p /\ stream'[i].gen = g
    <2>1. Grow /\ StreamInv' /\ ResolvedIsAttested'
      BY <1>b, BindClaimStore
    <2>2. /\ stream' \in Seq(Claim)
          /\ d.at \in 1..Len(stream') /\ Winner(d) = stream'[d.at] /\ Winner(d) \in Claim
          /\ Len(stream') >= Len(stream)
          /\ \A i \in 1..Len(stream) : stream'[i] = stream[i]
      BY <1>b, <1>s, BindClaimEffect DEF Draft
    <2>3. Winner(d).gen \in Nat /\ Winner(d).gen # None
      BY <2>2, ConstantsAssumption DEF Claim
    <2>4. Terminal => Terminal'
      BY <2>1, AttestedStable
    <2>5. ASSUME Winner(d).att # None PROVE Attested' = Winner(d).att
      <3>1. d.at = Len(stream')
        <4> SUFFICES ASSUME d.at # Len(stream') PROVE FALSE
          OBVIOUS
        <4>1. d.at + 1 \in 1..Len(stream') /\ d.at + 1 # 1 /\ (d.at + 1) - 1 = d.at
          BY <2>2 DEF Draft
        <4>2. stream'[(d.at + 1) - 1].att = None
          BY <4>1, <2>1 DEF StreamInv, StreamWellFormed
        <4> QED
          BY <4>1, <4>2, <2>2, <2>5
      <3>2. stream' # <<>> /\ Latest' = Winner(d)
        BY <2>2, <3>1 DEF Latest
      <3> QED
        BY <3>2, <2>5 DEF Attested, Terminal
    <2>6. \A e \in Draft : Fits(e, stream, expired) => Fits(e, stream', expired')
      BY <1>s, <2>1, FitsStable
    <2>7. ASSUME NEW p \in Owners, NEW g \in Nat,
                 NEW i \in 1..Len(stream), stream[i].owner = p, stream[i].gen = g
          PROVE  \E k \in 1..Len(stream') : stream'[k].owner = p /\ stream'[k].gen = g
      <3>1. i \in 1..Len(stream') /\ stream'[i] = stream[i]
        BY <1>s, <2>2
      <3> QED
        BY <3>1, <2>7
    <2> QED
      BY <2>1, <2>2, <2>3, <2>4, <2>5, <2>6, <2>7
  <1>1. CASE ClaimAppend(o)
    <2> DEFINE d == draft[o]
               w == Winner(d)
    <2>1. /\ d \in Draft /\ Fits(d, stream, expired) /\ BindClaim(d)
          /\ d.claim.owner = o /\ resolution' = resolution
      BY <1>0, <1>1 DEF LocalInv, DraftInv, ClaimAppend
    <2>2. /\ Grow /\ StreamInv' /\ ResolvedIsAttested'
          /\ d.at \in 1..Len(stream') /\ w = stream'[d.at] /\ w \in Claim
          /\ w.gen \in Nat /\ w.gen # None
          /\ Terminal => Terminal'
          /\ w.att # None => Attested' = w.att
      BY <2>1, <1>b
    <2>3. \A e \in Draft : Fits(e, stream, expired) => Fits(e, stream', expired')
      BY <2>1, <1>b
    <2>4. \A p \in Owners, g \in Nat :
            (\E i \in 1..Len(stream) : stream[i].owner = p /\ stream[i].gen = g) =>
             \E i \in 1..Len(stream') : stream'[i].owner = p /\ stream'[i].gen = g
      BY <2>1, <1>b
    <2> HIDE DEF d, w
    <2>t. ASSUME d.at = 1, Len(stream) = 1, LeaseOver, w.owner # o
          PROVE  /\ Takeover(o) \in Draft /\ Takeover(o).claim.owner = o
                 /\ Takeover(o).claim.att = None
                 /\ Fits(Takeover(o), stream, expired)
                 /\ stream' = stream /\ expired' = expired
      <3>1. stream' = stream /\ expired' = expired
        BY <2>1, <2>t DEF BindClaim
      <3>2. stream # <<>> /\ Latest = w
        BY <2>2, <2>t, <3>1, <1>s DEF Latest
      <3>3. ~Terminal
        BY <2>t, <3>2, <1>s DEF IInv, StreamInv, StreamOrigin, Terminal, Latest
      <3> QED
        BY <1>0, <2>t, <3>1, <3>2, <3>3, DraftsFit DEF LeaseOver
    <2>5. DraftInv(o)'
      <3>1. /\ pc'[o] \in {"reexisting", "claimkey", "claimbind"}
            /\ pc'[o] = "claimbind" =>
                 /\ w.owner # o /\ d.at = 1 /\ Len(stream) = 1 /\ LeaseOver
                 /\ draft'[o] = Takeover(o)
        BY <1>a, <1>1 DEF ClaimAppend, Goto, w, d
      <3> QED
        BY <1>0, <1>1, <2>3, <2>t, <3>1 DEF LocalInv, DraftInv, ClaimAppend
    <2>6. ResultInv(o)'
      <3>1. pc'[o] \in {"reexisting", "claimkey", "claimbind"}
        BY <1>a, <1>1 DEF ClaimAppend, Goto
      <3> QED
        BY <3>1 DEF ResultInv
    <2>7. OwnedInv(o)'
      <3>1. \/ w.owner = o /\ owned' = [owned EXCEPT ![o] = w.gen]
            \/ pc'[o] \in {"claimkey", "claimbind"} /\ owned' = owned
        BY <1>a, <1>1 DEF ClaimAppend, Goto, w, d
      <3>2. CASE w.owner = o /\ owned' = [owned EXCEPT ![o] = w.gen]
        BY <1>a, <2>2, <3>2 DEF OwnedInv
      <3>3. CASE pc'[o] \in {"claimkey", "claimbind"} /\ owned' = owned
        BY <1>0, <1>a, <2>4, <3>3 DEF LocalInv, OwnedInv
      <3> QED
        BY <3>1, <3>2, <3>3
    <2>8. FateInv(o)'
      BY <1>0, <1>1, <2>1 DEF LocalInv, FateInv, ClaimAppend
    <2> QED
      BY <2>2, <2>5, <2>6, <2>7, <2>8 DEF LocalInv
  <1>2. CASE RenewAppend(o)
    <2> DEFINE d == draft[o]
               w == Winner(d)
    <2>1. /\ d \in Draft /\ Fits(d, stream, expired) /\ BindClaim(d)
          /\ d.claim.owner = o /\ resolution' = resolution
      BY <1>0, <1>2 DEF LocalInv, DraftInv, RenewAppend
    <2>2. /\ Grow /\ StreamInv' /\ ResolvedIsAttested'
          /\ d.at \in 1..Len(stream') /\ w = stream'[d.at] /\ w \in Claim
          /\ w.gen \in Nat /\ w.gen # None
          /\ Terminal => Terminal'
          /\ w.att # None => Attested' = w.att
      BY <2>1, <1>b
    <2>3. \A e \in Draft : Fits(e, stream, expired) => Fits(e, stream', expired')
      BY <2>1, <1>b
    <2>4. \A p \in Owners, g \in Nat :
            (\E i \in 1..Len(stream) : stream[i].owner = p /\ stream[i].gen = g) =>
             \E i \in 1..Len(stream') : stream'[i].owner = p /\ stream'[i].gen = g
      BY <2>1, <1>b
    <2> HIDE DEF d, w
    <2>a. pc'[o] \in {"current", "leave"}
      BY <1>a, <1>2 DEF RenewAppend, Leave, Goto
    <2>5. DraftInv(o)'
      <3>1. hdraft' = hdraft /\ (hpc'[o] = hpc[o] \/ hpc'[o] = "wait")
        BY <1>a, <1>2 DEF RenewAppend, StartHeartbeat
      <3> QED
        BY <1>0, <2>a, <2>3, <3>1 DEF LocalInv, DraftInv
    <2>6. ResultInv(o)'
      BY <2>a DEF ResultInv
    <2>7. OwnedInv(o)'
      <3>1. owned' = owned /\ (owned[o] # None => owned[o] \in Nat)
        BY <1>a, <1>2 DEF RenewAppend
      <3> QED
        BY <1>0, <2>a, <2>4, <3>1 DEF LocalInv, OwnedInv
    <2>8. FateInv(o)'
      BY <1>0, <1>a, <1>2, <2>1 DEF LocalInv, FateInv, RenewAppend, Leave
    <2> QED
      BY <2>2, <2>5, <2>6, <2>7, <2>8 DEF LocalInv
  <1>3. CASE PublishAppend(o)
    <2> DEFINE d == draft[o]
               w == Winner(d)
    <2>1. /\ d \in Draft /\ Fits(d, stream, expired) /\ BindClaim(d)
          /\ d.claim.owner = o /\ resolution' = resolution
      BY <1>0, <1>3 DEF LocalInv, DraftInv, PublishAppend
    <2>2. /\ Grow /\ StreamInv' /\ ResolvedIsAttested'
          /\ d.at \in 1..Len(stream') /\ w = stream'[d.at] /\ w \in Claim
          /\ w.gen \in Nat /\ w.gen # None
          /\ Terminal => Terminal'
          /\ w.att # None => Attested' = w.att
      BY <2>1, <1>b
    <2>3. \A e \in Draft : Fits(e, stream, expired) => Fits(e, stream', expired')
      BY <2>1, <1>b
    <2>4. \A p \in Owners, g \in Nat :
            (\E i \in 1..Len(stream) : stream[i].owner = p /\ stream[i].gen = g) =>
             \E i \in 1..Len(stream') : stream'[i].owner = p /\ stream'[i].gen = g
      BY <2>1, <1>b
    <2> HIDE DEF d, w
    <2>a. /\ pc'[o] \in {"publish", "bind", "leave"}
          /\ pc'[o] = "bind" => w.att = res[o]
          /\ res' = res /\ res[o] \in Executed
      BY <1>0, <1>a, <1>3 DEF PublishAppend, Leave, Goto, w, d, LocalInv, ResultInv
    <2>5. DraftInv(o)'
      BY <1>0, <1>3, <2>a, <2>3 DEF LocalInv, DraftInv, PublishAppend
    <2>6. ResultInv(o)'
      <3>1. res[o] \in Resolution /\ res[o] # None
        BY <2>a, <1>a DEF Resolution
      <3> QED
        BY <2>a, <2>2, <3>1 DEF ResultInv, Valid
    <2>7. OwnedInv(o)'
      <3>1. owned' = owned /\ (owned[o] # None => owned[o] \in Nat)
        BY <1>a, <1>3 DEF PublishAppend
      <3> QED
        BY <1>0, <2>a, <2>4, <3>1 DEF LocalInv, OwnedInv
    <2>8. FateInv(o)'
      BY <1>0, <1>a, <1>3, <2>1 DEF LocalInv, FateInv, PublishAppend, Leave
    <2> QED
      BY <2>2, <2>5, <2>6, <2>7, <2>8 DEF LocalInv
  <1>4. CASE HeartbeatAppend(o)
    <2> DEFINE d == hdraft[o]
               w == Winner(d)
    <2>1. /\ d \in Draft /\ Fits(d, stream, expired) /\ BindClaim(d)
          /\ d.claim.owner = o /\ resolution' = resolution
      BY <1>0, <1>4 DEF LocalInv, DraftInv, HeartbeatAppend
    <2>2. /\ Grow /\ StreamInv' /\ ResolvedIsAttested'
          /\ d.at \in 1..Len(stream') /\ w = stream'[d.at] /\ w \in Claim
          /\ w.gen \in Nat /\ w.gen # None
          /\ Terminal => Terminal'
          /\ w.att # None => Attested' = w.att
      BY <2>1, <1>b
    <2>3. \A e \in Draft : Fits(e, stream, expired) => Fits(e, stream', expired')
      BY <2>1, <1>b
    <2>4. \A p \in Owners, g \in Nat :
            (\E i \in 1..Len(stream) : stream[i].owner = p /\ stream[i].gen = g) =>
             \E i \in 1..Len(stream') : stream'[i].owner = p /\ stream'[i].gen = g
      BY <2>1, <1>b
    <2> HIDE DEF d, w
    <2>a. hpc'[o] # "bind" /\ pc' = pc /\ draft' = draft /\ res' = res /\ owned' = owned
      BY <1>a, <1>4 DEF HeartbeatAppend
    <2>5. DraftInv(o)'
      BY <1>0, <2>a, <2>3 DEF LocalInv, DraftInv
    <2>6. ResultInv(o)'
      <3>1. ASSUME NEW r, Valid(r) PROVE r \in Executed => Attested' = r
        <4> SUFFICES ASSUME r \in Executed PROVE Attested' = r
          OBVIOUS
        <4>1. Attested = r /\ r # None
          BY <1>a, <3>1 DEF Valid, Resolution
        <4>2. Terminal
          BY <4>1 DEF Attested
        <4> QED
          BY <2>2, <4>1, <4>2, AttestedStable
      <3> QED
        BY <1>0, <2>a, <3>1 DEF LocalInv, ResultInv, Valid
    <2>7. OwnedInv(o)'
      <3>1. resolution' = resolution /\ (Terminal => Terminal')
        BY <2>1, <2>2
      <3>2. owned[o] # None => owned[o] \in Nat
        BY <1>a
      <3> QED
        BY <1>0, <2>a, <2>4, <3>1, <3>2 DEF LocalInv, OwnedInv
    <2>8. FateInv(o)'
      BY <1>0, <1>4, <2>1 DEF LocalInv, FateInv, HeartbeatAppend
    <2> QED
      BY <2>2, <2>5, <2>6, <2>7, <2>8 DEF LocalInv
  <1> QED
    BY <1>1, <1>2, <1>3, <1>4 DEF AppendStep

---------------------------------------------------------------------------
(* The theorems                                                            *)

\* The invariant holds of the empty store, before any call.
LEMMA InitInv == Init => IInv
  <1> SUFFICES ASSUME Init PROVE IInv
    OBVIOUS
  <1>1. TypeOK
    <2>1. stream \in Seq(Claim) /\ rows \in RowTuples
      BY DEF Init
    <2>2. pc \in [Owners -> PCs] /\ fate \in [Owners -> Fates]
      BY DEF Init, PCs, Fates
    <2> QED
      BY <2>1, <2>2 DEF Init, TypeOK
  <1>2. Len(stream) = 0
    BY DEF Init
  <1>3. StreamInv
    BY <1>2 DEF Init, StreamInv, StreamWellFormed, StreamMonotone, StreamOrigin
  <1>4. ResolvedIsAttested
    BY ConstantsAssumption DEF Init, ResolvedIsAttested, Resolution
  <1>5. ASSUME NEW o \in Owners PROVE LocalInv(o)
    BY DEF Init, LocalInv, DraftInv, ResultInv, OwnedInv, FateInv
  <1> QED
    BY <1>1, <1>3, <1>4, <1>5 DEF IInv

\* A step of one owner preserves the invariant of all of them.
LEMMA StepInv ==
    ASSUME IInv, NEW o \in Owners, Step(o)
    PROVE  IInv' /\ Grow
  <1>1. TypeOK'
    BY TypeStep DEF Step
  <1>2. Others(o)
    BY FrameStep DEF IInv
  <1>3. Grow /\ StreamInv' /\ ResolvedIsAttested' /\ LocalInv(o)'
    <2>1. QuietStep(o) \/ Bind(o) \/ AppendStep(o)
      BY DEF Step, Resolve, Heartbeat, QuietStep, AppendStep
    <2>2. CASE QuietStep(o)
      BY <2>2, QuietLocalStep, QuietStore
    <2>3. CASE Bind(o)
      BY <2>3, BindStep
    <2>4. CASE AppendStep(o)
      BY <1>1, <2>4, AppendLocalStep
    <2> QED
      BY <2>1, <2>2, <2>3, <2>4
  <1>4. ASSUME NEW p \in Owners, p # o PROVE LocalInv(p)'
    BY <1>1, <1>2, <1>3, <1>4, LocalStable DEF IInv, Others
  <1> QED
    BY <1>1, <1>3, <1>4 DEF IInv

\* The passing of expires_at preserves the invariant: a draft that is a takeover
\* already relied on an expired lease.
LEMMA ExpireInv ==
    ASSUME IInv, Expire
    PROVE  IInv' /\ Grow
  <1> USE DEF store, main, beat
  <1>1. TypeOK'
    BY DEF IInv, TypeOK, Expire
  <1>2. Grow /\ stream' = stream /\ Attested' = Attested
    BY DEF IInv, TypeOK, Grow, Expire, Attested, Terminal, Latest
  <1>3. StreamInv' /\ ResolvedIsAttested'
    BY <1>2 DEF IInv, StreamInv, StreamWellFormed, StreamMonotone, StreamOrigin,
                ResolvedIsAttested, Expire
  <1>4. ASSUME NEW p \in Owners PROVE LocalInv(p)'
    BY <1>1, <1>2, LocalStable DEF IInv, Expire
  <1> QED
    BY <1>1, <1>2, <1>3, <1>4 DEF IInv

\* Stuttering preserves the invariant.
LEMMA StutterInv ==
    ASSUME IInv, UNCHANGED vars
    PROVE  IInv' /\ Grow
  <1> USE DEF vars, store, main, beat
  <1>1. TypeOK'
    BY DEF IInv, TypeOK
  <1>2. Quiet
    BY DEF Quiet
  <1>3. Grow /\ StreamInv' /\ ResolvedIsAttested'
    BY <1>2, QuietStore
  <1>4. ASSUME NEW p \in Owners PROVE LocalInv(p)'
    BY <1>1, <1>3, LocalStable DEF IInv
  <1> QED
    BY <1>1, <1>3, <1>4 DEF IInv

\* Every step of the specification preserves the invariant.
LEMMA NextInv ==
    ASSUME IInv, [Next]_vars
    PROVE  IInv' /\ Grow
  BY StepInv, ExpireInv, StutterInv DEF Next, Step, Quiescent

\* The invariant holds of every reachable state.
LEMMA Invariance == Spec => []IInv
  <1>1. IInv /\ [Next]_vars => IInv'
    BY NextInv
  <1> QED
    BY InitInv, <1>1, PTL DEF Spec

\* Type correctness of the claim protocol.
THEOREM TypeCorrect == Spec => []TypeOK
  <1>1. IInv => TypeOK
    BY DEF IInv
  <1> QED
    BY Invariance, <1>1, PTL

\* _latest_claim never meets a stream it would raise about.
THEOREM StreamAlwaysWellFormed == Spec => []StreamWellFormed
  <1>1. IInv => StreamWellFormed
    BY DEF IInv, StreamInv
  <1> QED
    BY Invariance, <1>1, PTL

\* Only the attested result of an executed evaluation is ever bound.
THEOREM ResolutionIsAttested == Spec => []ResolvedIsAttested
  <1>1. IInv => ResolvedIsAttested
    BY DEF IInv
  <1> QED
    BY Invariance, <1>1, PTL

\* All callers are answered with the one durable resolution.
THEOREM AnswersAgree == Spec => []CallersAgree
  <1>1. IInv => CallersAgree
    BY DEF IInv, LocalInv, FateInv, CallersAgree
  <1> QED
    BY Invariance, <1>1, PTL

\* The defensive errors of the resolve path are unreachable.
THEOREM InternalErrorsUnreachable == Spec => []NoInternalError
  <1>1. IInv => NoInternalError
    BY DEF IInv, LocalInv, FateInv, NoInternalError
  <1> QED
    BY Invariance, <1>1, PTL

\* Generations are fencing tokens: no two services hold the same one.
THEOREM GenerationsAreFencing == Spec => []GenerationHasOneOwner
  <1>1. IInv => GenerationHasOneOwner
    <2> SUFFICES ASSUME IInv, NEW o \in Owners, NEW p \in Owners, o # p,
                        owned[o] # None, owned[o] = owned[p]
                 PROVE  FALSE
      BY DEF GenerationHasOneOwner
    <2>1. PICK i \in 1..Len(stream) : stream[i].owner = o /\ stream[i].gen = owned[o]
      BY DEF IInv, LocalInv, OwnedInv
    <2>2. PICK j \in 1..Len(stream) : stream[j].owner = p /\ stream[j].gen = owned[o]
      BY DEF IInv, LocalInv, OwnedInv
    <2>3. i < j \/ j < i \/ i = j
      BY DEF IInv, TypeOK
    <2> QED
      BY <2>1, <2>2, <2>3 DEF IInv, StreamInv, StreamMonotone
  <1> QED
    BY Invariance, <1>1, PTL

\* A lease changes hands only after its last event has expired.
THEOREM TakeoverNeedsExpiry == Spec => TakeoverOnlyAfterExpiry
  <1>1. IInv /\ [Next]_vars =>
            [stream # <<>> /\ stream' # stream
               /\ stream'[Len(stream')].owner # Latest.owner => expired]_vars
    <2> SUFFICES ASSUME IInv, Next, stream # <<>>, stream' # stream,
                        stream'[Len(stream')].owner # Latest.owner
                 PROVE  expired
      OBVIOUS
    <2>1. PICK o \in Owners : AppendStep(o)
      <3>1. ASSUME NEW o \in Owners, QuietStep(o) \/ Bind(o) PROVE FALSE
        <4>1. stream' = stream
          BY <3>1, QuietLocalStep DEF Bind, Quiet
        <4> QED
          BY <4>1
      <3>2. ~Expire /\ ~Quiescent
        BY DEF Expire, Quiescent, vars, store
      <3> QED
        BY <3>1, <3>2 DEF Next, Resolve, Heartbeat, QuietStep, AppendStep
    <2>2. PICK d \in Draft : Fits(d, stream, expired) /\ BindClaim(d)
      BY <2>1 DEF IInv, LocalInv, DraftInv, AppendStep, ClaimAppend, RenewAppend,
                  PublishAppend, HeartbeatAppend
    <2>3. stream \in Seq(Claim) /\ Len(stream) \in Nat \ {0}
      BY LatestType DEF IInv, TypeOK
    <2>4. d.at = Len(stream) + 1 /\ stream' = Append(stream, d.claim)
      BY <2>2 DEF BindClaim
    <2>5. stream'[Len(stream')] = d.claim /\ d.at > 1
      BY <2>3, <2>4 DEF Draft
    <2> QED
      BY <2>2, <2>4, <2>5 DEF Fits, Latest
  <1> QED
    BY Invariance, <1>1, PTL DEF Spec, TakeoverOnlyAfterExpiry

---------------------------------------------------------------------------
(* Refinement                                                              *)

\* The parts of a step the promise is about: what is attested stays, and the
\* caller's answer stays, is dropped, or is the resolution already bound.
LEMMA QuietRefines ==
    ASSUME IInv, NEW o \in Owners, QuietStep(o)
    PROVE  UNCHANGED Promise!vars \/ Promise!Answer(o) \/ Promise!Ask(o)
  <1> USE DEF store, main, beat
  <1>1. resolution' = resolution /\ Attested' = Attested
    BY QuietLocalStep, QuietStore DEF Quiet
  <1>2. \/ ret' = ret
        \/ ret' = [ret EXCEPT ![o] = None]
        \/ resolution # None /\ ret' = [ret EXCEPT ![o] = resolution]
    BY DEF QuietStep, Start, CheckExisting, CheckExistingAgain, CheckExistingEval, ExistingOr,
           Load, Leave, CheckAttested, CheckAttestedAgain, ClaimCheckKey, ClaimLatest,
           RenewLatest, AssertOnEntry, AssertBeforeRows, AssertBeforeEvaluate,
           AssertBeforeRejected, AssertCurrent, Defer, AssembleRows, Evaluate, PublishLatest,
           ClearPlatformIntent, Join, HeartbeatStop, HeartbeatDue, HeartbeatLatest, Crash
  <1> QED
    BY <1>1, <1>2 DEF Promise!vars, Promise!Answer, Promise!Ask, Promise!Bindable

\* Binding the resolution is an Answer of the promise.
LEMMA BindRefines ==
    ASSUME IInv, NEW o \in Owners, Bind(o)
    PROVE  Promise!Answer(o)
  <1>1. TypeOK /\ res[o] \in Resolution /\ Valid(res[o])
    BY DEF IInv, LocalInv, ResultInv, Bind
  <1>2. resolution \in Resolution \cup {None} /\ None \notin Resolution
    BY <1>1, ConstantsAssumption DEF TypeOK
  <1>3. BindWinner(o) \in Resolution /\ Valid(BindWinner(o))
    BY <1>1, <1>2 DEF BindWinner, IInv, ResolvedIsAttested, Valid
  <1>4. /\ resolution' = BindWinner(o)
        /\ ret' = [ret EXCEPT ![o] = BindWinner(o)]
        /\ stream' = stream
    BY <1>1, <1>3 DEF Bind
  <1>5. Attested' = Attested
    BY <1>4 DEF Attested, Terminal, Latest
  <1>6. BindWinner(o) \in Promise!Bindable
    BY <1>1, <1>2 DEF BindWinner, Promise!Bindable, Valid, Resolution
  <1> QED
    BY <1>4, <1>5, <1>6 DEF Promise!Answer

\* Only the publication of a result changes what the stream attests.
LEMMA AppendRefines ==
    ASSUME IInv, NEW o \in Owners, AppendStep(o)
    PROVE  UNCHANGED Promise!vars \/ Promise!Attest \/ Promise!Ask(o)
  <1> USE DEF store, main, beat
  <1>0. TypeOK /\ LocalInv(o) /\ stream \in Seq(Claim)
    BY DEF IInv, TypeOK
  <1>1. ASSUME NEW d \in Draft, Fits(d, stream, expired), BindClaim(d)
        PROVE  \/ Attested' = Attested
               \/ /\ d.at = Len(stream) + 1 /\ Attested = None
                  /\ Attested' = d.claim.att /\ d.claim.att # None
    <2>1. CASE stream' = stream
      BY <2>1 DEF Attested, Terminal, Latest
    <2>2. CASE stream' # stream
      <3>1. d.at = Len(stream) + 1 /\ stream' = Append(stream, d.claim) /\ d.claim \in Claim
        BY <1>1, <2>2 DEF BindClaim, Draft
      <3>2. ~Terminal
        BY <1>0, <1>1, <2>2, TerminalIsFinal
      <3>3. stream' # <<>> /\ Latest' = d.claim
        BY <1>0, <3>1 DEF Latest
      <3> QED
        BY <3>1, <3>2, <3>3 DEF Attested, Terminal
    <2> QED
      BY <2>1, <2>2
  <1>2. CASE ClaimAppend(o) \/ RenewAppend(o)
    <2>1. /\ draft[o] \in Draft /\ Fits(draft[o], stream, expired) /\ BindClaim(draft[o])
          /\ draft[o].claim.att = None
      BY <1>0, <1>2 DEF LocalInv, DraftInv, ClaimAppend, RenewAppend
    <2>2. Attested' = Attested
      BY <1>1, <2>1
    <2>3. resolution' = resolution /\ (ret' = ret \/ ret' = [ret EXCEPT ![o] = None])
      BY <1>2 DEF ClaimAppend, RenewAppend, Leave
    <2> QED
      BY <2>2, <2>3 DEF Promise!vars, Promise!Ask
  <1>3. CASE HeartbeatAppend(o)
    <2>1. /\ hdraft[o] \in Draft /\ Fits(hdraft[o], stream, expired) /\ BindClaim(hdraft[o])
          /\ hdraft[o].claim.att = None
      BY <1>0, <1>3 DEF LocalInv, DraftInv, HeartbeatAppend
    <2>2. Attested' = Attested
      BY <1>1, <2>1
    <2> QED
      BY <1>3, <2>2 DEF Promise!vars, HeartbeatAppend
  <1>4. CASE PublishAppend(o)
    <2>1. /\ draft[o] \in Draft /\ Fits(draft[o], stream, expired) /\ BindClaim(draft[o])
          /\ draft[o].claim.owner = o /\ draft[o].claim.gen = owned[o]
          /\ draft[o].claim.att = res[o] /\ res[o] \in Executed
      BY <1>0, <1>4 DEF LocalInv, DraftInv, ResultInv, PublishAppend
    <2>2. resolution' = resolution /\ (ret' = ret \/ ret' = [ret EXCEPT ![o] = None])
      BY <1>4 DEF PublishAppend, Leave
    <2>3. draft[o].at = Len(stream) + 1 => Winner(draft[o]) = draft[o].claim
      BY DEF Winner
    <2>4. draft[o].at = Len(stream) + 1 => ret' = ret
      BY <1>4, <2>1, <2>3 DEF PublishAppend
    <2>5. \/ Attested' = Attested
          \/ draft[o].at = Len(stream) + 1 /\ Attested = None /\ Attested' = res[o]
      BY <1>1, <2>1
    <2> QED
      BY <2>1, <2>2, <2>4, <2>5 DEF Promise!vars, Promise!Ask, Promise!Attest
  <1> QED
    BY <1>2, <1>3, <1>4 DEF AppendStep

\* The claim protocol keeps the promise of EvalResolution.
THEOREM ImplementsPromise == Spec => ImplementsEvalResolution
  <1>1. Init => Promise!Init
    BY DEF Init, Promise!Init, Attested, Terminal
  <1>2. IInv /\ [Next]_vars => [Promise!Next]_(Promise!vars)
    <2> SUFFICES ASSUME IInv, [Next]_vars PROVE [Promise!Next]_(Promise!vars)
      OBVIOUS
    <2>1. ASSUME NEW o \in Owners, Step(o) PROVE [Promise!Next]_(Promise!vars)
      <3>1. QuietStep(o) \/ Bind(o) \/ AppendStep(o)
        BY <2>1 DEF Step, Resolve, Heartbeat, QuietStep, AppendStep
      <3> QED
        BY <3>1, QuietRefines, BindRefines, AppendRefines DEF Promise!Next
    <2>2. CASE Expire \/ UNCHANGED vars
      BY <2>2 DEF Promise!vars, Expire, Attested, Terminal, Latest, vars, store, main
    <2> QED
      BY <2>1, <2>2 DEF Next, Step, Quiescent
  <1> QED
    BY Invariance, <1>1, <1>2, PTL DEF Spec, ImplementsEvalResolution, Promise!Spec


---------------------------------------------------------------------------
(* What a resolve call does with what it finds: it pays for no evaluation  *)
(* once a result is attested, it forgets a deferred intent only when that  *)
(* is resolved, and it masks no failed row.  The invariants of a call, on  *)
(* top of IInv.                                                            *)

\* Between winning the claim and evaluating.
Evaluating == {"reexisting", "reattested", "renew", "renewbind", "current", "evalkey", "defer",
               "currentrows", "rows", "currenteval", "evaluate"}

\* A call that looks for a claim has none, and the result that is attested is not the one
\* this call is still to produce.
UnattestedInv(o) ==
    /\ pc[o] \in {"existing", "attested", "claimkey", "claim", "claimbind"} => owned[o] = None
    /\ pc[o] = "claimbind" \/ (pc[o] \in Evaluating /\ owned[o] # None) =>
           ~(Terminal /\ Latest.owner = o)

\* The marker of a deferred intent is cleared after its resolution.
ClearInv(o) == pc[o] = "clear" => resolution # None

\* The entry point of a call is fixed when it starts.
ModeInv(o) ==
    /\ pc[o] # "idle" => mode[o] \in Modes
    /\ pc[o] = "evalkey" => mode[o] # "fanin"

CallInv == \A o \in Owners : UnattestedInv(o) /\ ClearInv(o) /\ ModeInv(o)

\* A success, and who vouches for it.
AllRowsOk == \A i \in 1..Len(rows) : rows[i].kind = "ok"
Success(r) == r # None /\ r.outcome = "completed"

\* While no call is inline, nobody holds, attests or has bound a success over a row
\* that is not.
RowsInv ==
    /\ Success(resolution) => AllRowsOk
    /\ Success(Attested) => AllRowsOk
    /\ \A o \in Owners : Success(res[o]) \/ pc[o] \in {"currenteval", "evaluate"} => AllRowsOk

---------------------------------------------------------------------------
(* What every step leaves alone                                            *)

\* An event an owner binds is its own, and attests only what it is publishing.
OwnEvent(o) ==
    \/ stream' = stream
    \/ \E c \in Claim :
        /\ stream' = Append(stream, c) /\ c.owner = o
        /\ c.att # None => pc[o] = "publishbind" /\ c.att = res[o]

\* The rows never change, and each call has its own entry point.
KeepsModes(o) == rows' = rows /\ \A p \in Owners : p # o => mode'[p] = mode[p]

\* Binding a draft appends it or leaves the stream alone.
LEMMA BindOwnEvent ==
    ASSUME NEW o \in Owners, NEW d \in Draft, BindClaim(d), d.claim.owner = o,
           d.claim.att # None => pc[o] = "publishbind" /\ d.claim.att = res[o]
    PROVE  OwnEvent(o)
  <1>1. d.claim \in Claim
    BY DEF Draft
  <1> QED
    BY <1>1 DEF BindClaim, OwnEvent

\* The stream is extended by the owner whose step it is.
LEMMA StreamStep ==
    ASSUME IInv, NEW o \in Owners, Step(o)
    PROVE  OwnEvent(o)
  <1>1. LocalInv(o)
    BY DEF IInv
  <1>2. CASE QuietStep(o)
    BY <1>2, QuietLocalStep DEF Quiet, OwnEvent
  <1>3. CASE Bind(o)
    BY <1>3 DEF Bind, OwnEvent
  <1>4. CASE ClaimAppend(o) \/ RenewAppend(o) \/ PublishAppend(o)
    <2>1. /\ pc[o] \in {"claimbind", "renewbind", "publishbind"} /\ BindClaim(draft[o])
      BY <1>4 DEF ClaimAppend, RenewAppend, PublishAppend
    <2>2. /\ draft[o] \in Draft /\ draft[o].claim.owner = o
          /\ draft[o].claim.att = IF pc[o] = "publishbind" THEN res[o] ELSE None
      BY <1>1, <2>1 DEF LocalInv, DraftInv
    <2> QED
      BY <2>1, <2>2, BindOwnEvent
  <1>5. CASE HeartbeatAppend(o)
    <2>1. hdraft[o] \in Draft /\ hdraft[o].claim.owner = o /\ hdraft[o].claim.att = None /\ BindClaim(hdraft[o])
      BY <1>1, <1>5 DEF HeartbeatAppend, LocalInv, DraftInv
    <2> QED
      BY <2>1, BindOwnEvent
  <1> QED
    BY <1>2, <1>3, <1>4, <1>5 DEF Step, Resolve, Heartbeat, QuietStep

\* Rows and the entry points of the other owners are left alone.
LEMMA ModeStep ==
    ASSUME IInv, NEW o \in Owners, Step(o)
    PROVE  KeepsModes(o)
  <1> USE DEF store, main, beat, KeepsModes
  <1>1. mode \in [Owners -> Modes \cup {None}]
    BY DEF IInv, TypeOK
  <1>2. ASSUME NEW m \in Modes, Start(o, m) PROVE KeepsModes(o)
    BY <1>1, <1>2 DEF Start
  <1>3. CASE CheckExisting(o) \/ CheckExistingAgain(o) \/ CheckExistingEval(o)
    BY <1>3 DEF CheckExisting, CheckExistingAgain, CheckExistingEval, ExistingOr
  <1>4. CASE CheckAttested(o) \/ ClaimCheckKey(o) \/ ClaimLatest(o) \/ CheckAttestedAgain(o)
    BY <1>4 DEF CheckAttested, ClaimCheckKey, ClaimLatest, CheckAttestedAgain
  <1>5. CASE AssertOnEntry(o) \/ AssertBeforeRows(o) \/ AssertBeforeEvaluate(o) \/ AssertBeforeRejected(o)
    BY <1>5 DEF AssertOnEntry, AssertBeforeRows, AssertBeforeEvaluate, AssertBeforeRejected, AssertCurrent
  <1>6. CASE RenewLatest(o) \/ Defer(o) \/ AssembleRows(o) \/ Evaluate(o) \/ PublishLatest(o)
    BY <1>6 DEF RenewLatest, Defer, AssembleRows, Evaluate, PublishLatest
  <1>7. CASE ClaimAppend(o) \/ RenewAppend(o) \/ PublishAppend(o) \/ HeartbeatAppend(o)
    BY <1>7 DEF ClaimAppend, RenewAppend, PublishAppend, HeartbeatAppend
  <1>8. CASE Bind(o) \/ ClearPlatformIntent(o) \/ Join(o) \/ Crash(o)
    BY <1>8 DEF Bind, ClearPlatformIntent, Join, Crash
  <1>9. CASE HeartbeatStop(o) \/ HeartbeatDue(o) \/ HeartbeatLatest(o)
    BY <1>9 DEF HeartbeatStop, HeartbeatDue, HeartbeatLatest
  <1> HIDE DEF KeepsModes
  <1> QED
    BY <1>2, <1>3, <1>4, <1>5, <1>6, <1>7, <1>8, <1>9 DEF Step, Resolve, Heartbeat

\* The marker of a deferred intent is set by a deferral and removed only by a fan-in.
LEMMA PendingStep ==
    ASSUME IInv, NEW o \in Owners, Step(o), pending, ~pending'
    PROVE  pc[o] = "clear"
  <1> USE DEF store, main, beat
  <1>1. ~ \E m \in Modes : Start(o, m)
    BY DEF Start
  <1>2. ~CheckExisting(o) /\ ~CheckExistingAgain(o) /\ ~CheckExistingEval(o)
    BY DEF CheckExisting, CheckExistingAgain, CheckExistingEval, ExistingOr
  <1>3. ~CheckAttested(o) /\ ~ClaimCheckKey(o) /\ ~ClaimLatest(o) /\ ~CheckAttestedAgain(o)
    BY DEF CheckAttested, ClaimCheckKey, ClaimLatest, CheckAttestedAgain
  <1>4. ~AssertOnEntry(o) /\ ~AssertBeforeRows(o) /\ ~AssertBeforeEvaluate(o) /\ ~AssertBeforeRejected(o)
    BY DEF AssertOnEntry, AssertBeforeRows, AssertBeforeEvaluate, AssertBeforeRejected, AssertCurrent
  <1>5. ~RenewLatest(o) /\ ~Defer(o) /\ ~AssembleRows(o) /\ ~Evaluate(o) /\ ~PublishLatest(o)
    BY DEF RenewLatest, Defer, AssembleRows, Evaluate, PublishLatest
  <1>6. ~ClaimAppend(o) /\ ~RenewAppend(o) /\ ~PublishAppend(o) /\ ~HeartbeatAppend(o)
    BY DEF ClaimAppend, RenewAppend, PublishAppend, HeartbeatAppend
  <1>7. ~Bind(o) /\ ~Join(o) /\ ~Crash(o)
    BY DEF Bind, Join, Crash
  <1>8. ~HeartbeatStop(o) /\ ~HeartbeatDue(o) /\ ~HeartbeatLatest(o)
    BY DEF HeartbeatStop, HeartbeatDue, HeartbeatLatest
  <1> QED
    BY <1>1, <1>2, <1>3, <1>4, <1>5, <1>6, <1>7, <1>8 DEF Step, Resolve, Heartbeat, ClearPlatformIntent

---------------------------------------------------------------------------
(* Each step keeps the invariants of its own call                          *)

\* An owner that has not attested a result has not after a step of another, nor after
\* one of its own that publishes nothing.
LEMMA StillUnattested ==
    ASSUME TypeOK, NEW o \in Owners, NEW p \in Owners, OwnEvent(o), p # o \/ pc[o] # "publishbind",
           ~(Terminal /\ Latest.owner = p)
    PROVE  ~(Terminal' /\ Latest'.owner = p)
  <1>1. CASE stream' = stream
    BY <1>1 DEF Terminal, Latest
  <1>2. ASSUME NEW c \in Claim, stream' = Append(stream, c), c.owner = o,
               c.att # None => pc[o] = "publishbind" /\ c.att = res[o]
        PROVE  ~(Terminal' /\ Latest'.owner = p)
    <2>1. Latest' = c
      BY <1>2 DEF Latest, TypeOK
    <2> QED
      BY <1>2, <2>1 DEF Terminal
  <1> QED
    BY <1>1, <1>2 DEF OwnEvent

\* A step that binds no claim event keeps the invariants of its own call.
LEMMA QuietCallStep ==
    ASSUME IInv, NEW o \in Owners, QuietStep(o), UnattestedInv(o), ClearInv(o), ModeInv(o)
    PROVE  UnattestedInv(o)' /\ ClearInv(o)' /\ ModeInv(o)'
  <1> USE DEF store, main, beat
  <1>1. /\ pc \in [Owners -> PCs] /\ owned \in [Owners -> Nat \cup {None}]
        /\ mode \in [Owners -> Modes \cup {None}] /\ None \notin Nat
    BY ConstantsAssumption DEF IInv, TypeOK
  <1>2. Quiet
    BY QuietLocalStep
  <1>3. stream' = stream /\ resolution' = resolution /\ Latest' = Latest /\ Terminal' = Terminal
    BY <1>2 DEF Quiet, Terminal, Latest
  <1>4. ASSUME NEW m \in Modes, Start(o, m) PROVE UnattestedInv(o)' /\ ClearInv(o)' /\ ModeInv(o)'
    <2>1. UnattestedInv(o)'
      BY <1>1, <1>3, <1>4 DEF UnattestedInv, Evaluating, Start, Goto
    <2>2. ClearInv(o)'
      BY <1>1, <1>3, <1>4 DEF ClearInv, Start, Goto
    <2>3. ModeInv(o)'
      BY <1>1, <1>3, <1>4 DEF ModeInv, Start, Goto
    <2> QED
      BY <2>1, <2>2, <2>3
  <1>5. CASE CheckExisting(o)
    <2>1. UnattestedInv(o)'
      BY <1>1, <1>3, <1>5 DEF UnattestedInv, Evaluating, CheckExisting, ExistingOr, Load, Leave, Goto
    <2>2. ClearInv(o)'
      BY <1>1, <1>3, <1>5 DEF ClearInv, CheckExisting, ExistingOr, Load, Leave, Goto
    <2>3. ModeInv(o)'
      BY <1>1, <1>3, <1>5 DEF ModeInv, CheckExisting, ExistingOr, Load, Leave, Goto
    <2> QED
      BY <2>1, <2>2, <2>3
  <1>6. CASE CheckAttested(o)
    <2>1. UnattestedInv(o)'
      BY <1>1, <1>3, <1>6 DEF UnattestedInv, Evaluating, CheckAttested, Goto
    <2>2. ClearInv(o)'
      BY <1>1, <1>3, <1>6 DEF ClearInv, CheckAttested, Goto
    <2>3. ModeInv(o)'
      BY <1>1, <1>3, <1>6 DEF ModeInv, CheckAttested, Goto
    <2> QED
      BY <2>1, <2>2, <2>3
  <1>7. CASE ClaimCheckKey(o)
    <2>1. UnattestedInv(o)'
      BY <1>1, <1>3, <1>7 DEF UnattestedInv, Evaluating, ClaimCheckKey, Goto
    <2>2. ClearInv(o)'
      BY <1>1, <1>3, <1>7 DEF ClearInv, ClaimCheckKey, Goto
    <2>3. ModeInv(o)'
      BY <1>1, <1>3, <1>7 DEF ModeInv, ClaimCheckKey, Goto
    <2> QED
      BY <2>1, <2>2, <2>3
  <1>8. CASE ClaimLatest(o)
    <2>1. UnattestedInv(o)'
      <3>1. owned[o] = None /\ pc[o] = "claim" /\ (stream = <<>> => ~Terminal)
        BY <1>8 DEF UnattestedInv, ClaimLatest, Terminal
      <3>2. \/ pc'[o] = "claimbind" /\ owned'[o] = None /\ ~Terminal
            \/ pc'[o] = "reexisting" /\ owned'[o] = None
            \/ pc'[o] = "reexisting" /\ ~Terminal
            \/ pc'[o] = "claimkey" /\ owned'[o] = None
        BY <1>1, <1>8, <3>1 DEF ClaimLatest, Goto
      <3> QED
        BY <1>3, <3>2 DEF UnattestedInv, Evaluating
    <2>2. ClearInv(o)'
      BY <1>1, <1>3, <1>8 DEF ClearInv, ClaimLatest, Goto
    <2>3. ModeInv(o)'
      BY <1>1, <1>3, <1>8 DEF ModeInv, ClaimLatest, Goto
    <2> QED
      BY <2>1, <2>2, <2>3
  <1>9. CASE CheckExistingAgain(o)
    <2>1. UnattestedInv(o)'
      BY <1>1, <1>3, <1>9 DEF UnattestedInv, Evaluating, CheckExistingAgain, ExistingOr, Load, Leave, Goto
    <2>2. ClearInv(o)'
      BY <1>1, <1>3, <1>9 DEF ClearInv, CheckExistingAgain, ExistingOr, Load, Leave, Goto
    <2>3. ModeInv(o)'
      BY <1>1, <1>3, <1>9 DEF ModeInv, CheckExistingAgain, ExistingOr, Load, Leave, Goto
    <2> QED
      BY <2>1, <2>2, <2>3
  <1>10. CASE CheckAttestedAgain(o)
    <2>1. UnattestedInv(o)'
      BY <1>1, <1>3, <1>10 DEF UnattestedInv, Evaluating, CheckAttestedAgain, Leave, Goto
    <2>2. ClearInv(o)'
      BY <1>1, <1>3, <1>10 DEF ClearInv, CheckAttestedAgain, Leave, Goto
    <2>3. ModeInv(o)'
      BY <1>1, <1>3, <1>10 DEF ModeInv, CheckAttestedAgain, Leave, Goto
    <2> QED
      BY <2>1, <2>2, <2>3
  <1>11. CASE RenewLatest(o)
    <2>1. UnattestedInv(o)'
      BY <1>1, <1>3, <1>11 DEF UnattestedInv, Evaluating, RenewLatest, Leave, Goto
    <2>2. ClearInv(o)'
      BY <1>1, <1>3, <1>11 DEF ClearInv, RenewLatest, Leave, Goto
    <2>3. ModeInv(o)'
      BY <1>1, <1>3, <1>11 DEF ModeInv, RenewLatest, Leave, Goto
    <2> QED
      BY <2>1, <2>2, <2>3
  <1>12. CASE AssertOnEntry(o)
    <2>1. UnattestedInv(o)'
      BY <1>1, <1>3, <1>12 DEF UnattestedInv, Evaluating, AssertOnEntry, AssertCurrent, Leave, Goto
    <2>2. ClearInv(o)'
      BY <1>1, <1>3, <1>12 DEF ClearInv, AssertOnEntry, AssertCurrent, Leave, Goto
    <2>3. ModeInv(o)'
      BY <1>1, <1>3, <1>12 DEF ModeInv, AssertOnEntry, AssertCurrent, Leave, Goto
    <2> QED
      BY <2>1, <2>2, <2>3
  <1>13. CASE CheckExistingEval(o)
    <2>1. UnattestedInv(o)'
      BY <1>1, <1>3, <1>13 DEF UnattestedInv, Evaluating, CheckExistingEval, ExistingOr, Load, Leave, Goto
    <2>2. ClearInv(o)'
      BY <1>1, <1>3, <1>13 DEF ClearInv, CheckExistingEval, ExistingOr, Load, Leave, Goto
    <2>3. ModeInv(o)'
      BY <1>1, <1>3, <1>13 DEF ModeInv, CheckExistingEval, ExistingOr, Load, Leave, Goto
    <2> QED
      BY <2>1, <2>2, <2>3
  <1>14. CASE Defer(o)
    <2>1. UnattestedInv(o)'
      BY <1>1, <1>3, <1>14 DEF UnattestedInv, Evaluating, Defer, Leave, Goto
    <2>2. ClearInv(o)'
      BY <1>1, <1>3, <1>14 DEF ClearInv, Defer, Leave, Goto
    <2>3. ModeInv(o)'
      BY <1>1, <1>3, <1>14 DEF ModeInv, Defer, Leave, Goto
    <2> QED
      BY <2>1, <2>2, <2>3
  <1>15. CASE AssertBeforeRows(o)
    <2>1. UnattestedInv(o)'
      BY <1>1, <1>3, <1>15 DEF UnattestedInv, Evaluating, AssertBeforeRows, AssertCurrent, Leave, Goto
    <2>2. ClearInv(o)'
      BY <1>1, <1>3, <1>15 DEF ClearInv, AssertBeforeRows, AssertCurrent, Leave, Goto
    <2>3. ModeInv(o)'
      BY <1>1, <1>3, <1>15 DEF ModeInv, AssertBeforeRows, AssertCurrent, Leave, Goto
    <2> QED
      BY <2>1, <2>2, <2>3
  <1>16. CASE AssembleRows(o)
    <2>1. UnattestedInv(o)'
      BY <1>1, <1>3, <1>16 DEF UnattestedInv, Evaluating, AssembleRows, FirstRowDecides, Leave, Goto
    <2>2. ClearInv(o)'
      BY <1>1, <1>3, <1>16 DEF ClearInv, AssembleRows, FirstRowDecides, Leave, Goto
    <2>3. ModeInv(o)'
      BY <1>1, <1>3, <1>16 DEF ModeInv, AssembleRows, FirstRowDecides, Leave, Goto
    <2> QED
      BY <2>1, <2>2, <2>3
  <1>17. CASE AssertBeforeEvaluate(o)
    <2>1. UnattestedInv(o)'
      BY <1>1, <1>3, <1>17 DEF UnattestedInv, Evaluating, AssertBeforeEvaluate, AssertCurrent, Leave, Goto
    <2>2. ClearInv(o)'
      BY <1>1, <1>3, <1>17 DEF ClearInv, AssertBeforeEvaluate, AssertCurrent, Leave, Goto
    <2>3. ModeInv(o)'
      BY <1>1, <1>3, <1>17 DEF ModeInv, AssertBeforeEvaluate, AssertCurrent, Leave, Goto
    <2> QED
      BY <2>1, <2>2, <2>3
  <1>18. CASE Evaluate(o)
    <2>1. UnattestedInv(o)'
      BY <1>1, <1>3, <1>18 DEF UnattestedInv, Evaluating, Evaluate, AfterResult, Leave, Goto
    <2>2. ClearInv(o)'
      BY <1>1, <1>3, <1>18 DEF ClearInv, Evaluate, AfterResult, Leave, Goto
    <2>3. ModeInv(o)'
      BY <1>1, <1>3, <1>18 DEF ModeInv, Evaluate, AfterResult, Leave, Goto
    <2> QED
      BY <2>1, <2>2, <2>3
  <1>19. CASE PublishLatest(o)
    <2>1. UnattestedInv(o)'
      BY <1>1, <1>3, <1>19 DEF UnattestedInv, Evaluating, PublishLatest, Leave, Goto
    <2>2. ClearInv(o)'
      BY <1>1, <1>3, <1>19 DEF ClearInv, PublishLatest, Leave, Goto
    <2>3. ModeInv(o)'
      BY <1>1, <1>3, <1>19 DEF ModeInv, PublishLatest, Leave, Goto
    <2> QED
      BY <2>1, <2>2, <2>3
  <1>20. CASE AssertBeforeRejected(o)
    <2>1. UnattestedInv(o)'
      BY <1>1, <1>3, <1>20 DEF UnattestedInv, Evaluating, AssertBeforeRejected, AssertCurrent, Leave, Goto
    <2>2. ClearInv(o)'
      BY <1>1, <1>3, <1>20 DEF ClearInv, AssertBeforeRejected, AssertCurrent, Leave, Goto
    <2>3. ModeInv(o)'
      BY <1>1, <1>3, <1>20 DEF ModeInv, AssertBeforeRejected, AssertCurrent, Leave, Goto
    <2> QED
      BY <2>1, <2>2, <2>3
  <1>21. CASE ClearPlatformIntent(o)
    <2>1. UnattestedInv(o)'
      BY <1>1, <1>3, <1>21 DEF UnattestedInv, Evaluating, ClearPlatformIntent, Goto
    <2>2. ClearInv(o)'
      BY <1>1, <1>3, <1>21 DEF ClearInv, ClearPlatformIntent, Goto
    <2>3. ModeInv(o)'
      BY <1>1, <1>3, <1>21 DEF ModeInv, ClearPlatformIntent, Goto
    <2> QED
      BY <2>1, <2>2, <2>3
  <1>22. CASE Join(o)
    <2>1. UnattestedInv(o)'
      BY <1>1, <1>3, <1>22 DEF UnattestedInv, Evaluating, Join, Goto
    <2>2. ClearInv(o)'
      BY <1>1, <1>3, <1>22 DEF ClearInv, Join, Goto
    <2>3. ModeInv(o)'
      BY <1>1, <1>3, <1>22 DEF ModeInv, Join, Goto
    <2> QED
      BY <2>1, <2>2, <2>3
  <1>23. CASE HeartbeatStop(o)
    <2>1. UnattestedInv(o)'
      BY <1>1, <1>3, <1>23 DEF UnattestedInv, Evaluating, HeartbeatStop
    <2>2. ClearInv(o)'
      BY <1>1, <1>3, <1>23 DEF ClearInv, HeartbeatStop
    <2>3. ModeInv(o)'
      BY <1>1, <1>3, <1>23 DEF ModeInv, HeartbeatStop
    <2> QED
      BY <2>1, <2>2, <2>3
  <1>24. CASE HeartbeatDue(o)
    <2>1. UnattestedInv(o)'
      BY <1>1, <1>3, <1>24 DEF UnattestedInv, Evaluating, HeartbeatDue
    <2>2. ClearInv(o)'
      BY <1>1, <1>3, <1>24 DEF ClearInv, HeartbeatDue
    <2>3. ModeInv(o)'
      BY <1>1, <1>3, <1>24 DEF ModeInv, HeartbeatDue
    <2> QED
      BY <2>1, <2>2, <2>3
  <1>25. CASE HeartbeatLatest(o)
    <2>1. UnattestedInv(o)'
      BY <1>1, <1>3, <1>25 DEF UnattestedInv, Evaluating, HeartbeatLatest
    <2>2. ClearInv(o)'
      BY <1>1, <1>3, <1>25 DEF ClearInv, HeartbeatLatest
    <2>3. ModeInv(o)'
      BY <1>1, <1>3, <1>25 DEF ModeInv, HeartbeatLatest
    <2> QED
      BY <2>1, <2>2, <2>3
  <1>26. CASE Crash(o)
    <2>1. UnattestedInv(o)'
      BY <1>1, <1>3, <1>26 DEF UnattestedInv, Evaluating, Crash, Goto
    <2>2. ClearInv(o)'
      BY <1>1, <1>3, <1>26 DEF ClearInv, Crash, Goto
    <2>3. ModeInv(o)'
      BY <1>1, <1>3, <1>26 DEF ModeInv, Crash, Goto
    <2> QED
      BY <2>1, <2>2, <2>3
  <1> QED
    BY <1>4, <1>5, <1>6, <1>7, <1>8, <1>9, <1>10, <1>11, <1>12, <1>13, <1>14, <1>15, <1>16, <1>17, <1>18, <1>19, <1>20, <1>21, <1>22, <1>23, <1>24, <1>25, <1>26 DEF QuietStep

\* So does the bind of a resolution or of a claim event.
LEMMA BindingCallStep ==
    ASSUME IInv, IInv', NEW o \in Owners, Bind(o) \/ AppendStep(o),
           UnattestedInv(o), ClearInv(o), ModeInv(o)
    PROVE  UnattestedInv(o)' /\ ClearInv(o)' /\ ModeInv(o)'
  <1> USE DEF store, main, beat
  <1>1. /\ TypeOK /\ pc \in [Owners -> PCs] /\ owned \in [Owners -> Nat \cup {None}]
        /\ mode \in [Owners -> Modes \cup {None}] /\ None \notin Nat /\ None \notin Resolution
        /\ resolution \in Resolution \cup {None}
    BY ConstantsAssumption DEF IInv, TypeOK
  <1>2. OwnEvent(o)
    BY StreamStep DEF Step, Resolve, Heartbeat, AppendStep
  <1>3. CASE Bind(o)
    <2>1. pc[o] \in {"bind", "adopt"} /\ pc'[o] \in {"clear", "leave"} /\ mode' = mode
      BY <1>1, <1>3 DEF Bind, Leave, Goto
    <2>2. pc'[o] = "clear" => resolution' # None
      <3>1. FateInv(o)' /\ (pc'[o] = "clear" => fate'[o] = "returned")
        BY <1>1, <1>3 DEF IInv, LocalInv, TypeOK, Bind, Leave, Goto
      <3> QED
        BY <3>1 DEF FateInv
    <2> QED
      BY <1>1, <2>1, <2>2 DEF UnattestedInv, Evaluating, ClearInv, ModeInv
  <1>4. CASE ClaimAppend(o)
    <2>1. pc[o] = "claimbind" /\ pc'[o] \in {"claimbind", "reexisting", "claimkey"} /\ mode' = mode
      BY <1>1, <1>4 DEF ClaimAppend, Goto
    <2>2. ~(Terminal' /\ Latest'.owner = o)
      BY <1>1, <1>2, <2>1, StillUnattested DEF UnattestedInv
    <2>3. pc'[o] \in {"claimbind", "claimkey"} => owned'[o] = None
      BY <1>1, <1>4, <2>1 DEF UnattestedInv, ClaimAppend, Goto
    <2> QED
      BY <2>1, <2>2, <2>3 DEF UnattestedInv, ClearInv, ModeInv
  <1>5. CASE RenewAppend(o)
    <2>1. pc[o] = "renewbind" /\ pc'[o] \in {"current", "leave"} /\ mode' = mode /\ owned' = owned
      BY <1>1, <1>5 DEF RenewAppend, Leave, Goto
    <2>2. owned[o] # None => ~(Terminal' /\ Latest'.owner = o)
      BY <1>1, <1>2, <2>1, StillUnattested DEF UnattestedInv, Evaluating
    <2> QED
      BY <2>1, <2>2 DEF UnattestedInv, ClearInv, ModeInv
  <1>6. CASE PublishAppend(o)
    <2>1. pc[o] = "publishbind" /\ pc'[o] \in {"bind", "publish", "leave"} /\ mode' = mode
      BY <1>1, <1>6 DEF PublishAppend, Leave, Goto
    <2> QED
      BY <2>1 DEF UnattestedInv, Evaluating, ClearInv, ModeInv
  <1>7. CASE HeartbeatAppend(o)
    <2>1. UNCHANGED <<pc, owned, mode, resolution>>
      BY <1>7 DEF HeartbeatAppend
    <2>2. UnattestedInv(o)'
      <3>1. CASE pc[o] = "claimbind" \/ (pc[o] \in Evaluating /\ owned[o] # None)
        <4>1. pc[o] # "publishbind" /\ ~(Terminal /\ Latest.owner = o)
          BY <3>1 DEF UnattestedInv, Evaluating
        <4> QED
          BY <1>1, <1>2, <2>1, <4>1, StillUnattested DEF UnattestedInv
      <3> QED
        BY <2>1, <3>1 DEF UnattestedInv
    <2> QED
      BY <2>1, <2>2 DEF ClearInv, ModeInv
  <1> QED
    BY <1>3, <1>4, <1>5, <1>6, <1>7 DEF AppendStep

\* A step of one owner keeps the invariants of every call.
LEMMA CallStep ==
    ASSUME IInv, IInv', Grow, CallInv, NEW o \in Owners, Step(o)
    PROVE  CallInv'
  <1>1. UnattestedInv(o)' /\ ClearInv(o)' /\ ModeInv(o)'
    <2>1. QuietStep(o) \/ Bind(o) \/ AppendStep(o)
      BY DEF Step, Resolve, Heartbeat, QuietStep, AppendStep
    <2>2. UnattestedInv(o) /\ ClearInv(o) /\ ModeInv(o)
      BY DEF CallInv
    <2> QED
      BY <2>1, <2>2, QuietCallStep, BindingCallStep
  <1>2. Others(o) /\ KeepsModes(o) /\ OwnEvent(o) /\ TypeOK
    BY FrameStep, ModeStep, StreamStep DEF IInv
  <1>3. ASSUME NEW p \in Owners, p # o PROVE UnattestedInv(p)' /\ ClearInv(p)' /\ ModeInv(p)'
    <2>1. /\ UnattestedInv(p) /\ ClearInv(p) /\ ModeInv(p)
          /\ pc'[p] = pc[p] /\ owned'[p] = owned[p] /\ mode'[p] = mode[p]
      BY <1>2, <1>3 DEF CallInv, Others, KeepsModes
    <2>2. resolution # None => resolution' # None
      BY <1>2, ConstantsAssumption DEF Grow, TypeOK
    <2>3. ~(Terminal /\ Latest.owner = p) => ~(Terminal' /\ Latest'.owner = p)
      BY <1>2, <1>3, StillUnattested
    <2> QED
      BY <2>1, <2>2, <2>3 DEF UnattestedInv, ClearInv, ModeInv
  <1> QED
    BY <1>1, <1>3 DEF CallInv

\* Every step keeps the invariants of the calls.
LEMMA CallNext ==
    ASSUME IInv, CallInv, [Next]_vars
    PROVE  IInv' /\ CallInv'
  <1>1. IInv' /\ Grow
    BY NextInv
  <1>2. ASSUME NEW o \in Owners, Step(o) PROVE CallInv'
    BY <1>1, <1>2, CallStep
  <1>3. CASE Expire \/ UNCHANGED vars
    <2>1. UNCHANGED <<stream, resolution, pc, owned, mode>>
      BY <1>3 DEF Expire, vars, store, main
    <2>2. Terminal' = Terminal /\ Latest' = Latest
      BY <2>1 DEF Terminal, Latest
    <2>3. ASSUME NEW p \in Owners PROVE UnattestedInv(p)' /\ ClearInv(p)' /\ ModeInv(p)'
      <3>1. UnattestedInv(p) /\ ClearInv(p) /\ ModeInv(p)
        BY DEF CallInv
      <3> QED
        BY <2>1, <2>2, <3>1 DEF UnattestedInv, ClearInv, ModeInv
    <2> QED
      BY <1>1, <2>3 DEF CallInv
  <1> QED
    BY <1>1, <1>2, <1>3 DEF Next, Step, Quiescent

\* The invariants of the calls hold in every reachable state.
LEMMA CallInvariance == Spec => [](IInv /\ CallInv)
  <1>1. Init => IInv /\ CallInv
    <2>1. ASSUME Init, NEW o \in Owners PROVE UnattestedInv(o) /\ ClearInv(o) /\ ModeInv(o)
      <3>1. pc[o] = "idle"
        BY <2>1 DEF Init
      <3> QED
        BY <3>1 DEF UnattestedInv, Evaluating, ClearInv, ModeInv
    <2> QED
      BY <2>1, InitInv DEF CallInv
  <1> QED
    BY <1>1, CallNext, PTL DEF Spec

\* An evaluation begins with the check of the lease.
LEMMA OnlyAssertEvaluates ==
    ASSUME pc \in [Owners -> PCs], NEW o \in Owners, Step(o), pc[o] = "currenteval", pc'[o] = "evaluate"
    PROVE  AssertBeforeEvaluate(o)
  <1> USE DEF store, main, beat
  <1>1. ~ \E m \in Modes : Start(o, m)
    BY DEF Start
  <1>2. ~CheckExisting(o) /\ ~CheckExistingAgain(o) /\ ~CheckExistingEval(o)
    BY DEF CheckExisting, CheckExistingAgain, CheckExistingEval, ExistingOr
  <1>3. ~CheckAttested(o) /\ ~ClaimCheckKey(o) /\ ~ClaimLatest(o) /\ ~CheckAttestedAgain(o)
    BY DEF CheckAttested, ClaimCheckKey, ClaimLatest, CheckAttestedAgain
  <1>4. ~AssertOnEntry(o) /\ ~AssertBeforeRows(o) /\ ~AssertBeforeRejected(o)
    BY DEF AssertOnEntry, AssertBeforeRows, AssertBeforeRejected, AssertCurrent
  <1>5. ~RenewLatest(o) /\ ~Defer(o) /\ ~AssembleRows(o) /\ ~Evaluate(o) /\ ~PublishLatest(o)
    BY DEF RenewLatest, Defer, AssembleRows, Evaluate, PublishLatest
  <1>6. ~ClaimAppend(o) /\ ~RenewAppend(o) /\ ~PublishAppend(o) /\ ~HeartbeatAppend(o)
    BY DEF ClaimAppend, RenewAppend, PublishAppend, HeartbeatAppend
  <1>7. ~Bind(o) /\ ~Join(o) /\ ~Crash(o) /\ ~ClearPlatformIntent(o)
    BY DEF Bind, Join, Crash, ClearPlatformIntent, Goto
  <1>8. ~HeartbeatStop(o) /\ ~HeartbeatDue(o) /\ ~HeartbeatLatest(o)
    BY DEF HeartbeatStop, HeartbeatDue, HeartbeatLatest
  <1> QED
    BY <1>1, <1>2, <1>3, <1>4, <1>5, <1>6, <1>7, <1>8 DEF Step, Resolve, Heartbeat

---------------------------------------------------------------------------
(* What follows from them                                                  *)

\* No evaluation is paid for once a result is attested, although the lease of the owner
\* that evaluates may be taken over and its result attested by another at any moment
\* (_assert_generation_current before engine.evaluate).
THEOREM NoEvaluationIsWasted == Spec => NoEvaluationAfterAttestation
  <1>1. ASSUME IInv, CallInv, [Next]_vars
        PROVE  [\A o \in Owners : pc[o] = "currenteval" /\ pc'[o] = "evaluate" => ~Terminal]_vars
    <2> SUFFICES ASSUME Next, NEW o \in Owners, pc[o] = "currenteval", pc'[o] = "evaluate", Terminal
                 PROVE  FALSE
      BY <1>1
    <2>1. PICK p \in Owners : Step(p)
      BY DEF Next, Step, Expire, Quiescent, vars
    <2>2. p = o
      BY <1>1, <2>1, FrameStep DEF IInv, Others
    <2>3. Current(o)
      <3>1. pc \in [Owners -> PCs]
        BY <1>1 DEF IInv, TypeOK
      <3>2. AssertBeforeEvaluate(o)
        BY <2>1, <2>2, <3>1, OnlyAssertEvaluates
      <3> QED
        BY <3>1, <3>2 DEF AssertBeforeEvaluate, AssertCurrent, Leave, Goto
    <2>4. Latest.owner = o /\ owned[o] # None
      BY <1>1, <2>3, LatestType, ConstantsAssumption DEF Current, IInv, TypeOK, Claim
    <2> QED
      BY <1>1, <2>4 DEF CallInv, UnattestedInv, Evaluating
  <1> QED
    BY <1>1, CallInvariance, PTL DEF Spec, NoEvaluationAfterAttestation

\* The marker of a deferred intent outlives every crash of its fan-in: it is removed only
\* once the intent is resolved (_clear_platform_intent after _bind_if_owned).
THEOREM DeferralsAreKept == Spec => DeferredIntentSurvives
  <1>1. ASSUME IInv, CallInv, [Next]_vars
        PROVE  [pending /\ ~pending' => resolution # None]_vars
    <2> SUFFICES ASSUME Next, pending, ~pending' PROVE resolution # None
      BY <1>1
    <2>1. PICK o \in Owners : Step(o)
      BY DEF Next, Step, Expire, Quiescent, vars, store
    <2>2. pc[o] = "clear"
      BY <1>1, <2>1, PendingStep
    <2> QED
      BY <1>1, <2>2 DEF CallInv, ClearInv
  <1> QED
    BY <1>1, CallInvariance, PTL DEF Spec, DeferredIntentSurvives

---------------------------------------------------------------------------
(* Failed rows                                                             *)

\* The rows of an intent are what its stages made of them.
LEMMA RowsType ==
    ASSUME IInv
    PROVE  \A i \in 1..Len(rows) : rows[i].kind \in {"ok", "failed", "rejected"}
  <1>1. rows \in Seq(Row)
    BY ConstantsAssumption DEF IInv, TypeOK
  <1>2. \A i \in 1..Len(rows) : rows[i] \in Row
    BY <1>1
  <1> QED
    BY <1>2 DEF Row

\* A call that is not inline holds a success only when every row is one: it adopted it,
\* or it assembled it after it found no other row.
LEMMA QuietRowsStep ==
    ASSUME IInv, CallInv, RowsInv, NeverInline, NEW o \in Owners, QuietStep(o)
    PROVE  Success(res'[o]) \/ pc'[o] \in {"currenteval", "evaluate"} => AllRowsOk
  <1> USE DEF store, main, beat
  <1> DEFINE Goal == Success(res'[o]) \/ pc'[o] \in {"currenteval", "evaluate"} => AllRowsOk
  <1>1. /\ pc \in [Owners -> PCs] /\ res \in [Owners -> Resolution \cup {None}]
    BY DEF IInv, TypeOK
  <1>2. /\ Success(res[o]) => AllRowsOk
        /\ pc[o] \in {"currenteval", "evaluate"} => AllRowsOk
        /\ Success(Attested) => AllRowsOk
    BY DEF RowsInv
  <1>3. ~Success(None)
    BY DEF Success
  <1>4. ASSUME NEW m \in Modes, Start(o, m) PROVE Goal
    BY <1>1, <1>2, <1>3, <1>4 DEF Start, Goto
  <1>5. CASE CheckExisting(o)
    BY <1>1, <1>2, <1>3, <1>5 DEF CheckExisting, ExistingOr, Load, Leave, Goto
  <1>6. CASE CheckAttested(o)
    BY <1>1, <1>2, <1>3, <1>6 DEF CheckAttested, Goto
  <1>7. CASE ClaimCheckKey(o)
    BY <1>1, <1>2, <1>3, <1>7 DEF ClaimCheckKey, Goto
  <1>8. CASE ClaimLatest(o)
    BY <1>1, <1>2, <1>3, <1>8 DEF ClaimLatest, Goto
  <1>9. CASE CheckExistingAgain(o)
    BY <1>1, <1>2, <1>3, <1>9 DEF CheckExistingAgain, ExistingOr, Load, Leave, Goto
  <1>10. CASE CheckAttestedAgain(o)
    BY <1>1, <1>2, <1>3, <1>10 DEF CheckAttestedAgain, Leave, Goto
  <1>11. CASE RenewLatest(o)
    BY <1>1, <1>2, <1>3, <1>11 DEF RenewLatest, Leave, Goto
  <1>12. CASE AssertOnEntry(o)
    BY <1>1, <1>2, <1>3, <1>12 DEF AssertOnEntry, AssertCurrent, Leave, Goto
  <1>13. CASE CheckExistingEval(o)
    <2>1. pc[o] = "evalkey" /\ res' = res
      BY <1>13 DEF CheckExistingEval, ExistingOr
    <2>2. mode[o] = "platform"
      BY <2>1, ConstantsAssumption DEF CallInv, ModeInv, NeverInline
    <2>3. pc'[o] \in {"leave", "defer"}
      BY <1>1, <1>13, <2>2 DEF CheckExistingEval, ExistingOr, Load, Leave, Goto
    <2> QED
      BY <1>2, <2>1, <2>3
  <1>14. CASE Defer(o)
    BY <1>1, <1>2, <1>3, <1>14 DEF Defer, Leave, Goto
  <1>15. CASE AssertBeforeRows(o)
    BY <1>1, <1>2, <1>3, <1>15 DEF AssertBeforeRows, AssertCurrent, Leave, Goto
  <1>16. CASE AssembleRows(o)
    <2>1. ASSUME NEW k \in {"failed", "rejected"}, FirstRowDecides(o, k) PROVE ~Success(res'[o])
      BY <1>1, <2>1 DEF FirstRowDecides, Success
    <2>2. RowsOf("rejected") = {} /\ RowsOf("failed") = {} => AllRowsOk
      BY RowsType DEF RowsOf, AllRowsOk
    <2>3. \/ pc'[o] \in {"currentrejected", "publish"} /\ ~Success(res'[o])
          \/ AllRowsOk
          \/ pc'[o] = "leave" /\ res' = res
      BY <1>1, <1>16, <2>1, <2>2 DEF AssembleRows, Leave, Goto
    <2> QED
      BY <1>2, <2>3
  <1>17. CASE AssertBeforeEvaluate(o)
    BY <1>1, <1>2, <1>3, <1>17 DEF AssertBeforeEvaluate, AssertCurrent, Leave, Goto
  <1>18. CASE Evaluate(o)
    BY <1>1, <1>2, <1>3, <1>18 DEF Evaluate, AfterResult, Leave, Goto
  <1>19. CASE PublishLatest(o)
    BY <1>1, <1>2, <1>3, <1>19 DEF PublishLatest, Leave, Goto
  <1>20. CASE AssertBeforeRejected(o)
    BY <1>1, <1>2, <1>3, <1>20 DEF AssertBeforeRejected, AssertCurrent, Leave, Goto
  <1>21. CASE ClearPlatformIntent(o)
    BY <1>1, <1>2, <1>3, <1>21 DEF ClearPlatformIntent, Goto
  <1>22. CASE Join(o)
    BY <1>1, <1>2, <1>3, <1>22 DEF Join, Goto
  <1>23. CASE HeartbeatStop(o)
    BY <1>1, <1>2, <1>3, <1>23 DEF HeartbeatStop
  <1>24. CASE HeartbeatDue(o)
    BY <1>1, <1>2, <1>3, <1>24 DEF HeartbeatDue
  <1>25. CASE HeartbeatLatest(o)
    BY <1>1, <1>2, <1>3, <1>25 DEF HeartbeatLatest
  <1>26. CASE Crash(o)
    BY <1>1, <1>2, <1>3, <1>26 DEF Crash, Goto
  <1> QED
    BY <1>4, <1>5, <1>6, <1>7, <1>8, <1>9, <1>10, <1>11, <1>12, <1>13, <1>14, <1>15, <1>16, <1>17, <1>18, <1>19, <1>20, <1>21, <1>22, <1>23, <1>24, <1>25, <1>26 DEF QuietStep

\* Every step keeps successes honest as long as no call is inline.
LEMMA RowsStep ==
    ASSUME IInv, CallInv, RowsInv, NeverInline, [Next]_vars
    PROVE  RowsInv'
  <1>1. ASSUME NEW o \in Owners, Step(o) PROVE RowsInv'
    <2>1. Others(o) /\ KeepsModes(o) /\ OwnEvent(o) /\ TypeOK
      BY <1>1, FrameStep, ModeStep, StreamStep DEF IInv
    <2>2. AllRowsOk' = AllRowsOk
      BY <2>1 DEF KeepsModes, AllRowsOk
    <2>3. Success(res[o]) => AllRowsOk
      BY DEF RowsInv
    <2>4. Success(Attested') => AllRowsOk
      <3>1. CASE stream' = stream
        BY <3>1 DEF RowsInv, Attested, Terminal, Latest
      <3>2. ASSUME NEW c \in Claim, stream' = Append(stream, c), c.att # None => c.att = res[o]
            PROVE  Success(Attested') => AllRowsOk
        <4>1. Latest' = c
          BY <2>1, <3>2 DEF Latest, TypeOK
        <4> QED
          BY <2>3, <3>2, <4>1 DEF Attested, Terminal, Success
      <3> QED
        BY <2>1, <3>1, <3>2 DEF OwnEvent
    <2>5. /\ Success(res'[o]) \/ pc'[o] \in {"currenteval", "evaluate"} => AllRowsOk
          /\ resolution' \in {resolution, res[o]}
      <3>1. CASE QuietStep(o)
        BY <3>1, QuietRowsStep, QuietLocalStep DEF Quiet
      <3>2. CASE Bind(o)
        <4>1. /\ pc'[o] \in {"clear", "leave"} /\ res' = res
              /\ resolution' \in {resolution, res[o]}
          BY <3>2, <2>1 DEF Bind, BindWinner, Leave, Goto, TypeOK
        <4> QED
          BY <2>3, <4>1
      <3>3. CASE AppendStep(o)
        <4>1. res' = res /\ resolution' = resolution
          BY <3>3 DEF AppendStep, ClaimAppend, RenewAppend, PublishAppend, HeartbeatAppend, main
        <4>2. pc'[o] \in {"currenteval", "evaluate"} => pc[o] = pc'[o]
          BY <2>1, <3>3 DEF AppendStep, ClaimAppend, RenewAppend, PublishAppend, HeartbeatAppend, Leave,
                            Goto, TypeOK
        <4> QED
          BY <4>1, <4>2 DEF RowsInv
      <3> QED
        BY <1>1, <3>1, <3>2, <3>3 DEF Step, Resolve, Heartbeat, QuietStep, AppendStep
    <2>6. ASSUME NEW p \in Owners, p # o
          PROVE  Success(res'[p]) \/ pc'[p] \in {"currenteval", "evaluate"} => AllRowsOk
      BY <2>1, <2>6 DEF Others, RowsInv
    <2>7. Success(resolution') => AllRowsOk
      BY <2>3, <2>5 DEF RowsInv
    <2> QED
      BY <2>2, <2>4, <2>5, <2>6, <2>7 DEF RowsInv, Success
  <1>2. CASE Expire \/ UNCHANGED vars
    <2>1. UNCHANGED <<stream, resolution, pc, res, rows>>
      BY <1>2 DEF Expire, vars, store, main
    <2>2. Attested' = Attested /\ AllRowsOk' = AllRowsOk
      BY <2>1 DEF Attested, Terminal, Latest, AllRowsOk
    <2> QED
      BY <2>1, <2>2 DEF RowsInv, Success
  <1> QED
    BY <1>1, <1>2 DEF Next, Step, Quiescent

\* When every call defers or is a fan-in, no success is bound over a row that failed or was
\* rejected: neither an assembly nor an adopted attestation masks one, whatever services
\* crash in between (_assemble_and_bind_outcomes).
THEOREM FailuresAreNotMasked == Spec => RowFailureNotMasked
  <1>1. Init => RowsInv
    <2>1. ASSUME Init PROVE ~Terminal /\ resolution = None /\ \A o \in Owners : res[o] = None /\ pc[o] = "idle"
      BY <2>1 DEF Init, Terminal
    <2> QED
      BY <2>1 DEF RowsInv, Attested, Success
  <1>2. RowsInv => SuccessIsOfAllRows
    BY DEF RowsInv, SuccessIsOfAllRows, Success, AllRowsOk
  <1> QED
    BY <1>1, <1>2, RowsStep, CallInvariance, PTL DEF Spec, RowFailureNotMasked
=============================================================================
