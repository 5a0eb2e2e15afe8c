------------------------- MODULE CallExecutionProofs -------------------------
(***************************************************************************)
(* Safety of the prompt cache's accounting, of payment and of the partial  *)
(* log for every set of workers, keys and outcomes and every number of     *)
(* operations, crashes and damaged entries.                                *)
(***************************************************************************)
EXTENDS CallExecution, FiniteSetTheorems, TLAPS

-----------------------------------------------------------------------------
(* The inductive invariant.                                                *)

FinPCs == {"finLock", "finRead", "finWrite", "rename"}
CleanPCs == {"cleanLock", "cleanRead", "cleanWrite", "unlink"}
HitPCs == {"hitLock", "hitRead", "hitWrite"}
AccountPCs == FinPCs \cup CleanPCs

\* Under a key's lock
KeyPCs == {"reconcile", "read", "attempt", "pend", "store", "release"}
              \cup AccountPCs \cup HitPCs

\* Under the stats lock, and about to write what was computed from what was read
WritePCs == {"finWrite", "cleanWrite", "hitWrite"}
StatsPCs == {"finRead", "cleanRead", "hitRead"} \cup WritePCs

\* Under the log's lock
HeldAppendPCs == {"logPrior", "logReplace", "logCheck", "logRestore", "logRelease"}
AppendPCs == HeldAppendPCs \cup {"logLock"}
LogPCs == HeldAppendPCs \cup {"delete"}

\* What a worker knows of its own operation.
WorkInv(w) ==
    LET r == work[w]
        resumes == r.pc \in AccountPCs /\ r.resume = "release"
    IN  /\ r.pc \in KeyPCs \cup AppendPCs \cup {"lock"} => r.key \in Keys
        /\ r.pc = "read" => r.op # "counters"
        /\ r.pc \in {"attempt"} \cup HitPCs \cup AppendPCs => r.op = "call"
        /\ r.pc \in KeyPCs \cup {"lock"} => r.op \in {"call", "put", "get", "counters"}
        /\ r.pc \in {"list", "total"} => r.op = "counters"
        /\ r.pc \in {"pend", "store"} => r.op \in {"call", "put"} /\ r.result \in Results
        /\ r.op = "put" => r.result \in Results
        /\ r.pc \in {"store"} \cup AccountPCs =>
               /\ r.journal \in Journal
               /\ r.resume \in {"read", "release"}
               /\ r.resume = "read" => r.op # "counters"
        /\ r.pc = "store" => r.pub = r.journal.pub /\ r.resume = "release"
        /\ r.op = "call" /\ (resumes \/ r.pc \in {"store", "release"} \cup HitPCs \cup AppendPCs) =>
               r.pub \in PubIds

\* The locks a worker holds, and that stats.json has not changed since it read it.
LockInv(w) ==
    LET r == work[w]
    IN  /\ r.pc \in KeyPCs => keyLock[r.key] = w
        /\ r.pc \in StatsPCs => statsLock = w
        /\ r.pc \in LogPCs => logLock = w
        /\ r.pc \in WritePCs => r.seen = stats

\* The files of the key a worker has locked.
KeyInv(w) ==
    LET r == work[w]
        k == r.key
    IN  /\ r.pc \in {"read", "attempt", "pend"} => pending[k] = None /\ applied[k] = None
        /\ r.pc \in {"attempt", "pend"} => entry[k] = None
        /\ r.pc = "store" => pending[k] = r.journal /\ entry[k] = None
        /\ r.pc \in FinPCs => pending[k] = r.journal /\ entry[k] # None
        /\ r.pc = "rename" => r.journal.pub \in stats.inflight
        /\ r.pc \in CleanPCs => applied[k] = r.journal
        /\ r.pc = "unlink" => r.journal.pub \notin stats.inflight

\* The partial log, for the worker that has locked it.
LogInv(w) ==
    LET r == work[w]
    IN  /\ r.pc = "logReplace" => temps > 0
        /\ r.pc \in {"logReplace", "logCheck", "logRestore"} /\ r.key \in returned =>
               r.prior # None
        /\ r.pc \in {"logCheck", "logRelease"} => log[r.key] # None

Own(w) == WorkInv(w) /\ LockInv(w) /\ KeyInv(w) /\ LogInv(w)

\* The publication a journal of a key accounts for
Publication(journal, k) == [pub |-> journal.pub, key |-> k, misses |-> journal.misses]

\* The files of a key.  A journal names a publication that reached the disk, but for a
\* pending one without an entry, whose publication nobody has seen.
FileInv(k) ==
    /\ pending[k] = None \/ applied[k] = None
    /\ pending[k] # None =>
        /\ pending[k].pub <= nextPub
        /\ entry[k] = None =>
            /\ \A p \in published : p.pub # pending[k].pub
            /\ pending[k].pub \notin stats.inflight
        /\ entry[k] # None => Publication(pending[k], k) \in published
        /\ entry[k] \notin {None, Damaged} => entry[k].pub = pending[k].pub
    /\ applied[k] # None =>
        /\ entry[k] # None
        /\ Publication(applied[k], k) \in published
        /\ entry[k] # Damaged => entry[k].pub = applied[k].pub

\* Publication ids are not handed out twice.
IdInv ==
    /\ \A p \in published : p.pub <= nextPub
    /\ \A p, q \in published : p.pub = q.pub => p = q
    /\ \A k, l \in Keys :
        pending[k] # None /\ pending[l] # None /\ pending[k].pub = pending[l].pub => k = l

\* What is in flight has a journal.
InflightInv ==
    \A p \in stats.inflight : \E k \in Keys :
        \/ pending[k] # None /\ pending[k].pub = p
        \/ applied[k] # None /\ applied[k].pub = p

CountInv == IsFiniteSet(published) /\ CountersExact

\* A worker holds an answer it paid for and has not published.
InHand(w, k) == work[w].pc \in {"pend", "store"} /\ work[w].op = "call" /\ work[w].key = k

\* Every answer paid for is in the cache, in a worker's hands, or lost.
PayInv(k) ==
    /\ paid[k] <= 1 + lost[k]
    /\ entry[k] \in {None, Damaged} /\ (\A w \in Workers : ~InHand(w, k)) => paid[k] <= lost[k]

IInv ==
    /\ TypeOK
    /\ \A w \in Workers : Own(w)
    /\ \A k \in Keys : FileInv(k)
    /\ IdInv
    /\ InflightInv
    /\ CountInv
    /\ \A k \in Keys : PayInv(k)
    /\ LogKeepsReturned

-----------------------------------------------------------------------------
(* Moves of a worker.                                                      *)

\* The operations of the workers after a step in which w comes to r
Moved(w, r) ==
    /\ r \in Work
    /\ work' \in [Workers -> Work]
    /\ work'[w] = r
    /\ \A v \in Workers \ {w} : work'[v] = work[v]

\* The record of a worker between operations is a record of work.
LEMMA IdleType == Idle \in Work
  BY CallAssumption DEF Work, Idle, PCs

\* An assignment to the record of one worker moves that worker alone.
LEMMA Moving ==
    ASSUME work \in [Workers -> Work], NEW w \in Workers, NEW r \in Work,
           work' = [work EXCEPT ![w] = r]
    PROVE  Moved(w, r)
  BY DEF Moved

\* So does an assignment to its program counter.
LEMMA GotoMoves ==
    ASSUME work \in [Workers -> Work], NEW w \in Workers, NEW pc \in PCs, Goto(w, pc)
    PROVE  Moved(w, [work[w] EXCEPT !.pc = pc])
  <1>1. [work[w] EXCEPT !.pc = pc] \in Work
    BY DEF Work
  <1>2. work' = [work EXCEPT ![w] = [work[w] EXCEPT !.pc = pc]]
    BY DEF Goto
  <1> QED
    BY <1>1, <1>2, Moving

\* What a raise does to the locks and to the worker.
LEMMA RaiseMoves ==
    ASSUME TypeOK, NEW w \in Workers, Raise(w)
    PROVE  /\ Moved(w, Idle)
           /\ keyLock' \in [Keys -> Workers \cup {None}]
           /\ statsLock' \in Workers \cup {None}
           /\ logLock' \in Workers \cup {None}
           /\ \A v \in Workers \ {w} :
                /\ \A k \in Keys : keyLock[k] = v => keyLock'[k] = v
                /\ statsLock = v => statsLock' = v
                /\ logLock = v => logLock' = v
  <1>1. Moved(w, Idle)
    BY IdleType, Moving DEF Raise, TypeOK
  <1> QED
    BY <1>1 DEF Raise, Unlock, TypeOK

\* A worker that has come back owes nothing.
LEMMA IdleOwn ==
    ASSUME NEW w \in Workers, work'[w] = Idle
    PROVE  Own(w)'
  BY CallAssumption
     DEF Ops, Own, WorkInv, LockInv, KeyInv, LogInv, Idle, KeyPCs, AccountPCs, FinPCs, CleanPCs, HitPCs,
         AppendPCs, HeldAppendPCs, StatsPCs, WritePCs, LogPCs

-----------------------------------------------------------------------------
(* What a step leaves to the others.                                       *)

\* The worker v may rely on: its operation, its locks and what they protect.
Rely(v) ==
    /\ work'[v] = work[v]
    /\ \A k \in Keys : keyLock[k] = v =>
        /\ keyLock'[k] = v
        /\ pending'[k] = pending[k]
        /\ applied'[k] = applied[k]
        /\ entry'[k] = None <=> entry[k] = None
        /\ pending[k] # None => (pending[k].pub \in stats'.inflight <=> pending[k].pub \in stats.inflight)
        /\ applied[k] # None => (applied[k].pub \in stats'.inflight <=> applied[k].pub \in stats.inflight)
    /\ statsLock = v => statsLock' = v /\ stats' = stats
    /\ logLock = v => logLock' = v /\ UNCHANGED <<log, temps, returned>>

\* A worker whose locks and what they protect are left alone keeps its invariant.
LEMMA RelyKeeps ==
    ASSUME NEW v \in Workers, Own(v), Rely(v)
    PROVE  Own(v)'
  <1> USE DEF KeyPCs, AccountPCs, FinPCs, CleanPCs, HitPCs, AppendPCs, HeldAppendPCs, StatsPCs,
              WritePCs, LogPCs
  <1>1. WorkInv(v)'
    BY DEF Own, Rely, WorkInv
  <1>2. LockInv(v)'
    BY DEF Own, Rely, WorkInv, LockInv
  <1>3. KeyInv(v)'
    BY CallAssumption DEF Own, Rely, WorkInv, LockInv, KeyInv
  <1>4. LogInv(v)'
    BY DEF Own, Rely, LockInv, LogInv
  <1> QED
    BY <1>1, <1>2, <1>3, <1>4 DEF Own

\* The part of the invariant that is about files and history
Globals ==
    /\ \A k \in Keys : FileInv(k)
    /\ IdInv
    /\ InflightInv
    /\ CountInv
    /\ \A k \in Keys : PayInv(k)
    /\ LogKeepsReturned

\* A step of w from its own move, what it leaves to the others, and the files.
LEMMA Assemble ==
    ASSUME IInv, NEW w \in Workers, TypeOK', Own(w)', \A v \in Workers \ {w} : Rely(v), Globals'
    PROVE  IInv'
  <1>1. ASSUME NEW v \in Workers \ {w} PROVE Own(v)'
    BY <1>1, RelyKeeps DEF IInv
  <1> QED
    BY <1>1 DEF IInv, Globals

\* Files and history that do not change keep their invariants.
LEMMA QuietFiles ==
    ASSUME IInv, UNCHANGED <<entry, pending, applied, stats, nextPub, published, served>>
    PROVE  /\ \A k \in Keys : FileInv(k)'
           /\ IdInv'
           /\ InflightInv'
           /\ CountInv'
  <1>1. \A k \in Keys : FileInv(k)'
    BY DEF IInv, FileInv
  <1>2. IdInv'
    BY DEF IInv, IdInv
  <1>3. InflightInv'
    BY DEF IInv, InflightInv
  <1>4. CountInv'
    BY DEF IInv, CountInv, CountersExact, Uncounted
  <1> QED
    BY <1>1, <1>2, <1>3, <1>4

\* Payment is untouched by a step in which no worker parts with an answer.
LEMMA QuietPay ==
    ASSUME IInv, UNCHANGED <<paid, lost>>,
           \A k \in Keys : entry'[k] \in {None, Damaged} => entry[k] \in {None, Damaged},
           \A k \in Keys, v \in Workers : InHand(v, k) => InHand(v, k)'
    PROVE  \A k \in Keys : PayInv(k)'
  BY DEF IInv, PayInv

\* A step that changes only the worker and its locks
Private(w) ==
    /\ UNCHANGED <<files, nextPub, ghosts>>
    /\ \A v \in Workers \ {w} :
        /\ \A k \in Keys : keyLock[k] = v => keyLock'[k] = v
        /\ statsLock = v => statsLock' = v
        /\ logLock = v => logLock' = v

\* A step that changes only the worker and its locks keeps the invariant when the
\* worker's own part holds after it and it parts with no answer.
LEMMA PrivateStep ==
    ASSUME IInv, NEW w \in Workers, NEW r, Moved(w, r), Private(w), TypeOK', Own(w)',
           ~(work[w].pc \in {"pend", "store"} /\ work[w].op = "call")
    PROVE  IInv'
  <1>1. ASSUME NEW v \in Workers \ {w} PROVE Rely(v)
    BY DEF Moved, Private, Rely, files, ghosts
  <1>2. \A k \in Keys : PayInv(k)'
    <2>1. \A k \in Keys, v \in Workers : InHand(v, k) => InHand(v, k)'
      BY DEF Moved, InHand
    <2> QED
      BY <2>1, QuietPay DEF Private, files, ghosts
  <1>3. LogKeepsReturned'
    BY DEF IInv, LogKeepsReturned, Private, files, ghosts
  <1>4. Globals'
    BY <1>2, <1>3, QuietFiles DEF Globals, Private, files, ghosts
  <1> QED
    BY <1>1, <1>4, Assemble

-----------------------------------------------------------------------------
(* Steps that change only the worker and its locks.                        *)

\* A worker takes the lock of its key.
LEMMA LockInvariant ==
    ASSUME IInv, NEW w \in Workers, Lock(w)
    PROVE  IInv'
  <1> USE DEF KeyPCs, AccountPCs, FinPCs, CleanPCs, HitPCs, AppendPCs, HeldAppendPCs, StatsPCs,
              WritePCs, LogPCs
  <1>1. TypeOK /\ work[w] \in Work /\ work[w].pc = "lock" /\ work[w].key \in Keys
    BY DEF IInv, TypeOK, Own, WorkInv, Lock, At
  <1>2. Moved(w, [work[w] EXCEPT !.pc = "reconcile"])
    BY <1>1, GotoMoves DEF Lock, PCs, TypeOK
  <1>3. TypeOK'
    BY <1>1, <1>2 DEF Lock, TypeOK, Moved, files, bounds, ghosts, Key
  <1>4. Own(w)'
    BY <1>1, <1>2 DEF Lock, Key, Moved, Work, IInv, TypeOK, Own, WorkInv, LockInv, KeyInv, LogInv
  <1>5. Private(w)
    BY <1>1, CallAssumption DEF Lock, Key, Private, bounds, TypeOK
  <1> QED
    BY <1>1, <1>2, <1>3, <1>4, <1>5, PrivateStep

\* The locks are released and the worker comes back, holding no answer.
LEMMA RaiseInvariant ==
    ASSUME IInv, NEW w \in Workers, Raise(w), UNCHANGED <<files, nextPub, ghosts>>,
           ops' \in 0 .. MaxOps, crashes' \in 0 .. MaxCrashes, damage' \in 0 .. MaxDamage,
           ~(work[w].pc \in {"pend", "store"} /\ work[w].op = "call")
    PROVE  IInv'
  <1>1. TypeOK
    BY DEF IInv
  <1>2. TypeOK' /\ Private(w)
    BY <1>1, RaiseMoves DEF TypeOK, Moved, Private, files, ghosts
  <1>3. Own(w)'
    BY <1>1, RaiseMoves, IdleOwn DEF Moved
  <1> QED
    BY <1>1, <1>2, <1>3, RaiseMoves, PrivateStep

\* A worker takes the lock of stats.json.
LEMMA StatsLockInvariant ==
    ASSUME IInv, NEW w \in Workers, NEW here, NEW next, StatsLock(w, here, next),
           <<here, next>> \in {<<"finLock", "finRead">>, <<"cleanLock", "cleanRead">>,
                               <<"hitLock", "hitRead">>}
    PROVE  IInv'
  <1> USE DEF KeyPCs, AccountPCs, FinPCs, CleanPCs, HitPCs, AppendPCs, HeldAppendPCs, StatsPCs,
              WritePCs, LogPCs
  <1>1. TypeOK /\ work[w] \in Work /\ work[w].pc = here /\ Own(w)
    BY DEF IInv, TypeOK, StatsLock, At
  <1>2. Moved(w, [work[w] EXCEPT !.pc = next])
    BY <1>1, GotoMoves DEF StatsLock, PCs, TypeOK
  <1>3. TypeOK'
    BY <1>1, <1>2 DEF StatsLock, TypeOK, Moved, files, bounds, ghosts
  <1>4. Own(w)'
    BY <1>1, <1>2 DEF StatsLock, Moved, Work, Own, WorkInv, LockInv, KeyInv, LogInv, files, ghosts
  <1>5. Private(w)
    BY <1>1, CallAssumption DEF StatsLock, Private, bounds
  <1> QED
    BY <1>1, <1>2, <1>3, <1>4, <1>5, PrivateStep

\* What a worker reads under the stats lock is what stats.json holds.
LEMMA StatsReadInvariant ==
    ASSUME IInv, NEW w \in Workers, NEW here, NEW next, StatsRead(w, here, next),
           <<here, next>> \in {<<"finRead", "finWrite">>, <<"cleanRead", "cleanWrite">>,
                               <<"hitRead", "hitWrite">>}
    PROVE  IInv'
  <1> USE DEF KeyPCs, AccountPCs, FinPCs, CleanPCs, HitPCs, AppendPCs, HeldAppendPCs, StatsPCs,
              WritePCs, LogPCs
  <1> DEFINE r == [work[w] EXCEPT !.pc = next, !.seen = stats]
  <1>1. TypeOK /\ work[w] \in Work /\ work[w].pc = here /\ Own(w)
    BY DEF IInv, TypeOK, StatsRead, At
  <1>2. Moved(w, r)
    <2>1. next \in PCs /\ stats \in Stats
      BY <1>1 DEF PCs, TypeOK
    <2>2. r \in Work
      BY <1>1, <2>1 DEF Work
    <2>3. work' = [work EXCEPT ![w] = r]
      BY <1>1 DEF StatsRead, TypeOK
    <2> QED
      BY <1>1, <2>2, <2>3, Moving DEF TypeOK
  <1>3. TypeOK'
    BY <1>1, <1>2 DEF StatsRead, TypeOK, Moved, files, locks, bounds, ghosts
  <1>4. Own(w)'
    BY <1>1, <1>2 DEF StatsRead, Moved, Work, Own, WorkInv, LockInv, KeyInv, LogInv, files, locks, ghosts
  <1>5. Private(w)
    BY <1>1, CallAssumption DEF StatsRead, Private, locks, bounds
  <1> QED
    BY <1>1, <1>2, <1>3, <1>4, <1>5, PrivateStep

\* The entry of a locked key decides between answering, paying and publishing.
LEMMA ReadEntryInvariant ==
    ASSUME IInv, NEW w \in Workers, ReadEntry(w)
    PROVE  IInv'
  <1> USE DEF KeyPCs, AccountPCs, FinPCs, CleanPCs, HitPCs, AppendPCs, HeldAppendPCs, StatsPCs,
              WritePCs, LogPCs
  <1> DEFINE found == entry[work[w].key]
             hit == [work[w] EXCEPT !.pc = "hitLock", !.hit = TRUE, !.pub = found.pub,
                                    !.result = found.result]
  <1>1. /\ TypeOK /\ work[w] \in Work /\ work[w].pc = "read" /\ Own(w) /\ work[w].key \in Keys
        /\ found \in Entry \cup {None}
    BY DEF IInv, TypeOK, ReadEntry, At, Own, WorkInv, Key
  <1>2. UNCHANGED <<files, locks, bounds, ghosts>>
    BY DEF ReadEntry
  <1>3. PICK r : Moved(w, r) /\ Own(w)'
    <2>1. CASE work[w].op = "get" \/ (work[w].op = "put" /\ found # None)
      <3>0. Goto(w, "release")
        BY <2>1 DEF ReadEntry, Key
      <3>1. Moved(w, [work[w] EXCEPT !.pc = "release"])
        BY <1>1, <3>0, GotoMoves DEF PCs, TypeOK
      <3> QED
        BY <1>1, <1>2, <2>1, <3>1
           DEF Moved, Work, Own, WorkInv, LockInv, KeyInv, LogInv, files, locks, ghosts
    <2>2. CASE work[w].op = "put" /\ found = None
      <3>0. Goto(w, "pend")
        BY <2>2 DEF ReadEntry, Key
      <3>1. Moved(w, [work[w] EXCEPT !.pc = "pend"])
        BY <1>1, <3>0, GotoMoves DEF PCs, TypeOK
      <3>2. work[w].result \in Results
        BY <1>1, <2>2 DEF Own, WorkInv
      <3> QED
        BY <1>1, <1>2, <2>2, <3>1, <3>2
           DEF Moved, Work, Own, WorkInv, LockInv, KeyInv, LogInv, files, locks, ghosts
    <2>3. CASE work[w].op = "call" /\ found = None
      <3>0. Goto(w, "attempt")
        BY <2>3 DEF ReadEntry, Key
      <3>1. Moved(w, [work[w] EXCEPT !.pc = "attempt"])
        BY <1>1, <3>0, GotoMoves DEF PCs, TypeOK
      <3> QED
        BY <1>1, <1>2, <2>3, <3>1
           DEF Moved, Work, Own, WorkInv, LockInv, KeyInv, LogInv, files, locks, ghosts
    <2>4. CASE work[w].op = "call" /\ found # None
      <3>1. found \in Entry /\ found.pub \in PubIds /\ found.result \in Results
        BY <1>1, <2>4 DEF Entry
      <3>2. hit \in Work
        BY <1>1, <3>1 DEF Work, PCs, PubIds
      <3>3. work' = [work EXCEPT ![w] = hit]
        BY <1>1, <2>4 DEF ReadEntry, Key, TypeOK
      <3>4. Moved(w, hit)
        BY <1>1, <3>2, <3>3, Moving DEF TypeOK
      <3>5. work'[w].pc = "hitLock" /\ work'[w].op = "call" /\ work'[w].pub = found.pub
            /\ work'[w].key = work[w].key
        BY <1>1, <2>4, <3>4 DEF Moved, Work, Own, WorkInv
      <3>6. WorkInv(w)' /\ LockInv(w)'
        BY <1>1, <1>2, <3>1, <3>5 DEF Own, WorkInv, LockInv, locks
      <3>7. KeyInv(w)' /\ LogInv(w)'
        BY <3>5 DEF KeyInv, LogInv
      <3> QED
        BY <3>4, <3>6, <3>7 DEF Own
    <2> QED
      BY <1>1, <2>1, <2>2, <2>3, <2>4 DEF Own, WorkInv
  <1>4. TypeOK'
    BY <1>1, <1>2, <1>3 DEF TypeOK, Moved, files, locks, bounds, ghosts
  <1>5. Private(w)
    BY <1>2 DEF Private, locks, bounds
  <1> QED
    BY <1>1, <1>3, <1>4, <1>5, PrivateStep

\* A step that leaves files, locks and history alone
LEMMA PlainStep ==
    ASSUME IInv, NEW w \in Workers, NEW r, Moved(w, r), UNCHANGED <<files, locks, nextPub, ghosts>>,
           ops' \in 0 .. MaxOps, crashes' \in 0 .. MaxCrashes, damage' \in 0 .. MaxDamage,
           ~(work[w].pc \in {"pend", "store"} /\ work[w].op = "call"), Own(w)'
    PROVE  IInv'
  <1>1. TypeOK'
    BY DEF IInv, TypeOK, Moved, files, locks, ghosts
  <1>2. Private(w)
    BY DEF Private, locks
  <1> QED
    BY <1>1, <1>2, PrivateStep

\* An operation on a key begins.
LEMMA BeginInvariant ==
    ASSUME IInv, NEW w \in Workers, NEW op \in {"call", "put", "get"}, NEW k \in Keys, Begin(w, op, k)
    PROVE  IInv'
  <1> DEFINE r == [Idle EXCEPT !.pc = "lock", !.op = op, !.key = k,
                               !.result = IF op = "put" THEN "generation" ELSE None]
  <1>1. TypeOK /\ work[w].pc = "idle"
    BY DEF IInv, Begin, At
  <1>2. r \in Work
    <2>1. "lock" \in PCs /\ op \in Ops /\ "generation" \in Results
      BY DEF PCs, Ops, Results
    <2> QED
      BY <2>1, IdleType DEF Work
  <1>3. Moved(w, r)
    BY <1>1, <1>2, Moving DEF Begin, TypeOK
  <1>4. work'[w].pc = "lock" /\ work'[w].op = op /\ work'[w].key = k
        /\ (op = "put" => work'[w].result \in Results)
    BY <1>3, IdleType DEF Moved, Work, Results
  <1>5. Own(w)'
    BY <1>4 DEF Own, WorkInv, LockInv, KeyInv, LogInv, KeyPCs, AccountPCs, FinPCs, CleanPCs, HitPCs,
                AppendPCs, HeldAppendPCs, StatsPCs, WritePCs, LogPCs
  <1>6. ops' \in 0 .. MaxOps /\ UNCHANGED <<files, locks, nextPub, crashes, damage, ghosts>>
    BY <1>1, CallAssumption DEF Begin, TypeOK
  <1> QED
    BY <1>1, <1>3, <1>5, <1>6, PlainStep DEF TypeOK

\* counters, or the deletion of the log, begins.
LEMMA BeginSweepInvariant ==
    ASSUME IInv, NEW w \in Workers, NEW op \in {"counters", "delete"}, BeginSweep(w, op)
    PROVE  IInv'
  <1> DEFINE r == [Idle EXCEPT !.op = op, !.pc = IF op = "counters" THEN "list" ELSE "delLock"]
  <1>1. TypeOK /\ work[w].pc = "idle"
    BY DEF IInv, BeginSweep, At
  <1>2. r \in Work
    <2>1. {"list", "delLock"} \subseteq PCs /\ op \in Ops
      BY DEF PCs, Ops
    <2> QED
      BY <2>1, IdleType DEF Work
  <1>3. Moved(w, r)
    BY <1>1, <1>2, Moving DEF BeginSweep, TypeOK
  <1>4. work'[w].op = op /\ work'[w].pc = IF op = "counters" THEN "list" ELSE "delLock"
    BY <1>3, IdleType DEF Moved, Work
  <1>5. Own(w)'
    BY <1>4 DEF Own, WorkInv, LockInv, KeyInv, LogInv, KeyPCs, AccountPCs, FinPCs, CleanPCs, HitPCs,
                AppendPCs, HeldAppendPCs, StatsPCs, WritePCs, LogPCs
  <1>6. ops' \in 0 .. MaxOps /\ UNCHANGED <<files, locks, nextPub, crashes, damage, ghosts>>
    BY <1>1, CallAssumption DEF BeginSweep, TypeOK
  <1> QED
    BY <1>1, <1>3, <1>5, <1>6, PlainStep DEF TypeOK

\* The steps of counters between its keys
LEMMA CountersInvariant ==
    ASSUME IInv, NEW w \in Workers, List(w) \/ (\E k \in Keys : NextKey(w, k)) \/ Total(w)
    PROVE  IInv'
  <1> USE DEF KeyPCs, AccountPCs, FinPCs, CleanPCs, HitPCs, AppendPCs, HeldAppendPCs, StatsPCs,
              WritePCs, LogPCs
  <1>1. /\ TypeOK /\ work[w] \in Work /\ Own(w) /\ work[w].pc \in {"list", "total"}
        /\ UNCHANGED <<files, locks, bounds, ghosts>>
    BY DEF IInv, TypeOK, List, NextKey, Total, At
  <1>2. CASE List(w)
    <2> DEFINE r == [work[w] EXCEPT !.pc = "total",
                                    !.todo = {k \in Keys : pending[k] # None \/ applied[k] # None}]
    <2>1. r \in Work
      BY <1>1 DEF Work, PCs
    <2>2. Moved(w, r)
      BY <1>1, <1>2, <2>1, Moving DEF List, TypeOK
    <2>3. Own(w)'
      BY <1>1, <2>2 DEF Moved, Work, Own, WorkInv, LockInv, KeyInv, LogInv
    <2> QED
      BY <1>1, <2>2, <2>3, PlainStep DEF TypeOK, bounds
  <1>3. ASSUME NEW k \in Keys, NextKey(w, k) PROVE IInv'
    <2> DEFINE r == [work[w] EXCEPT !.pc = "lock", !.key = k, !.todo = @ \ {k}]
    <2>1. r \in Work
      BY <1>1 DEF Work, PCs
    <2>2. Moved(w, r)
      BY <1>1, <1>3, <2>1, Moving DEF NextKey, TypeOK
    <2>3. Own(w)'
      BY <1>1, <1>3, <2>2 DEF NextKey, At, Moved, Work, Own, WorkInv, LockInv, KeyInv, LogInv
    <2> QED
      BY <1>1, <2>2, <2>3, PlainStep DEF TypeOK, bounds
  <1>4. CASE Total(w)
    BY <1>1, <1>4, IdleType, Moving, IdleOwn, PlainStep DEF Total, Moved, TypeOK, bounds
  <1> QED
    BY <1>2, <1>3, <1>4

\* The locks of the partial log
LEMMA LogLockInvariant ==
    ASSUME IInv, NEW w \in Workers, NEW here, NEW next, LogLock(w, here, next),
           <<here, next>> \in {<<"logLock", "logPrior">>, <<"delLock", "delete">>}
    PROVE  IInv'
  <1> USE DEF KeyPCs, AccountPCs, FinPCs, CleanPCs, HitPCs, AppendPCs, HeldAppendPCs, StatsPCs,
              WritePCs, LogPCs
  <1>1. TypeOK /\ work[w] \in Work /\ work[w].pc = here /\ Own(w)
    BY DEF IInv, TypeOK, LogLock, At
  <1>2. Moved(w, [work[w] EXCEPT !.pc = next])
    BY <1>1, GotoMoves DEF LogLock, PCs, TypeOK
  <1>3. TypeOK'
    BY <1>1, <1>2 DEF LogLock, TypeOK, Moved, files, bounds, ghosts
  <1>4. Own(w)'
    BY <1>1, <1>2 DEF LogLock, Moved, Work, Own, WorkInv, LockInv, KeyInv, LogInv, files, ghosts
  <1>5. Private(w)
    BY <1>1, CallAssumption DEF LogLock, Private, bounds
  <1> QED
    BY <1>1, <1>2, <1>3, <1>4, <1>5, PrivateStep

\* A written record is verified, or found wrong.
LEMMA LogCheckInvariant ==
    ASSUME IInv, NEW w \in Workers, LogChecked(w) \/ LogCheckFails(w)
    PROVE  IInv'
  <1> USE DEF KeyPCs, AccountPCs, FinPCs, CleanPCs, HitPCs, AppendPCs, HeldAppendPCs, StatsPCs,
              WritePCs, LogPCs
  <1>1. TypeOK /\ work[w] \in Work /\ work[w].pc = "logCheck" /\ Own(w)
        /\ UNCHANGED <<files, locks, nextPub, ops, damage, ghosts>>
    BY DEF IInv, TypeOK, LogChecked, LogCheckFails, At, bounds
  <1>2. PICK next \in {"logRelease", "logRestore"} : Goto(w, next)
    BY DEF LogChecked, LogCheckFails
  <1>3. Moved(w, [work[w] EXCEPT !.pc = next])
    BY <1>1, <1>2, GotoMoves DEF PCs, TypeOK
  <1>4. Own(w)'
    BY <1>1, <1>3 DEF Moved, Work, Own, WorkInv, LockInv, KeyInv, LogInv, files, locks, ghosts
  <1>5. crashes' \in 0 .. MaxCrashes
    BY <1>1, CallAssumption DEF LogChecked, LogCheckFails, TypeOK, bounds
  <1> QED
    BY <1>1, <1>3, <1>4, <1>5, PlainStep DEF TypeOK

\* The key is unlocked and the operation goes on or comes back.
LEMMA ReleaseInvariant ==
    ASSUME IInv, NEW w \in Workers, Release(w)
    PROVE  IInv'
  <1> USE DEF KeyPCs, AccountPCs, FinPCs, CleanPCs, HitPCs, AppendPCs, HeldAppendPCs, StatsPCs,
              WritePCs, LogPCs
  <1>1. /\ TypeOK /\ work[w] \in Work /\ work[w].pc = "release" /\ Own(w) /\ work[w].key \in Keys
        /\ keyLock[work[w].key] = w
        /\ keyLock' = [keyLock EXCEPT ![work[w].key] = None]
        /\ UNCHANGED <<files, statsLock, logLock, bounds, ghosts>>
    BY DEF IInv, TypeOK, Release, At, Own, WorkInv, LockInv, Key
  <1>2. PICK r : Moved(w, r) /\ Own(w)'
    <2>1. CASE work[w].op = "call"
      <3>1. Moved(w, [work[w] EXCEPT !.pc = "logLock"])
        BY <1>1, <2>1, GotoMoves DEF Release, PCs, TypeOK
      <3> QED
        BY <1>1, <2>1, <3>1 DEF Moved, Work, Own, WorkInv, LockInv, KeyInv, LogInv
    <2>2. CASE work[w].op = "counters"
      <3> DEFINE r == [work[w] EXCEPT !.pc = "total", !.key = None]
      <3>1. r \in Work
        BY <1>1 DEF Work, PCs
      <3>2. work' = [work EXCEPT ![w] = r]
        BY <1>1, <2>2 DEF Release, TypeOK
      <3>3. Moved(w, r)
        BY <1>1, <3>1, <3>2, Moving DEF TypeOK
      <3> QED
        BY <1>1, <2>2, <3>3 DEF Moved, Work, Own, WorkInv, LockInv, KeyInv, LogInv
    <2>3. CASE work[w].op \in {"put", "get"}
      BY <1>1, <2>3, IdleType, IdleOwn, Moving DEF Release, Moved, TypeOK
    <2> QED
      BY <1>1, <2>1, <2>2, <2>3 DEF Own, WorkInv
  <1>3. TypeOK'
    BY <1>1, <1>2 DEF TypeOK, Moved, files, bounds, ghosts
  <1>4. Private(w)
    BY <1>1 DEF Private, bounds, TypeOK
  <1> QED
    BY <1>1, <1>2, <1>3, <1>4, PrivateStep

-----------------------------------------------------------------------------
(* Steps on the files of a locked key.                                     *)

\* Journals of two keys name different publications.
LEMMA JournalsDiffer ==
    ASSUME IInv, NEW k \in Keys, NEW l \in Keys, k # l
    PROVE  /\ pending[k] # None /\ pending[l] # None => pending[k].pub # pending[l].pub
           /\ pending[k] # None /\ applied[l] # None => pending[k].pub # applied[l].pub
           /\ applied[k] # None /\ applied[l] # None => applied[k].pub # applied[l].pub
  <1>1. IdInv /\ FileInv(k) /\ FileInv(l)
    BY DEF IInv
  <1> QED
    BY <1>1 DEF IdInv, FileInv, Publication

\* Everything in flight has been handed out.
LEMMA InflightBound ==
    ASSUME IInv
    PROVE  \A p \in stats.inflight : p <= nextPub
  <1>1. ASSUME NEW p \in stats.inflight PROVE p <= nextPub
    <2>1. PICK k \in Keys : \/ pending[k] # None /\ pending[k].pub = p
                            \/ applied[k] # None /\ applied[k].pub = p
      BY DEF IInv, InflightInv
    <2>2. FileInv(k) /\ IdInv
      BY DEF IInv
    <2> QED
      BY <2>1, <2>2 DEF FileInv, IdInv, Publication
  <1> QED
    BY <1>1

\* Only the files of a key under the worker's lock change, and no counter does.
LEMMA KeyFilesRely ==
    ASSUME IInv, NEW w \in Workers, NEW r, Moved(w, r), NEW k \in Keys, keyLock[k] = w,
           UNCHANGED <<stats, log, temps, returned, locks>>,
           \A l \in Keys \ {k} : /\ entry'[l] = entry[l]
                                 /\ pending'[l] = pending[l]
                                 /\ applied'[l] = applied[l]
    PROVE  \A v \in Workers \ {w} : Rely(v)
  BY DEF Moved, Rely, locks

\* The files of the other keys keep their invariant.
LEMMA OtherFiles ==
    ASSUME IInv, NEW l \in Keys, UNCHANGED <<stats, published>>, nextPub' >= nextPub, nextPub' \in Nat,
           entry'[l] = entry[l], pending'[l] = pending[l], applied'[l] = applied[l]
    PROVE  FileInv(l)'
  BY DEF IInv, TypeOK, FileInv, Journal, PubIds

\* A pending journal without an entry is dropped; any other is taken up.
LEMMA ReconcileInvariant ==
    ASSUME IInv, NEW w \in Workers, Reconcile(w)
    PROVE  IInv'
  <1> USE DEF KeyPCs, AccountPCs, FinPCs, CleanPCs, HitPCs, AppendPCs, HeldAppendPCs, StatsPCs,
              WritePCs, LogPCs
  <1>a. PICK k \in Keys : k = work[w].key
    BY DEF IInv, Reconcile, At, Own, WorkInv
  <1>b. PICK next \in {"read", "release"} : next = Reconciled(w)
    BY DEF Reconciled
  <1> DEFINE Taken(journal, pc) == [work[w] EXCEPT !.pc = pc, !.journal = journal, !.resume = next]
  <1>1. /\ TypeOK /\ work[w] \in Work /\ work[w].pc = "reconcile" /\ Own(w)
        /\ work[w].key = k /\ keyLock[k] = w
        /\ next = "release" <=> work[w].op = "counters"
        /\ FileInv(k)
        /\ UNCHANGED <<entry, applied, stats, log, temps, locks, bounds, ghosts>>
    BY <1>a, <1>b DEF IInv, TypeOK, Reconcile, At, Own, WorkInv, LockInv, Reconciled
  <1>2. CASE applied[k] # None /\ work' = [work EXCEPT ![w].pc = "cleanLock", ![w].journal = applied[k],
                                                       ![w].resume = next]
                /\ UNCHANGED pending
    <2> DEFINE r == Taken(applied[k], "cleanLock")
    <2>1. applied[k] \in Journal
      BY <1>1, <1>2 DEF TypeOK
    <2>2. r \in Work
      BY <1>1, <2>1 DEF Work, PCs
    <2>3. Moved(w, r)
      BY <1>1, <1>2, <2>2, Moving DEF TypeOK
    <2>4. Own(w)'
      BY <1>1, <1>2, <2>1, <2>3 DEF Moved, Work, Own, WorkInv, LockInv, KeyInv, LogInv, locks
    <2> QED
      BY <1>1, <1>2, <2>3, <2>4, PlainStep DEF TypeOK, bounds, files
  <1>3. CASE pending[k] # None /\ entry[k] # None
                /\ work' = [work EXCEPT ![w].pc = "finLock", ![w].journal = pending[k], ![w].resume = next]
                /\ UNCHANGED pending
    <2> DEFINE r == Taken(pending[k], "finLock")
    <2>1. pending[k] \in Journal /\ "finLock" \in PCs
      BY <1>1, <1>3 DEF TypeOK, PCs
    <2>2. r \in Work
      BY <1>1, <2>1 DEF Work
    <2>3. Moved(w, r)
      BY <1>1, <1>3, <2>2, Moving DEF TypeOK
    <2>4. Own(w)'
      <3>1. /\ work'[w].pc = "finLock" /\ work'[w].op = work[w].op /\ work'[w].key = k
            /\ work'[w].result = work[w].result
            /\ work'[w].journal = pending[k] /\ work'[w].resume = next
        BY <1>1, <2>3 DEF Moved, Work
      <3>2. WorkInv(w)'
        BY <1>1, <2>1, <3>1 DEF Own, WorkInv
      <3>3. LockInv(w)' /\ KeyInv(w)' /\ LogInv(w)'
        BY <1>1, <1>3, <3>1 DEF LockInv, KeyInv, LogInv, locks
      <3> QED
        BY <3>2, <3>3 DEF Own
    <2> QED
      BY <1>1, <1>3, <2>3, <2>4, PlainStep DEF TypeOK, bounds, files
  <1>4. CASE pending[k] = None /\ applied[k] = None /\ Goto(w, next) /\ UNCHANGED pending
    <2>1. Moved(w, [work[w] EXCEPT !.pc = next])
      BY <1>1, <1>4, GotoMoves DEF PCs, TypeOK
    <2>2. Own(w)'
      <3>1. work'[w].op = "call" /\ work'[w].pc = "release" => FALSE
        BY <1>1, <2>1 DEF Moved, Work
      <3> QED
        BY <1>1, <1>4, <2>1, <3>1 DEF Moved, Work, Own, WorkInv, LockInv, KeyInv, LogInv, locks
    <2> QED
      BY <1>1, <1>4, <2>1, <2>2, PlainStep DEF TypeOK, bounds, files
  <1>5. CASE pending[k] # None /\ entry[k] = None /\ Goto(w, next)
                /\ pending' = [pending EXCEPT ![k] = None]
    <2>1. Moved(w, [work[w] EXCEPT !.pc = next])
      BY <1>1, <1>5, GotoMoves DEF PCs, TypeOK
    <2>2. applied[k] = None /\ pending'[k] = None /\ \A l \in Keys \ {k} : pending'[l] = pending[l]
      BY <1>1, <1>5 DEF FileInv, TypeOK
    <2>3. TypeOK'
      BY <1>1, <1>5, <2>1 DEF TypeOK, Moved, locks, bounds, ghosts
    <2>4. Own(w)'
      <3>1. work'[w].op = "call" /\ work'[w].pc = "release" => FALSE
        BY <1>1, <2>1 DEF Moved, Work
      <3> QED
        BY <1>1, <2>1, <2>2, <3>1 DEF Moved, Work, Own, WorkInv, LockInv, KeyInv, LogInv, locks
    <2>5. \A v \in Workers \ {w} : Rely(v)
      BY <1>1, <2>1, <2>2, KeyFilesRely DEF ghosts
    <2>6. Globals'
      <3>1. \A l \in Keys : FileInv(l)'
        <4>1. FileInv(k)'
          BY <1>1, <2>2 DEF FileInv
        <4> QED
          BY <1>1, <2>2, <4>1, OtherFiles DEF bounds, ghosts, TypeOK
      <3>2. IdInv'
        BY <1>1, <2>2 DEF IInv, IdInv, bounds, ghosts
      <3>3. InflightInv'
        BY <1>1, <1>5, <2>2 DEF IInv, InflightInv, FileInv
      <3>4. CountInv'
        <4>1. Uncounted' = Uncounted
          <5>1. \A p \in published : p.key \in Keys
            BY <1>1 DEF TypeOK
          <5> QED
            BY <1>1, <1>5, <2>2, <5>1 DEF Uncounted, FileInv, ghosts
        <4> QED
          BY <1>1, <4>1 DEF IInv, CountInv, CountersExact, ghosts
      <3>5. \A l \in Keys : PayInv(l)'
        <4>1. \A l \in Keys, v \in Workers : InHand(v, l) => InHand(v, l)'
          BY <1>1, <2>1 DEF Moved, InHand
        <4> QED
          BY <1>1, <4>1, QuietPay DEF ghosts
      <3>6. LogKeepsReturned'
        BY <1>1 DEF IInv, LogKeepsReturned, ghosts
      <3> QED
        BY <3>1, <3>2, <3>3, <3>4, <3>5, <3>6 DEF Globals
    <2> QED
      BY <2>3, <2>4, <2>5, <2>6, Assemble
  <1> QED
    BY <1>a, <1>b, <1>2, <1>3, <1>4, <1>5 DEF Reconcile, Key

\* The write of stats.json that finishes a publication's accounting
LEMMA FinWriteInvariant ==
    ASSUME IInv, NEW w \in Workers,
           StatsWrite(w, "finWrite", "rename", Counted(work[w].seen, work[w].journal)), UNCHANGED served
    PROVE  IInv'
  <1> USE DEF KeyPCs, AccountPCs, FinPCs, CleanPCs, HitPCs, AppendPCs, HeldAppendPCs, StatsPCs,
              WritePCs, LogPCs
  <1>a. PICK k \in Keys : k = work[w].key
    BY DEF IInv, StatsWrite, At, Own, WorkInv
  <1>b. PICK j \in Journal : j = work[w].journal
    BY DEF IInv, StatsWrite, At, Own, WorkInv
  <1> DEFINE r == [work[w] EXCEPT !.pc = "rename", !.seen = None]
             P == Publication(j, k)
  <1>1. /\ TypeOK /\ work[w] \in Work /\ work[w].pc = "finWrite" /\ Own(w)
        /\ work[w].key = k /\ work[w].journal = j /\ keyLock[k] = w /\ statsLock = w
        /\ pending[k] = j /\ entry[k] # None /\ stats' = Counted(stats, j)
        /\ statsLock' = None
        /\ UNCHANGED <<entry, pending, applied, log, temps, keyLock, logLock, bounds, ghosts>>
    BY <1>a, <1>b DEF IInv, TypeOK, StatsWrite, At, Own, WorkInv, LockInv, KeyInv, ghosts
  <1>2. stats \in Stats /\ j.pub \in PubIds /\ j.misses \in {0, 1} /\ j # None
    BY <1>1, CallAssumption DEF TypeOK, Journal
  <1>3. /\ stats' \in Stats /\ stats'.hits = stats.hits
        /\ stats'.inflight = stats.inflight \cup {j.pub}
        /\ j.pub \in stats.inflight => stats' = stats
        /\ j.pub \notin stats.inflight => /\ stats'.stores = stats.stores + 1
                                          /\ stats'.misses = stats.misses + j.misses
    <2>1. CASE j.pub \in stats.inflight
      BY <1>1, <1>2, <2>1 DEF Counted
    <2>2. CASE j.pub \notin stats.inflight
      <3>1. stats' = [stats EXCEPT !.misses = @ + j.misses, !.stores = @ + 1, !.inflight = @ \cup {j.pub}]
        BY <1>1, <2>2 DEF Counted
      <3>2. /\ stats.hits \in Nat /\ stats.stores + 1 \in Nat /\ stats.misses + j.misses \in Nat
            /\ stats.inflight \cup {j.pub} \in SUBSET PubIds
        BY <1>2 DEF Stats
      <3>3. stats' = [hits |-> stats.hits, misses |-> stats.misses + j.misses,
                      stores |-> stats.stores + 1, inflight |-> stats.inflight \cup {j.pub}]
        BY <1>2, <3>1 DEF Stats
      <3>4. stats' \in Stats
        BY <3>2, <3>3 DEF Stats
      <3> QED
        BY <2>2, <3>3, <3>4
    <2> QED
      BY <2>1, <2>2
  <1>4. Moved(w, r)
    <2>1. r \in Work
      BY <1>1 DEF Work, PCs
    <2> QED
      BY <1>1, <2>1, Moving DEF StatsWrite, TypeOK
  <1>5. TypeOK'
    BY <1>1, <1>3, <1>4 DEF TypeOK, Moved, bounds, ghosts
  <1>6. Own(w)'
    <2>1. /\ work'[w].pc = "rename" /\ work'[w].op = work[w].op /\ work'[w].key = k
          /\ work'[w].result = work[w].result /\ work'[w].pub = work[w].pub
          /\ work'[w].journal = j /\ work'[w].resume = work[w].resume
      BY <1>1, <1>4 DEF Moved, Work
    <2>2. WorkInv(w)'
      BY <1>1, <2>1 DEF Own, WorkInv
    <2>3. LockInv(w)' /\ KeyInv(w)' /\ LogInv(w)'
      BY <1>1, <1>3, <2>1 DEF LockInv, KeyInv, LogInv
    <2> QED
      BY <2>2, <2>3 DEF Own
  <1>7. \A l \in Keys \ {k} : /\ pending[l] # None => pending[l].pub # j.pub
                              /\ applied[l] # None => applied[l].pub # j.pub
    BY <1>1, <1>2, JournalsDiffer
  <1>8. \A v \in Workers \ {w} : Rely(v)
    BY <1>1, <1>3, <1>4, <1>7 DEF Moved, Rely, ghosts
  <1>9. Globals'
    <2>1. FileInv(k) /\ P \in published /\ IsFiniteSet(published) /\ CountersExact /\ IdInv
      BY <1>1, <1>2 DEF IInv, FileInv, CountInv
    <2>2. \A l \in Keys : FileInv(l)'
      BY <1>1, <1>3, <1>7, <2>1 DEF IInv, FileInv, bounds, ghosts
    <2>3. IdInv'
      BY <1>1 DEF IInv, IdInv, bounds, ghosts
    <2>4. InflightInv'
      BY <1>1, <1>2, <1>3 DEF IInv, InflightInv
    <2>5. CountInv'
      <3>1. CASE j.pub \in stats.inflight
        BY <1>1, <1>3, <2>1, <3>1 DEF CountInv, CountersExact, Uncounted, ghosts
      <3>2. CASE j.pub \notin stats.inflight
        <4> DEFINE counted == published \ Uncounted
                   missed == {p \in counted : p.misses = 1}
        <4>1. P.pub = j.pub /\ P.key = k /\ P.misses = j.misses /\ P \in Uncounted
          BY <1>1, <1>2, <2>1, <3>2 DEF Uncounted, Publication
        <4>2. \A p \in published : p.pub = j.pub => p = P
          BY <2>1, <4>1 DEF IdInv
        <4>3. Uncounted' = Uncounted \ {P}
          BY <1>1, <1>3, <4>1, <4>2 DEF Uncounted, ghosts
        <4>4. (published \ Uncounted)' = counted \cup {P} /\ P \notin counted
          BY <1>1, <2>1, <4>1, <4>3 DEF ghosts
        <4>5. IsFiniteSet(counted) /\ IsFiniteSet(missed)
          BY <2>1, FS_Subset
        <4>6. {p \in counted \cup {P} : p.misses = 1} = IF j.misses = 1 THEN missed \cup {P} ELSE missed
          BY <4>1, <4>4
        <4>7. /\ Cardinality(counted \cup {P}) = Cardinality(counted) + 1
              /\ Cardinality(missed \cup {P}) = Cardinality(missed) + 1
              /\ Cardinality(missed) \in Nat
          BY <4>4, <4>5, FS_AddElement, FS_CardinalityType
        <4>8. /\ stats'.stores = Cardinality(counted \cup {P})
              /\ stats'.misses = Cardinality({p \in counted \cup {P} : p.misses = 1})
          <5>1. stats.stores = Cardinality(counted) /\ stats.misses = Cardinality(missed)
            BY <2>1 DEF CountersExact
          <5>2. CASE j.misses = 1
            BY <1>3, <3>2, <4>6, <4>7, <5>1, <5>2
          <5>3. CASE j.misses = 0
            BY <1>3, <3>2, <4>6, <4>7, <5>1, <5>3
          <5> QED
            BY <1>2, <5>2, <5>3
        <4> QED
          BY <1>1, <1>3, <2>1, <4>4, <4>8 DEF CountInv, CountersExact, ghosts
      <3> QED
        BY <3>1, <3>2
    <2>6. \A l \in Keys : PayInv(l)'
      <3>1. \A l \in Keys, v \in Workers : InHand(v, l) => InHand(v, l)'
        BY <1>1, <1>4 DEF Moved, InHand
      <3> QED
        BY <1>1, <3>1, QuietPay DEF ghosts
    <2>7. LogKeepsReturned'
      BY <1>1 DEF IInv, LogKeepsReturned, ghosts
    <2> QED
      BY <2>2, <2>3, <2>4, <2>5, <2>6, <2>7 DEF Globals
  <1> QED
    BY <1>5, <1>6, <1>8, <1>9, Assemble

\* The pending journal becomes the applied one.
LEMMA RenameInvariant ==
    ASSUME IInv, NEW w \in Workers, Rename(w)
    PROVE  IInv'
  <1> USE DEF KeyPCs, AccountPCs, FinPCs, CleanPCs, HitPCs, AppendPCs, HeldAppendPCs, StatsPCs,
              WritePCs, LogPCs
  <1>a. PICK k \in Keys : k = work[w].key
    BY DEF IInv, Rename, At, Own, WorkInv
  <1>b. PICK j \in Journal : j = work[w].journal
    BY DEF IInv, Rename, At, Own, WorkInv
  <1>1. /\ TypeOK /\ work[w] \in Work /\ work[w].pc = "rename" /\ Own(w)
        /\ work[w].key = k /\ work[w].journal = j /\ keyLock[k] = w
        /\ pending[k] = j /\ entry[k] # None /\ j.pub \in stats.inflight /\ FileInv(k)
        /\ UNCHANGED <<entry, stats, log, temps, locks, bounds, ghosts>>
    BY <1>a, <1>b DEF IInv, TypeOK, Rename, At, Own, WorkInv, LockInv, KeyInv
  <1>2. /\ j # None /\ pending'[k] = None /\ applied'[k] = j
        /\ \A l \in Keys \ {k} : pending'[l] = pending[l] /\ applied'[l] = applied[l]
        /\ pending' \in [Keys -> Journal \cup {None}] /\ applied' \in [Keys -> Journal \cup {None}]
    BY <1>a, <1>1, CallAssumption DEF Rename, Key, TypeOK
  <1>3. Moved(w, [work[w] EXCEPT !.pc = "cleanLock"])
    BY <1>1, GotoMoves DEF Rename, PCs, TypeOK
  <1>4. TypeOK'
    BY <1>1, <1>2, <1>3 DEF TypeOK, Moved, locks, bounds, ghosts
  <1>5. Own(w)'
    <2>1. /\ work'[w].pc = "cleanLock" /\ work'[w].op = work[w].op /\ work'[w].key = k
          /\ work'[w].result = work[w].result /\ work'[w].pub = work[w].pub
          /\ work'[w].journal = j /\ work'[w].resume = work[w].resume
      BY <1>1, <1>3 DEF Moved, Work
    <2>2. WorkInv(w)'
      BY <1>1, <2>1 DEF Own, WorkInv
    <2>3. LockInv(w)' /\ KeyInv(w)' /\ LogInv(w)'
      BY <1>1, <1>2, <2>1 DEF LockInv, KeyInv, LogInv, locks
    <2> QED
      BY <2>2, <2>3 DEF Own
  <1>6. \A v \in Workers \ {w} : Rely(v)
    BY <1>1, <1>2, <1>3, KeyFilesRely DEF ghosts
  <1>7. Globals'
    <2>1. \A l \in Keys : FileInv(l)'
      <3>1. FileInv(k)'
        BY <1>1, <1>2 DEF FileInv, ghosts
      <3> QED
        BY <1>1, <1>2, <3>1, OtherFiles DEF bounds, ghosts, TypeOK
    <2>2. IdInv'
      BY <1>1, <1>2 DEF IInv, IdInv, bounds, ghosts
    <2>3. InflightInv'
      <3>1. ASSUME NEW p \in stats.inflight
            PROVE  \E l \in Keys : \/ pending'[l] # None /\ pending'[l].pub = p
                                   \/ applied'[l] # None /\ applied'[l].pub = p
        <4>1. PICK l \in Keys : \/ pending[l] # None /\ pending[l].pub = p
                                \/ applied[l] # None /\ applied[l].pub = p
          BY DEF IInv, InflightInv
        <4> QED
          BY <1>1, <1>2, <4>1 DEF FileInv
      <3> QED
        BY <1>1, <3>1 DEF InflightInv
    <2>4. CountInv'
      <3>1. Uncounted' = Uncounted
        <4>1. \A p \in published : p.key \in Keys
          BY <1>1 DEF TypeOK
        <4> QED
          BY <1>1, <1>2, <4>1 DEF Uncounted, ghosts
      <3> QED
        BY <1>1, <3>1 DEF IInv, CountInv, CountersExact, ghosts
    <2>5. \A l \in Keys : PayInv(l)'
      <3>1. \A l \in Keys, v \in Workers : InHand(v, l) => InHand(v, l)'
        BY <1>1, <1>3 DEF Moved, InHand
      <3> QED
        BY <1>1, <3>1, QuietPay DEF ghosts
    <2>6. LogKeepsReturned'
      BY <1>1 DEF IInv, LogKeepsReturned, ghosts
    <2> QED
      BY <2>1, <2>2, <2>3, <2>4, <2>5, <2>6 DEF Globals
  <1> QED
    BY <1>4, <1>5, <1>6, <1>7, Assemble

\* The write of stats.json that takes a publication out of flight
LEMMA CleanWriteInvariant ==
    ASSUME IInv, NEW w \in Workers,
           StatsWrite(w, "cleanWrite", "unlink", Settled(work[w].seen, work[w].journal)), UNCHANGED served
    PROVE  IInv'
  <1> USE DEF KeyPCs, AccountPCs, FinPCs, CleanPCs, HitPCs, AppendPCs, HeldAppendPCs, StatsPCs,
              WritePCs, LogPCs
  <1>a. PICK k \in Keys : k = work[w].key
    BY DEF IInv, StatsWrite, At, Own, WorkInv
  <1>b. PICK j \in Journal : j = work[w].journal
    BY DEF IInv, StatsWrite, At, Own, WorkInv
  <1> DEFINE r == [work[w] EXCEPT !.pc = "unlink", !.seen = None]
  <1>1. /\ TypeOK /\ work[w] \in Work /\ work[w].pc = "cleanWrite" /\ Own(w)
        /\ work[w].key = k /\ work[w].journal = j /\ keyLock[k] = w /\ statsLock = w
        /\ applied[k] = j /\ FileInv(k) /\ stats' = [stats EXCEPT !.inflight = @ \ {j.pub}]
        /\ statsLock' = None
        /\ UNCHANGED <<entry, pending, applied, log, temps, keyLock, logLock, bounds, ghosts>>
    BY <1>a, <1>b DEF IInv, TypeOK, StatsWrite, Settled, At, Own, WorkInv, LockInv, KeyInv, ghosts
  <1>2. stats \in Stats /\ j # None
    BY <1>1, CallAssumption DEF TypeOK
  <1>3. /\ stats' \in Stats /\ stats'.hits = stats.hits /\ stats'.stores = stats.stores
        /\ stats'.misses = stats.misses /\ stats'.inflight = stats.inflight \ {j.pub}
    BY <1>1, <1>2 DEF Stats
  <1>4. Moved(w, r)
    <2>1. r \in Work
      BY <1>1 DEF Work, PCs
    <2> QED
      BY <1>1, <2>1, Moving DEF StatsWrite, TypeOK
  <1>5. TypeOK'
    BY <1>1, <1>3, <1>4 DEF TypeOK, Moved, bounds, ghosts
  <1>6. Own(w)'
    <2>1. /\ work'[w].pc = "unlink" /\ work'[w].op = work[w].op /\ work'[w].key = k
          /\ work'[w].result = work[w].result /\ work'[w].pub = work[w].pub
          /\ work'[w].journal = j /\ work'[w].resume = work[w].resume
      BY <1>1, <1>4 DEF Moved, Work
    <2>2. WorkInv(w)'
      BY <1>1, <2>1 DEF Own, WorkInv
    <2>3. LockInv(w)' /\ KeyInv(w)' /\ LogInv(w)'
      BY <1>1, <1>3, <2>1 DEF LockInv, KeyInv, LogInv
    <2> QED
      BY <2>2, <2>3 DEF Own
  <1>7. /\ pending[k] = None
        /\ \A l \in Keys \ {k} : /\ pending[l] # None => pending[l].pub # j.pub
                                 /\ applied[l] # None => applied[l].pub # j.pub
    BY <1>1, <1>2, JournalsDiffer DEF FileInv
  <1>8. \A v \in Workers \ {w} : Rely(v)
    BY <1>1, <1>3, <1>4, <1>7 DEF Moved, Rely, ghosts
  <1>9. Globals'
    <2>1. \A l \in Keys : FileInv(l)'
      BY <1>1, <1>3 DEF IInv, FileInv, bounds, ghosts
    <2>2. IdInv'
      BY <1>1 DEF IInv, IdInv, bounds, ghosts
    <2>3. InflightInv'
      BY <1>1, <1>3 DEF IInv, InflightInv
    <2>4. CountInv'
      <3>1. Uncounted' = Uncounted
        <4>1. \A p \in published : p.key \in Keys
          BY <1>1 DEF TypeOK
        <4> QED
          BY <1>1, <1>3, <1>7, <4>1 DEF Uncounted, ghosts
      <3> QED
        BY <1>1, <1>3, <3>1 DEF IInv, CountInv, CountersExact, ghosts
    <2>5. \A l \in Keys : PayInv(l)'
      <3>1. \A l \in Keys, v \in Workers : InHand(v, l) => InHand(v, l)'
        BY <1>1, <1>4 DEF Moved, InHand
      <3> QED
        BY <1>1, <3>1, QuietPay DEF ghosts
    <2>6. LogKeepsReturned'
      BY <1>1 DEF IInv, LogKeepsReturned, ghosts
    <2> QED
      BY <2>1, <2>2, <2>3, <2>4, <2>5, <2>6 DEF Globals
  <1> QED
    BY <1>5, <1>6, <1>8, <1>9, Assemble

\* The applied journal is forgotten.
LEMMA UnlinkInvariant ==
    ASSUME IInv, NEW w \in Workers, Unlink(w)
    PROVE  IInv'
  <1> USE DEF KeyPCs, AccountPCs, FinPCs, CleanPCs, HitPCs, AppendPCs, HeldAppendPCs, StatsPCs,
              WritePCs, LogPCs
  <1>a. PICK k \in Keys : k = work[w].key
    BY DEF IInv, Unlink, At, Own, WorkInv
  <1>b. PICK next \in {"read", "release"} : next = work[w].resume
    BY DEF IInv, Unlink, At, Own, WorkInv
  <1> DEFINE r == [work[w] EXCEPT !.pc = next, !.journal = None, !.resume = None]
  <1>1. /\ TypeOK /\ work[w] \in Work /\ work[w].pc = "unlink" /\ Own(w)
        /\ work[w].key = k /\ keyLock[k] = w /\ FileInv(k)
        /\ applied[k] \in Journal /\ applied[k].pub \notin stats.inflight
        /\ UNCHANGED <<entry, pending, stats, log, temps, locks, bounds, ghosts>>
    BY <1>a DEF IInv, TypeOK, Unlink, At, Own, WorkInv, LockInv, KeyInv
  <1>2. /\ pending[k] = None /\ applied'[k] = None
        /\ \A l \in Keys \ {k} : applied'[l] = applied[l]
        /\ applied' \in [Keys -> Journal \cup {None}]
    BY <1>a, <1>1, CallAssumption DEF Unlink, Key, TypeOK, FileInv
  <1>3. Moved(w, r)
    <2>1. next \in PCs
      BY DEF PCs
    <2>2. r \in Work
      BY <1>1, <2>1 DEF Work
    <2>3. work' = [work EXCEPT ![w] = r]
      BY <1>1, <1>b DEF Unlink, TypeOK
    <2> QED
      BY <1>1, <2>2, <2>3, Moving DEF TypeOK
  <1>4. TypeOK'
    BY <1>1, <1>2, <1>3 DEF TypeOK, Moved, locks, bounds, ghosts
  <1>5. Own(w)'
    <2>1. /\ work'[w].pc = next /\ work'[w].op = work[w].op /\ work'[w].key = k
          /\ work'[w].result = work[w].result /\ work'[w].pub = work[w].pub
      BY <1>1, <1>3 DEF Moved, Work
    <2>2. WorkInv(w)'
      BY <1>1, <1>b, <2>1 DEF Own, WorkInv
    <2>3. LockInv(w)' /\ KeyInv(w)' /\ LogInv(w)'
      BY <1>1, <1>2, <2>1 DEF LockInv, KeyInv, LogInv, locks
    <2> QED
      BY <2>2, <2>3 DEF Own
  <1>6. \A v \in Workers \ {w} : Rely(v)
    BY <1>1, <1>2, <1>3, KeyFilesRely DEF ghosts
  <1>7. Globals'
    <2>1. \A l \in Keys : FileInv(l)'
      <3>1. FileInv(k)'
        BY <1>1, <1>2 DEF FileInv
      <3> QED
        BY <1>1, <1>2, <3>1, OtherFiles DEF bounds, ghosts, TypeOK
    <2>2. IdInv'
      BY <1>1 DEF IInv, IdInv, bounds, ghosts
    <2>3. InflightInv'
      <3>1. ASSUME NEW p \in stats.inflight
            PROVE  \E l \in Keys : \/ pending'[l] # None /\ pending'[l].pub = p
                                   \/ applied'[l] # None /\ applied'[l].pub = p
        <4>1. PICK l \in Keys : \/ pending[l] # None /\ pending[l].pub = p
                                \/ applied[l] # None /\ applied[l].pub = p
          BY DEF IInv, InflightInv
        <4> QED
          BY <1>1, <1>2, <4>1
      <3> QED
        BY <1>1, <3>1 DEF InflightInv
    <2>4. CountInv'
      BY <1>1 DEF IInv, CountInv, CountersExact, Uncounted, ghosts
    <2>5. \A l \in Keys : PayInv(l)'
      <3>1. \A l \in Keys, v \in Workers : InHand(v, l) => InHand(v, l)'
        BY <1>1, <1>3 DEF Moved, InHand
      <3> QED
        BY <1>1, <3>1, QuietPay DEF ghosts
    <2>6. LogKeepsReturned'
      BY <1>1 DEF IInv, LogKeepsReturned, ghosts
    <2> QED
      BY <2>1, <2>2, <2>3, <2>4, <2>5, <2>6 DEF Globals
  <1> QED
    BY <1>4, <1>5, <1>6, <1>7, Assemble

\* A damaged entry is moved aside.
LEMMA QuarantineInvariant ==
    ASSUME IInv, NEW w \in Workers, Quarantine(w)
    PROVE  IInv'
  <1> USE DEF KeyPCs, AccountPCs, FinPCs, CleanPCs, HitPCs, AppendPCs, HeldAppendPCs, StatsPCs,
              WritePCs, LogPCs
  <1>a. PICK k \in Keys : k = work[w].key
    BY DEF IInv, Quarantine, At, Own, WorkInv
  <1>b. PICK next \in {"pend", "attempt"} : next = IF work[w].op = "put" THEN "pend" ELSE "attempt"
    OBVIOUS
  <1>1. /\ TypeOK /\ work[w] \in Work /\ work[w].pc = "read" /\ Own(w) /\ work[w].op # "get"
        /\ work[w].key = k /\ keyLock[k] = w /\ FileInv(k) /\ entry[k] = Damaged
        /\ pending[k] = None /\ applied[k] = None
        /\ UNCHANGED <<pending, applied, stats, log, temps, locks, bounds, ghosts>>
    BY <1>a DEF IInv, TypeOK, Quarantine, At, Own, WorkInv, LockInv, KeyInv, Key
  <1>2. /\ entry'[k] = None /\ \A l \in Keys \ {k} : entry'[l] = entry[l]
        /\ entry' \in [Keys -> Entry \cup {Damaged, None}]
    BY <1>a, <1>1 DEF Quarantine, Key, TypeOK
  <1>3. Moved(w, [work[w] EXCEPT !.pc = next])
    <2>1. next \in PCs /\ Goto(w, next)
      BY <1>b DEF Quarantine, PCs
    <2> QED
      BY <1>1, <2>1, GotoMoves DEF TypeOK
  <1>4. TypeOK'
    BY <1>1, <1>2, <1>3 DEF TypeOK, Moved, locks, bounds, ghosts
  <1>5. Own(w)'
    <2>1. /\ work'[w].pc = next /\ work'[w].op = work[w].op /\ work'[w].key = k
          /\ work'[w].result = work[w].result
      BY <1>1, <1>3 DEF Moved, Work
    <2>2. WorkInv(w)'
      BY <1>1, <1>b, <2>1 DEF Own, WorkInv
    <2>3. LockInv(w)' /\ KeyInv(w)' /\ LogInv(w)'
      BY <1>1, <1>2, <2>1 DEF LockInv, KeyInv, LogInv, locks
    <2> QED
      BY <2>2, <2>3 DEF Own
  <1>6. \A v \in Workers \ {w} : Rely(v)
    BY <1>1, <1>2, <1>3, KeyFilesRely DEF ghosts
  <1>7. Globals'
    <2>1. \A l \in Keys : FileInv(l)'
      <3>1. FileInv(k)'
        BY <1>1, <1>2 DEF FileInv
      <3> QED
        BY <1>1, <1>2, <3>1, OtherFiles DEF bounds, ghosts, TypeOK
    <2>2. IdInv' /\ InflightInv' /\ LogKeepsReturned'
      BY <1>1 DEF IInv, IdInv, InflightInv, LogKeepsReturned, bounds, ghosts
    <2>3. CountInv'
      BY <1>1 DEF IInv, CountInv, CountersExact, Uncounted, ghosts
    <2>4. \A l \in Keys : PayInv(l)'
      <3>1. \A l \in Keys, v \in Workers : InHand(v, l) => InHand(v, l)'
        BY <1>1, <1>3 DEF Moved, InHand
      <3>2. \A l \in Keys : entry'[l] \in {None, Damaged} => entry[l] \in {None, Damaged}
        BY <1>1, <1>2
      <3> QED
        BY <1>1, <3>1, <3>2, QuietPay DEF ghosts
    <2> QED
      BY <2>1, <2>2, <2>3, <2>4 DEF Globals
  <1> QED
    BY <1>4, <1>5, <1>6, <1>7, Assemble

\* The write of stats.json that notes a hit.
LEMMA HitWriteInvariant ==
    ASSUME IInv, NEW w \in Workers, served' = served + 1,
           StatsWrite(w, "hitWrite", "release", [work[w].seen EXCEPT !.hits = @ + 1])
    PROVE  IInv'
  <1> USE DEF KeyPCs, AccountPCs, FinPCs, CleanPCs, HitPCs, AppendPCs, HeldAppendPCs, StatsPCs,
              WritePCs, LogPCs
  <1> DEFINE r == [work[w] EXCEPT !.pc = "release", !.seen = None]
  <1>1. /\ TypeOK /\ work[w] \in Work /\ work[w].pc = "hitWrite" /\ Own(w)
        /\ statsLock = w /\ stats' = [stats EXCEPT !.hits = @ + 1] /\ statsLock' = None
        /\ UNCHANGED <<entry, pending, applied, log, temps, keyLock, logLock, bounds,
                       published, paid, lost, returned>>
    BY DEF IInv, TypeOK, StatsWrite, At, Own, LockInv
  <1>2. /\ stats' \in Stats /\ stats'.hits = stats.hits + 1 /\ stats'.stores = stats.stores
        /\ stats'.misses = stats.misses /\ stats'.inflight = stats.inflight
    BY <1>1 DEF TypeOK, Stats
  <1>3. Moved(w, r)
    <2>1. r \in Work
      BY <1>1 DEF Work, PCs
    <2> QED
      BY <1>1, <2>1, Moving DEF StatsWrite, TypeOK
  <1>4. TypeOK'
    BY <1>1, <1>2, <1>3 DEF TypeOK, Moved, bounds
  <1>5. Own(w)'
    <2>1. /\ work'[w].pc = "release" /\ work'[w].op = work[w].op /\ work'[w].key = work[w].key
          /\ work'[w].result = work[w].result /\ work'[w].pub = work[w].pub
      BY <1>1, <1>3 DEF Moved, Work
    <2>2. WorkInv(w)'
      BY <1>1, <2>1 DEF Own, WorkInv
    <2>3. LockInv(w)' /\ KeyInv(w)' /\ LogInv(w)'
      BY <1>1, <2>1 DEF Own, LockInv, KeyInv, LogInv
    <2> QED
      BY <2>2, <2>3 DEF Own
  <1>6. \A v \in Workers \ {w} : Rely(v)
    BY <1>1, <1>2, <1>3 DEF Moved, Rely
  <1>7. Globals'
    <2>1. \A l \in Keys : FileInv(l)'
      BY <1>1, <1>2 DEF IInv, FileInv, bounds
    <2>2. IdInv' /\ InflightInv' /\ LogKeepsReturned'
      BY <1>1, <1>2 DEF IInv, IdInv, InflightInv, LogKeepsReturned, bounds
    <2>3. CountInv'
      <3>1. Uncounted' = Uncounted
        BY <1>1, <1>2 DEF Uncounted
      <3> QED
        BY <1>1, <1>2, <3>1 DEF IInv, CountInv, CountersExact
    <2>4. \A l \in Keys : PayInv(l)'
      <3>1. \A l \in Keys, v \in Workers : InHand(v, l) => InHand(v, l)'
        BY <1>1, <1>3 DEF Moved, InHand
      <3> QED
        BY <1>1, <3>1, QuietPay
    <2> QED
      BY <2>1, <2>2, <2>3, <2>4 DEF Globals
  <1> QED
    BY <1>4, <1>5, <1>6, <1>7, Assemble

-----------------------------------------------------------------------------
(* Payment and publication.                                                *)

\* Only the worker that holds a key's lock can have an answer to the key in hand.
LEMMA NobodyElseInHand ==
    ASSUME IInv, NEW w \in Workers, NEW k \in Keys, keyLock[k] = w, NEW v \in Workers \ {w}
    PROVE  ~InHand(v, k)
  <1>1. WorkInv(v) /\ LockInv(v)
    BY DEF IInv, Own
  <1> QED
    BY <1>1 DEF InHand, WorkInv, LockInv, KeyPCs

\* An attempt is retried, or its answer is paid for and kept.
LEMMA AttemptInvariant ==
    ASSUME IInv, NEW w \in Workers, NEW o \in Outcomes, Attempt(w, o)
    PROVE  IInv'
  <1> USE DEF KeyPCs, AccountPCs, FinPCs, CleanPCs, HitPCs, AppendPCs, HeldAppendPCs, StatsPCs,
              WritePCs, LogPCs
  <1>a. PICK k \in Keys : k = work[w].key
    BY DEF IInv, Attempt, At, Own, WorkInv
  <1>b. PICK class \in Results : class = Classify(o)
    BY DEF Classify, Results
  <1>1. /\ TypeOK /\ work[w] \in Work /\ work[w].pc = "attempt" /\ Own(w)
        /\ work[w].key = k /\ work[w].op = "call" /\ keyLock[k] = w /\ entry[k] = None
        /\ pending[k] = None /\ applied[k] = None
        /\ UNCHANGED <<files, locks, bounds, published, served, lost, returned>>
    BY <1>a DEF IInv, TypeOK, Attempt, At, Own, WorkInv, LockInv, KeyInv
  <1>2. CASE Retryable(class) /\ work[w].attempt + 1 < MaxAttempts
    <2> DEFINE r == [work[w] EXCEPT !.attempt = work[w].attempt + 1]
    <2>1. work[w].attempt + 1 \in 0 .. MaxAttempts
      BY <1>1, <1>2, CallAssumption DEF Work
    <2>2. r \in Work
      BY <1>1, <2>1 DEF Work
    <2>3. work' = [work EXCEPT ![w] = r] /\ paid' = paid
      BY <1>1, <1>2, <1>b DEF Attempt, TypeOK
    <2>4. Moved(w, r)
      BY <1>1, <2>2, <2>3, Moving DEF TypeOK
    <2>5. work'[w].pc = "attempt" /\ work'[w].key = k /\ work'[w].op = "call"
      BY <1>1, <2>4 DEF Moved, Work
    <2>6. Own(w)'
      BY <1>1, <2>5 DEF Own, WorkInv, LockInv, KeyInv, LogInv, files, locks
    <2> QED
      BY <1>1, <2>3, <2>4, <2>6, PlainStep DEF TypeOK, bounds, ghosts
  <1>3. CASE ~(Retryable(class) /\ work[w].attempt + 1 < MaxAttempts)
    <2> DEFINE r == [work[w] EXCEPT !.pc = "pend", !.attempt = 0, !.result = class]
    <2>1. "pend" \in PCs /\ 0 \in 0 .. MaxAttempts
      BY CallAssumption DEF PCs
    <2>2. r \in Work
      BY <1>1, <2>1 DEF Work
    <2>3. work' = [work EXCEPT ![w] = r] /\ paid' = [paid EXCEPT ![k] = @ + 1]
      BY <1>1, <1>3, <1>a, <1>b DEF Attempt, TypeOK, Key
    <2>4. Moved(w, r)
      BY <1>1, <2>2, <2>3, Moving DEF TypeOK
    <2>5. /\ work'[w].pc = "pend" /\ work'[w].key = k /\ work'[w].op = "call"
          /\ work'[w].result \in Results
      BY <1>1, <2>4 DEF Moved, Work
    <2>6. Own(w)'
      BY <1>1, <2>5 DEF Own, WorkInv, LockInv, KeyInv, LogInv, files, locks
    <2>7. TypeOK'
      BY <1>1, <2>3, <2>4 DEF TypeOK, Moved, files, locks, bounds
    <2>8. \A v \in Workers \ {w} : Rely(v)
      BY <1>1, <2>4, KeyFilesRely DEF files
    <2>9. Globals'
      <3>1. \A l \in Keys : PayInv(l)'
        <4>1. paid'[k] = paid[k] + 1 /\ \A l \in Keys \ {k} : paid'[l] = paid[l]
          BY <1>1, <2>3 DEF TypeOK
        <4>2. paid[k] \in Nat /\ lost[k] \in Nat
          BY <1>1 DEF TypeOK
        <4>3. paid[k] <= lost[k]
          <5>1. \A v \in Workers : ~InHand(v, k)
            BY <1>1, NobodyElseInHand DEF InHand
          <5> QED
            BY <1>1, <5>1 DEF IInv, PayInv
        <4>4. PayInv(k)'
          BY <1>1, <2>5, <4>1, <4>2, <4>3 DEF PayInv, InHand
        <4>5. \A l \in Keys, v \in Workers : InHand(v, l) => InHand(v, l)'
          BY <1>1, <2>4 DEF Moved, InHand
        <4>6. ASSUME NEW l \in Keys \ {k} PROVE PayInv(l)'
          BY <1>1, <4>1, <4>5 DEF IInv, PayInv, files
        <4> QED
          BY <4>4, <4>6
      <3>2. LogKeepsReturned'
        BY <1>1 DEF IInv, LogKeepsReturned, files
      <3> QED
        BY <1>1, <3>1, <3>2, QuietFiles DEF Globals, files, bounds
    <2> QED
      BY <2>6, <2>7, <2>8, <2>9, Assemble
  <1> QED
    BY <1>2, <1>3

\* The journal of a fresh publication is written before its entry.
LEMMA PendInvariant ==
    ASSUME IInv, NEW w \in Workers, Pend(w)
    PROVE  IInv'
  <1> USE DEF KeyPCs, AccountPCs, FinPCs, CleanPCs, HitPCs, AppendPCs, HeldAppendPCs, StatsPCs,
              WritePCs, LogPCs
  <1>a. PICK k \in Keys : k = work[w].key
    BY DEF IInv, Pend, At, Own, WorkInv
  <1>b. PICK j : j = [pub |-> nextPub + 1, misses |-> IF work[w].op = "call" THEN 1 ELSE 0]
    OBVIOUS
  <1> DEFINE r == [work[w] EXCEPT !.pc = "store", !.pub = nextPub + 1, !.journal = j,
                                  !.resume = "release"]
  <1>1. /\ TypeOK /\ work[w] \in Work /\ work[w].pc = "pend" /\ Own(w)
        /\ work[w].key = k /\ keyLock[k] = w /\ entry[k] = None
        /\ pending[k] = None /\ applied[k] = None /\ FileInv(k)
        /\ pending' = [pending EXCEPT ![k] = j] /\ nextPub' = nextPub + 1
        /\ UNCHANGED <<entry, applied, stats, log, temps, locks, ops, crashes, damage, ghosts>>
    BY <1>a, <1>b DEF IInv, TypeOK, Pend, At, Own, WorkInv, LockInv, KeyInv, Key
  <1>2. nextPub \in Nat /\ j \in Journal /\ j.pub = nextPub + 1
    BY <1>1, <1>b DEF TypeOK, Journal, PubIds
  <1>3. /\ j # None /\ pending'[k] = j /\ \A l \in Keys \ {k} : pending'[l] = pending[l]
        /\ pending' \in [Keys -> Journal \cup {None}]
    BY <1>1, <1>2, CallAssumption DEF TypeOK
  <1>4. Moved(w, r)
    <2>1. "store" \in PCs /\ nextPub + 1 \in Nat
      BY <1>2 DEF PCs
    <2>2. r \in Work
      BY <1>1, <1>2, <2>1 DEF Work
    <2>3. work' = [work EXCEPT ![w] = r]
      BY <1>1, <1>b DEF Pend, TypeOK
    <2> QED
      BY <1>1, <2>2, <2>3, Moving DEF TypeOK
  <1>5. TypeOK'
    BY <1>1, <1>2, <1>3, <1>4 DEF TypeOK, Moved, locks, ghosts
  <1>6. /\ work'[w].pc = "store" /\ work'[w].op = work[w].op /\ work'[w].key = k
        /\ work'[w].result = work[w].result /\ work'[w].pub = j.pub
        /\ work'[w].journal = j /\ work'[w].resume = "release"
    BY <1>1, <1>2, <1>4 DEF Moved, Work
  <1>7. Own(w)'
    <2>1. WorkInv(w)'
      <3>1. work[w].op \in {"call", "put"} /\ work[w].result \in Results /\ j.pub \in PubIds
        BY <1>1, <1>2 DEF Own, WorkInv, Journal
      <3> QED
        BY <1>2, <1>6, <3>1 DEF WorkInv
    <2>2. LockInv(w)' /\ KeyInv(w)' /\ LogInv(w)'
      BY <1>1, <1>3, <1>6 DEF LockInv, KeyInv, LogInv, locks
    <2> QED
      BY <2>1, <2>2 DEF Own
  <1>8. \A v \in Workers \ {w} : Rely(v)
    BY <1>1, <1>3, <1>4, KeyFilesRely DEF ghosts
  <1>9. \A p \in published : p.pub \in Nat /\ p.pub <= nextPub /\ p.key \in Keys
    BY <1>1 DEF IInv, IdInv, TypeOK, PubIds
  <1>10. Globals'
    <2>1. \A l \in Keys : FileInv(l)'
      <3>1. j.pub \notin stats.inflight
        <4>1. \A p \in stats.inflight : p \in Nat /\ p <= nextPub
          BY <1>1, InflightBound DEF TypeOK, Stats, PubIds
        <4> QED
          BY <1>2, <4>1
      <3>2. \A p \in published : p.pub # j.pub
        BY <1>2, <1>9
      <3>3. FileInv(k)'
        BY <1>1, <1>2, <1>3, <3>1, <3>2 DEF FileInv, ghosts
      <3>4. nextPub' >= nextPub /\ nextPub' \in Nat
        BY <1>1, <1>2
      <3> QED
        BY <1>1, <1>3, <3>3, <3>4, OtherFiles DEF ghosts
    <2>2. IdInv'
      <3>1. \A l \in Keys \ {k} : pending[l] # None => pending[l].pub \in Nat /\ pending[l].pub <= nextPub
        BY <1>1 DEF IInv, FileInv, TypeOK, Journal, PubIds
      <3>2. \A p \in published : p.pub <= nextPub + 1
        BY <1>2, <1>9
      <3>3. \A l \in Keys \ {k} : pending[l] # None => pending[l].pub # j.pub
        BY <1>2, <3>1
      <3> QED
        BY <1>1, <1>3, <3>2, <3>3 DEF IInv, IdInv, ghosts
    <2>3. InflightInv'
      BY <1>1, <1>3 DEF IInv, InflightInv
    <2>4. CountInv'
      <3>1. \A p \in published : p.pub # j.pub
        BY <1>2, <1>9
      <3>2. Uncounted' = Uncounted
        BY <1>1, <1>3, <1>9, <3>1 DEF Uncounted, ghosts
      <3> QED
        BY <1>1, <3>2 DEF IInv, CountInv, CountersExact, ghosts
    <2>5. \A l \in Keys : PayInv(l)'
      <3>1. \A l \in Keys, v \in Workers : InHand(v, l) => InHand(v, l)'
        <4>1. \A v \in Workers \ {w} : work'[v] = work[v]
          BY <1>4 DEF Moved
        <4> QED
          BY <1>1, <1>6, <4>1 DEF InHand
      <3> QED
        BY <1>1, <3>1, QuietPay DEF ghosts
    <2>6. LogKeepsReturned'
      BY <1>1 DEF IInv, LogKeepsReturned, ghosts
    <2> QED
      BY <2>1, <2>2, <2>3, <2>4, <2>5, <2>6 DEF Globals
  <1> QED
    BY <1>5, <1>7, <1>8, <1>10, Assemble

\* The entry reaches the disk; its publication waits in the pending journal.
LEMMA StoreEntryInvariant ==
    ASSUME IInv, NEW w \in Workers, StoreEntry(w)
    PROVE  IInv'
  <1> USE DEF KeyPCs, AccountPCs, FinPCs, CleanPCs, HitPCs, AppendPCs, HeldAppendPCs, StatsPCs,
              WritePCs, LogPCs
  <1>a. PICK k \in Keys : k = work[w].key
    BY DEF IInv, StoreEntry, At, Own, WorkInv
  <1>b. PICK j \in Journal : j = work[w].journal
    BY DEF IInv, StoreEntry, At, Own, WorkInv
  <1>c. PICK e : e = [pub |-> j.pub, result |-> work[w].result]
    OBVIOUS
  <1>d. PICK P : P = Publication(j, k)
    OBVIOUS
  <1>1. /\ TypeOK /\ work[w] \in Work /\ work[w].pc = "store" /\ Own(w)
        /\ work[w].key = k /\ work[w].journal = j /\ keyLock[k] = w /\ entry[k] = None
        /\ work[w].pub = j.pub /\ work[w].result \in Results
        /\ pending[k] = j /\ FileInv(k)
        /\ UNCHANGED <<pending, applied, stats, log, temps, locks, bounds, served, paid, lost, returned>>
    BY <1>a, <1>b DEF IInv, TypeOK, StoreEntry, At, Own, WorkInv, LockInv, KeyInv
  <1>2. entry' = [entry EXCEPT ![k] = e] /\ published' = published \cup {P}
    BY <1>1, <1>a, <1>b, <1>c, <1>d DEF StoreEntry, Key, Publication
  <1>3. /\ j # None /\ j.pub \in PubIds
        /\ e \in Entry /\ e \notin {None, Damaged} /\ e.pub = j.pub
        /\ P \in [pub : PubIds, key : Keys, misses : {0, 1}]
        /\ P.pub = j.pub /\ P.key = k /\ P.misses = j.misses
    <2>1. j.pub \in PubIds /\ j.misses \in {0, 1} /\ j # None
      BY CallAssumption DEF Journal
    <2>2. e \in Entry /\ e.pub = j.pub
      BY <1>1, <1>c, <2>1 DEF Entry
    <2>3. e # None /\ e # Damaged
      BY <2>1, <2>2, CallAssumption DEF Damaged, PubIds
    <2> QED
      BY <1>d, <2>1, <2>2, <2>3 DEF Publication
  <1>4. /\ entry'[k] = e /\ \A l \in Keys \ {k} : entry'[l] = entry[l]
        /\ entry' \in [Keys -> Entry \cup {Damaged, None}]
    BY <1>1, <1>2, <1>3 DEF TypeOK
  <1>5. Moved(w, [work[w] EXCEPT !.pc = "finLock"])
    BY <1>1, GotoMoves DEF StoreEntry, PCs, TypeOK
  <1>6. TypeOK'
    BY <1>1, <1>2, <1>3, <1>4, <1>5 DEF TypeOK, Moved, locks, bounds
  <1>7. Own(w)'
    <2>1. /\ work'[w].pc = "finLock" /\ work'[w].op = work[w].op /\ work'[w].key = k
          /\ work'[w].result = work[w].result /\ work'[w].pub = work[w].pub
          /\ work'[w].journal = j /\ work'[w].resume = work[w].resume
      BY <1>1, <1>5 DEF Moved, Work
    <2>2. WorkInv(w)'
      BY <1>1, <2>1 DEF Own, WorkInv
    <2>3. LockInv(w)' /\ KeyInv(w)' /\ LogInv(w)'
      BY <1>1, <1>3, <1>4, <2>1 DEF LockInv, KeyInv, LogInv, locks
    <2> QED
      BY <2>2, <2>3 DEF Own
  <1>8. \A v \in Workers \ {w} : Rely(v)
    BY <1>1, <1>4, <1>5, KeyFilesRely
  <1>9. /\ \A p \in published : p.pub # j.pub
        /\ j.pub \notin stats.inflight /\ j.pub <= nextPub /\ P \notin published
    BY <1>1, <1>3 DEF FileInv
  <1>10. Globals'
    <2>1. \A l \in Keys : FileInv(l)'
      <3>1. FileInv(k)'
        BY <1>1, <1>2, <1>3, <1>4, <1>9, <1>d DEF FileInv, bounds
      <3>2. ASSUME NEW l \in Keys \ {k} PROVE FileInv(l)'
        <4>1. FileInv(l) /\ (pending[l] # None => pending[l].pub # j.pub)
          BY <1>1, <1>3, JournalsDiffer DEF IInv
        <4> QED
          BY <1>1, <1>2, <1>3, <1>4, <4>1 DEF FileInv, bounds
      <3> QED
        BY <3>1, <3>2
    <2>2. IdInv'
      BY <1>1, <1>2, <1>3, <1>9 DEF IInv, IdInv, bounds
    <2>3. InflightInv'
      BY <1>1 DEF IInv, InflightInv
    <2>4. CountInv'
      <3>1. Uncounted' = Uncounted \cup {P}
        BY <1>1, <1>2, <1>3, <1>9 DEF Uncounted
      <3>2. (published \ Uncounted)' = published \ Uncounted
        BY <1>2, <1>9, <3>1
      <3>3. IsFiniteSet(published')
        BY <1>2, FS_AddElement DEF IInv, CountInv
      <3> QED
        BY <1>1, <3>2, <3>3 DEF IInv, CountInv, CountersExact
    <2>5. \A l \in Keys : PayInv(l)'
      <3>1. PayInv(k)'
        BY <1>1, <1>3, <1>4 DEF IInv, PayInv
      <3>2. ASSUME NEW l \in Keys \ {k} PROVE PayInv(l)'
        <4>1. \A v \in Workers : InHand(v, l) => InHand(v, l)'
          BY <1>1, <1>5 DEF Moved, InHand
        <4> QED
          BY <1>1, <1>4, <4>1 DEF IInv, PayInv
      <3> QED
        BY <3>1, <3>2
    <2>6. LogKeepsReturned'
      BY <1>1 DEF IInv, LogKeepsReturned
    <2> QED
      BY <2>1, <2>2, <2>3, <2>4, <2>5, <2>6 DEF Globals
  <1> QED
    BY <1>6, <1>7, <1>8, <1>10, Assemble

-----------------------------------------------------------------------------
(* The partial log.                                                        *)

\* A step of the worker that holds the log's lock.
LEMMA LogStep ==
    ASSUME IInv, NEW w \in Workers, NEW r, Moved(w, r), logLock = w,
           UNCHANGED <<entry, pending, applied, stats, bounds, published, served, paid, lost>>,
           keyLock' \in [Keys -> Workers \cup {None}], statsLock' \in Workers \cup {None},
           logLock' \in Workers \cup {None},
           \A v \in Workers \ {w} : /\ \A k \in Keys : keyLock[k] = v => keyLock'[k] = v
                                    /\ statsLock = v => statsLock' = v,
           log' \in [Keys -> Record \cup {None}], temps' \in Nat, returned' \in SUBSET Keys,
           work[w].pc \in LogPCs, Own(w)', LogKeepsReturned'
    PROVE  IInv'
  <1>1. TypeOK'
    BY DEF IInv, TypeOK, Moved, bounds
  <1>2. \A v \in Workers \ {w} : Rely(v)
    BY DEF Moved, Rely
  <1>3. \A k \in Keys : PayInv(k)'
    <2>1. \A k \in Keys, v \in Workers : InHand(v, k) => InHand(v, k)'
      BY DEF Moved, InHand, LogPCs, HeldAppendPCs
    <2> QED
      BY <2>1, QuietPay
  <1>4. Globals'
    BY <1>3, QuietFiles DEF Globals, bounds
  <1> QED
    BY <1>1, <1>2, <1>4, Assemble

\* The steps of an append: the temporary, the replacement, the restoration and the return.
LEMMA AppendInvariant ==
    ASSUME IInv, NEW w \in Workers, LogPrior(w) \/ LogReplace(w) \/ LogRestore(w) \/ LogRelease(w)
    PROVE  IInv'
  <1> USE DEF KeyPCs, AccountPCs, FinPCs, CleanPCs, HitPCs, AppendPCs, HeldAppendPCs, StatsPCs,
              WritePCs, LogPCs
  <1>0. work[w].pc \in HeldAppendPCs
    BY DEF LogPrior, LogReplace, LogRestore, LogRelease, At
  <1>a. PICK k \in Keys : k = work[w].key
    BY <1>0 DEF IInv, Own, WorkInv
  <1>1. /\ TypeOK /\ work[w] \in Work /\ work[w].pc \in HeldAppendPCs /\ Own(w)
        /\ work[w].key = k /\ work[w].op = "call" /\ work[w].pub \in PubIds /\ logLock = w
        /\ UNCHANGED <<entry, pending, applied, stats, bounds, published, served, paid, lost>>
    BY <1>0, <1>a DEF IInv, TypeOK, LogPrior, LogReplace, LogRestore, LogRelease, Own, WorkInv, LockInv, ghosts, files
  <1>2. CASE LogPrior(w)
    <2> DEFINE r == [work[w] EXCEPT !.pc = "logReplace", !.prior = log[k]]
    <2>1. /\ log[k] \in Record \cup {None} /\ temps \in Nat /\ temps' = temps + 1
          /\ k \in returned => log[k] # None
          /\ UNCHANGED <<log, locks, returned>>
      BY <1>1, <1>2 DEF IInv, TypeOK, LogKeepsReturned, LogPrior, ghosts
    <2>2. r \in Work
      <3>1. "logReplace" \in PCs
        BY DEF PCs
      <3> QED
        BY <1>1, <2>1, <3>1 DEF Work
    <2>3. work' = [work EXCEPT ![w] = r]
      BY <1>1, <1>2 DEF LogPrior, TypeOK, Key
    <2>4. Moved(w, r)
      BY <1>1, <2>2, <2>3, Moving DEF TypeOK
    <2>5. /\ work'[w].pc = "logReplace" /\ work'[w].key = k /\ work'[w].op = "call"
          /\ work'[w].prior = log[k] /\ work'[w].pub = work[w].pub
      BY <1>1, <2>4 DEF Moved, Work
    <2>6. WorkInv(w)'
      BY <1>1, <2>5 DEF WorkInv
    <2>7. LockInv(w)' /\ KeyInv(w)' /\ LogInv(w)'
      BY <1>1, <2>1, <2>5 DEF LockInv, KeyInv, LogInv, locks
    <2>8. LogKeepsReturned'
      BY <2>1 DEF IInv, LogKeepsReturned
    <2> QED
      BY <1>1, <2>1, <2>4, <2>6, <2>7, <2>8, LogStep DEF Own, TypeOK, locks
  <1>3. CASE LogReplace(w)
    <2>a. PICK new : new = [pub |-> work[w].pub, hit |-> work[w].hit,
                            failed |-> work[w].result # "generation"]
      OBVIOUS
    <2>1. /\ temps \in Nat /\ temps > 0 /\ temps' = temps - 1
          /\ log' = [log EXCEPT ![k] = new]
          /\ work[w].pc = "logReplace"
          /\ UNCHANGED <<locks, returned>>
      BY <1>1, <1>3, <2>a DEF TypeOK, Own, LogInv, LogReplace, ghosts, Key, At
    <2>2. new \in Record
      BY <1>1, <2>a DEF Record, Work
    <2>3. /\ new # None /\ log'[k] = new /\ log' \in [Keys -> Record \cup {None}]
          /\ \A l \in Keys \ {k} : log'[l] = log[l]
      BY <1>1, <2>1, <2>2, CallAssumption DEF TypeOK
    <2>4. Moved(w, [work[w] EXCEPT !.pc = "logCheck"])
      BY <1>1, <1>3, GotoMoves DEF LogReplace, PCs, TypeOK
    <2>5. /\ work'[w].pc = "logCheck" /\ work'[w].key = k /\ work'[w].op = "call"
          /\ work'[w].prior = work[w].prior /\ work'[w].pub = work[w].pub
      BY <1>1, <2>4 DEF Moved, Work
    <2>6. WorkInv(w)'
      BY <1>1, <2>5 DEF WorkInv
    <2>7. LockInv(w)' /\ KeyInv(w)' /\ LogInv(w)'
      BY <1>1, <2>1, <2>3, <2>5 DEF Own, LockInv, KeyInv, LogInv, locks
    <2>8. LogKeepsReturned'
      BY <1>1, <2>1, <2>3 DEF IInv, LogKeepsReturned, TypeOK
    <2>9. temps' \in Nat
      BY <2>1
    <2> QED
      BY <1>1, <2>1, <2>3, <2>4, <2>6, <2>7, <2>8, <2>9, LogStep DEF Own, TypeOK, locks
  <1>4. CASE LogRestore(w)
    <2>1. /\ log' = [log EXCEPT ![k] = work[w].prior] /\ Raise(w)
          /\ k \in returned => work[w].prior # None
          /\ work[w].prior \in Record \cup {None}
          /\ UNCHANGED <<temps, returned>>
      BY <1>1, <1>4 DEF Own, LogInv, LogRestore, At, Key, ghosts, Work
    <2>2. LogKeepsReturned'
      BY <1>1, <2>1 DEF IInv, LogKeepsReturned, TypeOK
    <2>3. log' \in [Keys -> Record \cup {None}]
      BY <1>1, <2>1 DEF TypeOK
    <2>4. Moved(w, Idle) /\ Own(w)'
      BY <1>1, <2>1, RaiseMoves, IdleOwn DEF Moved
    <2> QED
      BY <1>1, <2>1, <2>2, <2>3, <2>4, RaiseMoves, LogStep DEF TypeOK
  <1>5. CASE LogRelease(w)
    <2>1. /\ returned' = returned \cup {k} /\ Raise(w) /\ log[k] # None
          /\ UNCHANGED <<log, temps>>
      BY <1>1, <1>5 DEF Own, LogInv, LogRelease, At, Key, files
    <2>2. LogKeepsReturned'
      BY <1>1, <2>1 DEF IInv, LogKeepsReturned
    <2>3. Moved(w, Idle) /\ Own(w)'
      BY <1>1, <2>1, RaiseMoves, IdleOwn DEF Moved
    <2> QED
      BY <1>1, <2>1, <2>2, <2>3, RaiseMoves, LogStep DEF TypeOK
  <1> QED
    BY <1>2, <1>3, <1>4, <1>5

\* Records are deleted one by one, with the memory of what was returned.
LEMMA DeleteInvariant ==
    ASSUME IInv, NEW w \in Workers, (\E k \in Keys : Delete(w, k)) \/ Deleted(w)
    PROVE  IInv'
  <1> USE DEF KeyPCs, AccountPCs, FinPCs, CleanPCs, HitPCs, AppendPCs, HeldAppendPCs, StatsPCs,
              WritePCs, LogPCs
  <1>1. /\ TypeOK /\ work[w] \in Work /\ work[w].pc = "delete" /\ Own(w) /\ logLock = w
        /\ temps' = 0
        /\ UNCHANGED <<entry, pending, applied, stats, bounds, published, served, paid, lost>>
    BY DEF IInv, TypeOK, Delete, Deleted, At, Own, LockInv, ghosts
  <1>2. ASSUME NEW k \in Keys, Delete(w, k) PROVE IInv'
    <2>1. /\ log' = [log EXCEPT ![k] = None] /\ returned' = returned \ {k}
          /\ UNCHANGED <<locks, work>>
      BY <1>2 DEF Delete
    <2>2. Moved(w, work[w])
      BY <1>1, <2>1 DEF Moved, TypeOK
    <2>3. WorkInv(w)' /\ LockInv(w)' /\ KeyInv(w)' /\ LogInv(w)'
      BY <1>1, <2>1 DEF Own, WorkInv, LockInv, KeyInv, LogInv, locks
    <2>4. LogKeepsReturned'
      BY <1>1, <2>1 DEF IInv, LogKeepsReturned, TypeOK
    <2>5. log' \in [Keys -> Record \cup {None}] /\ returned' \in SUBSET Keys /\ temps' \in Nat
      BY <1>1, <2>1 DEF TypeOK
    <2> QED
      BY <1>1, <2>1, <2>2, <2>3, <2>4, <2>5, LogStep DEF Own, TypeOK, locks
  <1>3. CASE Deleted(w)
    <2>1. Raise(w) /\ UNCHANGED <<log, returned>>
      BY <1>3 DEF Deleted, ghosts
    <2>2. Moved(w, Idle) /\ Own(w)'
      BY <1>1, <2>1, RaiseMoves, IdleOwn DEF Moved
    <2>3. LogKeepsReturned' /\ temps' \in Nat
      BY <1>1, <2>1 DEF IInv, LogKeepsReturned
    <2> QED
      BY <1>1, <2>1, <2>2, <2>3, RaiseMoves, LogStep DEF TypeOK
  <1> QED
    BY <1>2, <1>3

-----------------------------------------------------------------------------
(* Faults.                                                                 *)

\* A worker dies wherever it is: what it held is released, and what it had paid for and
\* not stored is lost.
LEMMA CrashInvariant ==
    ASSUME IInv, NEW w \in Workers, Crash(w)
    PROVE  IInv'
  <1>1. /\ TypeOK /\ work[w] \in Work /\ Own(w) /\ Raise(w) /\ crashes' \in 0 .. MaxCrashes
        /\ UNCHANGED <<files, nextPub, ops, damage, published, served, paid, returned>>
    BY CallAssumption DEF IInv, TypeOK, Crash
  <1>2. CASE ~(work[w].op = "call" /\ work[w].pc \in {"pend", "store"})
    <2>1. UNCHANGED <<files, nextPub, ghosts>>
      BY <1>1, <1>2 DEF Crash, ghosts
    <2> QED
      BY <1>1, <1>2, <2>1, RaiseInvariant DEF TypeOK
  <1>3. CASE work[w].op = "call" /\ work[w].pc \in {"pend", "store"}
    <2>a. PICK k \in Keys : k = work[w].key
      BY <1>1, <1>3 DEF Own, WorkInv, KeyPCs
    <2>1. lost' = [lost EXCEPT ![k] = @ + 1] /\ lost[k] \in Nat /\ paid[k] \in Nat
      BY <1>1, <1>3, <2>a DEF Crash, Key, TypeOK
    <2>2. lost' \in [Keys -> Nat] /\ lost'[k] = lost[k] + 1 /\ \A l \in Keys \ {k} : lost'[l] = lost[l]
      BY <1>1, <2>1 DEF TypeOK
    <2>3. Moved(w, Idle) /\ Own(w)'
      BY <1>1, RaiseMoves, IdleOwn DEF Moved
    <2>4. TypeOK'
      BY <1>1, <2>2, <2>3, RaiseMoves DEF TypeOK, Moved, files
    <2>5. \A v \in Workers \ {w} : Rely(v)
      BY <1>1, RaiseMoves DEF Moved, Rely, files
    <2>6. \A l \in Keys : PayInv(l)'
      <3>1. PayInv(k)'
        BY <1>1, <2>1, <2>2 DEF IInv, PayInv, files
      <3>2. ASSUME NEW l \in Keys \ {k} PROVE PayInv(l)'
        <4>1. \A v \in Workers : InHand(v, l) => InHand(v, l)'
          BY <2>3, <2>a DEF Moved, InHand
        <4> QED
          BY <1>1, <2>2, <4>1 DEF IInv, PayInv, files
      <3> QED
        BY <3>1, <3>2
    <2>7. LogKeepsReturned'
      BY <1>1 DEF IInv, LogKeepsReturned, files
    <2>8. Globals'
      BY <1>1, <2>6, <2>7, QuietFiles DEF Globals, files
    <2> QED
      BY <2>3, <2>4, <2>5, <2>8, Assemble
  <1> QED
    BY <1>2, <1>3

\* An entry is damaged under whoever uses it.
LEMMA DamageInvariant ==
    ASSUME IInv, NEW k \in Keys, Damage(k)
    PROVE  IInv'
  <1>1. /\ TypeOK /\ entry[k] \notin {None, Damaged} /\ damage' \in 0 .. MaxDamage
        /\ entry' = [entry EXCEPT ![k] = Damaged] /\ lost' = [lost EXCEPT ![k] = @ + 1]
        /\ UNCHANGED <<pending, applied, stats, log, temps, locks, work, nextPub, ops, crashes,
                       published, served, paid, returned>>
    BY CallAssumption DEF IInv, TypeOK, Damage
  <1>2. /\ Damaged # None /\ entry'[k] = Damaged /\ \A l \in Keys \ {k} : entry'[l] = entry[l]
        /\ lost[k] \in Nat /\ paid[k] \in Nat /\ lost'[k] = lost[k] + 1
        /\ \A l \in Keys \ {k} : lost'[l] = lost[l]
    BY <1>1, CallAssumption DEF TypeOK
  <1>3. TypeOK'
    BY <1>1 DEF TypeOK, locks
  <1>4. \A w \in Workers : Own(w)'
    <2>1. ASSUME NEW w \in Workers PROVE Rely(w)
      BY <1>1, <1>2 DEF Rely, locks
    <2> QED
      BY <2>1, RelyKeeps DEF IInv
  <1>5. \A l \in Keys : FileInv(l)'
    BY <1>1, <1>2 DEF IInv, FileInv
  <1>6. \A l \in Keys : PayInv(l)'
    <2>1. PayInv(k)'
      BY <1>1, <1>2 DEF IInv, PayInv
    <2>2. ASSUME NEW l \in Keys \ {k} PROVE PayInv(l)'
      BY <1>1, <1>2 DEF IInv, PayInv, InHand
    <2> QED
      BY <2>1, <2>2
  <1>7. IdInv' /\ InflightInv' /\ CountInv' /\ LogKeepsReturned'
    BY <1>1 DEF IInv, IdInv, InflightInv, CountInv, CountersExact, Uncounted, LogKeepsReturned
  <1> QED
    BY <1>3, <1>4, <1>5, <1>6, <1>7 DEF IInv

-----------------------------------------------------------------------------
(* The theorems.                                                           *)

\* Nothing has happened yet.
LEMMA InitInvariant == Init => IInv
  <1> SUFFICES ASSUME Init PROVE IInv
    OBVIOUS
  <1>1. TypeOK
    <2>1. stats \in Stats /\ work \in [Workers -> Work]
      BY IdleType DEF Init, Stats
    <2> QED
      BY <2>1, CallAssumption DEF Init, TypeOK
  <1>2. \A w \in Workers : Own(w)
    BY CallAssumption
       DEF Init, Ops, Own, WorkInv, LockInv, KeyInv, LogInv, Idle, KeyPCs, AccountPCs, FinPCs, CleanPCs,
           HitPCs, AppendPCs, HeldAppendPCs, StatsPCs, WritePCs, LogPCs
  <1>3. (\A k \in Keys : FileInv(k)) /\ IdInv /\ InflightInv /\ LogKeepsReturned
    BY DEF Init, FileInv, IdInv, InflightInv, LogKeepsReturned
  <1>4. CountInv
    <2>1. published \ Uncounted = {} /\ {p \in published \ Uncounted : p.misses = 1} = {}
      BY DEF Init
    <2> QED
      BY <2>1, FS_EmptySet DEF Init, CountInv, CountersExact
  <1>5. \A k \in Keys : PayInv(k)
    BY DEF Init, PayInv
  <1> QED
    BY <1>1, <1>2, <1>3, <1>4, <1>5 DEF IInv

\* Every step of every worker, and every fault, keeps the invariant.
LEMMA NextInvariant == IInv /\ [Next]_vars => IInv'
  <1> SUFFICES ASSUME IInv, [Next]_vars PROVE IInv'
    OBVIOUS
  <1>1. ASSUME NEW w \in Workers, Step(w) PROVE IInv'
    <2>1. CASE Lock(w)
      BY <2>1, LockInvariant
    <2>2. CASE Reconcile(w)
      BY <2>2, ReconcileInvariant
    <2>3. CASE ReconcileRaises(w) \/ GetRaises(w)
      <3>1. Raise(w) /\ UNCHANGED <<files, bounds, ghosts>> /\ work[w].pc \in {"reconcile", "read"}
        BY <2>3 DEF ReconcileRaises, GetRaises, At
      <3> QED
        BY <3>1, RaiseInvariant DEF IInv, TypeOK, bounds
    <2>4. CASE Finalize(w)
      BY <2>4, StatsLockInvariant, StatsReadInvariant, FinWriteInvariant DEF Finalize
    <2>5. CASE Rename(w)
      BY <2>5, RenameInvariant
    <2>6. CASE Cleanup(w)
      BY <2>6, StatsLockInvariant, StatsReadInvariant, CleanWriteInvariant DEF Cleanup
    <2>7. CASE Unlink(w)
      BY <2>7, UnlinkInvariant
    <2>8. CASE ReadEntry(w)
      BY <2>8, ReadEntryInvariant
    <2>9. CASE Quarantine(w)
      BY <2>9, QuarantineInvariant
    <2>10. CASE NoteHit(w)
      BY <2>10, StatsLockInvariant, StatsReadInvariant, HitWriteInvariant DEF NoteHit
    <2>11. CASE \E o \in Outcomes : Attempt(w, o)
      BY <2>11, AttemptInvariant
    <2>12. CASE Pend(w)
      BY <2>12, PendInvariant
    <2>13. CASE StoreEntry(w)
      BY <2>13, StoreEntryInvariant
    <2>14. CASE Release(w)
      BY <2>14, ReleaseInvariant
    <2>15. CASE List(w) \/ (\E k \in Keys : NextKey(w, k)) \/ Total(w)
      BY <2>15, CountersInvariant
    <2>16. CASE LogLock(w, "logLock", "logPrior") \/ LogLock(w, "delLock", "delete")
      BY <2>16, LogLockInvariant
    <2>17. CASE LogPrior(w) \/ LogReplace(w) \/ LogRestore(w) \/ LogRelease(w)
      BY <2>17, AppendInvariant
    <2>18. CASE LogChecked(w)
      BY <2>18, LogCheckInvariant
    <2>19. CASE (\E k \in Keys : Delete(w, k)) \/ Deleted(w)
      BY <2>19, DeleteInvariant
    <2> QED
      BY <1>1, <2>1, <2>2, <2>3, <2>4, <2>5, <2>6, <2>7, <2>8, <2>9, <2>10, <2>11, <2>12, <2>13,
         <2>14, <2>15, <2>16, <2>17, <2>18, <2>19 DEF Step
  <1>2. ASSUME NEW w \in Workers, NEW op \in {"call", "put", "get"}, NEW k \in Keys, Begin(w, op, k)
        PROVE  IInv'
    BY <1>2, BeginInvariant
  <1>3. ASSUME NEW w \in Workers, NEW op \in {"counters", "delete"}, BeginSweep(w, op) PROVE IInv'
    BY <1>3, BeginSweepInvariant
  <1>4. ASSUME NEW w \in Workers, LogCheckFails(w) PROVE IInv'
    BY <1>4, LogCheckInvariant
  <1>5. ASSUME NEW w \in Workers, Crash(w) PROVE IInv'
    BY <1>5, CrashInvariant
  <1>6. ASSUME NEW k \in Keys, Damage(k) PROVE IInv'
    BY <1>6, DamageInvariant
  <1>7. CASE UNCHANGED vars
    <2>1. UNCHANGED <<files, locks, work, bounds, ghosts>>
      BY <1>7 DEF vars
    <2>2. TypeOK'
      BY <2>1 DEF IInv, TypeOK, files, locks, bounds, ghosts
    <2>3. ASSUME NEW w \in Workers PROVE Own(w)'
      <3>1. Rely(w)
        BY <2>1 DEF Rely, files, locks, ghosts
      <3> QED
        BY <3>1, RelyKeeps DEF IInv
    <2>4. \A k \in Keys : PayInv(k)'
      BY <2>1, QuietPay DEF InHand, files, ghosts
    <2>5. LogKeepsReturned'
      BY <2>1 DEF IInv, LogKeepsReturned, files, ghosts
    <2>6. UNCHANGED <<entry, pending, applied, stats, nextPub, published, served>>
      BY <2>1 DEF files, bounds, ghosts
    <2> QED
      BY <2>2, <2>3, <2>4, <2>5, <2>6, QuietFiles DEF IInv
  <1>8. CASE Rest
    BY <1>7, <1>8 DEF Rest
  <1> QED
    BY <1>1, <1>2, <1>3, <1>4, <1>5, <1>6, <1>7, <1>8 DEF Next

\* The invariant holds in every state of every behaviour.
THEOREM Invariance == Spec => []IInv
  BY InitInvariant, NextInvariant, PTL DEF Spec

\* Type correctness: every file, lock and operation keeps its shape; in particular the
\* temporaries of the partial log are never counted below zero.
THEOREM TypeCorrect == Spec => []TypeOK
  <1>1. IInv => TypeOK
    BY DEF IInv
  <1> QED
    BY Invariance, <1>1, PTL

\* Whatever workers die and whoever finishes their accounting, stats.json counts every
\* published entry once, and every hit (prompt_cache.py _finalize_accounting_locked).
THEOREM AccountingIsExact == Spec => []CountersExact
  <1>1. IInv => CountersExact
    BY DEF IInv, CountInv
  <1> QED
    BY Invariance, <1>1, PTL

\* The journals agree with the entries, so _reconcile_key_accounting_locked refuses only
\* damaged entries, and nothing stays in flight without a journal.
THEOREM AccountingIsReconcilable == Spec => []JournalsAgree
  <1>1. IInv => JournalsAgree
    <2> SUFFICES ASSUME IInv PROVE JournalsAgree
      OBVIOUS
    <2>1. ASSUME NEW k \in Keys
          PROVE  /\ Unaccountable(k) => entry[k] = Damaged
                 /\ applied[k] # None => entry[k] # None
      <3>1. FileInv(k)
        BY DEF IInv
      <3> QED
        BY <3>1 DEF FileInv, Unaccountable, Accounts
    <2> QED
      BY <2>1 DEF IInv, InflightInv, JournalsAgree
  <1> QED
    BY Invariance, <1>1, PTL

\* No key is paid for twice unless an answer to it was lost (prompt_cache.py execute_call).
THEOREM NoDoublePayment == Spec => []PaidOnce
  <1>1. IInv => PaidOnce
    BY DEF IInv, PayInv, PaidOnce
  <1> QED
    BY Invariance, <1>1, PTL

\* A returned call keeps its partial record through failed appends (partials.py
\* _restore_prior).
THEOREM RecordsSurvive == Spec => []LogKeepsReturned
  <1>1. IInv => LogKeepsReturned
    BY DEF IInv
  <1> QED
    BY Invariance, <1>1, PTL
=============================================================================
