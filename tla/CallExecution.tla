---------------------------- MODULE CallExecution ----------------------------
(***************************************************************************)
(* One LLM call: provider/llm_call.py execute_llm_call, the provider driver*)
(* it pays (provider/driver.py), the prompt result cache                   *)
(* (execution/prompt_cache.py) and the partial log                         *)
(* (execution/partials.py).  The workers are processes that share the cache*)
(* and the log through files and file locks; a worker may die at any file  *)
(* operation and its locks are then released.                              *)
(*                                                                         *)
(* A key stands for a cache key and for the key of its partial record.     *)
(* Publication ids (uuid4) are numbers handed out in order.                *)
(***************************************************************************)
EXTENDS Naturals, FiniteSets

CONSTANTS
    Workers,         \* processes that execute calls
    Keys,            \* prompt cache keys
    Outcomes,        \* transport outcomes that may be met
    MaxAttempts,     \* max_attempts of the execution policy
    MaxOps,          \* bound: operations started
    MaxCrashes,      \* bound: crashes, and operating system errors
    MaxDamage,       \* bound: entries damaged on disk
    None

Ops == {"call", "put", "get", "counters", "delete"}
Results == {"generation", "blank", "timeout", "rate_limit", "transport_error",
            "rejection", "malformed"}
PubIds == Nat \ {0}

\* _StoredEntry: its publication and the ProviderCallResult; provenance is that of
\* the publication.
Entry == [pub : PubIds, result : Results]
Damaged == [pub |-> 0, result |-> "malformed"]

\* _AccountingJournal
Journal == [pub : PubIds, misses : {0, 1}]

\* _StoredStats
Stats == [hits : Nat, misses : Nat, stores : Nat, inflight : SUBSET PubIds]

\* PartialCallRecord, as far as the cache decides it.
Record == [pub : PubIds, hit : BOOLEAN, failed : BOOLEAN]

ASSUME CallAssumption ==
    /\ Outcomes \subseteq {"text", "blank", "408", "rate_limited", "exhausted",
                           "transient", "permanent", "unknown"}
    /\ MaxAttempts \in Nat \ {0}
    /\ MaxOps \in Nat
    /\ MaxCrashes \in Nat
    /\ MaxDamage \in Nat
    /\ None \notin Workers \cup Keys \cup Ops \cup Results
    /\ None \notin Entry \cup {Damaged} \cup Journal \cup Stats \cup Record

VARIABLES
    entry,       \* cache entry file of each key
    pending,     \* pending accounting journal of each key
    applied,     \* applied accounting journal of each key
    stats,       \* stats.json
    keyLock,     \* holder of each key's lock
    statsLock,   \* holder of the stats lock
    log,         \* partial record of each key
    temps,       \* temporaries left in the partial log
    logLock,     \* holder of the partial log's lock
    work,        \* the operation each worker executes
    nextPub,     \* publication ids handed out
    ops, crashes, damage,
    \* what happened, for the properties:
    published,   \* publications whose entry reached the disk
    served,      \* hits noted
    paid,        \* provider calls finished for each key
    lost,        \* answers to each key that were paid for and lost
    returned     \* keys answered by a call since the log was deleted

files == <<entry, pending, applied, stats, log, temps>>
locks == <<keyLock, statsLock, logLock>>
bounds == <<nextPub, ops, crashes, damage>>
ghosts == <<published, served, paid, lost, returned>>
vars == <<files, locks, work, bounds, ghosts>>

Idle == [pc |-> "idle", op |-> None, key |-> None, todo |-> {}, attempt |-> 0,
         result |-> None, pub |-> 0, hit |-> FALSE, journal |-> None,
         resume |-> None, seen |-> None, prior |-> None]

PCs == {"idle", "lock", "reconcile", "read", "attempt", "pend", "store",
        "finLock", "finRead", "finWrite", "rename", "cleanLock", "cleanRead",
        "cleanWrite", "unlink", "hitLock", "hitRead", "hitWrite", "release",
        "logLock", "logPrior", "logReplace", "logCheck", "logRestore",
        "logRelease", "list", "total", "delLock", "delete"}

\* One operation as its worker executes it.
Work == [pc : PCs, op : Ops \cup {None}, key : Keys \cup {None},
         todo : SUBSET Keys, attempt : 0 .. MaxAttempts,
         result : Results \cup {None}, pub : Nat,
         hit : BOOLEAN, journal : Journal \cup {None},
         resume : {"read", "release", None},
         seen : Stats \cup {None}, prior : Record \cup {None}]

TypeOK ==
    /\ entry \in [Keys -> Entry \cup {Damaged, None}]
    /\ pending \in [Keys -> Journal \cup {None}]
    /\ applied \in [Keys -> Journal \cup {None}]
    /\ stats \in Stats
    /\ keyLock \in [Keys -> Workers \cup {None}]
    /\ statsLock \in Workers \cup {None}
    /\ log \in [Keys -> Record \cup {None}]
    /\ temps \in Nat
    /\ logLock \in Workers \cup {None}
    /\ work \in [Workers -> Work]
    /\ nextPub \in Nat
    /\ ops \in 0 .. MaxOps
    /\ crashes \in 0 .. MaxCrashes
    /\ damage \in 0 .. MaxDamage
    /\ published \in SUBSET [pub : PubIds, key : Keys, misses : {0, 1}]
    /\ served \in Nat
    /\ paid \in [Keys -> Nat]
    /\ lost \in [Keys -> Nat]
    /\ returned \in SUBSET Keys

Init ==
    /\ entry = [k \in Keys |-> None]
    /\ pending = [k \in Keys |-> None]
    /\ applied = [k \in Keys |-> None]
    /\ stats = [hits |-> 0, misses |-> 0, stores |-> 0, inflight |-> {}]
    /\ keyLock = [k \in Keys |-> None]
    /\ statsLock = None
    /\ log = [k \in Keys |-> None]
    /\ temps = 0
    /\ logLock = None
    /\ work = [w \in Workers |-> Idle]
    /\ nextPub = 0 /\ ops = 0 /\ crashes = 0 /\ damage = 0
    /\ published = {} /\ served = 0
    /\ paid = [k \in Keys |-> 0]
    /\ lost = [k \in Keys |-> 0]
    /\ returned = {}

At(w, pc) == work[w].pc = pc
Goto(w, pc) == work' = [work EXCEPT ![w].pc = pc]
Key(w) == work[w].key

-----------------------------------------------------------------------------
(* Operations begin.                                                       *)

\* execute_call, PromptResultCache.put or get_result for a key.
Begin(w, op, k) ==
    /\ At(w, "idle")
    /\ ops < MaxOps
    /\ ops' = ops + 1
    /\ work' = [work EXCEPT ![w] = [Idle EXCEPT !.pc = "lock", !.op = op, !.key = k,
                                       !.result = IF op = "put" THEN "generation" ELSE None]]
    /\ UNCHANGED <<files, locks, nextPub, crashes, damage, ghosts>>

\* counters or PartialLog.delete, which take no key.
BeginSweep(w, op) ==
    /\ At(w, "idle")
    /\ ops < MaxOps
    /\ ops' = ops + 1
    /\ work' = [work EXCEPT ![w] = [Idle EXCEPT !.op = op,
                                       !.pc = IF op = "counters" THEN "list" ELSE "delLock"]]
    /\ UNCHANGED <<files, locks, nextPub, crashes, damage, ghosts>>

\* Mutant: the key's file lock is not waited for.
LockIgnored(w) ==
    /\ At(w, "lock")
    /\ keyLock' = [keyLock EXCEPT ![Key(w)] = w]
    /\ Goto(w, "reconcile")
    /\ UNCHANGED <<files, statsLock, logLock, bounds, ghosts>>

Lock(w) ==
    /\ At(w, "lock")
    /\ keyLock[Key(w)] = None
    /\ keyLock' = [keyLock EXCEPT ![Key(w)] = w]
    /\ Goto(w, "reconcile")
    /\ UNCHANGED <<files, statsLock, logLock, bounds, ghosts>>

\* An exception leaves the with blocks: the locks are released and the call raises.
Unlock(w) ==
    /\ keyLock' = [k \in Keys |-> IF keyLock[k] = w THEN None ELSE keyLock[k]]
    /\ statsLock' = IF statsLock = w THEN None ELSE statsLock
    /\ logLock' = IF logLock = w THEN None ELSE logLock

Raise(w) == Unlock(w) /\ work' = [work EXCEPT ![w] = Idle]

-----------------------------------------------------------------------------
(* Accounting: _reconcile_key_accounting_locked, _finalize_accounting_locked *)
(* and _cleanup_applied_accounting_locked.                                 *)

Reconciled(w) == IF work[w].op = "counters" THEN "release" ELSE "read"

\* The journal's publication is the one in the entry (_validate_accounted_entry).
Accounts(journal, k) == entry[k] \notin {None, Damaged} /\ entry[k].pub = journal.pub

\* The journals that _reconcile_key_accounting_locked refuses.
Unaccountable(k) ==
    \/ pending[k] # None /\ applied[k] # None
    \/ applied[k] # None /\ ~Accounts(applied[k], k)
    \/ pending[k] # None /\ entry[k] # None /\ ~Accounts(pending[k], k)

Reconcile(w) ==
    LET k == Key(w)
        Take(journal, pc) ==
            work' = [work EXCEPT ![w].pc = pc, ![w].journal = journal, ![w].resume = Reconciled(w)]
    IN  /\ At(w, "reconcile")
        /\ ~Unaccountable(k)
        /\ \/ /\ applied[k] # None
              /\ Take(applied[k], "cleanLock")
              /\ UNCHANGED pending
           \/ /\ pending[k] # None /\ entry[k] = None
              /\ pending' = [pending EXCEPT ![k] = None]
              /\ Goto(w, Reconciled(w))
           \/ /\ pending[k] # None /\ entry[k] # None
              /\ Take(pending[k], "finLock")
              /\ UNCHANGED pending
           \/ /\ pending[k] = None /\ applied[k] = None
              /\ Goto(w, Reconciled(w))
              /\ UNCHANGED pending
        /\ UNCHANGED <<entry, applied, stats, log, temps, locks, bounds, ghosts>>

ReconcileRaises(w) ==
    /\ At(w, "reconcile")
    /\ Unaccountable(Key(w))
    /\ Raise(w)
    /\ UNCHANGED <<files, bounds, ghosts>>

\* The stats lock is taken for the read, the change and the write of stats.json.
StatsLock(w, here, next) ==
    /\ At(w, here)
    /\ statsLock = None
    /\ statsLock' = w
    /\ Goto(w, next)
    /\ UNCHANGED <<files, keyLock, logLock, bounds, ghosts>>

StatsRead(w, here, next) ==
    /\ At(w, here)
    /\ work' = [work EXCEPT ![w].pc = next, ![w].seen = stats]
    /\ UNCHANGED <<files, locks, bounds, ghosts>>

StatsWrite(w, here, next, new) ==
    /\ At(w, here)
    /\ stats' = new
    /\ statsLock' = None
    /\ work' = [work EXCEPT ![w].pc = next, ![w].seen = None]
    /\ UNCHANGED <<entry, pending, applied, log, temps, keyLock, logLock, bounds,
                   published, paid, lost, returned>>

\* Mutant: a publication that is in flight is counted again.
CountedAgain(seen, journal) ==
    [seen EXCEPT !.misses = @ + journal.misses,
                 !.stores = @ + 1,
                 !.inflight = @ \cup {journal.pub}]

\* A publication already in flight was counted before a crash.
Counted(seen, journal) ==
    IF journal.pub \in seen.inflight THEN seen
    ELSE [seen EXCEPT !.misses = @ + journal.misses,
                      !.stores = @ + 1,
                      !.inflight = @ \cup {journal.pub}]

\* Mutant: the publication is left in flight.
SettledNot(seen, journal) == seen

Settled(seen, journal) == [seen EXCEPT !.inflight = @ \ {journal.pub}]

Finalize(w) ==
    \/ StatsLock(w, "finLock", "finRead")
    \/ StatsRead(w, "finRead", "finWrite")
    \/ StatsWrite(w, "finWrite", "rename", Counted(work[w].seen, work[w].journal)) /\ UNCHANGED served

\* os.replace(pending_path, applied_path)
Rename(w) ==
    /\ At(w, "rename")
    /\ applied' = [applied EXCEPT ![Key(w)] = pending[Key(w)]]
    /\ pending' = [pending EXCEPT ![Key(w)] = None]
    /\ Goto(w, "cleanLock")
    /\ UNCHANGED <<entry, stats, log, temps, locks, bounds, ghosts>>

Cleanup(w) ==
    \/ StatsLock(w, "cleanLock", "cleanRead")
    \/ StatsRead(w, "cleanRead", "cleanWrite")
    \/ StatsWrite(w, "cleanWrite", "unlink", Settled(work[w].seen, work[w].journal)) /\ UNCHANGED served

Unlink(w) ==
    /\ At(w, "unlink")
    /\ applied' = [applied EXCEPT ![Key(w)] = None]
    /\ work' = [work EXCEPT ![w].pc = work[w].resume, ![w].journal = None, ![w].resume = None]
    /\ UNCHANGED <<entry, pending, stats, log, temps, locks, bounds, ghosts>>

-----------------------------------------------------------------------------
(* execute_call and PromptResultCache under the key lock.                  *)

\* An intact entry answers a call and a put; get_result returns what it finds.
ReadEntry(w) ==
    LET k == Key(w)
        found == entry[k]
        op == work[w].op
    IN  /\ At(w, "read")
        /\ found # Damaged
        /\ \/ op = "get" /\ Goto(w, "release")
           \/ op = "put" /\ Goto(w, IF found = None THEN "pend" ELSE "release")
           \/ op = "call" /\ found = None /\ Goto(w, "attempt")
           \/ /\ op = "call" /\ found # None
              /\ work' = [work EXCEPT ![w].pc = "hitLock", ![w].hit = TRUE,
                                      ![w].pub = found.pub, ![w].result = found.result]
        /\ UNCHANGED <<files, locks, bounds, ghosts>>

\* A corrupt entry is a loud miss: it is moved aside and the answer recomputed.
Quarantine(w) ==
    /\ At(w, "read")
    /\ entry[Key(w)] = Damaged
    /\ work[w].op # "get"
    /\ entry' = [entry EXCEPT ![Key(w)] = None]
    /\ Goto(w, IF work[w].op = "put" THEN "pend" ELSE "attempt")
    /\ UNCHANGED <<pending, applied, stats, log, temps, locks, bounds, ghosts>>

GetRaises(w) ==
    /\ At(w, "read")
    /\ entry[Key(w)] = Damaged
    /\ work[w].op = "get"
    /\ Raise(w)
    /\ UNCHANGED <<files, bounds, ghosts>>

NoteHit(w) ==
    \/ StatsLock(w, "hitLock", "hitRead")
    \/ StatsRead(w, "hitRead", "hitWrite")
    \/ /\ StatsWrite(w, "hitWrite", "release", [work[w].seen EXCEPT !.hits = @ + 1])
       /\ served' = served + 1

\* classify_outcome
Classify(outcome) ==
    CASE outcome = "text" -> "generation"
      [] outcome = "blank" -> "blank"
      [] outcome = "408" -> "timeout"
      [] outcome \in {"rate_limited", "exhausted"} -> "rate_limit"
      [] outcome = "transient" -> "transport_error"
      [] outcome = "permanent" -> "rejection"
      [] OTHER -> "malformed"

\* default_retry_eligibility
Retryable(class) == class \in {"transport_error", "rate_limit", "timeout"}

\* One attempt of _Driver.run; the result is that of the last one.
Attempt(w, outcome) ==
    LET class == Classify(outcome)
        n == work[w].attempt + 1
        again == Retryable(class) /\ n < MaxAttempts
    IN  /\ At(w, "attempt")
        /\ work' = IF again THEN [work EXCEPT ![w].attempt = n]
                   ELSE [work EXCEPT ![w].pc = "pend", ![w].attempt = 0, ![w].result = class]
        /\ paid' = IF again THEN paid ELSE [paid EXCEPT ![Key(w)] = @ + 1]
        /\ UNCHANGED <<files, locks, bounds, published, served, lost, returned>>

\* _publish_entry: first the journal, then the entry.
Pend(w) ==
    LET journal == [pub |-> nextPub + 1, misses |-> IF work[w].op = "call" THEN 1 ELSE 0]
    IN  /\ At(w, "pend")
        /\ nextPub' = nextPub + 1
        /\ pending' = [pending EXCEPT ![Key(w)] = journal]
        /\ work' = [work EXCEPT ![w].pc = "store", ![w].pub = nextPub + 1, ![w].journal = journal,
                                ![w].resume = "release"]
        /\ UNCHANGED <<entry, applied, stats, log, temps, locks, ops, crashes, damage, ghosts>>

StoreEntry(w) ==
    LET k == Key(w) IN
    /\ At(w, "store")
    /\ entry' = [entry EXCEPT ![k] = [pub |-> work[w].pub, result |-> work[w].result]]
    /\ published' = published \cup
           {[pub |-> work[w].pub, key |-> k, misses |-> work[w].journal.misses]}
    /\ Goto(w, "finLock")
    /\ UNCHANGED <<pending, applied, stats, log, temps, locks, bounds, served, paid, lost, returned>>

\* The key lock is released; a call goes on to the partial log.
Release(w) ==
    /\ At(w, "release")
    /\ keyLock' = [keyLock EXCEPT ![Key(w)] = None]
    /\ \/ work[w].op = "call" /\ Goto(w, "logLock")
       \/ work[w].op = "counters" /\ work' = [work EXCEPT ![w].pc = "total", ![w].key = None]
       \/ work[w].op \in {"put", "get"} /\ work' = [work EXCEPT ![w] = Idle]
    /\ UNCHANGED <<files, statsLock, logLock, bounds, ghosts>>

-----------------------------------------------------------------------------
(* counters: every key with a journal is reconciled, then the stats are read. *)

List(w) ==
    /\ At(w, "list")
    /\ work' = [work EXCEPT ![w].pc = "total",
                            ![w].todo = {k \in Keys : pending[k] # None \/ applied[k] # None}]
    /\ UNCHANGED <<files, locks, bounds, ghosts>>

NextKey(w, k) ==
    /\ At(w, "total")
    /\ k \in work[w].todo
    /\ work' = [work EXCEPT ![w].pc = "lock", ![w].key = k, ![w].todo = @ \ {k}]
    /\ UNCHANGED <<files, locks, bounds, ghosts>>

Total(w) ==
    /\ At(w, "total")
    /\ work[w].todo = {}
    /\ statsLock = None
    /\ work' = [work EXCEPT ![w] = Idle]
    /\ UNCHANGED <<files, locks, bounds, ghosts>>

-----------------------------------------------------------------------------
(* PartialLog.append, with the record of the call, and delete.             *)

\* Mutant: the log's file lock is not waited for.
LogLockIgnored(w, here, next) ==
    /\ At(w, here)
    /\ logLock' = w
    /\ Goto(w, next)
    /\ UNCHANGED <<files, keyLock, statsLock, bounds, ghosts>>

LogLock(w, here, next) ==
    /\ At(w, here)
    /\ logLock = None
    /\ logLock' = w
    /\ Goto(w, next)
    /\ UNCHANGED <<files, keyLock, statsLock, bounds, ghosts>>

\* _validate_existing_key, then the new frame in a temporary.
LogPrior(w) ==
    /\ At(w, "logPrior")
    /\ temps' = temps + 1
    /\ work' = [work EXCEPT ![w].pc = "logReplace", ![w].prior = log[Key(w)]]
    /\ UNCHANGED <<entry, pending, applied, stats, log, locks, bounds, ghosts>>

LogReplace(w) ==
    /\ At(w, "logReplace")
    /\ temps' = temps - 1
    /\ log' = [log EXCEPT ![Key(w)] =
           [pub |-> work[w].pub, hit |-> work[w].hit, failed |-> work[w].result # "generation"]]
    /\ Goto(w, "logCheck")
    /\ UNCHANGED <<entry, pending, applied, stats, locks, bounds, ghosts>>

LogChecked(w) ==
    /\ At(w, "logCheck")
    /\ Goto(w, "logRelease")
    /\ UNCHANGED <<files, locks, bounds, ghosts>>

\* The directory cannot be synced or the published entry is not what was written.
LogCheckFails(w) ==
    /\ At(w, "logCheck")
    /\ crashes < MaxCrashes
    /\ crashes' = crashes + 1
    /\ Goto(w, "logRestore")
    /\ UNCHANGED <<files, locks, nextPub, ops, damage, ghosts>>

\* _restore_prior, and the append raises.
LogRestore(w) ==
    /\ At(w, "logRestore")
    /\ log' = [log EXCEPT ![Key(w)] = work[w].prior]
    /\ Raise(w)
    /\ UNCHANGED <<entry, pending, applied, stats, temps, bounds, ghosts>>

LogRelease(w) ==
    /\ At(w, "logRelease")
    /\ returned' = returned \cup {Key(w)}
    /\ Raise(w)
    /\ UNCHANGED <<files, bounds, published, served, paid, lost>>

\* delete unlinks the records one by one, the temporaries with them.
Delete(w, k) ==
    /\ At(w, "delete")
    /\ log[k] # None
    /\ log' = [log EXCEPT ![k] = None]
    /\ temps' = 0
    /\ returned' = returned \ {k}
    /\ UNCHANGED <<entry, pending, applied, stats, locks, work, bounds, published, served, paid, lost>>

Deleted(w) ==
    /\ At(w, "delete")
    /\ \A k \in Keys : log[k] = None
    /\ temps' = 0
    /\ Raise(w)
    /\ UNCHANGED <<entry, pending, applied, stats, log, bounds, ghosts>>

-----------------------------------------------------------------------------
(* Faults.                                                                 *)

\* The process dies, or an operating system error unwinds the call.
Crash(w) ==
    /\ ~At(w, "idle")
    /\ crashes < MaxCrashes
    /\ crashes' = crashes + 1
    /\ Raise(w)
    /\ lost' = IF work[w].op = "call" /\ work[w].pc \in {"pend", "store"}
               THEN [lost EXCEPT ![Key(w)] = @ + 1] ELSE lost
    /\ UNCHANGED <<files, nextPub, ops, damage, published, served, paid, returned>>

\* An entry is damaged on disk.
Damage(k) ==
    /\ entry[k] \notin {None, Damaged}
    /\ damage < MaxDamage
    /\ damage' = damage + 1
    /\ entry' = [entry EXCEPT ![k] = Damaged]
    /\ lost' = [lost EXCEPT ![k] = @ + 1]
    /\ UNCHANGED <<pending, applied, stats, log, temps, locks, work, nextPub, ops, crashes,
                   published, served, paid, returned>>

\* The bound on operations is reached and every worker came back.  Any other state
\* without a step is a deadlock: workers that wait for each other's locks.
Rest ==
    /\ ops = MaxOps
    /\ \A w \in Workers : At(w, "idle")
    /\ UNCHANGED vars

-----------------------------------------------------------------------------
Step(w) ==
    \/ Lock(w) \/ Reconcile(w) \/ ReconcileRaises(w) \/ Finalize(w) \/ Rename(w)
    \/ Cleanup(w) \/ Unlink(w) \/ ReadEntry(w) \/ Quarantine(w) \/ GetRaises(w)
    \/ NoteHit(w) \/ (\E o \in Outcomes : Attempt(w, o)) \/ Pend(w) \/ StoreEntry(w)
    \/ Release(w) \/ List(w) \/ (\E k \in Keys : NextKey(w, k)) \/ Total(w)
    \/ LogLock(w, "logLock", "logPrior") \/ LogPrior(w) \/ LogReplace(w) \/ LogChecked(w)
    \/ LogRestore(w) \/ LogRelease(w) \/ LogLock(w, "delLock", "delete")
    \/ (\E k \in Keys : Delete(w, k)) \/ Deleted(w)

Next ==
    \/ \E w \in Workers :
        \/ Step(w)
        \/ \E op \in {"call", "put", "get"}, k \in Keys : Begin(w, op, k)
        \/ \E op \in {"counters", "delete"} : BeginSweep(w, op)
        \/ LogCheckFails(w)
        \/ Crash(w)
    \/ \E k \in Keys : Damage(k)
    \/ Rest

Spec == Init /\ [][Next]_vars

-----------------------------------------------------------------------------
(* Properties.                                                             *)

\* Publications whose accounting still waits in a pending journal.
Uncounted == {p \in published : /\ pending[p.key] # None
                                /\ pending[p.key].pub = p.pub
                                /\ p.pub \notin stats.inflight}

\* Wherever a process dies between publishing an entry and forgetting its journals,
\* and whoever finishes its accounting, every publication is counted once: the stores
\* and misses of stats.json are those of the published entries whose journal is not
\* still to be applied, and no hit is lost to a concurrent update (prompt_cache.py,
\* _finalize_accounting_locked and _reconcile_key_accounting_locked).
CountersExact ==
    LET counted == published \ Uncounted
    IN  /\ stats.stores = Cardinality(counted)
        /\ stats.misses = Cardinality({p \in counted : p.misses = 1})
        /\ stats.hits = served

\* A key never has both journals, a journal names the entry it accounts for unless that
\* entry was damaged or is still to be written, and stats.json keeps no publication in
\* flight that no journal would remove: the refusals of _reconcile_key_accounting_locked
\* other than for a damaged entry are never met and the in-flight list cannot leak.
JournalsAgree ==
    /\ \A k \in Keys :
        /\ Unaccountable(k) => entry[k] = Damaged
        /\ applied[k] # None => entry[k] # None
    /\ \A p \in stats.inflight : \E k \in Keys :
        \/ pending[k] # None /\ pending[k].pub = p
        \/ applied[k] # None /\ applied[k].pub = p

\* An answer is paid for again only after one was lost: to a crash before it reached the
\* cache, or to damage on disk.  Concurrent calls of one key never both pay
\* (prompt_cache.py, execute_call).
PaidOnce == \A k \in Keys : paid[k] <= 1 + lost[k]

\* A call that returned has its record in the partial log, also when a later append for
\* its key fails and rolls back while others append (partials.py, _restore_prior).
LogKeepsReturned == \A k \in returned : log[k] # None

=============================================================================
