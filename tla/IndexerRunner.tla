--------------------------- MODULE IndexerRunner ---------------------------
(***************************************************************************)
(* The indexer's runners for one chain: several processes that compete for *)
(* one Redis lease and, while they believe they hold it, copy the logs of  *)
(* confirmed blocks into the database and move a shared checkpoint.  Every *)
(* await of run() and syncOnce() is a separate step, so that the lease can *)
(* expire, the chain can grow or reorganise and another runner can work    *)
(* between any two of them.  Processes crash, are shut down and restarted; *)
(* RPC, database and Redis calls fail.                                     *)
(*                                                                         *)
(* A log is identified by its place in chain order and the hash of the     *)
(* block it was read from.  Applying it (EventProcessorService.process) is *)
(* one database transaction that also inserts the log's key, so a second   *)
(* application does nothing.                                               *)
(***************************************************************************)
EXTENDS Integers, Sequences

CONSTANTS
    Workers,            \* runner processes of this chain
    Nobody,             \* the lease is free
    Orphan,             \* the lease carries the token of a process that is gone
    NumLogs,            \* logs 1 .. NumLogs, in chain order
    MaxBlock,           \* highest block that is ever mined
    blockOf,            \* the block each log is in
    confirmations, range,
    MaxReorgDepth,      \* blocks a reorganisation can replace, from the head
    MaxForks,           \* bound on reorganisations
    MaxFaults,          \* bound on failures, crashes, shutdowns and lost leases
    MayBackfill,        \* workers that may be started in backfill mode
    AcquireMayFail      \* workers whose Redis may be away while they ask for the lease

Blocks == 1 .. MaxBlock
Logs   == 1 .. NumLogs

ASSUME RunnerAssumption ==
    /\ Nobody \notin Workers /\ Orphan \notin Workers /\ Nobody # Orphan
    /\ NumLogs \in Nat /\ MaxBlock \in Nat
    /\ blockOf \in [Logs -> Blocks]
    /\ \A p, q \in Logs : p <= q => blockOf[p] <= blockOf[q]
    /\ confirmations \in Nat
    /\ range \in Nat \ {0}
    /\ MaxReorgDepth \in Nat /\ MaxForks \in Nat /\ MaxFaults \in Nat
    /\ MayBackfill \subseteq Workers
    /\ AcquireMayFail \subseteq Workers

VARIABLES
    head,               \* number of the latest block
    hash,               \* block number -> the fork its current block is on
    forks,              \* forks so far
    lock,               \* holder of the Redis key, which may have expired
    cpNumber, cpHash,   \* indexer_state: 0 before the first checkpoint
    ledger,             \* indexed_events, in the order they were committed
    mode, pc, hasLease, stopped,
    safeHead, from, to, \* syncOnce's bounds
    todo,               \* logs of the range not yet handed to the processor
    view,               \* the hashes that were current when they were fetched
    held,               \* the block hash read last
    faults

chain   == <<head, hash, forks>>
db      == <<cpNumber, cpHash, ledger>>
process == <<mode, stopped>>
job     == <<safeHead, from, to, todo, view, held>>
vars    == <<chain, lock, db, process, pc, hasLease, job, faults>>

startBlock == 1
Unseen == [b \in Blocks |-> 0]
Fault == faults < MaxFaults /\ faults' = faults + 1

Init ==
    /\ head = 0
    /\ hash = Unseen
    /\ forks = 0
    /\ lock = Nobody
    /\ cpNumber = 0 /\ cpHash = 0
    /\ ledger = <<>>
    /\ mode \in [Workers -> {"live", "backfill"}]
    /\ \A w \in Workers \ MayBackfill : mode[w] = "live"
    /\ pc = [w \in Workers |-> "acquire"]
    /\ hasLease = [w \in Workers |-> FALSE]
    /\ stopped = [w \in Workers |-> FALSE]
    /\ safeHead = [w \in Workers |-> 0]
    /\ from = [w \in Workers |-> startBlock]
    /\ to = [w \in Workers |-> 0]
    /\ todo = [w \in Workers |-> {}]
    /\ view = [w \in Workers |-> Unseen]
    /\ held = [w \in Workers |-> 0]
    /\ faults = 0

-----------------------------------------------------------------------------
(* The chain.                                                              *)

Mine ==
    /\ head < MaxBlock
    /\ head' = head + 1
    /\ UNCHANGED <<hash, forks, lock, db, process, pc, hasLease, job, faults>>

\* The blocks from b on are replaced, and later blocks extend the new fork.
Reorganise(b) ==
    /\ forks < MaxForks
    /\ b <= head
    /\ b > head - MaxReorgDepth
    /\ forks' = forks + 1
    /\ hash' = [x \in Blocks |-> IF x >= b THEN forks + 1 ELSE hash[x]]
    /\ UNCHANGED <<head, lock, db, process, pc, hasLease, job, faults>>

-----------------------------------------------------------------------------
(* run(): the lease, and the loop around syncOnce.                         *)

Goto(w, label) == pc' = [pc EXCEPT ![w] = label]

\* Where a finished or failed syncOnce leads: a backfill leaves the loop.
AlwaysFinish(w) == "finish"
AfterSync(w) == IF mode[w] = "backfill" THEN "finish" ELSE "delay"

Acquire(w) ==
    /\ pc[w] = "acquire"
    /\ \/ /\ hasLease[w]
          /\ Goto(w, "refresh")
          /\ UNCHANGED <<lock, hasLease>>
       \/ /\ ~hasLease[w] /\ lock = Nobody
          /\ lock' = w
          /\ hasLease' = [hasLease EXCEPT ![w] = TRUE]
          /\ Goto(w, "refresh")
       \/ /\ ~hasLease[w] /\ lock # Nobody
          /\ Goto(w, IF mode[w] = "backfill" \/ stopped[w] THEN "finish" ELSE "delay")
          /\ UNCHANGED <<lock, hasLease>>
    /\ UNCHANGED <<chain, db, process, job, faults>>

\* setIfAbsent rejects outside the loop's inner try: the loop is over.
AcquireFails(w) ==
    /\ pc[w] = "acquire"
    /\ ~hasLease[w]
    /\ w \in AcquireMayFail
    /\ Fault
    /\ Goto(w, "finish")
    /\ UNCHANGED <<chain, lock, db, process, hasLease, job>>

\* syncOnce's local variables are gone when it has returned.
ForgetJob(w) ==
    /\ safeHead' = [safeHead EXCEPT ![w] = 0]
    /\ from' = [from EXCEPT ![w] = startBlock]
    /\ to' = [to EXCEPT ![w] = 0]
    /\ todo' = [todo EXCEPT ![w] = {}]
    /\ view' = [view EXCEPT ![w] = Unseen]
    /\ held' = [held EXCEPT ![w] = 0]

Delay(w) ==
    /\ pc[w] = "delay"
    /\ Goto(w, IF stopped[w] THEN "finish" ELSE "acquire")
    /\ ForgetJob(w)
    /\ UNCHANGED <<chain, lock, db, process, hasLease, faults>>

\* Deleting the Redis key, if it still carries this worker's token.
Release(w) == IF lock = w THEN Nobody ELSE lock

\* The finally block; the release itself may fail, and then the key stays
\* until it expires.
Finish(w) ==
    /\ pc[w] = "finish"
    /\ Goto(w, "done")
    /\ hasLease' = [hasLease EXCEPT ![w] = FALSE]
    /\ \/ /\ lock' = IF hasLease[w] THEN Release(w) ELSE lock
          /\ UNCHANGED faults
       \/ /\ hasLease[w] /\ Fault /\ UNCHANGED lock
    /\ ForgetJob(w)
    /\ UNCHANGED <<chain, db, process>>

-----------------------------------------------------------------------------
(* syncOnce(), one step per await.                                         *)

\* lock.refresh: continue at `label` with the lease, or report it lost.
RefreshOr(w, label) ==
    \/ /\ lock = w
       /\ Goto(w, label)
       /\ UNCHANGED hasLease
    \/ /\ lock # w
       /\ hasLease' = [hasLease EXCEPT ![w] = FALSE]
       /\ Goto(w, AfterSync(w))

RefreshFirst(w) ==
    /\ pc[w] = "refresh"
    /\ RefreshOr(w, "head")
    /\ UNCHANGED <<chain, lock, db, process, job, faults>>

\* The variant without the early return of a chain that is still too short.
ReadHeadOfShortChain(w) ==
    /\ pc[w] = "head"
    /\ safeHead' = [safeHead EXCEPT ![w] = head - confirmations]
    /\ Goto(w, "state")
    /\ UNCHANGED <<chain, lock, db, process, hasLease, from, to, todo, view, held, faults>>

ReadHead(w) ==
    /\ pc[w] = "head"
    /\ \/ /\ head < confirmations
          /\ Goto(w, AfterSync(w))
          /\ UNCHANGED safeHead
       \/ /\ head >= confirmations
          /\ safeHead' = [safeHead EXCEPT ![w] = head - confirmations]
          /\ Goto(w, "state")
    /\ UNCHANGED <<chain, lock, db, process, hasLease, from, to, todo, view, held, faults>>

ReadCheckpoint(w) ==
    /\ pc[w] = "state"
    /\ from' = [from EXCEPT ![w] = IF cpNumber = 0 THEN startBlock ELSE cpNumber + 1]
    /\ held' = [held EXCEPT ![w] = cpHash]
    /\ Goto(w, IF cpNumber = 0 THEN "range" ELSE "verify")
    /\ UNCHANGED <<chain, lock, db, process, hasLease, safeHead, to, todo, view, faults>>

\* The checkpoint's block must still be the one that was indexed.
VerifyCheckpoint(w) ==
    /\ pc[w] = "verify"
    /\ Goto(w, IF hash[from[w] - 1] = held[w] THEN "range" ELSE AfterSync(w))
    /\ UNCHANGED <<chain, lock, db, process, hasLease, job, faults>>

EndOfRange(w) ==
    IF from[w] + range - 1 < safeHead[w] THEN from[w] + range - 1 ELSE safeHead[w]

LogsBelow(first, last) == {p \in Logs : first <= blockOf[p] /\ blockOf[p] < last}
LogsBetween(first, last) == {p \in Logs : first <= blockOf[p] /\ blockOf[p] <= last}

FetchLogs(w) ==
    /\ pc[w] = "range"
    /\ \/ /\ from[w] > safeHead[w] \/ stopped[w]
          /\ Goto(w, AfterSync(w))
          /\ UNCHANGED <<to, todo, view>>
       \/ /\ from[w] <= safeHead[w] /\ ~stopped[w]
          /\ to' = [to EXCEPT ![w] = EndOfRange(w)]
          /\ todo' = [todo EXCEPT ![w] = LogsBetween(from[w], EndOfRange(w))]
          /\ view' = [view EXCEPT ![w] = hash]
          /\ Goto(w, "log")
    /\ UNCHANGED <<chain, lock, db, process, hasLease, safeHead, from, held, faults>>

\* Before each log the lease is renewed.
RefreshBeforeLog(w) ==
    /\ pc[w] = "log"
    /\ todo[w] # {}
    /\ RefreshOr(w, "process")
    /\ UNCHANGED <<chain, lock, db, process, job, faults>>

\* Logs are handed over in the order of block number and log index.
IsNext(w, p) == p \in todo[w] /\ \A q \in todo[w] : p <= q

\* The transaction: the log's key is unique, so a log that is already there
\* changes nothing.
AppendAlways(log) == ledger' = Append(ledger, log)
Apply(log) ==
    ledger' = IF \E i \in DOMAIN ledger : ledger[i] = log THEN ledger ELSE Append(ledger, log)

\* The transaction commits; invalidating the API caches or publishing the
\* event may still fail afterwards, and then syncOnce fails.
ProcessLog(w) ==
    /\ pc[w] = "process"
    /\ \E p \in todo[w] :
        /\ IsNext(w, p)
        /\ Apply(<<p, view[w][blockOf[p]]>>)
        /\ todo' = [todo EXCEPT ![w] = @ \ {p}]
    /\ \/ Goto(w, "log") /\ UNCHANGED faults
       \/ Goto(w, AfterSync(w)) /\ Fault
    /\ UNCHANGED <<chain, lock, cpNumber, cpHash, process, hasLease, safeHead, from, to, view, held>>

\* The lease is not consulted again between the last log and the checkpoint.
ReadRangeHash(w) ==
    /\ pc[w] = "log"
    /\ todo[w] = {}
    /\ held' = [held EXCEPT ![w] = hash[to[w]]]
    /\ Goto(w, "save")
    /\ UNCHANGED <<chain, lock, db, process, hasLease, safeHead, from, to, todo, view, faults>>

SaveCheckpoint(w) ==
    /\ pc[w] = "save"
    /\ cpNumber' = to[w]
    /\ cpHash' = held[w]
    /\ from' = [from EXCEPT ![w] = to[w] + 1]
    /\ Goto(w, "refreshEnd")
    /\ UNCHANGED <<chain, lock, ledger, process, hasLease, safeHead, to, todo, view, held, faults>>

RefreshAfterRange(w) ==
    /\ pc[w] = "refreshEnd"
    /\ RefreshOr(w, "range")
    /\ UNCHANGED <<chain, lock, db, process, job, faults>>

-----------------------------------------------------------------------------
(* Failures.                                                               *)

InSync == {"refresh", "head", "state", "verify", "range", "log", "process", "save", "refreshEnd"}

\* The variant that drops the log whose transaction failed and carries on.
SkipFailedLog(w) ==
    /\ pc[w] = "process"
    /\ Fault
    /\ todo' = [todo EXCEPT ![w] = {p \in @ : ~IsNext(w, p)}]
    /\ Goto(w, "log")
    /\ UNCHANGED <<chain, lock, db, process, hasLease, safeHead, from, to, view, held>>

\* A call of syncOnce fails for good (after its retries): the error ends it,
\* and a lease that was not reported lost is still believed held.
CallFails(w) ==
    /\ pc[w] \in InSync
    /\ Fault
    /\ Goto(w, AfterSync(w))
    /\ UNCHANGED <<chain, lock, db, process, hasLease, job>>

\* The key of a runner that still believes in it expires: it was paused, or
\* waited for a slow call, longer than the TTL; or Redis lost its data.
LeaseExpires ==
    /\ lock \in Workers
    /\ hasLease[lock]
    /\ Fault
    /\ lock' = Nobody
    /\ UNCHANGED <<chain, db, process, pc, hasLease, job>>

\* Nobody renews this key any more.
AbandonedLeaseExpires ==
    /\ lock = Orphan \/ (lock \in Workers /\ ~hasLease[lock])
    /\ lock' = Nobody
    /\ UNCHANGED <<chain, db, process, pc, hasLease, job, faults>>

\* A process that is gone cannot renew the key it left behind: the next one
\* has a new token.
Die(w) ==
    /\ Goto(w, "down")
    /\ ForgetJob(w)
    /\ hasLease' = [hasLease EXCEPT ![w] = FALSE]
    /\ lock' = IF lock = w THEN Orphan ELSE lock

Crash(w) ==
    /\ pc[w] # "down"
    /\ Fault
    /\ Die(w)
    /\ UNCHANGED <<chain, db, process>>

\* onApplicationShutdown, concurrent with whatever the loop is doing.  The
\* Redis client may already be closed, and then the key is left to expire.
Shutdown(w) ==
    /\ pc[w] # "down"
    /\ ~stopped[w]
    /\ Fault
    /\ stopped' = [stopped EXCEPT ![w] = TRUE]
    /\ hasLease' = [hasLease EXCEPT ![w] = FALSE]
    /\ \/ lock' = IF hasLease[w] THEN Release(w) ELSE lock
       \/ UNCHANGED lock
    /\ UNCHANGED <<chain, db, mode, pc, job>>

\* The process ends once its shutdown hooks have run.
Exit(w) ==
    /\ pc[w] # "down"
    /\ stopped[w]
    /\ Die(w)
    /\ UNCHANGED <<chain, db, process, faults>>

Restart(w) ==
    /\ pc[w] = "down"
    /\ Goto(w, "acquire")
    /\ stopped' = [stopped EXCEPT ![w] = FALSE]
    /\ \E m \in {"live"} \cup (IF w \in MayBackfill THEN {"backfill"} ELSE {}) :
          mode' = [mode EXCEPT ![w] = m]
    /\ UNCHANGED <<chain, lock, db, hasLease, job, faults>>

-----------------------------------------------------------------------------
Run(w) ==
    \/ Acquire(w) \/ Delay(w) \/ Finish(w)
    \/ RefreshFirst(w) \/ ReadHead(w) \/ ReadCheckpoint(w) \/ VerifyCheckpoint(w)
    \/ FetchLogs(w) \/ RefreshBeforeLog(w) \/ ProcessLog(w)
    \/ ReadRangeHash(w) \/ SaveCheckpoint(w) \/ RefreshAfterRange(w)

Next ==
    \/ Mine
    \/ \E b \in Blocks : Reorganise(b)
    \/ LeaseExpires
    \/ AbandonedLeaseExpires
    \/ \E w \in Workers :
        \/ Run(w)
        \/ AcquireFails(w) \/ CallFails(w)
        \/ Crash(w) \/ Shutdown(w) \/ Exit(w) \/ Restart(w)

\* The loop keeps turning, Redis drops keys nobody renews, a stopping process
\* ends and the container runtime starts it again.
Fairness ==
    /\ WF_vars(AbandonedLeaseExpires)
    /\ \A w \in Workers : WF_vars(Run(w)) /\ WF_vars(Exit(w)) /\ WF_vars(Restart(w))

Spec == Init /\ [][Next]_vars
FairSpec == Spec /\ Fairness

-----------------------------------------------------------------------------
(* Properties.                                                             *)

Confirmed(b) == b + confirmations <= head

TypeOK ==
    /\ head \in 0 .. MaxBlock /\ hash \in [Blocks -> Nat] /\ forks \in Nat
    /\ lock \in Workers \cup {Nobody, Orphan}
    /\ cpNumber \in 0 .. MaxBlock /\ cpHash \in Nat
    /\ ledger \in Seq(Logs \X Nat)
    /\ mode \in [Workers -> {"live", "backfill"}]
    /\ pc \in [Workers -> InSync \cup {"acquire", "delay", "finish", "done", "down"}]
    /\ hasLease \in [Workers -> BOOLEAN] /\ stopped \in [Workers -> BOOLEAN]
    /\ safeHead \in [Workers -> 0 .. MaxBlock]
    /\ from \in [Workers -> 1 .. MaxBlock + 1] /\ to \in [Workers -> 0 .. MaxBlock]
    /\ todo \in [Workers -> SUBSET Logs]
    /\ view \in [Workers -> [Blocks -> Nat]] /\ held \in [Workers -> Nat]
    /\ faults \in Nat

\* However many runners work at once, with whatever stale lease, and however
\* often a range is replayed: the logs applied are exactly the first ones of
\* the canonical chain, in chain order, each once, and only confirmed ones.
AppliedInOrder ==
    \A i \in DOMAIN ledger :
        i \in Logs /\ ledger[i] = <<i, hash[blockOf[i]]>> /\ Confirmed(blockOf[i])

\* The checkpoint, also one written by a runner that lost its lease long ago,
\* never stands behind a log that has not been applied, so that a restart
\* from it skips nothing; and its hash is that of the block it names.
CheckpointCovered ==
    cpNumber > 0 =>
        /\ Confirmed(cpNumber)
        /\ cpHash = hash[cpNumber]
        /\ \A p \in Logs : blockOf[p] <= cpNumber => p \in DOMAIN ledger

\* docs/stress-test.md: the checkpoint eventually reaches the confirmed block.
\* Once the chain and the failures stop, it reaches the safe head and stays.
CheckpointSettles ==
    <>[](cpNumber = IF head > confirmations THEN head - confirmations ELSE 0)

\* What a reader of the database may rely on (IndexedLedger), with the length
\* of the event table as the number of logs applied.
Ledger == INSTANCE IndexedLedger WITH applied <- Len(ledger), checkpoint <- cpNumber

LedgerSpec == Ledger!Spec

-----------------------------------------------------------------------------
(* What the documents say and the code does not do.                        *)

\* docs/restart-recovery.md:27, "The indexer checkpoint never moves backwards
\* after restart": a step never lowers it.
CheckpointMonotone == [][cpNumber' >= cpNumber]_vars

\* docs/restart-recovery.md:29, "The worker reacquires leadership before
\* resuming": a running worker without competitors that was told its lease is
\* lost holds it again at some time.
LostLeaseReacquired ==
    \A w \in Workers :
        (pc[w] = "delay" /\ ~hasLease[w] /\ ~stopped[w]) ~> hasLease[w]

\* docs/production-readiness.md:23, "Current indexer detects a checkpoint
\* mismatch and stops safely": when a log below the checkpoint was taken from
\* a block that is no longer canonical, the checkpoint's hash shows it.
ReorgShows ==
    (\E i \in DOMAIN ledger : LET log == ledger[i]
                              IN  blockOf[log[1]] <= cpNumber /\ log[2] # hash[blockOf[log[1]]])
        => cpHash # hash[cpNumber]
=============================================================================
