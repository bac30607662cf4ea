------------------------ MODULE IndexerRunnerProofs ------------------------
(***************************************************************************)
(* Safety of the indexer's runners for every number of runners, logs,      *)
(* blocks, reorganisations and faults, for every range and every number of *)
(* confirmations, provided only that a reorganisation is never deeper than *)
(* the confirmations.  The lease plays no part in the argument: what makes *)
(* concurrent and stale runners harmless is that each of them hands over   *)
(* the logs of its range in order, on top of a prefix that was complete    *)
(* when it started and can only have grown, and that the database drops a  *)
(* log it already has.  WorkerInv says this of one runner.                 *)
(***************************************************************************)
EXTENDS IndexerRunner, TLAPS

\* Every log up to block b is in the database.
Done(b) == \A p \in Logs : blockOf[p] <= b => p <= Len(ledger)

Bounded == {"state", "verify", "range", "log", "process", "save", "refreshEnd"}
Resumed == Bounded \ {"state"}
InRange == {"log", "process", "save"}

\* What a runner knows at each step of syncOnce, and stays true while other
\* runners work and the chain goes on.
WorkerInv(w) ==
    /\ pc[w] \in Bounded => safeHead[w] + confirmations <= head
    /\ pc[w] \in Resumed => Done(from[w] - 1)
    /\ pc[w] \in InRange =>
        /\ from[w] <= to[w] /\ to[w] <= safeHead[w]
        /\ \A p \in Logs : blockOf[p] <= to[w] => p <= Len(ledger) \/ p \in todo[w]
        /\ \A p \in todo[w] : from[w] <= blockOf[p] /\ blockOf[p] <= to[w]
        /\ \A b \in Blocks : b <= to[w] => view[w][b] = hash[b]
    /\ pc[w] = "process" => todo[w] # {}
    /\ pc[w] = "save" => todo[w] = {} /\ held[w] = hash[to[w]]

IInv ==
    /\ TypeOK /\ AppliedInOrder /\ CheckpointCovered
    /\ \A w \in Workers : WorkerInv(w)

-----------------------------------------------------------------------------
(* The type invariant.                                                     *)

LEMMA InitType == Init => TypeOK
  BY RunnerAssumption DEF Init, TypeOK, startBlock, Unseen, Logs, Blocks, InSync

\* Goto keeps pc a total function to labels.
LEMMA GotoType ==
    ASSUME NEW w \in Workers, TypeOK,
           NEW label \in InSync \cup {"acquire", "delay", "finish", "done", "down"},
           Goto(w, label)
    PROVE  /\ pc' \in [Workers -> InSync \cup {"acquire", "delay", "finish", "done", "down"}]
           /\ pc'[w] = label
           /\ \A v \in Workers \ {w} : pc'[v] = pc[v]
  BY DEF TypeOK, Goto

\* Setting one value of a function keeps its type.
LEMMA Updated ==
    ASSUME NEW S, NEW T, NEW f \in [S -> T], NEW x, NEW v \in T
    PROVE  /\ [f EXCEPT ![x] = v] \in [S -> T]
           /\ x \in S => [f EXCEPT ![x] = v][x] = v
  OBVIOUS

\* Appending to a sequence keeps its type.
LEMMA Appended ==
    ASSUME NEW S, NEW s \in Seq(S), NEW e \in S
    PROVE  /\ Append(s, e) \in Seq(S)
           /\ Len(s) \in Nat /\ Len(Append(s, e)) = Len(s) + 1
  OBVIOUS

LEMMA AfterSyncType ==
    ASSUME NEW w \in Workers
    PROVE  AfterSync(w) \in {"finish", "delay"}
  BY DEF AfterSync

LEMMA ForgetJobType ==
    ASSUME NEW w \in Workers, TypeOK, ForgetJob(w)
    PROVE  /\ safeHead' \in [Workers -> 0 .. MaxBlock]
           /\ from' \in [Workers -> 1 .. MaxBlock + 1] /\ to' \in [Workers -> 0 .. MaxBlock]
           /\ todo' \in [Workers -> SUBSET Logs]
           /\ view' \in [Workers -> [Blocks -> Nat]] /\ held' \in [Workers -> Nat]
  <1>1. MaxBlock \in Nat /\ 0 \in 0 .. MaxBlock /\ 1 \in 1 .. MaxBlock + 1
    BY RunnerAssumption
  <1>2. Unseen \in [Blocks -> Nat]
    BY DEF Unseen
  <1>3. /\ safeHead' \in [Workers -> 0 .. MaxBlock] /\ to' \in [Workers -> 0 .. MaxBlock]
        /\ from' \in [Workers -> 1 .. MaxBlock + 1]
    BY <1>1 DEF TypeOK, ForgetJob, startBlock
  <1>4. todo' \in [Workers -> SUBSET Logs]
    BY DEF TypeOK, ForgetJob
  <1>5. view' \in [Workers -> [Blocks -> Nat]]
    BY <1>2 DEF TypeOK, ForgetJob
  <1>6. held' \in [Workers -> Nat]
    BY DEF TypeOK, ForgetJob
  <1> QED
    BY <1>3, <1>4, <1>5, <1>6

\* The range of a fetch ends at a block between its start and the safe head.
LEMMA EndOfRangeBounds ==
    ASSUME NEW w \in Workers, TypeOK, from[w] <= safeHead[w]
    PROVE  /\ EndOfRange(w) \in Blocks
           /\ from[w] <= EndOfRange(w) /\ EndOfRange(w) <= safeHead[w]
  <1>1. /\ from[w] \in 1 .. MaxBlock + 1 /\ safeHead[w] \in 0 .. MaxBlock
        /\ range \in Nat \ {0} /\ MaxBlock \in Nat
    BY RunnerAssumption DEF TypeOK
  <1> QED
    BY <1>1 DEF EndOfRange, Blocks

\* Applying a log leaves the table as it is or adds the log at its end.
LEMMA ApplyType ==
    ASSUME TypeOK, NEW log \in Logs \X Nat, Apply(log)
    PROVE  /\ ledger' \in Seq(Logs \X Nat)
           /\ Len(ledger) <= Len(ledger')
           /\ ledger' = ledger \/ ledger' = Append(ledger, log)
  <1>1. ledger \in Seq(Logs \X Nat)
    BY DEF TypeOK
  <1>2. Len(ledger) \in Nat /\ Len(ledger) <= Len(ledger)
    BY <1>1
  <1>3. CASE ledger' = ledger
    BY <1>1, <1>2, <1>3
  <1>4. CASE ledger' = Append(ledger, log)
    <2>1. Append(ledger, log) \in Seq(Logs \X Nat) /\ Len(ledger') = Len(ledger) + 1
      BY <1>1, <1>4, Appended
    <2>2. Len(ledger) <= Len(ledger')
      BY <1>2, <2>1
    <2>3. ledger' \in Seq(Logs \X Nat)
      BY <1>4, <2>1, Zenon
    <2> QED
      BY <1>4, <2>2, <2>3
  <1> QED
    BY <1>3, <1>4 DEF Apply

LEMMA NextType == TypeOK /\ (\A w \in Workers : WorkerInv(w)) /\ [Next]_vars => TypeOK'
  <1> SUFFICES ASSUME TypeOK, \A w \in Workers : WorkerInv(w), [Next]_vars PROVE TypeOK'
    OBVIOUS
  <1> USE RunnerAssumption
  <1>1. CASE Mine
    <2>1. head' \in 0 .. MaxBlock
      BY <1>1 DEF Mine, TypeOK
    <2>2. /\ UNCHANGED <<hash, forks, lock, cpNumber, cpHash, ledger, mode, stopped, pc, hasLease>>
          /\ UNCHANGED <<safeHead, from, to, todo, view, held, faults>>
      BY <1>1 DEF Mine, db, process, job
    <2> QED
      BY <2>1, <2>2 DEF TypeOK
  <1>2. ASSUME NEW b \in Blocks, Reorganise(b) PROVE TypeOK'
    <2>1. forks' \in Nat /\ hash' \in [Blocks -> Nat]
      <3>1. forks \in Nat /\ forks + 1 \in Nat /\ hash \in [Blocks -> Nat]
        BY DEF TypeOK
      <3> QED
        BY <1>2, <3>1 DEF Reorganise
    <2>2. /\ UNCHANGED <<head, lock, cpNumber, cpHash, ledger, mode, stopped, pc, hasLease>>
          /\ UNCHANGED <<safeHead, from, to, todo, view, held, faults>>
      BY <1>2 DEF Reorganise, db, process, job
    <2> QED
      BY <2>1, <2>2 DEF TypeOK
  <1>3. CASE LeaseExpires
    BY <1>3 DEF LeaseExpires, Fault, TypeOK, chain, db, process, job
  <1>4. CASE AbandonedLeaseExpires
    BY <1>4 DEF AbandonedLeaseExpires, TypeOK, chain, db, process, job
  <1>5. ASSUME NEW w \in Workers, Run(w) PROVE TypeOK'
    <2> USE AfterSyncType, GotoType
    <2>1. CASE Acquire(w)
      BY <2>1 DEF Acquire, TypeOK, InSync, chain, db, process, job
    <2>2. CASE Delay(w)
      BY <2>2, ForgetJobType DEF Delay, TypeOK, chain, db, process
    <2>3. CASE Finish(w)
      <3>1. lock' \in Workers \cup {Nobody, Orphan} /\ faults' \in Nat
        BY <2>3 DEF Finish, Release, Fault, TypeOK
      <3> QED
        BY <2>3, <3>1, ForgetJobType DEF Finish, TypeOK, chain, db, process
    <2>4. CASE RefreshFirst(w)
      BY <2>4 DEF RefreshFirst, RefreshOr, TypeOK, InSync, chain, db, process, job
    <2>5. CASE ReadHead(w)
      <3>1. safeHead' \in [Workers -> 0 .. MaxBlock]
        <4>1. head >= confirmations => head - confirmations \in 0 .. MaxBlock
          BY DEF TypeOK
        <4>2. safeHead' = safeHead \/ \E n \in 0 .. MaxBlock : safeHead' = [safeHead EXCEPT ![w] = n]
          BY <2>5, <4>1 DEF ReadHead
        <4>3. safeHead \in [Workers -> 0 .. MaxBlock]
          BY DEF TypeOK
        <4> QED
          BY <4>2, <4>3, Updated
      <3>2. \E label \in InSync \cup {"acquire", "delay", "finish", "done", "down"} : Goto(w, label)
        BY <2>5 DEF ReadHead, InSync
      <3> QED
        BY <2>5, <3>1, <3>2 DEF ReadHead, TypeOK, chain, db, process
    <2>6. CASE ReadCheckpoint(w)
      <3>1. from' \in [Workers -> 1 .. MaxBlock + 1]
        <4>1. 1 \in 1 .. MaxBlock + 1 /\ cpNumber + 1 \in 1 .. MaxBlock + 1
          BY DEF TypeOK
        <4> QED
          BY <2>6, <4>1 DEF ReadCheckpoint, TypeOK, startBlock
      <3>2. held' \in [Workers -> Nat]
        BY <2>6 DEF ReadCheckpoint, TypeOK
      <3>3. \E label \in InSync \cup {"acquire", "delay", "finish", "done", "down"} : Goto(w, label)
        BY <2>6 DEF ReadCheckpoint, InSync
      <3> QED
        BY <2>6, <3>1, <3>2, <3>3 DEF ReadCheckpoint, TypeOK, chain, db, process
    <2>7. CASE VerifyCheckpoint(w)
      BY <2>7 DEF VerifyCheckpoint, TypeOK, InSync, chain, db, process, job
    <2>8. CASE FetchLogs(w)
      <3>1. LogsBetween(from[w], EndOfRange(w)) \subseteq Logs
        BY DEF LogsBetween
      <3>2. to' = to \/ \E b \in 0 .. MaxBlock : to' = [to EXCEPT ![w] = b]
        <4>1. from[w] <= safeHead[w] => EndOfRange(w) \in 0 .. MaxBlock
          BY EndOfRangeBounds DEF Blocks
        <4> QED
          BY <2>8, <4>1 DEF FetchLogs
      <3>3. todo' = todo \/ todo' = [todo EXCEPT ![w] = LogsBetween(from[w], EndOfRange(w))]
        BY <2>8 DEF FetchLogs
      <3>4. view' = view \/ view' = [view EXCEPT ![w] = hash]
        BY <2>8 DEF FetchLogs
      <3>6. to' \in [Workers -> 0 .. MaxBlock]
        <4>1. to \in [Workers -> 0 .. MaxBlock]
          BY DEF TypeOK
        <4> QED
          BY <3>2, <4>1, Updated
      <3>7. todo' \in [Workers -> SUBSET Logs]
        <4>1. todo \in [Workers -> SUBSET Logs]
          BY DEF TypeOK
        <4>2. ASSUME NEW S \in SUBSET Logs PROVE [todo EXCEPT ![w] = S] \in [Workers -> SUBSET Logs]
          BY <4>1
        <4> QED
          BY <3>1, <3>3, <4>1, <4>2
      <3>8. view' \in [Workers -> [Blocks -> Nat]]
        <4>1. view \in [Workers -> [Blocks -> Nat]] /\ hash \in [Blocks -> Nat]
          BY DEF TypeOK
        <4>2. [view EXCEPT ![w] = hash] \in [Workers -> [Blocks -> Nat]]
          BY <4>1
        <4> QED
          BY <3>4, <4>1, <4>2
      <3>5. \E label \in InSync \cup {"acquire", "delay", "finish", "done", "down"} : Goto(w, label)
        BY <2>8 DEF FetchLogs, InSync
      <3> QED
        BY <2>8, <3>5, <3>6, <3>7, <3>8 DEF FetchLogs, TypeOK, chain, db, process
    <2>9. CASE RefreshBeforeLog(w)
      BY <2>9 DEF RefreshBeforeLog, RefreshOr, TypeOK, InSync, chain, db, process, job
    <2>10. CASE ProcessLog(w)
      <3>1. PICK p \in todo[w] : /\ Apply(<<p, view[w][blockOf[p]]>>)
                                 /\ todo' = [todo EXCEPT ![w] = @ \ {p}]
        BY <2>10 DEF ProcessLog
      <3>2. <<p, view[w][blockOf[p]]>> \in Logs \X Nat
        <4>1. view \in [Workers -> [Blocks -> Nat]] /\ todo \in [Workers -> SUBSET Logs]
          BY DEF TypeOK
        <4>2. p \in Logs /\ view[w] \in [Blocks -> Nat]
          BY <4>1
        <4>3. blockOf[p] \in Blocks
          BY <4>2
        <4> QED
          BY <4>2, <4>3
      <3>3. ledger' \in Seq(Logs \X Nat)
        BY <3>1, <3>2, ApplyType
      <3>4. todo' \in [Workers -> SUBSET Logs]
        <4>1. todo \in [Workers -> SUBSET Logs]
          BY DEF TypeOK
        <4>2. todo[w] \ {p} \in SUBSET Logs /\ todo' = [todo EXCEPT ![w] = todo[w] \ {p}]
          BY <3>1, <4>1
        <4> QED
          BY <4>1, <4>2, Updated
      <3>5. faults' \in Nat
        <4>1. faults' = faults \/ faults' = faults + 1
          BY <2>10 DEF ProcessLog, Fault
        <4>2. faults \in Nat
          BY DEF TypeOK
        <4> QED
          BY <4>1, <4>2
      <3>6. \E label \in InSync \cup {"acquire", "delay", "finish", "done", "down"} : Goto(w, label)
        BY <2>10 DEF ProcessLog, InSync
      <3>7. pc' \in [Workers -> InSync \cup {"acquire", "delay", "finish", "done", "down"}]
        BY <3>6, GotoType
      <3>8. /\ UNCHANGED <<head, hash, forks, lock, cpNumber, cpHash, mode, hasLease, stopped>>
            /\ UNCHANGED <<safeHead, from, to, view, held>>
        BY <2>10 DEF ProcessLog, chain, process
      <3> QED
        BY <3>3, <3>4, <3>5, <3>7, <3>8 DEF TypeOK
    <2>11. CASE ReadRangeHash(w)
      <3>1. hash[to[w]] \in Nat
        BY <2>11 DEF ReadRangeHash, WorkerInv, InRange, TypeOK, Blocks
      <3> QED
        BY <2>11, <3>1 DEF ReadRangeHash, TypeOK, InSync, chain, db, process
    <2>12. CASE SaveCheckpoint(w)
      <3>1. from' \in [Workers -> 1 .. MaxBlock + 1]
        <4>1. to \in [Workers -> 0 .. MaxBlock] /\ from \in [Workers -> 1 .. MaxBlock + 1]
          BY DEF TypeOK
        <4>2. to[w] \in 0 .. MaxBlock
          BY <4>1
        <4>3. to[w] + 1 \in 1 .. MaxBlock + 1
          BY <4>2
        <4>4. from' = [from EXCEPT ![w] = to[w] + 1]
          BY <2>12 DEF SaveCheckpoint
        <4> QED
          BY <4>1, <4>3, <4>4, Updated
      <3>2. cpNumber' \in 0 .. MaxBlock /\ cpHash' \in Nat
        BY <2>12 DEF SaveCheckpoint, TypeOK
      <3> QED
        BY <2>12, <3>1, <3>2 DEF SaveCheckpoint, TypeOK, InSync, chain, process
    <2>13. CASE RefreshAfterRange(w)
      BY <2>13 DEF RefreshAfterRange, RefreshOr, TypeOK, InSync, chain, db, process, job
    <2> QED
      BY <1>5, <2>1, <2>2, <2>3, <2>4, <2>5, <2>6, <2>7, <2>8, <2>9, <2>10, <2>11, <2>12, <2>13
         DEF Run
  <1>6. ASSUME NEW w \in Workers,
               AcquireFails(w) \/ CallFails(w) \/ Crash(w) \/ Shutdown(w) \/ Exit(w) \/ Restart(w)
        PROVE  TypeOK'
    <2> USE AfterSyncType, GotoType
    <2>1. CASE AcquireFails(w)
      <3>1. faults' \in Nat
        BY <2>1 DEF AcquireFails, Fault, TypeOK
      <3> QED
        BY <2>1, <3>1 DEF AcquireFails, TypeOK, chain, db, process, job
    <2>2. CASE CallFails(w)
      <3>1. faults' \in Nat
        BY <2>2 DEF CallFails, Fault, TypeOK
      <3> QED
        BY <2>2, <3>1 DEF CallFails, TypeOK, chain, db, process, job
    <2>3. CASE Crash(w)
      <3>1. faults' \in Nat
        BY <2>3 DEF Crash, Fault, TypeOK
      <3> QED
        BY <2>3, <3>1, ForgetJobType DEF Crash, Die, TypeOK, chain, db, process
    <2>4. CASE Shutdown(w)
      <3>1. lock' \in {lock, Nobody} /\ faults' = faults + 1
        BY <2>4 DEF Shutdown, Release, Fault
      <3>2. lock' \in Workers \cup {Nobody, Orphan} /\ faults' \in Nat
        BY <3>1 DEF TypeOK
      <3> QED
        BY <2>4, <3>2 DEF Shutdown, TypeOK, chain, db, job
    <2>5. CASE Exit(w)
      BY <2>5, ForgetJobType DEF Exit, Die, TypeOK, chain, db, process
    <2>6. CASE Restart(w)
      <3>1. mode' \in [Workers -> {"live", "backfill"}]
        BY <2>6 DEF Restart, TypeOK
      <3> QED
        BY <2>6, <3>1 DEF Restart, TypeOK, InSync, chain, db, job
    <2> QED
      BY <1>6, <2>1, <2>2, <2>3, <2>4, <2>5, <2>6
  <1>7. CASE UNCHANGED vars
    BY <1>7 DEF vars, TypeOK, chain, db, process, job
  <1> QED
    BY <1>1, <1>2, <1>3, <1>4, <1>5, <1>6, <1>7 DEF Next

-----------------------------------------------------------------------------
(* What a step does to the chain and to the ledger.                        *)

ShallowReorgs == MaxReorgDepth <= confirmations

\* Confirmed blocks stay confirmed and are never replaced.
LEMMA ChainStep ==
    ASSUME ShallowReorgs, TypeOK, [Next]_vars
    PROVE  /\ head \in Nat /\ head' \in Nat /\ head <= head' /\ confirmations \in Nat
           /\ \A b \in Blocks : b + confirmations <= head => hash'[b] = hash[b]
  <1> USE RunnerAssumption
  <1>1. CASE Mine
    BY <1>1 DEF Mine, TypeOK
  <1>2. ASSUME NEW b \in Blocks, Reorganise(b)
        PROVE  head' = head /\ \A x \in Blocks : x + confirmations <= head => hash'[x] = hash[x]
    <2>1. ASSUME NEW x \in Blocks, x + confirmations <= head PROVE hash'[x] = hash[x]
      <3>1. ~ x >= b
        BY <1>2, <2>1 DEF Reorganise, ShallowReorgs, Blocks, TypeOK
      <3> QED
        BY <1>2, <3>1 DEF Reorganise
    <2> QED
      BY <1>2, <2>1 DEF Reorganise
  <1>3. CASE UNCHANGED chain
    BY <1>3 DEF chain, TypeOK
  <1>4. CASE LeaseExpires \/ AbandonedLeaseExpires \/ UNCHANGED vars
    BY <1>3, <1>4 DEF LeaseExpires, AbandonedLeaseExpires, vars
  <1>5. ASSUME NEW w \in Workers, Run(w) PROVE UNCHANGED chain
    BY <1>5 DEF Run, Acquire, Delay, Finish, RefreshFirst, ReadHead, ReadCheckpoint,
                VerifyCheckpoint, FetchLogs, RefreshBeforeLog, ProcessLog, ReadRangeHash,
                SaveCheckpoint, RefreshAfterRange
  <1>6. ASSUME NEW w \in Workers,
               AcquireFails(w) \/ CallFails(w) \/ Crash(w) \/ Shutdown(w) \/ Exit(w) \/ Restart(w)
        PROVE  UNCHANGED chain
    BY <1>6 DEF AcquireFails, CallFails, Crash, Shutdown, Exit, Restart
  <1> QED
    BY <1>1, <1>2, <1>3, <1>4, <1>5, <1>6 DEF Next, TypeOK

\* The step that applies a log either finds it in the database already, or
\* adds the log that comes next in the chain.
LEMMA LedgerStep ==
    ASSUME IInv, NEW w \in Workers, ProcessLog(w)
    PROVE  \E p \in todo[w] :
              /\ blockOf[p] + confirmations <= head
              /\ todo' = [todo EXCEPT ![w] = @ \ {p}]
              /\ \/ p <= Len(ledger) /\ ledger' = ledger
                 \/ p = Len(ledger) + 1 /\ ledger' = Append(ledger, <<p, hash[blockOf[p]]>>)
  <1> USE RunnerAssumption
  <1>1. PICK p \in todo[w] : /\ IsNext(w, p)
                             /\ Apply(<<p, view[w][blockOf[p]]>>)
                             /\ todo' = [todo EXCEPT ![w] = @ \ {p}]
    BY DEF ProcessLog
  <1>2. /\ p \in Logs /\ p \in Nat \ {0} /\ NumLogs \in Nat /\ blockOf[p] \in Blocks
        /\ ledger \in Seq(Logs \X Nat) /\ Len(ledger) \in Nat /\ DOMAIN ledger = 1 .. Len(ledger)
        /\ head \in Nat /\ to[w] \in Nat /\ safeHead[w] \in Nat /\ confirmations \in Nat
        /\ blockOf[p] \in Nat
    <2>1. p \in Logs
      BY DEF IInv, TypeOK
    <2>2. p \in Nat \ {0} /\ NumLogs \in Nat /\ blockOf[p] \in Blocks /\ blockOf[p] \in Nat
      BY <2>1 DEF Logs, Blocks
    <2>3. /\ ledger \in Seq(Logs \X Nat) /\ Len(ledger) \in Nat /\ DOMAIN ledger = 1 .. Len(ledger)
      BY DEF IInv, TypeOK
    <2>4. head \in Nat /\ to[w] \in Nat /\ safeHead[w] \in Nat /\ confirmations \in Nat
      BY DEF IInv, TypeOK
    <2> QED
      BY <2>1, <2>2, <2>3, <2>4
  <1>3. /\ blockOf[p] <= to[w] /\ to[w] <= safeHead[w] /\ safeHead[w] + confirmations <= head
        /\ \A q \in Logs : blockOf[q] <= to[w] => q <= Len(ledger) \/ q \in todo[w]
        /\ view[w][blockOf[p]] = hash[blockOf[p]]
    BY <1>2 DEF ProcessLog, IInv, WorkerInv, Bounded, InRange
  <1>4. blockOf[p] + confirmations <= head
    BY <1>2, <1>3
  <1>5. p <= Len(ledger) + 1
    <2> SUFFICES ASSUME p > Len(ledger) + 1 PROVE FALSE
      BY <1>2
    <2> DEFINE q == Len(ledger) + 1
    <2>1. q \in Logs /\ q <= p /\ ~ q <= Len(ledger) /\ ~ p <= q
      BY <1>2 DEF Logs
    <2>2. blockOf[q] <= blockOf[p] /\ blockOf[q] \in Nat
      BY <1>2, <2>1 DEF Blocks
    <2>3. blockOf[q] <= to[w]
      BY <1>2, <1>3, <2>2
    <2>4. q \in todo[w]
      BY <1>3, <2>1, <2>3
    <2> QED
      BY <1>1, <2>1, <2>4 DEF IsNext
  <1>6. CASE p <= Len(ledger)
    <2>1. p \in DOMAIN ledger /\ ledger[p] = <<p, view[w][blockOf[p]]>>
      <3>1. p \in DOMAIN ledger
        BY <1>2, <1>6 DEF Logs
      <3>2. p \in Logs /\ ledger[p] = <<p, hash[blockOf[p]]>>
        BY <3>1 DEF IInv, AppliedInOrder
      <3>3. view[w][blockOf[p]] = hash[blockOf[p]]
        BY <1>3
      <3> QED
        BY <3>1, <3>2, <3>3
    <2>2. ledger' = ledger
      BY <1>1, <2>1 DEF Apply
    <2> QED
      BY <1>1, <1>4, <1>6, <2>2
  <1>7. CASE p = Len(ledger) + 1
    <2>1. ASSUME NEW i \in DOMAIN ledger PROVE ledger[i] # <<p, view[w][blockOf[p]]>>
      <3>1. ledger[i] = <<i, hash[blockOf[i]]>> /\ i # p
        BY <1>2, <1>7 DEF IInv, AppliedInOrder
      <3> QED
        BY <3>1
    <2>2. ledger' = Append(ledger, <<p, view[w][blockOf[p]]>>)
      BY <1>1, <2>1 DEF Apply
    <2> QED
      BY <1>1, <1>3, <1>4, <1>7, <2>2
  <1>8. p <= Len(ledger) \/ p = Len(ledger) + 1
    BY <1>2, <1>5
  <1> QED
    BY <1>6, <1>7, <1>8

\* Nothing else touches the ledger.
LEMMA LedgerKept ==
    ASSUME [Next]_vars, \A w \in Workers : ~ProcessLog(w)
    PROVE  ledger' = ledger
  <1>1. CASE Mine \/ (\E b \in Blocks : Reorganise(b)) \/ LeaseExpires \/ AbandonedLeaseExpires
             \/ UNCHANGED vars
    BY <1>1 DEF Mine, Reorganise, LeaseExpires, AbandonedLeaseExpires, vars, db
  <1>2. ASSUME NEW w \in Workers, Run(w) PROVE ledger' = ledger
    BY <1>2 DEF Run, Acquire, Delay, Finish, RefreshFirst, ReadHead, ReadCheckpoint,
                VerifyCheckpoint, FetchLogs, RefreshBeforeLog, ReadRangeHash,
                SaveCheckpoint, RefreshAfterRange, db
  <1>3. ASSUME NEW w \in Workers,
               AcquireFails(w) \/ CallFails(w) \/ Crash(w) \/ Shutdown(w) \/ Exit(w) \/ Restart(w)
        PROVE  ledger' = ledger
    BY <1>3 DEF AcquireFails, CallFails, Crash, Shutdown, Exit, Restart, db
  <1> QED
    BY <1>1, <1>2, <1>3 DEF Next

LEMMA HeadKept ==
    ASSUME [Next]_vars, ~Mine
    PROVE  head' = head
  <1>1. CASE (\E b \in Blocks : Reorganise(b)) \/ LeaseExpires \/ AbandonedLeaseExpires
             \/ UNCHANGED vars
    BY <1>1 DEF Reorganise, LeaseExpires, AbandonedLeaseExpires, vars, chain
  <1>2. ASSUME NEW w \in Workers, Run(w) PROVE head' = head
    BY <1>2 DEF Run, Acquire, Delay, Finish, RefreshFirst, ReadHead, ReadCheckpoint,
                VerifyCheckpoint, FetchLogs, RefreshBeforeLog, ProcessLog, ReadRangeHash,
                SaveCheckpoint, RefreshAfterRange, chain
  <1>3. ASSUME NEW w \in Workers,
               AcquireFails(w) \/ CallFails(w) \/ Crash(w) \/ Shutdown(w) \/ Exit(w) \/ Restart(w)
        PROVE  head' = head
    BY <1>3 DEF AcquireFails, CallFails, Crash, Shutdown, Exit, Restart, chain
  <1> QED
    BY <1>1, <1>2, <1>3 DEF Next

\* The ledger never loses an entry.
LEMMA LedgerGrows ==
    ASSUME IInv, [Next]_vars
    PROVE  /\ Len(ledger) \in Nat /\ Len(ledger') \in Nat /\ Len(ledger) <= Len(ledger')
           /\ DOMAIN ledger = 1 .. Len(ledger) /\ DOMAIN ledger' = 1 .. Len(ledger')
  <1>1. ledger \in Seq(Logs \X Nat)
    BY DEF IInv, TypeOK
  <1>2. ASSUME NEW w \in Workers, ProcessLog(w)
        PROVE  ledger' \in Seq(Logs \X Nat) /\ Len(ledger) <= Len(ledger')
    <2>1. TypeOK'
      BY NextType DEF IInv
    <2>2. Len(ledger) <= Len(ledger')
      BY <1>1, <1>2, LedgerStep
    <2> QED
      BY <2>1, <2>2 DEF TypeOK
  <1>3. CASE ledger' = ledger
    BY <1>1, <1>3
  <1> QED
    BY <1>1, <1>2, <1>3, LedgerKept

-----------------------------------------------------------------------------
(* The ledger and the checkpoint.                                          *)

LEMMA InitInv == Init => IInv
  <1> SUFFICES ASSUME Init PROVE IInv
    OBVIOUS
  <1>1. TypeOK
    BY InitType
  <1>2. AppliedInOrder /\ CheckpointCovered
    BY DEF Init, AppliedInOrder, CheckpointCovered
  <1>3. ASSUME NEW w \in Workers PROVE WorkerInv(w)
    BY DEF Init, WorkerInv, Bounded, Resumed, InRange
  <1> QED
    BY <1>1, <1>2, <1>3 DEF IInv

LEMMA NextOrder ==
    ASSUME ShallowReorgs, IInv, [Next]_vars
    PROVE  AppliedInOrder'
  <1> USE RunnerAssumption
  <1> SUFFICES ASSUME NEW i \in DOMAIN ledger'
               PROVE  /\ i \in Logs
                      /\ ledger'[i] = <<i, hash'[blockOf[i]]>>
                      /\ blockOf[i] + confirmations <= head'
    BY DEF AppliedInOrder, Confirmed
  <1>1. /\ Len(ledger) \in Nat /\ Len(ledger') \in Nat /\ ledger \in Seq(Logs \X Nat)
        /\ DOMAIN ledger = 1 .. Len(ledger) /\ DOMAIN ledger' = 1 .. Len(ledger')
    BY LedgerGrows DEF IInv, TypeOK
  <1>2. /\ head \in Nat /\ head' \in Nat /\ head <= head' /\ confirmations \in Nat
        /\ \A b \in Blocks : b + confirmations <= head => hash'[b] = hash[b]
    BY ChainStep DEF IInv
  <1> DEFINE Added == /\ i \in Logs /\ ledger'[i] = <<i, hash[blockOf[i]]>>
                      /\ blockOf[i] + confirmations <= head
  <1>3. (i \in DOMAIN ledger /\ ledger'[i] = ledger[i]) \/ Added
    <2>1. CASE ledger' = ledger
      <3>1. i \in DOMAIN ledger /\ ledger'[i] = ledger[i]
        BY ONLY <2>1, i \in DOMAIN ledger'
      <3> QED
        BY ONLY <3>1
    <2>2. ASSUME NEW w \in Workers, ProcessLog(w), ledger' # ledger
          PROVE  (i \in DOMAIN ledger /\ ledger'[i] = ledger[i]) \/ Added
      <3>1. PICK p \in todo[w] :
                /\ blockOf[p] + confirmations <= head
                /\ p = Len(ledger) + 1
                /\ ledger' = Append(ledger, <<p, hash[blockOf[p]]>>)
        BY <2>2, LedgerStep
      <3>2. p \in Logs
        BY DEF IInv, TypeOK
      <3>3. CASE i = p
        BY <1>1, <3>1, <3>2, <3>3
      <3>4. CASE i # p
        BY <1>1, <3>1, <3>4
      <3> QED
        BY <3>3, <3>4
    <2> QED
      BY <2>1, <2>2, LedgerKept
  <1>4. /\ i \in Logs /\ ledger'[i] = <<i, hash[blockOf[i]]>> /\ blockOf[i] + confirmations <= head
    BY <1>3 DEF IInv, AppliedInOrder, Confirmed
  <1>5. blockOf[i] \in Blocks /\ blockOf[i] \in Nat
    BY <1>4 DEF Blocks
  <1> QED
    BY <1>2, <1>4, <1>5

\* A runner that saves its checkpoint has applied everything up to it, and
\* holds the hash of the block it names.
LEMMA SavedCheckpoint ==
    ASSUME IInv, NEW w \in Workers, SaveCheckpoint(w)
    PROVE  /\ cpNumber' = to[w] /\ cpHash' = hash[to[w]] /\ to[w] \in Blocks
           /\ to[w] + confirmations <= head
           /\ Done(to[w])
           /\ UNCHANGED <<ledger, head, hash>>
  <1>1. /\ pc[w] = "save" /\ cpNumber' = to[w] /\ cpHash' = held[w] /\ UNCHANGED <<ledger, head, hash>>
    BY DEF SaveCheckpoint, chain
  <1>2. /\ from[w] \in Nat \ {0} /\ to[w] \in 0 .. MaxBlock /\ safeHead[w] \in Nat /\ head \in Nat
        /\ confirmations \in Nat /\ MaxBlock \in Nat
    BY RunnerAssumption DEF IInv, TypeOK
  <1>3. /\ safeHead[w] + confirmations <= head /\ from[w] <= to[w] /\ to[w] <= safeHead[w]
        /\ todo[w] = {} /\ held[w] = hash[to[w]]
        /\ \A p \in Logs : blockOf[p] <= to[w] => p <= Len(ledger) \/ p \in todo[w]
    BY <1>1 DEF IInv, WorkerInv, Bounded, InRange
  <1>4. to[w] \in Blocks /\ to[w] + confirmations <= head
    BY <1>2, <1>3 DEF Blocks
  <1>5. Done(to[w])
    BY <1>3 DEF Done
  <1> QED
    BY <1>1, <1>3, <1>4, <1>5

LEMMA CheckpointKept ==
    ASSUME [Next]_vars, \A w \in Workers : ~SaveCheckpoint(w)
    PROVE  UNCHANGED <<cpNumber, cpHash>>
  <1>1. CASE Mine \/ (\E b \in Blocks : Reorganise(b)) \/ LeaseExpires \/ AbandonedLeaseExpires
             \/ UNCHANGED vars
    BY <1>1 DEF Mine, Reorganise, LeaseExpires, AbandonedLeaseExpires, vars, db
  <1>2. ASSUME NEW w \in Workers, Run(w) PROVE UNCHANGED <<cpNumber, cpHash>>
    BY <1>2 DEF Run, Acquire, Delay, Finish, RefreshFirst, ReadHead, ReadCheckpoint,
                VerifyCheckpoint, FetchLogs, RefreshBeforeLog, ProcessLog, ReadRangeHash,
                RefreshAfterRange, db
  <1>3. ASSUME NEW w \in Workers,
               AcquireFails(w) \/ CallFails(w) \/ Crash(w) \/ Shutdown(w) \/ Exit(w) \/ Restart(w)
        PROVE  UNCHANGED <<cpNumber, cpHash>>
    BY <1>3 DEF AcquireFails, CallFails, Crash, Shutdown, Exit, Restart, db
  <1> QED
    BY <1>1, <1>2, <1>3 DEF Next

LEMMA NextCovered ==
    ASSUME ShallowReorgs, IInv, [Next]_vars
    PROVE  CheckpointCovered'
  <1> USE RunnerAssumption
  <1>1. /\ Len(ledger) \in Nat /\ Len(ledger') \in Nat /\ Len(ledger) <= Len(ledger')
        /\ DOMAIN ledger = 1 .. Len(ledger) /\ DOMAIN ledger' = 1 .. Len(ledger')
    BY LedgerGrows
  <1>2. /\ head \in Nat /\ head' \in Nat /\ head <= head' /\ confirmations \in Nat
        /\ \A b \in Blocks : b + confirmations <= head => hash'[b] = hash[b]
    BY ChainStep DEF IInv
  <1>3. CASE UNCHANGED <<cpNumber, cpHash>>
    <2> SUFFICES ASSUME cpNumber > 0
                 PROVE  /\ cpNumber + confirmations <= head' /\ cpHash = hash'[cpNumber]
                        /\ \A p \in Logs : blockOf[p] <= cpNumber => p \in DOMAIN ledger'
      BY <1>3 DEF CheckpointCovered, Confirmed
    <2>1. /\ cpNumber + confirmations <= head /\ cpHash = hash[cpNumber]
          /\ \A p \in Logs : blockOf[p] <= cpNumber => p \in DOMAIN ledger
      BY DEF IInv, CheckpointCovered, Confirmed
    <2>2. cpNumber \in Blocks /\ cpNumber \in Nat
      BY DEF IInv, TypeOK, Blocks
    <2>3. cpNumber + confirmations <= head' /\ hash'[cpNumber] = hash[cpNumber]
      BY <1>2, <2>1, <2>2
    <2>4. DOMAIN ledger \subseteq DOMAIN ledger'
      BY <1>1
    <2> QED
      BY <2>1, <2>3, <2>4
  <1>4. ASSUME NEW w \in Workers, SaveCheckpoint(w) PROVE CheckpointCovered'
    <2>1. /\ cpNumber' = to[w] /\ cpHash' = hash[to[w]] /\ to[w] + confirmations <= head
          /\ Done(to[w]) /\ UNCHANGED <<ledger, head, hash>>
      BY <1>4, SavedCheckpoint
    <2>2. ASSUME NEW p \in Logs, blockOf[p] <= to[w] PROVE p \in DOMAIN ledger
      BY <1>1, <2>1, <2>2 DEF Done, Logs
    <2> QED
      BY <2>1, <2>2 DEF CheckpointCovered, Confirmed
  <1> QED
    BY <1>3, <1>4, CheckpointKept

-----------------------------------------------------------------------------
(* What each runner knows.                                                 *)

Untouched(v) ==
    /\ pc'[v] = pc[v] /\ safeHead'[v] = safeHead[v] /\ from'[v] = from[v] /\ to'[v] = to[v]
    /\ todo'[v] = todo[v] /\ view'[v] = view[v] /\ held'[v] = held[v]

\* What a runner knows survives every step of the others and of the chain.
LEMMA StillKnown ==
    ASSUME ShallowReorgs, IInv, [Next]_vars, NEW v \in Workers, Untouched(v)
    PROVE  WorkerInv(v)'
  <1>1. /\ Len(ledger) \in Nat /\ Len(ledger') \in Nat /\ Len(ledger) <= Len(ledger')
    BY LedgerGrows
  <1>2. /\ head \in Nat /\ head' \in Nat /\ head <= head' /\ confirmations \in Nat
        /\ \A b \in Blocks : b + confirmations <= head => hash'[b] = hash[b]
    BY ChainStep DEF IInv
  <1>3. /\ from[v] \in Nat \ {0} /\ to[v] \in 0 .. MaxBlock /\ safeHead[v] \in Nat /\ MaxBlock \in Nat
        /\ todo[v] \subseteq Logs
    BY RunnerAssumption DEF IInv, TypeOK
  <1>4. pc'[v] \in Bounded => safeHead'[v] + confirmations <= head'
    BY <1>2, <1>3 DEF Untouched, IInv, WorkerInv
  <1>5. pc'[v] \in Resumed => Done(from[v] - 1)'
    <2>1. ASSUME NEW b, Done(b) PROVE \A p \in Logs : blockOf[p] <= b => p <= Len(ledger')
      BY <1>1, <2>1 DEF Done, Logs
    <2> QED
      BY <2>1 DEF Untouched, IInv, WorkerInv, Done
  <1>6. ASSUME pc'[v] \in InRange
        PROVE  /\ from'[v] <= to'[v] /\ to'[v] <= safeHead'[v]
               /\ \A p \in Logs : blockOf[p] <= to'[v] => p <= Len(ledger') \/ p \in todo'[v]
               /\ \A p \in todo'[v] : from'[v] <= blockOf[p] /\ blockOf[p] <= to'[v]
               /\ \A b \in Blocks : b <= to'[v] => view'[v][b] = hash'[b]
               /\ hash'[to[v]] = hash[to[v]]
    <2>1. /\ from[v] <= to[v] /\ to[v] <= safeHead[v] /\ safeHead[v] + confirmations <= head
          /\ \A p \in Logs : blockOf[p] <= to[v] => p <= Len(ledger) \/ p \in todo[v]
          /\ \A p \in todo[v] : from[v] <= blockOf[p] /\ blockOf[p] <= to[v]
          /\ \A b \in Blocks : b <= to[v] => view[v][b] = hash[b]
      BY <1>6 DEF Untouched, IInv, WorkerInv, InRange, Bounded
    <2>2. \A p \in Logs : blockOf[p] <= to[v] => p <= Len(ledger') \/ p \in todo[v]
      BY <1>1, <2>1 DEF Logs
    <2>3. to[v] \in Blocks
      BY <1>3, <2>1 DEF Blocks
    <2>4. ASSUME NEW b \in Blocks, b <= to[v] PROVE hash'[b] = hash[b]
      <3>1. b + confirmations <= head
        BY <1>2, <1>3, <2>1, <2>4 DEF Blocks
      <3> QED
        BY <1>2, <3>1
    <2>5. hash'[to[v]] = hash[to[v]]
      BY <1>3, <2>3, <2>4
    <2> QED
      BY <2>1, <2>2, <2>4, <2>5 DEF Untouched
  <1>7. pc'[v] = "process" => todo'[v] # {}
    BY DEF Untouched, IInv, WorkerInv
  <1>8. pc'[v] = "save" => todo'[v] = {} /\ held'[v] = hash'[to'[v]]
    BY <1>6 DEF Untouched, IInv, WorkerInv, InRange
  <1> QED
    BY <1>4, <1>5, <1>6, <1>7, <1>8 DEF WorkerInv, Untouched, Done

\* A step of one runner touches no other runner's variables.
LEMMA OthersUntouched ==
    ASSUME TypeOK, NEW w \in Workers, NEW v \in Workers, v # w,
           \/ Run(w)
           \/ AcquireFails(w) \/ CallFails(w) \/ Crash(w) \/ Shutdown(w) \/ Exit(w) \/ Restart(w)
    PROVE  Untouched(v)
  <1> USE DEF Untouched, TypeOK, Goto
  <1>1. CASE Acquire(w)
    BY <1>1 DEF Acquire, job
  <1>2. CASE Delay(w)
    BY <1>2 DEF Delay, ForgetJob
  <1>3. CASE Finish(w)
    BY <1>3 DEF Finish, ForgetJob
  <1>4. CASE RefreshFirst(w)
    BY <1>4 DEF RefreshFirst, RefreshOr, job
  <1>5. CASE ReadHead(w)
    BY <1>5 DEF ReadHead
  <1>6. CASE ReadCheckpoint(w)
    BY <1>6 DEF ReadCheckpoint
  <1>7. CASE VerifyCheckpoint(w)
    BY <1>7 DEF VerifyCheckpoint, job
  <1>8. CASE FetchLogs(w)
    BY <1>8 DEF FetchLogs
  <1>9. CASE RefreshBeforeLog(w)
    BY <1>9 DEF RefreshBeforeLog, RefreshOr, job
  <1>10. CASE ProcessLog(w)
    BY <1>10 DEF ProcessLog
  <1>11. CASE ReadRangeHash(w)
    BY <1>11 DEF ReadRangeHash
  <1>12. CASE SaveCheckpoint(w)
    BY <1>12 DEF SaveCheckpoint
  <1>13. CASE RefreshAfterRange(w)
    BY <1>13 DEF RefreshAfterRange, RefreshOr, job
  <1>14. CASE AcquireFails(w)
    BY <1>14 DEF AcquireFails, job
  <1>15. CASE CallFails(w)
    BY <1>15 DEF CallFails, job
  <1>16. CASE Crash(w)
    BY <1>16 DEF Crash, Die, ForgetJob
  <1>17. CASE Shutdown(w)
    BY <1>17 DEF Shutdown, job
  <1>18. CASE Exit(w)
    BY <1>18 DEF Exit, Die, ForgetJob
  <1>19. CASE Restart(w)
    BY <1>19 DEF Restart, job
  <1> QED
    BY <1>1, <1>2, <1>3, <1>4, <1>5, <1>6, <1>7, <1>8, <1>9, <1>10, <1>11, <1>12, <1>13, <1>14, <1>15, <1>16, <1>17, <1>18, <1>19 DEF Run

\* A runner that is not between two steps of syncOnce has nothing to know.
LEMMA Idle ==
    ASSUME NEW w \in Workers, pc'[w] \notin Bounded
    PROVE  WorkerInv(w)'
  BY DEF WorkerInv, Bounded, Resumed, InRange

\* The runner's own steps establish what it knows next.
LEMMA RunKnows ==
    ASSUME ShallowReorgs, IInv, NEW w \in Workers, Run(w)
    PROVE  WorkerInv(w)'
  <1> USE RunnerAssumption
  <1> [Next]_vars
    BY DEF Next
  <1>t. /\ from[w] \in 1 .. MaxBlock + 1 /\ to[w] \in 0 .. MaxBlock /\ safeHead[w] \in 0 .. MaxBlock
        /\ todo[w] \subseteq Logs /\ MaxBlock \in Nat /\ confirmations \in Nat /\ head \in Nat
        /\ pc[w] \in InSync \cup {"acquire", "delay", "finish", "done", "down"}
        /\ Len(ledger) \in Nat /\ DOMAIN ledger = 1 .. Len(ledger)
    BY DEF IInv, TypeOK
  <1>k. TypeOK /\ WorkerInv(w)
    BY DEF IInv
  <1>1. CASE Acquire(w) \/ Delay(w) \/ Finish(w)
    <2>1. pc'[w] \notin Bounded
      BY <1>1, <1>k, GotoType DEF Acquire, Delay, Finish, Bounded, InSync
    <2> QED
      BY <2>1, Idle
  <1>2. CASE RefreshFirst(w)
    <2>1. pc'[w] \notin Bounded
      BY <1>2, <1>k, GotoType, AfterSyncType DEF RefreshFirst, RefreshOr, Bounded, InSync
    <2> QED
      BY <2>1, Idle
  <1>3. CASE ReadHead(w)
    <2>1. CASE pc'[w] = "state"
      <3>1. safeHead'[w] = head - confirmations /\ head' = head
        BY <1>3, <1>k, <2>1, GotoType, AfterSyncType DEF ReadHead, TypeOK, InSync, chain
      <3>2. safeHead'[w] + confirmations <= head'
        BY <1>t, <3>1
      <3> QED
        BY <2>1, <3>2 DEF WorkerInv, Bounded, Resumed, InRange
    <2>2. CASE pc'[w] # "state"
      <3>1. pc'[w] \notin Bounded
        BY <1>3, <1>k, <2>2, GotoType, AfterSyncType DEF ReadHead, Bounded, InSync
      <3> QED
        BY <3>1, Idle
    <2> QED
      BY <2>1, <2>2
  <1>4. CASE ReadCheckpoint(w)
    <2>1. /\ pc'[w] \in {"range", "verify"} /\ pc[w] = "state"
          /\ UNCHANGED <<ledger, head, safeHead>>
          /\ from'[w] = IF cpNumber = 0 THEN 1 ELSE cpNumber + 1
      BY <1>4, <1>k, GotoType DEF ReadCheckpoint, TypeOK, InSync, startBlock, chain, db
    <2>2. safeHead[w] + confirmations <= head
      BY <1>k, <2>1 DEF WorkerInv, Bounded
    <2>3. from'[w] - 1 = cpNumber
      <3>1. cpNumber \in Nat
        BY <1>k DEF TypeOK
      <3> QED
        BY <2>1, <3>1
    <2>4. Done(cpNumber)
      <3>1. ASSUME NEW p \in Logs, blockOf[p] <= cpNumber PROVE p <= Len(ledger)
        <4>1. blockOf[p] \in 1 .. MaxBlock /\ cpNumber \in 0 .. MaxBlock
          BY <1>k DEF Blocks, TypeOK
        <4>2. cpNumber > 0
          BY <1>t, <3>1, <4>1
        <4>3. p \in DOMAIN ledger
          BY <3>1, <4>2 DEF IInv, CheckpointCovered
        <4> QED
          BY <1>t, <4>3
      <3> QED
        BY <3>1 DEF Done
    <2>5. Done(from[w] - 1)'
      BY <2>1, <2>3, <2>4 DEF Done
    <2> QED
      BY <2>1, <2>2, <2>5 DEF WorkerInv, InRange
  <1>5. CASE VerifyCheckpoint(w)
    <2>1. CASE pc'[w] = "range"
      <3>1. /\ pc[w] = "verify" /\ UNCHANGED <<ledger, head, safeHead, from>>
        BY <1>5 DEF VerifyCheckpoint, chain, db, job
      <3>2. safeHead[w] + confirmations <= head /\ Done(from[w] - 1)
        BY <1>k, <3>1 DEF WorkerInv, Bounded, Resumed
      <3> QED
        BY <2>1, <3>1, <3>2 DEF WorkerInv, InRange, Done
    <2>2. CASE pc'[w] # "range"
      <3>1. pc'[w] \notin Bounded
        BY <1>5, <1>k, <2>2, GotoType, AfterSyncType DEF VerifyCheckpoint, Bounded, InSync
      <3> QED
        BY <3>1, Idle
    <2> QED
      BY <2>1, <2>2
  <1>6. CASE FetchLogs(w)
    <2>1. CASE pc'[w] = "log"
      <3>1. /\ pc[w] = "range" /\ from[w] <= safeHead[w]
            /\ UNCHANGED <<ledger, head, hash, safeHead, from>>
            /\ to'[w] = EndOfRange(w)
            /\ todo'[w] = LogsBetween(from[w], EndOfRange(w))
            /\ view'[w] = hash
        <4>1. /\ pc[w] = "range" /\ from[w] <= safeHead[w]
              /\ to' = [to EXCEPT ![w] = EndOfRange(w)]
              /\ todo' = [todo EXCEPT ![w] = LogsBetween(from[w], EndOfRange(w))]
              /\ view' = [view EXCEPT ![w] = hash]
          BY <1>6, <1>k, <2>1, GotoType, AfterSyncType DEF FetchLogs
        <4>2. UNCHANGED <<ledger, head, hash, safeHead, from>>
          BY <1>6 DEF FetchLogs, chain, db
        <4>3. w \in DOMAIN to /\ w \in DOMAIN todo /\ w \in DOMAIN view
          BY <1>k DEF TypeOK
        <4> QED
          BY <4>1, <4>2, <4>3
      <3>2. safeHead[w] + confirmations <= head /\ Done(from[w] - 1)
        BY <1>k, <3>1 DEF WorkerInv, Bounded, Resumed
      <3>3. from[w] <= EndOfRange(w) /\ EndOfRange(w) <= safeHead[w] /\ EndOfRange(w) \in Nat
        BY <1>k, <3>1, EndOfRangeBounds DEF Blocks
      <3>4. ASSUME NEW p \in Logs, blockOf[p] <= EndOfRange(w)
            PROVE  p <= Len(ledger) \/ p \in LogsBetween(from[w], EndOfRange(w))
        <4>1. blockOf[p] \in Nat /\ from[w] \in Nat
          BY <1>t DEF Blocks
        <4>2. CASE blockOf[p] <= from[w] - 1
          BY <3>2, <4>2 DEF Done
        <4>3. CASE from[w] <= blockOf[p]
          BY <3>4, <4>3 DEF LogsBetween
        <4> QED
          BY <4>1, <4>2, <4>3
      <3>5. \A p \in LogsBetween(from[w], EndOfRange(w)) :
                from[w] <= blockOf[p] /\ blockOf[p] <= EndOfRange(w)
        BY DEF LogsBetween
      <3> QED
        BY <2>1, <3>1, <3>2, <3>3, <3>4, <3>5 DEF WorkerInv, InRange, Done
    <2>2. CASE pc'[w] # "log"
      <3>1. pc'[w] \notin Bounded
        BY <1>6, <1>k, <2>2, GotoType, AfterSyncType DEF FetchLogs, Bounded, InSync
      <3> QED
        BY <3>1, Idle
    <2> QED
      BY <2>1, <2>2
  <1>7. CASE RefreshBeforeLog(w)
    <2>1. CASE pc'[w] = "process"
      <3>1. /\ pc[w] = "log" /\ todo[w] # {}
            /\ UNCHANGED <<ledger, head, hash, safeHead, from, to, todo, view>>
        BY <1>7 DEF RefreshBeforeLog, chain, db, job
      <3> QED
        BY <1>k, <2>1, <3>1 DEF WorkerInv, Bounded, Resumed, InRange, Done
    <2>2. CASE pc'[w] # "process"
      <3>1. pc'[w] \notin Bounded
        BY <1>7, <1>k, <2>2, GotoType, AfterSyncType DEF RefreshBeforeLog, RefreshOr, Bounded, InSync
      <3> QED
        BY <3>1, Idle
    <2> QED
      BY <2>1, <2>2
  <1>8. CASE ProcessLog(w)
    <2>1. CASE pc'[w] = "log"
      <3>1. /\ pc[w] = "process" /\ UNCHANGED <<head, hash, safeHead, from, to, view>>
        BY <1>8 DEF ProcessLog, chain
      <3>2. PICK p \in todo[w] :
                /\ todo' = [todo EXCEPT ![w] = @ \ {p}]
                /\ \/ p <= Len(ledger) /\ ledger' = ledger
                   \/ p = Len(ledger) + 1 /\ ledger' = Append(ledger, <<p, hash[blockOf[p]]>>)
        BY <1>8, LedgerStep
      <3>3. todo'[w] = todo[w] \ {p}
        BY <1>k, <3>2 DEF TypeOK
      <3>4. Len(ledger) <= Len(ledger') /\ Len(ledger') \in Nat
        BY LedgerGrows
      <3>5. p <= Len(ledger')
        <4>1. ledger \in Seq(Logs \X Nat)
          BY <1>k DEF TypeOK
        <4> QED
          BY <1>t, <3>2, <3>4, <4>1 DEF Logs
      <3>6. /\ safeHead[w] + confirmations <= head /\ Done(from[w] - 1)
            /\ from[w] <= to[w] /\ to[w] <= safeHead[w]
            /\ \A q \in Logs : blockOf[q] <= to[w] => q <= Len(ledger) \/ q \in todo[w]
            /\ \A q \in todo[w] : from[w] <= blockOf[q] /\ blockOf[q] <= to[w]
            /\ \A b \in Blocks : b <= to[w] => view[w][b] = hash[b]
        BY <1>k, <3>1 DEF WorkerInv, Bounded, Resumed, InRange
      <3>7. ASSUME NEW q \in Logs, q <= Len(ledger) PROVE q <= Len(ledger')
        BY <1>t, <3>4, <3>7 DEF Logs
      <3>8. Done(from[w] - 1)'
        BY <3>1, <3>6, <3>7 DEF Done
      <3>9. \A q \in Logs : blockOf[q] <= to[w] => q <= Len(ledger') \/ q \in todo'[w]
        BY <3>3, <3>5, <3>6, <3>7
      <3> QED
        BY <2>1, <3>1, <3>3, <3>6, <3>8, <3>9 DEF WorkerInv, InRange
    <2>2. CASE pc'[w] # "log"
      <3>1. pc'[w] \notin Bounded
        BY <1>8, <1>k, <2>2, GotoType, AfterSyncType DEF ProcessLog, Bounded, InSync
      <3> QED
        BY <3>1, Idle
    <2> QED
      BY <2>1, <2>2
  <1>9. CASE ReadRangeHash(w)
    <2>1. /\ pc[w] = "log" /\ todo[w] = {} /\ pc'[w] = "save" /\ held'[w] = hash[to[w]]
          /\ UNCHANGED <<ledger, head, hash, safeHead, from, to, todo, view>>
      <3>1. /\ pc[w] = "log" /\ todo[w] = {} /\ held' = [held EXCEPT ![w] = hash[to[w]]]
            /\ UNCHANGED <<ledger, head, hash, safeHead, from, to, todo, view>>
        BY <1>9 DEF ReadRangeHash, chain, db
      <3>2. pc'[w] = "save"
        BY <1>9, <1>k, GotoType DEF ReadRangeHash, InSync
      <3>3. w \in DOMAIN held
        BY <1>k DEF TypeOK
      <3> QED
        BY <3>1, <3>2, <3>3
    <2> QED
      BY <1>k, <2>1 DEF WorkerInv, Bounded, Resumed, InRange, Done
  <1>10. CASE SaveCheckpoint(w)
    <2>1. /\ pc[w] = "save" /\ pc'[w] = "refreshEnd" /\ from'[w] = to[w] + 1
          /\ UNCHANGED <<head, ledger, safeHead>>
      BY <1>10, <1>k, GotoType DEF SaveCheckpoint, TypeOK, InSync, chain
    <2>2. safeHead[w] + confirmations <= head
      BY <1>k, <2>1 DEF WorkerInv, Bounded
    <2>3. Done(to[w])
      BY <1>10, SavedCheckpoint
    <2>4. from'[w] - 1 = to[w]
      BY <1>t, <2>1
    <2>5. Done(from[w] - 1)'
      BY <2>1, <2>3, <2>4 DEF Done
    <2> QED
      BY <2>1, <2>2, <2>5 DEF WorkerInv, InRange
  <1>11. CASE RefreshAfterRange(w)
    <2>1. CASE pc'[w] = "range"
      <3>1. /\ pc[w] = "refreshEnd" /\ UNCHANGED <<ledger, head, safeHead, from>>
        BY <1>11 DEF RefreshAfterRange, chain, db, job
      <3>2. safeHead[w] + confirmations <= head /\ Done(from[w] - 1)
        BY <1>k, <3>1 DEF WorkerInv, Bounded, Resumed
      <3> QED
        BY <2>1, <3>1, <3>2 DEF WorkerInv, InRange, Done
    <2>2. CASE pc'[w] # "range"
      <3>1. pc'[w] \notin Bounded
        BY <1>11, <1>k, <2>2, GotoType, AfterSyncType DEF RefreshAfterRange, RefreshOr, Bounded, InSync
      <3> QED
        BY <3>1, Idle
    <2> QED
      BY <2>1, <2>2
  <1> QED
    BY <1>1, <1>2, <1>3, <1>4, <1>5, <1>6, <1>7, <1>8, <1>9, <1>10, <1>11 DEF Run

LEMMA NextKnows ==
    ASSUME ShallowReorgs, IInv, [Next]_vars, NEW v \in Workers
    PROVE  WorkerInv(v)'
  <1>k. TypeOK
    BY DEF IInv
  <1>1. CASE Untouched(v)
    BY <1>1, StillKnown
  <1>2. CASE Mine \/ (\E b \in Blocks : Reorganise(b)) \/ LeaseExpires \/ AbandonedLeaseExpires
             \/ UNCHANGED vars
    <2>1. UNCHANGED <<pc, job>>
      BY <1>2 DEF Mine, Reorganise, LeaseExpires, AbandonedLeaseExpires, vars
    <2>2. Untouched(v)
      BY <2>1 DEF Untouched, job
    <2> QED
      BY <1>1, <2>2
  <1>3. CASE Run(v)
    BY <1>3, RunKnows
  <1>4. CASE AcquireFails(v) \/ CallFails(v) \/ Crash(v) \/ Shutdown(v) \/ Exit(v) \/ Restart(v)
    <2>1. CASE AcquireFails(v) \/ CallFails(v)
      <3>1. pc'[v] \notin Bounded
        BY <2>1, <1>k, GotoType, AfterSyncType DEF AcquireFails, CallFails, Bounded, InSync
      <3> QED
        BY <3>1, Idle
    <2>2. CASE Crash(v) \/ Exit(v)
      <3>1. pc'[v] \notin Bounded
        BY <2>2, <1>k, GotoType DEF Crash, Exit, Die, Bounded, InSync
      <3> QED
        BY <3>1, Idle
    <2>3. CASE Restart(v)
      <3>1. pc'[v] \notin Bounded
        BY <2>3, <1>k, GotoType DEF Restart, Bounded, InSync
      <3> QED
        BY <3>1, Idle
    <2>4. CASE Shutdown(v)
      <3>1. Untouched(v)
        BY <2>4 DEF Shutdown, Untouched, job
      <3> QED
        BY <1>1, <3>1
    <2> QED
      BY <1>4, <2>1, <2>2, <2>3, <2>4
  <1>5. ASSUME NEW w \in Workers, w # v,
               \/ Run(w)
               \/ AcquireFails(w) \/ CallFails(w) \/ Crash(w) \/ Shutdown(w) \/ Exit(w) \/ Restart(w)
        PROVE  Untouched(v)
    BY <1>5, <1>k, OthersUntouched
  <1> QED
    BY <1>1, <1>2, <1>3, <1>4, <1>5 DEF Next

LEMMA NextInv ==
    ASSUME ShallowReorgs, IInv, [Next]_vars
    PROVE  IInv'
  <1>1. TypeOK'
    BY NextType DEF IInv
  <1>2. AppliedInOrder' /\ CheckpointCovered'
    BY NextOrder, NextCovered
  <1>3. \A w \in Workers : WorkerInv(w)'
    BY NextKnows
  <1> QED
    BY <1>1, <1>2, <1>3 DEF IInv

-----------------------------------------------------------------------------
(* The theorems.                                                           *)

LEMMA Invariance == ShallowReorgs /\ Spec => []IInv
  <1>1. ASSUME ShallowReorgs PROVE Spec => []IInv
    <2>1. Init => IInv
      BY InitInv
    <2>2. IInv /\ [Next]_vars => IInv'
      BY <1>1, NextInv
    <2> QED
      BY <2>1, <2>2, PTL DEF Spec
  <1> QED
    BY <1>1

\* However many runners copy logs at once, with valid or stale leases, and
\* wherever they crash, fail or start again: the database holds exactly the
\* first logs of the canonical chain, in order, each once (syncOnce, process).
THEOREM ExactlyOnceInOrder == ShallowReorgs => (Spec => []AppliedInOrder)
  <1>1. IInv => AppliedInOrder
    BY DEF IInv
  <1> QED
    BY <1>1, Invariance, PTL

\* Whatever crashes, expires or is reorganised, every runner stays at one of
\* the steps of syncOnce and start, with a range inside the chain and logs
\* that exist, and the checkpoint and the ledger name real blocks and logs.
THEOREM TypeCorrect == ShallowReorgs => (Spec => []TypeOK)
  <1>1. IInv => TypeOK
    BY DEF IInv
  <1> QED
    BY <1>1, Invariance, PTL

\* The checkpoint never stands behind a log that was not applied, and carries
\* the canonical hash of its block: starting again from it skips nothing.
THEOREM RestartSkipsNothing == ShallowReorgs => (Spec => []CheckpointCovered)
  <1>1. IInv => CheckpointCovered
    BY DEF IInv
  <1> QED
    BY <1>1, Invariance, PTL

\* To a reader of the database the runners together are one writer that
\* appends the logs of a growing chain in order (IndexedLedger).
THEOREM Refinement == ShallowReorgs => (Spec => LedgerSpec)
  <1>1. Init => Ledger!Init
    BY DEF Init, Ledger!Init
  <1>2. ASSUME ShallowReorgs, IInv, [Next]_vars
        PROVE  Ledger!Next \/ UNCHANGED Ledger!ledgerVars
    <2>1. /\ Len(ledger) \in Nat /\ NumLogs \in Nat /\ ledger \in Seq(Logs \X Nat)
      BY RunnerAssumption, <1>2 DEF IInv, TypeOK
    <2>2. CASE Mine
      BY <2>2 DEF Mine, db, Ledger!Next, Ledger!Grow
    <2>3. ASSUME NEW w \in Workers, ProcessLog(w)
          PROVE  Ledger!ApplyNext \/ UNCHANGED Ledger!ledgerVars
      <3>1. PICK p \in todo[w] :
                /\ blockOf[p] + confirmations <= head
                /\ \/ p <= Len(ledger) /\ ledger' = ledger
                   \/ p = Len(ledger) + 1 /\ ledger' = Append(ledger, <<p, hash[blockOf[p]]>>)
        BY <1>2, <2>3, LedgerStep
      <3>2. UNCHANGED <<head, cpNumber>>
        BY <2>3 DEF ProcessLog, chain
      <3>3. p \in Logs
        BY <1>2 DEF IInv, TypeOK
      <3>4. CASE ledger' = ledger
        BY <3>2, <3>4 DEF Ledger!ledgerVars
      <3>5. CASE p = Len(ledger) + 1 /\ ledger' = Append(ledger, <<p, hash[blockOf[p]]>>)
        <4>1. Len(ledger') = Len(ledger) + 1
          BY <2>1, <3>5
        <4>2. Len(ledger) < NumLogs
          BY <2>1, <3>3, <3>5 DEF Logs
        <4> QED
          BY <3>1, <3>2, <3>5, <4>1, <4>2 DEF Ledger!ApplyNext
      <3> QED
        BY <3>1, <3>4, <3>5
    <2>4. ASSUME NEW w \in Workers, SaveCheckpoint(w)
          PROVE  Ledger!Checkpoint
      <3>1. /\ cpNumber' = to[w] /\ to[w] \in Blocks /\ to[w] + confirmations <= head
            /\ Done(to[w]) /\ UNCHANGED <<ledger, head>>
        BY <1>2, <2>4, SavedCheckpoint
      <3>2. to[w] \in Nat
        BY RunnerAssumption, <3>1 DEF Blocks
      <3> QED
        BY <3>1, <3>2 DEF Ledger!Checkpoint, Done, Logs
    <2>5. CASE UNCHANGED <<head, ledger, cpNumber>>
      BY <2>5 DEF Ledger!ledgerVars
    <2>6. CASE ~Mine /\ \A w \in Workers : ~ProcessLog(w) /\ ~SaveCheckpoint(w)
      <3>1. ledger' = ledger
        BY <1>2, <2>6, LedgerKept
      <3>2. cpNumber' = cpNumber
        BY <1>2, <2>6, CheckpointKept
      <3>3. head' = head
        BY <1>2, <2>6, HeadKept
      <3> QED
        BY <2>5, <3>1, <3>2, <3>3
    <2> QED
      BY <2>2, <2>3, <2>4, <2>6 DEF Ledger!Next
  <1>3. ASSUME ShallowReorgs PROVE Spec => LedgerSpec
    <2>1. IInv /\ [Next]_vars => [Ledger!Next]_Ledger!ledgerVars
      BY <1>2, <1>3
    <2>2. Spec => []IInv
      BY <1>3, Invariance
    <2> QED
      BY <1>1, <2>1, <2>2, PTL DEF Spec, LedgerSpec, Ledger!Spec
  <1> QED
    BY <1>3
=============================================================================
