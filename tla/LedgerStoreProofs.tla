---------------------------- MODULE LedgerStoreProofs ----------------------------
(***************************************************************************)
(* For every chain, lookback and number of crashes and failures: what was  *)
(* announced as stored survives (LedgerStore implements DurableLog), the   *)
(* trackers keep up with the blocks, commits are in order and of one       *)
(* consensus version, a restart finds the blocks it replays and the        *)
(* account as of the database's round, and a lookup returns the account    *)
(* of every round it answers for.                                          *)
(***************************************************************************)
EXTENDS LedgerStore, WellFoundedInduction, TLAPS

Labels == {"idle", "write", "written", "notify", "schedule", "forget"}

\* The rounds after b, one by one.
After(s, b) == s \in Seq(Nat) /\ \A i \in 1 .. Len(s) : s[i] = b + i

\* The queue holds the rounds after lastCommitted; the block database ends where the queue
\* starts, but for the moment between the transaction and the removal from the queue;
\* nothing is announced that is not stored.
BlockInv ==
    /\ lastCommitted \in Nat /\ disk \in Nat /\ After(q, lastCommitted)
    /\ blockdb \in [lo : Nat, hi : Nat] /\ sync \in [pc : Labels, n : Nat, save : Nat]
    /\ sync.pc \in {"write", "written"} => sync.n \in 1 .. Len(q)
    /\ blockdb.hi = IF sync.pc = "written" THEN lastCommitted + sync.n ELSE lastCommitted
    /\ disk <= lastCommitted

\* The trackers hold the rounds after their database's, up to the latest one but for the
\* block that is being added; who holds trackerMu is known.
HeldInv ==
    /\ dbRound \in Nat /\ After(deltas, dbRound)
    /\ latest = dbRound + Len(deltas) + (IF trackerMu = "add" THEN 1 ELSE 0)
    /\ sync.pc = "schedule" => trackerMu = "sync"
    /\ reader.pc \in {"db", "row", "wait"} => trackerMu = "read"

\* Rounds that may be committed: stored, known to the trackers, of one consensus version.
Committable(from, to, stored, held) ==
    to <= stored /\ to <= held /\ ~(from + 1 < UpgradeRound /\ UpgradeRound <= to)

\* What is in the channel of deferred commits starts at or before the trackers' round.
Scheduled(tasks, db, stored, held) ==
    \E d, o \in Nat : /\ tasks = <<[oldBase |-> d, offset |-> o]>>
                      /\ d <= db /\ Committable(d, d + o, stored, held)

known == dbRound + Len(deltas)

\* What was scheduled stays committable while other commits and blocks go on.
CommitInv ==
    /\ commit \in [pc : {"idle", "txn", "post"}, oldBase : Nat, offset : Nat]
    /\ dbRound <= lastCommitted
    /\ commit.pc # "idle" =>
          /\ commit.oldBase = dbRound /\ commit.offset >= 1
          /\ Committable(dbRound, dbRound + commit.offset, lastCommitted, known)
    /\ deferred = <<>> \/ Scheduled(deferred, dbRound, lastCommitted, known)
    /\ acctdb.round = IF commit.pc = "post" THEN dbRound + commit.offset ELSE dbRound

\* The blocks that are kept start at or before the trackers' round.
KeptInv ==
    /\ blockdb.lo <= dbRound
    /\ sync.pc \in {"schedule", "forget"} => sync.save <= dbRound

StoreInv == BlockInv /\ HeldInv /\ CommitInv /\ KeptInv

LEMMA StoreInit == Init => StoreInv
<1> SUFFICES ASSUME Init PROVE StoreInv
  BY Zenon
<1>1. BlockInv
  BY DEF Init, BlockInv, After, IdleSync, Labels
<1>2. HeldInv
  BY DEF Init, HeldInv, After, IdleSync, IdleReader, latest
<1>3. CommitInv
  BY DEF Init, CommitInv, IdleCommit
<1>4. KeptInv
  BY DEF Init, KeptInv, IdleSync
<1> QED
  BY <1>1, <1>2, <1>3, <1>4, Zenon DEF StoreInv

LEMMA minToSaveBound ==
    ASSUME StoreInv
    PROVE  minToSave(lastCommitted) \in Nat /\ minToSave(lastCommitted) <= dbRound
<1>1. lastCommitted \in Nat /\ dbRound \in Nat
  BY Zenon DEF StoreInv, BlockInv, HeldInv
<1>2. acctRetain(lastCommitted, acctLookback) \in 0 .. dbRound
  BY <1>1 DEF acctRetain
<1>3. txTailRetain(lastCommitted) \in Nat
  BY <1>1, LedgerStoreAssumption DEF txTailRetain, SubSaturate
<1> QED
  BY <1>1, <1>2, <1>3 DEF minToSave, MinOf

\* What is left of them without the first k.
LEMMA DropRounds ==
    ASSUME NEW s, NEW b \in Nat, NEW k \in 0 .. Len(s), After(s, b)
    PROVE  After(SubSeq(s, k + 1, Len(s)), b + k) /\ Len(SubSeq(s, k + 1, Len(s))) = Len(s) - k
<1> DEFINE t == SubSeq(s, k + 1, Len(s))
<1>1. s \in Seq(Nat) /\ Len(s) \in Nat /\ \A i \in k + 1 .. Len(s) : s[i] \in Nat
  BY DEF After
<1>2. t \in Seq(Nat) /\ Len(t) = Len(s) - k
  BY <1>1
<1>3. \A i \in 1 .. Len(s) - k : t[i] = s[k + 1 + i - 1]
  BY <1>1
<1> HIDE DEF t
<1>4. \A i \in 1 .. Len(s) - k : t[i] = b + k + i
  BY <1>1, <1>3 DEF After
<1>5. After(t, b + k) /\ Len(t) = Len(s) - k
  BY <1>2, <1>4, Zenon DEF After
<1> QED
  BY <1>5, Zenon DEF t

LEMMA AddRound ==
    ASSUME NEW s, NEW b \in Nat, After(s, b)
    PROVE  After(Append(s, b + Len(s) + 1), b) /\ Len(Append(s, b + Len(s) + 1)) = Len(s) + 1
<1> DEFINE t == Append(s, b + Len(s) + 1)
<1>1. s \in Seq(Nat) /\ Len(s) \in Nat /\ b + Len(s) + 1 \in Nat
  BY DEF After
<1>2. /\ t \in Seq(Nat) /\ Len(t) = Len(s) + 1
      /\ \A i \in 1 .. Len(s) : t[i] = s[i]
      /\ t[Len(s) + 1] = b + Len(s) + 1
  BY <1>1
<1>3. \A i \in 1 .. Len(s) + 1 : i \in 1 .. Len(s) \/ i = Len(s) + 1
  BY <1>1
<1>4. \A i \in 1 .. Len(s) : s[i] = b + i
  BY Zenon DEF After
<1> HIDE DEF t
<1>5. ASSUME NEW i \in 1 .. Len(s) + 1 PROVE t[i] = b + i
  <2>1. CASE i \in 1 .. Len(s)
    BY <1>2, <1>4, <2>1, Zenon
  <2>2. CASE i = Len(s) + 1
    BY <1>1, <1>2, <2>2
  <2> QED
    BY <1>3, <2>1, <2>2, Zenon
<1>6. After(t, b) /\ Len(t) = Len(s) + 1
  BY <1>2, <1>5, Zenon DEF After
<1> QED
  BY <1>6, Zenon DEF t

\* The steps of the blocks, their queue and the announcements.
BlockStep ==
    PutBlock \/ TakeWork \/ WriteBlocks \/ WriteFails \/ Committed \/ NotifyCommit \/ ScheduleCommit
    \/ Forget \/ Crash

LEMMA OtherSteps == [Next]_vars /\ ~BlockStep => UNCHANGED <<blockdb, lastCommitted, q, sync, disk>>
BY DEF Next, BlockStep, vars, bulletinVars, blockVars, WaitMem, Lookup, NewBlock, Dequeue, Transaction,
       TransactionFails, PostCommit, ReadRow, ReturnRow, Retry, Opened, FlushCaches, cacheVars

LEMMA BlockInvStep == ASSUME StoreInv, [Next]_vars PROVE BlockInv'
<1> DEFINE Sync(l, k, s) == [pc |-> l, n |-> k, save |-> s]
<1>0. /\ BlockInv
      /\ sync = Sync(sync.pc, sync.n, sync.save) /\ blockdb = [lo |-> blockdb.lo, hi |-> blockdb.hi]
      /\ sync.n \in Nat /\ sync.save \in Nat /\ blockdb.lo \in Nat /\ blockdb.hi \in Nat
  BY Zenon DEF StoreInv, BlockInv
<1>1. CASE ~BlockStep
  BY <1>0, <1>1, OtherSteps, Zenon DEF BlockInv
<1>2. CASE PutBlock
  <2>1. q' = Append(q, lastCommitted + Len(q) + 1)
    BY <1>2, Zenon DEF PutBlock, latest
  <2>2. UNCHANGED <<blockdb, lastCommitted, sync, disk>>
    BY <1>2, Zenon DEF PutBlock, bulletinVars
  <2>3. After(q', lastCommitted) /\ Len(q') = Len(q) + 1
    BY <1>0, <2>1, AddRound, Zenon DEF BlockInv
  <2> QED
    BY <1>0, <2>2, <2>3 DEF BlockInv
<1>3. CASE TakeWork
  <2>1. sync' = Sync("write", Len(q), sync.save) /\ UNCHANGED <<blockdb, lastCommitted, q, disk>>
    BY <1>0, <1>3, Zenon DEF TakeWork, bulletinVars
  <2>2. Len(q) \in 1 .. Len(q) /\ sync.pc # "written"
    BY <1>0, <1>3 DEF TakeWork, BlockInv
  <2> QED
    BY <1>0, <2>1, <2>2 DEF BlockInv, Labels
<1>4. CASE WriteBlocks
  <2>1. /\ sync' = Sync("written", sync.n, sync.save) /\ UNCHANGED <<lastCommitted, q, disk>>
        /\ blockdb' = [lo |-> blockdb.lo, hi |-> q[sync.n]] /\ sync.pc = "write"
    BY <1>0, <1>4, Zenon DEF WriteBlocks, bulletinVars
  <2>2. q[sync.n] = lastCommitted + sync.n /\ sync.n \in 1 .. Len(q)
    BY <1>0, <2>1, Zenon DEF BlockInv, After
  <2> QED
    BY <1>0, <2>1, <2>2 DEF BlockInv, Labels
<1>5. CASE WriteFails
  BY <1>0, <1>5, Zenon DEF BlockInv, WriteFails, bulletinVars, IdleSync, Labels
<1>6. CASE Committed
  <2>1. /\ sync' = Sync("notify", sync.n, sync.save) /\ UNCHANGED <<blockdb, disk>>
        /\ lastCommitted' = lastCommitted + sync.n
        /\ sync.pc = "written" /\ sync.n \in 1 .. Len(q)
    BY <1>0, <1>6, Zenon DEF Committed, bulletinVars, BlockInv
  <2>2. q' = SubSeq(q, sync.n + 1, Len(q)) /\ sync.n \in 0 .. Len(q)
    BY <1>0, <1>6, <2>1 DEF Committed
  <2>3. After(q', lastCommitted')
    BY <1>0, <2>1, <2>2, DropRounds, Zenon DEF BlockInv
  <2>4. blockdb.hi = lastCommitted' /\ lastCommitted' \in Nat /\ disk <= lastCommitted' /\ disk \in Nat
    BY <1>0, <2>1 DEF BlockInv
  <2>5. sync' \in [pc : Labels, n : Nat, save : Nat] /\ sync'.pc = "notify"
    BY <1>0, <2>1, Zenon DEF Labels
  <2> QED
    BY <1>0, <2>1, <2>3, <2>4, <2>5, Zenon DEF BlockInv
<1>7. CASE NotifyCommit
  <2>1. /\ sync' = Sync("schedule", sync.n, minToSave(lastCommitted)) /\ disk' = lastCommitted
        /\ UNCHANGED <<blockdb, lastCommitted, q>> /\ sync.pc = "notify"
    BY <1>0, <1>7, Zenon DEF NotifyCommit
  <2> QED
    BY <1>0, <2>1, minToSaveBound DEF BlockInv, Labels
<1>8. CASE ScheduleCommit
  <2>1. /\ sync' = Sync("forget", sync.n, sync.save) /\ sync.pc = "schedule"
        /\ UNCHANGED <<blockdb, lastCommitted, q, disk>>
    BY <1>0, <1>8, Zenon DEF ScheduleCommit, bulletinVars
  <2> QED
    BY <1>0, <2>1, Zenon DEF BlockInv, Labels
<1>9. CASE Forget
  <2>1. /\ \/ blockdb' = blockdb
           \/ blockdb' = [lo |-> IF blockdb.lo < sync.save THEN sync.save ELSE blockdb.lo, hi |-> blockdb.hi]
        /\ UNCHANGED <<lastCommitted, q, disk>> /\ sync.pc = "forget" /\ sync' = IdleSync
    <3>1. blockdb' = blockdb \/ blockdb' = [blockdb EXCEPT !.lo = IF blockdb.lo < sync.save THEN sync.save ELSE @]
      BY <1>9, Zenon DEF Forget
    <3>2. UNCHANGED <<lastCommitted, q, disk>> /\ sync.pc = "forget" /\ sync' = IdleSync
      BY <1>9, Zenon DEF Forget, bulletinVars
    <3>3. blockdb \in [lo : Nat, hi : Nat]
      BY <1>0, Zenon DEF BlockInv
    <3> QED
      BY <3>1, <3>2, <3>3, Zenon
  <2> QED
    BY <1>0, <2>1 DEF BlockInv, IdleSync, Labels
<1>10. CASE Crash
  <2>1. /\ lastCommitted' = blockdb.hi /\ q' = <<>> /\ sync' = IdleSync /\ disk' = blockdb.hi
        /\ UNCHANGED blockdb
    BY <1>10, Zenon DEF Crash
  <2>2. After(<<>>, blockdb.hi)
    BY DEF After
  <2> QED
    BY <1>0, <2>1, <2>2 DEF BlockInv, IdleSync, Labels
<1> QED
  BY <1>1, <1>2, <1>3, <1>4, <1>5, <1>6, <1>7, <1>8, <1>9, <1>10, Zenon DEF BlockStep

LEMMA RoundsAre ==
    ASSUME NEW b \in Nat, NEW h \in Nat, NEW t, b <= h, t = Rounds(b + 1, h)
    PROVE  After(t, b) /\ Len(t) = h - b
BY DEF Rounds, After

\* A pass of a lookup leaves trackerMu locked only when the lookup is still under way.
LEMMA PassLocks ==
    ASSUME NEW a, NEW r, Pass(a, r)
    PROVE  \/ trackerMu' = "none" /\ reader'.pc \in {"done", "error"}
           \/ trackerMu' = "read"
<1>1. \A n, l, v : Answer(a, n, l, v).pc = "done" /\ [Answer(a, n, l, v) EXCEPT !.pc = "error"].pc = "error"
  BY Zenon DEF Answer, IdleReader
<1>2. \/ \E n, l, v : reader' = Answer(a, n, l, v) /\ trackerMu' = "none"
      \/ \E n, l, v : reader' = [Answer(a, n, l, v) EXCEPT !.pc = "error"] /\ trackerMu' = "none"
      \/ trackerMu' = "read"
  BY Zenon DEF Pass
<1>3. ASSUME NEW n, NEW l, NEW v, reader' = Answer(a, n, l, v) PROVE reader'.pc = "done"
  BY <1>1, <1>3, Zenon
<1>4. ASSUME NEW n, NEW l, NEW v, reader' = [Answer(a, n, l, v) EXCEPT !.pc = "error"]
      PROVE  reader'.pc = "error"
  BY <1>1, <1>4, Zenon
<1> QED
  BY <1>2, <1>3, <1>4, Zenon

\* latest grows only with PutBlock; removing what was stored from the queue keeps it.
LEMMA LatestKept ==
    ASSUME StoreInv, [Next]_vars, ~PutBlock, ~Crash
    PROVE  latest' = latest
<1>0. lastCommitted \in Nat /\ q \in Seq(Nat) /\ sync.n \in Nat
  BY Zenon DEF StoreInv, BlockInv, After
<1>1. CASE Committed
  <2>1. sync.n \in 0 .. Len(q) /\ After(q, lastCommitted)
    BY <1>0, <1>1 DEF Committed, StoreInv, BlockInv
  <2>2. Len(q') = Len(q) - sync.n
    BY <1>0, <1>1, <2>1, DropRounds, Zenon DEF Committed
  <2>3. lastCommitted' = lastCommitted + sync.n
    BY <1>1, Zenon DEF Committed
  <2> QED
    BY <1>0, <2>2, <2>3 DEF latest
<1>2. CASE BlockStep /\ ~Committed
  BY <1>2, Zenon DEF BlockStep, latest, TakeWork, WriteBlocks, WriteFails, NotifyCommit, ScheduleCommit, Forget
<1>3. CASE ~BlockStep
  BY <1>3, OtherSteps, Zenon DEF latest
<1> QED
  BY <1>1, <1>2, <1>3, Zenon

LEMMA HeldInvStep == ASSUME StoreInv, [Next]_vars PROVE HeldInv'
<1>0. /\ HeldInv /\ lastCommitted \in Nat /\ q \in Seq(Nat) /\ dbRound \in Nat /\ deltas \in Seq(Nat)
      /\ Len(deltas) \in Nat /\ Len(q) \in Nat /\ latest \in Nat
  BY DEF StoreInv, BlockInv, HeldInv, After, latest
\* The steps that leave the trackers' rounds alone.
<1> DEFINE Locks == /\ sync'.pc = "schedule" => trackerMu' = "sync"
                    /\ reader'.pc \in {"db", "row", "wait"} => trackerMu' = "read"
<1>1. ASSUME UNCHANGED <<dbRound, deltas>>, latest' = latest, trackerMu # "add", trackerMu' # "add", Locks
      PROVE  HeldInv'
  BY <1>0, <1>1, Zenon DEF HeldInv
<1>2. ASSUME UNCHANGED <<dbRound, deltas, trackerMu>>, latest' = latest, Locks PROVE HeldInv'
  BY <1>0, <1>2, Zenon DEF HeldInv
<1> HIDE DEF Locks
<1>3. CASE PutBlock
  <2>1. /\ trackerMu = "none" /\ trackerMu' = "add" /\ UNCHANGED <<dbRound, deltas, sync, reader>>
        /\ latest' = latest + 1
    BY <1>0, <1>3 DEF PutBlock, commitVars, readVars, latest, cacheVars
  <2> QED
    BY <1>0, <2>1 DEF HeldInv
<1>4. CASE NewBlock
  <2>1. /\ trackerMu = "add" /\ trackerMu' = "none" /\ UNCHANGED <<dbRound, sync, reader>>
        /\ latest' = latest /\ latest = dbRound + Len(deltas) + 1
    BY <1>0, <1>4, Zenon DEF NewBlock, blockVars, HeldInv, latest
  <2>2. deltas' = Append(deltas, dbRound + Len(deltas) + 1)
    BY <1>4, <2>1, Zenon DEF NewBlock
  <2>3. After(deltas', dbRound) /\ Len(deltas') = Len(deltas) + 1
    BY <1>0, <2>2, AddRound, Zenon DEF HeldInv
  <2> QED
    BY <1>0, <2>1, <2>3 DEF HeldInv
<1>5. CASE PostCommit
  <2>1. /\ commit.offset \in 0 .. Len(deltas) /\ dbRound' = dbRound + commit.offset
        /\ UNCHANGED <<sync, reader, trackerMu>> /\ latest' = latest
    <3>1. /\ commit.offset \in Nat /\ commit.oldBase = dbRound
          /\ Committable(dbRound, dbRound + commit.offset, lastCommitted, known)
      BY <1>5, Zenon DEF PostCommit, StoreInv, CommitInv
    <3>2. commit.offset \in 0 .. Len(deltas)
      BY <1>0, <3>1 DEF Committable, known
    <3> QED
      BY <1>5, <3>1, <3>2, Zenon DEF PostCommit, blockVars, latest
  <2>2. deltas' = SubSeq(deltas, commit.offset + 1, Len(deltas))
    BY <1>5, Zenon DEF PostCommit
  <2>3. After(deltas', dbRound') /\ Len(deltas') = Len(deltas) - commit.offset
    BY <1>0, <2>1, <2>2, DropRounds, Zenon DEF HeldInv
  <2>4. dbRound' \in Nat /\ dbRound' + Len(deltas') = dbRound + Len(deltas)
    BY <1>0, <2>1, <2>3
  <2> QED
    BY <1>0, <2>1, <2>3, <2>4, Zenon DEF HeldInv
<1>6. CASE Crash
  <2>1. blockdb.hi \in Nat /\ acctdb.round \in Nat /\ acctdb.round <= blockdb.hi
    <3>1. blockdb.hi \in Nat /\ lastCommitted <= blockdb.hi
      BY DEF StoreInv, BlockInv
    <3>2. CommitInv /\ commit.offset \in Nat
      BY Zenon DEF StoreInv, CommitInv
    <3>3. CASE commit.pc = "post"
      <4>1. acctdb.round = dbRound + commit.offset /\ dbRound + commit.offset <= lastCommitted
        BY <3>2, <3>3, Zenon DEF CommitInv, Committable
      <4> QED
        BY <1>0, <3>1, <3>2, <4>1
    <3>4. CASE commit.pc # "post"
      <4>1. acctdb.round = dbRound /\ dbRound <= lastCommitted
        BY <3>2, <3>4, Zenon DEF CommitInv
      <4> QED
        BY <1>0, <3>1, <4>1
    <3> QED
      BY <3>3, <3>4, Zenon
  <2>2. /\ dbRound' = acctdb.round /\ deltas' = Rounds(acctdb.round + 1, blockdb.hi)
        /\ latest' = blockdb.hi /\ trackerMu' = "open" /\ sync'.pc = "idle" /\ reader'.pc = "idle"
    BY <1>6, <2>1 DEF Crash, latest, IdleSync, IdleReader
  <2>3. After(deltas', dbRound') /\ Len(deltas') = blockdb.hi - acctdb.round
    BY <2>1, <2>2, RoundsAre, Zenon
  <2> QED
    BY <2>1, <2>2, <2>3 DEF HeldInv
<1>7. CASE ~PutBlock /\ ~NewBlock /\ ~PostCommit /\ ~Crash
  <2>1. latest' = latest /\ UNCHANGED <<dbRound, deltas>>
    <3>1. UNCHANGED <<dbRound, deltas>>
      BY <1>7, Zenon DEF Next, vars, commitVars, WaitMem, Lookup, TakeWork, WriteBlocks, WriteFails, Committed,
                  NotifyCommit, ScheduleCommit, Forget, Dequeue, Transaction, TransactionFails, ReadRow,
                  ReturnRow, Retry, Opened, FlushCaches, cacheVars
    <3> QED
      BY <1>7, <3>1, LatestKept, ZenonT(30)
  <2>2. CASE TakeWork \/ WriteBlocks \/ WriteFails \/ Committed \/ Forget
    <3>1. UNCHANGED <<trackerMu, reader>>
      BY <2>2, Zenon DEF TakeWork, WriteBlocks, WriteFails, Committed, Forget, readVars, cacheVars
    <3>2. sync'.pc # "schedule"
      <4>1. \A l, k : [sync EXCEPT !.pc = l, !.n = k].pc = l /\ [sync EXCEPT !.pc = l].pc = l
        BY Zenon DEF StoreInv, BlockInv
      <4>2. \/ \E k : sync' = [sync EXCEPT !.pc = "write", !.n = k]
            \/ sync' = [sync EXCEPT !.pc = "written"] \/ sync' = [sync EXCEPT !.pc = "notify"]
            \/ sync' = IdleSync
        BY <2>2, Zenon DEF TakeWork, WriteBlocks, WriteFails, Committed, Forget
      <4>3. sync'.pc \in {"write", "written", "notify"} \/ sync' = IdleSync
        BY <4>1, <4>2, Zenon
      <4> QED
        BY <4>3 DEF IdleSync
    <3> QED
      BY <1>0, <1>2, <2>1, <3>1, <3>2, Zenon DEF HeldInv, Locks
  <2>3. CASE NotifyCommit
    BY <1>0, <1>1, <2>1, <2>3, Zenon DEF NotifyCommit, HeldInv, Locks, readVars, cacheVars
  <2>4. CASE ScheduleCommit
    <3>1. sync.pc = "schedule" /\ trackerMu' = "none" /\ UNCHANGED reader
      BY <2>4, Zenon DEF ScheduleCommit, readVars, cacheVars
    <3>2. sync'.pc = "forget"
      BY <2>4, Zenon DEF ScheduleCommit, StoreInv, BlockInv
    <3> QED
      BY <1>0, <1>1, <2>1, <3>1, <3>2, Zenon DEF HeldInv, Locks
  <2>5. CASE \/ UNCHANGED vars \/ Dequeue \/ Transaction \/ TransactionFails \/ FlushCaches
             \/ \E r \in 1 .. Len(chain) : WaitMem(r)
    <3>1. UNCHANGED <<trackerMu, reader, sync>>
      BY <2>5, Zenon DEF vars, Dequeue, Transaction, TransactionFails, FlushCaches, WaitMem, readVars, blockVars
    <3> QED
      BY <1>0, <1>2, <2>1, <3>1, Zenon DEF HeldInv, Locks
  <2>6. CASE Opened
    BY <1>0, <1>1, <2>1, <2>6, Zenon DEF Opened, HeldInv, Locks, readVars, blockVars, cacheVars
  <2>7. CASE ReadRow
    BY <1>0, <1>2, <2>1, <2>7, Zenon DEF ReadRow, HeldInv, Locks, blockVars, cacheVars
  <2>8. CASE ReturnRow
    <3>1. reader'.pc = "done" /\ reader.pc = "row" /\ trackerMu' = "none" /\ UNCHANGED sync
      BY <2>8, Zenon DEF ReturnRow, Answer, IdleReader, blockVars
    <3> QED
      BY <1>0, <1>1, <2>1, <3>1, Zenon DEF HeldInv, Locks
  <2>9. ASSUME NEW a, NEW r, Pass(a, r), UNCHANGED sync, trackerMu \in {"none", "read"} PROVE HeldInv'
    <3>1. sync'.pc # "schedule"
      BY <1>0, <2>9, Zenon DEF HeldInv
    <3> QED
      BY <1>0, <1>1, <2>1, <2>9, <3>1, PassLocks, Zenon DEF Locks
  <2>10. CASE Retry
    BY <1>0, <2>9, <2>10, Zenon DEF Retry, HeldInv, blockVars
  <2>11. CASE \E r \in 1 .. Len(chain) : Lookup(r)
    BY <2>9, <2>11, Zenon DEF Lookup, blockVars
  <2> QED
    BY <1>7, <2>2, <2>3, <2>4, <2>5, <2>6, <2>7, <2>8, <2>10, <2>11, Zenon DEF Next
<1> QED
  BY <1>3, <1>4, <1>5, <1>6, <1>7, Zenon

LEMMA KeptInvStep == ASSUME StoreInv, [Next]_vars PROVE KeptInv'
<1>0. /\ KeptInv /\ dbRound \in Nat /\ blockdb.lo \in Nat /\ sync.save \in Nat /\ commit.offset \in Nat
      /\ \A l, k : [sync EXCEPT !.pc = l, !.n = k].pc = l
      /\ \A l : [sync EXCEPT !.pc = l].pc = l /\ [sync EXCEPT !.pc = l].save = sync.save
      /\ \A l, k : [sync EXCEPT !.pc = l, !.save = k].pc = l /\ [sync EXCEPT !.pc = l, !.save = k].save = k
  BY Zenon DEF StoreInv, KeptInv, HeldInv, BlockInv, CommitInv
<1>1. CASE PostCommit
  <2>1. dbRound' = dbRound + commit.offset /\ UNCHANGED <<blockdb, sync>>
    BY <1>1, Zenon DEF PostCommit, blockVars, StoreInv, CommitInv
  <2> QED
    BY <1>0, <2>1 DEF KeptInv
<1>2. CASE Crash
  <2>1. dbRound' = acctdb.round /\ sync'.pc = "idle" /\ UNCHANGED blockdb
    BY <1>2, Zenon DEF Crash, IdleSync
  <2>2. dbRound <= acctdb.round /\ acctdb.round \in Int
    <3>1. acctdb.round = IF commit.pc = "post" THEN dbRound + commit.offset ELSE dbRound
      BY Zenon DEF StoreInv, CommitInv
    <3>2. CASE commit.pc = "post"
      BY <1>0, <3>1, <3>2
    <3>3. CASE commit.pc # "post"
      BY <1>0, <3>1, <3>3
    <3> QED
      BY <3>2, <3>3, Zenon
  <2> QED
    BY <1>0, <2>1, <2>2 DEF KeptInv
<1>3. CASE ~PostCommit /\ ~Crash
  <2>0. UNCHANGED dbRound
    BY <1>3, Zenon DEF Next, vars, commitVars, WaitMem, Lookup, PutBlock, NewBlock, TakeWork, WriteBlocks,
                WriteFails, Committed, NotifyCommit, ScheduleCommit, Forget, Dequeue, Transaction,
                TransactionFails, ReadRow, ReturnRow, Retry, Opened, FlushCaches, cacheVars
  <2>1. CASE ~BlockStep \/ PutBlock
    <3>1. UNCHANGED <<blockdb, sync>>
      BY <2>1, OtherSteps, Zenon DEF PutBlock
    <3> QED
      BY <1>0, <2>0, <3>1, Zenon DEF KeptInv
  <2>2. CASE TakeWork
    <3>1. sync'.pc = "write" /\ UNCHANGED blockdb
      BY <1>0, <2>2, Zenon DEF TakeWork
    <3> QED
      BY <1>0, <2>0, <3>1, Zenon DEF KeptInv
  <2>3. CASE WriteBlocks
    <3>1. sync'.pc = "written"
      BY <1>0, <2>3, Zenon DEF WriteBlocks
    <3>2. blockdb'.lo = blockdb.lo
      BY <2>3, Zenon DEF WriteBlocks, StoreInv, BlockInv
    <3> QED
      BY <1>0, <2>0, <3>1, <3>2, Zenon DEF KeptInv
  <2>4. CASE WriteFails
    BY <1>0, <2>0, <2>4, Zenon DEF WriteFails, IdleSync, KeptInv
  <2>5. CASE Committed
    <3>1. sync'.pc = "notify" /\ UNCHANGED blockdb
      BY <1>0, <2>5, Zenon DEF Committed
    <3> QED
      BY <1>0, <2>0, <3>1, Zenon DEF KeptInv
  <2>6. CASE NotifyCommit
    <3>1. sync'.save = minToSave(lastCommitted) /\ UNCHANGED blockdb
      BY <1>0, <2>6 DEF NotifyCommit
    <3> QED
      BY <1>0, <2>0, <3>1, minToSaveBound, Zenon DEF KeptInv
  <2>7. CASE ScheduleCommit
    <3>1. sync'.save = sync.save /\ sync.pc = "schedule" /\ UNCHANGED blockdb
      BY <1>0, <2>7, Zenon DEF ScheduleCommit
    <3> QED
      BY <1>0, <2>0, <3>1, Zenon DEF KeptInv
  <2>8. CASE Forget
    <3>1. sync'.pc = "idle" /\ sync.pc = "forget"
      BY <2>8, Zenon DEF Forget, IdleSync
    <3>2. \/ blockdb' = blockdb
          \/ blockdb'.lo = IF blockdb.lo < sync.save THEN sync.save ELSE blockdb.lo
      <4>1. blockdb' = blockdb \/ blockdb' = [blockdb EXCEPT !.lo = IF blockdb.lo < sync.save THEN sync.save ELSE @]
        BY <2>8, Zenon DEF Forget
      <4>2. blockdb \in [lo : Nat, hi : Nat]
        BY Zenon DEF StoreInv, BlockInv
      <4> QED
        BY <4>1, <4>2, Zenon
    <3> QED
      BY <1>0, <2>0, <3>1, <3>2, Zenon DEF KeptInv
  <2> QED
    BY <1>3, <2>1, <2>2, <2>3, <2>4, <2>5, <2>6, <2>7, <2>8, ZenonT(30) DEF BlockStep
<1> QED
  BY <1>1, <1>2, <1>3, Zenon

\* consecutiveVersion cuts a range so that it is of one version, and leaves at least a round.
LEMMA VersionCut ==
    ASSUME NEW from \in Nat, NEW o \in Nat \ {0}
    PROVE  /\ consecutiveVersion(from, o) \in 1 .. o
           /\ ~(from + 1 < UpgradeRound /\ UpgradeRound <= from + consecutiveVersion(from, o))
BY LedgerStoreAssumption DEF consecutiveVersion, MinOf

\* The range that scheduleCommit, or opening the ledger, puts in the channel.
LEMMA TaskScheduled ==
    ASSUME NEW d \in Nat, NEW h \in Nat, NEW e \in Nat, acctLookback + d < h, h <= e
    PROVE  Scheduled(<<[oldBase |-> d, offset |-> consecutiveVersion(d, h - acctLookback - d)]>>, d, h, e)
<1> DEFINE o == consecutiveVersion(d, h - acctLookback - d)
<1>0. acctLookback \in Nat
  BY LedgerStoreAssumption, Zenon
<1>1. h - acctLookback - d \in Nat \ {0}
  BY <1>0
<1>2. o \in 1 .. (h - acctLookback - d) /\ ~(d + 1 < UpgradeRound /\ UpgradeRound <= d + o)
  BY <1>1, VersionCut, Zenon
<1> HIDE DEF o
<1>3. o \in Nat /\ d + o <= h /\ d + o <= e
  BY <1>0, <1>1, <1>2
<1>4. Committable(d, d + o, h, e)
  BY <1>2, <1>3, Zenon DEF Committable
<1>5. <<[oldBase |-> d, offset |-> o]>> = <<[oldBase |-> d, offset |-> o]>> /\ d <= d
  OBVIOUS
<1>6. Scheduled(<<[oldBase |-> d, offset |-> o]>>, d, h, e)
  BY <1>3, <1>4, <1>5, Zenon DEF Scheduled
<1> QED
  BY <1>6, Zenon DEF o

LEMMA StaysScheduled ==
    ASSUME NEW t, NEW d \in Nat, NEW h \in Nat, NEW e \in Nat, NEW d2 \in Nat, NEW h2 \in Nat, NEW e2 \in Nat,
           Scheduled(t, d, h, e), d <= d2, h <= h2, e <= e2
    PROVE  Scheduled(t, d2, h2, e2)
BY DEF Scheduled, Committable

LEMMA CommitInvStep == ASSUME StoreInv, [Next]_vars PROVE CommitInv'
<1>0. /\ CommitInv /\ lastCommitted \in Nat /\ dbRound \in Nat /\ Len(deltas) \in Nat /\ known \in Nat
      /\ dbRound <= lastCommitted
  <2>1. CommitInv /\ lastCommitted \in Nat /\ dbRound \in Nat /\ Len(deltas) \in Nat
    BY DEF StoreInv, BlockInv, HeldInv
  <2>2. dbRound <= lastCommitted
    BY <2>1, Zenon DEF CommitInv
  <2> QED
    BY <2>1, <2>2 DEF known
<1>1. /\ commit.offset \in Nat /\ commit.oldBase \in Nat
      /\ commit = [pc |-> commit.pc, oldBase |-> commit.oldBase, offset |-> commit.offset]
  BY <1>0, Zenon DEF CommitInv
<1>2. CASE Dequeue
  <2>1. /\ deferred' = <<>> /\ UNCHANGED <<dbRound, lastCommitted, acctdb>> /\ commit.pc = "idle"
        /\ known' = known
    BY <1>2, Zenon DEF Dequeue, blockVars, known
  <2>2. acctdb'.round = dbRound' /\ dbRound' <= lastCommitted'
    BY <1>0, <2>1, Zenon DEF CommitInv
  <2>3. CASE commit' = IdleCommit
    BY <2>1, <2>2, <2>3, Zenon DEF CommitInv, IdleCommit
  <2>4. CASE commit' # IdleCommit
    <3>1. PICK d \in Nat, o \in Nat : /\ deferred = <<[oldBase |-> d, offset |-> o]>>
                                      /\ d <= dbRound /\ Committable(d, d + o, lastCommitted, known)
      BY <1>0, <1>2, Zenon DEF CommitInv, Scheduled, Dequeue
    <3>2. deferred[1].oldBase = d /\ deferred[1].offset = o
      BY <3>1, Zenon
    <3>3. commit' = [pc |-> "txn", oldBase |-> dbRound, offset |-> d + o - dbRound] /\ d + o - dbRound > 0
      BY <1>0, <1>2, <2>4, <3>2 DEF Dequeue, adjusted
    <3>4. d + o - dbRound \in Nat /\ dbRound + (d + o - dbRound) = d + o /\ d + o - dbRound >= 1
      BY <1>0, <3>3
    <3>5. Committable(dbRound, d + o, lastCommitted, known)
      BY <1>0, <3>1, LedgerStoreAssumption DEF Committable
    <3>6. /\ commit' \in [pc : {"idle", "txn", "post"}, oldBase : Nat, offset : Nat]
          /\ commit'.pc = "txn" /\ commit'.oldBase = dbRound /\ commit'.offset = d + o - dbRound
      BY <1>0, <3>3, <3>4, Zenon
    <3> QED
      BY <2>1, <2>2, <3>4, <3>5, <3>6, Zenon DEF CommitInv
  <2> QED
    BY <2>3, <2>4, Zenon
<1>3. CASE Transaction
  <2>1. /\ commit' = [pc |-> "post", oldBase |-> commit.oldBase, offset |-> commit.offset]
        /\ acctdb'.round = commit.oldBase + commit.offset /\ commit.pc = "txn"
        /\ UNCHANGED <<dbRound, lastCommitted, deferred>> /\ known' = known
    BY <1>1, <1>3, Zenon DEF Transaction, blockVars, known
  <2>2. /\ commit' \in [pc : {"idle", "txn", "post"}, oldBase : Nat, offset : Nat]
        /\ commit'.offset = commit.offset /\ commit'.oldBase = commit.oldBase /\ commit'.pc = "post"
    BY <1>1, <2>1, Zenon
  <2> QED
    BY <1>0, <2>1, <2>2, Zenon DEF CommitInv
<1>4. CASE TransactionFails
  <2>1. /\ commit' = IdleCommit /\ UNCHANGED <<dbRound, lastCommitted, deferred, acctdb>> /\ known' = known
        /\ commit.pc = "txn"
    BY <1>4, Zenon DEF TransactionFails, blockVars, known
  <2> QED
    BY <1>0, <2>1, Zenon DEF CommitInv, IdleCommit
<1>5. CASE PostCommit
  <2>1. /\ commit' = IdleCommit /\ dbRound' = commit.oldBase + commit.offset /\ commit.pc = "post"
        /\ UNCHANGED <<deferred, acctdb, lastCommitted>>
    BY <1>5, Zenon DEF PostCommit, blockVars
  <2>2. /\ commit.oldBase = dbRound /\ Committable(dbRound, dbRound + commit.offset, lastCommitted, known)
        /\ acctdb.round = dbRound + commit.offset
    BY <1>0, <2>1, Zenon DEF CommitInv
  <2>3. known' = known
    <3>1. HeldInv /\ HeldInv' /\ latest' = latest /\ UNCHANGED trackerMu
      BY <1>5, HeldInvStep, Zenon DEF PostCommit, StoreInv, blockVars, latest
    <3>2. /\ latest = known + (IF trackerMu = "add" THEN 1 ELSE 0)
          /\ latest = known' + (IF trackerMu = "add" THEN 1 ELSE 0) /\ known' \in Int
      BY <3>1 DEF HeldInv, known
    <3>3. \A l : \A a, b \in Int, c \in {0, 1} : l = a + c /\ l = b + c => a = b
      OBVIOUS
    <3>4. (IF trackerMu = "add" THEN 1 ELSE 0) \in {0, 1} /\ known \in Int
      BY <1>0
    <3> QED
      BY <3>2, <3>3, <3>4, Zenon
  <2>4. /\ dbRound' = dbRound + commit.offset /\ dbRound' <= lastCommitted' /\ acctdb'.round = dbRound'
        /\ dbRound' \in Nat /\ dbRound <= dbRound'
    BY <1>0, <1>1, <2>1, <2>2 DEF Committable
  <2>5. deferred' = <<>> \/ Scheduled(deferred', dbRound', lastCommitted', known')
    BY <1>0, <2>1, <2>3, <2>4, StaysScheduled DEF CommitInv
  <2>6. commit' \in [pc : {"idle", "txn", "post"}, oldBase : Nat, offset : Nat] /\ commit'.pc = "idle"
    BY <2>1, Zenon DEF IdleCommit
  <2> QED
    BY <2>4, <2>5, <2>6, Zenon DEF CommitInv
<1>6. CASE ScheduleCommit
  <2>1. /\ UNCHANGED <<dbRound, lastCommitted, commit, acctdb>> /\ known' = known /\ sync.pc = "schedule"
        /\ deferred' \in {deferred, offer(produceCommittingTask(lastCommitted))}
    BY <1>6, Zenon DEF ScheduleCommit, known
  <2>2. deferred' = deferred \/ deferred' = produceCommittingTask(lastCommitted)
    BY <2>1, Zenon DEF offer
  <2>3. lastCommitted <= known
    BY <1>0, <2>1 DEF StoreInv, BlockInv, HeldInv, latest, known
  <2>4. deferred' = <<>> \/ Scheduled(deferred', dbRound, lastCommitted, known)
    <3>1. CASE deferred' = deferred
      BY <1>0, <3>1, Zenon DEF CommitInv
    <3>2. CASE deferred' = produceCommittingTask(lastCommitted)
      <4>1. CASE acctLookback + dbRound < lastCommitted
        BY <1>0, <2>3, <3>2, <4>1, TaskScheduled, LedgerStoreAssumption, Zenon DEF produceCommittingTask
      <4>2. CASE ~(acctLookback + dbRound < lastCommitted)
        BY <1>0, <3>2, <4>2, LedgerStoreAssumption DEF produceCommittingTask
      <4> QED
        BY <4>1, <4>2, Zenon
    <3> QED
      BY <2>2, <3>1, <3>2, Zenon
  <2> QED
    BY <1>0, <2>1, <2>4, Zenon DEF CommitInv
<1>7. CASE Crash
  <2>1. /\ dbRound' = acctdb.round /\ lastCommitted' = blockdb.hi /\ commit' = IdleCommit /\ UNCHANGED acctdb
    BY <1>7, Zenon DEF Crash
  <2>2. acctdb.round \in Nat /\ blockdb.hi \in Nat /\ acctdb.round <= blockdb.hi
    <3>1. blockdb.hi \in Nat /\ lastCommitted <= blockdb.hi
      BY DEF StoreInv, BlockInv
    <3>2. CASE commit.pc = "post"
      <4>1. /\ acctdb.round = dbRound + commit.offset
            /\ Committable(dbRound, dbRound + commit.offset, lastCommitted, known)
        BY <3>2, Zenon DEF StoreInv, CommitInv
      <4> QED
        BY <1>0, <1>1, <3>1, <4>1 DEF Committable
    <3>3. CASE commit.pc # "post"
      <4>1. acctdb.round = dbRound /\ dbRound <= lastCommitted
        BY <3>3, Zenon DEF StoreInv, CommitInv
      <4> QED
        BY <1>0, <3>1, <4>1
    <3> QED
      BY <3>2, <3>3, Zenon
  <2>3. known' = blockdb.hi
    <3>1. Len(deltas') = blockdb.hi - acctdb.round
      BY <1>7, <2>2, RoundsAre, Zenon DEF Crash
    <3> QED
      BY <2>1, <2>2, <3>1 DEF known
  <2>4. deferred' = <<>> \/ Scheduled(deferred', acctdb.round, blockdb.hi, blockdb.hi)
    <3>1. CASE acctLookback + acctdb.round < blockdb.hi
      <4> DEFINE d == acctdb.round
                 h == blockdb.hi
                 task == <<[oldBase |-> d, offset |-> consecutiveVersion(d, h - acctLookback - d)]>>
      <4>1. deferred' = IF d + acctLookback < h THEN task ELSE <<>>
        BY <1>7, Zenon DEF Crash
      <4>2. d + acctLookback < h /\ d \in Nat /\ h \in Nat /\ h <= h
        BY <2>2, <3>1, LedgerStoreAssumption
      <4>3. Scheduled(task, d, h, h)
        BY <3>1, <4>2, TaskScheduled, Zenon
      <4> QED
        BY <4>1, <4>2, <4>3, Zenon
    <3>2. CASE ~(acctLookback + acctdb.round < blockdb.hi)
      BY <1>7, <2>2, <3>2, LedgerStoreAssumption DEF Crash
    <3> QED
      BY <3>1, <3>2, Zenon
  <2> QED
    BY <2>1, <2>2, <2>3, <2>4, Zenon DEF CommitInv, IdleCommit
<1>8. CASE ~Dequeue /\ ~Transaction /\ ~TransactionFails /\ ~PostCommit /\ ~ScheduleCommit /\ ~Crash
  <2>1. UNCHANGED <<dbRound, commit, deferred, acctdb>>
    BY <1>8, Zenon DEF Next, vars, commitVars, WaitMem, Lookup, PutBlock, NewBlock, TakeWork, WriteBlocks,
                WriteFails, Committed, NotifyCommit, Forget, ReadRow, ReturnRow, Retry, Opened, FlushCaches, cacheVars
  <2>2. lastCommitted' \in Nat /\ lastCommitted <= lastCommitted'
    <3>1. CASE Committed
      BY <1>0, <3>1 DEF Committed, StoreInv, BlockInv
    <3>2. CASE ~Committed
      BY <1>0, <1>8, <3>2, OtherSteps DEF BlockStep, PutBlock, TakeWork, WriteBlocks, WriteFails, NotifyCommit,
                                          Forget
    <3> QED
      BY <3>1, <3>2, Zenon
  <2>3. known' \in Nat /\ known <= known'
    <3>1. CASE NewBlock
      <4>1. latest = known + 1 /\ After(deltas, dbRound)
        BY <3>1, Zenon DEF NewBlock, known, StoreInv, HeldInv
      <4>2. deltas' = Append(deltas, dbRound + Len(deltas) + 1)
        BY <3>1, <4>1, Zenon DEF NewBlock, known
      <4>3. Len(deltas') = Len(deltas) + 1
        BY <1>0, <4>1, <4>2, AddRound, Zenon
      <4> QED
        BY <1>0, <2>1, <4>3 DEF known
    <3>2. CASE ~NewBlock
      <4>1. UNCHANGED deltas
        BY <1>8, <3>2 DEF Next, vars, commitVars, WaitMem, Lookup, PutBlock, TakeWork, WriteBlocks,
                WriteFails, Committed, NotifyCommit, Forget, ReadRow, ReturnRow, Retry, Opened, FlushCaches, cacheVars
      <4> QED
        BY <1>0, <2>1, <4>1 DEF known
    <3> QED
      BY <3>1, <3>2, Zenon
  <2>4. deferred' = <<>> \/ Scheduled(deferred', dbRound', lastCommitted', known')
    BY <1>0, <2>1, <2>2, <2>3, StaysScheduled DEF CommitInv
  <2>5. \A f, t \in Int : Committable(f, t, lastCommitted, known) => Committable(f, t, lastCommitted', known')
    BY <1>0, <2>2, <2>3 DEF Committable
  <2>6. commit.pc # "idle" => Committable(dbRound, dbRound + commit.offset, lastCommitted', known')
    BY <1>0, <1>1, <2>5 DEF CommitInv
  <2>7. dbRound <= lastCommitted'
    BY <1>0, <2>2
  <2> QED
    BY <1>0, <2>1, <2>4, <2>6, <2>7, ZenonT(30) DEF CommitInv
<1> QED
  BY <1>2, <1>3, <1>4, <1>5, <1>6, <1>7, <1>8, Zenon

----------------------------------------------------------------------------
(* What follows from it.                                                   *)

\* The inductive invariant holds in every state of the ledger.
THEOREM StoreInvariant == Spec => []StoreInv
<1>1. StoreInv /\ [Next]_vars => StoreInv'
  BY BlockInvStep, HeldInvStep, CommitInvStep, KeptInvStep, Zenon DEF StoreInv
<1> QED
  BY <1>1, StoreInit, PTL DEF Spec

\* For every lookback and every schedule of commits: the trackers have a block before they
\* hear that it is stored, and a block that is added is the next one (newBlockImpl and
\* produceCommittingTask cannot panic).
THEOREM KeepUp == Spec => []TrackersKeepUp
<1>1. ASSUME StoreInv PROVE TrackersKeepUp
  <2>0. /\ HeldInv /\ dbRound \in Nat /\ deltas \in Seq(Nat) /\ Len(deltas) \in Nat
        /\ lastCommitted \in Nat /\ Len(q) \in Nat
    BY <1>1 DEF StoreInv, HeldInv, BlockInv, After
  <2>1. deltas = Rounds(dbRound + 1, dbRound + Len(deltas))
    <3> DEFINE lo == dbRound + 1
               hi == dbRound + Len(deltas)
    <3>1. deltas = [i \in 1 .. Len(deltas) |-> deltas[i]]
      BY <2>0
    <3>2. \A i \in 1 .. Len(deltas) : deltas[i] = lo + i - 1
      BY <2>0 DEF HeldInv, After
    <3>3. hi - lo + 1 = Len(deltas)
      BY <2>0
    <3> HIDE DEF lo, hi
    <3>4. Rounds(lo, hi) = [i \in 1 .. Len(deltas) |-> lo + i - 1]
      BY <3>3, Zenon DEF Rounds
    <3>5. deltas = [i \in 1 .. Len(deltas) |-> lo + i - 1]
      BY <3>1, <3>2, Zenon
    <3>6. deltas = Rounds(lo, hi)
      BY <3>4, <3>5, Zenon
    <3> QED
      BY <3>6, Zenon DEF lo, hi
  <2>2. trackerMu # "add" => lastCommitted <= dbRound + Len(deltas)
    BY <2>0 DEF HeldInv, latest
  <2>3. trackerMu = "add" => latest = dbRound + Len(deltas) + 1
    BY <2>0, Zenon DEF HeldInv
  <2> QED
    BY <2>1, <2>2, <2>3, Zenon DEF TrackersKeepUp
<1> QED
  BY <1>1, StoreInvariant, PTL

\* For every upgrade round: a commit, adjusted for the ones before it, covers rounds that
\* the trackers hold and that are stored, of one consensus version (commitRound).
THEOREM Uniform == Spec => []CommitsUniform
<1>1. ASSUME StoreInv, commit.pc # "idle"
      PROVE  /\ commit.oldBase = dbRound /\ commit.offset \in 1 .. Len(deltas)
             /\ commit.oldBase + commit.offset <= blockdb.hi
             /\ ~(commit.oldBase + 1 < UpgradeRound /\ UpgradeRound <= commit.oldBase + commit.offset)
  <2>1. /\ commit.oldBase = dbRound /\ commit.offset >= 1 /\ commit.offset \in Nat
        /\ Committable(dbRound, dbRound + commit.offset, lastCommitted, known)
    BY <1>1, Zenon DEF StoreInv, CommitInv
  <2>2. lastCommitted <= blockdb.hi /\ blockdb.hi \in Nat /\ lastCommitted \in Nat
    BY <1>1 DEF StoreInv, BlockInv
  <2>3. dbRound \in Nat /\ Len(deltas) \in Nat
    BY <1>1 DEF StoreInv, HeldInv
  <2> QED
    BY <2>1, <2>2, <2>3 DEF Committable, known
<1>2. StoreInv => CommitsUniform
  BY <1>1, Zenon DEF CommitsUniform
<1> QED
  BY <1>2, StoreInvariant, PTL

\* The blocks that reloadLedger replays are stored: the round of the tracker database is
\* never outside the block database, however the deferred commits, the deletion of old
\* blocks (minToSave) and crashes interleave.
BlocksForReplay == acctdb.round \in blockdb.lo .. blockdb.hi

LEMMA ReplayBlocks == ASSUME StoreInv PROVE BlocksForReplay
<1>1. /\ lastCommitted <= blockdb.hi /\ blockdb.hi \in Nat /\ blockdb.lo \in Nat /\ lastCommitted \in Nat
      /\ blockdb.lo <= dbRound /\ dbRound \in Nat
  BY DEF StoreInv, BlockInv, KeptInv, HeldInv
<1>2. CASE commit.pc = "post"
  <2>1. /\ acctdb.round = dbRound + commit.offset /\ commit.offset \in Nat
        /\ Committable(dbRound, dbRound + commit.offset, lastCommitted, known)
    BY <1>2, Zenon DEF StoreInv, CommitInv
  <2> QED
    BY <1>1, <2>1 DEF Committable, BlocksForReplay
<1>3. CASE commit.pc # "post"
  <2>1. acctdb.round = dbRound /\ dbRound <= lastCommitted
    BY <1>3, Zenon DEF StoreInv, CommitInv
  <2> QED
    BY <1>1, <2>1 DEF BlocksForReplay
<1> QED
  BY <1>2, <1>3, Zenon

\* In every state a restart finds the blocks it replays (reloadLedger).
THEOREM ReplayPossible == Spec => []BlocksForReplay
BY ReplayBlocks, StoreInvariant, PTL

\* The ledger implements DurableLog: rounds are added one by one, and what bulletinDisk
\* announced (WaitForCommit returned) survives every crash.
THEOREM DurableTheorem == Spec => Durable
<1>1. Init => Log!Init
  BY DEF Init, Log!Init, latest
<1>2. ASSUME StoreInv, [Next]_vars PROVE [Log!Next]_(Log!vars)
  <2>0. /\ lastCommitted \in Nat /\ disk \in Nat /\ q \in Seq(Nat) /\ Len(q) \in Nat /\ disk <= lastCommitted
        /\ latest = lastCommitted + Len(q)
    BY <1>2 DEF StoreInv, BlockInv, After, latest
  <2>1. CASE PutBlock
    <3>1. latest' = latest + 1 /\ disk' = disk
      BY <2>0, <2>1 DEF PutBlock, bulletinVars, latest
    <3> QED
      BY <3>1, Zenon DEF Log!Next, Log!Append
  <2>2. CASE NotifyCommit
    <3>1. latest' = latest /\ disk' = lastCommitted
      BY <1>2, <2>2, LatestKept, Zenon DEF NotifyCommit, latest
    <3>2. CASE disk = lastCommitted
      BY <3>1, <3>2, Zenon DEF Log!vars
    <3>3. CASE disk # lastCommitted
      BY <2>0, <3>1, <3>3 DEF Log!Next, Log!Announce
    <3> QED
      BY <3>2, <3>3, Zenon
  <2>3. CASE Crash
    <3>1. latest' = blockdb.hi /\ disk' = blockdb.hi
      <4>1. lastCommitted' = blockdb.hi /\ q' = <<>> /\ disk' = blockdb.hi
        BY <2>3, Zenon DEF Crash
      <4>2. blockdb.hi \in Nat
        BY <1>2, Zenon DEF StoreInv, BlockInv
      <4> QED
        BY <4>1, <4>2 DEF latest
    <3>2. blockdb.hi \in Nat /\ lastCommitted <= blockdb.hi /\ blockdb.hi <= latest
      BY <1>2, <2>0 DEF StoreInv, BlockInv
    <3> QED
      BY <2>0, <3>1, <3>2 DEF Log!Next, Log!Crash
  <2>4. CASE ~PutBlock /\ ~NotifyCommit /\ ~Crash
    <3>1. latest' = latest
      BY <1>2, <2>4, LatestKept, Zenon
    <3>2. disk' = disk
      BY <1>2, <2>4, OtherSteps DEF BlockStep, TakeWork, WriteBlocks, WriteFails, Committed, ScheduleCommit, Forget,
                               bulletinVars
    <3> QED
      BY <3>1, <3>2, Zenon DEF Log!vars
  <2> QED
    BY <2>1, <2>2, <2>3, <2>4, Zenon
<1> QED
  BY <1>1, <1>2, StoreInvariant, PTL DEF Spec, Durable, Log!Spec

----------------------------------------------------------------------------
(* What the rounds make of the account.                                    *)

\* Induction over the naturals, for a set.
LEMMA Induct ==
    ASSUME NEW S, 0 \in S, \A n \in Nat : n \in S => n + 1 \in S
    PROVE  \A n \in Nat : n \in S
<1> SUFFICES ASSUME Nat \ S # {} PROVE FALSE
  BY Zenon
<1>1. Nat \ S \subseteq Nat
  BY Zenon
<1>2. PICK x \in Nat \ S : \A y \in Nat \ S : ~(<<y, x>> \in OpToRel(<, Nat))
  BY <1>1, NatLessThanWellFounded, WFMin, Zenon
<1>3. \A y \in Nat \ S : ~(y < x)
  BY <1>2, Zenon DEF OpToRel
<1>4. x - 1 \in Nat /\ x - 1 < x /\ (x - 1) + 1 = x
  OBVIOUS
<1>5. x - 1 \in S
  BY <1>3, <1>4, Zenon
<1> QED
  BY <1>4, <1>5, Zenon

\* A function that is defined step by step.
Stepwise(V, x, L, step, f) ==
    f \in [0 .. L -> V] /\ f[0] = x /\ \A n \in 1 .. L : f[n] = step[n][f[n - 1]]

\* It exists.
LEMMA StepByStep ==
    ASSUME NEW V, NEW x \in V, NEW L \in Nat, NEW step \in [1 .. L -> [V -> V]]
    PROVE  \E f : Stepwise(V, x, L, step, f)
<1> DEFINE Good(m) == \E f \in [0 .. m -> V] : f[0] = x /\ \A n \in 1 .. m : f[n] = step[n][f[n - 1]]
           S == {m \in Nat : m <= L => Good(m)}
<1>1. 0 \in S
  <2>1. [n \in 0 .. 0 |-> x] \in [0 .. 0 -> V] /\ [n \in 0 .. 0 |-> x][0] = x
    OBVIOUS
  <2>2. \A n \in 1 .. 0 : FALSE
    OBVIOUS
  <2>3. Good(0)
    BY <2>1, <2>2, Zenon
  <2> QED
    BY <2>3, Zenon
<1>2. ASSUME NEW m \in Nat, m \in S PROVE m + 1 \in S
  <2> SUFFICES ASSUME m + 1 <= L PROVE Good(m + 1)
    OBVIOUS
  <2>1. m <= L
    OBVIOUS
  <2>2. PICK f \in [0 .. m -> V] : f[0] = x /\ \A n \in 1 .. m : f[n] = step[n][f[n - 1]]
    BY <1>2, <2>1, Zenon
  <2> DEFINE g == [n \in 0 .. (m + 1) |-> IF n <= m THEN f[n] ELSE step[m + 1][f[m]]]
  <2>3. f[m] \in V /\ m + 1 \in 1 .. L
    OBVIOUS
  <2>4. step[m + 1][f[m]] \in V
    BY <2>3, Zenon
  <2>5. g \in [0 .. (m + 1) -> V] /\ g[0] = x
    BY <2>2, <2>4
  <2>6. ASSUME NEW n \in 1 .. (m + 1) PROVE g[n] = step[n][g[n - 1]]
    <3>1. n - 1 \in 0 .. m /\ g[n - 1] = f[n - 1]
      OBVIOUS
    <3>2. CASE n <= m
      BY <2>2, <3>1, <3>2
    <3>3. CASE n = m + 1
      BY <3>1, <3>3
    <3> QED
      BY <3>2, <3>3
  <2> HIDE DEF g
  <2> QED
    BY <2>5, <2>6, Zenon
<1> HIDE DEF S
<1>3. L \in S
  BY <1>1, <1>2, Induct, Zenon
<1> QED
  BY <1>3 DEF S, Stepwise

\* The operators of the model for a given chain c.
Effect(c, val, r) ==
    CASE c[r] = "set" -> r
      [] c[r] = "close" -> 0
      [] OTHER -> val
Effects(c, val, s) ==
    LET after[n \in 0 .. Len(s)] == IF n = 0 THEN val ELSE Effect(c, after[n - 1], s[n])
    IN  after[Len(s)]
ValueOf(c, r) == Effects(c, 0, Rounds(1, r))

LEMMA SameOperators ==
    /\ \A v, s : ApplyAll(v, s) = Effects(chain, v, s)
    /\ \A r : ValueAt(r) = ValueOf(chain, r)
    /\ \A r : ValueAt(r)' = ValueOf(chain', r)
<1>1. \A v, s : ApplyAll(v, s) = Effects(chain, v, s)
  BY Zenon DEF ApplyAll, Effects, Apply, Effect
<1>2. \A r : ValueAt(r) = ValueOf(chain, r)
  BY Zenon DEF ValueAt, ValueOf, ApplyAll, Effects, Apply, Effect
<1>3. \A r : ValueAt(r)' = ValueOf(chain', r)
  BY Zenon DEF ValueAt, ValueOf, ApplyAll, Effects, Apply, Effect, Rounds
<1> QED
  BY <1>1, <1>2, <1>3, Zenon

\* The values the account goes through, from v, when the rounds of s are applied.
Course(c, v, s, f) ==
    /\ f \in [0 .. Len(s) -> Nat] /\ f[0] = v
    /\ \A n \in 1 .. Len(s) : f[n] = Effect(c, f[n - 1], s[n])
    /\ Effects(c, v, s) = f[Len(s)]

LEMMA EffectsAre ==
    ASSUME NEW c, NEW v \in Nat, NEW s \in Seq(Nat)
    PROVE  \E f : Course(c, v, s, f)
<1> DEFINE L == Len(s)
           step == [n \in 1 .. L |-> [x \in Nat |-> Effect(c, x, s[n])]]
           Is(f) == f = [n \in 0 .. L |-> IF n = 0 THEN v ELSE Effect(c, f[n - 1], s[n])]
           g == CHOOSE f : Is(f)
<1>0. L \in Nat /\ \A n \in 1 .. L : s[n] \in Nat
  OBVIOUS
<1>1. step \in [1 .. L -> [Nat -> Nat]]
  BY <1>0, Zenon DEF Effect
<1>2. PICK f : Stepwise(Nat, v, L, step, f)
  <2> HIDE DEF step, L
  <2>1. v \in Nat /\ L \in Nat
    BY <1>0, Zenon
  <2> QED
    BY <1>1, <2>1, StepByStep, Zenon
<1>2a. f \in [0 .. L -> Nat] /\ f[0] = v /\ \A n \in 1 .. L : f[n] = step[n][f[n - 1]]
  BY <1>2, Zenon DEF Stepwise
<1>3. ASSUME NEW n \in 0 .. L PROVE f[n] = IF n = 0 THEN v ELSE Effect(c, f[n - 1], s[n])
  <2>1. CASE n = 0
    BY <1>2a, <2>1, Zenon
  <2>2. CASE n # 0
    <3>1. n \in 1 .. L /\ n - 1 \in 0 .. L
      BY <1>0, <2>2
    <3>2. f[n - 1] \in Nat
      BY <1>2a, <3>1, Zenon
    <3> QED
      BY <1>2a, <2>2, <3>1, <3>2, Zenon
  <2> QED
    BY <2>1, <2>2, Zenon
<1>4. Is(f)
  BY <1>2a, <1>3, Zenon
<1>5. Is(g)
  BY <1>4, Zenon
<1>6. Effects(c, v, s) = g[L]
  BY Zenon DEF Effects
<1> HIDE DEF g
<1>7. \A n \in 0 .. L : g[n] = IF n = 0 THEN v ELSE Effect(c, g[n - 1], s[n])
  BY <1>5, Zenon
<1> DEFINE S == {n \in Nat : n <= L => g[n] \in Nat}
<1>8. 0 \in S
  BY <1>0, <1>7
<1>9. ASSUME NEW n \in Nat, n \in S PROVE n + 1 \in S
  <2> SUFFICES ASSUME n + 1 <= L PROVE g[n + 1] \in Nat
    OBVIOUS
  <2>1. n \in 0 .. L /\ n + 1 \in 0 .. L /\ n + 1 # 0 /\ (n + 1) - 1 = n /\ n + 1 \in 1 .. L
    BY <1>0
  <2>2. g[n] \in Nat /\ s[n + 1] \in Nat
    BY <1>0, <1>9, <2>1
  <2>3. g[n + 1] = Effect(c, g[n], s[n + 1])
    BY <1>7, <2>1, Zenon
  <2> QED
    BY <2>2, <2>3 DEF Effect
<1>10. \A n \in Nat : n \in S
  <2> HIDE DEF S
  <2> QED
    BY <1>8, <1>9, Induct, Zenon
<1>11. g \in [0 .. L -> Nat]
  <2>1. \A n \in 0 .. L : n \in Nat /\ n <= L
    BY <1>0
  <2>2. \A n \in 0 .. L : g[n] \in Nat
    BY <1>10, <2>1, Zenon
  <2>3. g = [n \in 0 .. L |-> g[n]]
    BY <1>5, Zenon
  <2> QED
    BY <2>2, <2>3, Zenon
<1>12. g[0] = v /\ \A n \in 1 .. L : g[n] = Effect(c, g[n - 1], s[n])
  BY <1>0, <1>7
<1> QED
  BY <1>6, <1>11, <1>12, Zenon DEF Course

LEMMA RoundsTo ==
    ASSUME NEW r \in Nat
    PROVE  /\ Rounds(1, r) \in Seq(Nat) /\ Len(Rounds(1, r)) = r
           /\ \A n \in 1 .. r : Rounds(1, r)[n] = n
<1>1. r - 1 + 1 = r /\ \A i : i \in 1 .. r => 1 + i - 1 = i /\ i \in Nat
  OBVIOUS
<1>2. Rounds(1, r) = [i \in 1 .. r |-> i]
  BY <1>1, Zenon DEF Rounds
<1> QED
  BY <1>1, <1>2

\* The account after round r + 1 is what block r + 1 makes of the account after round r.
LEMMA ValueSteps ==
    ASSUME NEW c
    PROVE  /\ ValueOf(c, 0) = 0
           /\ \A r \in Nat : ValueOf(c, r) \in Nat /\ ValueOf(c, r + 1) = Effect(c, ValueOf(c, r), r + 1)
<1>1. ASSUME NEW r \in Nat
      PROVE  \E f \in [0 .. r -> Nat] :
                /\ f[0] = 0 /\ \A n \in 1 .. r : f[n] = Effect(c, f[n - 1], n)
                /\ ValueOf(c, r) = f[r]
  <2> DEFINE s == Rounds(1, r)
  <2>1. s \in Seq(Nat) /\ Len(s) = r /\ \A n \in 1 .. r : s[n] = n
    BY RoundsTo, Zenon
  <2> HIDE DEF s
  <2>2. PICK f : Course(c, 0, s, f)
    <3>1. 0 \in Nat
      BY Zenon
    <3> QED
      BY <2>1, <3>1, EffectsAre, Zenon
  <2>3. ValueOf(c, r) = Effects(c, 0, s)
    BY Zenon DEF ValueOf, s
  <2>4. \A n \in 1 .. r : f[n] = Effect(c, f[n - 1], n)
    BY <2>1, <2>2, Zenon DEF Course
  <2>5. f \in [0 .. r -> Nat] /\ f[0] = 0 /\ ValueOf(c, r) = f[r]
    BY <2>1, <2>2, <2>3, Zenon DEF Course
  <2> QED
    BY <2>4, <2>5, Zenon
<1>2. ValueOf(c, 0) = 0
  BY <1>1, Zenon
<1>3. ASSUME NEW r \in Nat
      PROVE  ValueOf(c, r) \in Nat /\ ValueOf(c, r + 1) = Effect(c, ValueOf(c, r), r + 1)
  <2>1. PICK f \in [0 .. r -> Nat] :
                /\ f[0] = 0 /\ \A n \in 1 .. r : f[n] = Effect(c, f[n - 1], n)
                /\ ValueOf(c, r) = f[r]
    BY <1>1, Zenon
  <2>2. PICK g \in [0 .. (r + 1) -> Nat] :
                /\ g[0] = 0 /\ \A n \in 1 .. (r + 1) : g[n] = Effect(c, g[n - 1], n)
                /\ ValueOf(c, r + 1) = g[r + 1]
    <3>1. r + 1 \in Nat
      OBVIOUS
    <3> QED
      BY <1>1, <3>1, Zenon
  <2> DEFINE S == {n \in Nat : n <= r => f[n] = g[n]}
  <2>3. 0 \in S
    BY <2>1, <2>2, Zenon
  <2>4. ASSUME NEW n \in Nat, n \in S PROVE n + 1 \in S
    <3> SUFFICES ASSUME n + 1 <= r PROVE f[n + 1] = g[n + 1]
      OBVIOUS
    <3>1. n + 1 \in 1 .. r /\ n + 1 \in 1 .. (r + 1) /\ (n + 1) - 1 = n /\ n <= r
      OBVIOUS
    <3>2. f[n] = g[n]
      BY <2>4, <3>1, Zenon
    <3> QED
      BY <2>1, <2>2, <3>1, <3>2, Zenon
  <2>5. r \in S
    <3> HIDE DEF S
    <3> QED
      BY <2>3, <2>4, Induct, Zenon
  <2>6. f[r] = g[r]
    BY <2>5
  <2>7. r + 1 \in 1 .. (r + 1) /\ (r + 1) - 1 = r /\ f[r] \in Nat
    OBVIOUS
  <2> QED
    BY <2>1, <2>2, <2>6, <2>7, Zenon
<1> QED
  BY <1>2, <1>3, Zenon

\* Rounds that keep the account keep its value.
LEMMA Quiet ==
    ASSUME NEW c, NEW a \in Nat, NEW b \in Nat, \A r \in a + 1 .. b : c[r] \notin {"set", "close"}
    PROVE  \A r \in a .. b : ValueOf(c, r) = ValueOf(c, a)
<1> DEFINE S == {n \in Nat : a + n <= b => ValueOf(c, a + n) = ValueOf(c, a)}
<1>1. 0 \in S
  BY ValueSteps
<1>2. ASSUME NEW n \in Nat, n \in S PROVE n + 1 \in S
  <2> SUFFICES ASSUME a + (n + 1) <= b PROVE ValueOf(c, a + (n + 1)) = ValueOf(c, a)
    OBVIOUS
  <2>1. a + n \in Nat /\ (a + n) + 1 = a + (n + 1) /\ a + n <= b /\ (a + n) + 1 \in a + 1 .. b
    OBVIOUS
  <2>2. ValueOf(c, a + n) = ValueOf(c, a)
    BY <1>2, <2>1, Zenon
  <2>3. ValueOf(c, (a + n) + 1) = Effect(c, ValueOf(c, a + n), (a + n) + 1)
    BY <2>1, ValueSteps, Zenon
  <2>4. c[(a + n) + 1] \notin {"set", "close"}
    BY <2>1, Zenon
  <2> QED
    BY <2>1, <2>2, <2>3, <2>4, Zenon DEF Effect
<1>3. \A n \in Nat : n \in S
  <2> HIDE DEF S
  <2> QED
    BY <1>1, <1>2, Induct, Zenon
<1> SUFFICES ASSUME NEW r \in a .. b PROVE ValueOf(c, r) = ValueOf(c, a)
  BY Zenon
<1>4. r - a \in Nat /\ a + (r - a) = r /\ a + (r - a) <= b
  OBVIOUS
<1>5. r - a \in S
  BY <1>3, <1>4, Zenon
<1> QED
  BY <1>4, <1>5, Zenon

\* A batch of rounds brings the account of the round before it to the one of its last round.
LEMMA BatchApplies ==
    ASSUME NEW c, NEW b \in Nat, NEW s, After(s, b)
    PROVE  Effects(c, ValueOf(c, b), s) = ValueOf(c, b + Len(s))
<1>1. s \in Seq(Nat) /\ Len(s) \in Nat /\ \A i \in 1 .. Len(s) : s[i] = b + i
  BY DEF After
<1>2. ValueOf(c, b) \in Nat
  BY ValueSteps, Zenon
<1>3a. PICK f : Course(c, ValueOf(c, b), s, f)
  BY <1>1, <1>2, EffectsAre, Zenon
<1>3. /\ f \in [0 .. Len(s) -> Nat]
      /\ f[0] = ValueOf(c, b) /\ \A n \in 1 .. Len(s) : f[n] = Effect(c, f[n - 1], s[n])
      /\ Effects(c, ValueOf(c, b), s) = f[Len(s)]
  BY <1>3a, Zenon DEF Course
<1> DEFINE S == {n \in Nat : n <= Len(s) => f[n] = ValueOf(c, b + n)}
<1>4. 0 \in S
  BY <1>3
<1>5. ASSUME NEW n \in Nat, n \in S PROVE n + 1 \in S
  <2> SUFFICES ASSUME n + 1 <= Len(s) PROVE f[n + 1] = ValueOf(c, b + (n + 1))
    OBVIOUS
  <2>1. n + 1 \in 1 .. Len(s) /\ (n + 1) - 1 = n /\ n <= Len(s) /\ b + n \in Nat /\ (b + n) + 1 = b + (n + 1)
    BY <1>1
  <2>2. f[n] = ValueOf(c, b + n)
    BY <1>5, <2>1, Zenon
  <2>3. f[n + 1] = Effect(c, f[n], s[n + 1]) /\ s[n + 1] = b + (n + 1)
    BY <1>1, <1>3, <2>1, Zenon
  <2>4. ValueOf(c, (b + n) + 1) = Effect(c, ValueOf(c, b + n), (b + n) + 1)
    BY <2>1, ValueSteps, Zenon
  <2> QED
    BY <2>1, <2>2, <2>3, <2>4, Zenon
<1>6. Len(s) \in S
  <2> HIDE DEF S
  <2> QED
    BY <1>1, <1>4, <1>5, Induct, Zenon
<1> QED
  BY <1>1, <1>3, <1>6

\* A batch that touches the account leaves the same value whatever it was before.
LEMMA TouchedBatch ==
    ASSUME NEW c, NEW b \in Nat, NEW s, After(s, b), NEW v \in Nat,
           \E i \in 1 .. Len(s) : c[s[i]] \in {"set", "close"}
    PROVE  Effects(c, v, s) = ValueOf(c, b + Len(s))
<1>1. s \in Seq(Nat) /\ Len(s) \in Nat
  BY DEF After
<1>2. ValueOf(c, b) \in Nat
  BY ValueSteps, Zenon
<1>3a. PICK f : Course(c, v, s, f)
  BY <1>1, EffectsAre, Zenon
<1>3. /\ f \in [0 .. Len(s) -> Nat]
      /\ f[0] = v /\ \A n \in 1 .. Len(s) : f[n] = Effect(c, f[n - 1], s[n])
      /\ Effects(c, v, s) = f[Len(s)]
  BY <1>3a, Zenon DEF Course
<1>4a. PICK g : Course(c, ValueOf(c, b), s, g)
  BY <1>1, <1>2, EffectsAre, Zenon
<1>4. /\ g \in [0 .. Len(s) -> Nat]
      /\ g[0] = ValueOf(c, b) /\ \A n \in 1 .. Len(s) : g[n] = Effect(c, g[n - 1], s[n])
      /\ Effects(c, ValueOf(c, b), s) = g[Len(s)]
  BY <1>4a, Zenon DEF Course
<1>5. PICK i \in 1 .. Len(s) : c[s[i]] \in {"set", "close"}
  BY Zenon
<1> DEFINE S == {n \in Nat : i + n <= Len(s) => f[i + n] = g[i + n]}
<1>6. 0 \in S
  <2>1. f[i] = g[i]
    BY <1>3, <1>4, <1>5, Zenon DEF Effect
  <2> QED
    BY <1>1, <2>1
<1>7. ASSUME NEW n \in Nat, n \in S PROVE n + 1 \in S
  <2> SUFFICES ASSUME i + (n + 1) <= Len(s) PROVE f[i + (n + 1)] = g[i + (n + 1)]
    OBVIOUS
  <2>1. i + (n + 1) \in 1 .. Len(s) /\ (i + (n + 1)) - 1 = i + n /\ i + n <= Len(s)
    BY <1>1
  <2>2. f[i + n] = g[i + n]
    BY <1>7, <2>1, Zenon
  <2> QED
    BY <1>3, <1>4, <2>1, <2>2, Zenon
<1>8. Len(s) - i \in S
  <2>1. Len(s) - i \in Nat
    BY <1>1
  <2> HIDE DEF S
  <2> QED
    BY <1>6, <1>7, <2>1, Induct, Zenon
<1>9. f[Len(s)] = g[Len(s)]
  <2>1. i + (Len(s) - i) = Len(s)
    BY <1>1
  <2> QED
    BY <1>1, <1>8, <2>1
<1> QED
  BY <1>3, <1>4, <1>9, BatchApplies, Zenon

----------------------------------------------------------------------------
(* The cache.                                                              *)

Entries == [round : Nat \cup {-1}, val : Nat]

\* What the cache may hold while the tracker database is at round d and the account is v.
Fresh(e, d, v) == e # NoEntry => e.round \in 0 .. d /\ e.val = v

\* An entry that flushPendingWrites may apply to a cache that holds an entry of round b.
Harmless(e, b, d, v) == e.round <= d /\ (e.val = v \/ e.round < b)

LEMMA ElementsOf ==
    ASSUME NEW V, NEW s \in Seq(V)
    PROVE  Len(s) \in Nat /\ \A n \in 1 .. Len(s) : s[n] \in V
OBVIOUS

LEMMA NewerFresh ==
    ASSUME NEW b \in Entries, NEW x \in Entries, NEW e \in [round : Nat, val : Nat], NEW d \in Nat, NEW v \in Nat,
           x.round >= b.round, Fresh(x, d, v), Harmless(e, b.round, d, v)
    PROVE  Newer(x, e) \in Entries /\ Newer(x, e).round >= b.round /\ Fresh(Newer(x, e), d, v)
<1>1. e.round \in Nat /\ e.val \in Nat /\ e \in Entries
  BY Zenon DEF Entries
<1>2. x.round \in Int /\ b.round \in Int
  BY DEF Entries
<1>3. CASE x.round < e.round
  <2>1. Newer(x, e) = e
    BY <1>3, Zenon DEF Newer
  <2>2. e.round <= d /\ (e.val = v \/ e.round < b.round)
    BY Zenon DEF Harmless
  <2>3. e.round >= b.round /\ ~(e.round < b.round)
    BY <1>1, <1>2, <1>3
  <2>4. e.val = v /\ e.round \in 0 .. d
    BY <1>1, <2>2, <2>3
  <2> QED
    BY <1>1, <2>1, <2>3, <2>4, Zenon DEF Fresh
<1>4. CASE ~(x.round < e.round)
  BY <1>4, Zenon DEF Newer
<1> QED
  BY <1>3, <1>4, Zenon

LEMMA FlushedFresh ==
    ASSUME NEW b \in Entries, NEW p \in Seq([round : Nat, val : Nat]), NEW d \in Nat, NEW v \in Nat,
           Fresh(b, d, v), \A i \in 1 .. Len(p) : Harmless(p[i], b.round, d, v)
    PROVE  /\ Flushed(b, p) \in Entries /\ Fresh(Flushed(b, p), d, v)
           /\ Flushed(b, p).round >= b.round
<1> DEFINE L == Len(p)
           K == {x \in Entries : x.round >= b.round /\ Fresh(x, d, v)}
           step == [n \in 1 .. L |-> [x \in K |-> Newer(x, p[n])]]
           Is(f) == f = [n \in 0 .. L |-> IF n = 0 THEN b ELSE Newer(f[n - 1], p[n])]
           g == CHOOSE f : Is(f)
<1>0. L \in Nat /\ \A n \in 1 .. L : p[n] \in [round : Nat, val : Nat] /\ Harmless(p[n], b.round, d, v)
  BY ElementsOf, Zenon
<1>1. ASSUME NEW x \in K, NEW n \in 1 .. L PROVE Newer(x, p[n]) \in K
  <2>1. x \in Entries /\ x.round >= b.round /\ Fresh(x, d, v)
    BY Zenon
  <2> QED
    BY <1>0, <2>1, NewerFresh, Zenon
<1>2. b \in K
  BY DEF Entries
<1> HIDE DEF K, L
<1>3. step \in [1 .. L -> [K -> K]]
  BY <1>1, Zenon
<1>4. PICK f : Stepwise(K, b, L, step, f)
  <2> HIDE DEF step
  <2> QED
    BY <1>0, <1>2, <1>3, StepByStep, Zenon
<1>5. f \in [0 .. L -> K] /\ f[0] = b /\ \A n \in 1 .. L : f[n] = step[n][f[n - 1]]
  BY <1>4, Zenon DEF Stepwise
<1>6. ASSUME NEW n \in 0 .. L PROVE f[n] = IF n = 0 THEN b ELSE Newer(f[n - 1], p[n])
  <2>1. CASE n = 0
    BY <1>5, <2>1, Zenon
  <2>2. CASE n # 0
    <3>1. n \in 1 .. L /\ n - 1 \in 0 .. L
      BY <1>0, <2>2
    <3>2. f[n - 1] \in K
      BY <1>5, <3>1, Zenon
    <3> QED
      BY <1>5, <2>2, <3>1, <3>2, Zenon
  <2> QED
    BY <2>1, <2>2, Zenon
<1>7. Is(f)
  BY <1>5, <1>6, Zenon
<1>8. Is(g)
  BY <1>7, Zenon
<1>9. Flushed(b, p) = g[L]
  BY Zenon DEF Flushed, L
<1> HIDE DEF g
<1>10. \A n \in 0 .. L : g[n] = IF n = 0 THEN b ELSE Newer(g[n - 1], p[n])
  BY <1>8, Zenon
<1> DEFINE S == {n \in Nat : n <= L => g[n] \in K}
<1>11. 0 \in S
  BY <1>0, <1>2, <1>10
<1>12. ASSUME NEW n \in Nat, n \in S PROVE n + 1 \in S
  <2> SUFFICES ASSUME n + 1 <= L PROVE g[n + 1] \in K
    OBVIOUS
  <2>1. n \in 0 .. L /\ n + 1 \in 0 .. L /\ n + 1 # 0 /\ (n + 1) - 1 = n /\ n + 1 \in 1 .. L
    BY <1>0
  <2>2. g[n] \in K
    BY <1>0, <1>12, <2>1
  <2>3. g[n + 1] = Newer(g[n], p[n + 1])
    BY <1>10, <2>1, Zenon
  <2> QED
    BY <1>1, <2>1, <2>2, <2>3, Zenon
<1>13. L \in S
  <2> HIDE DEF S
  <2> QED
    BY <1>0, <1>11, <1>12, Induct, Zenon
<1>14. g[L] \in K
  BY <1>0, <1>13
<1> QED
  BY <1>9, <1>14, Zenon DEF K

----------------------------------------------------------------------------
(* The account in the database, in the cache and in a lookup.              *)

\* The chain of the run has the rounds there are.
ChainInv == chain \in Chains /\ latest <= Len(chain)

\* The tracker database holds the account of its round.
AccountInv == acctdb \in [round : Nat, val : Nat] /\ acctdb.val = ValueOf(chain, acctdb.round)

account == ValueOf(chain, dbRound)

\* The cache has the account of dbRound, or nothing; an entry that a lookup left for it is
\* as good, or older than the one the cache has.
CacheInv ==
    /\ base \in Entries /\ Fresh(base, dbRound, account)
    /\ pending \in Seq([round : Nat, val : Nat])
    /\ \A i \in 1 .. Len(pending) : Harmless(pending[i], base.round, dbRound, account)

Readers == [pc : {"idle", "db", "row", "wait", "error", "done"}, asked : Nat, rnd : Nat, level : Nat,
            val : Nat, db : Nat, len : Nat]

\* The account did not change from the round a lookup asked for to the one it will return,
\* nor between these and the round of the database it started with.
ReaderInv ==
    /\ reader \in Readers
    /\ reader.pc \in {"db", "row", "wait"} =>
          /\ reader.asked <= reader.rnd /\ reader.db <= dbRound
          /\ \A r \in reader.asked .. reader.rnd : ValueOf(chain, r) = ValueOf(chain, reader.db)
    /\ reader.pc = "row" =>
          /\ reader.val = ValueOf(chain, reader.db)
          /\ Harmless([round |-> reader.db, val |-> reader.val], base.round, dbRound, account)
    /\ reader.pc = "done" => \A r \in reader.asked .. reader.rnd : reader.val = ValueOf(chain, r)

\* While the cache has no entry: the account that is said not to be in the database is not
\* there, and the account has not changed since the lookup under way looked.
AbsentInv ==
    /\ notFound \in BOOLEAN /\ pendingNotFound \in BOOLEAN
    /\ base = NoEntry /\ (notFound \/ pendingNotFound) => account = 0
    /\ base = NoEntry /\ reader.pc \in {"db", "row"} => ValueOf(chain, reader.db) = account

LookupInv == ChainInv /\ AccountInv /\ CacheInv /\ ReaderInv /\ AbsentInv

LEMMA LookupInit == Init => LookupInv
<1> SUFFICES ASSUME Init PROVE LookupInv
  BY Zenon
<1>0. ValueOf(chain, 0) = 0
  BY ValueSteps, Zenon
<1>1. ChainInv
  BY LedgerStoreAssumption DEF Init, ChainInv, latest
<1>2. AccountInv
  BY <1>0, Zenon DEF Init, AccountInv
<1>3. CacheInv
  BY DEF Init, CacheInv, NoEntry, Entries, Fresh
<1>4. ReaderInv
  BY Zenon DEF Init, ReaderInv, IdleReader, Readers
<1>5. AbsentInv
  BY Zenon DEF Init, AbsentInv, IdleReader
<1> QED
  BY <1>1, <1>2, <1>3, <1>4, <1>5, Zenon DEF LookupInv

LEMMA ChainKept == [Next]_vars => chain' = chain
BY Zenon DEF Next, vars, WaitMem, Lookup, PutBlock, NewBlock, TakeWork, WriteBlocks, WriteFails, Committed,
       NotifyCommit, ScheduleCommit, Forget, Dequeue, Transaction, TransactionFails, PostCommit, ReadRow,
       ReturnRow, Retry, Crash, Opened, FlushCaches, cacheVars

LEMMA ChainInvStep == ASSUME StoreInv, ChainInv, [Next]_vars PROVE ChainInv'
<1>0. /\ chain' = chain /\ lastCommitted \in Nat /\ Len(q) \in Nat /\ sync.n \in Nat /\ Len(chain) \in Nat
      /\ chain \in Chains /\ latest <= Len(chain) /\ q \in Seq(Nat)
  BY ChainKept, LedgerStoreAssumption DEF StoreInv, BlockInv, After, ChainInv
<1>1. CASE PutBlock
  <2>1. latest < Len(chain) /\ latest' = latest + 1
    BY <1>0, <1>1 DEF PutBlock, latest
  <2> QED
    BY <1>0, <2>1 DEF ChainInv, latest
<1>2. CASE Crash
  <2>1. latest' = blockdb.hi
    <3>1. lastCommitted' = blockdb.hi /\ q' = <<>> /\ blockdb.hi \in Nat
      BY <1>2, Zenon DEF Crash, StoreInv, BlockInv
    <3> QED
      BY <3>1 DEF latest
  <2>2. blockdb.hi <= latest /\ blockdb.hi \in Nat /\ latest \in Nat
    BY <1>0 DEF StoreInv, BlockInv, latest
  <2>3. latest' <= Len(chain)
    BY <1>0, <2>1, <2>2
  <2> QED
    BY <1>0, <2>3, Zenon DEF ChainInv
<1>3. CASE ~PutBlock /\ ~Crash
  <2>1. latest' = latest
    BY <1>3, LatestKept, Zenon
  <2> QED
    BY <1>0, <2>1, Zenon DEF ChainInv
<1> QED
  BY <1>1, <1>2, <1>3, Zenon

\* The first k of them.
LEMMA TakeRounds ==
    ASSUME NEW s, NEW b \in Nat, NEW k \in 0 .. Len(s), After(s, b)
    PROVE  After(SubSeq(s, 1, k), b) /\ Len(SubSeq(s, 1, k)) = k
<1> DEFINE t == SubSeq(s, 1, k)
<1>1. s \in Seq(Nat) /\ Len(s) \in Nat /\ \A i \in 1 .. k : i \in 1 .. Len(s) /\ s[i] \in Nat
  BY DEF After
<1>2. t \in Seq(Nat) /\ Len(t) = k
  BY <1>1
<1>3. \A i \in 1 .. k : t[i] = s[i]
  BY <1>1
<1> HIDE DEF t
<1>4. After(t, b) /\ Len(t) = k
  BY <1>1, <1>2, <1>3, Zenon DEF After
<1> QED
  BY <1>4, Zenon DEF t

LEMMA KnownInChain ==
    ASSUME StoreInv, ChainInv
    PROVE  known \in Nat /\ Len(chain) \in Nat /\ known <= Len(chain)
<1>1. dbRound \in Nat /\ Len(deltas) \in Nat /\ lastCommitted \in Nat /\ Len(q) \in Nat
  BY DEF StoreInv, BlockInv, HeldInv, After
<1>2. Len(chain) \in Nat /\ latest <= Len(chain)
  BY LedgerStoreAssumption DEF ChainInv
<1>3. known <= latest /\ known \in Nat /\ latest \in Nat
  BY <1>1 DEF StoreInv, HeldInv, known, latest
<1> QED
  BY <1>2, <1>3

\* What a range of rounds that the chain has does to the account.
LEMMA RangeEffect ==
    ASSUME ChainInv, NEW b \in Nat, NEW s, After(s, b), b + Len(s) <= Len(chain)
    PROVE  /\ ~Touches(s) => \A r \in b .. b + Len(s) : ValueOf(chain, r) = ValueOf(chain, b)
           /\ Touches(s) => \A v \in Nat : ApplyAll(v, s) = ValueOf(chain, b + Len(s))
<1>0. /\ chain \in Seq({"keep", "set", "close"}) /\ Len(chain) \in Nat /\ Len(s) \in Nat
      /\ \A i \in 1 .. Len(s) : s[i] = b + i
  BY LedgerStoreAssumption DEF ChainInv, After
<1>1. ASSUME ~Touches(s) PROVE \A r \in b .. b + Len(s) : ValueOf(chain, r) = ValueOf(chain, b)
  <2>1. \A r \in b + 1 .. b + Len(s) : chain[r] \notin {"set", "close"}
    <3> SUFFICES ASSUME NEW r \in b + 1 .. b + Len(s) PROVE chain[r] = "keep"
      BY Zenon
    <3>1. r - b \in 1 .. Len(s) /\ s[r - b] = r
      BY <1>0
    <3> QED
      BY <1>1, <3>1, Zenon DEF Touches
  <2>2. b + Len(s) \in Nat
    BY <1>0
  <2> QED
    BY <2>1, <2>2, Quiet, Zenon
<1>2. ASSUME Touches(s), NEW v \in Nat PROVE ApplyAll(v, s) = ValueOf(chain, b + Len(s))
  <2>1. \E i \in 1 .. Len(s) : chain[s[i]] \in {"set", "close"}
    <3>1. PICK i \in 1 .. Len(s) : chain[s[i]] # "keep"
      BY <1>2, Zenon DEF Touches
    <3>2. s[i] \in 1 .. Len(chain)
      BY <1>0
    <3> QED
      BY <1>0, <3>1, <3>2
  <2>2. Effects(chain, v, s) = ValueOf(chain, b + Len(s))
    BY <2>1, TouchedBatch, Zenon
  <2> QED
    BY <2>2, SameOperators, Zenon
<1> QED
  BY <1>1, <1>2, Zenon

LEMMA AccountInvStep == ASSUME StoreInv, ChainInv, AccountInv, [Next]_vars PROVE AccountInv'
<1>0. chain' = chain
  BY ChainKept, Zenon
<1>1. CASE Transaction
  <2>1. /\ commit.pc = "txn" /\ dbRound \in Nat /\ After(deltas, dbRound) /\ Len(deltas) \in Nat
        /\ commit.oldBase = dbRound /\ commit.offset \in Nat /\ acctdb.round = dbRound
        /\ Committable(dbRound, dbRound + commit.offset, lastCommitted, known)
    BY <1>1 DEF Transaction, StoreInv, HeldInv, CommitInv, After
  <2>2. commit.offset \in 0 .. Len(deltas)
    BY <2>1 DEF Committable, known
  <2>3. After(Batch, dbRound) /\ Len(Batch) = commit.offset
    BY <2>1, <2>2, TakeRounds, Zenon DEF Batch
  <2>4. acctdb.val = ValueOf(chain, dbRound)
    BY <2>1, Zenon DEF AccountInv
  <2>5. Effects(chain, ValueOf(chain, dbRound), Batch) = ValueOf(chain, dbRound + Len(Batch))
    BY <2>1, <2>3, BatchApplies, Zenon
  <2>6. ApplyAll(acctdb.val, Batch) = ValueOf(chain, dbRound + commit.offset)
    BY <2>3, <2>4, <2>5, SameOperators, Zenon
  <2>7. acctdb' = [round |-> dbRound + commit.offset, val |-> ApplyAll(acctdb.val, Batch)]
    BY <1>1, <2>1, Zenon DEF Transaction
  <2>8. dbRound + commit.offset \in Nat
    BY <2>1
  <2>9. ValueOf(chain, dbRound + commit.offset) \in Nat
    BY <2>8, ValueSteps, Zenon
  <2> QED
    BY <1>0, <2>6, <2>7, <2>8, <2>9, Zenon DEF AccountInv
<1>2. CASE ~Transaction
  <2>1. acctdb' = acctdb
    BY <1>2, Zenon DEF Next, vars, commitVars, WaitMem, Lookup, PutBlock, NewBlock, TakeWork, WriteBlocks,
                WriteFails, Committed, NotifyCommit, ScheduleCommit, Forget, Dequeue, TransactionFails,
                PostCommit, ReadRow, ReturnRow, Retry, Crash, Opened, FlushCaches, cacheVars
  <2> QED
    BY <1>0, <2>1, Zenon DEF AccountInv
<1> QED
  BY <1>1, <1>2, Zenon

Answered(r, a, n, v) == r \in Readers /\ r.pc = "done" /\ r.asked = a /\ r.rnd = n /\ r.val = v

LEMMA AnswerIs ==
    ASSUME NEW a \in Nat, NEW n \in Nat, NEW l \in Nat, NEW v \in Nat
    PROVE  Answered(Answer(a, n, l, v), a, n, v)
BY Zenon DEF Answer, IdleReader, Readers, Answered

\* What a pass of a lookup leaves behind.
PassResult ==
    /\ reader' \in Readers /\ reader'.pc \in {"error", "done", "db"}
    /\ reader'.pc = "done" => \A r \in reader'.asked .. reader'.rnd : reader'.val = ValueOf(chain, r)
    /\ reader'.pc = "db" =>
          /\ reader'.asked <= reader'.rnd /\ reader'.db = dbRound
          /\ \A r \in reader'.asked .. reader'.rnd : ValueOf(chain, r) = account
    /\ pending' = pending \/ (base # NoEntry /\ pending' = Append(pending, base))

\* One pass of a lookup for the rounds a .. n, through which the account does not change.
LEMMA PassReads ==
    ASSUME StoreInv, LookupInv, NEW a \in Nat, NEW n \in Nat, a <= n, Pass(a, n),
           \A r \in a .. n : ValueOf(chain, r) = ValueOf(chain, n)
    PROVE  PassResult
<1> USE DEF PassResult
<1> DEFINE t == SubSeq(deltas, 1, n - dbRound)
           m == validThrough(n)
<1>0. /\ dbRound \in Nat /\ After(deltas, dbRound) /\ Len(deltas) \in Nat /\ known <= Len(chain)
      /\ ChainInv /\ CacheInv /\ Len(chain) \in Nat
  <2>1. dbRound \in Nat /\ After(deltas, dbRound) /\ Len(deltas) \in Nat /\ ChainInv /\ CacheInv
    BY DEF StoreInv, HeldInv, After, LookupInv
  <2> QED
    BY <2>1, KnownInChain, Zenon
<1>1. account \in Nat
  BY <1>0, ValueSteps, Zenon DEF account
<1>4. ASSUME Known(n)
      PROVE  /\ Touches(t) => ApplyAll(0, t) = ValueOf(chain, n)
             /\ ~Touches(t) => ValueOf(chain, n) = account /\ m \in Nat /\ n <= m
                                /\ \A r \in a .. m : ValueOf(chain, r) = account
  <2>0. n \in dbRound .. dbRound + Len(deltas) /\ n - dbRound \in 0 .. Len(deltas) /\ dbRound + (n - dbRound) = n
    BY <1>0, <1>4 DEF Known
  <2>1. After(t, dbRound) /\ Len(t) = n - dbRound
    BY <1>0, <2>0, TakeRounds, Zenon
  <2> HIDE DEF t
  <2>2. dbRound + Len(t) = n /\ n <= Len(chain)
    BY <1>0, <2>0, <2>1 DEF known
  <2>3. Touches(t) => ApplyAll(0, t) = ValueOf(chain, n)
    BY <1>0, <2>1, <2>2, RangeEffect
  <2>4. ASSUME ~Touches(t)
        PROVE  ValueOf(chain, n) = account /\ \A r \in a .. n : ValueOf(chain, r) = account
    <3>1. \A r \in dbRound .. n : ValueOf(chain, r) = ValueOf(chain, dbRound)
      BY <1>0, <2>1, <2>2, <2>4, RangeEffect, Zenon
    <3>2. ValueOf(chain, n) = account
      BY <2>0, <3>1 DEF account
    <3> QED
      BY <3>2, Zenon
  <2>5. ASSUME ~Touches(t) PROVE m \in Nat /\ n <= m /\ \A r \in a .. m : ValueOf(chain, r) = account
    <3>1. CASE Touches(deltas)
      BY <2>4, <2>5, <3>1 DEF validThrough
    <3>2. CASE ~Touches(deltas)
      <4>1. m = dbRound + Len(deltas) /\ m <= Len(chain)
        BY <1>0, <3>2, Zenon DEF validThrough, known
      <4>2. \A r \in dbRound .. m : ValueOf(chain, r) = account
        BY <1>0, <3>2, <4>1, RangeEffect DEF account
      <4>3. \A r \in a .. m : r \in a .. n \/ r \in dbRound .. m
        BY <1>0, <2>0, <4>1
      <4> HIDE DEF m
      <4> QED
        BY <1>0, <2>0, <2>4, <2>5, <4>1, <4>2, <4>3
    <3> QED
      BY <3>1, <3>2, Zenon
  <2> QED
    BY <2>3, <2>4, <2>5, Zenon
<1>5. CASE ~Known(n)
  <2>1. reader' = [Answer(a, n, n, 0) EXCEPT !.pc = "error"] /\ pending' = pending
    BY <1>5, Zenon DEF Pass
  <2>3. reader' \in Readers /\ reader'.pc = "error"
    BY <2>1, Zenon DEF Answer, IdleReader, Readers
  <2>4. pending' = pending
    BY <2>1, Zenon
  <2>5. reader'.pc # "done" /\ reader'.pc # "db"
    BY <2>3, Zenon
  <2> QED
    BY <2>3, <2>4, <2>5, Zenon
<1> HIDE DEF m
<1>6. CASE Known(n) /\ Touches(t)
  <2>1. reader' = Answer(a, n, n, ApplyAll(0, t)) /\ pending' = pending
    BY <1>6, Zenon DEF Pass
  <2>2. ApplyAll(0, t) = ValueOf(chain, n) /\ ValueOf(chain, n) \in Nat
    BY <1>4, <1>6, ValueSteps, Zenon
  <2>3. /\ reader' \in Readers /\ reader'.pc = "done" /\ reader'.asked = a /\ reader'.rnd = n
        /\ reader'.val = ValueOf(chain, n)
    <3>1. Answered(reader', a, n, ValueOf(chain, n))
      BY <2>1, <2>2, AnswerIs, Zenon
    <3> QED
      BY <3>1, Zenon DEF Answered
  <2>4. pending' = pending
    BY <2>1, Zenon
  <2>5. reader'.pc # "db" /\ \A r \in reader'.asked .. reader'.rnd : reader'.val = ValueOf(chain, r)
    BY <2>3, Zenon
  <2> QED
    BY <2>3, <2>4, <2>5, Zenon
<1>7. CASE Known(n) /\ ~Touches(t) /\ base # NoEntry
  <2>1. reader' = Answer(a, m, n, base.val) /\ pending' = Append(pending, base)
    BY <1>7, Zenon DEF Pass, m
  <2>2. base.val = account /\ m \in Nat /\ \A r \in a .. m : ValueOf(chain, r) = account
    <3>1. base.val = account
      BY <1>0, <1>7, Zenon DEF CacheInv, Fresh
    <3> HIDE DEF t
    <3> QED
      BY <1>4, <1>7, <3>1, Zenon
  <2>3. /\ reader' \in Readers /\ reader'.pc = "done" /\ reader'.asked = a /\ reader'.rnd = m
        /\ reader'.val = account
    <3>1. Answered(reader', a, m, account)
      BY <1>1, <2>1, <2>2, AnswerIs, Zenon
    <3> QED
      BY <3>1, Zenon DEF Answered
  <2> QED
    BY <1>7, <2>1, <2>2, <2>3, Zenon
<1>9. CASE Known(n) /\ ~Touches(t) /\ ~(base # NoEntry) /\ notFound
  <2>1. reader' = Answer(a, m, n, 0) /\ pending' = pending
    BY <1>9, Zenon DEF Pass, m
  <2>2. account = 0 /\ 0 \in Nat
    BY <1>9, Zenon DEF LookupInv, AbsentInv
  <2> HIDE DEF t
  <2>3. m \in Nat /\ \A r \in a .. m : ValueOf(chain, r) = account
    BY <1>4, <1>9, Zenon
  <2>4. Answered(reader', a, m, 0)
    BY <2>1, <2>2, <2>3, AnswerIs, Zenon
  <2> QED
    BY <2>1, <2>2, <2>3, <2>4, Zenon DEF Answered
<1>8. CASE Known(n) /\ ~Touches(t) /\ ~(base # NoEntry) /\ ~notFound
  <2>1. /\ reader' = [pc |-> "db", asked |-> a, rnd |-> m, level |-> n, val |-> 0, db |-> dbRound, len |-> Len(deltas)]
        /\ pending' = pending
    BY <1>8, Zenon DEF Pass, m
  <2> HIDE DEF t
  <2>2. m \in Nat /\ n <= m /\ \A r \in a .. m : ValueOf(chain, r) = account
    BY <1>4, <1>8, Zenon
  <2>3. /\ reader' \in Readers /\ reader'.pc = "db" /\ reader'.asked = a /\ reader'.rnd = m
        /\ reader'.db = dbRound
    BY <1>0, <2>1, <2>2, Zenon DEF Readers
  <2>4. a <= m
    BY <2>2
  <2>5. pending' = pending
    BY <2>1, Zenon
  <2>6. /\ reader'.pc # "done" /\ reader'.asked <= reader'.rnd
        /\ \A r \in reader'.asked .. reader'.rnd : ValueOf(chain, r) = account
    BY <2>2, <2>3, <2>4, Zenon
  <2> QED
    BY <2>3, <2>5, <2>6, Zenon
<1> QED
  BY <1>5, <1>6, <1>7, <1>8, <1>9, Zenon

LEMMA LookupPass ==
    ASSUME StoreInv, LookupInv, Retry \/ \E r \in 1 .. Len(chain) : Lookup(r)
    PROVE  PassResult
<1>1. CASE Retry
  <2>1. reader.pc = "wait" /\ Pass(reader.asked, reader.rnd)
    BY <1>1, Zenon DEF Retry
  <2>2. /\ reader.asked \in Nat /\ reader.rnd \in Nat /\ reader.asked <= reader.rnd
        /\ \A r \in reader.asked .. reader.rnd : ValueOf(chain, r) = ValueOf(chain, reader.db)
    BY <2>1, Zenon DEF LookupInv, ReaderInv, Readers
  <2>3. reader.rnd \in reader.asked .. reader.rnd
    BY <2>2
  <2>4. \A r \in reader.asked .. reader.rnd : ValueOf(chain, r) = ValueOf(chain, reader.rnd)
    BY <2>2, <2>3, Zenon
  <2> QED
    BY <2>1, <2>2, <2>4, PassReads, Zenon
<1>2. CASE \E r \in 1 .. Len(chain) : Lookup(r)
  <2>1. PICK n \in 1 .. Len(chain) : Pass(n, n)
    BY <1>2, Zenon DEF Lookup
  <2>2. n \in Nat /\ n <= n /\ \A r \in n .. n : r = n
    OBVIOUS
  <2>3. \A r \in n .. n : ValueOf(chain, r) = ValueOf(chain, n)
    BY <2>2, Zenon
  <2> QED
    BY <2>1, <2>2, <2>3, PassReads, Zenon
<1> QED
  BY <1>1, <1>2, Zenon

LEMMA EntryFresh ==
    ASSUME NEW e \in Entries, NEW d \in Nat, NEW v, e # NoEntry, Fresh(e, d, v), NEW b
    PROVE  e \in [round : Nat, val : Nat] /\ Harmless(e, b, d, v)
BY DEF Entries, Fresh, Harmless

LEMMA OneMore ==
    ASSUME NEW p \in Seq([round : Nat, val : Nat]), NEW e \in [round : Nat, val : Nat], NEW b, NEW d, NEW v,
           \A i \in 1 .. Len(p) : Harmless(p[i], b, d, v), Harmless(e, b, d, v)
    PROVE  /\ Append(p, e) \in Seq([round : Nat, val : Nat])
           /\ \A i \in 1 .. Len(Append(p, e)) : Harmless(Append(p, e)[i], b, d, v)
<1> DEFINE t == Append(p, e)
           V == [round : Nat, val : Nat]
<1> HIDE DEF V
<1>0. p \in Seq(V) /\ e \in V
  BY Zenon DEF V
<1>1. /\ t \in Seq(V) /\ Len(p) \in Nat /\ Len(t) = Len(p) + 1
      /\ \A i \in 1 .. Len(p) : t[i] = p[i]
      /\ t[Len(p) + 1] = e
  BY <1>0
<1> HIDE DEF t
<1>2. \A i \in 1 .. Len(t) : i \in 1 .. Len(p) \/ i = Len(p) + 1
  BY <1>1
<1>3. \A i \in 1 .. Len(t) : Harmless(t[i], b, d, v)
  BY <1>1, <1>2, Zenon
<1> QED
  BY <1>1, <1>3, Zenon DEF t, V

\* A commit: the cache gets the new account if the batch touched it, and what was harmless
\* stays so.
LEMMA CommitCaches ==
    ASSUME StoreInv, LookupInv, [Next]_vars, PostCommit
    PROVE  /\ base' \in Entries /\ Fresh(base', dbRound', account')
           /\ dbRound' \in Nat /\ dbRound <= dbRound'
           /\ base' # NoEntry \/ (base' = base /\ account' = account)
           /\ \A e : e.round \in Int /\ Harmless(e, base.round, dbRound, account)
                        => Harmless(e, base'.round, dbRound', account')
<1>0. chain' = chain /\ ChainInv /\ AccountInv /\ CacheInv
  BY ChainKept, Zenon DEF LookupInv
<1>1. /\ commit.pc = "post" /\ dbRound \in Nat /\ After(deltas, dbRound) /\ Len(deltas) \in Nat
      /\ commit.oldBase = dbRound /\ commit.offset \in Nat /\ commit.offset >= 1
      /\ acctdb.round = dbRound + commit.offset
      /\ Committable(dbRound, dbRound + commit.offset, lastCommitted, known)
  <2>1. HeldInv /\ CommitInv /\ commit.pc = "post"
    BY Zenon DEF StoreInv, PostCommit
  <2>2. dbRound \in Nat /\ After(deltas, dbRound) /\ Len(deltas) \in Nat
    BY <2>1 DEF HeldInv, After
  <2>3. commit.oldBase = dbRound /\ commit.offset \in Nat /\ commit.offset >= 1
    BY <2>1, Zenon DEF CommitInv
  <2>4. acctdb.round = dbRound + commit.offset
    BY <2>1, Zenon DEF CommitInv
  <2>5. Committable(dbRound, dbRound + commit.offset, lastCommitted, known)
    BY <2>1, Zenon DEF CommitInv
  <2> QED
    BY <2>1, <2>2, <2>3, <2>4, <2>5, Zenon
<1>2. commit.offset \in 0 .. Len(deltas)
  BY <1>1 DEF Committable, known
<1>3. After(Batch, dbRound) /\ Len(Batch) = commit.offset
  BY <1>1, <1>2, TakeRounds, Zenon DEF Batch
<1>4. dbRound + Len(Batch) <= Len(chain)
  BY <1>0, <1>1, <1>3, KnownInChain DEF Committable
<1>5. /\ dbRound' = dbRound + commit.offset /\ dbRound' = acctdb.round
      /\ base' = IF Touches(Batch) THEN Newer(base, acctdb) ELSE base
  BY <1>1, Zenon DEF PostCommit
<1>6. account' = ValueOf(chain, dbRound') /\ account = ValueOf(chain, dbRound) /\ dbRound' = dbRound + Len(Batch)
  BY <1>0, <1>3, <1>5, Zenon DEF account
<1>7. base \in Entries /\ Fresh(base, dbRound, account) /\ base.round \in Int /\ base.round <= dbRound
  <2>1. base \in Entries /\ Fresh(base, dbRound, account)
    BY <1>0, Zenon DEF CacheInv
  <2> QED
    BY <1>1, <2>1 DEF Entries, Fresh, NoEntry
<1>8. CASE Touches(Batch)
  <2>1. base' = acctdb
    BY <1>1, <1>5, <1>7, <1>8 DEF Newer
  <2>2. acctdb \in Entries /\ acctdb.val = account' /\ acctdb.round = dbRound' /\ dbRound' \in Nat /\ dbRound < dbRound'
    BY <1>0, <1>1, <1>5, <1>6 DEF AccountInv, Entries
  <2>3. Fresh(acctdb, dbRound', account')
    BY <2>2 DEF Fresh
  <2>4. \A e : e.round \in Int /\ e.round <= dbRound => e.round < dbRound'
    BY <1>1, <2>2
  <2>5. ASSUME NEW e, e.round \in Int, Harmless(e, base.round, dbRound, account)
        PROVE  Harmless(e, base'.round, dbRound', account')
    <3>1. e.round <= dbRound
      BY <2>5, Zenon DEF Harmless
    <3>2. e.round < dbRound' /\ base'.round = dbRound'
      BY <2>1, <2>2, <2>4, <2>5, <3>1, Zenon
    <3> QED
      BY <2>2, <2>5, <3>2 DEF Harmless
  <2>6. dbRound <= dbRound'
    BY <1>1, <2>2
  <2>7. base' # NoEntry
    <3>1. acctdb.round # -1
      BY <2>2
    <3>2. NoEntry.round = -1
      BY Zenon DEF NoEntry
    <3> QED
      BY <2>1, <3>1, <3>2, Zenon
  <2> QED
    BY <2>1, <2>2, <2>3, <2>5, <2>6, <2>7, Zenon
<1>9. CASE ~Touches(Batch)
  <2>1. base' = base
    BY <1>5, <1>9, Zenon
  <2>2. dbRound' \in dbRound .. dbRound + Len(Batch) /\ dbRound' \in Nat /\ dbRound <= dbRound'
    BY <1>1, <1>3, <1>5
  <2>3. account' = account
    BY <1>0, <1>1, <1>3, <1>4, <1>6, <1>9, <2>2, RangeEffect, Zenon
  <2>4. Fresh(base, dbRound', account)
    BY <1>1, <1>7, <2>2 DEF Fresh
  <2> QED
    BY <1>1, <1>7, <2>1, <2>2, <2>3, <2>4 DEF Harmless
<1> QED
  BY <1>8, <1>9, Zenon

LEMMA CacheInvStep == ASSUME StoreInv, LookupInv, [Next]_vars PROVE CacheInv'
<1>0. chain' = chain /\ CacheInv /\ dbRound \in Nat /\ account \in Nat
  <2>1. chain' = chain /\ CacheInv /\ dbRound \in Nat
    BY ChainKept, Zenon DEF LookupInv, StoreInv, HeldInv
  <2> QED
    BY <2>1, ValueSteps, Zenon DEF account
<1> DEFINE V == [round : Nat, val : Nat]
           AllHarmless(p) == p \in Seq(V) /\ \A i \in 1 .. Len(p) : Harmless(p[i], base.round, dbRound, account)
\* The steps that leave the cache and the database's round alone, but for a pending entry.
<1>1. ASSUME UNCHANGED <<base, dbRound>>, AllHarmless(pending') PROVE CacheInv'
  <2>1. account' = account
    BY <1>0, <1>1, Zenon DEF account
  <2> QED
    BY <1>0, <1>1, <2>1, Zenon DEF CacheInv
<1>2. AllHarmless(pending) /\ base \in Entries /\ Fresh(base, dbRound, account)
  BY <1>0, Zenon DEF CacheInv
<1>3. ASSUME NEW e \in V, Harmless(e, base.round, dbRound, account) PROVE AllHarmless(Append(pending, e))
  BY <1>2, <1>3, OneMore, Zenon
<1>4. CASE UNCHANGED <<base, dbRound, pending>>
  BY <1>1, <1>2, <1>4, Zenon
<1> HIDE DEF AllHarmless
<1>5. CASE NewBlock
  <2>1. /\ base' \in {NoEntry, Flushed(base, pending)} /\ pending' = <<>> /\ UNCHANGED dbRound
    BY <1>5, Zenon DEF NewBlock
  <2>2. Flushed(base, pending) \in Entries /\ Fresh(Flushed(base, pending), dbRound, account)
    BY <1>0, <1>2, FlushedFresh, Zenon DEF AllHarmless
  <2>3. NoEntry \in Entries /\ Fresh(NoEntry, dbRound, account)
    BY Zenon DEF NoEntry, Entries, Fresh
  <2>4. base' \in Entries /\ Fresh(base', dbRound, account)
    BY <2>1, <2>2, <2>3, Zenon
  <2>5. account' = account
    BY <1>0, <2>1, Zenon DEF account
  <2>6. pending' \in Seq(V) /\ \A i \in 1 .. Len(pending') : FALSE
    BY <2>1
  <2> QED
    BY <2>1, <2>4, <2>5, <2>6, Zenon DEF CacheInv
<1>11. CASE FlushCaches
  <2>1. base' = Flushed(base, pending) /\ pending' = <<>> /\ UNCHANGED dbRound
    BY <1>11, Zenon DEF FlushCaches, commitVars
  <2>2. base' \in Entries /\ Fresh(base', dbRound, account)
    BY <1>0, <1>2, <2>1, FlushedFresh, Zenon DEF AllHarmless
  <2>3. account' = account
    BY <1>0, <2>1, Zenon DEF account
  <2>4. pending' \in Seq(V) /\ \A i \in 1 .. Len(pending') : FALSE
    BY <2>1
  <2> QED
    BY <2>1, <2>2, <2>3, <2>4, Zenon DEF CacheInv
<1>6. CASE PostCommit
  <2>1. pending' = pending
    BY <1>6, Zenon DEF PostCommit
  <2>2. /\ base' \in Entries /\ Fresh(base', dbRound', account')
        /\ \A e : e.round \in Int /\ Harmless(e, base.round, dbRound, account)
                     => Harmless(e, base'.round, dbRound', account')
    BY <1>6, CommitCaches, Zenon
  <2>3. \A i \in 1 .. Len(pending) : pending[i].round \in Int /\ Harmless(pending[i], base.round, dbRound, account)
    <3>1. \A e \in V : e.round \in Int
      OBVIOUS
    <3> HIDE DEF V
    <3> QED
      BY <1>2, <3>1, ElementsOf, Zenon DEF AllHarmless
  <2>4. \A i \in 1 .. Len(pending) : Harmless(pending[i], base'.round, dbRound', account')
    BY <2>2, <2>3, Zenon
  <2> QED
    BY <1>2, <2>1, <2>2, <2>4, Zenon DEF CacheInv, AllHarmless
<1>7. ASSUME UNCHANGED <<base, dbRound>>, pending' = pending \/ (base # NoEntry /\ pending' = Append(pending, base))
      PROVE  CacheInv'
  <2>1. CASE base # NoEntry
    <3>1. base \in V /\ Harmless(base, base.round, dbRound, account)
      BY <1>0, <1>2, <2>1, EntryFresh, Zenon
    <3> QED
      BY <1>1, <1>2, <1>3, <1>7, <3>1, Zenon
  <2> QED
    BY <1>4, <1>7, <2>1, Zenon
<1>8. CASE ReturnRow
  <2>1. /\ reader.pc = "row" /\ UNCHANGED <<base, dbRound>>
        /\ pending' = IF reader.val # 0 THEN Append(pending, [round |-> reader.db, val |-> reader.val]) ELSE pending
    BY <1>8, Zenon DEF ReturnRow, commitVars
  <2>2. /\ [round |-> reader.db, val |-> reader.val] \in V
        /\ Harmless([round |-> reader.db, val |-> reader.val], base.round, dbRound, account)
    <3>1. reader \in Readers /\ Harmless([round |-> reader.db, val |-> reader.val], base.round, dbRound, account)
      BY <2>1, Zenon DEF LookupInv, ReaderInv
    <3> QED
      BY <3>1, Zenon DEF Readers
  <2> QED
    BY <1>1, <1>2, <1>3, <2>1, <2>2, Zenon
<1>9. CASE Crash
  <2>1. base' = NoEntry /\ pending' = <<>>
    BY <1>9, Zenon DEF Crash
  <2>2. base' \in Entries /\ Fresh(base', dbRound', account')
    BY <2>1, Zenon DEF NoEntry, Entries, Fresh
  <2>3. pending' \in Seq(V) /\ \A i \in 1 .. Len(pending') : FALSE
    BY <2>1
  <2> QED
    BY <2>2, <2>3, Zenon DEF CacheInv
<1>10. CASE Retry \/ \E r \in 1 .. Len(chain) : Lookup(r)
  <2>1. UNCHANGED <<base, dbRound>>
    BY <1>10, Zenon DEF Retry, Lookup, commitVars
  <2> QED
    BY <1>7, <1>10, <2>1, LookupPass, Zenon DEF PassResult
<1> QED
  <2> SUFFICES ASSUME ~NewBlock, ~PostCommit, ~ReturnRow, ~Crash, ~Retry, ~FlushCaches,
                      ~\E r \in 1 .. Len(chain) : Lookup(r)
               PROVE  UNCHANGED <<base, dbRound, pending>>
    BY <1>4, <1>5, <1>6, <1>8, <1>9, <1>10, <1>11, Zenon
  <2> QED
    BY Zenon DEF Next, vars, commitVars, readVars, WaitMem, PutBlock, TakeWork, WriteBlocks,
           WriteFails, Committed, NotifyCommit, ScheduleCommit, Forget, Dequeue, Transaction, TransactionFails,
           ReadRow, Opened, cacheVars

\* Flushing keeps the entry, and makes it newer if anything.
LEMMA FlushKeeps ==
    ASSUME StoreInv, LookupInv, base' = Flushed(base, pending)
    PROVE  /\ base.round \in Int /\ base'.round \in Int /\ base'.round >= base.round
           /\ base' = NoEntry => base = NoEntry
<1>1. /\ base \in Entries /\ pending \in Seq([round : Nat, val : Nat]) /\ dbRound \in Nat /\ account \in Nat
      /\ Fresh(base, dbRound, account) /\ \A i \in 1 .. Len(pending) : Harmless(pending[i], base.round, dbRound, account)
  <2>1. CacheInv /\ dbRound \in Nat /\ ChainInv
    BY Zenon DEF LookupInv, StoreInv, HeldInv
  <2> QED
    BY <2>1, ValueSteps, Zenon DEF CacheInv, account
<1>2. base' \in Entries /\ base'.round >= base.round
  BY <1>1, FlushedFresh, Zenon
<1>3. base.round \in Int /\ base'.round \in Int
  BY <1>1, <1>2 DEF Entries
<1>4. ASSUME base' = NoEntry, base # NoEntry PROVE FALSE
  <2>0. NoEntry.round = -1
    BY Zenon DEF NoEntry
  <2>1. base'.round = -1
    BY <1>4, <2>0, Zenon
  <2>2. base.round \in 0 .. dbRound /\ dbRound \in Nat
    BY <1>1, <1>4, Zenon DEF Fresh
  <2>3. base.round >= 0
    BY <2>2
  <2>4. base'.round >= base.round
    BY <1>2, Zenon
  <2> QED
    BY <1>3, <2>1, <2>3, <2>4
<1> QED
  BY <1>2, <1>3, <1>4, Zenon

\* The reader e is the reader r with the row it found, whose balance is y.
RowRead(e, r, x, y) ==
    e \in Readers /\ e.pc = x /\ e.asked = r.asked /\ e.rnd = r.rnd /\ e.val = y /\ e.db = r.db

LEMMA RowReadIs ==
    ASSUME NEW r \in Readers, NEW x \in {"row", "wait"}, NEW y \in Nat
    PROVE  RowRead([r EXCEPT !.pc = x, !.val = y], r, x, y)
<1>1. PICK p \in {"idle", "db", "row", "wait", "error", "done"}, a \in Nat, n \in Nat, l \in Nat, v \in Nat,
           d \in Nat, k \in Nat :
           r = [pc |-> p, asked |-> a, rnd |-> n, level |-> l, val |-> v, db |-> d, len |-> k]
  <2>1. r = [pc |-> r.pc, asked |-> r.asked, rnd |-> r.rnd, level |-> r.level, val |-> r.val, db |-> r.db,
             len |-> r.len]
    BY Zenon DEF Readers
  <2>2. /\ r.pc \in {"idle", "db", "row", "wait", "error", "done"} /\ r.asked \in Nat /\ r.rnd \in Nat
        /\ r.level \in Nat /\ r.val \in Nat /\ r.db \in Nat /\ r.len \in Nat
    BY Zenon DEF Readers
  <2> QED
    BY <2>1, <2>2, Zenon
<1>2. RowRead([[pc |-> p, asked |-> a, rnd |-> n, level |-> l, val |-> v, db |-> d, len |-> k]
                   EXCEPT !.pc = x, !.val = y],
              [pc |-> p, asked |-> a, rnd |-> n, level |-> l, val |-> v, db |-> d, len |-> k], x, y)
  BY Zenon DEF RowRead, Readers
<1> QED
  BY <1>1, <1>2, Zenon

LEMMA ReaderInvStep == ASSUME StoreInv, LookupInv, [Next]_vars PROVE ReaderInv'
<1>0. chain' = chain /\ ReaderInv /\ CacheInv /\ AccountInv /\ dbRound \in Nat
  BY ChainKept, Zenon DEF LookupInv, StoreInv, HeldInv
<1>1. CASE UNCHANGED <<reader, base, dbRound>>
  <2>1. account' = account
    BY <1>0, <1>1, Zenon DEF account
  <2> QED
    BY <1>0, <1>1, <2>1, Zenon DEF ReaderInv
<1>2. CASE NewBlock
  <2>1. reader.pc \notin {"db", "row", "wait"} /\ UNCHANGED reader
    BY <1>2, Zenon DEF NewBlock, StoreInv, HeldInv
  <2> QED
    BY <1>0, <2>1, Zenon DEF ReaderInv
<1>3. CASE PostCommit
  <2>1. UNCHANGED reader
    BY <1>3, Zenon DEF PostCommit
  <2>2. /\ dbRound' \in Nat /\ dbRound <= dbRound'
        /\ \A e : e.round \in Int /\ Harmless(e, base.round, dbRound, account)
                     => Harmless(e, base'.round, dbRound', account')
    BY <1>3, CommitCaches, Zenon
  <2>3. reader.db \in Nat
    BY <1>0, Zenon DEF ReaderInv, Readers
  <2>4. reader.pc \in {"db", "row", "wait"} => reader.db <= dbRound'
    <3>1. reader.pc \in {"db", "row", "wait"} => reader.db <= dbRound
      BY <1>0, Zenon DEF ReaderInv
    <3>2. dbRound' \in Nat /\ dbRound <= dbRound' /\ dbRound \in Nat
      BY <1>0, <2>2, Zenon
    <3> QED
      BY <2>3, <3>1, <3>2
  <2>5. reader.pc = "row" => Harmless([round |-> reader.db, val |-> reader.val], base'.round, dbRound', account')
    <3>1. [round |-> reader.db, val |-> reader.val].round \in Int
      BY <2>3
    <3> QED
      BY <1>0, <2>2, <3>1, Zenon DEF ReaderInv
  <2> QED
    BY <1>0, <2>1, <2>4, <2>5, Zenon DEF ReaderInv
<1>8. CASE FlushCaches
  <2>1. base' = Flushed(base, pending) /\ UNCHANGED <<reader, dbRound>>
    BY <1>8, Zenon DEF FlushCaches, commitVars
  <2>2. account' = account /\ reader.db \in Nat
    BY <1>0, <2>1, Zenon DEF account, ReaderInv, Readers
  <2>3. reader.db < base.round => reader.db < base'.round
    BY <2>1, <2>2, FlushKeeps
  <2>4. ASSUME reader.pc = "row"
        PROVE  Harmless([round |-> reader.db, val |-> reader.val], base'.round, dbRound, account)
    <3>1. Harmless([round |-> reader.db, val |-> reader.val], base.round, dbRound, account)
      BY <1>0, <2>4, Zenon DEF ReaderInv
    <3> QED
      BY <2>3, <3>1, Zenon DEF Harmless
  <2> QED
    BY <1>0, <2>1, <2>2, <2>4, Zenon DEF ReaderInv
<1>4. CASE ReadRow
  <2>1. /\ reader.pc = "db" /\ UNCHANGED <<base, dbRound>>
        /\ acctdb.round \in Nat /\ acctdb.val \in Nat /\ acctdb.val = ValueOf(chain, acctdb.round)
        /\ dbRound <= acctdb.round
    <3>1. acctdb.round = IF commit.pc = "post" THEN dbRound + commit.offset ELSE dbRound
      BY Zenon DEF StoreInv, CommitInv
    <3>2. commit.offset \in Nat
      BY Zenon DEF StoreInv, CommitInv
    <3>3. dbRound <= acctdb.round
      BY <1>0, <3>1, <3>2
    <3> QED
      BY <1>0, <1>4, <3>3, Zenon DEF ReadRow, commitVars, AccountInv, cacheVars
  <2>2. /\ reader.asked \in Nat /\ reader.rnd \in Nat /\ reader.db \in Nat /\ reader.level \in Nat /\ reader.len \in Nat
        /\ reader.asked <= reader.rnd /\ reader.db <= dbRound
        /\ \A r \in reader.asked .. reader.rnd : ValueOf(chain, r) = ValueOf(chain, reader.db)
    BY <1>0, <2>1, Zenon DEF ReaderInv, Readers
  <2> DEFINE p == IF acctdb.round = reader.db THEN "row" ELSE "wait"
  <2>3. RowRead(reader', reader, p, acctdb.val)
    <3> DEFINE C == CASE acctdb.round = reader.db -> "row"
                      [] acctdb.round < reader.db -> "stale"
                      [] OTHER -> "wait"
    <3>1. reader' = [reader EXCEPT !.pc = C, !.val = acctdb.val]
      BY <1>4, Zenon DEF ReadRow, cacheVars
    <3>2. C = p
      <4>1. ~(acctdb.round < reader.db)
        BY <1>0, <2>1, <2>2
      <4> QED
        BY <4>1, Zenon
    <3>3. p \in {"row", "wait"} /\ reader \in Readers /\ acctdb.val \in Nat
      BY <1>0, <2>1, Zenon DEF ReaderInv
    <3> HIDE DEF C, p
    <3> QED
      BY <3>1, <3>2, <3>3, RowReadIs, Zenon
  <2>4. /\ reader' \in Readers /\ reader'.pc = p /\ reader'.asked = reader.asked /\ reader'.rnd = reader.rnd
        /\ reader'.val = acctdb.val /\ reader'.db = reader.db
    <3> HIDE DEF p
    <3> QED
      BY <2>3, Zenon DEF RowRead
  <2>5. account' = account
    BY <1>0, <2>1, Zenon DEF account
  <2>6. ASSUME p = "row"
        PROVE  /\ acctdb.val = ValueOf(chain, reader.db)
               /\ Harmless([round |-> reader.db, val |-> acctdb.val], base.round, dbRound, account)
    <3>1. acctdb.round = reader.db /\ reader.db = dbRound
      BY <1>0, <2>1, <2>2, <2>6
    <3>2. acctdb.val = account
      BY <2>1, <3>1, Zenon DEF account
    <3> QED
      BY <2>1, <2>2, <3>1, <3>2, Zenon DEF Harmless
  <2>7. p # "done"
    BY Zenon
  <2> HIDE DEF p
  <2> QED
    BY <1>0, <2>1, <2>2, <2>4, <2>5, <2>6, <2>7, Zenon DEF ReaderInv
<1>5. CASE ReturnRow
  <2>1. reader.pc = "row" /\ reader' = Answer(reader.asked, reader.rnd, reader.level, reader.val)
    BY <1>5, Zenon DEF ReturnRow
  <2>2. /\ reader.asked \in Nat /\ reader.rnd \in Nat /\ reader.level \in Nat /\ reader.val \in Nat
        /\ \A r \in reader.asked .. reader.rnd : reader.val = ValueOf(chain, r)
    BY <1>0, <2>1, Zenon DEF ReaderInv, Readers
  <2>3. Answered(reader', reader.asked, reader.rnd, reader.val)
    BY <2>1, <2>2, AnswerIs, Zenon
  <2> QED
    BY <1>0, <2>2, <2>3, Zenon DEF Answered, ReaderInv
<1>6. CASE Crash
  BY <1>6, Zenon DEF Crash, IdleReader, ReaderInv, Readers
<1>7. CASE Retry \/ \E r \in 1 .. Len(chain) : Lookup(r)
  <2>1. UNCHANGED <<base, dbRound>>
    BY <1>7, Zenon DEF Retry, Lookup, commitVars
  <2>2. PassResult
    BY <1>7, LookupPass, Zenon
  <2>3. reader'.pc \notin {"row", "wait"}
    BY <2>2, Zenon DEF PassResult
  <2>4. reader'.pc = "db" =>
           /\ reader'.asked <= reader'.rnd /\ reader'.db <= dbRound'
           /\ \A r \in reader'.asked .. reader'.rnd : ValueOf(chain', r) = ValueOf(chain', reader'.db)
    BY <1>0, <2>1, <2>2 DEF PassResult, account
  <2> QED
    BY <1>0, <2>2, <2>3, <2>4, Zenon DEF ReaderInv, PassResult
<1> QED
  <2> SUFFICES ASSUME ~NewBlock, ~PostCommit, ~ReadRow, ~ReturnRow, ~Crash, ~Retry, ~FlushCaches,
                      ~\E r \in 1 .. Len(chain) : Lookup(r)
               PROVE  UNCHANGED <<reader, base, dbRound>>
    BY <1>1, <1>2, <1>3, <1>4, <1>5, <1>6, <1>7, <1>8, Zenon
  <2> QED
    BY Zenon DEF Next, vars, commitVars, readVars, WaitMem, PutBlock, TakeWork, WriteBlocks,
           WriteFails, Committed, NotifyCommit, ScheduleCommit, Forget, Dequeue, Transaction, TransactionFails,
           Opened, cacheVars

LEMMA AbsentInvStep == ASSUME StoreInv, LookupInv, [Next]_vars PROVE AbsentInv'
<1>0. chain' = chain /\ AbsentInv /\ ReaderInv
  BY ChainKept, Zenon DEF LookupInv
<1>1. ASSUME UNCHANGED dbRound PROVE account' = account
  BY <1>0, <1>1, Zenon DEF account
<1>2. CASE UNCHANGED <<base, notFound, pendingNotFound, dbRound, reader>>
  BY <1>0, <1>1, <1>2, Zenon DEF AbsentInv
<1>3. CASE NewBlock
  <2>1. reader.pc \notin {"db", "row", "wait"} /\ UNCHANGED reader /\ notFound' = FALSE /\ pendingNotFound' = FALSE
    BY <1>3, Zenon DEF NewBlock, StoreInv, HeldInv
  <2> QED
    BY <2>1, Zenon DEF AbsentInv
<1>4. CASE FlushCaches
  <2>1. /\ base' = Flushed(base, pending) /\ UNCHANGED <<reader, dbRound>>
        /\ notFound' = (notFound \/ pendingNotFound) /\ pendingNotFound' = FALSE
    BY <1>4, Zenon DEF FlushCaches, commitVars
  <2>2. base' = NoEntry => base = NoEntry
    BY <2>1, FlushKeeps, Zenon
  <2> QED
    BY <1>0, <1>1, <2>1, <2>2, Zenon DEF AbsentInv
<1>5. CASE PostCommit
  <2>1. UNCHANGED <<reader, notFound, pendingNotFound>>
    BY <1>5, Zenon DEF PostCommit
  <2>2. base' # NoEntry \/ (base' = base /\ account' = account)
    BY <1>5, CommitCaches, Zenon
  <2> QED
    BY <1>0, <2>1, <2>2, Zenon DEF AbsentInv
<1>6. CASE ReadRow
  <2>1. /\ reader.pc = "db" /\ UNCHANGED <<base, notFound, pendingNotFound, dbRound>>
        /\ \E x, y : reader' = [reader EXCEPT !.pc = x, !.val = y]
    BY <1>6, Zenon DEF ReadRow, commitVars, cacheVars
  <2>2. reader'.db = reader.db
    BY <1>0, <2>1, Zenon DEF ReaderInv, Readers
  <2> QED
    BY <1>0, <1>1, <2>1, <2>2, Zenon DEF AbsentInv
<1>7. CASE ReturnRow
  <2>1. /\ reader.pc = "row" /\ UNCHANGED <<base, notFound, dbRound>>
        /\ reader' = Answer(reader.asked, reader.rnd, reader.level, reader.val)
        /\ pendingNotFound' = (pendingNotFound \/ reader.val = 0)
    BY <1>7, Zenon DEF ReturnRow, commitVars
  <2>2. reader.val = ValueOf(chain, reader.db)
    BY <1>0, <2>1, Zenon DEF ReaderInv
  <2>3. reader'.pc = "done"
    BY <2>1, Zenon DEF Answer, IdleReader
  <2> QED
    BY <1>0, <1>1, <2>1, <2>2, <2>3, Zenon DEF AbsentInv
<1>8. CASE Crash
  BY <1>8, Zenon DEF Crash, IdleReader, AbsentInv
<1>9. CASE Retry \/ \E r \in 1 .. Len(chain) : Lookup(r)
  <2>1. UNCHANGED <<base, notFound, pendingNotFound, dbRound>>
    BY <1>9, Zenon DEF Retry, Lookup, commitVars
  <2>2. reader'.pc \in {"error", "done", "db"} /\ (reader'.pc = "db" => reader'.db = dbRound)
    BY <1>9, LookupPass, Zenon DEF PassResult
  <2> QED
    BY <1>0, <1>1, <2>1, <2>2, Zenon DEF AbsentInv, account
<1> QED
  <2> SUFFICES ASSUME ~NewBlock, ~PostCommit, ~ReadRow, ~ReturnRow, ~Crash, ~Retry, ~FlushCaches,
                      ~\E r \in 1 .. Len(chain) : Lookup(r)
               PROVE  UNCHANGED <<base, notFound, pendingNotFound, dbRound, reader>>
    BY <1>2, <1>3, <1>4, <1>5, <1>6, <1>7, <1>8, <1>9, Zenon
  <2> QED
    BY Zenon DEF Next, vars, commitVars, readVars, cacheVars, WaitMem, PutBlock, TakeWork, WriteBlocks,
           WriteFails, Committed, NotifyCommit, ScheduleCommit, Forget, Dequeue, Transaction, TransactionFails,
           Opened

\* What TypeOK says of the variables that the other invariants do not mention.
RestInv ==
    /\ trackerMu \in {"none", "add", "sync", "open", "read"}
    /\ mem \in Nat /\ waiter \in Nat
    /\ crashes \in 0 .. MaxCrashes /\ failures \in 0 .. MaxFailures /\ lookups \in 0 .. MaxLookups

LEMMA RestInit == Init => RestInv
<1> SUFFICES ASSUME Init PROVE RestInv
  BY Zenon
<1>1. trackerMu = "none" /\ mem = 0 /\ waiter = 0 /\ crashes = 0 /\ failures = 0 /\ lookups = 0
  BY Zenon DEF Init
<1>2. MaxCrashes \in Nat /\ MaxFailures \in Nat /\ MaxLookups \in Nat
  BY LedgerStoreAssumption, Zenon
<1> QED
  BY <1>1, <1>2 DEF RestInv

LEMMA RestInvStep == ASSUME StoreInv, LookupInv, RestInv, [Next]_vars PROVE RestInv'
<1>0. MaxCrashes \in Nat /\ MaxFailures \in Nat /\ MaxLookups \in Nat
  BY LedgerStoreAssumption, Zenon
<1>1. trackerMu' \in {"none", "add", "sync", "open", "read"}
  <2>1. ASSUME NEW a, NEW r, Pass(a, r) PROVE trackerMu' \in {"none", "add", "sync", "open", "read"}
    BY <2>1, PassLocks, Zenon
  <2>2. CASE Retry \/ \E r \in 1 .. Len(chain) : Lookup(r)
    BY <2>1, <2>2, Zenon DEF Retry, Lookup
  <2>3. CASE PutBlock \/ NewBlock \/ NotifyCommit \/ ScheduleCommit \/ ReturnRow \/ Crash \/ Opened
    BY <2>3, Zenon DEF PutBlock, NewBlock, NotifyCommit, ScheduleCommit, ReturnRow, Crash, Opened, cacheVars
  <2>4. CASE UNCHANGED trackerMu
    BY <2>4, Zenon DEF RestInv
  <2> QED
    BY <2>2, <2>3, <2>4 DEF Next, vars, WaitMem, TakeWork, WriteBlocks, WriteFails, Committed, Forget, Dequeue,
                            Transaction, TransactionFails, PostCommit, ReadRow, FlushCaches, cacheVars
<1>2. mem' \in Nat /\ waiter' \in Nat
  <2>0. lastCommitted \in Nat /\ latest \in Nat /\ blockdb.hi \in Nat /\ mem \in Nat /\ waiter \in Nat
    BY DEF StoreInv, BlockInv, After, latest, RestInv
  <2>1. ASSUME NEW n \in Nat, NotifyMem(n) PROVE mem' \in Nat /\ waiter' \in Nat
    BY <2>0, <2>1, Zenon DEF NotifyMem
  <2>2. CASE NewBlock \/ NotifyCommit
    BY <2>0, <2>1, <2>2, Zenon DEF NewBlock, NotifyCommit
  <2>3. CASE Crash
    BY <2>0, <2>3, Zenon DEF Crash
  <2>4. CASE \E r \in 1 .. Len(chain) : WaitMem(r)
    BY <2>0, <2>4 DEF WaitMem
  <2>5. CASE UNCHANGED <<mem, waiter>>
    BY <2>0, <2>5, Zenon
  <2> QED
    BY <2>2, <2>3, <2>4, <2>5, Zenon DEF Next, vars, bulletinVars, PutBlock, TakeWork, WriteBlocks, WriteFails, Committed,
                                  ScheduleCommit, Forget, Dequeue, Transaction, TransactionFails, PostCommit,
                                  ReadRow, ReturnRow, Retry, Lookup, Opened, FlushCaches, cacheVars
<1>3. crashes' \in 0 .. MaxCrashes
  <2>1. CASE Crash
    <3>1. crashes < MaxCrashes /\ crashes' = crashes + 1 /\ crashes \in 0 .. MaxCrashes
      BY <2>1, Zenon DEF Crash, RestInv
    <3> QED
      BY <1>0, <3>1
  <2>2. CASE UNCHANGED crashes
    BY <2>2, Zenon DEF RestInv
  <2> QED
    BY <2>1, <2>2, Zenon DEF Next, vars, boundVars, WaitMem, Lookup, PutBlock, NewBlock, TakeWork, WriteBlocks, WriteFails,
                      Committed, NotifyCommit, ScheduleCommit, Forget, Dequeue, Transaction, TransactionFails,
                      PostCommit, ReadRow, ReturnRow, Retry, Opened, FlushCaches, cacheVars
<1>4. failures' \in 0 .. MaxFailures
  <2>1. CASE WriteFails \/ TransactionFails
    BY <1>0, <2>1 DEF WriteFails, TransactionFails, RestInv
  <2>2. CASE UNCHANGED failures
    BY <2>2, Zenon DEF RestInv
  <2> QED
    BY <2>1, <2>2, Zenon DEF Next, vars, boundVars, WaitMem, Lookup, PutBlock, NewBlock, TakeWork, WriteBlocks,
                      Committed, NotifyCommit, ScheduleCommit, Forget, Dequeue, Transaction,
                      PostCommit, ReadRow, ReturnRow, Retry, Crash, Opened, FlushCaches, cacheVars
<1>5. lookups' \in 0 .. MaxLookups
  <2>1. CASE \E r \in 1 .. Len(chain) : Lookup(r)
    BY <1>0, <2>1 DEF Lookup, RestInv
  <2>2. CASE UNCHANGED lookups
    BY <2>2, Zenon DEF RestInv
  <2> QED
    BY <2>1, <2>2, Zenon DEF Next, vars, boundVars, WaitMem, PutBlock, NewBlock, TakeWork, WriteBlocks, WriteFails,
                      Committed, NotifyCommit, ScheduleCommit, Forget, Dequeue, Transaction, TransactionFails,
                      PostCommit, ReadRow, ReturnRow, Retry, Crash, Opened, FlushCaches, cacheVars
<1> QED
  BY <1>1, <1>2, <1>3, <1>4, <1>5, Zenon DEF RestInv

\* For every chain of blocks: the invariant of the account in the database, in the cache
\* and in a lookup holds in every state (accountUpdates).
THEOREM LookupInvariant == Spec => [](LookupInv /\ RestInv)
<1>1. StoreInv /\ LookupInv /\ RestInv /\ [Next]_vars => (LookupInv /\ RestInv)'
  <2> SUFFICES ASSUME StoreInv, LookupInv, RestInv, [Next]_vars PROVE LookupInv' /\ RestInv'
    BY Zenon
  <2>1. ChainInv' /\ AccountInv'
    BY ChainInvStep, AccountInvStep, Zenon DEF LookupInv
  <2> QED
    BY <2>1, CacheInvStep, ReaderInvStep, AbsentInvStep, RestInvStep, Zenon DEF LookupInv
<1> QED
  BY <1>1, LookupInit, RestInit, StoreInvariant, PTL DEF Spec

\* For every chain, lookback and schedule: when the node stops, the trackers can be brought
\* up again, from the blocks that are stored and the account as of the database's round.
THEOREM AlwaysRecoverable == Spec => []Recoverable
<1>1. ASSUME StoreInv, LookupInv, RestInv PROVE Recoverable
  <2>1. acctdb.round \in blockdb.lo .. blockdb.hi
    BY <1>1, ReplayBlocks, Zenon DEF BlocksForReplay
  <2>2. acctdb.val = ValueAt(acctdb.round)
    BY <1>1, SameOperators, Zenon DEF LookupInv, AccountInv
  <2>3. deferred \in Seq([oldBase : Nat, offset : Nat]) /\ Len(deferred) <= 1
    <3>1. CASE deferred = <<>>
      BY <3>1
    <3>2. CASE deferred # <<>>
      <4>1. PICK d \in Nat, o \in Nat : deferred = <<[oldBase |-> d, offset |-> o]>>
        BY <1>1, <3>2, Zenon DEF StoreInv, CommitInv, Scheduled
      <4> QED
        BY <4>1
    <3> QED
      BY <3>1, <3>2, Zenon
  <2>4. /\ blockdb \in [lo : Nat, hi : Nat] /\ lastCommitted \in Nat /\ q \in Seq(Nat) /\ disk \in Nat
        /\ sync \in [pc : {"idle", "write", "written", "notify", "schedule", "forget"}, n : Nat, save : Nat]
        /\ dbRound \in Nat /\ deltas \in Seq(Nat)
        /\ commit \in [pc : {"idle", "txn", "post"}, oldBase : Nat, offset : Nat]
    BY <1>1, Zenon DEF StoreInv, BlockInv, HeldInv, CommitInv, After, Labels
  <2>5. /\ chain \in Chains /\ acctdb \in [round : Nat, val : Nat] /\ base \in [round : Nat \cup {-1}, val : Nat]
        /\ pending \in Seq([round : Nat, val : Nat]) /\ reader \in Readers
        /\ notFound \in BOOLEAN /\ pendingNotFound \in BOOLEAN
    BY <1>1, Zenon DEF LookupInv, ChainInv, AccountInv, CacheInv, ReaderInv, AbsentInv, Entries
  <2>6. reader.pc \in {"idle", "db", "row", "wait", "stale", "error", "done"}
    BY <2>5, Zenon DEF Readers
  <2>7. TypeOK
    BY <1>1, <2>3, <2>4, <2>5, <2>6, Zenon DEF TypeOK, RestInv
  <2> QED
    BY <2>1, <2>2, <2>7, Zenon DEF Recoverable
<1> QED
  BY <1>1, StoreInvariant, LookupInvariant, PTL

\* For every chain and every interleaving of blocks, commits, evictions and crashes: a
\* lookup returns the account of all the rounds it answers for, and never meets a database
\* behind the memory (lookupWithoutRewards).
THEOREM LookupsCorrect == Spec => []LookupCorrect
<1>1. ASSUME LookupInv PROVE LookupCorrect
  <2>1. reader \in Readers /\ (reader.pc = "done" => \A r \in reader.asked .. reader.rnd : reader.val = ValueOf(chain, r))
    BY <1>1, Zenon DEF LookupInv, ReaderInv
  <2>2. reader.pc # "stale"
    BY <2>1, Zenon DEF Readers
  <2> QED
    BY <2>1, <2>2, SameOperators, Zenon DEF LookupCorrect
<1> QED
  BY <1>1, LookupInvariant, PTL
=============================================================================
