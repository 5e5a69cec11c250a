---------------------------- MODULE LedgerStore ----------------------------
(***************************************************************************)
(* How a ledger stores its rounds: the queue of blocks and the goroutine   *)
(* that writes it to the block database (ledger/blockqueue.go), the        *)
(* trackers with their deferred commits to a database of their own         *)
(* (ledger/tracker.go), the accounts tracker with its deltas, its cache    *)
(* and its lookups (ledger/acctupdates.go), the bulletins that announce    *)
(* rounds (ledger/bulletin.go), and what a ledger makes of the two         *)
(* databases when it is opened again (ledger/ledger.go).                   *)
(*                                                                         *)
(* A block is its round; one account stands for all of them, its value is  *)
(* the round that changed it last, 0 while it does not exist.              *)
(***************************************************************************)
EXTENDS Integers, Sequences

CONSTANTS
    acctLookback,   \* MaxAcctLookback
    HeaderHistory,  \* MaxTxnLife + DeeperBlockHeaderHistory
    UpgradeRound,   \* the first round of a new consensus version
    Chains,         \* bound: what the blocks of the run may do to the account
    MaxCrashes,     \* bound: how often the node stops
    MaxFailures,    \* bound: database transactions that fail
    MaxLookups      \* bound: lookups of the account

ASSUME LedgerStoreAssumption ==
    /\ acctLookback \in Nat /\ HeaderHistory \in Nat \ {0} /\ UpgradeRound \in Nat
    /\ Chains \subseteq Seq({"keep", "set", "close"})
    /\ MaxCrashes \in Nat /\ MaxFailures \in Nat /\ MaxLookups \in Nat

VARIABLES
    chain,      \* what each block, the one agreed on, does to the account
    blockdb,    \* the block database holds the rounds lo .. hi
    acctdb,     \* the tracker database: the account as of a round
    lastCommitted, q,
    trackerMu,  \* who has locked the trackers: "none", "add", "sync", "open", "read"
    sync,       \* blockQueue.syncer: where it is, how many blocks it took, what it keeps
    dbRound,    \* the round of the tracker database as the trackers know it
    deltas,     \* the rounds that are not in the tracker database
    deferred,   \* the channel deferredCommits, of capacity 1
    commit,     \* trackerRegistry.commitSyncer: where it is and the range it commits
    mem, disk,  \* latestRound of bulletinMem and of bulletinDisk
    waiter,     \* a round someone waits for in bulletinMem, 0 if nobody does
    base,       \* baseAccounts: the account with the round it was read or written at
    pending,    \* entries that lookups left for the cache
    notFound,   \* the cache knows that the database has no such account
    pendingNotFound,
    reader,     \* a lookup: where it is, what it asked for and what it read
    crashes, failures, lookups

blockVars == <<blockdb, lastCommitted, q, sync>>
commitVars == <<dbRound, deltas, deferred, commit, acctdb>>
bulletinVars == <<mem, disk, waiter>>
cacheVars == <<base, pending, notFound, pendingNotFound>>
readVars == <<cacheVars, reader>>
boundVars == <<crashes, failures, lookups>>
vars == <<chain, blockVars, commitVars, bulletinVars, readVars, boundVars, trackerMu>>

MinOf(a, b) == IF a < b THEN a ELSE b
SubSaturate(a, b) == IF a < b THEN 0 ELSE a - b
Rounds(lo, hi) == [i \in 1 .. hi - lo + 1 |-> lo + i - 1]

\* The value of the account is the round that set it last, 0 while it does not exist.
Apply(val, r) ==
    CASE chain[r] = "set" -> r
      [] chain[r] = "close" -> 0
      [] OTHER -> val
ApplyAll(val, rounds) ==
    LET after[n \in 0 .. Len(rounds)] == IF n = 0 THEN val ELSE Apply(after[n - 1], rounds[n])
    IN  after[Len(rounds)]
Touches(rounds) == \E i \in 1 .. Len(rounds) : chain[rounds[i]] # "keep"

NoEntry == [round |-> -1, val |-> 0]
IdleSync == [pc |-> "idle", n |-> 0, save |-> 0]
IdleCommit == [pc |-> "idle", oldBase |-> 0, offset |-> 0]
IdleReader == [pc |-> "idle", asked |-> 0, rnd |-> 0, level |-> 0, val |-> 0, db |-> 0, len |-> 0]

latest == lastCommitted + Len(q)

Init ==
    /\ chain \in Chains
    /\ blockdb = [lo |-> 0, hi |-> 0]
    /\ acctdb = [round |-> 0, val |-> 0]
    /\ lastCommitted = 0 /\ q = <<>>
    /\ trackerMu = "none"
    /\ sync = IdleSync
    /\ dbRound = 0 /\ deltas = <<>> /\ deferred = <<>> /\ commit = IdleCommit
    /\ mem = 0 /\ disk = 0 /\ waiter = 0
    /\ base = NoEntry /\ pending = <<>> /\ reader = IdleReader
    /\ notFound = FALSE /\ pendingNotFound = FALSE
    /\ crashes = 0 /\ failures = 0 /\ lookups = 0

----------------------------------------------------------------------------
(* The bulletins.                                                          *)

\* Mutant of NotifyMem: only the waiters for this very round are released.
NotifyMemExact(r) == mem' = r /\ waiter' = IF waiter = r THEN 0 ELSE waiter

\* notifyRound sets latestRound, even to a round before the one it has.
NotifyMem(r) == mem' = r /\ waiter' = IF waiter <= r THEN 0 ELSE waiter

\* WaitMem, of a round that bulletinMem does not have yet.
WaitMem(r) ==
    /\ trackerMu \in {"none", "read"}
    /\ waiter = 0 /\ r > mem
    /\ waiter' = r
    /\ UNCHANGED <<chain, blockVars, commitVars, mem, disk, readVars, boundVars, trackerMu>>

----------------------------------------------------------------------------
(* AddValidatedBlock.                                                      *)

\* The trackers are locked first; putBlock then accepts only the next round.
PutBlock ==
    /\ trackerMu = "none" /\ latest < Len(chain)
    /\ trackerMu' = "add"
    /\ q' = Append(q, latest + 1)
    /\ UNCHANGED <<chain, blockdb, lastCommitted, sync, commitVars, bulletinVars, readVars, boundVars>>

\* lruAccounts.write keeps the newer of two entries.
Newer(old, new) == IF old.round < new.round THEN new ELSE old

\* flushPendingWrites, in the order the entries came.
Flushed(old, entries) ==
    LET after[n \in 0 .. Len(entries)] == IF n = 0 THEN old ELSE Newer(after[n - 1], entries[n])
    IN  after[Len(entries)]

\* Mutant of NewBlock: the list of accounts that were not found is not cleared.
NewBlockKeeps ==
    /\ trackerMu = "add"
    /\ trackerMu' = "none"
    /\ deltas' = Append(deltas, latest)
    /\ base' \in {NoEntry, Flushed(base, pending)}
    /\ pending' = <<>> /\ notFound' = (notFound \/ pendingNotFound) /\ pendingNotFound' = FALSE
    /\ NotifyMem(latest)
    /\ UNCHANGED <<chain, blockVars, dbRound, deferred, commit, acctdb, disk, reader, boundVars>>

\* The trackers take the block of the queue's end: accountUpdates flushes the pending
\* writes to its cache and prunes it, which may cost the account its entry and forgets the
\* accounts that were not found; bulletinMem announces the round.
NewBlock ==
    /\ trackerMu = "add"
    /\ trackerMu' = "none"
    /\ deltas' = Append(deltas, latest)
    /\ base' \in {NoEntry, Flushed(base, pending)}
    /\ pending' = <<>> /\ notFound' = FALSE /\ pendingNotFound' = FALSE
    /\ NotifyMem(latest)
    /\ UNCHANGED <<chain, blockVars, dbRound, deferred, commit, acctdb, disk, reader, boundVars>>

----------------------------------------------------------------------------
(* blockQueue.syncer.                                                      *)

TakeWork ==
    /\ sync.pc = "idle" /\ q # <<>>
    /\ sync' = [sync EXCEPT !.pc = "write", !.n = Len(q)]
    /\ UNCHANGED <<chain, blockdb, lastCommitted, q, commitVars, bulletinVars, readVars, boundVars,
                   trackerMu>>

\* One transaction stores the blocks; BlockPut insists on the next round.
WriteBlocks ==
    /\ sync.pc = "write"
    /\ q[1] = blockdb.hi + 1
    /\ blockdb' = [blockdb EXCEPT !.hi = q[sync.n]]
    /\ sync' = [sync EXCEPT !.pc = "written"]
    /\ UNCHANGED <<chain, lastCommitted, q, commitVars, bulletinVars, readVars, boundVars, trackerMu>>

\* "could not flush": the queue is left as it is.
WriteFails ==
    /\ sync.pc = "write" /\ failures < MaxFailures
    /\ failures' = failures + 1
    /\ sync' = IdleSync
    /\ UNCHANGED <<chain, blockdb, lastCommitted, q, commitVars, bulletinVars, readVars, crashes,
                   lookups, trackerMu>>

Committed ==
    /\ sync.pc = "written"
    /\ lastCommitted' = lastCommitted + sync.n
    /\ q' = SubSeq(q, sync.n + 1, Len(q))
    /\ sync' = [sync EXCEPT !.pc = "notify"]
    /\ UNCHANGED <<chain, blockdb, commitVars, bulletinVars, readVars, boundVars, trackerMu>>

\* What committedUpTo of accountUpdates and of txTail let the block queue forget.
acctRetain(committed, lookback) == IF committed < lookback THEN 0 ELSE dbRound
txTailRetain(committed) == SubSaturate(committed + 1, HeaderHistory)

\* Mutant of minToSave: what the accounts still need is not considered.
minToSaveTail(committed) == MinOf(committed, txTailRetain(committed))

minToSave(committed) ==
    MinOf(committed, MinOf(acctRetain(committed, acctLookback), txTailRetain(committed)))

\* Mutant of NotifyCommit: the latest round is announced, not the latest one stored.
NotifyCommitLatest ==
    /\ sync.pc = "notify" /\ trackerMu = "none"
    /\ trackerMu' = "sync"
    /\ disk' = latest
    /\ NotifyMem(latest)
    /\ sync' = [sync EXCEPT !.pc = "schedule", !.save = minToSave(lastCommitted)]
    /\ UNCHANGED <<chain, blockdb, lastCommitted, q, commitVars, readVars, boundVars>>

\* notifyCommit locks the trackers and calls their committedUpTo.
NotifyCommit ==
    /\ sync.pc = "notify" /\ trackerMu = "none"
    /\ trackerMu' = "sync"
    /\ disk' = lastCommitted
    /\ NotifyMem(lastCommitted)
    /\ sync' = [sync EXCEPT !.pc = "schedule", !.save = minToSave(lastCommitted)]
    /\ UNCHANGED <<chain, blockdb, lastCommitted, q, commitVars, readVars, boundVars>>

\* consecutiveVersion: the rounds from + 1 .. from + offset, cut where the version changes.
consecutiveVersion(from, offset) ==
    IF from + 1 < UpgradeRound THEN MinOf(offset, UpgradeRound - 1 - from) ELSE offset

\* produceCommittingTask: the range to commit, if any.
produceCommittingTask(committed) ==
    IF committed < acctLookback \/ committed - acctLookback <= dbRound THEN <<>>
    ELSE <<[oldBase |-> dbRound,
            offset |-> consecutiveVersion(dbRound, committed - acctLookback - dbRound)]>>

\* The channel deferredCommits takes a range only when it is empty.
offer(task) == IF deferred = <<>> THEN task ELSE deferred

\* scheduleCommit: the time since the last flush and the number of changes decide whether
\* a range is committed now; when the channel is full it is skipped.
ScheduleCommit ==
    /\ sync.pc = "schedule"
    /\ trackerMu' = "none"
    /\ sync' = [sync EXCEPT !.pc = "forget"]
    /\ deferred' \in {deferred, offer(produceCommittingTask(lastCommitted))}
    /\ UNCHANGED <<chain, blockdb, lastCommitted, q, dbRound, deltas, commit, acctdb, bulletinVars,
                   readVars, boundVars>>

\* BlockForgetBefore, which may fail.
Forget ==
    /\ sync.pc = "forget"
    /\ sync' = IdleSync
    /\ blockdb' \in {blockdb, [blockdb EXCEPT !.lo = IF @ < sync.save THEN sync.save ELSE @]}
    /\ UNCHANGED <<chain, lastCommitted, q, commitVars, bulletinVars, readVars, boundVars, trackerMu>>

----------------------------------------------------------------------------
(* trackerRegistry.commitSyncer and commitRound.                           *)

\* What is left of a scheduled range after the commits that came before it.
adjusted(task) == task.oldBase + task.offset - dbRound

\* A commit that is out of order, or has nothing left to do, ends here; otherwise the
\* trackers prepare it.
Dequeue ==
    /\ commit.pc = "idle" /\ deferred # <<>>
    /\ deferred' = <<>>
    /\ commit' = IF dbRound < deferred[1].oldBase \/ adjusted(deferred[1]) <= 0 THEN IdleCommit
                 ELSE [pc |-> "txn", oldBase |-> dbRound, offset |-> adjusted(deferred[1])]
    /\ UNCHANGED <<chain, blockVars, dbRound, deltas, acctdb, bulletinVars, readVars, boundVars,
                   trackerMu>>

Batch == SubSeq(deltas, 1, commit.offset)

Transaction ==
    /\ commit.pc = "txn"
    /\ acctdb' = [round |-> commit.oldBase + commit.offset, val |-> ApplyAll(acctdb.val, Batch)]
    /\ commit' = [commit EXCEPT !.pc = "post"]
    /\ UNCHANGED <<chain, blockVars, dbRound, deltas, deferred, bulletinVars, readVars, boundVars,
                   trackerMu>>

\* "unable to advance tracker db snapshot": a later commit covers the rounds.
TransactionFails ==
    /\ commit.pc = "txn" /\ failures < MaxFailures
    /\ failures' = failures + 1
    /\ commit' = IdleCommit
    /\ UNCHANGED <<chain, blockVars, dbRound, deltas, deferred, acctdb, bulletinVars, readVars, crashes,
                   lookups, trackerMu>>

\* Mutant of PostCommit: it needs the lock of the trackers.
PostCommitLocked ==
    /\ commit.pc = "post" /\ trackerMu \in {"none", "open"}
    /\ dbRound' = commit.oldBase + commit.offset
    /\ deltas' = SubSeq(deltas, commit.offset + 1, Len(deltas))
    /\ base' = IF Touches(Batch) THEN Newer(base, acctdb) ELSE base
    /\ commit' = IdleCommit
    /\ UNCHANGED <<chain, blockVars, deferred, acctdb, bulletinVars, pending, notFound,
                   pendingNotFound, reader, boundVars, trackerMu>>

\* The trackers drop the deltas; accountUpdates puts the rows it wrote in its cache.
PostCommit ==
    /\ commit.pc = "post"
    /\ dbRound' = commit.oldBase + commit.offset
    /\ deltas' = SubSeq(deltas, commit.offset + 1, Len(deltas))
    /\ base' = IF Touches(Batch) THEN Newer(base, acctdb) ELSE base
    /\ commit' = IdleCommit
    /\ UNCHANGED <<chain, blockVars, deferred, acctdb, bulletinVars, pending, notFound,
                   pendingNotFound, reader, boundVars, trackerMu>>

----------------------------------------------------------------------------
(* lookupWithoutRewards, under the read lock of the trackers.              *)

Answer(asked, rnd, level, val) ==
    [IdleReader EXCEPT !.pc = "done", !.asked = asked, !.rnd = rnd, !.level = level, !.val = val]

Known(rnd) == rnd \in dbRound .. dbRound + Len(deltas)

\* Only when the deltas do not touch the account is the answer good to the last of them.
validThrough(rnd) == IF Touches(deltas) THEN rnd ELSE dbRound + Len(deltas)

\* One pass of the loop, under accountsMu: the deltas, the cache, the accounts known not to
\* be in the database, or the database next.
Pass(asked, rnd) ==
    IF ~Known(rnd) THEN
        /\ reader' = [Answer(asked, rnd, rnd, 0) EXCEPT !.pc = "error"]
        /\ trackerMu' = "none" /\ UNCHANGED pending
    ELSE IF Touches(SubSeq(deltas, 1, rnd - dbRound)) THEN
        /\ reader' = Answer(asked, rnd, rnd, ApplyAll(0, SubSeq(deltas, 1, rnd - dbRound)))
        /\ trackerMu' = "none" /\ UNCHANGED pending
    ELSE IF base # NoEntry THEN
        /\ reader' = Answer(asked, validThrough(rnd), rnd, base.val)
        /\ pending' = Append(pending, base)
        /\ trackerMu' = "none"
    ELSE IF notFound THEN
        /\ reader' = Answer(asked, validThrough(rnd), rnd, 0)
        /\ trackerMu' = "none" /\ UNCHANGED pending
    ELSE
        /\ reader' = [pc |-> "db", asked |-> asked, rnd |-> validThrough(rnd), level |-> rnd,
                      val |-> 0, db |-> dbRound, len |-> Len(deltas)]
        /\ trackerMu' = "read" /\ UNCHANGED pending

Lookup(rnd) ==
    /\ trackerMu = "none" /\ lookups < MaxLookups
    /\ lookups' = lookups + 1
    /\ Pass(rnd, rnd)
    /\ UNCHANGED <<chain, blockVars, commitVars, bulletinVars, base, notFound, pendingNotFound,
                   crashes, failures>>

\* The row is read without accountsMu: commits go on meanwhile.
ReadRow ==
    /\ reader.pc = "db"
    /\ reader' = [reader EXCEPT !.pc = CASE acctdb.round = reader.db -> "row"
                                         [] acctdb.round < reader.db -> "stale"
                                         [] OTHER -> "wait",
                                !.val = acctdb.val]
    /\ UNCHANGED <<chain, blockVars, commitVars, bulletinVars, cacheVars, boundVars, trackerMu>>

\* The row, or that there is none, is left for the cache and returned; a commit may have
\* gone by since it was read.
ReturnRow ==
    /\ reader.pc = "row"
    /\ reader' = Answer(reader.asked, reader.rnd, reader.level, reader.val)
    /\ pending' = IF reader.val # 0 THEN Append(pending, [round |-> reader.db, val |-> reader.val])
                  ELSE pending
    /\ pendingNotFound' = (pendingNotFound \/ reader.val = 0)
    /\ trackerMu' = "none"
    /\ UNCHANGED <<chain, blockVars, commitVars, bulletinVars, base, notFound, boundVars>>

\* The database was ahead: wait until the tracker is as well, and start over with the
\* round as the first pass left it.
Retry ==
    /\ reader.pc = "wait"
    /\ reader.db < dbRound \/ reader.len # Len(deltas)
    /\ Pass(reader.asked, reader.rnd)
    /\ UNCHANGED <<chain, blockVars, commitVars, bulletinVars, base, notFound, pendingNotFound,
                   boundVars>>

\* Eval starts by flushing what lookups left, under accountsMu only: nothing is pruned, and
\* a lookup may be at the database meanwhile.
FlushCaches ==
    /\ pending # <<>> \/ pendingNotFound
    /\ base' = Flushed(base, pending) /\ pending' = <<>>
    /\ notFound' = (notFound \/ pendingNotFound) /\ pendingNotFound' = FALSE
    /\ UNCHANGED <<chain, blockVars, commitVars, bulletinVars, reader, boundVars, trackerMu>>

----------------------------------------------------------------------------
(* A crash, and opening the ledger again.                                  *)

\* reloadLedger with the trackers locked: blockQ starts at the last block stored, the
\* trackers load what their database has and replay the blocks after it; when these are
\* more than the lookback a commit is scheduled.
Crash ==
    /\ crashes < MaxCrashes
    /\ crashes' = crashes + 1
    /\ lastCommitted' = blockdb.hi /\ q' = <<>> /\ sync' = IdleSync
    /\ dbRound' = acctdb.round
    /\ deltas' = Rounds(acctdb.round + 1, blockdb.hi)
    /\ commit' = IdleCommit
    /\ deferred' = IF acctdb.round + acctLookback < blockdb.hi
                   THEN <<[oldBase |-> acctdb.round,
                           offset |-> consecutiveVersion(acctdb.round,
                                                         blockdb.hi - acctLookback - acctdb.round)]>>
                   ELSE <<>>
    /\ mem' = blockdb.hi /\ disk' = blockdb.hi /\ waiter' = 0
    /\ base' = NoEntry /\ pending' = <<>> /\ notFound' = FALSE /\ pendingNotFound' = FALSE
    /\ reader' = IdleReader /\ trackerMu' = "open"
    /\ UNCHANGED <<chain, blockdb, acctdb, failures, lookups>>

\* replay waits for the commit it scheduled, successful or not.
Opened ==
    /\ trackerMu = "open" /\ deferred = <<>> /\ commit.pc = "idle"
    /\ trackerMu' = "none"
    /\ UNCHANGED <<chain, blockVars, commitVars, bulletinVars, readVars, boundVars>>

Next ==
    \/ \E r \in 1 .. Len(chain) : WaitMem(r) \/ Lookup(r)
    \/ PutBlock \/ NewBlock
    \/ TakeWork \/ WriteBlocks \/ WriteFails \/ Committed \/ NotifyCommit \/ ScheduleCommit \/ Forget
    \/ Dequeue \/ Transaction \/ TransactionFails \/ PostCommit
    \/ ReadRow \/ ReturnRow \/ Retry \/ FlushCaches
    \/ Crash \/ Opened

\* The goroutines are scheduled, and a database that fails does not fail for ever.
Fairness ==
    /\ WF_vars(NewBlock) /\ WF_vars(Opened)
    /\ WF_vars(TakeWork \/ WriteBlocks \/ Committed \/ NotifyCommit \/ ScheduleCommit \/ Forget)
    /\ WF_vars(Dequeue \/ Transaction \/ PostCommit)
    /\ WF_vars(ReadRow \/ ReturnRow \/ Retry)

Spec == Init /\ [][Next]_vars
FairSpec == Spec /\ Fairness

----------------------------------------------------------------------------
(* Properties.                                                             *)

\* Type invariant, a conjunct of Recoverable.
TypeOK ==
    /\ chain \in Chains
    /\ blockdb \in [lo : Nat, hi : Nat] /\ acctdb \in [round : Nat, val : Nat]
    /\ lastCommitted \in Nat /\ q \in Seq(Nat)
    /\ trackerMu \in {"none", "add", "sync", "open", "read"}
    /\ sync \in [pc : {"idle", "write", "written", "notify", "schedule", "forget"}, n : Nat, save : Nat]
    /\ dbRound \in Nat /\ deltas \in Seq(Nat)
    /\ deferred \in Seq([oldBase : Nat, offset : Nat]) /\ Len(deferred) <= 1
    /\ commit \in [pc : {"idle", "txn", "post"}, oldBase : Nat, offset : Nat]
    /\ mem \in Nat /\ disk \in Nat /\ waiter \in Nat
    /\ base \in [round : Nat \cup {-1}, val : Nat]
    /\ pending \in Seq([round : Nat, val : Nat])
    /\ notFound \in BOOLEAN /\ pendingNotFound \in BOOLEAN
    /\ reader.pc \in {"idle", "db", "row", "wait", "stale", "error", "done"}
    /\ crashes \in 0 .. MaxCrashes /\ failures \in 0 .. MaxFailures /\ lookups \in 0 .. MaxLookups

ValueAt(r) == ApplyAll(0, Rounds(1, r))

\* Whenever the node stops, reloadLedger can bring the trackers up again: the block of the
\* tracker database's round and all later ones are stored, however far the deferred commits
\* and the deletion of old blocks got, and the account in that database is the one the
\* blocks up to its round lead to.
Recoverable ==
    /\ TypeOK
    /\ acctdb.round \in blockdb.lo .. blockdb.hi
    /\ acctdb.val = ValueAt(acctdb.round)

\* A block reaches the trackers before they hear that it is stored: neither the
\* "too far in the future" panic of produceCommittingTask nor the one of newBlockImpl
\* can happen, whatever the order of AddValidatedBlock, the syncer and the commits.
TrackersKeepUp ==
    /\ deltas = Rounds(dbRound + 1, dbRound + Len(deltas))
    /\ sync.pc \in {"notify", "schedule"} /\ trackerMu # "add" => lastCommitted <= dbRound + Len(deltas)
    /\ trackerMu = "add" => latest = dbRound + Len(deltas) + 1

\* A commit covers rounds that the trackers hold, whose blocks are stored, and of one
\* consensus version only, so that prepareCommit never refuses it.
CommitsUniform ==
    commit.pc # "idle" =>
        /\ commit.oldBase = dbRound /\ commit.offset \in 1 .. Len(deltas)
        /\ commit.oldBase + commit.offset <= blockdb.hi
        /\ ~(commit.oldBase + 1 < UpgradeRound /\ UpgradeRound <= commit.oldBase + commit.offset)

\* A lookup that succeeds returns the account as every round from the one asked for to the
\* one returned leaves it, although blocks, commits, flushes and evictions go on and the
\* cache also says which accounts there are not; and it never meets a database that is
\* behind the memory.
LookupCorrect ==
    /\ reader.pc = "done" => \A r \in reader.asked .. reader.rnd : reader.val = ValueAt(r)
    /\ reader.pc # "stale"

\* A lookup that found the database ahead of the tracker does not wait for ever, although
\* it holds the lock that adding a block needs.
LookupReturns == reader.pc \in {"db", "row", "wait"} ~> reader.pc \notin {"db", "row", "wait"}

\* Whoever waits for a round in memory is released once the ledger has it, although
\* bulletinMem moves back when the rounds before it are stored.
WaitersReleased == waiter # 0 /\ waiter <= latest ~> waiter = 0

\* Wait's promise, through bulletinDisk: "will not lose round r after a crash".
Log == INSTANCE DurableLog WITH announced <- disk
Durable == Log!Spec
=============================================================================
