# TLA+ verification of go-hedgecoin

go-hedgecoin is a fork of go-algorand: a node that agrees on one block per
round with the BA agreement protocol, whose committees are drawn with weights
supplied by an external oracle. These modules specify the parts of the node where
an error forks the chain, stops it, loses a block, or makes a node vote twice: the
agreement service, the weights it counts with, the ledger's storage, catchup, and
the rules by which accounts stay online.

## The system

| part | package | what it does | modelled |
|---|---|---|---|
| vote counting | `agreement` (voteTracker, bundle) | weighted counts per step, equivocators, thresholds, bundles | `VoteTracker` |
| player and its state machines | `agreement` (player, proposalManager, proposalStore, proposalTracker, voteAuxiliary, voteAggregator, router) | decides what the node votes, commits and relays | `Player`, `PlayerNode` |
| voting rules of the network | the same rules, over all accounts | one certified value per round | `BAVoting`, `Certification` |
| service, pseudonode, persistence | `agreement` (service, actions, pseudonode, persistence) | event loop, votes, crash database, restart, shutdown | `Persistence` |
| demux, crypto verifier | `agreement` (demux, cryptoVerifier, asyncVoteVerifier), `util/execpool` | asynchronous verification with bounded channels | `Verifier`; contexts in `PlayerNode` |
| sortition, weight oracle | `agreement/selector.go`, `node/weightoracle`, `node/node.go` | external weights, caches, start-up checks | `WeightOracle` |
| ledger storage | `ledger` (blockqueue, tracker, acctupdates, bulletin) | block queue, deferred commits, lookups, recovery | `LedgerStore`, `DurableLog` |
| catchup | `catchup/service.go` | pipelined fetch, fetch for a certificate | `Catchup` |
| expired and absent accounts, heartbeats | `ledger/eval`, `ledger/apply`, `heartbeat` | who is knocked offline, who answers a challenge | `Participation` |
| transaction pool, state proofs, AVM, transactions, RPC, network, tools | many | | no: see the end |

Messages reach the demux, which hands one event at a time to the player through
the router. Votes are counted by the voteTracker of their (round, period,
step); a threshold event goes up to the player, which answers with actions:
cast a vote, verify something, give a block to the ledger. A vote is cast by
the pseudonode, after the persistence loop has written the player's state. A vote
that arrives is verified by the crypto verifier, which asks the oracle client for
the sender's weight. A certified block goes to the ledger; a certificate without
a block goes to catchup, which fetches the block. The ledger stores blocks and
account state in two databases, and the evaluation of each block decides which
accounts leave the set of voters.

## The modules and the code

**VoteTracker** is one `voteTracker`. The variable `tracker` is the Go struct
(`Voters`, `Counts`, `Equivocators`, `EquivocatorsCount`); `handle`,
`overThreshold`, `genBundle`, `voteFilter` and `dumpVotes` are the code's
functions or its cases of `handle`. `VoteVerified` and `BundleVerified` are the
two ways a vote arrives through the `voteAggregator`.

**Player** is the state-machine tree of one node as a record, and its handlers
as operators from a record to the new record and the list of actions. The
operators carry the names of the methods (`issueSoftVote`, `enterPeriod`,
`enterRound`, `handleThresholdEvent`, `partitionPolicy`, ...).  Vote counting is
not repeated: a threshold arrives as an event.

**PlayerNode** gives `Player` its environment: thresholds in any order,
proposal-votes, payloads, verifications that succeed, fail or are cancelled, both timers,
rounds that the ledger ends. Not every set of thresholds can exist; `Possible`
is what quorum intersection and the voting rules leave, and those are the facts
that `BAVotingProofs` proves (`OneNextValue`, `BottomFromStart`, `NextExcludes`).

**BAVoting** is one round of the network: what honest accounts vote over
the periods, as the same rules allow. A quorum is a set of honest accounts that
reaches a threshold with the help of all the faulty weight. `VotesFollowRules`
in `PlayerNode` checks that the player's votes obey these rules, with the one exception
it states, which ties the two levels together. The exception is an assumption here:
`issueNextVote` lets an account that cert-voted a value name no other, which
player.go:214-274 does not enforce by itself but by keeping the block.

**Certification** is the abstract promise: nothing is certified, then one value
is, for good. `BAVoting!Certifies` is the refinement.

**Persistence** is the path of a vote out of the node: the actions of the demux
loop, the votes tasks of the pseudonode, the persistence loop, the crash
database, a ledger with a volatile and a durable end, crashes and restarts, and
Shutdown. The player is reduced to "votes once at a point".

**Verifier** is the path of a message into the node: `demux.next`, which opens the
raw channels only while the verifier has room (`Gate`, `ChannelFull`), the three
workers of `poolCryptoVerifier` with their channels, the asynchronous vote verifier
and the pool behind it, and the shutdown that waits for all of them. The capacities
are the code's expressions of the parallelism. What the player makes of a message is
left open; `Ask` is what it may submit.

**WeightOracle** is a starting node and its verification workers. `Ping`, `Identity`
and `ValidateKey` are `initializeWeightOracle`; a worker goes through `membership`
line by line (`Circulation`, the seed cache of `data/ledger.go`, `keyEligible`,
`Weight`, `Total`, `Check`). `weightCache` and `totalWeightCache` are the map and
the list of `lruCache`; a cache miss, the query and the put are separate steps,
since the lock is not held over the query. The daemon is external.

**LedgerStore** is `AddValidatedBlock` (`PutBlock`, `NewBlock`), `blockQueue.syncer`
(`TakeWork` to `Forget`), the trackers' `commitSyncer` (`Dequeue`, `Transaction`,
`PostCommit`), a lookup in `accountUpdates` (`Lookup`, `ReadRow`, `ReturnRow`,
`Retry`), the flush of the caches at the start of an evaluation (`FlushCaches`) and
`reloadLedger` after a crash. One account stands for all; its value is the round that
changed it last. `base` and `pending` are the cache of accounts with its pending writes,
`notFound` and `pendingNotFound` say the same of an account the database does not have.
**DurableLog** is what the ledger promises those who wait for a round: `LedgerStore!Durable` is the refinement.

**Catchup** is `catchup/service.go`: `periodicSync`, the pipeline it launches, one
record per `fetchAndWrite` goroutine, `fetchRound`, the unsupported-round
monitor, Stop, with agreement adding blocks to the same ledger. A peer's answer is
the certified block, the block with other contents, another block, or nothing. `blamed`
says why a peer was last ranked invalid for the certified block: its protocol is not
supported, a query of the weight daemon failed, or the lookback block was not there.

**Participation** is the end of a block as the proposer generates it and every node
validates it, the heartbeat and keyreg transactions in it, the challenges, and the
heartbeat service of each node. `acct` is the state after the latest block, `mods`
the state in the block under evaluation, `online` the snapshots the balance round
is looked up in. Any query of the daemon may fail: generation then passes over accounts or
lists nobody (`AbsentLists`, `CandidateSets`), validation returns an error (`Answers`).

The theorems are in **VoteTrackerProofs**, **BAVotingProofs**, **PersistenceProofs**,
**VerifierProofs**, **WeightOracleProofs**, **ParticipationProofs**, **LedgerStoreProofs**
and **CatchupProofs**. Modules named **MC...** give the constants values.

Definitions labelled *Mutant of ...* are wrong variants of the definition after
them. No specification uses them; each one, put in place of the right one,
makes TLC report the property it is meant for.

## The runs

Run one with `tlc -config <cfg> <module>`; `PROJECT.json` lists them all.

| run | instance | what it shows |
|---|---|---|
| `vote_tracker` | 4 senders of weights 1, 3, 2, 1, two faulty, quorum 5, 3 values | counts equal the weight of the votes seen; exactly one threshold event, at the right vote; its bundle proves it, without a panic, and convinces any other tracker; filter and dump lose nothing |
| `voting` | 2 honest accounts, 2 values, 3 periods | agreement, refinement of `Certification` |
| `player_recovery` | 2 proposals, periods 0 and 1, steps up to the first recovery step | the votes obey the rules of `BAVoting` unless a late proposal-vote displaced the block, one value per step, the freshest bundle leads to the node's period, a certified block can be received unless its verification was cancelled or failed |
| `player_pipeline` | 2 proposals, 2 rounds, period 0 | the second round starts from pipelined messages without a panic, only certified blocks are committed |
| `persist_crash` | 2 points, 2 rounds, a restart, failing writes | one vote per point, no vote before its state is on disk, crash database behind ledger |
| `persist_shutdown` | 1 point, 3 rounds, failing writes, no crash, fair | actions end and Shutdown returns, but for the error of a failed write that nobody takes |
| `weight_oracle` | 2 accounts, 2 workers, 2 vote rounds, caches of 2 and 1, 5 daemons | caches consistent and bounded, votes weighed with their own round, no panic with an aligned daemon |
| `participation` | 2 accounts on 2 nodes, 9 rounds with a challenge, 1 key registration, 2 misses, failing queries | generated lists validate when the queries are answered, only accounts registered after the balance round lack a weight, heartbeats suffice and are free once |
| `ledger_store` | 3 or 4 rounds, a version change, a crash, a failing transaction, 2 lookups, fair | recovery, durability, right lookups that return, released waiters |
| `verifier` | parallelism 1, 11 messages, or 3 and a bundle of 2 votes, fair | room for what is let in, one result per vote, all answered unless demux and payload worker wait for each other, shutdown ends |
| `catchup` | 4 rounds, unsupported from round 4, 2 parallel fetches, 2 retries, ledger busy once, failing daemon, fair | only certified blocks, a good block blamed only for its protocol or the daemon, certificates served, the service stops |

The runs check what the proofs leave open and the results a reader will look for first;
other properties that are proved for every instance (`OneNextValue`, `BottomFromStart`,
`CachesTrue`, `StartedSound`, `TrackersKeepUp`, `CommitsUniform`, `WritesInOrder`,
`PipelineBounded`) have no run of their own. The type invariant of a module is a conjunct of
one of its checked invariants, as its comment says; that of `BAVoting` is proved, and
`CatchupInv` carries the types of `Catchup`.

One run, `collected_period`, ends in a counterexample: player.go:356 says "for past
periods, having a freshest certThreshold will prevent losing the block", but the
certificate of a period the router has collected passes `bundleFresh` and is dispatched
to a router that is not there (router.go:218-232, 245).

### Bounds

Two values are enough to disagree, and a third in `VoteTracker` lets an
equivocator's pair miss the value counted. Weights 1, 3, 2, 1 with quorum 5 give
quorums with and without equivocators, and orders by weight and by address.
In `voting` both honest accounts are needed for a threshold, and the constraint
`NoRecoveryFromLast` cuts next-votes of the last period, which nothing could follow;
the proofs have neither bound. The player needs two periods for recovery and two
rounds for pipelining; `player_recovery` has two proposal-votes of period 0, so that
the one with the lower credential may come late; `collected_period` needs five periods,
since 0 and 1 are never collected. `Persistence` needs two points for a second vote in the
queue, two rounds for a ledger that is behind, one restart to lose memory; the
constraint `NotShutDown` leaves the shutdown to the other run. That one has one point in
three rounds: the persistence loop waits for the ledger in one round, the next state fills
its channel, and the demux loop blocks with a third. `MaxJobs` is the
backlog of the pseudonode, which the code sets far higher: small, it is reached.

`WeightOracle`: the caches hold half of the keys in use, so that a put may evict; rounds
1 and 3 with a lookback of 2 have the balance rounds 0 (held there) and 1.
`Participation`: the rounds 14 to 22 contain the challenge of round 14, its risky
half (18 to 21) and the first round of its active half; a heartbeat lives for two
rounds, so that one must be repeated. `LedgerStore`: with a lookback of 1 four rounds
allow two commits, one cut at the version change; one lookup can meet a database ahead
of the tracker and another one what the first left in the cache; one chain creates and
closes the account, so that it is not found before and after. `Verifier`: with
parallelism 1 eleven votes with payloads are what it takes to fill the channel of validated
payloads and to make both ends wait for each other. A bundle counts for eight messages
(`BundleLoad`), which still fill the other channels.
`Catchup`: with a lookback of 1 the wait for the seed's block is the wait for the
previous one, and the proofs cover every lookback; two fetches are enough for one to
be ahead, and round 4 is the one the node does not support.

Deadlock is not checked where the system may stop: `BAVoting` (the voting of a
bounded number of periods ends), `Persistence`, `Verifier` and `Catchup` (a service
that was shut down), `WeightOracle` (a node that refused to start, or panicked),
`LedgerStore` and `Participation` (the last round of the run).

### Assumptions

* `BAVoting`: two quorums share an honest account, and `VoteTracker`: total plus
  faulty weight is below twice the quorum. Both are the assumption
  `voteTrackerContract.go` names.
* `TimelyFast`: the fast-recovery timer (minutes) fires after the deadline timer
  (seconds) took the player past the cert step. When both are ready the `select`
  of the demux is free to choose either, so this is an assumption about time. Without it
  the soft-vote or the cert-vote of a period may follow a recovery vote.
* In `Persistence` the crash database is read back as it was written; a write may
  fail. `OneVotePerPoint` is checked, and proved, for one restart.
* `WeightOracle`: what the daemon answers for a key never changes, 0 stands for "no
  weight", and its identity is looked at only at the start, as the code does. Every
  sender has a record in the snapshot. A failing query is an internal error or a
  timeout. `NoPanic` is stated for a daemon that weighs every eligible participant
  (`Aligned`): the code means to panic otherwise.
* `Participation`: the daemon weighs exactly the accounts that were online in the
  balance round, and may fail to answer any query. A block is agreed on by nodes whose
  queries are answered. `InitialRecs` are coherent: keys go with being online, and who was
  suspended is not eligible. `HeartbeatAssumption`: `MaxMissed` is below the number of blocks in the second
  half of the grace period, and a heartbeat lives no longer than a grace period (10 and 200
  rounds in the code). Accounts keep a balance. At most `MaxMissed` times does a block leave
  out a heartbeat or come before the service looked at the block before, the service
  restart, or the broadcast of a heartbeat fail.
* `LedgerStore`: a database transaction takes effect or fails as a whole.

### Fairness

A goroutine that can run runs: weak fairness for the loops of `Persistence`,
`Verifier` (each worker and the pool), `LedgerStore` (the syncer, the commit syncer,
a lookup, whoever holds the lock of the trackers) and `Catchup` (`Service`). A Go
`select` chooses among the ready cases at random, so a case that is ready again and
again is taken: strong fairness for leaving the loop on `quit` in `Persistence`, for
reading the result of a vote in `Verifier`, and for `TakeCert` and `StartSync` in
`Catchup`. In `LedgerStore` and `Catchup` a database or a peer that fails does not fail for ever: failures are bounded, or the
step that succeeds is fair. Nothing is assumed of messages, timers, crashes,
cancellations, new blocks or lookups.

### Divergences between the code and its comments

Met while modelling; only the one of `collected_period` has a run of its own.

* player.go:230, "if a player has voted for a value, they have the block": a value of
  period 0 staged in period 1 with its block assembled hangs on `Relevant[0]` alone; a
  late proposal-vote of period 0 with a lower credential replaces the entry and the trim
  deletes the block (proposalStore.go:219). `VotesFollowRules` has this as its exception,
  and TLC reaches it.
* player.go:369, "We need to ensure we will be able to receive the block": a second
  payload verified in the same context cancels the verification of the certified one
  (cryptoRequestContext.go:89) while its assembler stays filled and refuses further
  copies; the block can then only come by catchup. So it is when the verification fails.
  `CertifiedTracked` has both as its exception.
* pseudonode.go:455, "we don't want to send any vote unless we've completed flushing it
  to disk": the vote replayed after a restart is persisted before `persistRouter` and its
  fellows are assigned, as an empty state (service.go:224-282); a second crash in the
  round forgets the vote.
* service.go:175, Shutdown "returns after all resources have been cleaned up": after a
  failed write `checkpointAction.do` sends the error on an unbuffered channel
  (actions.go:559) to a task that may have ended, and the demux loop stays there (`Stuck`,
  the exception in `ActionsEnd` and `ShutdownEnds`). Nor does it return when more votes
  are pending at the quit than the channel of results holds: `AsyncVoteVerifier.worker`
  blocks and `Quit` waits for it. `QuietShutdownEnds` is the statement that does hold.
* cryptoVerifier.go, `ChannelFull` ("for deadlock safety, upper-bound the number of
  pending requests") does not count the requests in the pool's backlog and in
  `execpoolOut`; "Allocate enough outbound space to absorb one proposal per pending
  vote" undercounts in the same way, so that the demux loop and the payload worker can end
  up waiting for each other (`Stuck`, the exception in `VotesAnswered`); `verifier` reaches it.
* voteAggregator.go:53, "A voteMalformed event is emitted if the ill-formed vote was the
  result of some corrupt process": a transient error of the local daemon
  (selector.go:131-133) ends there as well and disconnects the peer, and so does a
  round the ledger drops between two lookups (selector.go:87 formats the error with `%v`,
  so it is no longer a `LedgerDroppedRoundError`).
* eval.go:1702, "Log an error and keep going; generating lists of absent and expired
  accounts is not required by block validation rules", but an account that registered with
  the fee after the balance round has no weight there, and the zero weight or the daemon's
  refusal panics the proposer (eval.go:1786, 1795). TLC reaches it; `SettledWeighed` says
  that no other account leads there.
* eval.go:1930, "I suppose we can still return successfully if the absent list is empty":
  it does so when the online stake cannot be fetched, but not when the total weight cannot
  (eval.go:1950-1953), so a validating node whose daemon does not answer refuses a block
  without absent accounts, also its own. `GeneratedValid` states it.
* service.go:391 of catchup ranks a peer for an invalid download whenever `Authenticate`
  fails, also when the local daemon did (selector.go:131-133) and, before that, when the
  block is of a protocol the node does not know (service.go:369-374). `GoodNotBlamed` names
  these two causes.
* accountdata.go:129, voting keys are kept "so that a heartbeat can bring the account
  back Online": a
  heartbeat never changes the status (apply/heartbeat.go); a proposal or a keyreg does.
  The comment on `loop` in heartbeat/service.go describes the same former design.
* ledger.go:577, "contains the rewards applied up to that round number": the rewards level
  is the one of the round asked for, the round returned may be later
  (acctupdates.go:1304, 1331).

## The proofs

**VoteTrackerProofs**, for any senders, weights, values and quorum with
`EquivocationAssumption`: `TrackerIsInvariant`, and from it the six invariants of the run:
`CountsMatchVotesHolds`, `ThresholdExactlyOnceHolds`, `BundleProvesThresholdHolds`,
`BundleConvincesHolds`, `DumpRebuildsHolds`, `FilterDropsOnlyDuplicatesHolds`. A set of votes
determines a tracker (`Match`), the values that reach the quorum (`ReachedIn`) and the events
that must have been emitted (`Emitted`); `TrackerInv` says that the state is the one that
`seen` determines. The counts of the code are incremental, so the work is in showing that
one call of `handle` leads from the tracker of a set to that of the set with one vote more
(`HandleReturns`: a first vote, a second one that takes its sender's weight out of one
counter, a duplicate), and that a replay does so for all the votes of a bundle
(`ReplayRuns`). The assumption on the faulty weight is used twice: at most one value
reaches the quorum (`ReachedOne`), and a value that reached it does not lose it when its
voters equivocate (`ReachedStays`), so that the event is emitted once. `PackedQuorum` is
`genBundle`: the senders in its order up to the one that reaches the quorum are a valid
bundle of at most `Quorum` votes, since every weight is at least 1. Weights are sums over
sets, by the library's recursion; `WeightFacts` gets from it, by induction over the size of
the set, that they are additive. Go maps are ranged over in any order: the votes of a bundle
and of a dump come in *some* order, about which nothing is assumed.

**BAVotingProofs**, for any accounts, values and number of periods and any
pairwise intersecting quorums: `TypeCorrect`; `Invariance`, that `Inv` is an
invariant; `AgreementHolds`, `OneNextValueHolds`, `BottomFromStartHolds`; and
`Refinement`, that `BAVoting` implements `Certification`.

Agreement is not inductive: it speaks of certificates, and says nothing of
the votes that could still become one. `Inv` adds what each vote rests on.
`VotesJustified`: a cert-vote has a soft quorum and binds the account's recovery
votes; a recovery vote for a value has a soft quorum or the period before behind
it. `NextExcludes` is the heart: when a period ends with a value (or bottom), a
quorum is past its cert step of every period so far without a vote for any other
value, so no other value can still be certified there. To carry it into
the next period one must know that a soft quorum of the period followed from the
period before. An account that enters a period by its soft quorum may soft-vote
freely, so this is not true of each vote; it is true of the first quorum
(`FirstQuorum`), and the history variable `basis` records for each soft-vote what
it rested on. Each action has a lemma (`ObserveNextStep` ... `NextVoteStep`); the
lemma `Stable` says that quorums, once there, stay.

**WeightOracleProofs**, for any accounts, rounds, lookbacks, daemons, cache sizes
and workers: `CachesTell` (`CachesTrue`), `CountedTruly` (`VerifiedTruly`),
`AlignedNeverPanics` (`NoPanic`), `StartIsChecked` (`StartedSound`),
`CachesStayConsistent` (`CachesConsistent`). A cache stays
true only because a worker between its query and its put carries the answer
to its own key: `WorkerInv` says what a worker has established at each line
of `membership`, `StartInv` which keys the starting node has weighed. `OracleInv` is
their conjunction with the truth of the caches. `ListsInv` is the other half of
`lruCache`: the list names the keys of the map, each once, and no more than the capacity.
The lemmas `PushList`, `FrontList` and `DropList` say so of a put, a hit and an eviction,
also of the put of a key that another worker put since this one missed it.

**ParticipationProofs**, for any accounts, nodes, weights, lookback, interval, key
registrations and history: `GeneratedListsValid` (`GeneratedValid`), `SettledAreWeighed`
(`SettledWeighed`), `HeartbeatsDoSuffice` (`HeartbeatsSuffice`) and
`FreeOnlyOnce` (`OneFreeHeartbeat`). `WeighedInv` is what the weights rest on: an account that
is online and eligible was online in every snapshot since the balance round or since it
registered, which the history variable `registered` records. It is kept because a proposal
brings a suspended account back online without its eligibility, which needs `Coherent`
records. `FreeInv`: who has heartbeat for
free was seen since the challenge. That heartbeats suffice is a count, `HeartInv`: an
account that is still due when the round ends has cost a miss in every round since its
heartbeats became free (`Paid`). A service that looked at the round has a heartbeat in the
pool, since it keeps quiet only while one that it sent for this challenge waits there
(`Remembers`); the block then either takes it or misses it, and a restart counts for
itself. `HeartbeatAssumption` says that the second half of the grace period has more
blocks than are missed and that a heartbeat does not live into the next challenge.

**LedgerStoreProofs**, for any history, lookbacks, upgrade round, crashes, failures
and lookups: `KeepUp` (`TrackersKeepUp`), `Uniform` (`CommitsUniform`),
`DurableTheorem` (the refinement of `DurableLog`), `AlwaysRecoverable` (`Recoverable`, with
`ReplayPossible` for its blocks) and `LookupsCorrect` (`LookupCorrect`). `StoreInv` has four
parts: the queue continues the block
database (`BlockInv`); the deltas continue the trackers' round up to the latest block
(`HeldInv`); a range that waits in the channel stays committable while other commits
move the trackers' round under it (`CommitInv`); no block from the trackers' round on
is deleted, although what may be deleted is computed before the deletion
(`KeptInv`). `LookupInv` relates the account wherever it is held to what the chain makes of
it: the database has the value of its own round (`AccountInv`); the cache has the value of
the trackers' round or nothing, and an entry a lookup left for it either has that value or
is older than what the cache holds, so flushing it does no harm (`CacheInv`); while the cache
has no entry, an account that is listed as not found is not in the database (`AbsentInv`); a
lookup under way answers for rounds through which the account kept the value it had in the database
when the lookup began (`ReaderInv`). The values are a recursion over the rounds. `Induct`,
induction for a set of naturals, comes from the well-foundedness of `<`; with it
`StepByStep` shows that a function defined step by step exists, and `ValueSteps`,
`BatchApplies`, `TouchedBatch` and `Quiet` what a batch of rounds does to the account. The
assumption `LedgerStoreAssumption` gives the constants their types.

**PersistenceProofs**, for any points, values, rounds, number of
votes tasks and restarts and any failing writes: `DiskNeverAhead` (`DiskBehindLedger`),
`SentIsDurable` (`SentIsDurableAtFirst`), `NoDoubleVote` (`OneVotePerPoint`, while there was
at most one restart). What was sent says nothing of the votes on their way, so `PersistInv`
speaks of every vote the node has sent, may still send or would make again after a restart
(`Known`): two of them for one point are equal and the player's state covers them
(`VoteInv`). A restart keeps this because every state that is persisted covers the votes of
its own actions (`CoverInv`). Before the first restart the states of the votes tasks, the
crash database and the player form a chain, written in order, and a task is released
only when its vote is kept (`DurableInv`).

**VerifierProofs**, for any parallelism, backlog, size of bundles and number of messages:
`SubmitNeverBlocks` (`SubmitFindsRoom`) and `EveryVoteAnsweredOnce` (`OneResultPerVote`).
`Room` carries what `next` saw from the opening of the raw channels to the submission: only
the demultiplexer fills the channels of the verifier, the workers only empty them.
`Counted` says where the votes owed a result are; the lemmas on `Count` say what
appending to and taking from a channel, the pool or a worker does to their number.

**CatchupProofs**, for any lookback, parallelism, retry limit and number of rounds:
`WriteOrder`, `OnlyCertified`, `NoneBlamed`, `PipelineDepth`. `CatchupInv` says what a fetch has
established at each step (`FetchInv`), and that certificates are at most one round
ahead of the ledger, which is why the unconditional `EnsureBlock` ends. `PipeInv` adds that no fetch is left
between two pipelines, so that moving both ends of the pipeline loses none.

Checked by TLC only: everything under fairness, which is outside the prover; and the
invariants of `PlayerNode` with `VotesFollowRules`. The player's state is a record of
records and functions that every handler rewrites piecewise, and its properties relate it
to a list of actions put together in the same step; its runs are bounded in rounds,
periods and steps. What the network makes of votes that obey the rules is proved in
`BAVotingProofs`, what a tracker makes of votes in `VoteTrackerProofs`.

## Not modelled

The project covers a small share of the repository's lines. Most of the rest is
sequential code over data, generated code, or the interfaces around the node, and
a model of it would repeat it.

* Durations: credential arrival history, dynamic filter timeout, next-vote ranges,
  time-outs of fetches. The models let timers fire at any time, within `TimelyFast`.
* The relaying of single votes, tracing, encoding, metrics.
* Sortition (floating point), cryptography, the AVM, transactions, RPC, network
  transport, command line, deployment: sequential, stateless, or pure data.
* Errors reading the crash database.
* Weight oracle: errors looking up consensus parameters; the participation keys that
  `validateParticipationKeyWeights` skips for other reasons than their rounds; the
  cache of `Circulation`.
* Ledger: archival nodes, `MaxBlockHistoryLookback` and catchpoints, which only keep
  more blocks; assets, applications and the online history, which are committed by
  the same steps; a reload without a crash (`Close` is a crash that loses less); the
  batch size of deletions (`Forget` may delete nothing).
* Verifier: priorities and batches of the pool.
* Catchup: follower mode, ranking of peers, catchpoint catchup, restarts of the service,
  the backlog of `Ledger.Wait`, validation modes other than the default.
* Participation: closing accounts, payouts, heartbeats that pay a fee, the limits of
  the top-accounts list (it is all online accounts or none).
* The transaction pool: its assembly runs under one mutex with a deadline, and what it
  produces is the evaluation of a block. State proofs: signatures and provers in a
  database of their own. The participation registry: a write queue in front of SQL.
