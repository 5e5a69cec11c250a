---------------------------- MODULE WeightOracle ----------------------------
(***************************************************************************)
(* Where the weight of a vote comes from: the oracle client and its two    *)
(* LRU caches (node/weightoracle), the checks of a starting node           *)
(* (node/node.go), membership and the verification of votes by concurrent  *)
(* workers (agreement/selector.go, vote.go, asyncVoteVerifier.go), the     *)
(* seed cache of the ledger (data/ledger.go).                              *)
(*                                                                         *)
(* The daemon is external.  What it answers for a key is fixed (identity,  *)
(* weight and total are chosen in Init); it may fail any query with an     *)
(* "internal" error or time out.  Get and Put of a cache are critical      *)
(* sections; the query between them is not.  A weight is asked with the    *)
(* SelectionID of the record of the account in the balance round, so the   *)
(* key is <<balanceRound, addr>> here.                                     *)
(***************************************************************************)
EXTENDS Integers, Sequences, FiniteSets

CONSTANTS
    Accounts,      \* senders of votes, all online in every snapshot
    LocalKeys,     \* the accounts whose participation keys the node holds
    VoteRounds,    \* rounds of the votes
    StartRound,    \* the vote round of the start-up checks
    Lookback,      \* BalanceLookback
    SeedLookback,
    Window,        \* Window[b][a]: VoteFirstValid and VoteLastValid of a in the
                   \* snapshot of round b
    Daemons,       \* the daemons the node may meet
    Expected,      \* the identity it expects: genesis and both versions
    CommitteeSize, \* the largest committee of a step
    WeightCacheCapacity, TotalWeightCacheCapacity,
    Workers        \* goroutines of the verification pool

BalanceRound(r) == IF r < Lookback THEN 0 ELSE r - Lookback
seedRound(r) == IF r < SeedLookback THEN 0 ELSE r - SeedLookback

WeightKeys == {<<BalanceRound(r), a>> : r \in VoteRounds \cup {StartRound}, a \in Accounts}
TotalKeys == {<<BalanceRound(r), r>> : r \in VoteRounds}

ASSUME OracleAssumption ==
    /\ LocalKeys \subseteq Accounts
    /\ VoteRounds \subseteq Nat \ {0} /\ StartRound \in Nat \ {0}
    /\ Lookback \in Nat /\ SeedLookback \in Nat /\ CommitteeSize \in Nat \ {0}
    /\ WeightCacheCapacity \in Nat \ {0} /\ TotalWeightCacheCapacity \in Nat \ {0}
    /\ \A d \in Daemons : d.weight \in [WeightKeys -> Nat] /\ d.total \in [TotalKeys -> Nat]
    /\ Window \in [{BalanceRound(r) : r \in VoteRounds \cup {StartRound}} ->
                      [Accounts -> [first : Nat, last : Nat]]]

VARIABLES
    phase,       \* "ping", "identity", "keys", "running", "failed", "panic"
    unchecked,   \* the participation keys still to validate
    daemon,      \* the daemon of this run
    weightCache, totalWeightCache,
    lastRoundSeed, \* the two rounds of the seed cache, the newer one last; <<>> at first
    oldest,      \* the oldest round the ledger still has agreement data of
    worker       \* worker[w]: what a goroutine is doing

caches == <<weightCache, totalWeightCache>>
data == <<lastRoundSeed, oldest>>
vars == <<phase, unchecked, daemon, caches, data, worker>>

\* pc: "idle"; "circulation", "seed", "storeSeed", "weight", "askWeight",
\* "putWeight", "total", "askTotal", "putTotal", "check" inside membership;
\* "done" with a verdict.
Begin(pc, a, r, v) ==
    [pc |-> pc, addr |-> a, round |-> r, seeds |-> << >>, seed |-> -1, weight |-> 0, total |-> 0, verdict |-> v]
Idle == Begin("idle", "", 0, "none")

\* The start-up checks run on the node's own goroutine.
node == "node"

EmptyCache == [items |-> << >>, list |-> << >>]

----------------------------------------------------------------------------
(* The LRU caches: a map, and a list with the most recent key in front.    *)

\* The node of the key moves to the front.
MoveToFront(list, k) ==
    LET i == CHOOSE j \in 1 .. Len(list) : list[j] = k
    IN  <<k>> \o (SubSeq(list, 1, i - 1) \o SubSeq(list, i + 1, Len(list)))

\* Get of a key that is there: the entry is the most recent one.
Touch(c, k) == [c EXCEPT !.list = MoveToFront(@, k)]

\* The map without its least recently used key.
Evict(c) ==
    [items |-> [k \in DOMAIN c.items \ {c.list[Len(c.list)]} |-> c.items[k]],
     list |-> SubSeq(c.list, 1, Len(c.list) - 1)]

PushFront(c, k, v) ==
    [items |-> [x \in DOMAIN c.items \cup {k} |-> IF x = k THEN v ELSE c.items[x]],
     list |-> <<k>> \o c.list]

\* Mutant of Put: the key is not looked up again.
PutTwice(c, k, v, capacity) ==
    PushFront(IF Cardinality(DOMAIN c.items) >= capacity THEN Evict(c) ELSE c, k, v)

Put(c, k, v, capacity) ==
    IF k \in DOMAIN c.items THEN Touch([c EXCEPT !.items[k] = v], k)
    ELSE PushFront(IF Cardinality(DOMAIN c.items) >= capacity THEN Evict(c) ELSE c, k, v)

----------------------------------------------------------------------------
Init ==
    /\ phase = "ping" /\ unchecked = LocalKeys
    /\ daemon \in Daemons
    /\ weightCache = EmptyCache /\ totalWeightCache = EmptyCache
    /\ lastRoundSeed = << >>
    /\ oldest = 0
    /\ worker = [w \in Workers \cup {node} |-> Idle]

weightKey(w) == <<BalanceRound(worker[w].round), worker[w].addr>>
totalKey(w) == <<BalanceRound(worker[w].round), worker[w].round>>

\* A goroutine at pc; a panic or a failed start ends them all.
At(w, pc) == phase \in {"keys", "running"} /\ worker[w].pc = pc

Go(w, pc) == worker' = [worker EXCEPT ![w].pc = pc]

\* The verification ends with a verdict of voteAggregator: "verified",
\* "filtered" or "malformed".
Verdict(w, v) == worker' = [worker EXCEPT ![w].pc = "done", ![w].verdict = v]

keyEligible(r, a) ==
    LET win == Window[BalanceRound(r)][a]
    IN  r >= win.first /\ (win.last = 0 \/ r <= win.last)

----------------------------------------------------------------------------
(* initializeWeightOracle, before the agreement service exists.            *)

Ping ==
    /\ phase = "ping"
    /\ phase' \in {"identity", "failed"}
    /\ UNCHANGED <<unchecked, daemon, caches, data, worker>>

\* The query may fail as well; then the oracle is injected into the ledger.
Identity ==
    /\ phase = "identity"
    /\ \/ phase' = "failed"
       \/ phase' = IF daemon.identity = Expected THEN "keys" ELSE "failed"
    /\ UNCHANGED <<unchecked, daemon, caches, data, worker>>

\* One record of validateParticipationKeyWeights: skipped when its key is not
\* eligible in the vote round, else its weight is asked for.  The records come
\* in the order of a map.
ValidateKey(a) ==
    /\ phase = "keys" /\ worker[node].pc = "idle" /\ a \in unchecked
    /\ unchecked' = unchecked \ {a}
    /\ worker' = IF keyEligible(StartRound, a)
                 THEN [worker EXCEPT ![node] = Begin("weight", a, StartRound, "none")]
                 ELSE worker
    /\ UNCHANGED <<phase, daemon, caches, data>>

\* The weight of the record is there.
KeyWeighed ==
    /\ phase = "keys" /\ At(node, "total")
    /\ phase' = IF worker[node].weight = 0 THEN "failed" ELSE "keys"
    /\ worker' = [worker EXCEPT ![node] = Idle]
    /\ UNCHANGED <<unchecked, daemon, caches, data>>

\* Start: the agreement service runs.
StartAgreement ==
    /\ phase = "keys" /\ unchecked = {} /\ At(node, "idle")
    /\ phase' = "running"
    /\ UNCHANGED <<unchecked, daemon, caches, data, worker>>

----------------------------------------------------------------------------
(* A worker of the pool verifies a vote: membership, then the credential.  *)

\* LookupAgreement of a round the ledger has dropped cancels the verification.
Verify(w, a, r) ==
    /\ phase = "running" /\ worker[w].pc \in {"idle", "done"} /\ w # node
    /\ worker' = [worker EXCEPT ![w] =
                     IF BalanceRound(r) < oldest THEN Begin("done", a, r, "filtered")
                     ELSE Begin("circulation", a, r, "none")]
    /\ UNCHANGED <<phase, unchecked, daemon, caches, data>>

\* Circulation looks at the same round again; its error is not the one that
\* cancels.
Circulation(w) ==
    /\ At(w, "circulation")
    /\ IF BalanceRound(worker[w].round) < oldest THEN Verdict(w, "malformed") ELSE Go(w, "seed")
    /\ UNCHANGED <<phase, unchecked, daemon, caches, data>>

\* The seed of a block, and the zero seed of an unused slot of the cache.
SeedOf(r) == r + 1
NoSeed == [round |-> 0, seed |-> 0]

\* Mutant of Seed: round 0 is looked up in the cache too.
SeedZero(w) ==
    /\ At(w, "seed")
    /\ LET r == seedRound(worker[w].round)
           hit == {i \in DOMAIN lastRoundSeed : lastRoundSeed[i].round = r}
       IN  worker' = [worker EXCEPT
              ![w].pc = IF hit # {} THEN "weight" ELSE "storeSeed",
              ![w].seed = IF hit # {} THEN lastRoundSeed[CHOOSE i \in hit : TRUE].seed ELSE SeedOf(r),
              ![w].seeds = IF hit # {} THEN << >> ELSE lastRoundSeed]
    /\ UNCHANGED <<phase, unchecked, daemon, caches, data>>

\* Seed: from the cache, unless the round is 0, or from the block header.
Seed(w) ==
    /\ At(w, "seed")
    /\ LET r == seedRound(worker[w].round)
           hit == {i \in DOMAIN lastRoundSeed : r # 0 /\ lastRoundSeed[i].round = r}
       IN  worker' = [worker EXCEPT
              ![w].pc = IF hit # {} THEN "weight" ELSE "storeSeed",
              ![w].seed = IF hit # {} THEN lastRoundSeed[CHOOSE i \in hit : TRUE].seed ELSE SeedOf(r),
              ![w].seeds = IF hit # {} THEN << >> ELSE lastRoundSeed]
    /\ UNCHANGED <<phase, unchecked, daemon, caches, data>>

\* The cache becomes the newer round it had when it was loaded, and this one.
StoreSeed(w) ==
    /\ At(w, "storeSeed")
    /\ LET s == worker[w].seeds
           r == seedRound(worker[w].round)
       IN  lastRoundSeed' =
              IF s = << >> \/ r > s[2].round
              THEN <<IF s = << >> THEN NoSeed ELSE s[2], [round |-> r, seed |-> worker[w].seed]>>
              ELSE lastRoundSeed
    /\ worker' = [worker EXCEPT ![w].pc = "weight", ![w].seeds = << >>]
    /\ UNCHANGED <<phase, unchecked, daemon, caches, oldest>>

----------------------------------------------------------------------------
(* Client.Weight and Client.TotalWeight, called by membership.             *)

\* Mutant of Weight: weights are asked for whether the key is valid or not.
WeightUngated(w) ==
    /\ At(w, "weight")
    /\ IF weightKey(w) \in DOMAIN weightCache.items
       THEN /\ weightCache' = Touch(weightCache, weightKey(w))
            /\ worker' = [worker EXCEPT ![w].pc = "total",
                                        ![w].weight = weightCache.items[weightKey(w)]]
       ELSE Go(w, "askWeight") /\ UNCHANGED weightCache
    /\ UNCHANGED <<phase, unchecked, daemon, totalWeightCache, data>>

\* A vote whose key is not valid in its round needs no weight: vote.verify
\* rejects it.
Weight(w) ==
    /\ At(w, "weight")
    /\ IF ~ keyEligible(worker[w].round, worker[w].addr)
       THEN Verdict(w, "malformed") /\ UNCHANGED weightCache
       ELSE IF weightKey(w) \in DOMAIN weightCache.items
       THEN /\ weightCache' = Touch(weightCache, weightKey(w))
            /\ worker' = [worker EXCEPT ![w].pc = "total",
                                        ![w].weight = weightCache.items[weightKey(w)]]
       ELSE Go(w, "askWeight") /\ UNCHANGED weightCache
    /\ UNCHANGED <<phase, unchecked, daemon, totalWeightCache, data>>

WeightAnswered(w) ==
    /\ At(w, "askWeight")
    /\ worker' = [worker EXCEPT ![w].pc = "putWeight",
                                ![w].weight = daemon.weight[<<BalanceRound(worker[w].round), worker[w].addr>>]]
    /\ UNCHANGED <<phase, unchecked, daemon, caches, data>>

\* A timeout, an unreadable answer or an "internal" error: start-up fails, a
\* verification ends with an error.
QueryFailed(w) ==
    /\ At(w, "askWeight") \/ At(w, "askTotal")
    /\ IF w = node
       THEN phase' = "failed" /\ worker' = [worker EXCEPT ![w] = Idle]
       ELSE Verdict(w, "malformed") /\ UNCHANGED phase
    /\ UNCHANGED <<unchecked, daemon, caches, data>>

\* "not_found", "bad_request" or "unsupported", for an account or a round the
\* daemon has no weight of: start-up fails, membership panics.
QueryRefused(w) ==
    /\ \/ At(w, "askWeight") /\ daemon.weight[weightKey(w)] = 0
       \/ At(w, "askTotal") /\ daemon.total[totalKey(w)] = 0
    /\ IF w = node
       THEN phase' = "failed" /\ worker' = [worker EXCEPT ![w] = Idle]
       ELSE phase' = "panic" /\ UNCHANGED worker
    /\ UNCHANGED <<unchecked, daemon, caches, data>>

PutWeight(w) ==
    /\ At(w, "putWeight")
    /\ weightCache' = Put(weightCache, weightKey(w), worker[w].weight, WeightCacheCapacity)
    /\ Go(w, "total")
    /\ UNCHANGED <<phase, unchecked, daemon, totalWeightCache, data>>

TotalWeight(w) ==
    /\ At(w, "total") /\ w # node
    /\ IF totalKey(w) \in DOMAIN totalWeightCache.items
       THEN /\ totalWeightCache' = Touch(totalWeightCache, totalKey(w))
            /\ worker' = [worker EXCEPT ![w].pc = "check",
                                        ![w].total = totalWeightCache.items[totalKey(w)]]
       ELSE Go(w, "askTotal") /\ UNCHANGED totalWeightCache
    /\ UNCHANGED <<phase, unchecked, daemon, weightCache, data>>

TotalAnswered(w) ==
    /\ At(w, "askTotal")
    /\ worker' = [worker EXCEPT ![w].pc = "putTotal",
                                ![w].total = daemon.total[<<BalanceRound(worker[w].round), worker[w].round>>]]
    /\ UNCHANGED <<phase, unchecked, daemon, caches, data>>

PutTotal(w) ==
    /\ At(w, "putTotal")
    /\ totalWeightCache' = Put(totalWeightCache, totalKey(w), worker[w].total, TotalWeightCacheCapacity)
    /\ Go(w, "check")
    /\ UNCHANGED <<phase, unchecked, daemon, weightCache, data>>

\* The end of membership and the credential's check: a weight or total the
\* daemon should never give is a panic.  In between the signature and the VRF
\* proof are checked, and at the end the sortition, which need not select.
Check(w) ==
    /\ At(w, "check")
    /\ \/ /\ worker[w].weight = 0 \/ worker[w].total < worker[w].weight \/ worker[w].total < CommitteeSize
          /\ phase' = "panic" /\ UNCHANGED worker
       \/ /\ worker[w].weight > 0 /\ worker[w].total >= worker[w].weight
          /\ Verdict(w, "malformed") /\ UNCHANGED phase
       \/ /\ worker[w].weight > 0 /\ worker[w].total >= worker[w].weight /\ worker[w].total >= CommitteeSize
          /\ Verdict(w, "verified") /\ UNCHANGED phase
    /\ UNCHANGED <<unchecked, daemon, caches, data>>

\* The ledger moves on and drops a round of agreement data.
DropRound ==
    /\ phase = "running" /\ \E r \in VoteRounds : BalanceRound(r) > oldest
    /\ oldest' = oldest + 1
    /\ UNCHANGED <<phase, unchecked, daemon, caches, lastRoundSeed, worker>>

Next ==
    \/ Ping \/ Identity \/ KeyWeighed \/ StartAgreement \/ DropRound
    \/ \E a \in LocalKeys : ValidateKey(a)
    \/ \E w \in Workers, a \in Accounts, r \in VoteRounds : Verify(w, a, r)
    \/ \E w \in Workers \cup {node} :
          \/ Circulation(w) \/ Seed(w) \/ StoreSeed(w)
          \/ Weight(w) \/ WeightAnswered(w) \/ PutWeight(w)
          \/ TotalWeight(w) \/ TotalAnswered(w) \/ PutTotal(w)
          \/ QueryFailed(w) \/ QueryRefused(w) \/ Check(w)

Spec == Init /\ [][Next]_vars

----------------------------------------------------------------------------
(* Properties.                                                             *)

CacheOK(c, keys) ==
    /\ DOMAIN c.items \subseteq keys /\ c.list \in Seq(keys)
    /\ \A k \in DOMAIN c.items : c.items[k] \in Nat

\* Type invariant, a conjunct of CachesConsistent.
TypeOK ==
    /\ phase \in {"ping", "identity", "keys", "running", "failed", "panic"}
    /\ unchecked \subseteq LocalKeys
    /\ daemon \in Daemons
    /\ CacheOK(weightCache, WeightKeys) /\ CacheOK(totalWeightCache, TotalKeys)
    /\ oldest \in Nat
    /\ \A w \in Workers \cup {node} :
          /\ worker[w].pc \in {"idle", "circulation", "seed", "storeSeed", "weight", "askWeight",
                              "putWeight", "total", "askTotal", "putTotal", "check", "done"}
          /\ worker[w].pc # "idle" =>
                worker[w].addr \in Accounts /\ worker[w].round \in VoteRounds \cup {StartRound}
          /\ worker[w].weight \in Nat /\ worker[w].total \in Nat
          /\ worker[w].verdict \in {"none", "verified", "filtered", "malformed"}

Consistent(c, capacity) ==
    /\ \A i, j \in DOMAIN c.list : c.list[i] = c.list[j] => i = j
    /\ {c.list[i] : i \in DOMAIN c.list} = DOMAIN c.items
    /\ Len(c.list) <= capacity

\* lruCache: the list and the map hold the same keys, each once, and no more
\* than the capacity, although two goroutines that missed the same key both
\* put it.
CachesConsistent ==
    /\ TypeOK
    /\ Consistent(weightCache, WeightCacheCapacity)
    /\ Consistent(totalWeightCache, TotalWeightCacheCapacity)

\* Client: what a cache holds for a key is what the daemon answers for that
\* key; failed queries, evictions and concurrent misses never leave another
\* round's or account's weight behind.
CachesTrue ==
    /\ \A k \in DOMAIN weightCache.items : weightCache.items[k] = daemon.weight[k]
    /\ \A k \in DOMAIN totalWeightCache.items : totalWeightCache.items[k] = daemon.total[k]

\* unauthenticatedVote.verify: a vote that is counted was checked with the seed
\* and the weights of its own round, so every node gives it the same weight.
VerifiedTruly ==
    \A w \in Workers : worker[w].verdict = "verified" =>
        /\ worker[w].seed = SeedOf(seedRound(worker[w].round))
        /\ worker[w].weight = daemon.weight[<<BalanceRound(worker[w].round), worker[w].addr>>]
        /\ worker[w].total = daemon.total[<<BalanceRound(worker[w].round), worker[w].round>>]

\* What membership demands of the daemon for the participants of a round.
Aligned ==
    \A r \in VoteRounds, a \in Accounts : keyEligible(r, a) =>
        /\ daemon.weight[<<BalanceRound(r), a>>] > 0
        /\ daemon.total[<<BalanceRound(r), r>>] >= daemon.weight[<<BalanceRound(r), a>>]
        /\ daemon.total[<<BalanceRound(r), r>>] >= CommitteeSize

\* membership and Credential.Verify: with a daemon that weighs every eligible
\* participant and counts it in the total, no panic is reached, although
\* weight and total are asked for apart and cached apart, and although votes
\* of accounts with expired keys, which the daemon need not weigh, come too.
NoPanic == Aligned => phase # "panic"

\* initializeWeightOracle: a node that votes talks to a daemon of its network
\* and algorithm, and each of its eligible keys has a weight.
StartedSound ==
    phase \in {"running", "panic"} =>
        /\ daemon.identity = Expected
        /\ \A a \in LocalKeys : keyEligible(StartRound, a) =>
              daemon.weight[<<BalanceRound(StartRound), a>>] > 0
=============================================================================
