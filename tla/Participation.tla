--------------------------- MODULE Participation ---------------------------
(***************************************************************************)
(* Who stays online: the lists of expired and absent accounts a proposer   *)
(* puts in a block and every node validates (ledger/eval/eval.go), with    *)
(* absence measured by the weights of the oracle; challenges, heartbeats   *)
(* and key registrations (ledger/apply); the heartbeat service that keeps  *)
(* a node's own accounts from being suspended (heartbeat/service.go).      *)
(*                                                                         *)
(* A block is evaluated transaction by transaction; then a node generates  *)
(* and validates its lists and agreement fills in the proposer.  The       *)
(* weight daemon is external: it weighs the accounts that were online in   *)
(* the balance round and no other, and may fail to answer any query.       *)
(* Accounts keep a balance throughout.                                     *)
(***************************************************************************)
EXTENDS Integers, FiniteSets, Functions

CONSTANTS
    Accounts,
    Nodes,
    Local,                \* Local[n]: the accounts whose keys node n holds
    Weight,               \* Weight[a]: the weight of a while it is online
    Lookback,             \* BalanceLookback
    ChallengeInterval, ChallengeGracePeriod,
    AbsenteeismMultiplier,
    MaxMarkAbsent, MaxExpired,
    hbLifetime,
    FirstRound, LastRound,\* bound: the rounds of the run
    InitialRecs,          \* InitialRecs[a]: the record of a after FirstRound
    KeyLasts,             \* the last rounds that new keys are for
    MaxKeyregs,           \* bound: key registrations in the run
    MaxMissed             \* bound: see missed

Record == [Status : {"Online", "Offline"}, VoteID : Nat, VoteLastValid : Nat,
           LastProposed : Nat, LastHeartbeat : Nat, IncentiveEligible : BOOLEAN]

Suspended(rec) == rec.Status = "Offline" /\ rec.VoteID # 0

\* An account is online only with keys, keys have a last round, and an account that
\* was suspended has lost its eligibility.
Coherent(rec) ==
    /\ rec.Status = "Online" => rec.VoteID # 0
    /\ rec.VoteID # 0 => rec.VoteLastValid # 0
    /\ Suspended(rec) => ~rec.IncentiveEligible

ASSUME ParticipationAssumption ==
    /\ IsFiniteSet(Accounts) /\ Local \in [Nodes -> SUBSET Accounts]
    /\ Weight \in [Accounts -> Nat \ {0}]
    /\ Lookback \in Nat \ {0}
    /\ ChallengeGracePeriod \in Nat \ {0} /\ ChallengeInterval \in Nat
    /\ ChallengeInterval >= 2 * ChallengeGracePeriod
    /\ AbsenteeismMultiplier \in Nat \ {0} /\ MaxMarkAbsent \in Nat /\ MaxExpired \in Nat
    /\ hbLifetime \in Nat \ {0}
    /\ FirstRound \in Nat /\ LastRound \in Nat /\ FirstRound >= Lookback /\ LastRound > FirstRound
    /\ KeyLasts \subseteq Nat /\ MaxKeyregs \in Nat /\ MaxMissed \in Nat

ASSUME InitialRecsAssumption ==
    InitialRecs \in [Accounts -> Record] /\ \A a \in Accounts : Coherent(InitialRecs[a])

\* The second half of the grace period, when heartbeats are free, has more blocks than
\* are missed, and a heartbeat does not outlive the challenge it answers.  In the code
\* the lifetime is 10 rounds and the grace period 200.
ASSUME HeartbeatAssumption ==
    /\ MaxMissed + (ChallengeGracePeriod \div 2) + 1 < ChallengeGracePeriod
    /\ hbLifetime <= ChallengeGracePeriod

VARIABLES
    round,      \* the latest round of the ledger
    acct,       \* acct[a]: the record of a after that round
    online,     \* online[r][a]: VoteLastValid of a after round r, 0 if it was offline
    challenged, \* the accounts the seed of the latest challenge round matches
    mods,       \* mods[a]: the record of a in the block under evaluation
    modified,   \* the accounts that the transactions of that block changed
    pool,       \* the heartbeats in the transaction pools
    seen,       \* seen[n]: the latest round the heartbeat service of n looked at
    suppress,   \* suppress[n][a]: no new heartbeat for a until this round
    keyregs,    \* how many keys were registered
    missed,     \* history: the blocks that left out a heartbeat that was there, or
                \* came before a heartbeat service had looked at the block before,
                \* the restarts of a service and the turns in which a broadcast failed
    failed,     \* history: the accounts suspended only because of the challenge
    free,       \* history: free heartbeats applied since the challenge, by account
    registered  \* history: the round in which a last registered online keys, 0 if not
                \* in the run

vars == <<round, acct, online, challenged, mods, modified, pool, seen, suppress,
          keyregs, missed, failed, free, registered>>

BalanceRound(r) == IF r < Lookback THEN 0 ELSE r - Lookback

LastSeen(rec) == IF rec.LastProposed > rec.LastHeartbeat THEN rec.LastProposed ELSE rec.LastHeartbeat

OnlineData(recs) ==
    [a \in Accounts |-> IF recs[a].Status = "Online" THEN recs[a].VoteLastValid ELSE 0]

----------------------------------------------------------------------------
(* Challenges.                                                             *)

LastChallenge(current) == current - (current % ChallengeInterval)

\* FindChallenge: the round of the challenge in the period asked for, 0 if none.
FindChallenge(current, from, to) ==
    IF /\ current >= ChallengeInterval
       /\ current > LastChallenge(current) + from
       /\ current <= LastChallenge(current) + to
    THEN LastChallenge(current) ELSE 0

ChRisky(current) == FindChallenge(current, ChallengeGracePeriod \div 2, ChallengeGracePeriod)
ChActive(current) == FindChallenge(current, ChallengeGracePeriod, 2 * ChallengeGracePeriod)

Failed(ch, a, rec) == ch # 0 /\ a \in challenged /\ LastSeen(rec) < ch

----------------------------------------------------------------------------
(* The daemon: weights of the accounts online in the balance round.        *)

ExternalWeight(b, a) == IF online[b][a] # 0 THEN Weight[a] ELSE 0

TotalExternalWeight(b, r) ==
    SumFunctionOnSet(Weight, {a \in Accounts : online[b][a] >= r})

isAbsentByWeight(total, weight, lastSeen, current) ==
    /\ lastSeen # 0 /\ weight # 0
    /\ lastSeen + ((AbsenteeismMultiplier * total) \div weight) < current

AbsentByWeight(rec, a, r) ==
    isAbsentByWeight(TotalExternalWeight(BalanceRound(r), r),
                     ExternalWeight(BalanceRound(r), a), LastSeen(rec), r)

----------------------------------------------------------------------------
\* The run starts with a history of its own: whom it knows online and seen when.
Init ==
    /\ round = FirstRound
    /\ acct = InitialRecs /\ mods = InitialRecs /\ modified = {}
    /\ online = [r \in BalanceRound(FirstRound + 1) .. FirstRound |-> OnlineData(InitialRecs)]
    /\ challenged \in IF FirstRound % ChallengeInterval = 0 THEN SUBSET Accounts ELSE {{}}
    /\ pool = {}
    /\ seen = [n \in Nodes |-> FirstRound]
    /\ suppress = [n \in Nodes |-> [a \in Accounts |-> 0]]
    /\ keyregs = 0 /\ missed = 0 /\ failed = {}
    /\ free = [a \in Accounts |-> 0]
    /\ registered = [a \in Accounts |-> 0]

----------------------------------------------------------------------------
(* Transactions of the block under evaluation, of round + 1.               *)

\* Mutant of FreeHeartbeat: any account may heartbeat for free in the period.
FreeHeartbeatAlways(recs, a, r) ==
    recs[a].Status = "Online" /\ recs[a].IncentiveEligible /\ ChRisky(r) # 0

FreeHeartbeat(recs, a, r) ==
    /\ recs[a].Status = "Online" /\ recs[a].IncentiveEligible
    /\ Failed(ChRisky(r), a, recs[a])

Applies(recs, hb, r) ==
    /\ hb.FirstValid <= r /\ r <= hb.LastValid
    /\ FreeHeartbeat(recs, hb.addr, r)
    /\ recs[hb.addr].VoteID = hb.VoteID

Heartbeat(hb) ==
    /\ Applies(mods, hb, round + 1)
    /\ mods' = [mods EXCEPT ![hb.addr].LastHeartbeat = round + 1]
    /\ modified' = modified \union {hb.addr}
    /\ pool' = pool \ {hb}
    /\ free' = [free EXCEPT ![hb.addr] = @ + 1]
    /\ UNCHANGED <<round, acct, online, challenged, seen, suppress, keyregs, missed,
                   failed, registered>>

Register(a, rec) ==
    /\ keyregs < MaxKeyregs
    /\ keyregs' = keyregs + 1
    /\ mods' = [mods EXCEPT ![a] = rec]
    /\ modified' = modified \union {a}
    /\ UNCHANGED <<round, acct, online, challenged, pool, seen, suppress, missed,
                   failed, free>>

\* Keyreg of new keys, with or without the fee that makes the account eligible.
KeyregOnline(a, last, fee) ==
    /\ last > round + 1
    /\ Register(a, [mods[a] EXCEPT !.Status = "Online", !.VoteID = keyregs + 2,
                        !.VoteLastValid = last, !.LastHeartbeat = round + 1 + Lookback,
                        !.IncentiveEligible = @ \/ fee])
    /\ registered' = [registered EXCEPT ![a] = round + 1]

KeyregOffline(a) ==
    /\ Register(a, [mods[a] EXCEPT !.Status = "Offline", !.VoteID = 0, !.VoteLastValid = 0])
    /\ UNCHANGED registered

----------------------------------------------------------------------------
(* The lists of a block, over the records after its transactions.          *)

Expirable(rec, r) == rec.VoteID # 0 /\ rec.VoteLastValid < r

Absent(a, rec, r) ==
    /\ rec.Status = "Online" /\ rec.IncentiveEligible
    /\ AbsentByWeight(rec, a, r) \/ Failed(ChActive(r), a, rec)

\* generateKnockOfflineAccountsList: candidates come in any order; an expired
\* one goes on its list as far as there is room, and on that list only.
ExpiredLists(cands, r) ==
    LET expired == {a \in cands : Expirable(mods[a], r)}
    IN  {E \in SUBSET expired : /\ Cardinality(E) <= MaxExpired
                                /\ Cardinality(E) < MaxExpired => E = expired}

\* Mutant of AbsentLists: an account on the expired list is looked at again.
AbsentListsAll(cands, E, r) ==
    {A \in SUBSET {a \in cands : Absent(a, mods[a], r) /\ ExternalWeight(BalanceRound(r), a) # 0} :
        Cardinality(A) <= MaxMarkAbsent}

\* A candidate whose record or weight cannot be fetched is passed over, so any of them
\* may be; one whose weight is fetched and is zero panics the node.
AbsentLists(cands, E, r) ==
    {A \in SUBSET {a \in cands \ E : Absent(a, mods[a], r) /\ ExternalWeight(BalanceRound(r), a) # 0} :
        Cardinality(A) <= MaxMarkAbsent}

\* Mutant of ZeroWeight: accounts that are not eligible are weighed too.
ZeroWeightAll(cands, r) ==
    {a \in cands : mods[a].Status = "Online" /\ ExternalWeight(BalanceRound(r), a) = 0}

\* The candidates whose weight, when it is fetched, panics the node.
ZeroWeight(cands, r) ==
    {a \in cands : /\ mods[a].Status = "Online" /\ mods[a].IncentiveEligible
                   /\ ExternalWeight(BalanceRound(r), a) = 0}

validateExpiredOnlineAccounts(recs, E, r) ==
    /\ Cardinality(E) <= MaxExpired
    /\ \A a \in E : recs[a].VoteID # 0 /\ recs[a].VoteLastValid < r

resetExpiredOnlineAccountsParticipationKeys(recs, E) ==
    [a \in Accounts |-> IF a \in E
        THEN [recs[a] EXCEPT !.Status = "Offline", !.VoteID = 0, !.VoteLastValid = 0]
        ELSE recs[a]]

\* Which queries of a validation are answered: of the online stake, of the total
\* weight, of the records and weights of single accounts.
Answers == [stake : BOOLEAN, total : BOOLEAN, weights : SUBSET Accounts]

\* On the records in which the expired accounts were reset.  The proposer was online in
\* the balance round, so the total weight is not zero while there is online stake.
validateAbsentOnlineAccounts(recs, A, r, up) ==
    /\ Cardinality(A) <= MaxMarkAbsent
    /\ A # {} => up.stake
    /\ up.total
    /\ \A a \in A : /\ a \in up.weights
                    /\ ExternalWeight(BalanceRound(r), a) # 0
                    /\ Absent(a, recs[a], r)

suspendAbsentAccounts(recs, A) ==
    [a \in Accounts |-> IF a \in A
        THEN [recs[a] EXCEPT !.Status = "Offline", !.IncentiveEligible = FALSE]
        ELSE recs[a]]

recordProposal(recs, p, r) ==
    [recs EXCEPT ![p].LastProposed = r,
                 ![p].Status = IF Suspended(recs[p]) THEN "Online" ELSE @]

----------------------------------------------------------------------------
(* The end of a block: node n generates it for round r, p proposes it.     *)

\* The accounts GetKnockOfflineCandidates returns: none when it fails.
Tops == {{}, {a \in Accounts : acct[a].Status = "Online"}}

\* The candidates node n looks at: nobody when the online stake or the total weight
\* cannot be fetched, and never its own accounts.
CandidateSets(n) == {{}} \union {(tops \union modified) \ Local[n] : tops \in Tops}

\* The checks of endOfBlock, in its order.
Valid(E, A, r, up) ==
    /\ validateExpiredOnlineAccounts(mods, E, r)
    /\ validateAbsentOnlineAccounts(resetExpiredOnlineAccountsParticipationKeys(mods, E), A, r, up)

AllAnswered == [stake |-> TRUE, total |-> TRUE, weights |-> Accounts]

Updated(E, A) == suspendAbsentAccounts(resetExpiredOnlineAccountsParticipationKeys(mods, E), A)

\* A missed block: bounded so that the heartbeats have their chance.
Misses ==
    \/ \E hb \in pool : Applies(mods, hb, round + 1)
    \/ \E n \in Nodes : seen[n] # round

\* Whether a is suspended although the node that holds its keys can use them.
SuspendedByChallenge(a, r) ==
    /\ ~AbsentByWeight(mods[a], a, r)
    /\ mods[a].VoteLastValid >= r + hbLifetime
    /\ \E n \in Nodes : a \in Local[n]

\* The records recs end the block of round r.
NewBlock(recs, A, r) ==
    /\ round' = r
    /\ acct' = recs /\ mods' = recs /\ modified' = {}
    /\ online' = [b \in BalanceRound(r + 1) .. r |-> IF b = r THEN OnlineData(recs) ELSE online[b]]
    /\ challenged' \in IF r % ChallengeInterval = 0 THEN SUBSET Accounts ELSE {challenged}
    /\ free' = IF r % ChallengeInterval = 0 THEN [a \in Accounts |-> 0] ELSE free
    /\ pool' = {hb \in pool : hb.LastValid > r}
    /\ missed' = missed + (IF Misses THEN 1 ELSE 0)
    /\ failed' = failed \union {a \in A : SuspendedByChallenge(a, r)}
    /\ UNCHANGED <<seen, suppress, keyregs, registered>>

\* A block gets agreed on when enough nodes, whose queries are answered, validate it.
EndOfBlock(cands, p) ==
    /\ round < LastRound
    /\ online[BalanceRound(round + 1)][p] > round
    /\ Misses => missed < MaxMissed
    /\ \E E \in ExpiredLists(cands, round + 1) : \E A \in AbsentLists(cands, E, round + 1) :
          /\ Valid(E, A, round + 1, AllAnswered)
          /\ NewBlock(recordProposal(Updated(E, A), p, round + 1), A, round + 1)

----------------------------------------------------------------------------
(* The heartbeat service.                                                  *)

\* A heartbeat is signed for its last round, so the keys have to reach it.
findChallenged(n) ==
    {a \in Local[n] : /\ FreeHeartbeat(acct, a, round)
                      /\ acct[a].VoteLastValid >= round + hbLifetime}

\* Mutant of Unsuppressed: no second heartbeat in the same challenge.
UnsuppressedOnce(n) == {a \in findChallenged(n) : suppress[n][a] = 0}

Unsuppressed(n) == {a \in findChallenged(n) : suppress[n][a] <= round}

prepareHeartbeat(a) ==
    [addr |-> a, VoteID |-> acct[a].VoteID, FirstValid |-> round, LastValid |-> round + hbLifetime]

\* One turn of the loop, for the latest round: rounds it slept through are skipped.
\* The broadcast succeeds for the accounts sent.  A heartbeat that is not sent may be
\* one that the pending block makes needless, which the pool refuses; any other is a miss.
Loop(n, sent) ==
    LET lost == \E a \in Unsuppressed(n) \ sent : Applies(mods, prepareHeartbeat(a), round + 1)
    IN  /\ seen[n] < round
        /\ lost => missed < MaxMissed
        /\ missed' = missed + (IF lost THEN 1 ELSE 0)
        /\ seen' = [seen EXCEPT ![n] = round]
        /\ pool' = pool \union {prepareHeartbeat(a) : a \in sent}
        /\ suppress' = [suppress EXCEPT ![n] =
                          [a \in Accounts |-> IF a \in sent THEN round + hbLifetime ELSE @[a]]]
        /\ UNCHANGED <<round, acct, online, challenged, mods, modified, keyregs, failed,
                       free, registered>>

\* The node restarts: the service forgets what it sent and waits for the next round.
\* That may cost it a round, so it counts as a miss.
Start(n) ==
    /\ missed < MaxMissed
    /\ missed' = missed + 1
    /\ seen' = [seen EXCEPT ![n] = round]
    /\ suppress' = [suppress EXCEPT ![n] = [a \in Accounts |-> 0]]
    /\ UNCHANGED <<round, acct, online, challenged, mods, modified, pool, keyregs, failed,
                   free, registered>>

----------------------------------------------------------------------------
Next ==
    \/ \E hb \in pool : Heartbeat(hb)
    \/ \E a \in Accounts, last \in KeyLasts, fee \in BOOLEAN : KeyregOnline(a, last, fee)
    \/ \E a \in Accounts : KeyregOffline(a)
    \/ \E n \in Nodes : \E cands \in CandidateSets(n), p \in Local[n] : EndOfBlock(cands, p)
    \/ \E n \in Nodes : \E sent \in SUBSET Unsuppressed(n) : Loop(n, sent)
    \/ \E n \in Nodes : Start(n)

Spec == Init /\ [][Next]_vars

----------------------------------------------------------------------------
(* Properties.                                                             *)

\* Type invariant, a conjunct of GeneratedValid: records have their fields; an account
\* is online only with keys; the snapshots reach from the next balance round to the latest.
TypeOK ==
    /\ round \in FirstRound .. LastRound
    /\ \A a \in Accounts : acct[a] \in Record /\ mods[a] \in Record
    /\ \A a \in Accounts : mods[a].Status = "Online" => mods[a].VoteID # 0
    /\ DOMAIN online = BalanceRound(round + 1) .. round
    /\ online[round] = OnlineData(acct)
    /\ challenged \subseteq Accounts /\ modified \subseteq Accounts /\ failed \subseteq Accounts
    /\ \A hb \in pool : hb.addr \in Accounts /\ hb.FirstValid <= round

\* The queries that validating the list A needs are answered.
Granted(A, up) == up.total /\ (A # {} => up.stake /\ A \subseteq up.weights)

\* The lists a node generates at the end of a block pass the checks that endOfBlock, on
\* it and on every other node, makes of them, unless a query that the validation makes
\* anew is not answered: the total weight, asked for even when the list is empty, the
\* online stake and the weight of a listed account.  Nothing else makes endOfBlock fail
\* on a generated block.
GeneratedValid ==
    /\ TypeOK
    /\ \A n \in Nodes : \A cands \in CandidateSets(n) : \A E \in ExpiredLists(cands, round + 1) :
          \A A \in AbsentLists(cands, E, round + 1), up \in Answers :
             Valid(E, A, round + 1, up) <=> Granted(A, up)

\* The panic on a zero weight is reached for one kind of account only: a candidate that
\* registered its keys after the balance round of the block, and so had no weight there.
\* No suspension, expiry or return by a proposal leads to it: an account that may be
\* suspended and registered no later than the balance round has a weight in it.
SettledWeighed ==
    \A n \in Nodes : \A cands \in CandidateSets(n) : \A E \in ExpiredLists(cands, round + 1) :
       MaxMarkAbsent > 0 =>
          \A a \in ZeroWeight(cands \ E, round + 1) : registered[a] > BalanceRound(round + 1)

\* While at most MaxMissed blocks, restarts or failed broadcasts cost a heartbeat, the
\* heartbeat service keeps every account it holds the keys of from being suspended
\* because of the challenge.
HeartbeatsSuffice == failed = {}

\* An account heartbeats for free at most once for a challenge, even when a service
\* that forgot what it sent sends another while the first is still pending.
OneFreeHeartbeat == \A a \in Accounts : free[a] <= 1

=============================================================================
