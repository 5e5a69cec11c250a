---------------------------- MODULE VoteTracker ----------------------------
(***************************************************************************)
(* The voteTracker of one (round, period, step): it counts verified votes  *)
(* by weight, counts the weight of an equivocator for every value, and     *)
(* emits a threshold event, with the bundle that proves it, when some      *)
(* value reaches the quorum of the step (agreement/voteTracker.go).  Votes *)
(* arrive one at a time, or inside a verified bundle whose votes the       *)
(* voteAggregator replays one at a time.                                   *)
(*                                                                         *)
(* handle is a function of the tracker and the vote, so that a bundle is   *)
(* replayed by applying it to one vote after the other.                    *)
(***************************************************************************)
EXTENDS Integers, FiniteSets, Sequences, Functions

CONSTANTS
    Senders,    \* addresses, as integers: genBundle orders by address
    Values,     \* proposal-values, bottom among them
    Weight,     \* the sortition weight of a sender's credential for the step
    Quorum,     \* step.threshold(proto)
    Faulty,     \* the senders that may vote for more than one value
    NoValue     \* not a value

TotalWeight == [S \in SUBSET Senders |-> SumFunctionOnSet(Weight, S)]
WeightOf(S) == TotalWeight[S]

ASSUME SendersAssumption == IsFiniteSet(Senders) /\ Senders \subseteq Int
ASSUME WeightAssumption == Weight \in [Senders -> Nat \ {0}]
ASSUME QuorumAssumption == Quorum \in Nat \ {0}
ASSUME NoValueAssumption == NoValue \notin Values

\* "Algorand safety assumptions on the equivocation of votes"
\* (voteTrackerContract.go): two quorums share the weight of a sender that
\* does not equivocate.
ASSUME EquivocationAssumption ==
    /\ Faulty \subseteq Senders
    /\ WeightOf(Senders) + WeightOf(Faulty) < 2 * Quorum

VARIABLES
    tracker,    \* the voteTracker
    panicked,   \* log.Panicf was called: the process has stopped
    seen,       \* history: the votes handled so far
    emitted,    \* history: the threshold events returned so far
    bundleFor   \* history: the value of the last bundle replayed, or NoValue

vars == <<tracker, panicked, seen, emitted, bundleFor>>

----------------------------------------------------------------------------
(* The tracker and its helpers.                                            *)

EmptyTracker == [Voters            |-> << >>,  \* sender -> value
                 Counts            |-> << >>,  \* value -> [Count, Votes]
                 Equivocators      |-> << >>,  \* sender -> pair of values
                 EquivocatorsCount |-> 0]

\* The map f after f[x] = y, and after delete(f, x).
Put(f, x, y) == [z \in DOMAIN f \cup {x} |-> IF z = x THEN y ELSE f[z]]
Without(f, x) == Restrict(f, DOMAIN f \ {x})

reachesQuorum(weight) == weight >= Quorum

count(t, v) == t.Counts[v].Count + t.EquivocatorsCount

\* The values overThreshold finds; it panics when there are two.
overThreshold(t) == {v \in DOMAIN t.Counts : reachesQuorum(count(t, v))}

None == [T |-> "none"]

\* Heavier first, then the greater address.
Before(s, r) == Weight[s] > Weight[r] \/ (Weight[s] = Weight[r] /\ s > r)

\* The senders of S, in this order, until the quorum is reached on top of the
\* weight already packed.
Pack(S, packed) ==
    {s \in S : ~reachesQuorum(packed + WeightOf({r \in S : Before(r, s)}))}

\* Mutant of genBundle: the pairs of equivocating votes are left out.
genBundleWithoutPairs(t, v) ==
    [Proposal |-> v, Votes |-> Pack(t.Counts[v].Votes, 0), EquivocationVotes |-> << >>]

BundleOf(t, v, votes) ==
    [Proposal          |-> v,
     Votes             |-> votes,
     EquivocationVotes |-> Restrict(t.Equivocators,
                                    Pack(DOMAIN t.Equivocators, WeightOf(votes)))]

genBundle(t, v) == BundleOf(t, v, Pack(t.Counts[v].Votes, 0))

\* makeBundle panics on an empty or insufficient set of votes.
makeBundlePanics(b) ==
    \/ b.Votes = {}
    \/ ~reachesQuorum(WeightOf(b.Votes) + WeightOf(DOMAIN b.EquivocationVotes))

----------------------------------------------------------------------------
(* handle, for voteAccepted.                                               *)

Result(t, event, panic) == [tracker |-> t, event |-> event, panic |-> panic]

\* The threshold event for the value of bundle b.
Threshold(t, b) ==
    Result(t, [T |-> "threshold", Proposal |-> b.Proposal, Bundle |-> b], makeBundlePanics(b))

\* The event, given the values over the threshold before and after the vote.
EmitOver(over0, over, t) ==
    IF Cardinality(over0) > 1 \/ Cardinality(over) > 1 THEN Result(t, None, TRUE)
    ELSE IF over0 # {} \/ over = {} THEN Result(t, None, FALSE)
    ELSE Threshold(t, genBundle(t, CHOOSE v \in over : TRUE))

\* Mutant of Emit: the event is emitted at every vote over the threshold.
EmitAgain(t0, t) == EmitOver({}, overThreshold(t), t)

\* The event after a vote took the tracker from t0 to t.
Emit(t0, t) == EmitOver(overThreshold(t0), overThreshold(t), t)

FirstVote(t, s, v) ==
    LET old == IF v \in DOMAIN t.Counts THEN t.Counts[v]
                                        ELSE [Count |-> 0, Votes |-> {}]
        new == [Count |-> old.Count + Weight[s], Votes |-> old.Votes \cup {s}]
        t1  == [Voters            |-> Put(t.Voters, s, v),
                Counts            |-> Put(t.Counts, v, new),
                Equivocators      |-> t.Equivocators,
                EquivocatorsCount |-> t.EquivocatorsCount]
    IN  Emit(t, t1)

\* Mutant of Equivocate: the equivocator's vote stays in the count of its first
\* value.
EquivocateKeepsOldCount(t, s, v) ==
    LET t1 == [t EXCEPT !.Voters = Without(@, s),
                        !.Equivocators = Put(@, s, <<t.Voters[s], v>>),
                        !.EquivocatorsCount = @ + Weight[s]]
    IN  Emit(t, t1)

\* The sender's second value: its weight moves from the value it voted for to
\* the weight that counts for every value.
Equivocate(t, s, v) ==
    LET old == t.Voters[s]
        c   == t.Counts[old]
        t1  == [Voters       |-> Without(t.Voters, s),
                Counts       |-> IF c.Count <= Weight[s]
                                 THEN Without(t.Counts, old)
                                 ELSE Put(t.Counts, old, [Count |-> c.Count - Weight[s],
                                                          Votes |-> c.Votes \ {s}]),
                Equivocators |-> Put(t.Equivocators, s, <<old, v>>),
                EquivocatorsCount |-> t.EquivocatorsCount + Weight[s]]
    IN  IF reachesQuorum(t1.EquivocatorsCount) THEN Result(t1, None, TRUE)
        ELSE IF t1.Voters = << >> THEN Result(t1, None, FALSE)
        ELSE Emit(t, t1)

handle(t, s, v) ==
    IF s \in DOMAIN t.Equivocators THEN Result(t, None, FALSE)
    ELSE IF s \notin DOMAIN t.Voters THEN FirstVote(t, s, v)
    ELSE IF t.Voters[s] = v THEN Result(t, None, FALSE)
    ELSE Equivocate(t, s, v)

\* Mutant of voteFilter: any sender seen before is filtered.
voteFilterBySender(t, s, v) == s \in DOMAIN t.Voters \/ s \in DOMAIN t.Equivocators

\* voteFilterRequest: TRUE when the vote is dropped before verification.
voteFilter(t, s, v) ==
    \/ s \in DOMAIN t.Equivocators
    \/ s \in DOMAIN t.Voters /\ t.Voters[s] = v

\* The votes of the senders o for the values f gives them, and both votes of
\* every pair eq gives them.
Along(o, f) == [i \in 1..Len(o) |-> <<o[i], f[o[i]]>>]
PairsAlong(o, eq) ==
    [i \in 1..(2 * Len(o)) |-> <<o[(i + 1) \div 2], eq[o[(i + 1) \div 2]][2 - (i % 2)]>>]

\* In the code the order is that of a Go map, or of the bundle; here, some order.
InSomeOrder(S) == CHOOSE o \in Injection(1..Cardinality(S), S) : TRUE
VotesOf(f) == Along(InSomeOrder(DOMAIN f), f)
PairsOf(eq) == PairsAlong(InSomeOrder(DOMAIN eq), eq)

\* Mutant of dumpVotes: only the first vote of an equivocator is relayed.
dumpVotesFirstOnly(t) ==
    VotesOf(t.Voters) \o VotesOf([s \in DOMAIN t.Equivocators |-> t.Equivocators[s][1]])

\* dumpVotesRequest, as the sequence of votes a partitioned player relays.
dumpVotes(t) == VotesOf(t.Voters) \o PairsOf(t.Equivocators)

----------------------------------------------------------------------------
(* Replaying votes, and the actions.                                       *)

\* What is left of acc after one more result r.
After(acc, r) ==
    IF acc.panic THEN acc
    ELSE [tracker |-> r.tracker,
          events  |-> IF r.event = None THEN acc.events ELSE Append(acc.events, r.event),
          panic   |-> r.panic]

Take(acc, vote) == After(acc, handle(acc.tracker, vote[1], vote[2]))

Replay(t, votes) ==
    LET acc[n \in 0..Len(votes)] ==
            IF n = 0 THEN [tracker |-> t, events |-> << >>, panic |-> FALSE]
                     ELSE Take(acc[n - 1], votes[n])
    IN  acc[Len(votes)]

Becomes(r) ==
    /\ tracker' = r.tracker
    /\ emitted' = emitted \o r.events
    /\ panicked' = r.panic

Handle(votes) == Becomes(Replay(tracker, votes)) /\ seen' = seen \cup Range(votes)

\* A vote the sender may have cast: only a faulty sender casts two.
MayCast(s, v) == s \in Faulty \/ \A w \in Values : <<s, w>> \in seen => w = v

Init ==
    /\ tracker = EmptyTracker
    /\ panicked = FALSE
    /\ seen = {}
    /\ emitted = << >>
    /\ bundleFor = NoValue

\* voteVerified: filterVote drops what voteFilter reports, the rest reaches
\* the tracker as voteAccepted.
VoteVerified(s, v) ==
    /\ ~panicked
    /\ MayCast(s, v)
    /\ IF voteFilter(tracker, s, v)
       THEN UNCHANGED vars
       ELSE Handle(<<<<s, v>>>>) /\ UNCHANGED bundleFor

\* unauthenticatedBundle.verify: no more votes than the threshold, distinct
\* senders, enough weight (votes by S, pairs by E).
validBundle(S, E) ==
    /\ Cardinality(S) + Cardinality(E) <= Quorum
    /\ S \cap E = {}
    /\ reachesQuorum(WeightOf(S) + WeightOf(E))

\* Mutant of BundleVerified: the equivocation pairs are not replayed.
BundleVerifiedVotesOnly(S, eq, v) ==
    /\ ~panicked
    /\ \A s \in S : MayCast(s, v)
    /\ Handle(VotesOf([s \in S |-> v]))
    /\ bundleFor' = v

\* bundleVerified: the votes of the bundle, then both votes of every pair, go
\* to the tracker unfiltered.
BundleVerified(S, eq, v) ==
    /\ ~panicked
    /\ \A s \in S : MayCast(s, v)
    /\ Handle(VotesOf([s \in S |-> v]) \o PairsOf(eq))
    /\ bundleFor' = v

Pairs == {vw \in Values \X Values : vw[1] # vw[2]}

Next ==
    \/ \E s \in Senders, v \in Values : VoteVerified(s, v)
    \/ \E S \in SUBSET Senders, E \in SUBSET Faulty :
          /\ validBundle(S, E)
          /\ \E v \in Values, eq \in [E -> Pairs] : BundleVerified(S, eq, v)

Spec == Init /\ [][Next]_vars

----------------------------------------------------------------------------
(* Properties.                                                             *)

SeenOf(s) == {v \in Values : <<s, v>> \in seen}
Plain(v) == {s \in Senders : SeenOf(s) = {v}}
Equivocating == {s \in Senders : \E v, w \in SeenOf(s) : v # w}

\* Type invariant, a conjunct of CountsMatchVotes: the maps of the tracker have the
\* shape their Go types give.
TypeOK ==
    /\ panicked \in BOOLEAN
    /\ seen \subseteq Senders \X Values
    /\ bundleFor \in Values \cup {NoValue}
    /\ DOMAIN tracker.Voters \subseteq Senders
    /\ DOMAIN tracker.Equivocators \subseteq Senders
    /\ DOMAIN tracker.Counts \subseteq Values
    /\ tracker.EquivocatorsCount \in Nat

\* The incremental bookkeeping (Counts, Voters, Equivocators and the weight
\* moved between them when a sender equivocates) is the count one would
\* compute from the set of votes handled, whatever their order: a value has an
\* entry exactly when a sender voted for it alone.
CountsMatchVotes ==
    /\ TypeOK
    /\ DOMAIN tracker.Counts = {v \in Values : Plain(v) # {}}
    /\ \A v \in DOMAIN tracker.Counts :
          tracker.Counts[v] = [Count |-> WeightOf(Plain(v)), Votes |-> Plain(v)]
    /\ DOMAIN tracker.Voters = UNION {Plain(v) : v \in Values}
    /\ DOMAIN tracker.Equivocators = Equivocating
    /\ tracker.EquivocatorsCount = WeightOf(Equivocating)

\* The threshold event is emitted exactly once when a value with a plain vote
\* has a quorum (plain votes and equivocators together), for that value, and
\* never otherwise: no order of votes loses it or repeats it
\* (voteTrackerContract.go: "it will be emitted at most once").
ThresholdExactlyOnce ==
    LET reached == {v \in Values :
                      Plain(v) # {} /\ reachesQuorum(WeightOf(Plain(v) \cup Equivocating))}
    IN  /\ Len(emitted) = Cardinality(reached)
        /\ \A i \in 1..Len(emitted) : emitted[i].Proposal \in reached

\* The bundle of a threshold event passes unauthenticatedBundle.verify and
\* contains only votes that were received ("e.T != none if and only if
\* e.Bundle contains a valid bundle for e.Proposal").  Making it reaches none of the
\* four panics of the tracker: too many equivocators, two values over the threshold, a
\* bundle without votes, a bundle without quorum.
BundleProvesThreshold ==
    /\ ~panicked
    /\ \A i \in 1..Len(emitted) :
          LET b == emitted[i].Bundle
          IN  /\ b.Proposal = emitted[i].Proposal
              /\ validBundle(b.Votes, DOMAIN b.EquivocationVotes)
              /\ \A s \in b.Votes : <<s, b.Proposal>> \in seen
              /\ \A s \in DOMAIN b.EquivocationVotes :
                    /\ b.EquivocationVotes[s] \in Pairs
                    /\ \A i2 \in 1..2 : <<s, b.EquivocationVotes[s][i2]>> \in seen

\* A verified bundle convinces every receiver: whatever votes the tracker held
\* before, after the replay its threshold event for the value of the bundle
\* has been emitted (voteAggregator: "Play all votes so that we don't
\* accidentally stop partway through an equivocation vote").
BundleConvinces ==
    bundleFor # NoValue => \E i \in 1..Len(emitted) : emitted[i].Proposal = bundleFor

Rebuilds(r) ==
    /\ ~r.panic
    /\ r.tracker.Counts = tracker.Counts
    /\ r.tracker.EquivocatorsCount = tracker.EquivocatorsCount
    /\ [i \in 1..Len(r.events) |-> r.events[i].Proposal]
         = [i \in 1..Len(emitted) |-> emitted[i].Proposal]

\* What a partitioned player relays of a step (dumpVotesRequest) is enough for
\* a fresh tracker to reach the same counts and the same threshold.
DumpRebuilds == Rebuilds(Replay(EmptyTracker, dumpVotes(tracker)))

\* The filter in front of the tracker drops exactly the votes that would leave
\* it unchanged, so it saves verifications and never loses a vote.
FilterDropsOnlyDuplicates ==
    \A s \in Senders, v \in Values :
       MayCast(s, v) =>
          (voteFilter(tracker, s, v) <=> handle(tracker, s, v).tracker = tracker)
============================================================================
