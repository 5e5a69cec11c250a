----------------------------- MODULE PlayerNode -----------------------------
(***************************************************************************)
(* One node's player (module Player) with its environment: the thresholds  *)
(* the network produces, proposal-votes and payloads in any order, payload *)
(* verification with its cancellations, timeouts, and rounds ended by the  *)
(* ledger.                                                                 *)
(*                                                                         *)
(* The node sees thresholds in any order, as long as some set of quorums   *)
(* that quorum intersection and the voting rules allow contains all of     *)
(* them (Possible; module BAVoting proves those facts of the network).     *)
(***************************************************************************)
EXTENDS Player

CONSTANTS
    ProposalVotes,      \* the proposal-votes sent in a round: [p, s, v], the period,
                        \* the sender and the value
    MaxStep,            \* bound: the last recovery step
    TimelyFast          \* the fast-recovery timer (minutes) fires only after
                        \* the deadline timer (seconds) took the player past cert

\* vote.verify ties an original proposal to its proposer and period, and
\* rejects a value from a later period.
ASSUME ProposalVotesAssumption ==
    \A m \in ProposalVotes : /\ m.p \in Periods /\ m.v \in Values
                             /\ IF m.v.per = m.p THEN m.s = m.v.by ELSE m.v.per < m.p

VARIABLES
    st,         \* the player
    seen,       \* history: the thresholds seen, by round
    verifying,  \* payload verifications in flight: [Round, Key, Proposal]
    votes,      \* history: the attest actions of the node
    ensured,    \* history: the blocks given to the ledger, <<round, value>>
    displaced,  \* history: the values staged in the player's period whose block
                \* a proposal-vote displaced, <<round, period, value>>
    unverified  \* history: the payloads whose verification was cancelled or
                \* failed, <<round, value>>

vars == <<st, seen, verifying, votes, ensured, displaced, unverified>>

----------------------------------------------------------------------------
(* The quorums of one round: for each period the value of the soft quorum, *)
(* whether it has a cert quorum, and the values with a next quorum.        *)

PeriodQuorums == [soft : Values \cup {Bottom}, cert : BOOLEAN,
                  next : SUBSET (Values \cup {Bottom})]

Possible(w) ==
    \A p \in Periods :
       LET x == w[p]
           before == IF p = 0 THEN {Bottom} ELSE w[p - 1].next
       IN  /\ x.soft # Bottom => \/ x.soft \in before
                                 \/ Bottom \in before /\ x.soft.per = p
           /\ x.cert => x.soft # Bottom /\ x.next \subseteq {x.soft}
           /\ x.next \ {Bottom} \subseteq
                 IF x.soft # Bottom THEN {x.soft} ELSE before \ {Bottom}
           /\ Bottom \in x.next => Bottom \in before
           /\ p = MaxPeriod => x.next = {}

Event(T, p, v) == [T |-> T, Period |-> p, Proposal |-> v]

Thresholds(w) ==
    {Event("soft", p, w[p].soft) : p \in {q \in Periods : w[q].soft # Bottom}}
      \cup {Event("cert", p, w[p].soft) : p \in {q \in Periods : w[q].cert}}
      \cup UNION {{Event("next", p, v) : v \in w[p].next} : p \in Periods}

Worlds == {Thresholds(w) : w \in {x \in [Periods -> PeriodQuorums] : Possible(x)}}

Events == UNION Worlds

\* What a node may have seen of them.
Views == UNION {SUBSET w : w \in Worlds}

----------------------------------------------------------------------------

Init ==
    /\ st = InitPlayer
    /\ seen = [r \in Rounds |-> {}]
    /\ verifying = {}
    /\ votes = {}
    /\ ensured = {}
    /\ displaced = {}
    /\ unverified = {}

SameContext(x, y) == x.Round = y.Round /\ x.Key = y.Key

Payloads(X) == {<<x.Round, x.Proposal>> : x \in X}

\* The round the player is in.
Cur == st.rs[st.Round]

Running == ~st.panic /\ st.Round <= MaxRound

\* The values whose blocks are held.
Held(rs) == {v \in DOMAIN rs.Assemblers : rs.Assemblers[v].Assembled}

\* The service performs the actions: votes are cast, blocks go to the ledger,
\* a payload verification cancels the one in the same context, unless that one
\* is done and its result on the way.
Do(out, running) ==
    LET as   == ToSet(out.acts)
        reqs == {[Round |-> a.Round, Key |-> a.Key, Proposal |-> a.Proposal] :
                   a \in {b \in as : b.T = "verifyPayload"}}
    IN  /\ st' = out.st
        /\ votes' = votes \cup {a \in as : a.T = "attest"}
        /\ ensured' = ensured \cup {<<a.Round, a.Proposal>> : a \in {b \in as : b.T = "ensure"}}
        /\ \E done \in SUBSET running :
              /\ {x \in running : \A y \in reqs : ~SameContext(x, y)} \subseteq done
              /\ verifying' = reqs \cup done
              /\ unverified' = unverified \cup Payloads(running \ done)

\* Enough votes, or a bundle, complete a threshold of round r.
Threshold(r, e) ==
    /\ Running
    /\ Fresh(st, r, e)
    /\ e \notin seen[r]
    /\ seen[r] \cup {e} \in Views
    /\ seen' = [seen EXCEPT ![r] = @ \cup {e}]
    /\ Do(threshold(st, r, e), verifying)
    /\ UNCHANGED displaced

Timeout ==
    /\ Running
    /\ st.Step < MaxStep \/ st.Napping
    /\ Do(handleTimeout(st), verifying)
    /\ UNCHANGED <<seen, displaced>>

FastTimeout ==
    /\ Running
    /\ TimelyFast /\ st.FastRecovery => st.Step > cert
    /\ Do(handleFastTimeout(st), verifying)
    /\ UNCHANGED <<seen, displaced>>

\* A verified proposal-vote.
ProposalVote(r, m) ==
    LET out == proposalVote(st, r, m.p, m.s, m.v) IN
    /\ Running
    /\ proposalFresh(st, r, m.p)
    /\ m.s \notin st.rs[r].per[m.p].Duplicate
    /\ Do(Out(out, << >>), verifying)
    /\ displaced' = displaced \cup
          {<<st.Round, st.Period, v>> :
              v \in {Cur.per[st.Period].Staging} \cap (Held(Cur) \ Held(out.rs[st.Round]))}
    /\ UNCHANGED seen

PayloadPresent(r, v) ==
    /\ Running
    /\ r \in {st.Round, st.Round + 1} \cap Rounds
    /\ Do(payloadPresent(st, r, v), verifying)
    /\ UNCHANGED <<seen, displaced>>

\* The verification of a payload ends; one of an earlier round finds no
\* assembler for its value.
PayloadVerified(x) ==
    /\ Running
    /\ Do(IF x.Round = st.Round THEN payloadVerified(st, x.Proposal) ELSE Out(st, << >>),
          verifying \ {x})
    /\ UNCHANGED <<seen, displaced>>

\* It fails, or a cancelled one is reported: the player does nothing.
PayloadRejected(x) ==
    /\ Running
    /\ verifying' = verifying \ {x}
    /\ unverified' = unverified \cup Payloads({x})
    /\ UNCHANGED <<st, seen, votes, ensured, displaced>>

\* A vote or bundle of period p goes to the crypto verifier, which drops the
\* contexts of the periods before p - 2.  A bundle may be of any later period.
StaleContexts(p) ==
    /\ Running
    /\ p + 1 >= st.Period
    /\ verifying' = {x \in verifying : x.Round # st.Round \/ x.Key = PinnedKey \/ x.Key + 3 > p}
    /\ verifying' # verifying
    /\ unverified' = unverified \cup Payloads(verifying \ verifying')
    /\ UNCHANGED <<st, seen, votes, ensured, displaced>>

RoundInterruption(target) ==
    /\ Running
    /\ target > st.Round
    /\ Do(roundInterruption(st, target), verifying)
    /\ UNCHANGED <<seen, displaced>>

Ended == st.Round > MaxRound /\ UNCHANGED vars

Next ==
    \/ \E r \in Rounds : \E e \in Events : Threshold(r, e)
    \/ Timeout
    \/ FastTimeout
    \/ \E r \in Rounds, m \in ProposalVotes : ProposalVote(r, m)
    \/ \E r \in Rounds, v \in Values : PayloadPresent(r, v)
    \/ \E x \in verifying : PayloadVerified(x) \/ PayloadRejected(x)
    \/ \E p \in 0..(MaxPeriod + 3) : StaleContexts(p)
    \/ \E target \in 2..(MaxRound + 1) : RoundInterruption(target)
    \/ Ended

Spec == Init /\ [][Next]_vars

----------------------------------------------------------------------------
(* Properties.                                                             *)

\* Type invariant, a conjunct of FreshestLeadsHere.
TypeOK ==
    /\ st.Round \in 1..(MaxRound + 1)
    /\ st.Period \in Periods
    /\ st.Step \in soft..MaxStep
    /\ st.Napping \in BOOLEAN /\ st.FastRecovery \in BOOLEAN
    /\ \A r \in Rounds : /\ st.rs[r].Pinned \in Values \cup {Bottom}
                         /\ DOMAIN st.rs[r].Relevant \subseteq Periods
                         /\ DOMAIN st.rs[r].Assemblers \subseteq Values

\* The player never attests two values in one step of a period, not even when
\* several fast-recovery timeouts fire in the period (voteTracker would count
\* the node as an equivocator).
OneValuePerStep ==
    \A a, b \in votes :
       (a.Round = b.Round /\ a.Period = b.Period /\ a.Step = b.Step) => a = b

\* The next-thresholds of period p the node has seen.
Status(p) == {e.Proposal : e \in {x \in seen'[st.Round] : x.T = "next" /\ x.Period = p}}
Staged(p, v) == \E e \in seen'[st.Round] : e.T \in {"soft", "cert"} /\ e.Period = p /\ e.Proposal = v

\* Every vote of the player obeys the rules BAVoting gives an honest account
\* (issueSoftVote, issueCertVote, issueNextVote there), read off the thresholds
\* the node has seen: it follows the period before, cert-votes a staged value
\* before any recovery vote of the period, and sticks to a cert-voted value.  The
\* last holds with one exception, although player.go says of a player that has
\* voted for a value that "they have the block": a late proposal-vote of the period
\* before may displace the block of the staged value (storeVote), and the recovery
\* vote then names what the period before ended with.
VotesFollowRules ==
    [][\A x \in votes' \ votes :
         LET p == x.Period
             v == x.Proposal
             before == IF p = 0 THEN {} ELSE Status(p - 1)
             recovered == {y \in votes : y.Round = x.Round /\ y.Period = p /\ y.Step >= next}
             certified == {y \in votes : y.Round = x.Round /\ y.Period = p /\ y.Step = cert}
             kept == {y \in certified : <<x.Round, p, y.Proposal>> \notin displaced}
         IN  CASE x.Step = soft -> /\ recovered = {}
                                   /\ before # {} /\ Bottom \notin before => v \in before
               [] x.Step = cert -> recovered = {} /\ Staged(p, v)
               [] OTHER -> /\ \A y \in kept : y.Proposal = v
                           /\ \/ v # Bottom /\ Staged(p, v)
                              \/ v # Bottom /\ v \in before /\ Bottom \notin before
                              \/ v = Bottom /\ (before # {} => Bottom \in before)]_vars

\* No reachable sequence of events panics the player ("too many assemblers"
\* when a pipelined round starts, a dispatch to a collected period).
NoPanic == ~st.panic

\* The freshest bundle a node keeps is the one that leads a peer to its
\* period, so relaying it resynchronises the peer: partitionPolicy relies on
\* it being there "for p.Period > 0".
FreshestLeadsHere ==
    /\ TypeOK
    /\ st.Round <= MaxRound =>
          LET o == Cur.Freshest
          IN  CASE o.T = "none" -> st.Period = 0
                [] o.T = "soft" -> st.Period = o.Period
                [] o.T = "next" -> st.Period = o.Period + 1
                [] o.T = "cert" -> st.Period >= o.Period

\* While the node waits for the block of a certificate, the payload of the
\* certified value has an assembler (player.go: "We need to ensure we will be able
\* to receive the block") which takes the payload when it comes, whatever
\* proposal-votes and thresholds come late.  It holds a payload already only when
\* that is being verified, or when its verification was cancelled or failed: then it
\* refuses other copies, and the block has to come by catchup.
CertifiedTracked ==
    (st.Round <= MaxRound /\ Cur.Freshest.T = "cert") =>
       LET v == Cur.Freshest.Proposal
       IN  /\ v \in DOMAIN Cur.Assemblers
           /\ Cur.Assemblers[v].Filled => <<st.Round, v>> \in Payloads(verifying) \cup unverified

\* A block given to the ledger is the certified one of its round.
EnsuredCertified ==
    \A x \in ensured : \E e \in seen[x[1]] : e.T = "cert" /\ e.Proposal = x[2]
=============================================================================
