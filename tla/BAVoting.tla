------------------------------ MODULE BAVoting ------------------------------
(***************************************************************************)
(* The votes of the honest accounts in one round of BA agreement, as the   *)
(* rules of agreement/player.go allow them, whatever the order in which    *)
(* messages arrive.  A node learns of a quorum at any time after it        *)
(* exists; payloads, timers and the contents of the network are left to    *)
(* module Player.                                                          *)
(*                                                                         *)
(* A quorum of honest accounts is a set of them that reaches the threshold *)
(* of a step together with the weight of every faulty account, since a     *)
(* faulty account may vote for every value (voteTracker counts an          *)
(* equivocator for all of them).                                           *)
(*                                                                         *)
(* Two facts about a node are assumed here, and examined in PlayerNode:    *)
(* it votes for recovery only after its cert step is over (the fast-       *)
(* recovery timer is minutes, the deadline seconds), and it keeps the      *)
(* block of a value it cert-voted, so its recovery votes name that value.  *)
(***************************************************************************)
EXTENDS Integers

CONSTANTS
    Honest,      \* the honest accounts
    Values,      \* proposal-values
    Bottom,      \* the bottom proposal-value
    Quorums,     \* the quorums of honest accounts
    MaxPeriod    \* bound: periods 0..MaxPeriod

ASSUME BottomAssumption == Bottom \notin Values
ASSUME MaxPeriodAssumption == MaxPeriod \in Nat
ASSUME QuorumAssumption ==
    /\ Quorums \subseteq SUBSET Honest
    /\ \A Q, R \in Quorums : Q \cap R # {}

VARIABLES
    period,     \* period[n]: the player's period
    softVote,   \* softVote[n][p]: the soft-vote of n in period p, or Bottom
    certVote,   \* certVote[n][p]: the cert-vote of n in period p, or Bottom
    nextVotes,  \* nextVotes[n][p]: the values n next-voted in period p
    status,     \* status[n][p]: the next-thresholds of period p that n saw
    basis       \* basis[n][p]: history, what the soft-vote of n in p rested on:
                \* "value" when n had seen that value end period p - 1, "bottom"
                \* when it had seen bottom end it, "free" when neither

vars == <<period, softVote, certVote, nextVotes, status, basis>>

Periods == 0..MaxPeriod
AnyValue == Values \cup {Bottom}

\* The honest accounts of a quorum voted for v in a step of period p, so that
\* the threshold event and its bundle can exist.
softThreshold(p, v) == \E Q \in Quorums : \A n \in Q : softVote[n][p] = v
certThreshold(p, v) == \E Q \in Quorums : \A n \in Q : certVote[n][p] = v
nextThreshold(p, v) == \E Q \in Quorums : \A n \in Q : v \in nextVotes[n][p]

\* nextThresholdStatus of the period before p; nothing precedes period 0.
Before(n, p) == IF p = 0 THEN {} ELSE status[n][p - 1]

Init ==
    /\ period = [n \in Honest |-> 0]
    /\ softVote = [n \in Honest |-> [p \in Periods |-> Bottom]]
    /\ certVote = [n \in Honest |-> [p \in Periods |-> Bottom]]
    /\ nextVotes = [n \in Honest |-> [p \in Periods |-> {}]]
    /\ status = [n \in Honest |-> [p \in Periods |-> {}]]
    /\ basis = [n \in Honest |-> [p \in Periods |-> "none"]]

----------------------------------------------------------------------------

\* voteTrackerPeriod caches a next-threshold.
ObserveNext(n, p, v) ==
    /\ nextThreshold(p, v)
    /\ v \notin status[n][p]
    /\ status' = [status EXCEPT ![n][p] = @ \cup {v}]
    /\ UNCHANGED <<period, softVote, certVote, nextVotes, basis>>

\* A soft- or cert-threshold of period q, or a next-threshold of the period
\* before, takes the player to q.
EnterPeriod(n, q) ==
    /\ q > period[n]
    /\ \/ status[n][q - 1] # {}
       \/ \E v \in Values : softThreshold(q, v) \/ certThreshold(q, v)
    /\ period' = [period EXCEPT ![n] = q]
    /\ UNCHANGED <<softVote, certVote, nextVotes, status, basis>>

\* Mutant of issueSoftVote: the value the period before ended with is ignored.
issueSoftVoteAny(n, v) ==
    /\ softVote[n][period[n]] = Bottom /\ nextVotes[n][period[n]] = {}
    /\ softVote' = [softVote EXCEPT ![n][period[n]] = v]
    /\ UNCHANGED <<period, certVote, nextVotes, status, basis>>

\* The value the period must start with, when the player knows one.
issueSoftVote(n, v) ==
    LET p == period[n] IN
    /\ softVote[n][p] = Bottom
    /\ nextVotes[n][p] = {}
    /\ Before(n, p) # {} /\ Bottom \notin Before(n, p) => v \in Before(n, p)
    /\ softVote' = [softVote EXCEPT ![n][p] = v]
    /\ basis' = [basis EXCEPT ![n][p] =
                    IF v \in Before(n, p) THEN "value"
                    ELSE IF Bottom \in Before(n, p) THEN "bottom" ELSE "free"]
    /\ UNCHANGED <<period, certVote, nextVotes, status>>

\* The staged value is committable and the cert step is not over.
issueCertVote(n, v) ==
    LET p == period[n] IN
    /\ softThreshold(p, v) \/ certThreshold(p, v)
    /\ certVote[n][p] = Bottom
    /\ nextVotes[n][p] = {}
    /\ certVote' = [certVote EXCEPT ![n][p] = v]
    /\ UNCHANGED <<period, softVote, nextVotes, status, basis>>

\* What a recovery vote of n may name: the staged value, the value the period
\* before ended with, or bottom.
Recoverable(n, p, v) ==
    \/ v \in Values /\ (softThreshold(p, v) \/ certThreshold(p, v))
    \/ v \in Values /\ v \in Before(n, p) /\ Bottom \notin Before(n, p)
    \/ v = Bottom /\ (Before(n, p) # {} => Bottom \in Before(n, p))

\* Mutant of issueNextVote: the cert-voted value is forgotten.
issueNextVoteForgets(n, v) ==
    /\ Recoverable(n, period[n], v)
    /\ nextVotes' = [nextVotes EXCEPT ![n][period[n]] = @ \cup {v}]
    /\ UNCHANGED <<period, softVote, certVote, status, basis>>

\* issueNextVote and issueFastVote.
issueNextVote(n, v) ==
    LET p == period[n] IN
    /\ Recoverable(n, p, v)
    /\ certVote[n][p] # Bottom => v = certVote[n][p]
    /\ nextVotes' = [nextVotes EXCEPT ![n][p] = @ \cup {v}]
    /\ UNCHANGED <<period, softVote, certVote, status, basis>>

Next ==
    \E n \in Honest :
       \/ \E p \in Periods, v \in AnyValue : ObserveNext(n, p, v)
       \/ \E q \in Periods : EnterPeriod(n, q)
       \/ \E v \in Values : issueSoftVote(n, v)
       \/ \E v \in Values : issueCertVote(n, v)
       \/ \E v \in AnyValue : issueNextVote(n, v)

Spec == Init /\ [][Next]_vars

----------------------------------------------------------------------------
(* Properties.                                                             *)

\* Type invariant.
TypeOK ==
    /\ period \in [Honest -> Periods]
    /\ softVote \in [Honest -> [Periods -> AnyValue]]
    /\ certVote \in [Honest -> [Periods -> AnyValue]]
    /\ nextVotes \in [Honest -> [Periods -> SUBSET AnyValue]]
    /\ status \in [Honest -> [Periods -> SUBSET AnyValue]]
    /\ basis \in [Honest -> [Periods -> {"none", "value", "bottom", "free"}]]

\* Two certificates of the round, of whatever periods, are for one value: a
\* node that committed in an early period and the nodes that recovered into a
\* later one never commit different blocks.
Agreement ==
    \A p, q \in Periods : \A v, w \in Values :
       certThreshold(p, v) /\ certThreshold(q, w) => v = w

\* At most one value other than bottom ends a period, so the single
\* Cached.Proposal of voteTrackerPeriod loses nothing, and a value with a
\* soft-threshold is the only one.
OneNextValue ==
    \A p \in Periods : \A v, w \in Values :
       nextThreshold(p, v) /\ (nextThreshold(p, w) \/ softThreshold(p, w)) => v = w

\* Bottom ends a period only if it ended every period before: a period that
\* must start with a value never lets go of that value.
BottomFromStart ==
    \A p \in Periods :
       p > 0 /\ nextThreshold(p, Bottom) => nextThreshold(p - 1, Bottom)

\* The set of certified values behaves as module Certification says.
Abstract == INSTANCE Certification
               WITH certified <- {v \in Values : \E p \in Periods : certThreshold(p, v)}
Certifies == Abstract!Spec

----------------------------------------------------------------------------
(* The inductive invariant behind Agreement.                               *)

\* Enough accounts are past their cert step of period p without a vote for v.
CannotCertify(p, v) ==
    \E Q \in Quorums : \A n \in Q : nextVotes[n][p] # {} /\ certVote[n][p] # v

\* What a vote or a cached status of one account says about the quorums.
VotesJustified ==
    \A n \in Honest, p \in Periods :
       /\ certVote[n][p] # Bottom => /\ softThreshold(p, certVote[n][p])
                                     /\ nextVotes[n][p] \subseteq {certVote[n][p]}
       /\ \A v \in status[n][p] : nextThreshold(p, v)
       /\ \A v \in nextVotes[n][p] \ {Bottom} :
             softThreshold(p, v) \/ (p > 0 /\ nextThreshold(p - 1, v))

\* An account that knows no next-threshold of the period before its own came
\* there by a soft-threshold.
PeriodJustified ==
    \A n \in Honest :
       period[n] > 0 /\ status[n][period[n] - 1] = {}
          => \E v \in Values : softThreshold(period[n], v)

\* What the basis of a soft-vote says about the period before.
BasisJustified ==
    \A n \in Honest, p \in Periods :
       /\ basis[n][p] = "value" =>
             /\ p > 0 /\ softVote[n][p] \in status[n][p - 1]
             /\ Bottom \in nextVotes[n][p] => nextThreshold(p - 1, Bottom)
       /\ basis[n][p] = "bottom" =>
             /\ p > 0 /\ Bottom \in status[n][p - 1]
             /\ \A v \in nextVotes[n][p] \ {Bottom} : softThreshold(p, v)
       /\ p > 0 /\ softVote[n][p] # Bottom /\ basis[n][p] \notin {"value", "bottom"}
             => \E v \in Values : softThreshold(p, v)

\* The first quorum of a period to soft-vote a value had the period before to
\* rest on.
FirstQuorum ==
    \A p \in Periods : \A v \in Values :
       p > 0 /\ softThreshold(p, v)
          => \E Q \in Quorums : \A n \in Q : /\ softVote[n][p] = v
                                             /\ basis[n][p] \in {"value", "bottom"}

\* A period that ends with v leaves no other value to certify up to there.
NextExcludes ==
    \A p, q \in Periods : \A v \in Values, w \in AnyValue :
       p <= q /\ nextThreshold(q, w) /\ v # w => CannotCertify(p, v)

Inv == /\ TypeOK /\ VotesJustified /\ PeriodJustified /\ BasisJustified
       /\ FirstQuorum /\ OneNextValue /\ BottomFromStart /\ NextExcludes
=============================================================================
