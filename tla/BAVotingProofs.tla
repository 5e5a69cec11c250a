--------------------------- MODULE BAVotingProofs ---------------------------
(***************************************************************************)
(* Proofs about BAVoting for every set of accounts, values and quorums and *)
(* every number of periods: the type invariant, one lemma per action that  *)
(* Inv is inductive, and from it Agreement, OneNextValue, BottomFromStart  *)
(* and the refinement of Certification.                                    *)
(***************************************************************************)
EXTENDS BAVoting, TLAPS

USE MaxPeriodAssumption

\* Type correctness of every action of the voting rules.
LEMMA TypeStep == TypeOK /\ [Next]_vars => TypeOK'
<1> SUFFICES ASSUME TypeOK, [Next]_vars PROVE TypeOK'
  BY Zenon
<1> USE DEF TypeOK, AnyValue, Periods
<1>1. ASSUME NEW n \in Honest, NEW p \in Periods, NEW v \in AnyValue, ObserveNext(n, p, v)
      PROVE  TypeOK'
  BY <1>1, Zenon DEF ObserveNext
<1>2. ASSUME NEW n \in Honest, NEW q \in Periods, EnterPeriod(n, q)
      PROVE  TypeOK'
  BY <1>2, Zenon DEF EnterPeriod
<1>3. ASSUME NEW n \in Honest, NEW v \in Values, issueSoftVote(n, v)
      PROVE  TypeOK'
  BY <1>3, Zenon DEF issueSoftVote
<1>4. ASSUME NEW n \in Honest, NEW v \in Values, issueCertVote(n, v)
      PROVE  TypeOK'
  BY <1>4, Zenon DEF issueCertVote
<1>5. ASSUME NEW n \in Honest, NEW v \in AnyValue, issueNextVote(n, v)
      PROVE  TypeOK'
  BY <1>5, Zenon DEF issueNextVote
<1>6. CASE UNCHANGED vars
  BY <1>6, Zenon DEF vars
<1> QED
  BY <1>1, <1>2, <1>3, <1>4, <1>5, <1>6, Zenon DEF Next

----------------------------------------------------------------------------
(* Facts about quorums in one state.                                       *)

\* A quorum has a member.
LEMMA QuorumMember == \A Q \in Quorums : \E n \in Honest : n \in Q
  BY QuorumAssumption, Zenon

\* Two quorums share an honest account.
LEMMA QuorumsMeet == \A Q, R \in Quorums : \E n \in Honest : n \in Q /\ n \in R
  BY QuorumAssumption, Zenon

\* An account soft-votes once in a period, so only one value reaches the
\* soft-threshold of the period.
LEMMA OneSoft ==
    ASSUME NEW p, NEW v, NEW w, softThreshold(p, v), softThreshold(p, w)
    PROVE  v = w
  BY QuorumsMeet, Zenon DEF softThreshold

\* A cert-threshold comes with the soft-threshold its votes rest on.
LEMMA CertHasSoft ==
    ASSUME VotesJustified, NEW p \in Periods, NEW v \in Values, certThreshold(p, v)
    PROVE  softThreshold(p, v)
<1>1. PICK n \in Honest : certVote[n][p] = v
  BY QuorumMember, Zenon DEF certThreshold
<1> QED
  BY <1>1, BottomAssumption, Zenon DEF VotesJustified

\* What reaches the soft-threshold of a period after 0 ended the period before,
\* unless bottom did.
LEMMA SoftHasNext ==
    ASSUME Inv, NEW p \in Periods, NEW v \in Values, p > 0, softThreshold(p, v)
    PROVE  nextThreshold(p - 1, v) \/ nextThreshold(p - 1, Bottom)
<1>1. PICK n \in Honest : softVote[n][p] = v /\ basis[n][p] \in {"value", "bottom"}
  BY QuorumMember, Zenon DEF Inv, FirstQuorum
<1>2. p - 1 \in Periods
  BY DEF Periods
<1>3. CASE basis[n][p] = "value"
  <2>1. v \in status[n][p - 1]
    BY <1>1, <1>3, Zenon DEF Inv, BasisJustified
  <2> QED
    BY <2>1, <1>2, Zenon DEF Inv, VotesJustified
<1>4. CASE basis[n][p] = "bottom"
  <2>1. Bottom \in status[n][p - 1]
    BY <1>1, <1>4, Zenon DEF Inv, BasisJustified
  <2> QED
    BY <2>1, <1>2, Zenon DEF Inv, VotesJustified
<1> QED
  BY <1>1, <1>3, <1>4, Zenon

\* A soft-threshold for w excludes every other value in the periods before.
LEMMA SoftExcludes ==
    ASSUME Inv, NEW p \in Periods, NEW q \in Periods, p < q,
           NEW v \in Values, NEW w \in Values, v # w, softThreshold(q, w)
    PROVE  CannotCertify(p, v)
<1>1. q > 0 /\ q - 1 \in Periods /\ p <= q - 1
  BY DEF Periods
<1>2. nextThreshold(q - 1, w) \/ nextThreshold(q - 1, Bottom)
  BY <1>1, SoftHasNext, Zenon
<1>3. w \in AnyValue /\ Bottom \in AnyValue /\ v # Bottom
  BY BottomAssumption, Zenon DEF AnyValue
<1> QED
  BY <1>1, <1>2, <1>3, Zenon DEF Inv, NextExcludes

\* Two cert-thresholds name one value.
LEMMA InvAgreement == Inv => Agreement
<1> SUFFICES ASSUME Inv, NEW p \in Periods, NEW q \in Periods,
                    NEW v \in Values, NEW w \in Values,
                    certThreshold(p, v), certThreshold(q, w), v # w
             PROVE  FALSE
  BY Zenon DEF Agreement
<1>1. ASSUME NEW a \in Periods, NEW b \in Periods, NEW x \in Values, NEW y \in Values,
             certThreshold(a, x), certThreshold(b, y), x # y, a < b
      PROVE  FALSE
  <2>1. softThreshold(b, y)
    BY <1>1, CertHasSoft, Zenon DEF Inv
  <2>2. CannotCertify(a, x)
    BY <1>1, <2>1, SoftExcludes, Zenon
  <2> QED
    BY <1>1, <2>2, QuorumsMeet, Zenon DEF CannotCertify, certThreshold
<1>2. p = q => FALSE
  BY QuorumsMeet DEF certThreshold
<1> QED
  BY <1>1, <1>2 DEF Periods

\* OneNextValue for a period, given it for the period before.
OneNextFollows ==
    \A p \in Periods : \A v, w \in Values :
       /\ p > 0 => \A x, y \in Values :
                      nextThreshold(p - 1, x) /\ nextThreshold(p - 1, y) => x = y
       /\ nextThreshold(p, v)
       /\ nextThreshold(p, w) \/ softThreshold(p, w)
       => v = w

\* When at most one value other than bottom ended the period before, the same
\* holds of this period, and a soft-threshold can only be for that value.
LEMMA OneNextFromBefore ==
    VotesJustified /\ BasisJustified /\ FirstQuorum => OneNextFollows
<1> SUFFICES ASSUME VotesJustified, BasisJustified, FirstQuorum, NEW p \in Periods,
                    p > 0 => \A x, y \in Values :
                       nextThreshold(p - 1, x) /\ nextThreshold(p - 1, y) => x = y
             PROVE  \A v, w \in Values :
                       nextThreshold(p, v) /\ (nextThreshold(p, w) \/ softThreshold(p, w)) => v = w
  BY Zenon DEF OneNextFollows
<1>1. ASSUME NEW m \in Honest, NEW v \in Values, v \in nextVotes[m][p], ~softThreshold(p, v)
      PROVE  p > 0 /\ nextThreshold(p - 1, v)
  BY <1>1, BottomAssumption, Zenon DEF VotesJustified
<1>2. ASSUME NEW v \in Values, NEW w \in Values, nextThreshold(p, v), softThreshold(p, w)
      PROVE  v = w
  <2>1. PICK Q \in Quorums : \A n \in Q : v \in nextVotes[n][p]
    BY <1>2, Zenon DEF nextThreshold
  <2>2. CASE softThreshold(p, v)
    BY <1>2, <2>2, OneSoft, Zenon
  <2>3. CASE ~softThreshold(p, v)
    <3>1. p > 0 /\ nextThreshold(p - 1, v) /\ p - 1 \in Periods
      BY <1>1, <2>1, <2>3, QuorumMember DEF Periods
    <3>2. PICK R \in Quorums : \A n \in R : softVote[n][p] = w /\ basis[n][p] \in {"value", "bottom"}
      BY <1>2, <3>1 DEF FirstQuorum
    <3>3. PICK m \in Honest : m \in Q /\ m \in R
      BY QuorumsMeet, Zenon
    <3>4. basis[m][p] = "value"
      BY <2>1, <2>3, <3>2, <3>3, BottomAssumption DEF BasisJustified
    <3>5. w \in status[m][p - 1]
      BY <3>2, <3>3, <3>4 DEF BasisJustified
    <3>6. nextThreshold(p - 1, w)
      BY <3>1, <3>5, Zenon DEF VotesJustified
    <3> QED
      BY <3>1, <3>6, Zenon
  <2> QED
    BY <2>2, <2>3, Zenon
<1>3. ASSUME NEW v \in Values, NEW w \in Values, nextThreshold(p, v), nextThreshold(p, w)
      PROVE  v = w
  <2>1. softThreshold(p, v) \/ (p > 0 /\ nextThreshold(p - 1, v))
    BY <1>1, <1>3, QuorumMember, Zenon DEF nextThreshold
  <2>2. softThreshold(p, w) \/ (p > 0 /\ nextThreshold(p - 1, w))
    BY <1>1, <1>3, QuorumMember, Zenon DEF nextThreshold
  <2> QED
    BY <1>2, <1>3, <2>1, <2>2, Zenon
<1> QED
  BY <1>2, <1>3, Zenon

----------------------------------------------------------------------------
(* What no step takes back.                                                *)

\* Votes are never withdrawn or changed, statuses only grow, and nobody cert-
\* votes after a next-vote of the same period.
LEMMA Grow ==
    ASSUME TypeOK, [Next]_vars, NEW m \in Honest, NEW r \in Periods
    PROVE  /\ softVote[m][r] # Bottom => softVote'[m][r] = softVote[m][r]
           /\ certVote[m][r] # Bottom => certVote'[m][r] = certVote[m][r]
           /\ nextVotes[m][r] \subseteq nextVotes'[m][r]
           /\ status[m][r] \subseteq status'[m][r]
           /\ nextVotes[m][r] # {} => certVote'[m][r] = certVote[m][r]
<1> USE DEF TypeOK
<1>1. ASSUME NEW n \in Honest, NEW p \in Periods, NEW v \in AnyValue, ObserveNext(n, p, v)
      PROVE  status[m][r] \subseteq status'[m][r] /\ UNCHANGED <<softVote, certVote, nextVotes>>
  BY <1>1, Zenon DEF ObserveNext
<1>2. ASSUME NEW n \in Honest, NEW v \in Values, issueSoftVote(n, v)
      PROVE  /\ softVote[m][r] # Bottom => softVote'[m][r] = softVote[m][r]
             /\ UNCHANGED <<certVote, nextVotes, status>>
  BY <1>2, Zenon DEF issueSoftVote
<1>3. ASSUME NEW n \in Honest, NEW v \in Values, issueCertVote(n, v)
      PROVE  /\ certVote[m][r] # Bottom => certVote'[m][r] = certVote[m][r]
             /\ nextVotes[m][r] # {} => certVote'[m][r] = certVote[m][r]
             /\ UNCHANGED <<softVote, nextVotes, status>>
  BY <1>3, Zenon DEF issueCertVote
<1>4. ASSUME NEW n \in Honest, NEW v \in AnyValue, issueNextVote(n, v)
      PROVE  /\ nextVotes[m][r] \subseteq nextVotes'[m][r]
             /\ UNCHANGED <<softVote, certVote, status>>
  BY <1>4, Zenon DEF issueNextVote
<1>5. ASSUME NEW n \in Honest, NEW q \in Periods, EnterPeriod(n, q)
      PROVE  UNCHANGED <<softVote, certVote, nextVotes, status>>
  BY <1>5, Zenon DEF EnterPeriod
<1>6. CASE UNCHANGED vars
  BY <1>6, Zenon DEF vars
<1> QED
  BY <1>1, <1>2, <1>3, <1>4, <1>5, <1>6, Zenon DEF Next

\* A threshold, once reached, stays reached, and so does an exclusion.
LEMMA Stable ==
    ASSUME TypeOK, [Next]_vars, NEW p \in Periods
    PROVE  /\ \A v \in Values : softThreshold(p, v) => softThreshold(p, v)'
           /\ \A v \in AnyValue : nextThreshold(p, v) => nextThreshold(p, v)'
           /\ \A v \in Values : CannotCertify(p, v) => CannotCertify(p, v)'
<1>1. ASSUME NEW v \in Values, softThreshold(p, v) PROVE softThreshold(p, v)'
  <2>1. PICK Q \in Quorums : \A n \in Q : softVote[n][p] = v
    BY <1>1, Zenon DEF softThreshold
  <2>2. \A n \in Q : n \in Honest /\ softVote'[n][p] = v
    BY <2>1, Grow, QuorumAssumption, BottomAssumption, Zenon
  <2> QED
    BY <2>2, Zenon DEF softThreshold
<1>2. ASSUME NEW v \in AnyValue, nextThreshold(p, v) PROVE nextThreshold(p, v)'
  <2>1. PICK Q \in Quorums : \A n \in Q : v \in nextVotes[n][p]
    BY <1>2, Zenon DEF nextThreshold
  <2>2. \A n \in Q : n \in Honest /\ v \in nextVotes'[n][p]
    BY <2>1, Grow, QuorumAssumption, Zenon
  <2> QED
    BY <2>2, Zenon DEF nextThreshold
<1>3. ASSUME NEW v \in Values, CannotCertify(p, v) PROVE CannotCertify(p, v)'
  <2>1. PICK Q \in Quorums : \A n \in Q : nextVotes[n][p] # {} /\ certVote[n][p] # v
    BY <1>3, Zenon DEF CannotCertify
  <2>2. \A n \in Q : n \in Honest /\ nextVotes'[n][p] # {} /\ certVote'[n][p] # v
    BY <2>1, Grow, QuorumAssumption, Zenon
  <2> QED
    BY <2>2, Zenon DEF CannotCertify
<1> QED
  BY <1>1, <1>2, <1>3, Zenon

----------------------------------------------------------------------------
(* Inv is inductive: one lemma per action.                                 *)

\* Caching a next-threshold changes what an account knows, not the votes.
LEMMA ObserveNextStep ==
    ASSUME Inv, NEW n \in Honest, NEW p \in Periods, NEW v \in AnyValue, ObserveNext(n, p, v)
    PROVE  Inv'
<1> USE DEF Inv
<1>1. /\ UNCHANGED <<period, softVote, certVote, nextVotes, basis>>
      /\ \A m \in Honest, r \in Periods :
            /\ status[m][r] \subseteq status'[m][r]
            /\ \A x \in status'[m][r] : x \in status[m][r] \/ (r = p /\ x = v)
  BY Zenon DEF ObserveNext, TypeOK
<1>2. TypeOK'
  BY TypeStep, Zenon DEF Next
<1>3. VotesJustified'
  BY <1>1 DEF ObserveNext, VotesJustified, softThreshold, nextThreshold
<1>4. PeriodJustified'
  <2> SUFFICES ASSUME NEW m \in Honest, period[m] > 0, status'[m][period[m] - 1] = {}
               PROVE  \E x \in Values : softThreshold(period[m], x)
    BY <1>1 DEF PeriodJustified, softThreshold
  <2>1. period[m] - 1 \in Periods
    BY DEF TypeOK, Periods
  <2> QED
    BY <2>1, <1>1, Zenon DEF PeriodJustified
<1>5. BasisJustified'
  <2>1. \A r \in Periods : r > 0 => r - 1 \in Periods
    BY DEF Periods
  <2> QED
    BY <1>1, <2>1 DEF BasisJustified, softThreshold, nextThreshold
<1>6. (FirstQuorum /\ OneNextValue /\ BottomFromStart /\ NextExcludes)'
  <2>1. FirstQuorum'
    BY <1>1 DEF FirstQuorum, softThreshold
  <2>2. OneNextValue'
    BY <1>1 DEF OneNextValue, softThreshold, nextThreshold
  <2>3. BottomFromStart'
    BY <1>1, Zenon DEF BottomFromStart, nextThreshold
  <2>4. NextExcludes'
    BY <1>1, Zenon DEF NextExcludes, nextThreshold, CannotCertify
  <2> QED
    BY <2>1, <2>2, <2>3, <2>4, Zenon
<1> QED
  BY <1>2, <1>3, <1>4, <1>5, <1>6, Zenon

\* An account enters a period only by a threshold that justifies it.
LEMMA EnterPeriodStep ==
    ASSUME Inv, NEW n \in Honest, NEW q \in Periods, EnterPeriod(n, q)
    PROVE  Inv'
<1> USE DEF Inv
<1>1. /\ UNCHANGED <<softVote, certVote, nextVotes, status, basis>>
      /\ period' = [period EXCEPT ![n] = q]
  BY Zenon DEF EnterPeriod
<1>2. TypeOK'
  BY TypeStep, Zenon DEF Next
<1>3. PeriodJustified'
  <2>1. status[n][q - 1] = {} => \E v \in Values : softThreshold(q, v)
    BY CertHasSoft, Zenon DEF EnterPeriod
  <2> SUFFICES ASSUME NEW m \in Honest, period'[m] > 0, status[m][period'[m] - 1] = {}
               PROVE  \E v \in Values : softThreshold(period'[m], v)
    BY <1>1 DEF PeriodJustified, softThreshold
  <2>2. period'[m] = IF m = n THEN q ELSE period[m]
    BY <1>1, Zenon DEF TypeOK
  <2> QED
    BY <2>1, <2>2, Zenon DEF PeriodJustified
<1>4. (VotesJustified /\ BasisJustified)'
  <2>1. VotesJustified'
    BY <1>1 DEF VotesJustified, softThreshold, nextThreshold
  <2>2. BasisJustified'
    BY <1>1 DEF BasisJustified, softThreshold, nextThreshold
  <2> QED
    BY <2>1, <2>2, Zenon
<1>5. (FirstQuorum /\ OneNextValue /\ BottomFromStart /\ NextExcludes)'
  <2>1. FirstQuorum'
    BY <1>1 DEF FirstQuorum, softThreshold
  <2>2. OneNextValue'
    BY <1>1 DEF OneNextValue, softThreshold, nextThreshold
  <2>3. BottomFromStart'
    BY <1>1, Zenon DEF BottomFromStart, nextThreshold
  <2>4. NextExcludes'
    BY <1>1, Zenon DEF NextExcludes, nextThreshold, CannotCertify
  <2> QED
    BY <2>1, <2>2, <2>3, <2>4, Zenon
<1> QED
  BY <1>2, <1>3, <1>4, <1>5, Zenon

\* A cert-vote rests on a soft-threshold and precedes every next-vote.
LEMMA CertVoteStep ==
    ASSUME Inv, NEW n \in Honest, NEW v \in Values, issueCertVote(n, v)
    PROVE  Inv'
<1> USE DEF Inv
<1>1. /\ UNCHANGED <<period, softVote, nextVotes, status, basis>>
      /\ period[n] \in Periods /\ nextVotes[n][period[n]] = {}
      /\ certVote' = [certVote EXCEPT ![n][period[n]] = v]
  BY Zenon DEF issueCertVote, TypeOK
<1>2. TypeOK'
  BY TypeStep, Zenon DEF Next
<1>3. VotesJustified'
  <2>1. softThreshold(period[n], v)
    BY <1>1, CertHasSoft, Zenon DEF issueCertVote
  <2>2. \A m \in Honest, r \in Periods :
           certVote'[m][r] = certVote[m][r] \/ (m = n /\ r = period[n] /\ certVote'[m][r] = v)
    BY <1>1, Zenon DEF TypeOK
  <2>3. \A m \in Honest, r \in Periods : certVote'[m][r] # Bottom =>
           softThreshold(r, certVote'[m][r]) /\ nextVotes[m][r] \subseteq {certVote'[m][r]}
    BY <1>1, <2>1, <2>2 DEF VotesJustified
  <2> QED
    BY <1>1, <2>3 DEF VotesJustified, softThreshold, nextThreshold
<1>4. (PeriodJustified /\ BasisJustified)'
  BY <1>1 DEF PeriodJustified, BasisJustified, softThreshold, nextThreshold
<1>5. (FirstQuorum /\ OneNextValue /\ BottomFromStart)'
  BY <1>1 DEF FirstQuorum, OneNextValue, BottomFromStart, softThreshold, nextThreshold
<1>6. NextExcludes'
  <2>1. \A r \in Periods, x \in Values : CannotCertify(r, x) => CannotCertify(r, x)'
    BY Stable, Zenon DEF Next
  <2> QED
    BY <1>1, <2>1 DEF NextExcludes, nextThreshold
<1> QED
  BY <1>2, <1>3, <1>4, <1>5, <1>6, Zenon

\* A soft-vote follows the status of the period before, so the first quorum
\* of a period is well founded.
LEMMA SoftVoteStep ==
    ASSUME Inv, NEW n \in Honest, NEW v \in Values, issueSoftVote(n, v)
    PROVE  Inv'
<1> DEFINE p == period[n]
<1> USE DEF Inv
<1>1. /\ UNCHANGED <<period, certVote, nextVotes, status>>
      /\ p \in Periods /\ softVote[n][p] = Bottom /\ nextVotes[n][p] = {}
      /\ \A m \in Honest, r \in Periods : ~(m = n /\ r = p) =>
            softVote'[m][r] = softVote[m][r] /\ basis'[m][r] = basis[m][r]
      /\ softVote'[n][p] = v
      /\ basis'[n][p] = IF v \in Before(n, p) THEN "value"
                        ELSE IF Bottom \in Before(n, p) THEN "bottom" ELSE "free"
      /\ Before(n, p) # {} /\ Bottom \notin Before(n, p) => v \in Before(n, p)
  BY Zenon DEF issueSoftVote, TypeOK
<1>2. TypeOK'
  BY TypeStep, Zenon DEF Next
<1>3. \A r \in Periods, x \in Values : softThreshold(r, x) => softThreshold(r, x)'
  BY Stable, Zenon DEF Next
<1>4. \A r, x : nextThreshold(r, x)' <=> nextThreshold(r, x)
  BY <1>1, Zenon DEF nextThreshold
<1>5. VotesJustified'
  <2> SUFFICES ASSUME NEW m \in Honest, NEW r \in Periods
               PROVE  /\ certVote[m][r] # Bottom =>
                            /\ \A x : x = certVote[m][r] => softThreshold(r, x)'
                            /\ nextVotes[m][r] \subseteq {certVote[m][r]}
                      /\ \A x \in status[m][r] : nextThreshold(r, x)
                      /\ \A x \in nextVotes[m][r] \ {Bottom} :
                            softThreshold(r, x)' \/ (r > 0 /\ nextThreshold(r - 1, x))
    BY <1>1, <1>4 DEF VotesJustified, softThreshold, nextThreshold
  <2>1. certVote[m][r] \in Values \cup {Bottom} /\ nextVotes[m][r] \subseteq Values \cup {Bottom}
    BY Zenon DEF TypeOK, AnyValue
  <2>2. \A x \in nextVotes[m][r] \ {Bottom} :
           softThreshold(r, x)' \/ (r > 0 /\ nextThreshold(r - 1, x))
    BY <1>3, <2>1, Zenon DEF VotesJustified
  <2>3. certVote[m][r] # Bottom => \A x : x = certVote[m][r] => softThreshold(r, x)'
    BY <1>3, <2>1 DEF VotesJustified
  <2> QED
    BY <2>2, <2>3, Zenon DEF VotesJustified
<1>6. PeriodJustified'
  <2>1. \A m \in Honest, r \in Periods :
           r = period[m] /\ r > 0 /\ status[m][r - 1] = {} => \E x \in Values : softThreshold(r, x)'
    BY <1>3, Zenon DEF PeriodJustified
  <2>2. \A m \in Honest : period[m] \in Periods
    BY Zenon DEF TypeOK
  <2>3. period' = period /\ status' = status
    BY <1>1, Zenon
  <2> HIDE DEF Inv
  <2> QED
    BY <2>1, <2>2, <2>3, Zenon DEF PeriodJustified, softThreshold
<1>7. p > 0 /\ basis'[n][p] \notin {"value", "bottom"} => \E x \in Values : softThreshold(p, x)
  BY <1>1 DEF PeriodJustified, Before
<1>8. BasisJustified'
  <2> SUFFICES ASSUME NEW m \in Honest, NEW r \in Periods
               PROVE  /\ basis'[m][r] = "value" =>
                            /\ r > 0 /\ softVote'[m][r] \in status[m][r - 1]
                            /\ Bottom \in nextVotes[m][r] => nextThreshold(r - 1, Bottom)
                      /\ basis'[m][r] = "bottom" =>
                            /\ r > 0 /\ Bottom \in status[m][r - 1]
                            /\ \A x \in nextVotes[m][r] \ {Bottom} : softThreshold(r, x)'
                      /\ r > 0 /\ softVote'[m][r] # Bottom /\ basis'[m][r] \notin {"value", "bottom"}
                            => \E x \in Values : softThreshold(r, x)'
    BY <1>1, <1>4 DEF BasisJustified, softThreshold, nextThreshold
  <2>1. CASE m = n /\ r = p
    <3>1. p # 0 => p > 0
      BY <1>1 DEF Periods
    <3> QED
      BY <1>1, <1>3, <1>7, <2>1, <3>1, Zenon DEF Before
  <2>2. CASE ~(m = n /\ r = p)
    <3>1. nextVotes[m][r] \ {Bottom} \subseteq Values
      BY Zenon DEF TypeOK, AnyValue
    <3>2. softVote'[m][r] = softVote[m][r] /\ basis'[m][r] = basis[m][r]
      BY <1>1, <2>2, Zenon
    <3>3. basis[m][r] = "bottom" => \A x \in nextVotes[m][r] \ {Bottom} : softThreshold(r, x)'
      BY <1>3, <3>1, Zenon DEF BasisJustified
    <3>4. r > 0 /\ softVote[m][r] # Bottom /\ basis[m][r] \notin {"value", "bottom"}
             => \E x \in Values : softThreshold(r, x)'
      BY <1>3, Zenon DEF BasisJustified
    <3> QED
      BY <3>2, <3>3, <3>4, Zenon DEF BasisJustified
  <2> QED
    BY <2>1, <2>2, Zenon
<1>9. FirstQuorum'
  <2> SUFFICES ASSUME NEW r \in Periods, NEW x \in Values, r > 0, softThreshold(r, x)'
               PROVE  \E Q \in Quorums : \A m \in Q : /\ softVote'[m][r] = x
                                                      /\ basis'[m][r] \in {"value", "bottom"}
    BY DEF FirstQuorum
  <2>1. CASE \E y \in Values : softThreshold(r, y)
    <3>1. softThreshold(r, x)
      BY <1>3, <2>1, QuorumsMeet DEF softThreshold
    <3>2. PICK Q \in Quorums : \A m \in Q : softVote[m][r] = x /\ basis[m][r] \in {"value", "bottom"}
      BY <3>1, Zenon DEF FirstQuorum
    <3>3. \A m \in Q : m \in Honest /\ ~(m = n /\ r = p)
      BY <1>1, <3>2, QuorumAssumption, BottomAssumption, Zenon
    <3> QED
      BY <1>1, <3>2, <3>3
  <2>2. CASE ~\E y \in Values : softThreshold(r, y)
    <3>1. PICK Q \in Quorums : \A m \in Q : softVote'[m][r] = x
      BY Zenon DEF softThreshold
    <3>2. ASSUME NEW m \in Q PROVE basis'[m][r] \in {"value", "bottom"}
      <4>1. m \in Honest /\ softVote'[m][r] # Bottom
        BY <3>1, QuorumAssumption, BottomAssumption, Zenon
      <4>2. CASE m = n /\ r = p
        BY <1>7, <2>2, <4>2, Zenon
      <4>3. CASE ~(m = n /\ r = p)
        BY <1>1, <2>2, <4>1, <4>3 DEF BasisJustified
      <4> QED
        BY <4>2, <4>3, Zenon
    <3> QED
      BY <3>1, <3>2, Zenon
  <2> QED
    BY <2>1, <2>2, Zenon
<1>10. OneNextValue'
  <2>1. (VotesJustified /\ BasisJustified /\ FirstQuorum => OneNextFollows)'
    BY OneNextFromBefore, PTL
  <2>2. \A r \in Periods : r > 0 => r - 1 \in Periods
    BY DEF Periods
  <2> QED
    BY <1>4, <1>5, <1>8, <1>9, <2>1, <2>2, Zenon DEF OneNextValue, OneNextFollows
<1>11. BottomFromStart'
  BY <1>4, Zenon DEF BottomFromStart
<1>12. NextExcludes'
  <2>1. \A r, x : CannotCertify(r, x)' <=> CannotCertify(r, x)
    BY <1>1, Zenon DEF CannotCertify
  <2> QED
    BY <1>4, <2>1, Zenon DEF NextExcludes
<1> QED
  BY <1>2, <1>5, <1>6, <1>8, <1>9, <1>10, <1>11, <1>12, Zenon

\* A recovery vote names the staged value or what the period before ended
\* with, so it opens no way back to a value that may be certified.
LEMMA NextVoteStep ==
    ASSUME Inv, NEW n \in Honest, NEW v \in AnyValue, issueNextVote(n, v)
    PROVE  Inv'
<1> DEFINE p == period[n]
<1> USE DEF Inv
<1>1. /\ UNCHANGED <<period, softVote, certVote, status, basis>>
      /\ p \in Periods /\ Recoverable(n, p, v)
      /\ certVote[n][p] # Bottom => v = certVote[n][p]
      /\ \A m \in Honest, r \in Periods : ~(m = n /\ r = p) => nextVotes'[m][r] = nextVotes[m][r]
      /\ nextVotes'[n][p] = nextVotes[n][p] \cup {v}
  BY Zenon DEF issueNextVote, TypeOK
<1>2. TypeOK'
  BY TypeStep, Zenon DEF Next
<1>3. \A r, x : softThreshold(r, x)' <=> softThreshold(r, x)
  BY <1>1, Zenon DEF softThreshold
<1>4. \A r \in Periods, x \in AnyValue : nextThreshold(r, x) => nextThreshold(r, x)'
  BY Stable, Zenon DEF Next
<1>5. \A r \in Periods, x \in AnyValue :
         nextThreshold(r, x)' => nextThreshold(r, x) \/ (r = p /\ x = v)
  BY <1>1, QuorumAssumption DEF nextThreshold
<1>6. p > 0 => p - 1 \in Periods /\ Before(n, p) = status[n][p - 1]
  BY <1>1 DEF Periods, Before
<1>7. v # Bottom => softThreshold(p, v) \/ (/\ p > 0 /\ nextThreshold(p - 1, v)
                                           /\ Bottom \notin status[n][p - 1])
  <2>1. v # Bottom => \/ v \in Values /\ (softThreshold(p, v) \/ certThreshold(p, v))
                      \/ v \in Before(n, p) /\ Bottom \notin Before(n, p)
    BY <1>1, Zenon DEF Recoverable
  <2>2. v \in Before(n, p) => p > 0
    BY <1>1 DEF Before, Periods
  <2> QED
    BY <1>1, <1>6, <2>1, <2>2, CertHasSoft DEF VotesJustified
<1>8. VotesJustified'
  <2> SUFFICES ASSUME NEW m \in Honest, NEW r \in Periods
               PROVE  /\ certVote[m][r] # Bottom =>
                            /\ softThreshold(r, certVote[m][r])
                            /\ nextVotes'[m][r] \subseteq {certVote[m][r]}
                      /\ \A x \in status[m][r] : nextThreshold(r, x)'
                      /\ \A x \in nextVotes'[m][r] \ {Bottom} :
                            softThreshold(r, x) \/ (r > 0 /\ nextThreshold(r - 1, x)')
    BY <1>1 DEF VotesJustified, softThreshold, nextThreshold
  <2>1. r > 0 => r - 1 \in Periods
    BY DEF Periods
  <2>2. status[m][r] \subseteq AnyValue /\ nextVotes'[m][r] \subseteq AnyValue
    BY <1>2, <1>1 DEF TypeOK
  <2>3. \A x \in status[m][r] : nextThreshold(r, x)'
    BY <1>4, <2>2, Zenon DEF VotesJustified
  <2>4. \A x \in nextVotes'[m][r] \ {Bottom} : softThreshold(r, x) \/ (r > 0 /\ nextThreshold(r - 1, x))
    BY <1>1, <1>7 DEF VotesJustified
  <2>5. \A x \in nextVotes'[m][r] \ {Bottom} : softThreshold(r, x) \/ (r > 0 /\ nextThreshold(r - 1, x)')
    BY <1>4, <2>1, <2>2, <2>4, Zenon
  <2>6. certVote[m][r] # Bottom => /\ softThreshold(r, certVote[m][r])
                                   /\ nextVotes'[m][r] \subseteq {certVote[m][r]}
    BY <1>1 DEF VotesJustified
  <2> QED
    BY <2>3, <2>5, <2>6, Zenon
<1>9. (PeriodJustified /\ FirstQuorum)'
  BY <1>1 DEF PeriodJustified, FirstQuorum, softThreshold
<1>10. BasisJustified'
  <2>0. \A q, x : softThreshold(q, x)' <=> softThreshold(q, x)
    BY <1>1, Zenon DEF softThreshold
  <2> SUFFICES ASSUME NEW m \in Honest, NEW r \in Periods
               PROVE  /\ basis[m][r] = "value" =>
                            /\ r > 0 /\ softVote[m][r] \in status[m][r - 1]
                            /\ Bottom \in nextVotes'[m][r] => nextThreshold(r - 1, Bottom)'
                      /\ basis[m][r] = "bottom" =>
                            /\ r > 0 /\ Bottom \in status[m][r - 1]
                            /\ \A x \in nextVotes'[m][r] \ {Bottom} : softThreshold(r, x)
                      /\ r > 0 /\ softVote[m][r] # Bottom /\ basis[m][r] \notin {"value", "bottom"}
                            => \E x \in Values : softThreshold(r, x)
    BY <1>1, <2>0, Zenon DEF BasisJustified
  <2>1. Bottom \in AnyValue /\ (r > 0 => r - 1 \in Periods)
    BY DEF AnyValue, Periods
  <2>2. ASSUME basis[m][r] = "value", Bottom \in nextVotes'[m][r]
        PROVE  nextThreshold(r - 1, Bottom)
    <3>1. r > 0 /\ softVote[m][r] \in status[m][r - 1]
      BY <2>2, Zenon DEF BasisJustified
    <3>2. CASE Bottom \in nextVotes[m][r]
      BY <2>2, <3>2, Zenon DEF BasisJustified
    <3>3. CASE Bottom \notin nextVotes[m][r]
      <4>1. m = n /\ r = p /\ v = Bottom
        BY <1>1, <2>2, <3>3, Zenon
      <4>2. Bottom \in status[n][p - 1]
        BY <1>1, <1>6, <3>1, <4>1, BottomAssumption, Zenon DEF Recoverable
      <4> QED
        BY <2>1, <3>1, <4>1, <4>2, Zenon DEF VotesJustified
    <3> QED
      BY <3>2, <3>3, Zenon
  <2>3. ASSUME basis[m][r] = "bottom"
        PROVE  \A x \in nextVotes'[m][r] \ {Bottom} : softThreshold(r, x)
    BY <1>1, <1>7, <2>3 DEF BasisJustified
  <2> QED
    BY <1>4, <2>1, <2>2, <2>3, Zenon DEF BasisJustified
<1>11. OneNextValue'
  <2>1. (VotesJustified /\ BasisJustified /\ FirstQuorum => OneNextFollows)'
    BY OneNextFromBefore, PTL
  <2>2. OneNextFollows'
    BY <1>8, <1>9, <1>10, <2>1, Zenon
  <2> SUFFICES ASSUME NEW r \in Periods, NEW x \in Values, NEW y \in Values,
                      nextThreshold(r, x)', nextThreshold(r, y)' \/ softThreshold(r, y)
               PROVE  x = y
    BY <1>3, Zenon DEF OneNextValue
  <2>3. Values \subseteq AnyValue
    BY Zenon DEF AnyValue
  <2>4. CASE r = p
    <3>1. r > 0 => \A a, b \in Values : nextThreshold(r - 1, a)' /\ nextThreshold(r - 1, b)' => a = b
      <4>1. r > 0 => r - 1 \in Periods /\ r - 1 # p
        BY <2>4 DEF Periods
      <4> QED
        BY <1>5, <2>3, <4>1, Zenon DEF OneNextValue
    <3> QED
      BY <1>3, <2>2, <3>1, Zenon DEF OneNextFollows
  <2>5. CASE r # p
    BY <1>5, <2>3, <2>5, Zenon DEF OneNextValue
  <2> QED
    BY <2>4, <2>5, Zenon
<1>12. BottomFromStart'
  <2> SUFFICES ASSUME NEW r \in Periods, r > 0, nextThreshold(r, Bottom)'
               PROVE  nextThreshold(r - 1, Bottom)'
    BY Zenon DEF BottomFromStart
  <2>1. Bottom \in AnyValue /\ r - 1 \in Periods
    BY DEF AnyValue, Periods
  <2>2. CASE nextThreshold(r, Bottom)
    BY <1>4, <2>1, <2>2, Zenon DEF BottomFromStart
  <2>3. CASE ~nextThreshold(r, Bottom)
    <3>1. r = p /\ v = Bottom
      BY <1>5, <2>1, <2>3, Zenon
    <3>2. CASE Before(n, p) # {}
      <4>1. Bottom \in status[n][r - 1]
        BY <1>1, <1>6, <3>1, <3>2, BottomAssumption, Zenon DEF Recoverable
      <4> QED
        BY <1>4, <2>1, <4>1, Zenon DEF VotesJustified
    <3>3. CASE Before(n, p) = {}
      <4>1. PICK u \in Values : softThreshold(r, u)
        BY <1>6, <3>1, <3>3, Zenon DEF PeriodJustified
      <4>2. PICK R \in Quorums : \A m \in R : basis[m][r] \in {"value", "bottom"}
        BY <4>1, Zenon DEF FirstQuorum
      <4>3. PICK Q \in Quorums : \A m \in Q : Bottom \in nextVotes'[m][r]
        BY Zenon DEF nextThreshold
      <4>4. PICK m \in Honest : m \in Q /\ m \in R
        BY QuorumsMeet, Zenon
      <4>5. basis'[m][r] = basis[m][r] /\ status' = status
        BY <1>1, Zenon
      <4>6. CASE basis[m][r] = "value"
        BY <1>10, <4>3, <4>4, <4>5, <4>6, Zenon DEF BasisJustified
      <4>7. CASE basis[m][r] = "bottom"
        BY <1>8, <1>10, <2>1, <4>5, <4>7, Zenon DEF BasisJustified, VotesJustified
      <4> QED
        BY <4>2, <4>4, <4>6, <4>7, Zenon
    <3> QED
      BY <3>2, <3>3, Zenon
  <2> QED
    BY <2>2, <2>3, Zenon
<1>13. NextExcludes'
  <2> SUFFICES ASSUME NEW r \in Periods, NEW q \in Periods, NEW x \in Values, NEW w \in AnyValue,
                      r <= q, nextThreshold(q, w)', x # w
               PROVE  CannotCertify(r, x)'
    BY Zenon DEF NextExcludes
  <2>1. CannotCertify(r, x) => CannotCertify(r, x)'
    BY Stable, Zenon DEF Next
  <2>2. CASE nextThreshold(q, w)
    BY <2>1, <2>2, Zenon DEF NextExcludes
  <2>3. CASE ~nextThreshold(q, w)
    <3>1. q = p /\ w = v
      BY <1>5, <2>3, Zenon
    <3>2. CASE r = q
      <4>1. PICK Q \in Quorums : \A m \in Q : w \in nextVotes'[m][r]
        BY <3>2, Zenon DEF nextThreshold
      <4>2. \A m \in Q : m \in Honest /\ nextVotes'[m][r] # {} /\ certVote'[m][r] # x
        BY <1>8, <4>1, QuorumAssumption, BottomAssumption DEF VotesJustified
      <4> QED
        BY <4>2, Zenon DEF CannotCertify
    <3>3. CASE r # q
      <4>1. r < q /\ q > 0 /\ q - 1 \in Periods /\ r <= q - 1 /\ q - 1 # p
        BY <3>1, <3>3 DEF Periods
      <4>2. CASE w # Bottom
        <5>1. w \in Values
          BY <4>2, Zenon DEF AnyValue
        <5>2. softThreshold(q, w) \/ nextThreshold(q - 1, w)
          BY <1>7, <3>1, <4>2, Zenon
        <5> QED
          BY <2>1, <4>1, <5>1, <5>2, SoftExcludes, Zenon DEF NextExcludes
      <4>3. CASE w = Bottom
        <5>1. nextThreshold(q - 1, Bottom)'
          BY <1>12, <4>1, <4>3, Zenon DEF BottomFromStart
        <5>2. nextThreshold(q - 1, Bottom)
          BY <1>5, <4>1, <4>3, <5>1, Zenon
        <5> QED
          BY <2>1, <4>1, <4>3, <5>2, Zenon DEF NextExcludes
      <4> QED
        BY <4>2, <4>3, Zenon
    <3> QED
      BY <3>2, <3>3, Zenon
  <2> QED
    BY <2>2, <2>3, Zenon
<1> QED
  BY <1>2, <1>8, <1>9, <1>10, <1>11, <1>12, <1>13, Zenon

----------------------------------------------------------------------------
(* The theorems.                                                           *)

\* The state of BAVoting always has its type.
THEOREM TypeCorrect == Spec => []TypeOK
<1>1. Init => TypeOK
  BY DEF Init, TypeOK, AnyValue, Periods
<1> QED
  BY <1>1, TypeStep, PTL DEF Spec

\* Nothing has been voted in the initial state.
LEMMA InitInv == Init => Inv
<1> SUFFICES ASSUME Init PROVE Inv
  BY Zenon
<1>1. TypeOK
  BY DEF Init, TypeOK, AnyValue, Periods
<1>2. \A p \in Periods : \A v \in AnyValue : ~nextThreshold(p, v)
  BY QuorumMember, Zenon DEF Init, nextThreshold
<1>3. \A p \in Periods : \A v \in Values : ~softThreshold(p, v)
  BY QuorumMember, BottomAssumption, Zenon DEF Init, softThreshold
<1>4. VotesJustified /\ PeriodJustified /\ BasisJustified
  BY DEF Init, VotesJustified, PeriodJustified, BasisJustified, Periods
<1>5. FirstQuorum /\ OneNextValue /\ BottomFromStart /\ NextExcludes
  BY <1>2, <1>3, Zenon DEF FirstQuorum, OneNextValue, BottomFromStart, NextExcludes, AnyValue
<1> QED
  BY <1>1, <1>4, <1>5, Zenon DEF Inv

\* Every step of the voting rules preserves Inv.
LEMMA InvStep == Inv /\ [Next]_vars => Inv'
<1> SUFFICES ASSUME Inv, [Next]_vars PROVE Inv'
  BY Zenon
<1>1. CASE Next
  BY <1>1, ObserveNextStep, EnterPeriodStep, SoftVoteStep, CertVoteStep, NextVoteStep, Zenon DEF Next
<1>2. CASE UNCHANGED vars
  <2> USE <1>2 DEF vars
  <2>1. TypeOK'
    BY Zenon DEF Inv, TypeOK
  <2>2. VotesJustified'
    BY DEF Inv, VotesJustified, softThreshold, nextThreshold
  <2>3. PeriodJustified'
    BY Zenon DEF Inv, PeriodJustified, softThreshold
  <2>4. BasisJustified'
    BY DEF Inv, BasisJustified, softThreshold, nextThreshold
  <2>5. FirstQuorum'
    BY DEF Inv, FirstQuorum, softThreshold
  <2>6. OneNextValue'
    BY DEF Inv, OneNextValue, softThreshold, nextThreshold
  <2>7. (BottomFromStart /\ NextExcludes)'
    BY Zenon DEF Inv, BottomFromStart, NextExcludes, CannotCertify, nextThreshold
  <2> QED
    BY <2>1, <2>2, <2>3, <2>4, <2>5, <2>6, <2>7, Zenon DEF Inv
<1> QED
  BY <1>1, <1>2, Zenon

\* Inv holds in every reachable state.
THEOREM Invariance == Spec => []Inv
  BY InitInv, InvStep, PTL DEF Spec

\* No two certificates of a round disagree, whatever the periods, the votes of
\* faulty accounts and the order of messages.
THEOREM AgreementHolds == Spec => []Agreement
  BY Invariance, InvAgreement, PTL

\* At most one value other than bottom ends a period.
THEOREM OneNextValueHolds == Spec => []OneNextValue
<1>1. Inv => OneNextValue
  BY Zenon DEF Inv
<1> QED
  BY <1>1, Invariance, PTL

\* Bottom ends a period only after it ended every earlier one.
THEOREM BottomFromStartHolds == Spec => []BottomFromStart
<1>1. Inv => BottomFromStart
  BY Zenon DEF Inv
<1> QED
  BY <1>1, Invariance, PTL

\* The votes of a round implement what the agreement service promises the
\* ledger: one value becomes certified and stays the only one.
THEOREM Refinement == Spec => Certifies
<1> DEFINE C == {v \in Values : \E p \in Periods : certThreshold(p, v)}
<1>1. Init => C = {}
  BY QuorumMember, BottomAssumption DEF Init, certThreshold
<1>2. ASSUME TypeOK, Agreement', [Next]_vars
      PROVE  C' = C \/ (C = {} /\ \E v \in Values : C' = {v})
  <2>1. \A p \in Periods : \A v \in Values : certThreshold(p, v) => certThreshold(p, v)'
    BY <1>2, Grow, QuorumAssumption, BottomAssumption DEF certThreshold
  <2>2. C \subseteq C'
    BY <2>1, Zenon
  <2>3. \A v, w \in C' : v = w
    BY <1>2, Zenon DEF Agreement
  <2> QED
    BY <2>2, <2>3, Zenon
<1>3. Init => Abstract!Init
  BY <1>1, Zenon DEF Abstract!Init
<1>4. TypeOK /\ Agreement' /\ [Next]_vars => [Abstract!Next]_C
  BY <1>2, Zenon DEF Abstract!Next, Abstract!Certify
<1> QED
  BY <1>3, <1>4, TypeCorrect, AgreementHolds, PTL DEF Spec, Certifies, Abstract!Spec
=============================================================================
