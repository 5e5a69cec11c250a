----------------------------- MODULE MCBAVoting -----------------------------
(* An instance of BAVoting.                                                 *)
EXTENDS BAVoting, FiniteSets

\* Of three accounts of equal weight one is faulty, and a threshold takes all three.
MajorityQuorums == {Q \in SUBSET Honest : Cardinality(Q) >= 2}

\* Recovery from the last period leads nowhere and is cut.
NoRecoveryFromLast == \A n \in Honest : nextVotes[n][MaxPeriod] = {}
=============================================================================
