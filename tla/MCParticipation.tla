-------------------------- MODULE MCParticipation --------------------------
(* Two nodes with the keys of an account each: the keys of b expire in the *)
(* run, and b may be found absent before.                                  *)
EXTENDS Participation, TLC

CONSTANTS a, b, n1, n2

MCLocal == (n1 :> {a}) @@ (n2 :> {b})
MCWeight == [x \in Accounts |-> IF x = b THEN 2 ELSE 1]

MCInitialRecs ==
    [x \in Accounts |->
        [Status |-> "Online", VoteID |-> 1,
         VoteLastValid |-> IF x = a THEN 27 ELSE 21,
         LastProposed |-> 0,
         LastHeartbeat |-> IF x = a THEN FirstRound - 3 ELSE FirstRound - 2,
         IncentiveEligible |-> TRUE]]
=============================================================================
