--------------------------- MODULE MCVoteTracker ---------------------------
(* Four senders of different weights, two of which may equivocate.         *)
EXTENDS VoteTracker, TLC

MCSenders == 1..4
MCWeight == <<1, 3, 2, 1>>
MCFaulty == {1, 4}

Renamings == Permutations(Values)
============================================================================
