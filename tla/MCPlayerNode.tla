---------------------------- MODULE MCPlayerNode ----------------------------
(* Instances of PlayerNode.                                                *)
EXTENDS PlayerNode

\* Original proposals of period 0, a with the lower credential.
a == [per |-> 0, by |-> 1]
b == [per |-> 0, by |-> 2]

Sent(p, s, v) == [p |-> p, s |-> s, v |-> v]

TwoValues == {a, b}
TwoOriginals == {Sent(0, 1, a), Sent(0, 2, b)}

OneValue == {a}
OneProposal == {Sent(0, 1, a)}
=============================================================================
