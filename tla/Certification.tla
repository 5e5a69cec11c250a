--------------------------- MODULE Certification ---------------------------
(***************************************************************************)
(* What the agreement service promises the ledger about one round: at most *)
(* one value is ever certified, and the certified value never changes      *)
(* (abstractions.go: "EnsureBlock will never be called twice for two       *)
(* entries e1 and e2 where e1.Round() == e2.Round() but e1.Digest() !=     *)
(* e2.Digest()").                                                          *)
(***************************************************************************)
CONSTANT Values

VARIABLE certified

Init == certified = {}

Certify(v) == certified = {} /\ certified' = {v}

Next == \E v \in Values : Certify(v)

Spec == Init /\ [][Next]_certified
=============================================================================
