--------------------------- MODULE MCWeightOracle ---------------------------
(* Instances of WeightOracle: two accounts, the keys of b expired in the    *)
(* second round; the first rounds of the chain, where the balance round is  *)
(* held at 0; caches smaller than the keys in use.                          *)
EXTENDS WeightOracle

TwoAccounts == {"a", "b"}
Rounds == {1, 3}

Windows == [b \in {0, 1} |-> [x \in TwoAccounts |->
               IF x = "a" THEN [first |-> 1, last |-> 0] ELSE [first |-> 1, last |-> 2]]]

Expects == [genesis |-> "ours", algorithm |-> "1.0", protocol |-> "1.0"]

\* Weights differ by account and by round; b has none once its keys expired.
Weights == [k \in {0, 1} \X TwoAccounts |->
               IF k = <<1, "b">> THEN 0 ELSE 3 * k[1] + (IF k[2] = "a" THEN 1 ELSE 2)]
Totals == [k \in {<<0, 1>>, <<1, 3>>} |-> 3 + k[1]]

Good == [identity |-> Expects, weight |-> Weights, total |-> Totals]

\* Another algorithm version; no weight for a key of the node; totals without
\* one of the accounts; no weight for a voter and no total.
FiveDaemons ==
    {Good,
     [Good EXCEPT !.identity.algorithm = "2.0"],
     [Good EXCEPT !.weight[<<1, "a">>] = 0],
     [Good EXCEPT !.total[<<1, 3>>] = 3],
     [Good EXCEPT !.weight[<<0, "b">>] = 0, !.total[<<1, 3>>] = 0]}
=============================================================================
