------------------------- MODULE VoteTrackerProofs --------------------------
(***************************************************************************)
(* VoteTracker keeps its six invariants, for any senders, weights, values  *)
(* and quorum that meet the assumptions of VoteTracker.tla.                *)
(*                                                                         *)
(* A set sn of votes determines a tracker (Match), the values that reach   *)
(* the quorum (ReachedIn) and the events that must have been emitted.  The *)
(* inductive invariant TrackerInv says that the state is the one the set   *)
(* seen determines.  It is kept because one call of handle leads from the  *)
(* tracker of sn to that of sn with one vote more (HandleReturns), hence a *)
(* replay from that of sn to that of sn with all its votes (ReplayRuns).   *)
(* EquivocationAssumption enters twice: at most one value reaches the      *)
(* quorum (ReachedOne), and a value that reached it keeps it when its      *)
(* voters equivocate (ReachedStays).                                       *)
(***************************************************************************)
EXTENDS VoteTracker, FiniteSetTheorems, WellFoundedInduction, TLAPS

----------------------------------------------------------------------------
(* Induction over numbers and finite sets.                                 *)

\* Induction for a set of naturals.
LEMMA Induct ==
    ASSUME NEW Z, 0 \in Z, \A n \in Nat : n \in Z => n + 1 \in Z
    PROVE  \A n \in Nat : n \in Z
<1> SUFFICES ASSUME Nat \ Z # {} PROVE FALSE
  BY Zenon
<1>1. Nat \ Z \subseteq Nat
  BY Zenon
<1>2. PICK x \in Nat \ Z : \A y \in Nat \ Z : ~(<<y, x>> \in OpToRel(<, Nat))
  BY <1>1, NatLessThanWellFounded, WFMin, Zenon
<1>3. \A y \in Nat \ Z : ~(y < x)
  BY <1>2, Zenon DEF OpToRel
<1>4. x - 1 \in Nat /\ x - 1 < x /\ (x - 1) + 1 = x
  OBVIOUS
<1>5. x - 1 \in Z
  BY <1>3, <1>4, Zenon
<1> QED
  BY <1>4, <1>5, Zenon

\* What holds of the empty set, and of a set with one element more, holds of every
\* subset of a finite set.
LEMMA SetInduct ==
    ASSUME NEW U, IsFiniteSet(U), NEW Z, {} \in Z,
           \A T \in SUBSET U : \A x \in U \ T : T \in Z => T \cup {x} \in Z
    PROVE  \A T \in SUBSET U : T \in Z
<1> DEFINE N == {n \in Nat : \A T \in SUBSET U : Cardinality(T) = n => T \in Z}
<1>0. \A T \in SUBSET U : IsFiniteSet(T) /\ Cardinality(T) \in Nat
  BY FS_Subset, FS_CardinalityType, Zenon
<1>1. 0 \in N
  BY <1>0, FS_EmptySet, Zenon
<1>2. ASSUME NEW n \in Nat, n \in N PROVE n + 1 \in N
  <2> SUFFICES ASSUME NEW T \in SUBSET U, Cardinality(T) = n + 1 PROVE T \in Z
    OBVIOUS
  <2>1. PICK x : x \in T
    BY <1>0, FS_EmptySet
  <2>2. Cardinality(T \ {x}) = n
    <3>1. Cardinality(T \ {x}) = Cardinality(T) - 1
      BY <1>0, <2>1, FS_RemoveElement, Zenon
    <3> QED
      BY <3>1
  <2>3. T \ {x} \in SUBSET U /\ x \in U \ (T \ {x}) /\ (T \ {x}) \cup {x} = T
    BY <2>1, Zenon
  <2>4. T \ {x} \in Z
    BY <1>2, <2>2, <2>3, Zenon
  <2> QED
    BY <2>3, <2>4, Zenon
<1> HIDE DEF N
<1>3. \A n \in Nat : n \in N
  BY <1>1, <1>2, Induct, Zenon
<1> QED
  BY <1>0, <1>3, Zenon DEF N

----------------------------------------------------------------------------
(* The weight of a set of senders.                                         *)

Pick(s) == CHOOSE x \in s : TRUE

\* f is the recursion that defines the weights of the subsets of U.
Sums(U, f) == f = [s \in SUBSET U |-> IF s = {} THEN 0 ELSE Weight[Pick(s)] + f[s \ {Pick(s)}]]

\* A choice from a nonempty set is a member.
LEMMA PickIn == ASSUME NEW s, s # {} PROVE Pick(s) \in s
BY Zenon DEF Pick

\* WeightOf is the library's recursion over the subsets of S.
LEMMA SumsDef == ASSUME NEW S \in SUBSET Senders PROVE WeightOf(S) = (CHOOSE f : Sums(S, f))[S]
BY Zenon DEF WeightOf, TotalWeight, SumFunctionOnSet, FoldFunctionOnSet, MapThenFoldSet, Sums, Pick

\* Every set of senders is finite.
LEMMA FiniteSenders ==
    ASSUME NEW S \in SUBSET Senders
    PROVE  IsFiniteSet(S) /\ Cardinality(S) \in Nat
BY SendersAssumption, FS_Subset, FS_CardinalityType, Zenon

Sub(n) == {T \in SUBSET Senders : Cardinality(T) <= n}

SumsUpto(n, f) == f = [s \in Sub(n) |-> IF s = {} THEN 0 ELSE Weight[Pick(s)] + f[s \ {Pick(s)}]]

\* A function defined by that recursion on all sets of senders exists.
LEMMA SumsExist == \E f : Sums(Senders, f)
<1> DEFINE N == {n \in Nat : \E f : SumsUpto(n, f)}
<1>1. ASSUME NEW n \in Nat, NEW s \in Sub(n + 1), s # {} PROVE s \ {Pick(s)} \in Sub(n)
  <2>1. Pick(s) \in s /\ s \in SUBSET Senders /\ Cardinality(s) <= n + 1
    BY <1>1, PickIn, Zenon DEF Sub
  <2>2. IsFiniteSet(s) /\ Cardinality(s) \in Nat
    BY <2>1, FiniteSenders, Zenon
  <2>3. Cardinality(s \ {Pick(s)}) = Cardinality(s) - 1
    BY <2>1, <2>2, FS_RemoveElement, Zenon
  <2> QED
    BY <2>1, <2>2, <2>3 DEF Sub
<1>2. 0 \in N
  <2> DEFINE g == [s \in Sub(0) |-> 0]
  <2>1. \A s \in Sub(0) : s = {}
    BY FiniteSenders, FS_EmptySet DEF Sub
  <2>2. SumsUpto(0, g)
    BY <2>1, Zenon DEF SumsUpto
  <2> QED
    BY <2>2, Zenon
<1>3. ASSUME NEW n \in Nat, n \in N PROVE n + 1 \in N
  <2>1. PICK f : SumsUpto(n, f)
    BY <1>3, Zenon
  <2> DEFINE g == [s \in Sub(n + 1) |-> IF s = {} THEN 0 ELSE Weight[Pick(s)] + f[s \ {Pick(s)}]]
  <2>2. \A s \in Sub(n) : s \in Sub(n + 1)
    BY FiniteSenders DEF Sub
  <2>3. \A s \in Sub(n) : g[s] = f[s]
    BY <2>1, <2>2, Zenon DEF SumsUpto
  <2>4. SumsUpto(n + 1, g)
    BY <1>1, <2>3, Zenon DEF SumsUpto
  <2> HIDE DEF g
  <2> QED
    BY <2>4
<1> HIDE DEF N
<1>4. Cardinality(Senders) \in N
  BY <1>2, <1>3, Induct, FiniteSenders, Zenon
<1>5. Sub(Cardinality(Senders)) = SUBSET Senders
  BY SendersAssumption, FS_Subset, Zenon DEF Sub
<1> QED
  BY <1>4, <1>5, Zenon DEF N, Sums, SumsUpto

\* Induction on the number of senders of a set.
LEMMA SizeInduct ==
    ASSUME NEW Z, {} \in Z,
           \A T \in SUBSET Senders : T # {} /\ (\A x \in T : T \ {x} \in Z) => T \in Z
    PROVE  \A T \in SUBSET Senders : T \in Z
<1> DEFINE N == {n \in Nat : \A T \in SUBSET Senders : Cardinality(T) = n => T \in Z}
<1>1. 0 \in N
  BY FiniteSenders, FS_EmptySet, Zenon
<1>2. ASSUME NEW n \in Nat, n \in N PROVE n + 1 \in N
  <2> SUFFICES ASSUME NEW T \in SUBSET Senders, Cardinality(T) = n + 1 PROVE T \in Z
    OBVIOUS
  <2>1. T # {}
    BY FS_EmptySet
  <2>2. ASSUME NEW x \in T PROVE T \ {x} \in Z
    <3>1. Cardinality(T \ {x}) = Cardinality(T) - 1
      BY FiniteSenders, FS_RemoveElement, Zenon
    <3>2. Cardinality(T \ {x}) = n /\ T \ {x} \in SUBSET Senders
      BY <3>1
    <3> QED
      BY <1>2, <3>2, Zenon
  <2> QED
    BY <2>1, <2>2, Zenon
<1> HIDE DEF N
<1>3. \A n \in Nat : n \in N
  BY <1>1, <1>2, Induct, Zenon
<1> QED
  BY <1>3, FiniteSenders, Zenon DEF N

\* It is determined on the subsets of any set of senders.
LEMMA SumsAgree ==
    ASSUME NEW U \in SUBSET Senders, NEW f, Sums(U, f), NEW g, Sums(Senders, g)
    PROVE  \A T \in SUBSET U : f[T] = g[T]
<1> DEFINE Z == {T \in SUBSET Senders : T \in SUBSET U => f[T] = g[T]}
<1>1. {} \in Z
  BY Zenon DEF Sums
<1>2. ASSUME NEW T \in SUBSET Senders, T # {}, \A x \in T : T \ {x} \in Z PROVE T \in Z
  <2> SUFFICES ASSUME T \in SUBSET U PROVE f[T] = g[T]
    BY Zenon
  <2>1. Pick(T) \in T
    BY <1>2, PickIn, Zenon
  <2>2. f[T \ {Pick(T)}] = g[T \ {Pick(T)}]
    BY <1>2, <2>1, Zenon
  <2>3. f[T] = Weight[Pick(T)] + f[T \ {Pick(T)}]
    BY <1>2, Zenon DEF Sums
  <2>4. g[T] = Weight[Pick(T)] + g[T \ {Pick(T)}]
    BY <1>2, Zenon DEF Sums
  <2> QED
    BY <2>2, <2>3, <2>4, Zenon
<1> HIDE DEF Z
<1>3. \A T \in SUBSET Senders : T \in Z
  BY <1>1, <1>2, SizeInduct, Zenon
<1> QED
  BY <1>3, Zenon DEF Z

\* So one such function gives the weight of every set.
LEMMA WeightSums == ASSUME NEW g, Sums(Senders, g) PROVE \A S \in SUBSET Senders : WeightOf(S) = g[S]
<1> SUFFICES ASSUME NEW S \in SUBSET Senders PROVE WeightOf(S) = g[S]
  BY Zenon
<1> DEFINE h == [s \in SUBSET S |-> g[s]]
<1>1. ASSUME NEW s \in SUBSET S
      PROVE  h[s] = IF s = {} THEN 0 ELSE Weight[Pick(s)] + h[s \ {Pick(s)}]
  <2>1. g[s] = IF s = {} THEN 0 ELSE Weight[Pick(s)] + g[s \ {Pick(s)}]
    BY Zenon DEF Sums
  <2>2. s \ {Pick(s)} \in SUBSET S
    BY Zenon
  <2> QED
    BY <2>1, <2>2, Zenon
<1>2. h = [s \in SUBSET S |-> IF s = {} THEN 0 ELSE Weight[Pick(s)] + h[s \ {Pick(s)}]]
  BY <1>1, Zenon
<1>3. Sums(S, h)
  BY <1>2, Zenon DEF Sums
<1>4. PICK F : F = CHOOSE f : Sums(S, f)
  BY Zenon
<1>5. Sums(S, F) /\ S \in SUBSET S
  BY <1>3, <1>4, Zenon
<1>6. F[S] = g[S]
  <2>1. \A T \in SUBSET S : F[T] = g[T]
    BY <1>5, SumsAgree
  <2> QED
    BY <1>5, <2>1, Zenon
<1> QED
  BY <1>4, <1>6, SumsDef, Zenon

\* The weight of a set is a number, and what each of its senders adds to the others.
LEMMA WeightFacts ==
    /\ WeightOf({}) = 0
    /\ \A T \in SUBSET Senders : WeightOf(T) \in Nat
    /\ \A T \in SUBSET Senders : \A x \in T : WeightOf(T) = Weight[x] + WeightOf(T \ {x})
<1>1. PICK g : Sums(Senders, g)
  BY SumsExist, Zenon
<1>2. g[{}] = 0 /\ \A T \in SUBSET Senders : T # {} => g[T] = Weight[Pick(T)] + g[T \ {Pick(T)}]
  BY <1>1, Zenon DEF Sums
<1>3. \A T \in SUBSET Senders : g[T] \in Nat
  <2> DEFINE Y == {T \in SUBSET Senders : g[T] \in Nat}
  <2>1. {} \in Y
    BY <1>2
  <2>2. ASSUME NEW T \in SUBSET Senders, T # {}, \A x \in T : T \ {x} \in Y PROVE T \in Y
    <3>1. Pick(T) \in T
      BY <2>2, PickIn, Zenon
    <3>2. Weight[Pick(T)] \in Nat /\ g[T \ {Pick(T)}] \in Nat
      BY <2>2, <3>1, WeightAssumption, Zenon
    <3>3. g[T] = Weight[Pick(T)] + g[T \ {Pick(T)}]
      BY <1>2, <2>2, Zenon
    <3>4. g[T] \in Nat
      BY <3>2, <3>3
    <3> QED
      BY <3>4, Zenon
  <2> HIDE DEF Y
  <2>3. \A T \in SUBSET Senders : T \in Y
    BY <2>1, <2>2, SizeInduct, Zenon
  <2> QED
    BY <2>3, Zenon DEF Y
<1> DEFINE Z == {T \in SUBSET Senders : \A x \in T : g[T] = Weight[x] + g[T \ {x}]}
<1>4. {} \in Z
  BY Zenon
<1>5. ASSUME NEW T \in SUBSET Senders, T # {}, \A x \in T : T \ {x} \in Z PROVE T \in Z
  <2> DEFINE p == Pick(T)
  <2>1. p \in T /\ g[T] = Weight[p] + g[T \ {p}]
    BY <1>2, <1>5, PickIn, Zenon
  <2>2. ASSUME NEW x \in T, x # p PROVE g[T] = Weight[x] + g[T \ {x}]
    <3> DEFINE R == (T \ {p}) \ {x}
    <3>1. T \ {p} \in Z /\ T \ {x} \in Z /\ x \in T \ {p} /\ p \in T \ {x} /\ R = (T \ {x}) \ {p}
      BY <1>5, <2>1, <2>2, Zenon
    <3>2. g[T \ {p}] = Weight[x] + g[R] /\ g[T \ {x}] = Weight[p] + g[R]
      BY <3>1, Zenon
    <3>3. Weight[x] \in Nat /\ Weight[p] \in Nat /\ g[R] \in Nat
      BY <1>3, <2>1, WeightAssumption, Zenon
    <3> HIDE DEF R, p
    <3> QED
      BY <2>1, <3>2, <3>3
  <2> HIDE DEF p
  <2> QED
    BY <2>1, <2>2, Zenon
<1> HIDE DEF Z
<1>6. \A T \in SUBSET Senders : T \in Z
  BY <1>4, <1>5, SizeInduct, Zenon
<1> QED
  BY <1>1, <1>2, <1>3, <1>6, WeightSums DEF Z

\* The weight of a set with one sender more.
LEMMA WeightAdd ==
    ASSUME NEW T \in SUBSET Senders, NEW x \in Senders, x \notin T
    PROVE  WeightOf(T \cup {x}) = Weight[x] + WeightOf(T)
<1>1. T \cup {x} \in SUBSET Senders /\ x \in T \cup {x} /\ (T \cup {x}) \ {x} = T
  BY Zenon
<1> QED
  BY <1>1, WeightFacts, Zenon

\* Weights of disjoint sets add up.
LEMMA WeightUnion ==
    ASSUME NEW S \in SUBSET Senders, NEW T \in SUBSET Senders, S \cap T = {}
    PROVE  WeightOf(S \cup T) = WeightOf(S) + WeightOf(T)
<1> DEFINE Z == {R \in SUBSET Senders : S \cap R = {} => WeightOf(S \cup R) = WeightOf(S) + WeightOf(R)}
<1>0. WeightOf(S) \in Nat
  BY WeightFacts, Zenon
<1>1. {} \in Z
  <2>1. S \cup {} = S
    BY Zenon
  <2> QED
    BY <1>0, <2>1, WeightFacts
<1>2. ASSUME NEW R \in SUBSET Senders, NEW x \in Senders \ R, R \in Z PROVE R \cup {x} \in Z
  <2> SUFFICES ASSUME S \cap (R \cup {x}) = {}
               PROVE  WeightOf(S \cup (R \cup {x})) = WeightOf(S) + WeightOf(R \cup {x})
    BY Zenon
  <2>1. S \cup (R \cup {x}) = (S \cup R) \cup {x} /\ x \notin S \cup R /\ S \cap R = {} /\ S \cup R \in SUBSET Senders
    BY Zenon
  <2>2. WeightOf((S \cup R) \cup {x}) = Weight[x] + WeightOf(S \cup R)
    BY <2>1, WeightAdd, Zenon
  <2>3. WeightOf(R \cup {x}) = Weight[x] + WeightOf(R)
    BY WeightAdd, Zenon
  <2>4. WeightOf(S \cup R) = WeightOf(S) + WeightOf(R)
    BY <1>2, <2>1, Zenon
  <2>5. Weight[x] \in Nat /\ WeightOf(R) \in Nat
    BY WeightAssumption, WeightFacts, Zenon
  <2>6. WeightOf(S \cup (R \cup {x})) = Weight[x] + WeightOf(S \cup R)
    BY <2>1, <2>2, Zenon
  <2> QED
    BY <1>0, <2>3, <2>4, <2>5, <2>6
<1> HIDE DEF Z
<1>3. \A R \in SUBSET Senders : R \in Z
  BY <1>1, <1>2, SetInduct, SendersAssumption, Zenon
<1> QED
  BY <1>3, Zenon DEF Z

\* A subset weighs no more.
LEMMA WeightMonotone ==
    ASSUME NEW T \in SUBSET Senders, NEW S \in SUBSET T
    PROVE  WeightOf(S) <= WeightOf(T) /\ WeightOf(S) \in Nat /\ WeightOf(T) \in Nat
<1>1. S \in SUBSET Senders /\ T \ S \in SUBSET Senders /\ S \cap (T \ S) = {} /\ S \cup (T \ S) = T
  BY Zenon
<1>2. WeightOf(T) = WeightOf(S) + WeightOf(T \ S)
  BY <1>1, WeightUnion, Zenon
<1>3. WeightOf(S) \in Nat /\ WeightOf(T \ S) \in Nat /\ WeightOf(T) \in Nat
  BY <1>1, WeightFacts, Zenon
<1> QED
  BY <1>2, <1>3

\* Every sender has some weight.
LEMMA WeightSize == \A T \in SUBSET Senders : Cardinality(T) <= WeightOf(T)
<1> DEFINE Z == {T \in SUBSET Senders : Cardinality(T) <= WeightOf(T)}
<1>1. {} \in Z
  BY WeightFacts, FS_EmptySet
<1>2. ASSUME NEW R \in SUBSET Senders, NEW x \in Senders \ R, R \in Z PROVE R \cup {x} \in Z
  <2>1. WeightOf(R \cup {x}) = Weight[x] + WeightOf(R)
    BY WeightAdd, Zenon
  <2>2. Cardinality(R \cup {x}) = Cardinality(R) + 1 /\ Cardinality(R) \in Nat
    BY FiniteSenders, FS_AddElement, Zenon
  <2>3. Weight[x] \in Nat /\ Weight[x] >= 1 /\ WeightOf(R) \in Nat
    BY WeightAssumption, WeightFacts
  <2> QED
    BY <1>2, <2>1, <2>2, <2>3
<1> HIDE DEF Z
<1>3. \A T \in SUBSET Senders : T \in Z
  BY <1>1, <1>2, SetInduct, SendersAssumption, Zenon
<1> QED
  BY <1>3, Zenon DEF Z

----------------------------------------------------------------------------
(* The order of genBundle, and what it packs.                              *)

\* genBundle's order, by weight and then by address, is a strict total order.
LEMMA BeforeOrder ==
    /\ \A r, s \in Senders : r = s \/ Before(r, s) \/ Before(s, r)
    /\ \A r, s, u \in Senders : Before(r, s) /\ Before(s, u) => Before(r, u)
    /\ \A r, s \in Senders : Before(r, s) => ~Before(s, r) /\ r # s
<1>1. \A s \in Senders : s \in Int /\ Weight[s] \in Int
  BY SendersAssumption, WeightAssumption
<1> QED
  BY <1>1 DEF Before

\* A nonempty set of senders has a first in that order.
LEMMA FirstSender ==
    ASSUME NEW T \in SUBSET Senders, T # {}
    PROVE  \E f \in T : \A r \in T : r = f \/ Before(f, r)
<1> DEFINE Z == {R \in SUBSET Senders : R # {} => \E f \in R : \A r \in R : r = f \/ Before(f, r)}
<1>1. {} \in Z
  BY Zenon
<1>2. ASSUME NEW R \in SUBSET Senders, NEW x \in Senders \ R, R \in Z PROVE R \cup {x} \in Z
  <2>1. CASE R = {}
    BY <2>1, Zenon
  <2>2. CASE R # {}
    <3>1. PICK f \in R : \A r \in R : r = f \/ Before(f, r)
      BY <1>2, <2>2, Zenon
    <3>2. Before(x, f) \/ Before(f, x)
      BY BeforeOrder, Zenon
    <3> QED
      BY <3>1, <3>2, BeforeOrder
  <2> QED
    BY <2>1, <2>2, Zenon
<1> HIDE DEF Z
<1>3. \A R \in SUBSET Senders : R \in Z
  BY <1>1, <1>2, SetInduct, SendersAssumption, Zenon
<1> QED
  BY <1>3, Zenon DEF Z

\* And a last one.
LEMMA LastSender ==
    ASSUME NEW T \in SUBSET Senders, T # {}
    PROVE  \E f \in T : \A r \in T : r = f \/ Before(r, f)
<1> DEFINE Z == {R \in SUBSET Senders : R # {} => \E f \in R : \A r \in R : r = f \/ Before(r, f)}
<1>1. {} \in Z
  BY Zenon
<1>2. ASSUME NEW R \in SUBSET Senders, NEW x \in Senders \ R, R \in Z PROVE R \cup {x} \in Z
  <2>1. CASE R = {}
    BY <2>1, Zenon
  <2>2. CASE R # {}
    <3>1. PICK f \in R : \A r \in R : r = f \/ Before(r, f)
      BY <1>2, <2>2, Zenon
    <3>2. Before(x, f) \/ Before(f, x)
      BY BeforeOrder, Zenon
    <3> QED
      BY <3>1, <3>2, BeforeOrder, Zenon
  <2> QED
    BY <2>1, <2>2, Zenon
<1> HIDE DEF Z
<1>3. \A R \in SUBSET Senders : R \in Z
  BY <1>1, <1>2, SetInduct, SendersAssumption, Zenon
<1> QED
  BY <1>3, Zenon DEF Z

Ahead(S, s) == {r \in S : Before(r, s)}

\* Pack takes the senders before whom the quorum was not yet reached.
LEMMA PackDef ==
    ASSUME NEW S \in SUBSET Senders, NEW p \in Nat
    PROVE  /\ Pack(S, p) \in SUBSET S
           /\ \A s \in S : s \in Pack(S, p) <=> p + WeightOf(Ahead(S, s)) < Quorum
<1>1. \A s \in S : WeightOf(Ahead(S, s)) \in Nat
  BY WeightFacts, Zenon DEF Ahead
<1> QED
  BY <1>1, QuorumAssumption DEF Pack, Ahead, reachesQuorum

\* What is packed reaches the quorum when the whole set does.
LEMMA PackReaches ==
    ASSUME NEW S \in SUBSET Senders, NEW p \in Nat, p + WeightOf(S) >= Quorum
    PROVE  p + WeightOf(Pack(S, p)) >= Quorum
<1> DEFINE P == Pack(S, p)
<1>0. P \in SUBSET S
  BY PackDef, Zenon
<1>1. CASE P = S
  BY <1>1, Zenon
<1>2. CASE P # S
  <2>1. PICK f \in S \ P : \A r \in S \ P : r = f \/ Before(f, r)
    BY <1>0, <1>2, FirstSender, Zenon
  <2>2. p + WeightOf(Ahead(S, f)) >= Quorum
    BY <2>1, PackDef, WeightFacts, QuorumAssumption DEF Ahead
  <2>3. Ahead(S, f) \in SUBSET P
    BY <2>1, BeforeOrder, Zenon DEF Ahead
  <2>4. WeightOf(Ahead(S, f)) <= WeightOf(P) /\ WeightOf(Ahead(S, f)) \in Nat /\ WeightOf(P) \in Nat
    BY <1>0, <2>3, WeightMonotone, Zenon
  <2> QED
    BY <2>2, <2>4, QuorumAssumption
<1> QED
  BY <1>1, <1>2, Zenon

\* Something is packed.
LEMMA PackSome ==
    ASSUME NEW S \in SUBSET Senders, S # {}
    PROVE  Pack(S, 0) # {}
<1>1. PICK f \in S : \A r \in S : r = f \/ Before(f, r)
  BY FirstSender, Zenon
<1>2. Ahead(S, f) = {}
  BY <1>1, BeforeOrder, Zenon DEF Ahead
<1>3. 0 + WeightOf(Ahead(S, f)) < Quorum
  BY <1>2, WeightFacts, QuorumAssumption
<1> QED
  BY <1>1, <1>3, PackDef, Zenon

\* Every packed sender weighs at least 1, so no more than Quorum are packed.
LEMMA PackSmall ==
    ASSUME NEW S \in SUBSET Senders, NEW p \in Nat, Pack(S, p) # {}
    PROVE  p + Cardinality(Pack(S, p)) <= Quorum
<1> DEFINE P == Pack(S, p)
<1>0. P \in SUBSET S
  BY PackDef, Zenon
<1>1. PICK l \in P : \A r \in P : r = l \/ Before(r, l)
  BY <1>0, LastSender, Zenon
<1>2. p + WeightOf(Ahead(S, l)) < Quorum
  BY <1>0, <1>1, PackDef, Zenon
<1>3. P \ {l} \in SUBSET Ahead(S, l) /\ Ahead(S, l) \in SUBSET Senders
  BY <1>0, <1>1, Zenon DEF Ahead
<1>4. WeightOf(P \ {l}) <= WeightOf(Ahead(S, l)) /\ WeightOf(P \ {l}) \in Nat /\ WeightOf(Ahead(S, l)) \in Nat
  BY <1>3, WeightMonotone, Zenon
<1>5. Cardinality(P \ {l}) <= WeightOf(P \ {l})
  BY <1>3, WeightSize, Zenon
<1>6. Cardinality(P \ {l}) = Cardinality(P) - 1 /\ Cardinality(P) \in Nat
  BY <1>0, <1>1, FiniteSenders, FS_RemoveElement
<1> HIDE DEF P
<1>7. p + Cardinality(P) <= Quorum
  BY <1>2, <1>4, <1>5, <1>6, QuorumAssumption
<1> QED
  BY <1>7, Zenon DEF P

\* What genBundle packs of a quorum is a quorum that unauthenticatedBundle.verify accepts.
LEMMA PackedQuorum ==
    ASSUME NEW S \in SUBSET Senders, S # {}, NEW E \in SUBSET Senders, S \cap E = {},
           WeightOf(S) + WeightOf(E) >= Quorum,
           NEW V, V = Pack(S, 0), NEW F, F = Pack(E, WeightOf(V))
    PROVE  V # {} /\ V \in SUBSET S /\ F \in SUBSET E /\ validBundle(V, F)
<1>1. V # {} /\ V \in SUBSET S /\ V \in SUBSET Senders
  BY PackSome, PackDef, Zenon
<1>2. WeightOf(V) \in Nat /\ WeightOf(S) \in Nat /\ WeightOf(E) \in Nat
  BY <1>1, WeightFacts, Zenon
<1>3. F \in SUBSET E /\ F \in SUBSET Senders
  BY <1>2, PackDef, Zenon
<1>4. WeightOf(F) \in Nat
  BY <1>3, WeightFacts, Zenon
<1>5. WeightOf(V) + WeightOf(F) >= Quorum
  <2>1. CASE WeightOf(S) >= Quorum
    <3>1. 0 + WeightOf(S) >= Quorum
      BY <1>2, <2>1
    <3>2. 0 + WeightOf(V) >= Quorum
      BY <3>1, PackReaches, Zenon
    <3> QED
      BY <1>2, <1>4, <3>2, QuorumAssumption
  <2>2. CASE ~(WeightOf(S) >= Quorum)
    <3>1. ASSUME NEW s \in S PROVE s \in V
      <4>1. Ahead(S, s) \in SUBSET S
        BY Zenon DEF Ahead
      <4>2. WeightOf(Ahead(S, s)) <= WeightOf(S) /\ WeightOf(Ahead(S, s)) \in Nat
        BY <4>1, WeightMonotone, Zenon
      <4>3. 0 + WeightOf(Ahead(S, s)) < Quorum
        BY <1>2, <2>2, <4>2, QuorumAssumption
      <4> QED
        BY <4>3, PackDef, Zenon
    <3>2. V = S
      BY <1>1, <3>1, Zenon
    <3>3. WeightOf(V) + WeightOf(E) >= Quorum
      BY <3>2, Zenon
    <3> QED
      BY <1>2, <3>3, PackReaches, Zenon
  <2> QED
    BY <2>1, <2>2, Zenon
<1>6. Cardinality(V) \in Nat /\ Cardinality(F) \in Nat /\ Cardinality(V) <= WeightOf(V)
  BY <1>1, <1>3, FiniteSenders, WeightSize, Zenon
<1>7. Cardinality(V) + Cardinality(F) <= Quorum
  <2>1. CASE F = {}
    <3>1. 0 + Cardinality(V) <= Quorum
      BY <1>1, PackSmall, Zenon
    <3> QED
      BY <1>6, <2>1, <3>1, FS_EmptySet, QuorumAssumption
  <2>2. CASE F # {}
    <3>1. WeightOf(V) + Cardinality(F) <= Quorum
      BY <1>2, <2>2, PackSmall, Zenon
    <3> QED
      BY <1>2, <1>6, <3>1, QuorumAssumption
  <2> QED
    BY <2>1, <2>2, Zenon
<1>8. V \cap F = {}
  BY <1>1, <1>3, Zenon
<1> QED
  BY <1>1, <1>3, <1>5, <1>7, <1>8, Zenon DEF validBundle, reachesQuorum

----------------------------------------------------------------------------
(* The tracker that a set of votes determines.                             *)

CastIn(sn, s) == {v \in Values : <<s, v>> \in sn}
PlainIn(sn, v) == {s \in Senders : CastIn(sn, s) = {v}}
EquivIn(sn) == {s \in Senders : \E v, w \in CastIn(sn, s) : v # w}
VotersIn(sn) == {s \in Senders : \E v \in Values : s \in PlainIn(sn, v)}
ReachedIn(sn) ==
    {v \in Values : PlainIn(sn, v) # {} /\ reachesQuorum(WeightOf(PlainIn(sn, v) \cup EquivIn(sn)))}

\* Votes that only faulty senders cast for two values.
Legal(sn) ==
    /\ sn \in SUBSET (Senders \X Values)
    /\ EquivIn(sn) \in SUBSET Faulty

Tracker(voters, counts, pairs, n) ==
    [Voters |-> voters, Counts |-> counts, Equivocators |-> pairs, EquivocatorsCount |-> n]
Tally(S) == [Count |-> WeightOf(S), Votes |-> S]

VotersFor(sn, f) == f = [s \in VotersIn(sn) |-> f[s]] /\ \A s \in VotersIn(sn) : CastIn(sn, s) = {f[s]}
CountsFor(sn) == [v \in {u \in Values : PlainIn(sn, u) # {}} |-> Tally(PlainIn(sn, v))]
PairsFor(sn, f) ==
    /\ f \in [EquivIn(sn) -> Pairs]
    /\ \A s \in EquivIn(sn) : <<s, f[s][1]>> \in sn /\ <<s, f[s][2]>> \in sn

Match(t, sn) ==
    \E f, g : /\ VotersFor(sn, f)
              /\ PairsFor(sn, g)
              /\ t = Tracker(f, CountsFor(sn), g, WeightOf(EquivIn(sn)))

\* The fields of a tracker.
LEMMA TrackerFields ==
    ASSUME NEW f, NEW c, NEW g, NEW n
    PROVE  /\ Tracker(f, c, g, n).Voters = f
           /\ Tracker(f, c, g, n).Counts = c
           /\ Tracker(f, c, g, n).Equivocators = g
           /\ Tracker(f, c, g, n).EquivocatorsCount = n
BY Zenon DEF Tracker

\* A sender has voted for one value, for more, or for none.
LEMMA Kinds ==
    ASSUME NEW sn
    PROVE  /\ \A v \in Values : PlainIn(sn, v) \in SUBSET Senders /\ PlainIn(sn, v) \cap EquivIn(sn) = {}
           /\ \A v, w \in Values : v # w => PlainIn(sn, v) \cap PlainIn(sn, w) = {}
           /\ EquivIn(sn) \in SUBSET Senders
           /\ VotersIn(sn) \cap EquivIn(sn) = {}
           /\ \A s \in Senders : s \in VotersIn(sn) \/ s \in EquivIn(sn) \/ CastIn(sn, s) = {}
<1>1. \A v \in Values : PlainIn(sn, v) \in SUBSET Senders /\ PlainIn(sn, v) \cap EquivIn(sn) = {}
  BY Zenon DEF PlainIn, EquivIn
<1>2. \A v, w \in Values : v # w => PlainIn(sn, v) \cap PlainIn(sn, w) = {}
  BY Zenon DEF PlainIn
<1>3. EquivIn(sn) \in SUBSET Senders
  BY Zenon DEF EquivIn
<1>4. VotersIn(sn) \cap EquivIn(sn) = {}
  BY <1>1, Zenon DEF VotersIn
<1>5. ASSUME NEW s \in Senders, s \notin EquivIn(sn), CastIn(sn, s) # {} PROVE s \in VotersIn(sn)
  <2>1. PICK v \in Values : v \in CastIn(sn, s)
    BY <1>5, Zenon DEF CastIn
  <2>2. CastIn(sn, s) = {v}
    BY <1>5, <2>1, Zenon DEF EquivIn
  <2> QED
    BY <2>1, <2>2, Zenon DEF VotersIn, PlainIn
<1> QED
  BY <1>1, <1>2, <1>3, <1>4, <1>5, Zenon

\* The equivocators are faulty, and do not reach the quorum alone.
LEMMA FewEquivocators ==
    ASSUME NEW sn, Legal(sn)
    PROVE  /\ WeightOf(EquivIn(sn)) <= WeightOf(Faulty)
           /\ WeightOf(EquivIn(sn)) \in Nat
           /\ ~reachesQuorum(WeightOf(EquivIn(sn)))
<1>1. WeightOf(EquivIn(sn)) <= WeightOf(Faulty) /\ WeightOf(EquivIn(sn)) \in Nat /\ WeightOf(Faulty) \in Nat
  BY WeightMonotone, EquivocationAssumption, Zenon DEF Legal
<1>2. WeightOf(Faulty) <= WeightOf(Senders) /\ WeightOf(Senders) \in Nat
  BY WeightMonotone, EquivocationAssumption, Zenon
<1> QED
  BY <1>1, <1>2, EquivocationAssumption, QuorumAssumption DEF reachesQuorum

\* Two quorums share a sender that votes for one value only.
LEMMA ReachedOne ==
    ASSUME NEW sn, Legal(sn), NEW v \in ReachedIn(sn), NEW w \in ReachedIn(sn)
    PROVE  v = w
<1> SUFFICES ASSUME v # w PROVE FALSE
  BY Zenon
<1> DEFINE P == PlainIn(sn, v)
           R == PlainIn(sn, w)
           E == EquivIn(sn)
<1>1. P \in SUBSET Senders /\ R \in SUBSET Senders /\ E \in SUBSET Senders
      /\ P \cap R = {} /\ P \cap E = {} /\ R \cap E = {}
  BY Kinds, Zenon DEF ReachedIn
<1>2. WeightOf(P \cup E) >= Quorum /\ WeightOf(R \cup E) >= Quorum
  BY Zenon DEF ReachedIn, reachesQuorum
<1> HIDE DEF P, R, E
<1>3. WeightOf(P \cup E) = WeightOf(P) + WeightOf(E) /\ WeightOf(R \cup E) = WeightOf(R) + WeightOf(E)
  BY <1>1, WeightUnion, Zenon
<1>4. WeightOf(P \cup (R \cup E)) = WeightOf(P) + WeightOf(R \cup E)
  BY <1>1, WeightUnion, Zenon
<1>5. WeightOf(P \cup (R \cup E)) <= WeightOf(Senders)
  <2>1. P \cup (R \cup E) \in SUBSET Senders
    BY <1>1, Zenon
  <2> QED
    BY <2>1, WeightMonotone, Zenon
<1>6. WeightOf(P) \in Nat /\ WeightOf(R) \in Nat /\ WeightOf(E) \in Nat /\ WeightOf(Senders) \in Nat /\ WeightOf(Faulty) \in Nat
  BY <1>1, WeightFacts, EquivocationAssumption, Zenon
<1>7. WeightOf(E) <= WeightOf(Faulty)
  BY FewEquivocators, Zenon DEF E
<1>8. WeightOf(P) + WeightOf(R) + WeightOf(E) <= WeightOf(Senders)
  BY <1>3, <1>4, <1>5, <1>6
<1>9. WeightOf(P) + WeightOf(E) >= Quorum /\ WeightOf(R) + WeightOf(E) >= Quorum
  BY <1>2, <1>3, Zenon
<1>10. WeightOf(Senders) + WeightOf(Faulty) < 2 * Quorum
  BY EquivocationAssumption, Zenon
<1> QED
  BY <1>6, <1>7, <1>8, <1>9, <1>10, QuorumAssumption

\* More votes move plain voters to the equivocators, and lose none.
LEMMA MoreVotes ==
    ASSUME NEW sn, NEW sn2, sn \subseteq sn2, NEW v \in Values
    PROVE  /\ PlainIn(sn, v) \cup EquivIn(sn) \in SUBSET (PlainIn(sn2, v) \cup EquivIn(sn2))
           /\ EquivIn(sn) \in SUBSET EquivIn(sn2)
<1>1. \A s : CastIn(sn, s) \subseteq CastIn(sn2, s)
  BY Zenon DEF CastIn
<1>2. EquivIn(sn) \in SUBSET EquivIn(sn2)
  BY <1>1, Zenon DEF EquivIn
<1>3. ASSUME NEW s \in PlainIn(sn, v) PROVE s \in PlainIn(sn2, v) \cup EquivIn(sn2)
  <2>1. s \in Senders /\ v \in CastIn(sn2, s)
    BY <1>1, Zenon DEF PlainIn
  <2>2. CASE CastIn(sn2, s) = {v}
    BY <2>1, <2>2, Zenon DEF PlainIn
  <2>3. CASE \E w \in CastIn(sn2, s) : w # v
    BY <2>1, <2>3, Zenon DEF EquivIn
  <2> QED
    BY <2>1, <2>2, <2>3, Zenon
<1> QED
  BY <1>2, <1>3, Zenon

\* A value that reached the quorum keeps it when there are more votes: a voter that
\* equivocates leaves the value's count and enters the equivocators'.
LEMMA ReachedStays ==
    ASSUME NEW sn, NEW sn2, sn \subseteq sn2, Legal(sn2)
    PROVE  /\ Legal(sn)
           /\ ReachedIn(sn) \in SUBSET ReachedIn(sn2)
<1>1. Legal(sn)
  <2>1. CASE Values = {}
    BY <2>1, Zenon DEF Legal, EquivIn, CastIn
  <2>2. CASE Values # {}
    BY <2>2, MoreVotes, Zenon DEF Legal
  <2> QED
    BY <2>1, <2>2, Zenon
<1>2. ASSUME NEW v \in ReachedIn(sn) PROVE v \in ReachedIn(sn2)
  <2> DEFINE A == PlainIn(sn, v) \cup EquivIn(sn)
             B == PlainIn(sn2, v) \cup EquivIn(sn2)
  <2>1. v \in Values /\ WeightOf(A) >= Quorum
    BY Zenon DEF ReachedIn, reachesQuorum
  <2>2. A \in SUBSET B /\ B \in SUBSET Senders
    BY <2>1, MoreVotes, Kinds, Zenon
  <2>3. WeightOf(B) >= Quorum
    <3> HIDE DEF A, B
    <3>1. WeightOf(A) <= WeightOf(B) /\ WeightOf(A) \in Nat /\ WeightOf(B) \in Nat
      BY <2>2, WeightMonotone, Zenon
    <3> QED
      BY <2>1, <3>1, QuorumAssumption
  <2>4. PlainIn(sn2, v) # {}
    <3> SUFFICES ASSUME PlainIn(sn2, v) = {} PROVE FALSE
      BY Zenon
    <3>1. B = EquivIn(sn2)
      BY Zenon
    <3> QED
      BY <2>3, <3>1, FewEquivocators, Zenon DEF reachesQuorum
  <2> QED
    BY <2>1, <2>3, <2>4, Zenon DEF ReachedIn, reachesQuorum
<1> QED
  BY <1>1, <1>2, Zenon

----------------------------------------------------------------------------
(* The threshold event of a tracker.                                       *)

Event(v, b) == [T |-> "threshold", Proposal |-> v, Bundle |-> b]

\* b is a bundle for v, of votes in sn, that unauthenticatedBundle.verify accepts.
Proves(b, v, sn) ==
    /\ b.Proposal = v
    /\ validBundle(b.Votes, DOMAIN b.EquivocationVotes)
    /\ \A s \in b.Votes : <<s, v>> \in sn
    /\ \A s \in DOMAIN b.EquivocationVotes :
          /\ b.EquivocationVotes[s] \in Pairs
          /\ <<s, b.EquivocationVotes[s][1]>> \in sn
          /\ <<s, b.EquivocationVotes[s][2]>> \in sn

\* overThreshold finds the values that reach the quorum.
LEMMA OverIsReached ==
    ASSUME NEW sn, NEW t, Match(t, sn)
    PROVE  overThreshold(t) = ReachedIn(sn)
<1>1. PICK f, g : t = Tracker(f, CountsFor(sn), g, WeightOf(EquivIn(sn)))
  BY Zenon DEF Match
<1>2. t.Counts = CountsFor(sn) /\ t.EquivocatorsCount = WeightOf(EquivIn(sn))
  BY <1>1, TrackerFields
<1>3. DOMAIN t.Counts = {u \in Values : PlainIn(sn, u) # {}}
  BY <1>2, Zenon DEF CountsFor
<1>4. ASSUME NEW v \in DOMAIN t.Counts
      PROVE  count(t, v) = WeightOf(PlainIn(sn, v) \cup EquivIn(sn))
  <2>1. t.Counts[v].Count = WeightOf(PlainIn(sn, v))
    BY <1>2, <1>3 DEF CountsFor, Tally
  <2>2. WeightOf(PlainIn(sn, v) \cup EquivIn(sn)) = WeightOf(PlainIn(sn, v)) + WeightOf(EquivIn(sn))
    BY <1>3, Kinds, WeightUnion, Zenon
  <2> QED
    BY <1>2, <2>1, <2>2, Zenon DEF count
<1> QED
  BY <1>3, <1>4, Zenon DEF overThreshold, ReachedIn

\* The bundle of a value that reached the quorum proves it, and packing does not panic.
LEMMA GoodBundle ==
    ASSUME NEW sn, Legal(sn), NEW t, Match(t, sn), NEW v \in ReachedIn(sn), NEW b, b = genBundle(t, v)
    PROVE  Proves(b, v, sn) /\ ~makeBundlePanics(b)
<1>1. PICK f, g : PairsFor(sn, g) /\ t = Tracker(f, CountsFor(sn), g, WeightOf(EquivIn(sn)))
  BY Zenon DEF Match
<1>2. t.Counts = CountsFor(sn) /\ t.Equivocators = g
  BY <1>1, TrackerFields
<1>3. v \in Values /\ PlainIn(sn, v) # {} /\ WeightOf(PlainIn(sn, v) \cup EquivIn(sn)) >= Quorum
  BY Zenon DEF ReachedIn, reachesQuorum
<1>4. t.Counts[v].Votes = PlainIn(sn, v)
  BY <1>2, <1>3 DEF CountsFor, Tally
<1>5. DOMAIN g = EquivIn(sn)
  BY <1>1, Zenon DEF PairsFor
<1> DEFINE V == Pack(PlainIn(sn, v), 0)
           F == Pack(EquivIn(sn), WeightOf(V))
<1>6. b = [Proposal |-> v, Votes |-> V, EquivocationVotes |-> [s \in F |-> g[s]]]
  BY <1>2, <1>4, <1>5, Zenon DEF genBundle, BundleOf, Restrict
<1>7. V # {} /\ V \in SUBSET PlainIn(sn, v) /\ F \in SUBSET EquivIn(sn) /\ validBundle(V, F)
  <2>1. WeightOf(PlainIn(sn, v)) + WeightOf(EquivIn(sn)) >= Quorum
    BY <1>3, Kinds, WeightUnion, Zenon
  <2> QED
    BY <1>3, <2>1, Kinds, PackedQuorum
<1> HIDE DEF V, F
<1>8. b.Proposal = v /\ b.Votes = V /\ DOMAIN b.EquivocationVotes = F /\ \A s \in F : b.EquivocationVotes[s] = g[s]
  BY <1>6
<1>9. \A s \in V : <<s, v>> \in sn
  BY <1>7, Zenon DEF PlainIn, CastIn
<1>10. \A s \in F : g[s] \in Pairs /\ <<s, g[s][1]>> \in sn /\ <<s, g[s][2]>> \in sn
  BY <1>1, <1>7, Zenon DEF PairsFor
<1>11. Proves(b, v, sn)
  BY <1>7, <1>8, <1>9, <1>10, Zenon DEF Proves
<1>12. ~makeBundlePanics(b)
  BY <1>7, <1>8, Zenon DEF makeBundlePanics, validBundle
<1> QED
  BY <1>11, <1>12, Zenon

\* What a call of handle must return when the votes handled grow from sn to sn2.
Returns(r, sn, sn2) ==
    /\ Match(r.tracker, sn2)
    /\ r.panic = FALSE
    /\ ReachedIn(sn) # {} \/ ReachedIn(sn2) = {} => r.event = None
    /\ ReachedIn(sn) = {} /\ ReachedIn(sn2) # {} =>
          \E v, b : ReachedIn(sn2) = {v} /\ r.event = Event(v, b) /\ Proves(b, v, sn2)

\* The fields of what handle returns.
LEMMA ResultFields ==
    ASSUME NEW t, NEW e, NEW p
    PROVE  Result(t, e, p).tracker = t /\ Result(t, e, p).event = e /\ Result(t, e, p).panic = p
BY Zenon DEF Result

\* The panic for two values over the threshold is not reached.
LEMMA ReachedSize ==
    ASSUME NEW sn, Legal(sn)
    PROVE  /\ ~(Cardinality(ReachedIn(sn)) > 1)
           /\ \A v \in ReachedIn(sn) : ReachedIn(sn) = {v}
<1>1. CASE ReachedIn(sn) = {}
  BY <1>1, FS_EmptySet
<1>2. CASE ReachedIn(sn) # {}
  <2>1. PICK v : v \in ReachedIn(sn)
    BY <1>2, Zenon
  <2>2. ReachedIn(sn) = {v}
    BY <2>1, ReachedOne
  <2> QED
    BY <2>2, FS_Singleton
<1> QED
  BY <1>1, <1>2, Zenon

\* The end of handle: an event exactly if the quorum was reached by this vote.
LEMMA EmitReturns ==
    ASSUME NEW sn, NEW sn2, sn \subseteq sn2, Legal(sn2),
           NEW t0, Match(t0, sn), NEW t, Match(t, sn2)
    PROVE  Returns(Emit(t0, t), sn, sn2) /\ Emit(t0, t).tracker = t
<1>1. Legal(sn)
  BY ReachedStays, Zenon
<1>2. overThreshold(t0) = ReachedIn(sn) /\ overThreshold(t) = ReachedIn(sn2)
  BY OverIsReached, Zenon
<1>3. ~(Cardinality(ReachedIn(sn)) > 1) /\ ~(Cardinality(ReachedIn(sn2)) > 1)
  BY <1>1, ReachedSize, Zenon
<1>4. CASE ReachedIn(sn) # {} \/ ReachedIn(sn2) = {}
  <2>1. Emit(t0, t) = Result(t, None, FALSE)
    BY <1>2, <1>3, <1>4, Zenon DEF Emit, EmitOver
  <2>2. Emit(t0, t).tracker = t /\ Emit(t0, t).event = None /\ Emit(t0, t).panic = FALSE
    BY <2>1 DEF Result
  <2>3. Returns(Emit(t0, t), sn, sn2)
    BY <1>4, <2>2, Zenon DEF Returns
  <2> QED
    BY <2>2, <2>3, Zenon
<1>5. CASE ReachedIn(sn) = {} /\ ReachedIn(sn2) # {}
  <2>1. PICK v : v = CHOOSE u \in ReachedIn(sn2) : TRUE
    BY Zenon
  <2>2. v \in ReachedIn(sn2)
    BY <1>5, <2>1, Zenon
  <2>3. PICK b : b = genBundle(t, v)
    BY Zenon
  <2>4. Emit(t0, t) = Threshold(t, b)
    BY <1>2, <1>3, <1>5, <2>1, <2>3, Zenon DEF Emit, EmitOver
  <2>5. Proves(b, v, sn2) /\ makeBundlePanics(b) = FALSE
    BY <2>2, <2>3, GoodBundle, Zenon DEF makeBundlePanics
  <2>6. Emit(t0, t) = Result(t, Event(v, b), FALSE)
    <3>1. b.Proposal = v
      BY <2>5, Zenon DEF Proves
    <3> QED
      BY <2>4, <2>5, <3>1, Zenon DEF Threshold, Event
  <2>7. ReachedIn(sn2) = {v}
    BY <2>2, ReachedSize, Zenon
  <2>8. Emit(t0, t).tracker = t /\ Emit(t0, t).event = Event(v, b) /\ Emit(t0, t).panic = FALSE
    BY <2>6 DEF Result
  <2>9. Returns(Emit(t0, t), sn, sn2)
    BY <1>5, <2>5, <2>7, <2>8, Zenon DEF Returns
  <2> QED
    BY <2>8, <2>9, Zenon
<1> QED
  BY <1>4, <1>5, Zenon

----------------------------------------------------------------------------
(* handle: one more vote.                                                  *)

\* The votes of sn and sn2 count alike.
SameTally(sn, sn2) == EquivIn(sn2) = EquivIn(sn) /\ \A u \in Values : PlainIn(sn2, u) = PlainIn(sn, u)

\* Votes that change no tally change neither the counts nor what reached the quorum.
LEMMA SameTallySame ==
    ASSUME NEW sn, NEW sn2, SameTally(sn, sn2)
    PROVE  /\ CountsFor(sn2) = CountsFor(sn)
           /\ ReachedIn(sn2) = ReachedIn(sn)
           /\ VotersIn(sn2) = VotersIn(sn)
BY Zenon DEF SameTally, CountsFor, ReachedIn, VotersIn

\* Nor the tracker.
LEMMA SameMatch ==
    ASSUME NEW sn, NEW sn2, sn \subseteq sn2, SameTally(sn, sn2), NEW t, Match(t, sn)
    PROVE  Match(t, sn2)
<1>1. PICK f, g : /\ VotersFor(sn, f) /\ PairsFor(sn, g)
                  /\ t = Tracker(f, CountsFor(sn), g, WeightOf(EquivIn(sn)))
  BY Zenon DEF Match
<1>2. VotersFor(sn2, f)
  <2>1. VotersIn(sn2) = VotersIn(sn)
    BY SameTallySame, Zenon
  <2>2. ASSUME NEW s \in VotersIn(sn) PROVE CastIn(sn2, s) = CastIn(sn, s)
    BY <2>1, Zenon DEF VotersIn, SameTally, PlainIn
  <2> QED
    BY <1>1, <2>1, <2>2, Zenon DEF VotersFor
<1>3. PairsFor(sn2, g)
  BY <1>1, Zenon DEF PairsFor, SameTally
<1>4. t = Tracker(f, CountsFor(sn2), g, WeightOf(EquivIn(sn2)))
  BY <1>1, SameTallySame, Zenon DEF SameTally
<1> QED
  BY <1>2, <1>3, <1>4, Zenon DEF Match

\* So handle rightly returns nothing for them.
LEMMA DuplicateReturns ==
    ASSUME NEW sn, NEW sn2, sn \subseteq sn2, SameTally(sn, sn2), NEW t, Match(t, sn)
    PROVE  Returns(Result(t, None, FALSE), sn, sn2)
<1>1. Match(t, sn2)
  BY SameMatch, Zenon
<1>2. ReachedIn(sn2) = ReachedIn(sn)
  BY SameTallySame, Zenon
<1> QED
  BY <1>1, <1>2, Zenon DEF Returns, Result

\* One vote more changes what its sender cast.
LEMMA CastAdd ==
    ASSUME NEW sn, NEW s, NEW v \in Values, NEW sn2, sn2 = sn \cup {<<s, v>>}
    PROVE  /\ \A r : r # s => CastIn(sn2, r) = CastIn(sn, r)
           /\ CastIn(sn2, s) = CastIn(sn, s) \cup {v}
BY Zenon DEF CastIn

\* A further vote of an equivocator changes no tally.
LEMMA EquivocatorAgain ==
    ASSUME NEW sn, NEW s \in EquivIn(sn), NEW v \in Values, NEW sn2, sn2 = sn \cup {<<s, v>>}
    PROVE  SameTally(sn, sn2)
<1>0. s \in Senders
  BY Zenon DEF EquivIn
<1>1. (\A r : r # s => CastIn(sn2, r) = CastIn(sn, r)) /\ CastIn(sn2, s) = CastIn(sn, s) \cup {v}
  BY CastAdd
<1>2. s \in EquivIn(sn2)
  BY <1>1, Zenon DEF EquivIn
<1>3. EquivIn(sn2) = EquivIn(sn)
  BY <1>2, <1>1, Zenon DEF EquivIn
<1>4. ASSUME NEW u \in Values PROVE PlainIn(sn2, u) = PlainIn(sn, u)
  <2>1. s \notin PlainIn(sn, u) /\ s \notin PlainIn(sn2, u)
    BY <1>2, Kinds, Zenon
  <2>2. \A r \in Senders \ {s} : r \in PlainIn(sn, u) <=> r \in PlainIn(sn2, u)
    BY <1>1, Zenon DEF PlainIn
  <2>3. PlainIn(sn, u) \subseteq Senders /\ PlainIn(sn2, u) \subseteq Senders
    BY Zenon DEF PlainIn
  <2> QED
    BY <2>1, <2>2, <2>3
<1> QED
  BY <1>3, <1>4, Zenon DEF SameTally

----------------------------------------------------------------------------

\* The sets of senders after the first vote of a sender.
LEMMA FirstSets ==
    ASSUME NEW sn, NEW s \in Senders, CastIn(sn, s) = {},
           NEW v \in Values, NEW sn2, sn2 = sn \cup {<<s, v>>}
    PROVE  /\ CastIn(sn2, s) = {v}
           /\ EquivIn(sn2) = EquivIn(sn)
           /\ VotersIn(sn2) = VotersIn(sn) \cup {s}
           /\ PlainIn(sn2, v) = PlainIn(sn, v) \cup {s} /\ s \notin PlainIn(sn, v)
           /\ \A u \in Values \ {v} : PlainIn(sn2, u) = PlainIn(sn, u)
<1>1. CastIn(sn2, s) = {v}
  BY CastAdd
<1>2. EquivIn(sn2) = EquivIn(sn)
  <2>1. s \notin EquivIn(sn) /\ s \notin EquivIn(sn2)
    BY <1>1, Zenon DEF EquivIn
  <2> QED
    BY <2>1, CastAdd DEF EquivIn
<1>3. PlainIn(sn2, v) = PlainIn(sn, v) \cup {s} /\ s \notin PlainIn(sn, v)
  <2>1. \A r : r # s => CastIn(sn2, r) = CastIn(sn, r)
    BY CastAdd
  <2>2. s \notin PlainIn(sn, v)
    BY Zenon DEF PlainIn
  <2>3. ASSUME NEW r PROVE r \in PlainIn(sn2, v) <=> r \in PlainIn(sn, v) \cup {s}
    <3>1. CASE r = s
      BY <1>1, <3>1, Zenon DEF PlainIn
    <3>2. CASE r # s
      <4>1. CastIn(sn2, r) = CastIn(sn, r)
        BY <2>1, <3>2, Zenon
      <4> QED
        BY <3>2, <4>1, Zenon DEF PlainIn
    <3> QED
      BY <3>1, <3>2, Zenon
  <2> QED
    BY <2>2, <2>3, Zenon
<1>4. \A u \in Values \ {v} : PlainIn(sn2, u) = PlainIn(sn, u)
  <2>1. ASSUME NEW u \in Values \ {v}, NEW r \in Senders
        PROVE  CastIn(sn2, r) = {u} <=> CastIn(sn, r) = {u}
    <3>1. CASE r = s
      BY <1>1, <3>1, Zenon
    <3>2. CASE r # s
      BY <3>2, CastAdd
    <3> QED
      BY <3>1, <3>2, Zenon
  <2> QED
    BY <2>1, Zenon DEF PlainIn
<1>5. VotersIn(sn2) = VotersIn(sn) \cup {s}
  BY <1>3, <1>4, Zenon DEF VotersIn
<1> QED
  BY <1>1, <1>2, <1>3, <1>4, <1>5, Zenon

\* The first vote of a sender.
LEMMA FirstReturns ==
    ASSUME NEW sn, NEW s \in Senders, CastIn(sn, s) = {}, NEW v \in Values,
           NEW sn2, sn2 = sn \cup {<<s, v>>}, Legal(sn2), NEW t, Match(t, sn)
    PROVE  /\ Returns(FirstVote(t, s, v), sn, sn2)
           /\ s \in DOMAIN FirstVote(t, s, v).tracker.Voters
<1>0. /\ CastIn(sn2, s) = {v}
      /\ EquivIn(sn2) = EquivIn(sn)
      /\ VotersIn(sn2) = VotersIn(sn) \cup {s}
      /\ PlainIn(sn2, v) = PlainIn(sn, v) \cup {s} /\ s \notin PlainIn(sn, v)
      /\ \A u \in Values \ {v} : PlainIn(sn2, u) = PlainIn(sn, u)
  BY FirstSets
<1>1. PICK f, g : /\ VotersFor(sn, f) /\ PairsFor(sn, g)
                  /\ t = Tracker(f, CountsFor(sn), g, WeightOf(EquivIn(sn)))
  BY Zenon DEF Match
<1> DEFINE old == IF v \in DOMAIN t.Counts THEN t.Counts[v] ELSE [Count |-> 0, Votes |-> {}]
           new == [Count |-> old.Count + Weight[s], Votes |-> old.Votes \cup {s}]
           f2  == Put(f, s, v)
           c2  == Put(CountsFor(sn), v, new)
           t1  == Tracker(f2, c2, g, WeightOf(EquivIn(sn)))
<1>2. t.Voters = f /\ t.Counts = CountsFor(sn)
  BY <1>1, TrackerFields
<1>3. FirstVote(t, s, v) = Emit(t, t1)
  <2>1. t.Equivocators = g /\ t.EquivocatorsCount = WeightOf(EquivIn(sn))
    BY <1>1, TrackerFields
  <2> QED
    BY <1>2, <2>1, Zenon DEF FirstVote, Tracker
<1>4. VotersFor(sn2, f2)
  <2>1. DOMAIN f = VotersIn(sn)
    BY <1>1, Zenon DEF VotersFor
  <2>2. f2 = [x \in VotersIn(sn2) |-> IF x = s THEN v ELSE f[x]]
    BY <2>1, <1>0, Zenon DEF Put
  <2>3. s \notin VotersIn(sn)
    BY Zenon DEF VotersIn, PlainIn
  <2>4. ASSUME NEW r \in VotersIn(sn2) PROVE CastIn(sn2, r) = {f2[r]}
    <3>1. CASE r = s
      BY <2>2, <3>1, <1>0, Zenon
    <3>2. CASE r # s
      <4>1. CastIn(sn2, r) = CastIn(sn, r)
        BY <3>2, CastAdd
      <4>2. r \in VotersIn(sn) /\ f2[r] = f[r]
        BY <1>0, <2>2, <3>2, Zenon
      <4> QED
        BY <1>1, <4>1, <4>2, Zenon DEF VotersFor
    <3> QED
      BY <3>1, <3>2, Zenon
  <2>5. f2 = [x \in VotersIn(sn2) |-> f2[x]]
    BY <2>2, Zenon
  <2> HIDE DEF f2
  <2> QED
    BY <2>4, <2>5, Zenon DEF VotersFor
<1>5. new = Tally(PlainIn(sn2, v))
  <2>1. PlainIn(sn, v) \in SUBSET Senders /\ WeightOf(PlainIn(sn, v)) \in Nat /\ Weight[s] \in Nat
    BY Kinds, WeightFacts, WeightAssumption, Zenon
  <2>2. old = Tally(PlainIn(sn, v))
    <3>1. CASE PlainIn(sn, v) = {}
      BY <1>2, <3>1, WeightFacts, Zenon DEF CountsFor, Tally
    <3>2. CASE PlainIn(sn, v) # {}
      BY <1>2, <3>2, Zenon DEF CountsFor
    <3> QED
      BY <3>1, <3>2, Zenon
  <2>3. WeightOf(PlainIn(sn2, v)) = Weight[s] + WeightOf(PlainIn(sn, v))
    BY <2>1, <1>0, WeightAdd, Zenon
  <2>4. old.Count = WeightOf(PlainIn(sn, v)) /\ old.Votes = PlainIn(sn, v)
    BY <2>2 DEF Tally
  <2> HIDE DEF old
  <2>5. old.Count + Weight[s] = WeightOf(PlainIn(sn2, v))
    BY <2>1, <2>3, <2>4
  <2>6. old.Votes \cup {s} = PlainIn(sn2, v)
    BY <1>0, <2>4, Zenon
  <2> QED
    BY <2>5, <2>6, Zenon DEF Tally
<1> HIDE DEF new
<1>6. c2 = CountsFor(sn2)
  <2>1. DOMAIN CountsFor(sn) \cup {v} = {u \in Values : PlainIn(sn2, u) # {}}
    BY <1>0, Zenon DEF CountsFor
  <2>2. c2 = [u \in DOMAIN CountsFor(sn) \cup {v} |-> IF u = v THEN new ELSE CountsFor(sn)[u]]
    BY Zenon DEF Put
  <2>3. ASSUME NEW u \in {u \in Values : PlainIn(sn2, u) # {}}, u # v
        PROVE  CountsFor(sn)[u] = Tally(PlainIn(sn2, u))
    <3>1. PlainIn(sn2, u) = PlainIn(sn, u)
      BY <2>3, <1>0, Zenon
    <3> QED
      BY <3>1, Zenon DEF CountsFor
  <2> HIDE DEF c2
  <2> QED
    BY <1>5, <2>1, <2>2, <2>3, Zenon DEF CountsFor
<1>7. PairsFor(sn2, g)
  BY <1>1, <1>0, Zenon DEF PairsFor
<1>8. Match(t1, sn2)
  <2>1. t1 = Tracker(f2, CountsFor(sn2), g, WeightOf(EquivIn(sn2)))
    BY <1>6, <1>0, Zenon
  <2> HIDE DEF t1, f2
  <2> QED
    BY <1>4, <1>7, <2>1, Zenon DEF Match
<1>9. s \in DOMAIN t1.Voters
  BY TrackerFields DEF Put
<1> HIDE DEF t1
<1> QED
  BY <1>3, <1>8, <1>9, EmitReturns

\* The sets of senders after the second, different vote of a sender.
LEMMA SecondSets ==
    ASSUME NEW sn, NEW s \in Senders, NEW old \in Values, CastIn(sn, s) = {old},
           NEW v \in Values, v # old, NEW sn2, sn2 = sn \cup {<<s, v>>}
    PROVE  /\ EquivIn(sn2) = EquivIn(sn) \cup {s} /\ s \notin EquivIn(sn)
           /\ VotersIn(sn2) = VotersIn(sn) \ {s} /\ s \in VotersIn(sn)
           /\ PlainIn(sn2, old) = PlainIn(sn, old) \ {s} /\ s \in PlainIn(sn, old)
           /\ \A u \in Values \ {old} : PlainIn(sn2, u) = PlainIn(sn, u)
<1>0. (\A r : r # s => CastIn(sn2, r) = CastIn(sn, r)) /\ CastIn(sn2, s) = {old, v}
  BY CastAdd
<1>1. EquivIn(sn2) = EquivIn(sn) \cup {s} /\ s \notin EquivIn(sn)
  <2>1. s \notin EquivIn(sn) /\ s \in EquivIn(sn2)
    BY <1>0, Zenon DEF EquivIn
  <2>2. \A r \in Senders \ {s} : r \in EquivIn(sn) <=> r \in EquivIn(sn2)
    BY <1>0, Zenon DEF EquivIn
  <2>3. EquivIn(sn) \subseteq Senders /\ EquivIn(sn2) \subseteq Senders
    BY Zenon DEF EquivIn
  <2> QED
    BY <2>1, <2>2, <2>3, Zenon
<1>2. PlainIn(sn2, old) = PlainIn(sn, old) \ {s} /\ s \in PlainIn(sn, old)
  BY <1>0 DEF PlainIn
<1>3. \A u \in Values \ {old} : PlainIn(sn2, u) = PlainIn(sn, u)
  <2>1. ASSUME NEW u \in Values \ {old}, NEW r \in Senders
        PROVE  CastIn(sn2, r) = {u} <=> CastIn(sn, r) = {u}
    <3>1. CASE r = s
      BY <1>0, <3>1, Zenon
    <3>2. CASE r # s
      BY <1>0, <3>2, Zenon
    <3> QED
      BY <3>1, <3>2, Zenon
  <2> QED
    BY <2>1, Zenon DEF PlainIn
<1>4. VotersIn(sn2) = VotersIn(sn) \ {s} /\ s \in VotersIn(sn)
  <2>1. s \in VotersIn(sn) /\ s \notin VotersIn(sn2)
    BY <1>1, <1>2, Kinds, Zenon DEF VotersIn
  <2>2. \A r \in Senders \ {s} : r \in VotersIn(sn) <=> r \in VotersIn(sn2)
    BY <1>2, <1>3, Zenon DEF VotersIn
  <2>3. VotersIn(sn) \subseteq Senders /\ VotersIn(sn2) \subseteq Senders
    BY Zenon DEF VotersIn
  <2> QED
    BY <2>1, <2>2, <2>3, Zenon
<1> QED
  BY <1>1, <1>2, <1>3, <1>4, Zenon

\* The counter of the sender's first value loses its weight, and goes when nothing is left.
LEMMA SecondCounts ==
    ASSUME NEW sn, NEW s \in Senders, NEW old \in Values, CastIn(sn, s) = {old},
           NEW v \in Values, v # old, NEW sn2, sn2 = sn \cup {<<s, v>>},
           NEW c, c = CountsFor(sn)[old]
    PROVE  CountsFor(sn2) = IF c.Count <= Weight[s]
                            THEN Without(CountsFor(sn), old)
                            ELSE Put(CountsFor(sn), old, [Count |-> c.Count - Weight[s],
                                                          Votes |-> c.Votes \ {s}])
<1>0. /\ PlainIn(sn2, old) = PlainIn(sn, old) \ {s} /\ s \in PlainIn(sn, old)
      /\ \A u \in Values \ {old} : PlainIn(sn2, u) = PlainIn(sn, u)
  BY SecondSets
<1> DEFINE P == PlainIn(sn, old)
           D == {u \in Values : PlainIn(sn, u) # {}}
           C == CountsFor(sn)
<1>1. C = [u \in D |-> Tally(PlainIn(sn, u))] /\ CountsFor(sn2) = [u \in {w \in Values : PlainIn(sn2, w) # {}} |-> Tally(PlainIn(sn2, u))]
  BY Zenon DEF CountsFor
<1>2. old \in D /\ c = Tally(P)
  BY <1>0, <1>1, Zenon
<1>3. c.Count = WeightOf(P) /\ c.Votes = P
  BY <1>2 DEF Tally
<1>4. P \in SUBSET Senders /\ P \ {s} \in SUBSET Senders
  BY Zenon DEF PlainIn
<1>5. WeightOf(P) = Weight[s] + WeightOf(P \ {s}) /\ WeightOf(P \ {s}) \in Nat /\ Weight[s] \in Nat
  BY <1>0, <1>4, WeightFacts, WeightAssumption, Zenon
<1>6. WeightOf(P \ {s}) = 0 <=> P \ {s} = {}
  <2>1. ASSUME WeightOf(P \ {s}) = 0 PROVE P \ {s} = {}
    <3>1. Cardinality(P \ {s}) <= 0 /\ Cardinality(P \ {s}) \in Nat /\ IsFiniteSet(P \ {s})
      BY <1>4, <2>1, WeightSize, FiniteSenders, Zenon
    <3>2. Cardinality(P \ {s}) = 0
      BY <3>1
    <3> QED
      BY <3>1, <3>2, FS_EmptySet, Zenon
  <2> QED
    BY <2>1, WeightFacts, Zenon
<1> HIDE DEF P
<1>7. CASE P \ {s} = {}
  <2>1. c.Count <= Weight[s]
    BY <1>3, <1>5, <1>6, <1>7
  <2>2. {w \in Values : PlainIn(sn2, w) # {}} = D \ {old}
    BY <1>0, <1>7, Zenon DEF P
  <2>3. Without(C, old) = [u \in D \ {old} |-> Tally(PlainIn(sn, u))]
    BY <1>1, Zenon DEF Without, Restrict
  <2>4. CountsFor(sn2) = Without(C, old)
    BY <1>0, <1>1, <2>2, <2>3, Zenon
  <2> QED
    BY <2>1, <2>4, Zenon
<1>8. CASE P \ {s} # {}
  <2>1. ~(c.Count <= Weight[s]) /\ c.Count - Weight[s] = WeightOf(P \ {s})
    BY <1>3, <1>5, <1>6, <1>8
  <2>2. {w \in Values : PlainIn(sn2, w) # {}} = D
    BY <1>0, <1>2, <1>8, Zenon DEF P
  <2>3. [Count |-> c.Count - Weight[s], Votes |-> c.Votes \ {s}] = Tally(PlainIn(sn2, old))
    BY <1>0, <1>3, <2>1, Zenon DEF P, Tally
  <2>4. Put(C, old, Tally(PlainIn(sn2, old)))
          = [u \in D |-> IF u = old THEN Tally(PlainIn(sn2, old)) ELSE Tally(PlainIn(sn, u))]
    <3>1. DOMAIN C \cup {old} = D
      BY <1>1, <1>2, Zenon
    <3> QED
      BY <1>1, <3>1, Zenon DEF Put
  <2>5. CountsFor(sn2) = Put(C, old, Tally(PlainIn(sn2, old)))
    BY <1>0, <1>1, <2>2, <2>4, Zenon
  <2> QED
    BY <2>1, <2>3, <2>5, Zenon
<1> QED
  BY <1>7, <1>8, Zenon

\* The second vote of a sender.
LEMMA SecondReturns ==
    ASSUME NEW sn, NEW s \in Senders, NEW old \in Values, CastIn(sn, s) = {old},
           NEW v \in Values, v # old, NEW sn2, sn2 = sn \cup {<<s, v>>}, Legal(sn2),
           NEW t, Match(t, sn)
    PROVE  /\ Returns(Equivocate(t, s, v), sn, sn2)
           /\ s \in DOMAIN Equivocate(t, s, v).tracker.Equivocators
<1>0. /\ EquivIn(sn2) = EquivIn(sn) \cup {s} /\ s \notin EquivIn(sn)
      /\ VotersIn(sn2) = VotersIn(sn) \ {s} /\ s \in VotersIn(sn)
  BY SecondSets
<1>1. PICK f, g : /\ VotersFor(sn, f) /\ PairsFor(sn, g)
                  /\ t = Tracker(f, CountsFor(sn), g, WeightOf(EquivIn(sn)))
  BY Zenon DEF Match
<1>2. t.Voters = f /\ t.Counts = CountsFor(sn) /\ t.Equivocators = g /\ t.EquivocatorsCount = WeightOf(EquivIn(sn))
  BY <1>1, TrackerFields
<1>3. f[s] = old
  BY <1>0, <1>1, Zenon DEF VotersFor
<1> DEFINE f2 == Without(f, s)
           g2 == Put(g, s, <<old, v>>)
           t1 == Tracker(f2, CountsFor(sn2), g2, WeightOf(EquivIn(sn2)))
<1>4. WeightOf(EquivIn(sn)) + Weight[s] = WeightOf(EquivIn(sn2))
  <2>1. EquivIn(sn) \in SUBSET Senders
    BY Kinds, Zenon
  <2>2. WeightOf(EquivIn(sn2)) = Weight[s] + WeightOf(EquivIn(sn))
    BY <1>0, <2>1, WeightAdd, Zenon
  <2>3. WeightOf(EquivIn(sn)) \in Nat /\ Weight[s] \in Nat
    BY <2>1, WeightFacts, WeightAssumption, Zenon
  <2> QED
    BY <2>2, <2>3
<1>5. PICK c : c = CountsFor(sn)[old]
  BY Zenon
<1>6. CountsFor(sn2) = IF c.Count <= Weight[s]
                       THEN Without(CountsFor(sn), old)
                       ELSE Put(CountsFor(sn), old, [Count |-> c.Count - Weight[s],
                                                     Votes |-> c.Votes \ {s}])
  BY <1>5, SecondCounts
<1>7. Equivocate(t, s, v) = IF reachesQuorum(t1.EquivocatorsCount) THEN Result(t1, None, TRUE)
                            ELSE IF t1.Voters = << >> THEN Result(t1, None, FALSE)
                            ELSE Emit(t, t1)
  BY <1>2, <1>3, <1>4, <1>5, <1>6, Zenon DEF Equivocate, Tracker
<1>8. VotersFor(sn2, f2)
  <2>1. DOMAIN f = VotersIn(sn)
    BY <1>1, Zenon DEF VotersFor
  <2>2. f2 = [x \in VotersIn(sn2) |-> f[x]]
    BY <1>0, <2>1, Zenon DEF Without, Restrict
  <2>3. ASSUME NEW r \in VotersIn(sn2) PROVE CastIn(sn2, r) = {f2[r]}
    <3>0. r # s /\ r \in VotersIn(sn) /\ f2[r] = f[r]
      BY <1>0, <2>2, Zenon
    <3>1. CastIn(sn2, r) = CastIn(sn, r)
      BY <3>0, CastAdd
    <3> QED
      BY <1>1, <3>0, <3>1, Zenon DEF VotersFor
  <2>4. f2 = [x \in VotersIn(sn2) |-> f2[x]]
    BY <2>2, Zenon
  <2> HIDE DEF f2
  <2> QED
    BY <2>3, <2>4, Zenon DEF VotersFor
<1>9. PairsFor(sn2, g2)
  <2>1. <<old, v>> \in Pairs /\ <<s, old>> \in sn /\ <<s, old>> \in sn2 /\ <<s, v>> \in sn2
    BY Zenon DEF Pairs, CastIn
  <2>2. g \in [EquivIn(sn) -> Pairs]
    BY <1>1, Zenon DEF PairsFor
  <2>3. g2 = [x \in EquivIn(sn2) |-> IF x = s THEN <<old, v>> ELSE g[x]]
    BY <1>0, <2>2, Zenon DEF Put
  <2>4. g2 \in [EquivIn(sn2) -> Pairs]
    BY <1>0, <2>1, <2>2, <2>3, Zenon
  <2>5. ASSUME NEW r \in EquivIn(sn2) PROVE <<r, g2[r][1]>> \in sn2 /\ <<r, g2[r][2]>> \in sn2
    <3>1. CASE r = s
      <4>1. g2[r] = <<old, v>>
        BY <2>3, <3>1, Zenon
      <4>2. g2[r][1] = old /\ g2[r][2] = v
        BY <4>1
      <4> QED
        BY <2>1, <3>1, <4>2, Zenon
    <3>2. CASE r # s
      <4>1. r \in EquivIn(sn) /\ g2[r] = g[r]
        BY <1>0, <2>3, <3>2, Zenon
      <4>2. <<r, g[r][1]>> \in sn2 /\ <<r, g[r][2]>> \in sn2
        BY <1>1, <4>1, Zenon DEF PairsFor
      <4> QED
        BY <4>1, <4>2, Zenon
    <3> QED
      BY <3>1, <3>2, Zenon
  <2> HIDE DEF g2
  <2> QED
    BY <2>4, <2>5, Zenon DEF PairsFor
<1>10. DOMAIN f2 = VotersIn(sn2) /\ s \in DOMAIN g2
  BY <1>8, Zenon DEF VotersFor, Put
<1> HIDE DEF f2, g2
<1>11. Match(t1, sn2)
  BY <1>8, <1>9, Zenon DEF Match
<1>12. t1.EquivocatorsCount = WeightOf(EquivIn(sn2)) /\ t1.Voters = f2 /\ t1.Equivocators = g2
  BY TrackerFields
<1> HIDE DEF t1
<1>13. ~reachesQuorum(t1.EquivocatorsCount)
  BY <1>12, FewEquivocators, Zenon
<1>14. CASE t1.Voters = << >>
  <2>1. Equivocate(t, s, v) = Result(t1, None, FALSE)
    BY <1>7, <1>13, <1>14, Zenon
  <2>2. VotersIn(sn2) = {}
    <3>1. f2 = << >>
      BY <1>12, <1>14, Zenon
    <3>2. DOMAIN f2 = {}
      BY <3>1
    <3> QED
      BY <1>10, <3>2, Zenon
  <2>3. ReachedIn(sn2) = {}
    BY <2>2, Kinds, Zenon DEF ReachedIn, VotersIn
  <2> QED
    BY <1>10, <1>11, <1>12, <2>1, <2>3 DEF Returns, Result
<1>15. CASE t1.Voters # << >>
  <2>1. Equivocate(t, s, v) = Emit(t, t1)
    BY <1>7, <1>13, <1>15, Zenon
  <2> QED
    BY <1>10, <1>11, <1>12, <2>1, EmitReturns
<1> QED
  BY <1>14, <1>15, Zenon

----------------------------------------------------------------------------

\* One call of handle; the filter drops exactly the votes that leave the tracker alone.
LEMMA HandleReturns ==
    ASSUME NEW sn, NEW s \in Senders, NEW v \in Values, NEW sn2, sn2 = sn \cup {<<s, v>>},
           Legal(sn2), NEW t, Match(t, sn)
    PROVE  /\ Returns(handle(t, s, v), sn, sn2)
           /\ voteFilter(t, s, v) => handle(t, s, v).tracker = t
           /\ ~voteFilter(t, s, v) => handle(t, s, v).tracker # t
<1>1. PICK f, g : /\ VotersFor(sn, f) /\ PairsFor(sn, g)
                  /\ t = Tracker(f, CountsFor(sn), g, WeightOf(EquivIn(sn)))
  BY Zenon DEF Match
<1>2. t.Voters = f /\ t.Equivocators = g
  BY <1>1, TrackerFields
<1>3. DOMAIN f = VotersIn(sn) /\ DOMAIN g = EquivIn(sn)
  BY <1>1, Zenon DEF VotersFor, PairsFor
<1>4. CASE s \in EquivIn(sn)
  <2>1. handle(t, s, v) = Result(t, None, FALSE) /\ voteFilter(t, s, v)
    BY <1>2, <1>3, <1>4, Zenon DEF handle, voteFilter
  <2>2. SameTally(sn, sn2)
    BY <1>4, EquivocatorAgain, Zenon
  <2>3. handle(t, s, v).tracker = t
    BY <2>1 DEF Result
  <2> QED
    BY <2>1, <2>2, <2>3, DuplicateReturns, Zenon
<1>5. CASE s \notin EquivIn(sn) /\ s \notin VotersIn(sn)
  <2>1. handle(t, s, v) = FirstVote(t, s, v) /\ ~voteFilter(t, s, v)
    BY <1>2, <1>3, <1>5, Zenon DEF handle, voteFilter
  <2>2. CastIn(sn, s) = {}
    BY <1>5, Kinds, Zenon
  <2>3. Returns(FirstVote(t, s, v), sn, sn2) /\ s \in DOMAIN FirstVote(t, s, v).tracker.Voters
    BY <2>2, FirstReturns, Zenon
  <2> QED
    BY <1>2, <1>3, <1>5, <2>1, <2>3, Zenon
<1>6. CASE s \in VotersIn(sn) /\ f[s] = v
  <2>0. s \notin EquivIn(sn)
    BY <1>6, Kinds, Zenon
  <2>1. handle(t, s, v) = Result(t, None, FALSE) /\ voteFilter(t, s, v)
    BY <1>2, <1>3, <1>6, <2>0, Zenon DEF handle, voteFilter
  <2>2. sn2 = sn
    BY <1>1, <1>6, Zenon DEF VotersFor, CastIn
  <2>3. SameTally(sn, sn2)
    BY <2>2, Zenon DEF SameTally
  <2>4. handle(t, s, v).tracker = t
    BY <2>1 DEF Result
  <2> QED
    BY <2>1, <2>3, <2>4, DuplicateReturns, Zenon
<1>7. CASE s \in VotersIn(sn) /\ f[s] # v
  <2>0. s \notin EquivIn(sn)
    BY <1>7, Kinds, Zenon
  <2>1. handle(t, s, v) = Equivocate(t, s, v) /\ ~voteFilter(t, s, v)
    BY <1>2, <1>3, <1>7, <2>0, Zenon DEF handle, voteFilter
  <2>2. CastIn(sn, s) = {f[s]} /\ f[s] \in Values
    BY <1>1, <1>7, Zenon DEF VotersFor, CastIn
  <2>3. Returns(Equivocate(t, s, v), sn, sn2) /\ s \in DOMAIN Equivocate(t, s, v).tracker.Equivocators
    BY <1>7, <2>2, SecondReturns, Zenon
  <2> QED
    BY <1>2, <1>3, <2>0, <2>1, <2>3, Zenon
<1> QED
  BY <1>4, <1>5, <1>6, <1>7, Zenon

----------------------------------------------------------------------------
(* Replaying votes.                                                        *)

\* What replaying votes must return when the votes handled grow from sn0 to sn.
Runs(acc, sn0, sn) ==
    /\ Match(acc.tracker, sn)
    /\ acc.panic = FALSE
    /\ ReachedIn(sn0) # {} \/ ReachedIn(sn) = {} => acc.events = << >>
    /\ ReachedIn(sn0) = {} /\ ReachedIn(sn) # {} =>
          \E v, b : ReachedIn(sn) = {v} /\ acc.events = <<Event(v, b)>> /\ Proves(b, v, sn)

\* A proof stays one when there are more votes.
LEMMA ProvesStays ==
    ASSUME NEW sn, NEW sn2, sn \subseteq sn2, NEW v, NEW b, Proves(b, v, sn)
    PROVE  Proves(b, v, sn2)
BY Zenon DEF Proves

\* An event is not None.
LEMMA EventIsNew ==
    ASSUME NEW v, NEW b
    PROVE  Event(v, b) # None /\ Append(<< >>, Event(v, b)) = <<Event(v, b)>>
<1>1. Event(v, b).T = "threshold" /\ None.T = "none"
  BY Zenon DEF Event, None
<1> QED
  BY <1>1

\* One vote of a replay.
LEMMA TakeRuns ==
    ASSUME NEW sn0, NEW sn, sn0 \subseteq sn, NEW acc, Runs(acc, sn0, sn),
           NEW vote \in Senders \X Values, NEW sn2, sn2 = sn \cup {vote}, Legal(sn2)
    PROVE  Runs(Take(acc, vote), sn0, sn2)
<1>1. PICK r : r = handle(acc.tracker, vote[1], vote[2])
  BY Zenon
<1>2. Returns(r, sn, sn2)
  <2>1. vote[1] \in Senders /\ vote[2] \in Values /\ vote = <<vote[1], vote[2]>>
    OBVIOUS
  <2>2. Match(acc.tracker, sn)
    BY Zenon DEF Runs
  <2> QED
    BY <1>1, <2>1, <2>2, HandleReturns, Zenon
<1>3. PICK x : x = Take(acc, vote)
  BY Zenon
<1>4. /\ x.tracker = r.tracker /\ x.panic = r.panic
      /\ r.event = None => x.events = acc.events
      /\ r.event # None => x.events = Append(acc.events, r.event)
  BY <1>1, <1>3, Zenon DEF Take, After, Runs
<1>5. Match(x.tracker, sn2) /\ x.panic = FALSE
  BY <1>2, <1>4, Zenon DEF Returns
<1>6. Legal(sn) /\ ReachedIn(sn0) \subseteq ReachedIn(sn) /\ ReachedIn(sn) \subseteq ReachedIn(sn2)
  <2>1. Legal(sn) /\ ReachedIn(sn) \subseteq ReachedIn(sn2)
    BY ReachedStays, Zenon
  <2> QED
    BY <2>1, ReachedStays, Zenon
<1>7. CASE ReachedIn(sn0) # {} \/ ReachedIn(sn2) = {}
  <2>1. r.event = None /\ acc.events = << >>
    BY <1>2, <1>6, <1>7, Zenon DEF Returns, Runs
  <2> QED
    BY <1>3, <1>4, <1>5, <1>7, <2>1, Zenon DEF Runs
<1>8. CASE ReachedIn(sn0) = {} /\ ReachedIn(sn2) # {} /\ ReachedIn(sn) = {}
  <2>1. PICK v, b : ReachedIn(sn2) = {v} /\ r.event = Event(v, b) /\ Proves(b, v, sn2)
    BY <1>2, <1>8, Zenon DEF Returns
  <2>2. acc.events = << >>
    BY <1>8, Zenon DEF Runs
  <2>3. x.events = <<Event(v, b)>>
    BY <1>4, <2>1, <2>2, EventIsNew, Zenon
  <2> QED
    BY <1>3, <1>5, <1>8, <2>1, <2>3, Zenon DEF Runs
<1>9. CASE ReachedIn(sn0) = {} /\ ReachedIn(sn) # {}
  <2>1. PICK v, b : ReachedIn(sn) = {v} /\ acc.events = <<Event(v, b)>> /\ Proves(b, v, sn)
    BY <1>9, Zenon DEF Runs
  <2>2. r.event = None
    BY <1>2, <1>9, Zenon DEF Returns
  <2>3. ReachedIn(sn2) = {v}
    BY <1>6, <2>1, ReachedSize, Zenon
  <2>4. Proves(b, v, sn2)
    BY <2>1, ProvesStays, Zenon
  <2>5. x.events = <<Event(v, b)>>
    BY <1>4, <2>1, <2>2, Zenon
  <2> QED
    BY <1>3, <1>5, <1>9, <2>3, <2>4, <2>5, Zenon DEF Runs
<1> QED
  BY <1>7, <1>8, <1>9, Zenon

Start(t) == [tracker |-> t, events |-> << >>, panic |-> FALSE]

\* f is the recursion of Replay, over the first n votes.
Stepwise(f, t, votes, n) ==
    f = [k \in 0..n |-> IF k = 0 THEN Start(t) ELSE Take(f[k - 1], votes[k])]

\* The recursion of Replay has a solution for every number of votes.
LEMMA StepwiseExists ==
    ASSUME NEW t, NEW votes
    PROVE  \A n \in Nat : \E f : Stepwise(f, t, votes, n)
<1> DEFINE Z == {n \in Nat : \E f : Stepwise(f, t, votes, n)}
<1>1. 0 \in Z
  <2> DEFINE g == [k \in 0..0 |-> Start(t)]
  <2>1. Stepwise(g, t, votes, 0)
    BY DEF Stepwise
  <2> QED
    BY <2>1, Zenon
<1>2. ASSUME NEW n \in Nat, n \in Z PROVE n + 1 \in Z
  <2>1. PICK f : Stepwise(f, t, votes, n)
    BY <1>2, Zenon
  <2> DEFINE g == [k \in 0..(n + 1) |-> IF k = 0 THEN Start(t) ELSE Take(f[k - 1], votes[k])]
  <2>2. \A k \in 0..n : g[k] = f[k]
    BY <2>1 DEF Stepwise
  <2>3. ASSUME NEW k \in 0..(n + 1), k # 0 PROVE k - 1 \in 0..n
    BY <2>3
  <2>4. g = [k \in 0..(n + 1) |-> IF k = 0 THEN Start(t) ELSE Take(g[k - 1], votes[k])]
    BY <2>2, <2>3, Zenon
  <2>5. Stepwise(g, t, votes, n + 1)
    BY <2>4, Zenon DEF Stepwise
  <2> HIDE DEF g
  <2> QED
    BY <2>5
<1> HIDE DEF Z
<1>3. \A n \in Nat : n \in Z
  BY <1>1, <1>2, Induct, Zenon
<1> QED
  BY <1>3, Zenon DEF Z

\* Replay is its last value.
LEMMA ReplayIs ==
    ASSUME NEW t, NEW votes, Len(votes) \in Nat
    PROVE  \E f : Stepwise(f, t, votes, Len(votes)) /\ Replay(t, votes) = f[Len(votes)]
<1>1. PICK f : f = CHOOSE g : Stepwise(g, t, votes, Len(votes))
  BY Zenon
<1>2. Stepwise(f, t, votes, Len(votes))
  BY <1>1, StepwiseExists, Zenon
<1>3. Replay(t, votes) = f[Len(votes)]
  BY <1>1, Zenon DEF Replay, Stepwise, Start
<1> QED
  BY <1>2, <1>3, Zenon

Upto(votes, n) == {votes[i] : i \in 1..n}

\* A replay leads to the tracker of all the votes.
LEMMA ReplayRuns ==
    ASSUME NEW t, NEW sn, Match(t, sn), NEW votes \in Seq(Senders \X Values),
           NEW sn2, sn2 = sn \cup Range(votes), Legal(sn2)
    PROVE  Runs(Replay(t, votes), sn, sn2)
<1>0. Len(votes) \in Nat /\ DOMAIN votes = 1..Len(votes)
  OBVIOUS
<1>1. PICK f : Stepwise(f, t, votes, Len(votes)) /\ Replay(t, votes) = f[Len(votes)]
  BY <1>0, ReplayIs, Zenon
<1> DEFINE Z == {n \in Nat : n <= Len(votes) => Runs(f[n], sn, sn \cup Upto(votes, n))}
<1>2. 0 \in Z
  <2>1. f[0] = Start(t)
    BY <1>0, <1>1 DEF Stepwise
  <2>2. sn \cup Upto(votes, 0) = sn
    BY DEF Upto
  <2>3. Runs(Start(t), sn, sn)
    BY Zenon DEF Runs, Start
  <2> QED
    BY <2>1, <2>2, <2>3, Zenon
<1>3. ASSUME NEW n \in Nat, n \in Z PROVE n + 1 \in Z
  <2> SUFFICES ASSUME n + 1 <= Len(votes) PROVE Runs(f[n + 1], sn, sn \cup Upto(votes, n + 1))
    OBVIOUS
  <2>1. n <= Len(votes) /\ n + 1 \in 1..Len(votes) /\ n + 1 \in 0..Len(votes) /\ (n + 1) - 1 = n /\ n + 1 # 0
    BY <1>0
  <2>2. f[n + 1] = Take(f[n], votes[n + 1])
    BY <1>1, <2>1, Zenon DEF Stepwise
  <2>3. Runs(f[n], sn, sn \cup Upto(votes, n))
    BY <1>3, <2>1, Zenon
  <2>4. votes[n + 1] \in Senders \X Values
    BY <2>1
  <2>5. sn \cup Upto(votes, n + 1) = (sn \cup Upto(votes, n)) \cup {votes[n + 1]}
    BY <2>1 DEF Upto
  <2>6. Legal(sn \cup Upto(votes, n + 1))
    <3>1. sn \cup Upto(votes, n + 1) \subseteq sn2
      BY <1>0, <2>1 DEF Upto, Range
    <3> QED
      BY <3>1, ReachedStays, Zenon
  <2>7. sn \subseteq sn \cup Upto(votes, n)
    BY Zenon
  <2> QED
    BY <2>2, <2>3, <2>4, <2>5, <2>6, <2>7, TakeRuns
<1> HIDE DEF Z
<1>4. \A n \in Nat : n \in Z
  BY <1>2, <1>3, Induct, Zenon
<1>5. Runs(f[Len(votes)], sn, sn \cup Upto(votes, Len(votes)))
  <2>1. Len(votes) \in Z /\ Len(votes) <= Len(votes)
    BY <1>0, <1>4
  <2> QED
    BY <2>1, Zenon DEF Z
<1>6. Upto(votes, Len(votes)) = Range(votes)
  BY <1>0, Zenon DEF Upto, Range
<1> QED
  BY <1>1, <1>5, <1>6, Zenon

----------------------------------------------------------------------------
(* The votes of maps.                                                      *)

\* InSomeOrder lists the set.
LEMMA OrderOfSet ==
    ASSUME NEW S, IsFiniteSet(S), NEW o, o = InSomeOrder(S)
    PROVE  /\ o \in Seq(S)
           /\ \A x \in S : \E i \in 1..Len(o) : o[i] = x
<1> DEFINE n == Cardinality(S)
<1>1. n \in Nat /\ ExistsBijection(1..n, S)
  BY FS_CardinalityType, Zenon
<1>2. PICK f : f \in Injection(1..n, S)
  BY <1>1, Zenon DEF ExistsBijection, Bijection
<1>3. o \in Injection(1..n, S)
  BY <1>2, Zenon DEF InSomeOrder
<1>4. o \in [1..n -> S]
  BY <1>3, Zenon DEF Injection
<1>5. Cardinality(1..n) = n
  BY <1>1, FS_Interval
<1>6. o \in Surjection(1..n, S)
  BY <1>3, <1>5, FS_Injection, Zenon
<1>7. \A x \in S : \E i \in 1..n : o[i] = x
  BY <1>6, Zenon DEF Surjection
<1> HIDE DEF n
<1>8. o \in Seq(S) /\ Len(o) = n
  BY <1>1, <1>4
<1> QED
  BY <1>7, <1>8, Zenon

\* The votes of a map from senders to values.
LEMMA VotesOfMap ==
    ASSUME NEW S \in SUBSET Senders, NEW f \in [S -> Values]
    PROVE  /\ VotesOf(f) \in Seq(Senders \X Values)
           /\ Range(VotesOf(f)) = {<<s, f[s]>> : s \in S}
<1>1. PICK o : o = InSomeOrder(DOMAIN f)
  BY Zenon
<1>2. o \in Seq(S) /\ \A x \in S : \E i \in 1..Len(o) : o[i] = x
  BY <1>1, FiniteSenders, OrderOfSet
<1>3. Len(o) \in Nat /\ \A i \in 1..Len(o) : o[i] \in S
  BY <1>2
<1> DEFINE H(i) == <<o[i], f[o[i]]>>
<1>4. VotesOf(f) = [i \in 1..Len(o) |-> H(i)]
  BY <1>1, Zenon DEF VotesOf, Along
<1>5. VotesOf(f) \in Seq(Senders \X Values)
  BY <1>3, <1>4
<1>6. {H(i) : i \in 1..Len(o)} = {<<s, f[s]>> : s \in S}
  BY <1>2, <1>3, Zenon
<1> HIDE DEF H
<1>7. Range(VotesOf(f)) = {H(i) : i \in 1..Len(o)}
  BY <1>4, Zenon DEF Range
<1> QED
  BY <1>5, <1>7, <1>6, Zenon

\* The pairs of E, as votes.
Both(E, eq) == {<<s, eq[s][1]>> : s \in E} \cup {<<s, eq[s][2]>> : s \in E}

\* The votes of a map from senders to pairs.
LEMMA VotesOfPairs ==
    ASSUME NEW E \in SUBSET Senders, NEW eq \in [E -> Pairs]
    PROVE  /\ PairsOf(eq) \in Seq(Senders \X Values)
           /\ Range(PairsOf(eq)) = Both(E, eq)
<1>1. PICK o : o = InSomeOrder(DOMAIN eq)
  BY Zenon
<1>2. o \in Seq(E) /\ \A x \in E : \E i \in 1..Len(o) : o[i] = x
  <2>1. DOMAIN eq = E
    BY Zenon
  <2>2. IsFiniteSet(E)
    BY FiniteSenders, Zenon
  <2> QED
    BY <1>1, <2>1, <2>2, OrderOfSet
<1>3. Len(o) \in Nat /\ \A i \in 1..Len(o) : o[i] \in E
  BY <1>2
<1> DEFINE H(i) == <<o[(i + 1) \div 2], eq[o[(i + 1) \div 2]][2 - (i % 2)]>>
           N == 2 * Len(o)
<1>4. PairsOf(eq) = [i \in 1..N |-> H(i)]
  BY <1>1, Zenon DEF PairsOf, PairsAlong
<1>5. ASSUME NEW i \in 1..N
      PROVE  (i + 1) \div 2 \in 1..Len(o) /\ (2 - (i % 2) = 1 \/ 2 - (i % 2) = 2)
  BY <1>3
<1>6. \A s \in E : eq[s][1] \in Values /\ eq[s][2] \in Values
  BY Zenon DEF Pairs
<1>7. ASSUME NEW i \in 1..N PROVE H(i) \in Senders \X Values /\ H(i) \in Both(E, eq)
  <2>1. PICK s : s = o[(i + 1) \div 2]
    BY Zenon
  <2>2. s \in E
    BY <1>3, <1>5, <2>1, Zenon
  <2>3. H(i) = <<s, eq[s][1]>> \/ H(i) = <<s, eq[s][2]>>
    BY <1>5, <2>1, Zenon
  <2> HIDE DEF H
  <2> QED
    BY <1>6, <2>2, <2>3 DEF Both
<1>8. ASSUME NEW s \in E
      PROVE  \E i, j \in 1..N : H(i) = <<s, eq[s][1]>> /\ H(j) = <<s, eq[s][2]>>
  <2>1. PICK k \in 1..Len(o) : o[k] = s
    BY <1>2, Zenon
  <2>2. /\ 2 * k - 1 \in 1..N /\ ((2 * k - 1) + 1) \div 2 = k /\ 2 - ((2 * k - 1) % 2) = 1
        /\ 2 * k \in 1..N /\ ((2 * k) + 1) \div 2 = k /\ 2 - ((2 * k) % 2) = 2
    BY <1>3
  <2>3. H(2 * k - 1) = <<s, eq[s][1]>> /\ H(2 * k) = <<s, eq[s][2]>>
    BY <2>1, <2>2, Zenon
  <2> HIDE DEF H
  <2> QED
    BY <2>2, <2>3, Zenon
<1> HIDE DEF H
<1>9. N \in Nat
  BY <1>3
<1> HIDE DEF N
<1>10. PairsOf(eq) \in Seq(Senders \X Values)
  BY <1>4, <1>7, <1>9
<1>11. Range(PairsOf(eq)) = {H(i) : i \in 1..N}
  BY <1>4, Zenon DEF Range
<1>12. {H(i) : i \in 1..N} = Both(E, eq)
  BY <1>7, <1>8 DEF Both
<1> QED
  BY <1>10, <1>11, <1>12, Zenon

\* One list after the other.
LEMMA VotesOfBoth ==
    ASSUME NEW X, NEW p \in Seq(X), NEW q \in Seq(X)
    PROVE  p \o q \in Seq(X) /\ Range(p \o q) = Range(p) \cup Range(q)
<1>1. p \o q \in Seq(X) /\ Len(p \o q) = Len(p) + Len(q)
  OBVIOUS
<1>2. Len(p) \in Nat /\ Len(q) \in Nat /\ DOMAIN p = 1..Len(p) /\ DOMAIN q = 1..Len(q) /\ DOMAIN (p \o q) = 1..(Len(p) + Len(q))
  BY <1>1
<1>3. \A i \in 1..Len(p) : (p \o q)[i] = p[i] /\ i \in 1..(Len(p) + Len(q))
  BY <1>2
<1>4. \A i \in 1..Len(q) : (p \o q)[i + Len(p)] = q[i] /\ i + Len(p) \in 1..(Len(p) + Len(q))
  BY <1>2
<1>5. ASSUME NEW i \in 1..(Len(p) + Len(q))
      PROVE  i \in 1..Len(p) \/ \E j \in 1..Len(q) : i = j + Len(p)
  <2>1. i \in 1..Len(p) \/ (i - Len(p) \in 1..Len(q) /\ i = (i - Len(p)) + Len(p))
    BY <1>2
  <2> QED
    BY <2>1, Zenon
<1>6. Range(p \o q) \subseteq Range(p) \cup Range(q)
  <2>1. ASSUME NEW i \in 1..(Len(p) + Len(q)) PROVE (p \o q)[i] \in Range(p) \cup Range(q)
    <3>1. CASE i \in 1..Len(p)
      BY <1>2, <1>3, <3>1, Zenon DEF Range
    <3>2. CASE \E j \in 1..Len(q) : i = j + Len(p)
      BY <1>2, <1>4, <3>2, Zenon DEF Range
    <3> QED
      BY <1>5, <3>1, <3>2, Zenon
  <2> QED
    BY <1>2, <2>1, Zenon DEF Range
<1>7. Range(p) \cup Range(q) \subseteq Range(p \o q)
  BY <1>2, <1>3, <1>4, Zenon DEF Range
<1> QED
  BY <1>1, <1>6, <1>7, Zenon

----------------------------------------------------------------------------
(* The inductive invariant.                                                *)

Emitted(es, sn) ==
    \/ ReachedIn(sn) = {} /\ es = << >>
    \/ \E v, b : ReachedIn(sn) = {v} /\ es = <<Event(v, b)>> /\ Proves(b, v, sn)

\* The tracker is the one that the votes handled so far determine, it has not panicked,
\* its events are those of the values that reached the quorum, and the value of the last
\* bundle is one of them.
TrackerInv ==
    /\ Legal(seen)
    /\ Match(tracker, seen)
    /\ panicked = FALSE
    /\ Emitted(emitted, seen)
    /\ bundleFor \in Values \cup {NoValue}
    /\ bundleFor # NoValue => bundleFor \in ReachedIn(seen)

\* The empty tracker is that of no votes.
LEMMA EmptyMatch ==
    /\ Legal({})
    /\ Match(EmptyTracker, {})
    /\ ReachedIn({}) = {}
<1>1. \A s : CastIn({}, s) = {}
  BY Zenon DEF CastIn
<1>2. EquivIn({}) = {} /\ VotersIn({}) = {} /\ \A v \in Values : PlainIn({}, v) = {}
  BY <1>1, Zenon DEF EquivIn, VotersIn, PlainIn
<1>3. ReachedIn({}) = {} /\ Legal({})
  BY <1>2, Zenon DEF ReachedIn, Legal
<1>4. << >> = [x \in {} |-> << >>[x]]
  OBVIOUS
<1>5. VotersFor({}, << >>)
  BY <1>2, <1>4, Zenon DEF VotersFor
<1>6. PairsFor({}, << >>)
  <2>1. << >> \in [{} -> Pairs]
    BY <1>4, Zenon
  <2> QED
    BY <1>2, <2>1, Zenon DEF PairsFor
<1>7. CountsFor({}) = << >>
  <2>1. {u \in Values : PlainIn({}, u) # {}} = {}
    BY <1>2, Zenon
  <2> QED
    BY <2>1 DEF CountsFor
<1>8. EmptyTracker = Tracker(<< >>, CountsFor({}), << >>, WeightOf(EquivIn({})))
  BY <1>2, <1>7, WeightFacts, Zenon DEF EmptyTracker, Tracker
<1> QED
  BY <1>3, <1>5, <1>6, <1>8, Zenon DEF Match

\* The invariant holds at first.
LEMMA InitInv == Init => TrackerInv
BY EmptyMatch, Zenon DEF Init, TrackerInv, Emitted

\* Handling any legal votes.
LEMMA HandleStep ==
    ASSUME TrackerInv, NEW votes \in Seq(Senders \X Values),
           Legal(seen \cup Range(votes)), Handle(votes)
    PROVE  /\ seen' = seen \cup Range(votes)
           /\ Legal(seen') /\ Match(tracker', seen') /\ panicked' = FALSE
           /\ Emitted(emitted', seen')
           /\ ReachedIn(seen) \subseteq ReachedIn(seen')
<1>1. PICK r : r = Replay(tracker, votes)
  BY Zenon
<1>2. seen' = seen \cup Range(votes) /\ tracker' = r.tracker /\ emitted' = emitted \o r.events /\ panicked' = r.panic
  BY <1>1, Zenon DEF Handle, Becomes
<1>3. PICK sn2 : sn2 = seen'
  BY Zenon
<1>4. Legal(sn2) /\ seen \subseteq sn2
  BY <1>2, <1>3, Zenon
<1>5. Runs(r, seen, sn2)
  BY <1>1, <1>2, <1>3, <1>4, ReplayRuns, Zenon DEF TrackerInv
<1>6. ReachedIn(seen) \subseteq ReachedIn(sn2)
  BY <1>4, ReachedStays, Zenon
<1>7. Match(r.tracker, sn2) /\ r.panic = FALSE
  BY <1>5, Zenon DEF Runs
<1>8. Emitted(emitted', sn2)
  <2>1. CASE ReachedIn(seen) = {} /\ ReachedIn(sn2) = {}
    <3>1. emitted = << >> /\ r.events = << >>
      BY <1>5, <2>1, Zenon DEF TrackerInv, Emitted, Runs
    <3>2. emitted' = << >>
      BY <1>2, <3>1
    <3> QED
      BY <2>1, <3>2, Zenon DEF Emitted
  <2>2. CASE ReachedIn(seen) = {} /\ ReachedIn(sn2) # {}
    <3>1. emitted = << >>
      BY <2>2, Zenon DEF TrackerInv, Emitted
    <3>2. PICK v, b : ReachedIn(sn2) = {v} /\ r.events = <<Event(v, b)>> /\ Proves(b, v, sn2)
      BY <1>5, <2>2, Zenon DEF Runs
    <3>3. emitted' = <<Event(v, b)>>
      BY <1>2, <3>1, <3>2
    <3> QED
      BY <3>2, <3>3, Zenon DEF Emitted
  <2>3. CASE ReachedIn(seen) # {}
    <3>1. PICK v, b : ReachedIn(seen) = {v} /\ emitted = <<Event(v, b)>> /\ Proves(b, v, seen)
      BY <2>3, Zenon DEF TrackerInv, Emitted
    <3>2. r.events = << >>
      BY <1>5, <2>3, Zenon DEF Runs
    <3>3. emitted' = <<Event(v, b)>>
      BY <1>2, <3>1, <3>2
    <3>4. ReachedIn(sn2) = {v}
      BY <1>4, <1>6, <3>1, ReachedSize, Zenon
    <3>5. Proves(b, v, sn2)
      BY <1>4, <3>1, ProvesStays, Zenon
    <3> QED
      BY <3>3, <3>4, <3>5, Zenon DEF Emitted
  <2> QED
    BY <2>1, <2>2, <2>3, Zenon
<1> QED
  BY <1>2, <1>3, <1>4, <1>6, <1>7, <1>8, Zenon

\* Votes stay legal while no honest sender votes twice.
LEMMA LegalMore ==
    ASSUME NEW sn, Legal(sn), NEW new \in SUBSET (Senders \X Values),
           \A s \in Senders \ Faulty : \A v, w \in Values :
              <<s, v>> \in sn \cup new /\ <<s, w>> \in sn \cup new => v = w
    PROVE  Legal(sn \cup new)
<1>1. sn \cup new \in SUBSET (Senders \X Values)
  BY Zenon DEF Legal
<1>2. ASSUME NEW s \in EquivIn(sn \cup new) PROVE s \in Faulty
  BY <1>2, Zenon DEF EquivIn, CastIn
<1> QED
  BY <1>1, <1>2, Zenon DEF Legal

\* A vote that its sender may cast keeps the votes legal.
LEMMA CastLegal ==
    ASSUME TrackerInv, NEW s \in Senders, NEW v \in Values, MayCast(s, v)
    PROVE  Legal(seen \cup {<<s, v>>})
<1>1. ASSUME NEW r \in Senders \ Faulty, NEW u \in Values, NEW w \in Values,
             <<r, u>> \in seen \cup {<<s, v>>}, <<r, w>> \in seen \cup {<<s, v>>}
      PROVE  u = w
  <2>1. CASE r = s
    BY <1>1, <2>1, Zenon DEF MayCast
  <2>2. CASE r # s
    <3>1. <<r, u>> \in seen /\ <<r, w>> \in seen
      BY <1>1, <2>2, Zenon
    <3>2. r \notin EquivIn(seen)
      BY Zenon DEF TrackerInv, Legal
    <3> QED
      BY <3>1, <3>2, Zenon DEF EquivIn, CastIn
  <2> QED
    BY <2>1, <2>2, Zenon
<1>2. Legal(seen) /\ {<<s, v>>} \in SUBSET (Senders \X Values)
  BY DEF TrackerInv
<1> QED
  BY <1>1, <1>2, LegalMore, Zenon

\* A vote keeps the invariant.
LEMMA VoteStep ==
    ASSUME TrackerInv, NEW s \in Senders, NEW v \in Values, VoteVerified(s, v)
    PROVE  TrackerInv'
<1>1. CASE UNCHANGED vars
  BY <1>1, Zenon DEF vars, TrackerInv
<1>2. CASE Handle(<<<<s, v>>>>) /\ UNCHANGED bundleFor
  <2>1. <<<<s, v>>>> \in Seq(Senders \X Values) /\ Range(<<<<s, v>>>>) = {<<s, v>>}
    BY DEF Range
  <2>2. Legal(seen \cup {<<s, v>>})
    BY CastLegal, Zenon DEF VoteVerified
  <2>3. /\ Legal(seen') /\ Match(tracker', seen') /\ panicked' = FALSE
        /\ Emitted(emitted', seen')
        /\ ReachedIn(seen) \subseteq ReachedIn(seen')
    BY <1>2, <2>1, <2>2, HandleStep, Zenon
  <2> QED
    BY <1>2, <2>3, Zenon DEF TrackerInv
<1> QED
  BY <1>1, <1>2, Zenon DEF VoteVerified

\* The votes of a valid bundle make its value reach the quorum.
LEMMA BundleReaches ==
    ASSUME NEW sn, Legal(sn), NEW S \in SUBSET Senders, NEW E \in SUBSET Senders, validBundle(S, E),
           NEW v \in Values, \A s \in S : <<s, v>> \in sn,
           NEW eq \in [E -> Pairs], Both(E, eq) \subseteq sn
    PROVE  v \in ReachedIn(sn)
<1> DEFINE P == PlainIn(sn, v)
           Q == EquivIn(sn)
<1>1. E \subseteq Q
  <2> SUFFICES ASSUME NEW s \in E PROVE s \in Q
    BY Zenon
  <2>1. <<s, eq[s][1]>> \in sn /\ <<s, eq[s][2]>> \in sn
    BY Zenon DEF Both
  <2>2. eq[s][1] \in Values /\ eq[s][2] \in Values /\ eq[s][1] # eq[s][2]
    BY Zenon DEF Pairs
  <2> QED
    BY <2>1, <2>2, Zenon DEF EquivIn, CastIn
<1>2. S \subseteq P \cup Q
  <2> SUFFICES ASSUME NEW s \in S PROVE s \in P \cup Q
    BY Zenon
  <2>1. v \in CastIn(sn, s)
    BY Zenon DEF CastIn
  <2>2. CASE CastIn(sn, s) = {v}
    BY <2>2, Zenon DEF PlainIn
  <2>3. CASE \E w \in CastIn(sn, s) : w # v
    BY <2>1, <2>3, Zenon DEF EquivIn
  <2> QED
    BY <2>1, <2>2, <2>3, Zenon
<1>3. P \in SUBSET Senders /\ Q \in SUBSET Senders
  BY Kinds, Zenon
<1>4. ~reachesQuorum(WeightOf(Q))
  BY FewEquivocators, Zenon
<1>5. S \cap E = {} /\ WeightOf(S) + WeightOf(E) >= Quorum
  BY Zenon DEF validBundle, reachesQuorum
<1>6. WeightOf(S \cup E) >= Quorum
  BY <1>5, WeightUnion, Zenon
<1>7. v \in ReachedIn(sn) <=> P # {} /\ reachesQuorum(WeightOf(P \cup Q))
  BY Zenon DEF ReachedIn
<1> HIDE DEF P, Q
<1>8. WeightOf(P \cup Q) >= Quorum
  <2>1. S \cup E \in SUBSET (P \cup Q) /\ P \cup Q \in SUBSET Senders
    BY <1>1, <1>2, <1>3, Zenon
  <2>2. WeightOf(S \cup E) <= WeightOf(P \cup Q) /\ WeightOf(S \cup E) \in Nat /\ WeightOf(P \cup Q) \in Nat
    BY <2>1, WeightMonotone, Zenon
  <2> QED
    BY <1>6, <2>2, QuorumAssumption
<1>9. P # {}
  <2> SUFFICES ASSUME P = {} PROVE FALSE
    BY Zenon
  <2>1. P \cup Q = Q
    BY Zenon
  <2> QED
    BY <1>4, <1>8, <2>1, Zenon DEF reachesQuorum
<1> QED
  BY <1>8, <1>9, <1>7, Zenon DEF reachesQuorum

\* A bundle keeps the invariant.
LEMMA BundleStep ==
    ASSUME TrackerInv, NEW S \in SUBSET Senders, NEW E \in SUBSET Faulty, validBundle(S, E),
           NEW v \in Values, NEW eq \in [E -> Pairs], BundleVerified(S, eq, v)
    PROVE  TrackerInv'
<1>0. E \in SUBSET Senders
  BY EquivocationAssumption, Zenon
<1> DEFINE f == [s \in S |-> v]
           votes == VotesOf(f) \o PairsOf(eq)
           new == {<<s, v>> : s \in S} \cup Both(E, eq)
<1>1. VotesOf(f) \in Seq(Senders \X Values) /\ Range(VotesOf(f)) = {<<s, v>> : s \in S}
  <2>1. f \in [S -> Values] /\ {<<s, f[s]>> : s \in S} = {<<s, v>> : s \in S}
    BY Zenon
  <2> HIDE DEF f
  <2> QED
    BY <2>1, VotesOfMap, Zenon
<1>2. PairsOf(eq) \in Seq(Senders \X Values) /\ Range(PairsOf(eq)) = Both(E, eq)
  BY <1>0, VotesOfPairs, Zenon
<1>3. Handle(votes) /\ bundleFor' = v /\ \A s \in S : MayCast(s, v)
  BY Zenon DEF BundleVerified
<1> HIDE DEF f
<1>4. votes \in Seq(Senders \X Values) /\ Range(votes) = new
  <2>1. PICK p, q : p = VotesOf(f) /\ q = PairsOf(eq)
    BY Zenon
  <2>2. p \in Seq(Senders \X Values) /\ q \in Seq(Senders \X Values)
    BY <1>1, <1>2, <2>1, Zenon
  <2>3. p \o q \in Seq(Senders \X Values) /\ Range(p \o q) = Range(p) \cup Range(q)
    BY <2>2, VotesOfBoth
  <2> QED
    BY <1>1, <1>2, <2>1, <2>3, Zenon
<1>5. new \in SUBSET (Senders \X Values)
  <2>1. \A s \in E : eq[s][1] \in Values /\ eq[s][2] \in Values
    BY Zenon DEF Pairs
  <2> QED
    BY <1>0, <2>1 DEF Both
<1>6. Legal(seen)
  BY Zenon DEF TrackerInv
<1>7. Legal(seen \cup new)
  <2>1. ASSUME NEW r \in Senders \ Faulty, NEW u \in Values, <<r, u>> \in new
        PROVE  r \in S /\ u = v
    BY <2>1, Zenon DEF Both
  <2>2. ASSUME NEW r \in Senders \ Faulty, NEW u \in Values, NEW w \in Values,
               <<r, u>> \in seen, <<r, w>> \in seen
        PROVE  u = w
    <3>1. r \notin EquivIn(seen)
      BY <1>6, Zenon DEF Legal
    <3> QED
      BY <2>2, <3>1, Zenon DEF EquivIn, CastIn
  <2>3. ASSUME NEW r \in Senders \ Faulty, NEW u \in Values, r \in S, <<r, u>> \in seen
        PROVE  u = v
    BY <1>3, <2>3, Zenon DEF MayCast
  <2> HIDE DEF new
  <2>4. ASSUME NEW r \in Senders \ Faulty, NEW u \in Values, NEW w \in Values,
               <<r, u>> \in seen \cup new, <<r, w>> \in seen \cup new
        PROVE  u = w
    <3>1. CASE <<r, u>> \in seen /\ <<r, w>> \in seen
      BY <2>2, <3>1, Zenon
    <3>2. CASE <<r, u>> \in new \/ <<r, w>> \in new
      BY <2>1, <2>3, <2>4, <3>2, Zenon
    <3> QED
      BY <2>4, <3>1, <3>2, Zenon
  <2> QED
    BY <1>5, <1>6, <2>4, LegalMore, Zenon
<1> HIDE DEF votes
<1>8. /\ seen' = seen \cup new
      /\ Legal(seen') /\ Match(tracker', seen') /\ panicked' = FALSE
      /\ Emitted(emitted', seen')
  <2> HIDE DEF new
  <2> QED
    BY <1>3, <1>4, <1>7, HandleStep, Zenon
<1>9. v \in ReachedIn(seen')
  <2>1. (\A s \in S : <<s, v>> \in seen') /\ Both(E, eq) \subseteq seen'
    BY <1>8, Zenon
  <2> QED
    BY <1>0, <1>8, <2>1, BundleReaches, Zenon
<1> HIDE DEF new
<1> QED
  BY <1>3, <1>8, <1>9, Zenon DEF TrackerInv

\* TrackerInv is inductive: a vote, or the votes of a bundle one after the other, lead from
\* the tracker of the votes handled before to the tracker of the votes handled after.
THEOREM TrackerIsInvariant == Spec => []TrackerInv
<1>1. ASSUME TrackerInv, [Next]_vars PROVE TrackerInv'
  <2>1. CASE UNCHANGED vars
    BY <1>1, <2>1, Zenon DEF vars, TrackerInv
  <2>2. CASE \E s \in Senders, v \in Values : VoteVerified(s, v)
    BY <1>1, <2>2, VoteStep, Zenon
  <2>3. CASE \E S \in SUBSET Senders, E \in SUBSET Faulty :
               /\ validBundle(S, E)
               /\ \E v \in Values, eq \in [E -> Pairs] : BundleVerified(S, eq, v)
    BY <1>1, <2>3, BundleStep, Zenon
  <2> QED
    BY <1>1, <2>1, <2>2, <2>3, Zenon DEF Next
<1> QED
  BY InitInv, <1>1, PTL DEF Spec

----------------------------------------------------------------------------
(* The properties.                                                         *)

\* The sets that the properties use are those of the votes seen.
LEMMA SeenSets ==
    /\ \A s : SeenOf(s) = CastIn(seen, s)
    /\ \A v : Plain(v) = PlainIn(seen, v)
    /\ Equivocating = EquivIn(seen)
BY Zenon DEF SeenOf, Plain, Equivocating, CastIn, PlainIn, EquivIn

\* The counts are the weights of the votes seen.
LEMMA InvCounts == TrackerInv => CountsMatchVotes
<1> SUFFICES ASSUME TrackerInv PROVE CountsMatchVotes
  BY Zenon
<1>1. PICK f, g : /\ VotersFor(seen, f) /\ PairsFor(seen, g)
                  /\ tracker = Tracker(f, CountsFor(seen), g, WeightOf(EquivIn(seen)))
  BY Zenon DEF TrackerInv, Match
<1>2. /\ tracker.Voters = f /\ tracker.Counts = CountsFor(seen) /\ tracker.Equivocators = g
      /\ tracker.EquivocatorsCount = WeightOf(EquivIn(seen))
  BY <1>1, TrackerFields
<1>3. DOMAIN f = VotersIn(seen) /\ DOMAIN g = EquivIn(seen)
  BY <1>1, Zenon DEF VotersFor, PairsFor
<1>4. /\ DOMAIN tracker.Counts = {v \in Values : Plain(v) # {}}
      /\ \A v \in DOMAIN tracker.Counts :
            tracker.Counts[v] = [Count |-> WeightOf(Plain(v)), Votes |-> Plain(v)]
  BY <1>2, SeenSets, Zenon DEF CountsFor, Tally
<1>5. DOMAIN tracker.Voters = UNION {Plain(v) : v \in Values}
  <2>1. VotersIn(seen) = UNION {PlainIn(seen, v) : v \in Values}
    BY Zenon DEF VotersIn, PlainIn
  <2>2. {Plain(v) : v \in Values} = {PlainIn(seen, v) : v \in Values}
    BY SeenSets, Zenon
  <2> QED
    BY <1>2, <1>3, <2>1, <2>2, Zenon
<1>6. DOMAIN tracker.Equivocators = Equivocating /\ tracker.EquivocatorsCount = WeightOf(Equivocating)
  BY <1>2, <1>3, SeenSets, Zenon
<1>7. TypeOK
  <2>1. VotersIn(seen) \subseteq Senders /\ EquivIn(seen) \subseteq Senders /\ WeightOf(EquivIn(seen)) \in Nat
    BY Kinds, WeightFacts, Zenon DEF VotersIn
  <2>2. seen \subseteq Senders \X Values /\ panicked \in BOOLEAN /\ bundleFor \in Values \cup {NoValue}
    BY Zenon DEF TrackerInv, Legal
  <2> QED
    BY <1>2, <1>3, <1>4, <2>1, <2>2, Zenon DEF TypeOK
<1> QED
  BY <1>4, <1>5, <1>6, <1>7, Zenon DEF CountsMatchVotes

\* One event, at the vote that reached the quorum.
LEMMA InvThreshold == TrackerInv => ThresholdExactlyOnce
<1> SUFFICES ASSUME TrackerInv PROVE ThresholdExactlyOnce
  BY Zenon
<1> DEFINE reached == {v \in Values : Plain(v) # {} /\ reachesQuorum(WeightOf(Plain(v) \cup Equivocating))}
<1>1. reached = ReachedIn(seen)
  BY SeenSets, Zenon DEF ReachedIn
<1> HIDE DEF reached
<1>2. Len(emitted) = Cardinality(reached) /\ \A i \in 1..Len(emitted) : emitted[i].Proposal \in reached
  <2>1. CASE ReachedIn(seen) = {} /\ emitted = << >>
    BY <1>1, <2>1, FS_EmptySet
  <2>2. ASSUME NEW v, NEW b, ReachedIn(seen) = {v}, emitted = <<Event(v, b)>>
        PROVE  Len(emitted) = Cardinality(reached) /\ \A i \in 1..Len(emitted) : emitted[i].Proposal \in reached
    <3>1. Len(emitted) = 1 /\ emitted[1] = Event(v, b)
      BY <2>2, Zenon
    <3>2. Event(v, b).Proposal = v
      BY Zenon DEF Event
    <3>3. Cardinality(reached) = 1
      BY <1>1, <2>2, FS_Singleton, Zenon
    <3> QED
      BY <1>1, <2>2, <3>1, <3>2, <3>3
  <2> QED
    BY <2>1, <2>2, Zenon DEF TrackerInv, Emitted
<1> QED
  BY <1>2, Zenon DEF ThresholdExactlyOnce, reached

\* Its bundle is valid and made of votes seen.
LEMMA InvBundle == TrackerInv => BundleProvesThreshold
<1> SUFFICES ASSUME TrackerInv PROVE BundleProvesThreshold
  BY Zenon
<1>1. ~panicked
  BY Zenon DEF TrackerInv
<1>2. ASSUME NEW i \in 1..Len(emitted), NEW B, B = emitted[i].Bundle
      PROVE  /\ B.Proposal = emitted[i].Proposal
             /\ validBundle(B.Votes, DOMAIN B.EquivocationVotes)
             /\ \A s \in B.Votes : <<s, B.Proposal>> \in seen
             /\ \A s \in DOMAIN B.EquivocationVotes :
                   /\ B.EquivocationVotes[s] \in Pairs
                   /\ \A i2 \in 1..2 : <<s, B.EquivocationVotes[s][i2]>> \in seen
  <2>1. emitted # << >>
    BY <1>2
  <2>2. PICK v, b : emitted = <<Event(v, b)>> /\ Proves(b, v, seen)
    BY <2>1, Zenon DEF TrackerInv, Emitted
  <2>3. i = 1 /\ emitted[i] = Event(v, b)
    BY <1>2, <2>2
  <2>4. emitted[i].Proposal = v /\ B = b
    BY <1>2, <2>3 DEF Event
  <2>5. \A x \in 1..2 : x = 1 \/ x = 2
    OBVIOUS
  <2> QED
    BY <2>2, <2>4, <2>5, Zenon DEF Proves
<1> QED
  BY <1>1, <1>2, Zenon DEF BundleProvesThreshold

\* A tracker that was handed a valid bundle has the event for its value.
LEMMA InvConvinces == TrackerInv => BundleConvinces
<1> SUFFICES ASSUME TrackerInv, bundleFor # NoValue
             PROVE  \E i \in 1..Len(emitted) : emitted[i].Proposal = bundleFor
  BY Zenon DEF BundleConvinces
<1>1. bundleFor \in ReachedIn(seen)
  BY Zenon DEF TrackerInv
<1>2. PICK v, b : ReachedIn(seen) = {v} /\ emitted = <<Event(v, b)>>
  BY <1>1, Zenon DEF TrackerInv, Emitted
<1>3. Len(emitted) = 1 /\ emitted[1] = Event(v, b) /\ Event(v, b).Proposal = bundleFor
  BY <1>1, <1>2, Zenon DEF Event
<1> QED
  BY <1>3

\* The filter drops exactly what would leave the tracker alone.
LEMMA InvFilter == TrackerInv => FilterDropsOnlyDuplicates
<1> SUFFICES ASSUME TrackerInv, NEW s \in Senders, NEW v \in Values, MayCast(s, v)
             PROVE  voteFilter(tracker, s, v) <=> handle(tracker, s, v).tracker = tracker
  BY Zenon DEF FilterDropsOnlyDuplicates
<1>1. Legal(seen \cup {<<s, v>>}) /\ Match(tracker, seen)
  BY CastLegal, Zenon DEF TrackerInv
<1>2. PICK sn2 : sn2 = seen \cup {<<s, v>>}
  BY Zenon
<1>3. Legal(sn2)
  BY <1>1, <1>2, Zenon
<1> QED
  BY <1>1, <1>2, <1>3, HandleReturns, Zenon

----------------------------------------------------------------------------
(* dumpVotes.                                                              *)

\* The votes that a dump returns make the same tallies as all that were seen.
LEMMA DumpTally ==
    ASSUME NEW sn, Legal(sn), NEW f, VotersFor(sn, f), NEW g, PairsFor(sn, g),
           NEW D, D = {<<s, f[s]>> : s \in VotersIn(sn)} \cup Both(EquivIn(sn), g)
    PROVE  D \subseteq sn /\ SameTally(sn, D)
<1>1. \A s \in VotersIn(sn) : CastIn(sn, s) = {f[s]} /\ <<s, f[s]>> \in sn /\ f[s] \in Values
  BY Zenon DEF VotersFor, CastIn
<1>2. \A s \in EquivIn(sn) : /\ <<s, g[s][1]>> \in sn /\ <<s, g[s][2]>> \in sn
                             /\ g[s][1] \in Values /\ g[s][2] \in Values /\ g[s][1] # g[s][2]
  BY Zenon DEF PairsFor, Pairs
<1>3. D \subseteq sn
  BY <1>1, <1>2, Zenon DEF Both
<1>4. ASSUME NEW s \in VotersIn(sn) PROVE CastIn(D, s) = CastIn(sn, s)
  <2>1. f[s] \in CastIn(D, s)
    BY <1>1, Zenon DEF CastIn
  <2>2. CastIn(D, s) \subseteq CastIn(sn, s)
    BY <1>3, Zenon DEF CastIn
  <2> QED
    BY <1>1, <2>1, <2>2, Zenon
<1>5. ASSUME NEW s \in EquivIn(sn) PROVE s \in EquivIn(D)
  <2>1. <<s, g[s][1]>> \in D /\ <<s, g[s][2]>> \in D
    BY Zenon DEF Both
  <2>2. s \in Senders
    BY Kinds, Zenon
  <2>3. g[s][1] \in CastIn(D, s) /\ g[s][2] \in CastIn(D, s)
    BY <1>2, <2>1, Zenon DEF CastIn
  <2> QED
    BY <1>2, <2>2, <2>3, Zenon DEF EquivIn
<1>6. \A s \in Senders : s \notin VotersIn(sn) /\ s \notin EquivIn(sn) => CastIn(sn, s) = {}
  BY Kinds, Zenon
<1>7. \A s \in Senders : CastIn(D, s) \subseteq CastIn(sn, s)
  BY <1>3, Zenon DEF CastIn
<1>8. EquivIn(D) \subseteq EquivIn(sn)
  BY <1>7, Zenon DEF EquivIn
<1>9. ASSUME NEW u \in Values PROVE PlainIn(D, u) = PlainIn(sn, u)
  <2>1. ASSUME NEW s \in PlainIn(sn, u) PROVE s \in PlainIn(D, u)
    <3>1. s \in VotersIn(sn) /\ s \in Senders
      BY Zenon DEF VotersIn, PlainIn
    <3> QED
      BY <1>4, <3>1, Zenon DEF PlainIn
  <2>2. ASSUME NEW s \in PlainIn(D, u) PROVE s \in PlainIn(sn, u)
    <3>1. s \in Senders /\ CastIn(D, s) = {u} /\ s \notin EquivIn(D)
      BY Kinds, Zenon DEF PlainIn
    <3>2. s \in VotersIn(sn)
      BY <1>5, <1>6, <1>7, <3>1, Zenon
    <3> QED
      BY <1>4, <3>1, <3>2, Zenon DEF PlainIn
  <2> QED
    BY <2>1, <2>2, Zenon
<1> QED
  BY <1>3, <1>5, <1>8, <1>9, Zenon DEF SameTally

\* The dumped votes lead an empty tracker to the same state.
LEMMA InvDump == TrackerInv => DumpRebuilds
<1> SUFFICES ASSUME TrackerInv PROVE DumpRebuilds
  BY Zenon
<1>1. PICK f, g : /\ VotersFor(seen, f) /\ PairsFor(seen, g)
                  /\ tracker = Tracker(f, CountsFor(seen), g, WeightOf(EquivIn(seen)))
  BY Zenon DEF TrackerInv, Match
<1>2. /\ tracker.Voters = f /\ tracker.Counts = CountsFor(seen) /\ tracker.Equivocators = g
      /\ tracker.EquivocatorsCount = WeightOf(EquivIn(seen))
  BY <1>1, TrackerFields
<1>3. VotersIn(seen) \in SUBSET Senders /\ EquivIn(seen) \in SUBSET Senders
  BY Kinds, Zenon DEF VotersIn
<1>4. f \in [VotersIn(seen) -> Values] /\ g \in [EquivIn(seen) -> Pairs]
  BY <1>1, Zenon DEF VotersFor, PairsFor, CastIn
<1>5. PICK D : D = {<<s, f[s]>> : s \in VotersIn(seen)} \cup Both(EquivIn(seen), g)
  BY Zenon
<1>6. PICK votes : votes = dumpVotes(tracker)
  BY Zenon
<1>7. votes \in Seq(Senders \X Values) /\ Range(votes) = D
  <2>1. votes = VotesOf(f) \o PairsOf(g)
    BY <1>2, <1>6, Zenon DEF dumpVotes
  <2>2. VotesOf(f) \in Seq(Senders \X Values) /\ Range(VotesOf(f)) = {<<s, f[s]>> : s \in VotersIn(seen)}
    BY <1>3, <1>4, VotesOfMap, Zenon
  <2>3. PairsOf(g) \in Seq(Senders \X Values) /\ Range(PairsOf(g)) = Both(EquivIn(seen), g)
    BY <1>3, <1>4, VotesOfPairs, Zenon
  <2>4. PICK p, q : p = VotesOf(f) /\ q = PairsOf(g)
    BY Zenon
  <2>5. p \in Seq(Senders \X Values) /\ q \in Seq(Senders \X Values)
    BY <2>2, <2>3, <2>4, Zenon
  <2>6. p \o q \in Seq(Senders \X Values) /\ Range(p \o q) = Range(p) \cup Range(q)
    BY <2>5, VotesOfBoth
  <2> QED
    BY <1>5, <2>1, <2>2, <2>3, <2>4, <2>6, Zenon
<1>8. D \subseteq seen /\ SameTally(seen, D) /\ Legal(seen)
  <2>1. Legal(seen)
    BY Zenon DEF TrackerInv
  <2> QED
    BY <1>1, <1>5, <2>1, DumpTally
<1>9. PICK r : r = Replay(EmptyTracker, votes)
  BY Zenon
<1>10. Runs(r, {}, D)
  <2>1. Legal(D) /\ D = {} \cup Range(votes)
    BY <1>7, <1>8, ReachedStays, Zenon
  <2> QED
    BY <1>7, <1>9, <2>1, EmptyMatch, ReplayRuns, Zenon
<1>11. CountsFor(D) = CountsFor(seen) /\ ReachedIn(D) = ReachedIn(seen) /\ EquivIn(D) = EquivIn(seen)
  BY <1>8, SameTallySame, Zenon DEF SameTally
<1>12. r.tracker.Counts = tracker.Counts /\ r.tracker.EquivocatorsCount = tracker.EquivocatorsCount
  <2>1. PICK f2, g2 : r.tracker = Tracker(f2, CountsFor(D), g2, WeightOf(EquivIn(D)))
    BY <1>10, Zenon DEF Runs, Match
  <2> QED
    BY <1>2, <1>11, <2>1, TrackerFields
<1>13. [i \in 1..Len(r.events) |-> r.events[i].Proposal] = [i \in 1..Len(emitted) |-> emitted[i].Proposal]
  <2>1. CASE ReachedIn(seen) = {}
    <3>1. emitted = << >> /\ r.events = << >>
      BY <1>10, <1>11, <2>1, Zenon DEF TrackerInv, Emitted, Runs
    <3> QED
      BY <3>1, Zenon
  <2>2. CASE ReachedIn(seen) # {}
    <3>1. PICK v, b : ReachedIn(seen) = {v} /\ emitted = <<Event(v, b)>>
      BY <2>2, Zenon DEF TrackerInv, Emitted
    <3>2. PICK w, c : ReachedIn(seen) = {w} /\ r.events = <<Event(w, c)>>
      BY <1>10, <1>11, <2>2, EmptyMatch, Zenon DEF Runs
    <3>3. v = w
      BY <3>1, <3>2, Zenon
    <3>4. Event(v, b).Proposal = v /\ Event(w, c).Proposal = w
      BY Zenon DEF Event
    <3>5. Len(emitted) = 1 /\ Len(r.events) = 1 /\ emitted[1].Proposal = v /\ r.events[1].Proposal = v
      BY <3>1, <3>2, <3>3, <3>4
    <3> QED
      BY <3>5
  <2> QED
    BY <2>1, <2>2, Zenon
<1>14. ~r.panic
  BY <1>10, Zenon DEF Runs
<1> QED
  BY <1>6, <1>9, <1>12, <1>13, <1>14, Zenon DEF DumpRebuilds, Rebuilds
----------------------------------------------------------------------------

\* Whatever the order of the votes, for any number of senders, weights, values and
\* quorum, the tracker's maps and weights are those one would compute from the set of
\* votes handled (voteTracker.handle).
THEOREM CountsMatchVotesHolds == Spec => []CountsMatchVotes
BY TrackerIsInvariant, InvCounts, PTL

\* The threshold event comes exactly once, when a value reaches the quorum, and for that
\* value (the contract of voteTracker.handle).
THEOREM ThresholdExactlyOnceHolds == Spec => []ThresholdExactlyOnce
BY TrackerIsInvariant, InvThreshold, PTL

\* The bundle genBundle packs passes unauthenticatedBundle.verify, and the tracker never
\* reaches one of its panics.
THEOREM BundleProvesThresholdHolds == Spec => []BundleProvesThreshold
BY TrackerIsInvariant, InvBundle, PTL

\* Replaying a verified bundle emits its threshold, whatever the tracker held before.
THEOREM BundleConvincesHolds == Spec => []BundleConvinces
BY TrackerIsInvariant, InvConvinces, PTL

\* What dumpVotesRequest returns rebuilds the counts and the threshold in a fresh tracker.
THEOREM DumpRebuildsHolds == Spec => []DumpRebuilds
BY TrackerIsInvariant, InvDump, PTL

\* voteFilterRequest drops exactly the votes that handle would ignore.
THEOREM FilterDropsOnlyDuplicatesHolds == Spec => []FilterDropsOnlyDuplicates
BY TrackerIsInvariant, InvFilter, PTL
============================================================================
