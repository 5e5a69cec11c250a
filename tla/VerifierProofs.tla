--------------------------- MODULE VerifierProofs ---------------------------
(***************************************************************************)
(* Proofs about Verifier for every parallelism, backlog, size of bundles   *)
(* and number of messages: a request that the demultiplexer lets in finds  *)
(* room, and every vote submitted has exactly one result.                  *)
(***************************************************************************)
EXTENDS Verifier, FiniteSetTheorems, TLAPS

USE VerifierAssumption

----------------------------------------------------------------------------
(* The inductive invariant.                                                *)

Vote == Task("vote", 0, 1)
BundleTasks == {Task("bundle", b, BundleVotes) : b \in 1 .. MaxBundles}
PoolTasks == {Vote} \cup {Task("bundle", b, 1) : b \in 1 .. MaxBundles}
FillStates ==
    {Idle, Stopped, Refused, Vote}
    \cup {Task("bundle", b, l) : b \in 1 .. MaxBundles, l \in 0 .. BundleVotes}
WaitStates == {Idle, Stopped, Refused} \cup {Task("bundle", b, 0) : b \in 1 .. MaxBundles}

\* What the channels, the pool and the workers hold.
VoteTypes ==
    /\ votesIn \in Seq({Vote}) /\ votesOut \in Seq({Vote})
    /\ pool \in Seq(PoolTasks)
    /\ worker \in {<< >>} \cup {<<t>> : t \in PoolTasks}
    /\ fill \in FillStates
    /\ results \subseteq 1 .. MaxBundles
VoteRoom == Len(votesIn) <= votesInCap /\ Len(votesOut) <= votesOutCap /\ Len(pool) <= poolCap
BundleTypes ==
    /\ bundlesIn \in Seq(BundleTasks) /\ Len(bundlesIn) <= bundlesInCap
    /\ bundlesOut \in 0 .. bundlesOutCap
    /\ wait \in WaitStates
    /\ bundles \in 0 .. MaxBundles
ProposalTypes ==
    /\ proposalsIn \in 0 .. proposalsInCap /\ proposalsOut \in 0 .. proposalsOutCap
    /\ validate \in {"idle", "busy", "stopped"}
DemuxTypes ==
    /\ pc \in {"gate", "select", "do", "crypto", "verifier", "done"}
    /\ open \subseteq {"votes", "proposals", "bundles"}
    /\ action \in {"none", "vote", "payload", "bundle"}
    /\ pc = "do" => action # "none"
    /\ arrived \in 0 .. MaxMessages
    /\ quit \in BOOLEAN /\ closed \in BOOLEAN

\* A raw channel that next reads from has room behind it until its message is submitted:
\* nobody but the demultiplexer itself fills the channels of the verifier.
Room ==
    /\ pc = "select" =>
          /\ open \cap {"votes", "proposals"} # {} => Len(votesIn) < votesInCap
          /\ "bundles" \in open => Len(bundlesIn) < bundlesInCap
    /\ pc = "do" =>
          /\ action = "vote" => Len(votesIn) < votesInCap
          /\ action = "bundle" => Len(bundlesIn) < bundlesInCap /\ bundles > 0

\* Every vote owed a result is in a channel, in the pool or with a worker.
VotePlaces(s) == {i \in 1 .. Len(s) : s[i].kind = "vote"}
Count(s) == Cardinality(VotePlaces(s))
Holds(t) == IF t.kind = "vote" THEN 1 ELSE 0
Counted == owed = Count(votesIn) + Count(pool) + Count(worker) + Count(votesOut) + Holds(fill)

VerifierInv == VoteTypes /\ VoteRoom /\ BundleTypes /\ ProposalTypes /\ DemuxTypes /\ Room /\ Counted

----------------------------------------------------------------------------
(* Counting the votes of a list of tasks.                                  *)

LEMMA CountType ==
    ASSUME NEW S, NEW s \in Seq(S)
    PROVE  IsFiniteSet(VotePlaces(s)) /\ Count(s) \in Nat
<1>1. IsFiniteSet(1 .. Len(s))
  BY FS_Interval
<1>2. VotePlaces(s) \in SUBSET (1 .. Len(s))
  BY Zenon DEF VotePlaces
<1>3. IsFiniteSet(VotePlaces(s))
  BY <1>1, <1>2, FS_Subset, Zenon
<1> QED
  BY <1>3, FS_CardinalityType, Zenon DEF Count

LEMMA CountShort ==
    /\ Count(<< >>) = 0
    /\ \A x : Count(<<x>>) = Holds(x)
<1>1. VotePlaces(<< >>) = {}
  BY DEF VotePlaces
<1>2. ASSUME NEW x PROVE Count(<<x>>) = Holds(x)
  <2>1. Len(<<x>>) = 1 /\ <<x>>[1] = x
    BY Zenon
  <2>2. VotePlaces(<<x>>) = IF x.kind = "vote" THEN {1} ELSE {}
    BY <2>1 DEF VotePlaces
  <2> QED
    BY <2>2, FS_EmptySet, FS_Singleton, Zenon DEF Count, Holds
<1> QED
  BY <1>1, <1>2, FS_EmptySet, Zenon DEF Count

\* The votes of two lists are those of the one and those of the other.
LEMMA CountConcat ==
    ASSUME NEW S, NEW s \in Seq(S), NEW t \in Seq(S)
    PROVE  Count(s \o t) = Count(s) + Count(t)
<1> DEFINE n == Len(s)
           m == Len(t)
           B == {i \in (n + 1) .. (n + m) : t[i - n].kind = "vote"}
<1>0. n \in Nat /\ m \in Nat
  OBVIOUS
<1>1. VotePlaces(s \o t) = VotePlaces(s) \cup B
  <2>1. /\ Len(s \o t) = n + m
        /\ \A i \in 1 .. (n + m) : (s \o t)[i] = IF i <= n THEN s[i] ELSE t[i - n]
    OBVIOUS
  <2> DEFINE u == s \o t
  <2> HIDE DEF u
  <2>2. /\ Len(u) = n + m
        /\ \A i \in 1 .. (n + m) : u[i] = IF i <= n THEN s[i] ELSE t[i - n]
    BY <2>1, Zenon DEF u
  <2>3. ASSUME NEW i \in 1 .. (n + m) PROVE u[i].kind = "vote" <=> i \in VotePlaces(s) \cup B
    <3>1. CASE i <= n
      BY <1>0, <2>2, <3>1 DEF VotePlaces
    <3>2. CASE i > n
      BY <1>0, <2>2, <3>2 DEF VotePlaces
    <3> QED
      BY <1>0, <3>1, <3>2
  <2>4. VotePlaces(s) \cup B \subseteq 1 .. (n + m)
    BY <1>0 DEF VotePlaces
  <2>5. VotePlaces(u) = VotePlaces(s) \cup B
    BY <2>2, <2>3, <2>4, Zenon DEF VotePlaces
  <2> QED
    BY <2>5, Zenon DEF u
<1>2. IsFiniteSet(VotePlaces(s)) /\ IsFiniteSet(VotePlaces(t)) /\ Count(s) \in Nat /\ Count(t) \in Nat
  BY CountType, Zenon
<1>3. IsFiniteSet(B) /\ Cardinality(B) = Count(t)
  <2> DEFINE f == [i \in VotePlaces(t) |-> i + n]
  <2>1. f \in Bijection(VotePlaces(t), B)
    <3>1. \A i \in VotePlaces(t) : i \in 1 .. m /\ t[i].kind = "vote"
      BY Zenon DEF VotePlaces
    <3>2. f \in [VotePlaces(t) -> B]
      BY <1>0, <3>1
    <3>3. \A a, b \in VotePlaces(t) : f[a] = f[b] => a = b
      BY <1>0, <3>1
    <3>4. ASSUME NEW b \in B PROVE \E a \in VotePlaces(t) : f[a] = b
      <4>1. b - n \in VotePlaces(t) /\ (b - n) + n = b
        BY <1>0 DEF VotePlaces
      <4> QED
        BY <4>1, Zenon
    <3> QED
      BY <3>2, <3>3, <3>4, Zenon DEF Bijection, Injection, Surjection, IsInjective
  <2>2. ExistsBijection(VotePlaces(t), B)
    BY <2>1, Zenon DEF ExistsBijection
  <2> QED
    BY <1>2, <2>2, FS_Bijection, Zenon DEF Count
<1>4. VotePlaces(s) \cap B = {}
  BY <1>0 DEF VotePlaces
<1>5. Cardinality(VotePlaces(s) \cup B) = Cardinality(VotePlaces(s)) + Cardinality(B) - Cardinality({})
  BY <1>2, <1>3, <1>4, FS_Union, Zenon
<1> QED
  BY <1>1, <1>2, <1>3, <1>5, FS_EmptySet DEF Count

LEMMA CountAppend ==
    ASSUME NEW S, NEW s \in Seq(S), NEW x \in S
    PROVE  Count(Append(s, x)) = Count(s) + Holds(x)
<1>1. Append(s, x) = s \o <<x>> /\ <<x>> \in Seq(S)
  OBVIOUS
<1>2. Count(s \o <<x>>) = Count(s) + Count(<<x>>)
  BY <1>1, CountConcat, Zenon
<1> QED
  BY <1>1, <1>2, CountShort, Zenon

LEMMA SameList ==
    ASSUME NEW S, NEW s \in Seq(S), NEW t \in Seq(S), Len(s) = Len(t),
           \A i \in 1 .. Len(s) : s[i] = t[i]
    PROVE  s = t
  OBVIOUS

LEMMA ConcatFacts ==
    ASSUME NEW S, NEW s \in Seq(S), NEW t \in Seq(S)
    PROVE  /\ s \o t \in Seq(S) /\ Len(s \o t) = Len(s) + Len(t)
           /\ \A i \in 1 .. (Len(s) + Len(t)) : (s \o t)[i] = IF i <= Len(s) THEN s[i] ELSE t[i - Len(s)]
  OBVIOUS

LEMMA CountTail ==
    ASSUME NEW S, NEW s \in Seq(S), s # << >>
    PROVE  Count(s) = Count(Tail(s)) + Holds(Head(s))
<1> DEFINE h == <<Head(s)>>
           r == Tail(s)
<1>1. /\ h \in Seq(S) /\ r \in Seq(S) /\ Len(h) = 1 /\ Len(r) = Len(s) - 1 /\ Len(s) \in Nat \ {0}
      /\ h[1] = s[1] /\ \A i \in 1 .. Len(r) : r[i] = s[i + 1]
  OBVIOUS
<1> HIDE DEF h, r
<1>2. /\ h \o r \in Seq(S) /\ Len(h \o r) = Len(s)
      /\ \A i \in 1 .. Len(s) : (h \o r)[i] = s[i]
  <2>1. /\ h \o r \in Seq(S) /\ Len(h \o r) = 1 + Len(r)
        /\ \A i \in 1 .. (1 + Len(r)) : (h \o r)[i] = IF i <= 1 THEN h[i] ELSE r[i - 1]
    <3>1. h \in Seq(S) /\ r \in Seq(S) /\ Len(h) = 1
      BY <1>1, Zenon
    <3>2. /\ h \o r \in Seq(S) /\ Len(h \o r) = Len(h) + Len(r)
          /\ \A i \in 1 .. (Len(h) + Len(r)) : (h \o r)[i] = IF i <= Len(h) THEN h[i] ELSE r[i - Len(h)]
      BY <3>1, ConcatFacts, Zenon
    <3> QED
      BY <3>1, <3>2, Zenon
  <2>2. 1 + Len(r) = Len(s)
    BY <1>1
  <2>3. ASSUME NEW i \in 1 .. Len(s) PROVE (h \o r)[i] = s[i]
    <3>1. CASE i = 1
      BY <1>1, <2>1, <2>2, <3>1
    <3>2. CASE i # 1
      <4>1. i - 1 \in 1 .. Len(r) /\ (i - 1) + 1 = i /\ ~(i <= 1)
        BY <1>1, <3>2
      <4> QED
        BY <1>1, <2>1, <2>2, <4>1, Zenon
    <3> QED
      BY <3>1, <3>2, Zenon
  <2> QED
    BY <2>1, <2>2, <2>3, Zenon
<1>3. s = h \o r
  BY <1>2, SameList, Zenon
<1>4. Count(s) = Count(h) + Count(r) /\ Count(h) \in Nat /\ Count(r) \in Nat
  BY <1>1, <1>3, CountConcat, CountType, Zenon
<1> QED
  BY <1>4, CountShort DEF h, r

\* Taking a task out of a list.
LEMMA CountWithout ==
    ASSUME NEW S, NEW s \in Seq(S), NEW i \in 1 .. Len(s)
    PROVE  /\ Without(s, i) \in Seq(S) /\ Len(Without(s, i)) = Len(s) - 1
           /\ Count(s) = Count(Without(s, i)) + Holds(s[i])
<1> DEFINE a == SubSeq(s, 1, i - 1)
           b == SubSeq(s, i + 1, Len(s))
           h == <<s[i]>>
<1>0. Len(s) \in Nat /\ i \in Nat /\ i >= 1 /\ i <= Len(s) /\ s[i] \in S
  OBVIOUS
<1>1. a \in Seq(S) /\ Len(a) = i - 1 /\ \A k \in 1 .. (i - 1) : a[k] = s[k]
  BY <1>0
<1>2. b \in Seq(S) /\ Len(b) = Len(s) - i /\ \A k \in 1 .. (Len(s) - i) : b[k] = s[i + k]
  BY <1>0
<1>3. h \in Seq(S) /\ Len(h) = 1 /\ h[1] = s[i]
  BY <1>0
<1>4. Without(s, i) = a \o b
  BY Zenon DEF Without
<1> HIDE DEF a, b, h
<1>5. a \o b \in Seq(S) /\ Len(a \o b) = Len(s) - 1
  BY <1>0, <1>1, <1>2
<1>6. /\ h \o b \in Seq(S) /\ Len(h \o b) = Len(s) - i + 1
      /\ \A k \in 1 .. (Len(s) - i + 1) : (h \o b)[k] = IF k = 1 THEN s[i] ELSE b[k - 1]
  <2>1. /\ h \o b \in Seq(S) /\ Len(h \o b) = 1 + Len(b)
        /\ \A k \in 1 .. (1 + Len(b)) : (h \o b)[k] = IF k <= 1 THEN h[k] ELSE b[k - 1]
    <3>1. h \in Seq(S) /\ b \in Seq(S) /\ Len(h) = 1
      BY <1>2, <1>3, Zenon
    <3>2. /\ h \o b \in Seq(S) /\ Len(h \o b) = Len(h) + Len(b)
          /\ \A k \in 1 .. (Len(h) + Len(b)) : (h \o b)[k] = IF k <= Len(h) THEN h[k] ELSE b[k - Len(h)]
      BY <3>1, ConcatFacts, Zenon
    <3> QED
      BY <3>1, <3>2, Zenon
  <2>2. 1 + Len(b) = Len(s) - i + 1
    BY <1>0, <1>2
  <2>3. ASSUME NEW k \in 1 .. (Len(s) - i + 1) PROVE (h \o b)[k] = IF k = 1 THEN s[i] ELSE b[k - 1]
    <3>1. k <= 1 <=> k = 1
      OBVIOUS
    <3> QED
      BY <1>3, <2>1, <2>2, <3>1, Zenon
  <2> QED
    BY <2>1, <2>2, <2>3, Zenon
<1> DEFINE c == h \o b
<1> HIDE DEF c
<1>7. c \in Seq(S) /\ Len(c) = Len(s) - i + 1 /\ \A k \in 1 .. (Len(s) - i + 1) : c[k] = s[i - 1 + k]
  <2>1. c \in Seq(S) /\ Len(c) = Len(s) - i + 1
    BY <1>6, Zenon DEF c
  <2>2. ASSUME NEW k \in 1 .. (Len(s) - i + 1) PROVE c[k] = s[i - 1 + k]
    <3>1. c[k] = IF k = 1 THEN s[i] ELSE b[k - 1]
      BY <1>6, Zenon DEF c
    <3>2. CASE k = 1
      BY <1>0, <3>1, <3>2
    <3>3. CASE k # 1
      <4>1. k - 1 \in 1 .. (Len(s) - i) /\ i + (k - 1) = i - 1 + k
        BY <1>0, <3>3
      <4> QED
        BY <1>2, <3>1, <3>3, <4>1, Zenon
    <3> QED
      BY <3>2, <3>3, Zenon
  <2> QED
    BY <2>1, <2>2, Zenon
<1>8. s = a \o c
  <2> DEFINE u == a \o c
  <2>1. /\ u \in Seq(S) /\ Len(u) = Len(s)
        /\ \A k \in 1 .. Len(s) : u[k] = IF k <= i - 1 THEN a[k] ELSE c[k - (i - 1)]
    <3>1. Len(a) = i - 1 /\ a \in Seq(S) /\ c \in Seq(S) /\ (i - 1) + Len(c) = Len(s)
      BY <1>0, <1>1, <1>7
    <3>2. /\ u \in Seq(S) /\ Len(u) = Len(a) + Len(c)
          /\ \A k \in 1 .. (Len(a) + Len(c)) : u[k] = IF k <= Len(a) THEN a[k] ELSE c[k - Len(a)]
      BY <3>1, ConcatFacts, Zenon
    <3> QED
      BY <3>1, <3>2, Zenon
  <2> HIDE DEF u
  <2>2. ASSUME NEW k \in 1 .. Len(s) PROVE u[k] = s[k]
    <3>1. CASE k <= i - 1
      BY <1>0, <1>1, <2>1, <3>1
    <3>2. CASE k > i - 1
      <4>1. k - (i - 1) \in 1 .. (Len(s) - i + 1) /\ i - 1 + (k - (i - 1)) = k
        BY <1>0, <3>2
      <4> QED
        BY <1>0, <1>7, <2>1, <3>2, <4>1
    <3> QED
      BY <1>0, <3>1, <3>2
  <2>3. s = u
    BY <2>1, <2>2, SameList, Zenon
  <2> QED
    BY <2>3, Zenon DEF u
<1>9. /\ Count(s) = Count(a) + Count(c) /\ Count(c) = Count(h) + Count(b)
      /\ Count(a \o b) = Count(a) + Count(b)
      /\ Count(a) \in Nat /\ Count(b) \in Nat /\ Count(h) \in Nat
  <2>1. a \in Seq(S) /\ b \in Seq(S) /\ c \in Seq(S) /\ h \in Seq(S)
    BY <1>1, <1>2, <1>3, <1>7, Zenon
  <2>2. Count(s) = Count(a) + Count(c)
    BY <1>8, <2>1, CountConcat, Zenon
  <2>3. Count(c) = Count(h) + Count(b)
    BY <2>1, CountConcat, Zenon DEF c
  <2>4. Count(a \o b) = Count(a) + Count(b)
    BY <2>1, CountConcat, Zenon
  <2>5. Count(a) \in Nat /\ Count(b) \in Nat /\ Count(h) \in Nat
    BY <2>1, CountType, Zenon
  <2> QED
    BY <2>2, <2>3, <2>4, <2>5, Zenon
<1>10. Count(h) = Holds(s[i])
  BY CountShort, Zenon DEF h
<1> QED
  BY <1>4, <1>5, <1>9, <1>10

----------------------------------------------------------------------------
(* What the tasks look like.                                               *)

LEMMA TaskForms ==
    /\ Idle = Task("none", 0, 0) /\ Stopped = Task("stopped", 0, 0) /\ Refused = Task("bundle", 0, 0)
    /\ \A k, b, l : Task(k, b, l).kind = k /\ Task(k, b, l).id = b /\ Task(k, b, l).left = l
  BY DEF Idle, Stopped, Refused, Task

LEMMA FillFacts ==
    ASSUME NEW f \in FillStates
    PROVE  /\ f.left > 0 => f = Vote \/ \E b \in 1 .. MaxBundles, l \in 1 .. BundleVotes : f = Task("bundle", b, l)
           /\ f.kind = "bundle" /\ f.left = 0 => f \in WaitStates
           /\ f.left = 0 => f.kind # "vote"
           /\ f.kind = "vote" <=> f = Vote
<1>1. CASE f \in {Idle, Stopped, Refused, Vote}
  BY <1>1, TaskForms DEF Vote, WaitStates
<1>2. CASE f \notin {Idle, Stopped, Refused, Vote}
  <2>1. PICK b \in 1 .. MaxBundles, l \in 0 .. BundleVotes : f = Task("bundle", b, l)
    BY <1>2 DEF FillStates
  <2>2. f.kind = "bundle" /\ f.left = l /\ f # Vote
    BY <2>1, TaskForms DEF Vote
  <2>3. CASE l = 0
    BY <2>1, <2>2, <2>3 DEF WaitStates
  <2>4. CASE l # 0
    BY <2>1, <2>2, <2>4
  <2> QED
    BY <2>3, <2>4, Zenon
<1> QED
  BY <1>1, <1>2, Zenon

LEMMA CountTypes ==
    ASSUME VoteTypes
    PROVE  /\ Count(votesIn) \in Nat /\ Count(pool) \in Nat /\ Count(votesOut) \in Nat
           /\ worker \in Seq(PoolTasks) /\ Count(worker) \in Nat
           /\ Vote.kind = "vote" /\ Holds(fill) \in 0 .. 1
<1>1. worker \in Seq(PoolTasks)
  <2>1. worker \in {<< >>} \cup {<<t>> : t \in PoolTasks}
    BY Zenon DEF VoteTypes
  <2>2. ASSUME NEW t \in PoolTasks PROVE <<t>> \in Seq(PoolTasks)
    OBVIOUS
  <2>3. << >> \in Seq(PoolTasks)
    OBVIOUS
  <2> QED
    BY <2>1, <2>2, <2>3, Zenon
<1> QED
  BY <1>1, CountType, TaskForms DEF VoteTypes, Vote, Holds

\* The history of the votes in the words of the property.
LEMMA CountedInside ==
    ASSUME VoteTypes
    PROVE  VotesInside = Count(votesIn) + Count(pool) + Count(worker) + Count(votesOut) + Holds(fill)
<1> DEFINE S == FillStates \cup PoolTasks
<1>1. votesIn \in Seq(S) /\ pool \in Seq(S) /\ worker \in Seq(S) /\ votesOut \in Seq(S) /\ <<fill>> \in Seq(S)
  <2>1. \A T, q : T \subseteq S /\ q \in Seq(T) => q \in Seq(S)
    OBVIOUS
  <2>2. {Vote} \subseteq S /\ PoolTasks \subseteq S /\ fill \in S
    BY Zenon DEF VoteTypes, PoolTasks
  <2> DEFINE T == {Vote}
  <2> HIDE DEF S, T
  <2>3. <<fill>> \in Seq(S)
    BY <2>2
  <2> QED
    <3>1. votesIn \in Seq({Vote}) /\ votesOut \in Seq({Vote}) /\ pool \in Seq(PoolTasks) /\ worker \in Seq(PoolTasks)
      BY CountTypes, Zenon DEF VoteTypes
    <3>2. votesIn \in Seq(S) /\ votesOut \in Seq(S)
      <4>1. T \subseteq S /\ votesIn \in Seq(T) /\ votesOut \in Seq(T)
        BY <2>2, <3>1, Zenon DEF T
      <4> QED
        BY <2>1, <4>1, Zenon
    <3>3. pool \in Seq(S) /\ worker \in Seq(S)
      BY <2>1, <2>2, <3>1, Zenon
    <3> QED
      BY <2>3, <3>2, <3>3, Zenon
<1> HIDE DEF S
<1> DEFINE a == votesIn \o pool
           b == a \o worker
           c == b \o votesOut
<1>2. a \in Seq(S) /\ Count(a) = Count(votesIn) + Count(pool)
  BY <1>1, CountConcat, ConcatFacts, Zenon
<1>3. b \in Seq(S) /\ Count(b) = Count(a) + Count(worker)
  <2> HIDE DEF a
  <2> QED
    BY <1>1, <1>2, CountConcat, ConcatFacts, Zenon
<1>4. c \in Seq(S) /\ Count(c) = Count(b) + Count(votesOut)
  <2> HIDE DEF b
  <2> QED
    BY <1>1, <1>3, CountConcat, ConcatFacts, Zenon
<1>5. Count(c \o <<fill>>) = Count(c) + Count(<<fill>>)
  <2> HIDE DEF c
  <2> QED
    BY <1>1, <1>4, CountConcat, Zenon
<1>6. Count(<<fill>>) = Holds(fill)
  BY CountShort, Zenon
<1>7. VotesInside = Count(c \o <<fill>>)
  BY Zenon DEF VotesInside, Tasks, Count, VotePlaces
<1>8. VotesInside = Count(votesIn) + Count(pool) + Count(worker) + Count(votesOut) + Holds(fill)
  <2> HIDE DEF a, b, c
  <2> QED
    BY <1>2, <1>3, <1>4, <1>5, <1>6, <1>7, Zenon
<1> QED
  BY <1>8, Zenon

----------------------------------------------------------------------------
(* What a step that leaves a part alone keeps of it.                       *)

LEMMA VoteFrame ==
    ASSUME VerifierInv, UNCHANGED voteVars
    PROVE  VoteTypes' /\ VoteRoom' /\ (owed' = owed => Counted')
  BY Zenon DEF VerifierInv, VoteTypes, VoteRoom, Counted, voteVars, votesInCap, votesOutCap, poolCap

LEMMA BundleFrame ==
    ASSUME VerifierInv, UNCHANGED bundleVars
    PROVE  BundleTypes'
  BY Zenon DEF VerifierInv, BundleTypes, bundleVars, bundlesInCap, bundlesOutCap

LEMMA ProposalFrame ==
    ASSUME VerifierInv, UNCHANGED proposalVars
    PROVE  ProposalTypes'
  BY Zenon DEF VerifierInv, ProposalTypes, proposalVars, proposalsInCap, proposalsOutCap

LEMMA DemuxFrame ==
    ASSUME VerifierInv, UNCHANGED <<demuxVars, bundles, closed>>, quit' \in BOOLEAN,
           Len(votesIn') \in Nat, Len(votesIn') <= Len(votesIn),
           Len(bundlesIn') \in Nat, Len(bundlesIn') <= Len(bundlesIn)
    PROVE  DemuxTypes' /\ Room' /\ owed' = owed
<1>1. Len(votesIn) \in Nat /\ Len(bundlesIn) \in Nat
  BY DEF VerifierInv, VoteTypes, BundleTypes
<1>2. DemuxTypes' /\ owed' = owed
  BY Zenon DEF VerifierInv, DemuxTypes, demuxVars
<1>3. Room'
  BY <1>1 DEF VerifierInv, Room, demuxVars, votesInCap, bundlesInCap
<1> QED
  BY <1>2, <1>3, Zenon

LEMMA Lengths ==
    ASSUME VerifierInv
    PROVE  Len(votesIn) \in Nat /\ Len(bundlesIn) \in Nat /\ Len(votesOut) \in Nat /\ Len(pool) \in Nat
  BY DEF VerifierInv, VoteTypes, BundleTypes

----------------------------------------------------------------------------
(* Every step keeps the invariant.                                         *)

LEMMA DemuxStep ==
    ASSUME VerifierInv, Gate \/ DropRequest \/ Quit \/ CryptoQuits \/ VerifierQuits
    PROVE  VerifierInv'
<1>1. UNCHANGED <<voteVars, bundleVars, proposalVars, owed>>
  BY Zenon DEF Gate, DropRequest, Quit, CryptoQuits, VerifierQuits
<1>2. VoteTypes' /\ VoteRoom' /\ Counted' /\ BundleTypes' /\ ProposalTypes'
  BY <1>1, VoteFrame, BundleFrame, ProposalFrame, Zenon
<1>3. DemuxTypes'
  BY Zenon DEF VerifierInv, DemuxTypes, Gate, DropRequest, Quit, CryptoQuits, VerifierQuits
<1>4. Room'
  <2>1. CASE Gate
    <3>1. pc' = "select" /\ votesIn' = votesIn /\ bundlesIn' = bundlesIn
      BY <2>1, <1>1, Zenon DEF Gate, voteVars, bundleVars
    <3>2. open' \cap {"votes", "proposals"} # {} => Len(votesIn) # votesInCap
      BY <2>1, Zenon DEF Gate, ChannelFull
    <3>3. "bundles" \in open' => Len(bundlesIn) # bundlesInCap
      BY <2>1, Zenon DEF Gate, ChannelFull
    <3>4. Len(votesIn) <= votesInCap /\ Len(bundlesIn) <= bundlesInCap /\ votesInCap \in Nat /\ bundlesInCap \in Nat
      BY Zenon DEF VerifierInv, VoteRoom, BundleTypes, votesInCap, bundlesInCap
    <3>5. votesInCap' = votesInCap /\ bundlesInCap' = bundlesInCap
      BY Zenon DEF votesInCap, bundlesInCap
    <3> QED
      BY <3>1, <3>2, <3>3, <3>4, <3>5, Lengths DEF Room
  <2>2. CASE DropRequest \/ Quit \/ CryptoQuits \/ VerifierQuits
    BY <2>2, Zenon DEF Room, DropRequest, Quit, CryptoQuits, VerifierQuits
  <2> QED
    BY <2>1, <2>2, Zenon
<1> QED
  BY <1>2, <1>3, <1>4, Zenon DEF VerifierInv

LEMMA ReadRawStep ==
    ASSUME VerifierInv, NEW kind \in Kinds, ReadRaw(kind)
    PROVE  VerifierInv'
<1>1. /\ UNCHANGED <<voteVars, bundlesIn, bundlesOut, wait, proposalVars, owed, open, quit, closed>>
      /\ pc = "select"
  BY Zenon DEF ReadRaw
<1>a. arrived' \in 0 .. MaxMessages
  <2>1. arrived' \in {arrived + BundleLoad, arrived + 1} /\ arrived' <= MaxMessages /\ arrived \in 0 .. MaxMessages
    BY Zenon DEF ReadRaw, VerifierInv, DemuxTypes
  <2> QED
    BY <2>1
<1>2. VoteTypes' /\ VoteRoom' /\ Counted' /\ ProposalTypes'
  BY <1>1, VoteFrame, ProposalFrame, Zenon
<1>3. /\ bundles' \in 0 .. MaxBundles
      /\ action' \in {"vote", "payload", "bundle"} /\ pc' = "do"
      /\ action' = "vote" => open \cap {"votes", "proposals"} # {}
      /\ action' = "bundle" => "bundles" \in open /\ bundles' > 0
  <2>0. bundles \in 0 .. MaxBundles
    BY Zenon DEF VerifierInv, BundleTypes
  <2>1. CASE kind = "vote"
    BY <2>0, <2>1, Zenon DEF ReadRaw, Ask
  <2>2. CASE kind = "payload"
    BY <2>0, <2>2, Zenon DEF ReadRaw, Ask
  <2>3. CASE kind = "compound"
    BY <2>0, <2>3, Zenon DEF ReadRaw, Ask
  <2>4. CASE kind = "bundle"
    BY <2>0, <2>4 DEF ReadRaw, Ask
  <2> QED
    BY <2>1, <2>2, <2>3, <2>4, Zenon
<1>4. BundleTypes'
  BY <1>1, <1>3, Zenon DEF VerifierInv, BundleTypes, bundlesInCap, bundlesOutCap
<1>5. DemuxTypes'
  BY <1>1, <1>3, <1>a, Zenon DEF VerifierInv, DemuxTypes
<1>6. Room'
  BY <1>1, <1>3, Zenon DEF VerifierInv, Room, voteVars, votesInCap, bundlesInCap
<1> QED
  BY <1>2, <1>4, <1>5, <1>6, Zenon DEF VerifierInv

LEMMA ReadVoteStep ==
    ASSUME VerifierInv, ReadVote
    PROVE  VerifierInv'
<1>1. /\ UNCHANGED <<open, arrived, votesIn, fill, pool, worker, results, bundleVars, proposalVars, quit, closed>>
      /\ votesOut # << >> /\ votesOut' = Tail(votesOut) /\ owed' = owed - 1
      /\ action' \in {"none", "payload"} /\ pc' \in {"gate", "do"} /\ (pc' = "do" => action' = "payload")
  BY Zenon DEF ReadVote, Ask
<1>2. BundleTypes' /\ ProposalTypes'
  BY <1>1, BundleFrame, ProposalFrame, Zenon
<1>3. votesOut \in Seq({Vote}) /\ VoteTypes
  BY Zenon DEF VerifierInv, VoteTypes
<1>4. votesOut' \in Seq({Vote}) /\ Len(votesOut') <= Len(votesOut) /\ Len(votesOut') \in Nat /\ Head(votesOut) = Vote
  BY <1>1, <1>3
<1>5. VoteTypes'
  BY <1>1, <1>4, Zenon DEF VerifierInv, VoteTypes
<1>6. VoteRoom'
  BY <1>1, <1>4, Lengths DEF VerifierInv, VoteRoom, votesInCap, votesOutCap, poolCap
<1>7. Count(votesOut) = Count(Tail(votesOut)) + 1 /\ Count(Tail(votesOut)) \in Nat
  BY <1>1, <1>3, <1>4, CountTail, CountType, CountTypes, Zenon DEF Holds
<1>8. Counted'
  <2>1. owed = Count(votesIn) + Count(pool) + Count(worker) + Count(votesOut) + Holds(fill)
    BY Zenon DEF VerifierInv, Counted
  <2>2. Count(votesOut') = Count(votesOut) - 1
    BY <1>1, <1>7
  <2>3. /\ Count(votesIn) \in Nat /\ Count(pool) \in Nat /\ Count(worker) \in Nat
        /\ Count(votesOut) \in Nat /\ Holds(fill) \in Nat
    BY <1>3, CountTypes
  <2>4. /\ votesIn' = votesIn /\ pool' = pool /\ worker' = worker /\ fill' = fill /\ owed' = owed - 1
    BY <1>1, Zenon
  <2> QED
    BY <2>1, <2>2, <2>3, <2>4 DEF Counted
<1>9. DemuxTypes'
  BY <1>1, Zenon DEF VerifierInv, DemuxTypes
<1>10. Room'
  BY <1>1, Zenon DEF Room
<1> QED
  BY <1>2, <1>5, <1>6, <1>8, <1>9, <1>10, Zenon DEF VerifierInv

LEMMA ReadResultStep ==
    ASSUME VerifierInv, ReadProposal \/ ReadBundle
    PROVE  VerifierInv'
<1>1. /\ UNCHANGED <<open, arrived, owed, voteVars, quit, closed>>
      /\ action' \in {"none", "payload"} /\ pc' \in {"gate", "do"} /\ (pc' = "do" => action' = "payload")
  BY Zenon DEF ReadProposal, ReadBundle, Ask
<1>2. VoteTypes' /\ VoteRoom' /\ Counted'
  BY <1>1, VoteFrame, Zenon
<1>3. BundleTypes'
  BY BundleFrame DEF VerifierInv, BundleTypes, ReadProposal, ReadBundle, bundlesInCap, bundlesOutCap
<1>4. ProposalTypes'
  <2>1. proposalsOutCap \in Nat
    BY DEF proposalsOutCap, votesInCap, votesOutCap
  <2> QED
    BY <2>1, ProposalFrame DEF VerifierInv, ProposalTypes, ReadProposal, ReadBundle, proposalsInCap
<1>5. DemuxTypes' /\ Room'
  BY <1>1, Zenon DEF VerifierInv, DemuxTypes, Room
<1> QED
  BY <1>2, <1>3, <1>4, <1>5, Zenon DEF VerifierInv

LEMMA SubmitStep ==
    ASSUME VerifierInv, Submit
    PROVE  VerifierInv'
<1>1. /\ UNCHANGED <<open, arrived, votesOut, fill, pool, worker, results,
                     bundlesOut, wait, bundles, proposalsOut, validate, quit, closed>>
      /\ pc = "do" /\ action' = "none" /\ pc' = "gate"
  BY Zenon DEF Submit
<1>2. DemuxTypes' /\ Room'
  BY <1>1, Zenon DEF VerifierInv, DemuxTypes, Room
<1>3. action \in {"vote", "payload", "bundle"}
  BY <1>1, Zenon DEF VerifierInv, DemuxTypes
<1>4. CASE action = "vote"
  <2>1. /\ Len(votesIn) < votesInCap /\ votesIn' = Append(votesIn, Vote)
        /\ owed' = owed + 1 /\ UNCHANGED <<bundlesIn, proposalsIn>>
    BY <1>4, Zenon DEF Submit, Vote
  <2>2. BundleTypes' /\ ProposalTypes'
    BY <1>1, <2>1, BundleFrame, ProposalFrame, Zenon DEF bundleVars, proposalVars
  <2>3. votesIn \in Seq({Vote}) /\ VoteTypes
    BY Zenon DEF VerifierInv, VoteTypes
  <2>4. votesIn' \in Seq({Vote}) /\ Len(votesIn') = Len(votesIn) + 1
    BY <2>1, <2>3
  <2>5. VoteTypes'
    BY <1>1, <2>4, Zenon DEF VerifierInv, VoteTypes
  <2>6. VoteRoom'
    BY <1>1, <2>1, <2>4, Lengths DEF VerifierInv, VoteRoom, votesInCap, votesOutCap, poolCap
  <2>7. Count(votesIn') = Count(votesIn) + 1
    <3>1. Count(Append(votesIn, Vote)) = Count(votesIn) + Holds(Vote)
      BY <2>3, CountAppend, Zenon
    <3> QED
      BY <2>1, <2>3, <3>1, CountTypes, Zenon DEF Holds
  <2>8. Counted'
    <3>1. owed = Count(votesIn) + Count(pool) + Count(worker) + Count(votesOut) + Holds(fill)
      BY Zenon DEF VerifierInv, Counted
    <3>2. /\ Count(votesIn) \in Nat /\ Count(pool) \in Nat /\ Count(worker) \in Nat
          /\ Count(votesOut) \in Nat /\ Holds(fill) \in Nat
      BY <2>3, CountTypes
    <3>3. /\ pool' = pool /\ worker' = worker /\ votesOut' = votesOut /\ fill' = fill
          /\ owed' = owed + 1
      BY <1>1, <2>1, Zenon
    <3> QED
      BY <2>7, <3>1, <3>2, <3>3 DEF Counted
  <2> QED
    BY <1>2, <2>2, <2>5, <2>6, <2>8, Zenon DEF VerifierInv
<1>5. CASE action = "payload"
  <2>1. /\ proposalsIn < proposalsInCap /\ proposalsIn' = proposalsIn + 1
        /\ UNCHANGED <<votesIn, bundlesIn, owed>>
    BY <1>5, Zenon DEF Submit
  <2>2. BundleTypes' /\ VoteTypes' /\ VoteRoom' /\ Counted'
    BY <1>1, <2>1, BundleFrame, VoteFrame, Zenon DEF bundleVars, voteVars
  <2>3. ProposalTypes'
    BY <1>1, <2>1 DEF VerifierInv, ProposalTypes, proposalsInCap, proposalsOutCap
  <2> QED
    BY <1>2, <2>2, <2>3, Zenon DEF VerifierInv
<1>6. CASE action = "bundle"
  <2>1. /\ Len(bundlesIn) < bundlesInCap /\ bundlesIn' = Append(bundlesIn, Task("bundle", bundles, BundleVotes))
        /\ UNCHANGED <<votesIn, proposalsIn, owed>>
    BY <1>6, Zenon DEF Submit
  <2>2. ProposalTypes' /\ VoteTypes' /\ VoteRoom' /\ Counted'
    BY <1>1, <2>1, ProposalFrame, VoteFrame, Zenon DEF proposalVars, voteVars
  <2>3. bundles \in 1 .. MaxBundles /\ bundlesIn \in Seq(BundleTasks)
    BY <1>1, <1>6 DEF VerifierInv, Room, BundleTypes
  <2>4. Task("bundle", bundles, BundleVotes) \in BundleTasks
    BY <2>3, Zenon DEF BundleTasks
  <2>5. bundlesIn' \in Seq(BundleTasks) /\ Len(bundlesIn') = Len(bundlesIn) + 1
    BY <2>1, <2>3, <2>4
  <2>6. BundleTypes'
    BY <1>1, <2>1, <2>5, Lengths DEF VerifierInv, BundleTypes, bundlesInCap, bundlesOutCap
  <2> QED
    BY <1>2, <2>2, <2>6, Zenon DEF VerifierInv
<1> QED
  BY <1>3, <1>4, <1>5, <1>6, Zenon

LEMMA FillVoteStep ==
    ASSUME VerifierInv, FillVote
    PROVE  VerifierInv'
<1>1. /\ UNCHANGED <<demuxVars, votesOut, pool, worker, results, bundleVars, proposalVars, quit, closed>>
      /\ fill = Idle /\ votesIn # << >> /\ fill' = Head(votesIn) /\ votesIn' = Tail(votesIn)
  BY Zenon DEF FillVote
<1>2. votesIn \in Seq({Vote}) /\ VoteTypes
  BY Zenon DEF VerifierInv, VoteTypes
<1>3. votesIn' \in Seq({Vote}) /\ Len(votesIn') <= Len(votesIn) /\ Len(votesIn') \in Nat /\ fill' = Vote
  BY <1>1, <1>2
<1>4. BundleTypes' /\ ProposalTypes'
  BY <1>1, BundleFrame, ProposalFrame, Zenon
<1>5. DemuxTypes' /\ Room' /\ owed' = owed
  BY <1>1, <1>3, DemuxFrame, Lengths DEF bundleVars, VerifierInv, DemuxTypes
<1>6. VoteTypes'
  BY <1>1, <1>3 DEF VerifierInv, VoteTypes, FillStates
<1>7. VoteRoom'
  BY <1>1, <1>3, Lengths DEF VerifierInv, VoteRoom, votesInCap, votesOutCap, poolCap
<1>8. Count(votesIn) = Count(Tail(votesIn)) + 1 /\ Count(Tail(votesIn)) \in Nat
  BY <1>1, <1>2, <1>3, CountTail, CountType, CountTypes, Zenon DEF Holds
<1>9. Holds(fill) = 0 /\ Holds(fill') = 1
  BY <1>1, <1>3, TaskForms DEF Holds, Vote
<1>10. Counted'
  <2>1. owed = Count(votesIn) + Count(pool) + Count(worker) + Count(votesOut) + Holds(fill)
    BY Zenon DEF VerifierInv, Counted
  <2>2. /\ Count(votesIn) \in Nat /\ Count(pool) \in Nat /\ Count(worker) \in Nat /\ Count(votesOut) \in Nat
    BY <1>2, CountTypes
  <2>3. Count(votesIn') = Count(votesIn) - 1
    BY <1>1, <1>8
  <2>4. votesOut' = votesOut /\ pool' = pool /\ worker' = worker
    BY <1>1, Zenon
  <2> QED
    BY <1>5, <1>9, <2>1, <2>2, <2>3, <2>4 DEF Counted
<1> QED
  BY <1>4, <1>5, <1>6, <1>7, <1>10, Zenon DEF VerifierInv

\* voteFillWorker moves on without a vote in its hands.
LEMMA FillMoved ==
    ASSUME VerifierInv, UNCHANGED <<demuxVars, votesIn, votesOut, pool, worker, results>>,
           fill' \in FillStates, fill.kind # "vote", fill'.kind # "vote"
    PROVE  VoteTypes' /\ VoteRoom' /\ Counted'
<1>1. VoteTypes'
  BY Zenon DEF VerifierInv, VoteTypes
<1>2. VoteRoom'
  BY Zenon DEF VerifierInv, VoteRoom, votesInCap, votesOutCap, poolCap
<1>3. Holds(fill) = 0 /\ Holds(fill') = 0
  BY Zenon DEF Holds
<1>4. Counted'
  BY <1>3, Zenon DEF VerifierInv, Counted, demuxVars
<1> QED
  BY <1>1, <1>2, <1>4, Zenon

LEMMA FillBundleStep ==
    ASSUME VerifierInv, FillBundle
    PROVE  VerifierInv'
<1>1. /\ UNCHANGED <<demuxVars, votesIn, votesOut, pool, worker, results, bundlesOut, wait, bundles,
                     proposalVars, quit, closed>>
      /\ fill = Idle /\ bundlesIn # << >>
      /\ fill' \in {Head(bundlesIn), Refused} /\ bundlesIn' = Tail(bundlesIn)
  BY Zenon DEF FillBundle
<1>2. bundlesIn \in Seq(BundleTasks)
  BY Zenon DEF VerifierInv, BundleTypes
<1>3. /\ bundlesIn' \in Seq(BundleTasks) /\ Len(bundlesIn') <= Len(bundlesIn) /\ Len(bundlesIn') \in Nat
      /\ Head(bundlesIn) \in BundleTasks
  BY <1>1, <1>2
<1>4. fill' \in FillStates /\ fill'.kind # "vote" /\ fill.kind # "vote"
  <2>1. Head(bundlesIn) \in FillStates /\ Head(bundlesIn).kind = "bundle"
    BY <1>3, TaskForms DEF BundleTasks, FillStates
  <2> QED
    BY <1>1, <2>1, TaskForms DEF FillStates
<1>5. VoteTypes' /\ VoteRoom' /\ Counted'
  BY <1>1, <1>4, FillMoved, Zenon
<1>6. ProposalTypes'
  BY <1>1, ProposalFrame, Zenon
<1>7. BundleTypes'
  BY <1>1, <1>3, Lengths DEF VerifierInv, BundleTypes, bundlesInCap, bundlesOutCap
<1>8. DemuxTypes' /\ Room'
  BY <1>1, <1>3, DemuxFrame, Lengths DEF VerifierInv, DemuxTypes
<1> QED
  BY <1>5, <1>6, <1>7, <1>8, Zenon DEF VerifierInv

\* Enqueueing leaves voteFillWorker idle, or with one vote of its bundle less.
LEMMA EnqueueForms ==
    ASSUME VerifierInv, EnqueueBacklog
    PROVE  \/ fill = Vote /\ fill' = Idle /\ pool' = Append(pool, Vote)
           \/ \E b \in 1 .. MaxBundles, l \in 1 .. BundleVotes :
                 /\ fill = Task("bundle", b, l) /\ fill' = Task("bundle", b, l - 1)
                 /\ pool' = Append(pool, Task("bundle", b, 1))
<1>1. fill \in FillStates
  BY Zenon DEF VerifierInv, VoteTypes
<1>2. /\ fill.left > 0 /\ pool' = Append(pool, Task(fill.kind, fill.id, 1))
      /\ fill' = IF fill.kind = "bundle" THEN [fill EXCEPT !.left = fill.left - 1] ELSE Idle
  BY Zenon DEF EnqueueBacklog
<1>3. CASE fill = Vote
  <2>1. fill.kind = "vote" /\ fill.id = 0
    BY <1>3, TaskForms DEF Vote
  <2>2. fill' = Idle
    BY <1>2, <2>1, Zenon
  <2>3. pool' = Append(pool, Vote)
    BY <1>2, <2>1, Zenon DEF Vote
  <2> QED
    BY <1>3, <2>2, <2>3, Zenon
<1>4. CASE fill # Vote
  <2>0. fill.left > 0
    BY <1>2, Zenon
  <2>1. PICK b \in 1 .. MaxBundles, l \in 1 .. BundleVotes : fill = Task("bundle", b, l)
    BY <1>1, <1>4, <2>0, FillFacts, Zenon
  <2>2. fill.kind = "bundle" /\ fill.id = b /\ fill.left = l
    BY <2>1, TaskForms
  <2>3. [Task("bundle", b, l) EXCEPT !.left = l - 1] = Task("bundle", b, l - 1)
    BY SMT DEF Task
  <2>4. fill' = Task("bundle", b, l - 1)
    BY <1>2, <2>1, <2>2, <2>3, Zenon
  <2>5. pool' = Append(pool, Task("bundle", b, 1))
    BY <1>2, <2>2, Zenon
  <2> QED
    BY <2>1, <2>4, <2>5, Zenon
<1> QED
  BY <1>3, <1>4, Zenon

LEMMA EnqueueStep ==
    ASSUME VerifierInv, EnqueueBacklog
    PROVE  VerifierInv'
<1>1. /\ UNCHANGED <<demuxVars, votesIn, votesOut, worker, results, bundleVars, proposalVars, quit, closed>>
      /\ Len(pool) < poolCap
  BY Zenon DEF EnqueueBacklog
<1>2. PICK x \in PoolTasks : /\ pool' = Append(pool, x) /\ fill' \in FillStates
                             /\ Holds(fill) = Holds(x) /\ Holds(fill') = 0 /\ Holds(x) \in 0 .. 1
  <2>1. CASE fill = Vote /\ fill' = Idle /\ pool' = Append(pool, Vote)
    BY <2>1, TaskForms DEF PoolTasks, FillStates, Holds
  <2>2. ASSUME NEW b \in 1 .. MaxBundles, NEW l \in 1 .. BundleVotes,
               fill = Task("bundle", b, l), fill' = Task("bundle", b, l - 1),
               pool' = Append(pool, Task("bundle", b, 1))
        PROVE  \E x \in PoolTasks : /\ pool' = Append(pool, x) /\ fill' \in FillStates
                                    /\ Holds(fill) = Holds(x) /\ Holds(fill') = 0 /\ Holds(x) \in 0 .. 1
    <3>1. Task("bundle", b, 1) \in PoolTasks
      BY Zenon DEF PoolTasks
    <3>2. l - 1 \in 0 .. BundleVotes
      OBVIOUS
    <3>3. fill' \in FillStates
      BY <2>2, <3>2 DEF FillStates
    <3>4. Holds(fill) = 0 /\ Holds(fill') = 0 /\ Holds(Task("bundle", b, 1)) = 0
      BY <2>2, TaskForms DEF Holds
    <3> QED
      BY <2>2, <3>1, <3>3, <3>4
  <2> QED
    BY <2>1, <2>2, EnqueueForms, Zenon
<1>3. pool \in Seq(PoolTasks) /\ VoteTypes
  BY Zenon DEF VerifierInv, VoteTypes
<1>4. pool' \in Seq(PoolTasks) /\ Len(pool') = Len(pool) + 1
  BY <1>2, <1>3
<1>5. BundleTypes' /\ ProposalTypes'
  BY <1>1, BundleFrame, ProposalFrame, Zenon
<1>6. DemuxTypes' /\ Room' /\ owed' = owed
  BY <1>1, DemuxFrame, Lengths DEF bundleVars, VerifierInv, DemuxTypes
<1>7. VoteTypes'
  BY <1>1, <1>2, <1>4, Zenon DEF VerifierInv, VoteTypes
<1>8. VoteRoom'
  <2>1. poolCap \in Nat /\ poolCap' = poolCap
    BY DEF poolCap
  <2> QED
    BY <1>1, <1>4, <2>1, Lengths DEF VerifierInv, VoteRoom, votesInCap, votesOutCap
<1>9. Count(pool') = Count(pool) + Holds(x)
  BY <1>2, <1>3, CountAppend, Zenon
<1>10. Counted'
  BY <1>1, <1>2, <1>3, <1>6, <1>9, CountTypes DEF VerifierInv, Counted
<1> QED
  BY <1>5, <1>6, <1>7, <1>8, <1>10, Zenon DEF VerifierInv

LEMMA FillEndsStep ==
    ASSUME VerifierInv, HandOver \/ CancelBundle \/ FillStops
    PROVE  VerifierInv'
<1>1. /\ UNCHANGED <<demuxVars, votesIn, votesOut, pool, worker, results, bundlesIn, bundlesOut, bundles,
                     proposalVars, quit, closed>>
      /\ fill' \in {Idle, Refused, Stopped}
  BY Zenon DEF HandOver, CancelBundle, FillStops, bundleVars
<1>2. fill \in FillStates /\ wait \in WaitStates
  BY Zenon DEF VerifierInv, VoteTypes, BundleTypes
<1>3. fill.kind # "vote"
  BY <1>2, FillFacts, Zenon DEF HandOver, CancelBundle, FillStops
<1>4. wait' \in WaitStates
  BY <1>2, FillFacts, Zenon DEF HandOver, CancelBundle, FillStops, bundleVars
<1>5. fill' \in FillStates /\ fill'.kind # "vote"
  BY <1>1, TaskForms DEF FillStates
<1>6. VoteTypes' /\ VoteRoom' /\ Counted'
  BY <1>1, <1>3, <1>5, FillMoved, Zenon
<1>7. ProposalTypes'
  BY <1>1, ProposalFrame, Zenon
<1>8. BundleTypes'
  BY <1>1, <1>4, Zenon DEF VerifierInv, BundleTypes, bundlesInCap, bundlesOutCap
<1>9. DemuxTypes' /\ Room'
  BY <1>1, DemuxFrame, Lengths DEF VerifierInv, DemuxTypes
<1> QED
  BY <1>6, <1>7, <1>8, <1>9, Zenon DEF VerifierInv

LEMMA TakeResponseStep ==
    ASSUME VerifierInv, TakeResponse
    PROVE  VerifierInv'
<1>1. /\ UNCHANGED <<demuxVars, votesIn, votesOut, fill, results, bundleVars, proposalVars, quit, closed>>
      /\ worker = << >>
  BY Zenon DEF TakeResponse
<1>2. PICK i \in 1 .. Parallelism : i <= Len(pool) /\ worker' = <<pool[i]>> /\ pool' = Without(pool, i)
  BY Zenon DEF TakeResponse
<1>3. pool \in Seq(PoolTasks) /\ VoteTypes
  BY Zenon DEF VerifierInv, VoteTypes
<1>4. i \in 1 .. Len(pool) /\ pool[i] \in PoolTasks
  BY <1>2, <1>3
<1>5. pool' \in Seq(PoolTasks) /\ Len(pool') = Len(pool) - 1 /\ Count(pool) = Count(pool') + Holds(pool[i])
  BY <1>2, <1>3, <1>4, CountWithout, Zenon
<1>6. Count(worker) = 0 /\ Count(worker') = Holds(pool[i]) /\ Count(pool') \in Nat /\ Holds(pool[i]) \in 0 .. 1
  BY <1>1, <1>2, <1>5, CountShort, CountType DEF Holds
<1>7. BundleTypes' /\ ProposalTypes'
  BY <1>1, BundleFrame, ProposalFrame, Zenon
<1>8. DemuxTypes' /\ Room' /\ owed' = owed
  BY <1>1, DemuxFrame, Lengths DEF bundleVars, VerifierInv, DemuxTypes
<1>9. VoteTypes'
  BY <1>1, <1>2, <1>4, <1>5, Zenon DEF VerifierInv, VoteTypes
<1>10. VoteRoom'
  <2>1. poolCap \in Nat /\ poolCap' = poolCap
    BY DEF poolCap
  <2> QED
    BY <1>1, <1>5, <2>1, Lengths DEF VerifierInv, VoteRoom, votesInCap, votesOutCap
<1>11. Counted'
  BY <1>1, <1>3, <1>5, <1>6, <1>8, CountTypes DEF VerifierInv, Counted
<1> QED
  BY <1>7, <1>8, <1>9, <1>10, <1>11, Zenon DEF VerifierInv

LEMMA DeliverStep ==
    ASSUME VerifierInv, Deliver
    PROVE  VerifierInv'
<1>1. /\ UNCHANGED <<demuxVars, votesIn, fill, pool, bundleVars, proposalVars, quit, closed>>
      /\ worker # << >> /\ worker' = << >>
  BY Zenon DEF Deliver
<1>2. PICK x \in PoolTasks : worker = <<x>>
  BY <1>1, Zenon DEF VerifierInv, VoteTypes
<1>3. Head(worker) = x /\ Count(worker) = Holds(x) /\ Count(worker') = 0 /\ VoteTypes
  BY <1>1, <1>2, CountShort DEF VerifierInv
<1>4. BundleTypes' /\ ProposalTypes'
  BY <1>1, BundleFrame, ProposalFrame, Zenon
<1>5. DemuxTypes' /\ Room' /\ owed' = owed
  BY <1>1, DemuxFrame, Lengths DEF bundleVars, VerifierInv, DemuxTypes
<1>6. CASE x = Vote
  <2>1. x.kind = "vote"
    BY <1>6, TaskForms DEF Vote
  <2>2. Len(votesOut) < votesOutCap /\ votesOut' = votesOut \o <<Vote>> /\ results' = results
    BY <1>2, <1>3, <1>6, <2>1, Zenon DEF Deliver
  <2>3. votesOut \in Seq({Vote}) /\ <<Vote>> \in Seq({Vote}) /\ Len(<<Vote>>) = 1
    BY DEF VerifierInv, VoteTypes
  <2>4. votesOut' \in Seq({Vote}) /\ Len(votesOut') = Len(votesOut) + 1
    BY <2>2, <2>3
  <2>5. Count(votesOut') = Count(votesOut) + 1
    <3>1. Count(votesOut \o <<Vote>>) = Count(votesOut) + Count(<<Vote>>)
      BY <2>3, CountConcat, Zenon
    <3>2. Count(<<Vote>>) = 1
      BY <1>6, <2>1, CountShort, Zenon DEF Holds
    <3> QED
      BY <2>2, <3>1, <3>2, Zenon
  <2>6. VoteTypes'
    BY <1>1, <2>2, <2>4, Zenon DEF VerifierInv, VoteTypes
  <2>7. VoteRoom'
    <3>1. votesOutCap \in Nat /\ votesOutCap' = votesOutCap
      BY DEF votesOutCap
    <3> QED
      BY <1>1, <2>2, <2>4, <3>1, Lengths DEF VerifierInv, VoteRoom, votesInCap, poolCap
  <2>8. Counted'
    BY <1>1, <1>3, <1>5, <2>1, <2>5, CountTypes DEF VerifierInv, Counted, Holds
  <2> QED
    BY <1>4, <1>5, <2>6, <2>7, <2>8, Zenon DEF VerifierInv
<1>7. CASE x # Vote
  <2>1. PICK b \in 1 .. MaxBundles : x = Task("bundle", b, 1)
    BY <1>7, Zenon DEF PoolTasks
  <2>2. x.kind = "bundle" /\ x.id = b
    BY <2>1, TaskForms
  <2>3. results' = results \cup {b} /\ votesOut' = votesOut
    BY <1>3, <2>2, Zenon DEF Deliver
  <2>4. VoteTypes'
    BY <1>1, <2>3, Zenon DEF VerifierInv, VoteTypes
  <2>5. VoteRoom'
    BY <1>1, <2>3, Zenon DEF VerifierInv, VoteRoom, votesInCap, votesOutCap, poolCap
  <2>6. Counted'
    BY <1>1, <1>3, <1>5, <2>2, <2>3, CountTypes, Zenon DEF VerifierInv, Counted, Holds
  <2> QED
    BY <1>4, <1>5, <2>4, <2>5, <2>6, Zenon DEF VerifierInv
<1> QED
  BY <1>6, <1>7, Zenon

LEMMA BundleWaitStep ==
    ASSUME VerifierInv, BundleDone \/ BundleCancelled \/ WaitStops
    PROVE  VerifierInv'
<1>1. UNCHANGED <<demuxVars, voteVars, bundlesIn, bundles, proposalVars, quit, closed>>
  BY Zenon DEF BundleDone, BundleCancelled, WaitStops
<1>2. wait' \in WaitStates /\ bundlesOut' \in 0 .. bundlesOutCap
  BY DEF BundleDone, BundleCancelled, WaitStops, VerifierInv, BundleTypes, WaitStates, bundlesOutCap
<1>3. VoteTypes' /\ VoteRoom' /\ ProposalTypes' /\ (owed' = owed => Counted')
  BY <1>1, VoteFrame, ProposalFrame, Zenon
<1>4. DemuxTypes' /\ Room' /\ owed' = owed
  BY <1>1, DemuxFrame, Lengths DEF voteVars, VerifierInv, DemuxTypes
<1>5. BundleTypes'
  BY <1>1, <1>2, Zenon DEF VerifierInv, BundleTypes, bundlesInCap, bundlesOutCap
<1> QED
  BY <1>3, <1>4, <1>5, Zenon DEF VerifierInv

LEMMA ValidateStep ==
    ASSUME VerifierInv, ValidatePayload \/ PayloadValidated \/ ValidateStops
    PROVE  VerifierInv'
<1>1. UNCHANGED <<demuxVars, voteVars, bundleVars, quit, closed>>
  BY Zenon DEF ValidatePayload, PayloadValidated, ValidateStops
<1>2. VoteTypes' /\ VoteRoom' /\ BundleTypes' /\ (owed' = owed => Counted')
  BY <1>1, VoteFrame, BundleFrame, Zenon
<1>3. DemuxTypes' /\ Room' /\ owed' = owed
  BY <1>1, DemuxFrame, Lengths DEF voteVars, bundleVars, VerifierInv, DemuxTypes
<1>4. ProposalTypes'
  <2>1. proposalsOutCap \in Nat /\ proposalsOutCap' = proposalsOutCap
    BY DEF proposalsOutCap, votesInCap, votesOutCap
  <2> QED
    BY <2>1 DEF ValidatePayload, PayloadValidated, ValidateStops, VerifierInv, ProposalTypes, proposalsInCap
<1> QED
  BY <1>2, <1>3, <1>4, Zenon DEF VerifierInv

LEMMA ShutdownStep ==
    ASSUME VerifierInv, Shutdown \/ UNCHANGED vars
    PROVE  VerifierInv'
<1>1. UNCHANGED <<demuxVars, voteVars, bundleVars, proposalVars, closed>> /\ quit' \in BOOLEAN
  BY Zenon DEF Shutdown, vars, VerifierInv, DemuxTypes
<1>2. VoteTypes' /\ VoteRoom' /\ BundleTypes' /\ ProposalTypes' /\ (owed' = owed => Counted')
  BY <1>1, VoteFrame, BundleFrame, ProposalFrame, Zenon
<1>3. DemuxTypes' /\ Room' /\ owed' = owed
  BY <1>1, DemuxFrame, Lengths DEF voteVars, bundleVars
<1> QED
  BY <1>2, <1>3, Zenon DEF VerifierInv

----------------------------------------------------------------------------
(* The theorems.                                                           *)

LEMMA InitInv == Init => VerifierInv
<1> SUFFICES ASSUME Init PROVE VerifierInv
  BY Zenon
<1>1. Count(<< >>) = 0 /\ Idle.kind # "vote"
  BY CountShort, TaskForms, Zenon
<1>2. VoteTypes
  BY DEF Init, VoteTypes, FillStates
<1>3. VoteRoom
  BY DEF Init, VoteRoom, votesInCap, votesOutCap, poolCap
<1>4. BundleTypes
  BY DEF Init, BundleTypes, WaitStates, bundlesInCap, bundlesOutCap
<1>5. ProposalTypes
  BY DEF Init, ProposalTypes, proposalsInCap, proposalsOutCap, votesInCap, votesOutCap
<1>6. DemuxTypes /\ Room
  <2>1. quit \in BOOLEAN /\ closed \in BOOLEAN
    BY Zenon DEF Init
  <2>2. pc = "gate" /\ open = {} /\ action = "none" /\ arrived = 0
    BY Zenon DEF Init
  <2> QED
    BY <2>1, <2>2 DEF DemuxTypes, Room
<1>7. Counted
  BY <1>1 DEF Init, Counted, Holds
<1> QED
  BY <1>2, <1>3, <1>4, <1>5, <1>6, <1>7, Zenon DEF VerifierInv

LEMMA InvStep == VerifierInv /\ [Next]_vars => VerifierInv'
<1> SUFFICES ASSUME VerifierInv, [Next]_vars PROVE VerifierInv'
  BY Zenon
<1>1. CASE Demux
  BY <1>1, DemuxStep, ReadVoteStep, ReadResultStep, SubmitStep, Zenon DEF Demux
<1>2. CASE \E kind \in Kinds : ReadRaw(kind)
  BY <1>2, ReadRawStep, Zenon
<1>3. CASE Fill \/ CancelBundle
  BY <1>3, FillVoteStep, FillBundleStep, EnqueueStep, FillEndsStep, Zenon DEF Fill
<1>4. CASE TakeResponse \/ Deliver
  BY <1>4, TakeResponseStep, DeliverStep, Zenon
<1>5. CASE BundleDone \/ BundleCancelled \/ WaitStops
  BY <1>5, BundleWaitStep, Zenon
<1>6. CASE ValidatePayload \/ PayloadValidated \/ ValidateStops
  BY <1>6, ValidateStep, Zenon
<1>7. CASE Shutdown \/ UNCHANGED vars
  BY <1>7, ShutdownStep, Zenon
<1> QED
  BY <1>1, <1>2, <1>3, <1>4, <1>5, <1>6, <1>7, Zenon DEF Next

\* The invariant holds in every state of the pipeline.
THEOREM VerifierInvariant == Spec => []VerifierInv
  BY InitInv, InvStep, PTL DEF Spec

\* A vote or a bundle that demux.next let in finds room in the channel of the verifier when
\* it is submitted, whatever the parallelism, the backlog and the messages: the service can
\* not block on its own requests.
THEOREM SubmitNeverBlocks == Spec => []SubmitFindsRoom
<1>1. VerifierInv => SubmitFindsRoom
  <2> SUFFICES ASSUME VerifierInv PROVE SubmitFindsRoom
    BY Zenon
  <2>1. owed \in Nat
    BY CountTypes DEF VerifierInv, Counted
  <2>2. Len(worker) <= 1
    <3>1. \A x : Len(<<x>>) = 1 /\ Len(<< >>) = 0
      BY Zenon
    <3>2. CASE worker = << >>
      BY <3>2
    <3>3. CASE worker # << >>
      <4>1. PICK x \in PoolTasks : worker = <<x>>
        BY <3>3, Zenon DEF VerifierInv, VoteTypes
      <4>2. Len(worker) = 1
        BY <3>1, <4>1, Zenon
      <4> QED
        BY <4>2
    <3> QED
      BY <3>2, <3>3, Zenon
  <2>3. TypeOK
    BY <2>1, <2>2, Zenon DEF VerifierInv, VoteTypes, VoteRoom, BundleTypes, ProposalTypes, DemuxTypes, TypeOK
  <2> QED
    BY <2>3, Zenon DEF VerifierInv, Room, SubmitFindsRoom
<1> QED
  BY <1>1, VerifierInvariant, PTL

\* Every vote submitted has exactly one result, however the workers, the pool and the
\* channels are interleaved, and also while the service shuts down.
THEOREM EveryVoteAnsweredOnce == Spec => []OneResultPerVote
<1>1. VerifierInv => OneResultPerVote
  BY CountedInside, Zenon DEF VerifierInv, Counted, OneResultPerVote
<1> QED
  BY <1>1, VerifierInvariant, PTL
=============================================================================
