---------------------------- MODULE WeightOracleProofs ----------------------------
(***************************************************************************)
(* For any number of verification workers, accounts and rounds and any     *)
(* capacity of the caches: the caches tell the truth, a counted vote was   *)
(* weighed with its own round's data, an aligned daemon never makes        *)
(* membership panic, a node that runs passed its start-up checks, and the  *)
(* list and the map of a cache always agree.                               *)
(***************************************************************************)
EXTENDS WeightOracle, FiniteSetTheorems, TLAPS

Procs == Workers \cup {node}
Labels == {"idle", "circulation", "seed", "storeSeed", "weight", "askWeight", "putWeight", "total",
           "askTotal", "putTotal", "check", "done"}
Verdicts == {"none", "verified", "filtered", "malformed"}

SeedRecords == [round : Nat, seed : Int]
Seeds == {<< >>} \cup (SeedRecords \X SeedRecords)
WorkerRecords == [pc : Labels, addr : Accounts \cup {""}, round : Nat, seeds : Seeds, seed : Int,
                  weight : Nat, total : Nat, verdict : Verdicts]

\* A seed cache holds the seeds of the rounds it names; round 0 marks an unused slot.
SeedsTrue(s) ==
    s # << >> => /\ s[1].round # 0 => s[1].seed = SeedOf(s[1].round)
                 /\ s[2].round # 0 => s[2].seed = SeedOf(s[2].round)

WeightIs(v, d) == v.weight = d.weight[<<BalanceRound(v.round), v.addr>>]
TotalIs(v, d) == v.total = d.total[<<BalanceRound(v.round), v.round>>]
SeedIs(v) == v.seed = SeedOf(seedRound(v.round))

Weighed == {"putWeight", "total", "askTotal", "putTotal", "check"}

\* What a goroutine w in state v has established at the point it has reached.
WorkerInv(v, w, d) ==
    /\ v \in WorkerRecords /\ SeedsTrue(v.seeds)
    /\ v.pc # "idle" => v.addr \in Accounts /\ v.round \in VoteRounds \cup {StartRound}
    /\ w # node /\ v.pc # "idle" => v.round \in VoteRounds
    /\ w # node /\ v.pc \in {"storeSeed", "weight", "askWeight"} \cup Weighed => SeedIs(v)
    /\ v.pc \in {"askWeight"} \cup Weighed => keyEligible(v.round, v.addr)
    /\ v.pc \in Weighed => WeightIs(v, d)
    /\ v.pc \in {"putTotal", "check"} => TotalIs(v, d)
    /\ v.verdict = "verified" => v.pc = "done" /\ SeedIs(v) /\ WeightIs(v, d) /\ TotalIs(v, d)
    /\ w = node => /\ v.pc \in {"idle", "weight", "askWeight", "putWeight", "total"}
                   /\ v.pc # "idle" => v.round = StartRound /\ keyEligible(v.round, v.addr)

WorkersInv == /\ worker \in [Procs -> WorkerRecords]
              /\ \A w \in Procs : WorkerInv(worker[w], w, daemon)

CacheTrue(c, f) == c = [items |-> c.items, list |-> c.list] /\ \A k \in DOMAIN c.items : c.items[k] = f[k]

\* The caches and the daemon.
DataInv ==
    /\ daemon \in Daemons /\ oldest \in Nat
    /\ CacheTrue(weightCache, daemon.weight) /\ CacheTrue(totalWeightCache, daemon.total)
    /\ lastRoundSeed \in Seeds /\ SeedsTrue(lastRoundSeed)

\* The start: a key that was taken is weighed, or about to be.
StartInv ==
    /\ phase \in {"ping", "identity", "keys", "running", "failed", "panic"}
    /\ phase \in {"keys", "running", "panic"} => daemon.identity = Expected
    /\ phase # "failed" => \A a \in LocalKeys \ unchecked : keyEligible(StartRound, a) =>
          \/ daemon.weight[<<BalanceRound(StartRound), a>>] > 0
          \/ worker[node].pc # "idle" /\ worker[node].addr = a
    /\ phase # "keys" => worker[node].pc = "idle"
    /\ phase \in {"running", "panic"} => unchecked = {}
    /\ phase \notin {"running", "panic"} => \A w \in Workers \ {node} : worker[w].pc = "idle"

OracleInv == WorkersInv /\ DataInv /\ StartInv /\ NoPanic

LEMMA RoundTypes ==
    ASSUME NEW r \in VoteRounds \cup {StartRound}
    PROVE  r \in Nat /\ BalanceRound(r) \in Nat /\ seedRound(r) \in Nat /\ SeedOf(seedRound(r)) \in Int
BY OracleAssumption DEF BalanceRound, seedRound, SeedOf

LEMMA KeyTypes ==
    ASSUME NEW r \in VoteRounds \cup {StartRound}, NEW a \in Accounts
    PROVE  <<BalanceRound(r), a>> \in WeightKeys
BY DEF WeightKeys

LEMMA AnswerTypes ==
    ASSUME NEW d \in Daemons, NEW r \in VoteRounds \cup {StartRound}, NEW a \in Accounts
    PROVE  /\ d.weight[<<BalanceRound(r), a>>] \in Nat
           /\ r \in VoteRounds => d.total[<<BalanceRound(r), r>>] \in Nat
<1>1. d.weight \in [WeightKeys -> Nat] /\ d.total \in [TotalKeys -> Nat]
  BY OracleAssumption, Zenon
<1>2. <<BalanceRound(r), a>> \in WeightKeys
  BY KeyTypes
<1>3. r \in VoteRounds => <<BalanceRound(r), r>> \in TotalKeys
  BY DEF TotalKeys
<1> QED
  BY <1>1, <1>2, <1>3, Zenon

LEMMA IdleSound == \A w, d : WorkerInv(Idle, w, d)
<1>1. Idle \in WorkerRecords /\ SeedsTrue(Idle.seeds) /\ Idle.pc = "idle" /\ Idle.verdict = "none"
  BY DEF Idle, Begin, WorkerRecords, Labels, Verdicts, Seeds, SeedsTrue
<1> QED
  BY <1>1, Zenon DEF WorkerInv, Weighed

LEMMA OracleInit == Init => OracleInv
<1> SUFFICES ASSUME Init PROVE OracleInv
  BY Zenon
<1>1. Idle \in WorkerRecords /\ SeedsTrue(Idle.seeds) /\ Idle.pc = "idle" /\ Idle.verdict = "none"
  BY DEF Idle, Begin, WorkerRecords, Labels, Verdicts, Seeds, SeedsTrue
<1>3. WorkersInv
  BY <1>1, IdleSound, Zenon DEF Init, WorkersInv, Procs
<1>4. DataInv
  BY DEF Init, DataInv, CacheTrue, EmptyCache, Seeds, SeedsTrue
<1>5. StartInv
  BY <1>1, Zenon DEF Init, StartInv, Procs
<1>6. NoPanic
  BY Zenon DEF Init, NoPanic
<1> QED
  BY <1>3, <1>4, <1>5, <1>6, Zenon DEF OracleInv

----------------------------------------------------------------------------
(* The caches.                                                             *)

LEMMA TouchTrue == ASSUME NEW c, NEW k, NEW f, CacheTrue(c, f) PROVE CacheTrue(Touch(c, k), f)
BY DEF CacheTrue, Touch

LEMMA PutTrue ==
    ASSUME NEW c, NEW k, NEW v, NEW n, NEW f, CacheTrue(c, f), v = f[k]
    PROVE  CacheTrue(Put(c, k, v, n), f)
<1>1. CASE k \in DOMAIN c.items
  <2> DEFINE e == [c EXCEPT !.items[k] = v]
  <2>1. e = [items |-> [c.items EXCEPT ![k] = v], list |-> c.list]
    BY DEF CacheTrue
  <2>2. CacheTrue(e, f)
    BY <1>1, <2>1, Zenon DEF CacheTrue
  <2> QED
    BY <1>1, <2>2, TouchTrue, Zenon DEF Put
<1>2. CASE k \notin DOMAIN c.items
  <2>1. CacheTrue(Evict(c), f)
    BY Zenon DEF CacheTrue, Evict
  <2>2. ASSUME NEW e, CacheTrue(e, f) PROVE CacheTrue(PushFront(e, k, v), f)
    BY <2>2, Zenon DEF CacheTrue, PushFront
  <2> QED
    BY <1>2, <2>1, <2>2, Zenon DEF Put
<1> QED
  BY <1>1, <1>2, Zenon

----------------------------------------------------------------------------
(* The goroutines.                                                         *)

Record(l, a, r, ss, sd, wt, tt, vd) ==
    [pc |-> l, addr |-> a, round |-> r, seeds |-> ss, seed |-> sd, weight |-> wt, total |-> tt, verdict |-> vd]

\* One goroutine moves, the daemon stays what it is.
LEMMA MoveWorker ==
    ASSUME WorkersInv, NEW w \in Procs, NEW v, WorkerInv(v, w, daemon),
           worker' = [worker EXCEPT ![w] = v], UNCHANGED daemon
    PROVE  WorkersInv'
<1>1. worker' \in [Procs -> WorkerRecords]
  BY Zenon DEF WorkersInv, WorkerInv
<1>2. ASSUME NEW x \in Procs PROVE WorkerInv(worker'[x], x, daemon')
  <2>1. CASE x = w
    BY <2>1, Zenon DEF WorkersInv
  <2>2. CASE x # w
    BY <2>2, Zenon DEF WorkersInv
  <2> QED
    BY <2>1, <2>2, Zenon
<1> QED
  BY <1>1, <1>2, Zenon DEF WorkersInv

\* What is known of a goroutine before its step.
LEMMA WorkerFields ==
    ASSUME WorkersInv, NEW w \in Procs
    PROVE  LET v == worker[w]
           IN  /\ v = Record(v.pc, v.addr, v.round, v.seeds, v.seed, v.weight, v.total, v.verdict)
               /\ v \in WorkerRecords /\ WorkerInv(v, w, daemon)
               /\ v.round \in Nat /\ v.seeds \in Seeds /\ v.seed \in Int /\ v.weight \in Nat
               /\ v.total \in Nat /\ v.verdict \in Verdicts /\ v.addr \in Accounts \cup {""}
BY Zenon DEF WorkersInv, WorkerInv, WorkerRecords, Record

\* What a step of membership may make of a goroutine's record v.
Sound(w, v, l, ss, sd, wt, tt, vd) ==
    /\ l \in Labels /\ ss \in Seeds /\ sd \in Int /\ wt \in Nat /\ tt \in Nat /\ vd \in Verdicts
    /\ SeedsTrue(ss) /\ v.pc # "idle"
    /\ w # node /\ l \in {"storeSeed", "weight", "askWeight"} \cup Weighed => sd = SeedOf(seedRound(v.round))
    /\ l \in {"askWeight"} \cup Weighed => keyEligible(v.round, v.addr)
    /\ l \in Weighed => wt = daemon.weight[<<BalanceRound(v.round), v.addr>>]
    /\ l \in {"putTotal", "check"} => tt = daemon.total[<<BalanceRound(v.round), v.round>>]
    /\ vd = "verified" => /\ l = "done" /\ sd = SeedOf(seedRound(v.round))
                          /\ wt = daemon.weight[<<BalanceRound(v.round), v.addr>>]
                          /\ tt = daemon.total[<<BalanceRound(v.round), v.round>>]
    /\ w = node => l \in {"weight", "askWeight", "putWeight", "total"}

Moved(w, l, ss, sd, wt, tt, vd) ==
    worker' = [worker EXCEPT ![w] = Record(l, worker[w].addr, worker[w].round, ss, sd, wt, tt, vd)]

LEMMA WorkerSteps ==
    ASSUME WorkersInv, NEW w \in Procs, NEW l, NEW ss, NEW sd, NEW wt, NEW tt, NEW vd,
           Moved(w, l, ss, sd, wt, tt, vd), Sound(w, worker[w], l, ss, sd, wt, tt, vd), UNCHANGED daemon
    PROVE  WorkersInv'
<1> DEFINE v == worker[w]
           u == Record(l, v.addr, v.round, ss, sd, wt, tt, vd)
<1>1. /\ v \in WorkerRecords /\ WorkerInv(v, w, daemon) /\ v.round \in Nat /\ v.addr \in Accounts \cup {""}
  BY WorkerFields, Zenon
<1>2. /\ u.pc = l /\ u.addr = v.addr /\ u.round = v.round /\ u.seeds = ss /\ u.verdict = vd
      /\ u.seed = sd /\ u.weight = wt /\ u.total = tt
  BY Zenon DEF Record
<1>3. u \in WorkerRecords
  BY <1>1, Zenon DEF Record, WorkerRecords, Sound
<1>4. /\ WeightIs(u, daemon) <=> wt = daemon.weight[<<BalanceRound(v.round), v.addr>>]
      /\ TotalIs(u, daemon) <=> tt = daemon.total[<<BalanceRound(v.round), v.round>>]
      /\ SeedIs(u) <=> sd = SeedOf(seedRound(v.round))
  BY <1>2, Zenon DEF WeightIs, TotalIs, SeedIs
<1> HIDE DEF u
<1>5. WorkerInv(u, w, daemon)
  BY <1>1, <1>2, <1>3, <1>4, Zenon DEF WorkerInv, Sound
<1> QED
  BY <1>5, MoveWorker, Zenon DEF Moved, u

\* The forms the steps have in the model.
LEMMA WorkerUpdates ==
    ASSUME WorkersInv, NEW w \in Procs
    PROVE  LET v == worker[w]
           IN  /\ \A l : Go(w, l) => Moved(w, l, v.seeds, v.seed, v.weight, v.total, v.verdict)
               /\ \A x : Verdict(w, x) => Moved(w, "done", v.seeds, v.seed, v.weight, v.total, x)
               /\ \A l, x : worker' = [worker EXCEPT ![w].pc = l, ![w].weight = x]
                               => Moved(w, l, v.seeds, v.seed, x, v.total, v.verdict)
               /\ \A l, x : worker' = [worker EXCEPT ![w].pc = l, ![w].total = x]
                               => Moved(w, l, v.seeds, v.seed, v.weight, x, v.verdict)
               /\ \A l, x : worker' = [worker EXCEPT ![w].pc = l, ![w].seeds = x]
                               => Moved(w, l, x, v.seed, v.weight, v.total, v.verdict)
               /\ \A l, x, y : worker' = [worker EXCEPT ![w].pc = l, ![w].seed = x, ![w].seeds = y]
                               => Moved(w, l, y, x, v.weight, v.total, v.verdict)
<1> DEFINE v == worker[w]
<1>1. /\ v = Record(v.pc, v.addr, v.round, v.seeds, v.seed, v.weight, v.total, v.verdict)
      /\ worker \in [Procs -> WorkerRecords] /\ v \in WorkerRecords
  BY WorkerFields, Zenon DEF WorkersInv
<1>2. \A l : Go(w, l) => Moved(w, l, v.seeds, v.seed, v.weight, v.total, v.verdict)
  BY <1>1, Zenon DEF Go, Moved, Record
<1>3. \A x : Verdict(w, x) => Moved(w, "done", v.seeds, v.seed, v.weight, v.total, x)
  BY <1>1, Zenon DEF Verdict, Moved, Record
<1>4. \A l, x : worker' = [worker EXCEPT ![w].pc = l, ![w].weight = x]
                               => Moved(w, l, v.seeds, v.seed, x, v.total, v.verdict)
  BY <1>1, Zenon DEF Moved, Record
<1>5. \A l, x : worker' = [worker EXCEPT ![w].pc = l, ![w].total = x]
                               => Moved(w, l, v.seeds, v.seed, v.weight, x, v.verdict)
  BY <1>1, Zenon DEF Moved, Record
<1>6. \A l, x : worker' = [worker EXCEPT ![w].pc = l, ![w].seeds = x]
                               => Moved(w, l, x, v.seed, v.weight, v.total, v.verdict)
  BY <1>1, Zenon DEF Moved, Record
<1>7. \A l, x, y : worker' = [worker EXCEPT ![w].pc = l, ![w].seed = x, ![w].seeds = y]
                               => Moved(w, l, y, x, v.weight, v.total, v.verdict)
  BY <1>1, ZenonT(60) DEF Moved, Record
<1> QED
  BY <1>2, <1>3, <1>4, <1>5, <1>6, <1>7, Zenon

MembershipStep(w) ==
    \/ Circulation(w) \/ Seed(w) \/ StoreSeed(w) \/ Weight(w) \/ WeightAnswered(w) \/ PutWeight(w)
    \/ TotalWeight(w) \/ TotalAnswered(w) \/ PutTotal(w) \/ QueryFailed(w)
    \/ QueryRefused(w) \/ Check(w)

LEMMA MembershipWorkers ==
    ASSUME OracleInv, NEW w \in Procs, MembershipStep(w)
    PROVE  WorkersInv'
<1> DEFINE v == worker[w]
           Moves(l, ss, sd, wt, tt, vd) == Moved(w, l, ss, sd, wt, tt, vd)
<1>0. /\ WorkersInv /\ DataInv /\ UNCHANGED daemon
  BY Zenon DEF OracleInv, MembershipStep, Circulation, Seed, StoreSeed, Weight, WeightAnswered, PutWeight,
         TotalWeight, TotalAnswered, PutTotal, QueryFailed, QueryRefused, Check
<1>1. /\ v = Record(v.pc, v.addr, v.round, v.seeds, v.seed, v.weight, v.total, v.verdict)
      /\ v \in WorkerRecords /\ WorkerInv(v, w, daemon)
      /\ v.round \in Nat /\ v.seeds \in Seeds /\ v.seed \in Int /\ v.weight \in Nat
      /\ v.total \in Nat /\ v.verdict \in Verdicts
  BY <1>0, WorkerFields, Zenon
<1>2. /\ << >> \in Seeds /\ SeedsTrue(<< >>) /\ SeedsTrue(v.seeds)
      /\ \A l \in {"seed", "storeSeed", "weight", "askWeight", "putWeight", "total", "askTotal", "putTotal",
                   "check", "done"} : l \in Labels
      /\ "verified" \in Verdicts /\ "malformed" \in Verdicts
  BY <1>1, Zenon DEF Seeds, SeedsTrue, WorkerInv, Labels, Verdicts
<1>3. v.pc # "idle" => v.addr \in Accounts /\ v.round \in VoteRounds \cup {StartRound}
  BY <1>1, Zenon DEF WorkerInv
<1>4. CASE Circulation(w)
  <2>1. v.pc = "circulation" /\ w # node
    BY <1>1, <1>4, Zenon DEF Circulation, At, WorkerInv
  <2>2. v.verdict # "verified"
    BY <1>1, <2>1, Zenon DEF WorkerInv
  <2>3. \/ Moves("done", v.seeds, v.seed, v.weight, v.total, "malformed")
        \/ Moves("seed", v.seeds, v.seed, v.weight, v.total, v.verdict)
    BY <1>0, <1>4, WorkerUpdates, Zenon DEF Circulation
  <2>4. /\ Sound(w, v, "done", v.seeds, v.seed, v.weight, v.total, "malformed")
        /\ Sound(w, v, "seed", v.seeds, v.seed, v.weight, v.total, v.verdict)
    BY <1>1, <1>2, <2>1, <2>2, Zenon DEF Sound, Weighed
  <2> QED
    BY <1>0, <2>3, <2>4, WorkerSteps, Zenon
<1>5. CASE Seed(w)
  <2> DEFINE r == seedRound(v.round)
             hit == {i \in DOMAIN lastRoundSeed : r # 0 /\ lastRoundSeed[i].round = r}
             l == IF hit # {} THEN "weight" ELSE "storeSeed"
             sd == IF hit # {} THEN lastRoundSeed[CHOOSE i \in hit : TRUE].seed ELSE SeedOf(r)
             ss == IF hit # {} THEN << >> ELSE lastRoundSeed
  <2>1. v.pc = "seed" /\ w # node
    BY <1>1, <1>5, Zenon DEF Seed, At, WorkerInv
  <2>2. v.verdict # "verified" /\ v.round \in VoteRounds
    BY <1>1, <2>1, Zenon DEF WorkerInv
  <2>3. worker' = [worker EXCEPT ![w].pc = l, ![w].seed = sd, ![w].seeds = ss]
    BY <1>5, Zenon DEF Seed
  <2>4. r \in Nat /\ SeedOf(r) \in Int
    BY <2>2, RoundTypes, Zenon
  <2>5. ASSUME hit # {} PROVE lastRoundSeed[CHOOSE i \in hit : TRUE].seed = SeedOf(r)
    <3> DEFINE i == CHOOSE x \in hit : TRUE
    <3>1. i \in hit
      BY <2>5, Zenon
    <3> HIDE DEF i
    <3>2. i \in DOMAIN lastRoundSeed /\ r # 0 /\ lastRoundSeed[i].round = r
      BY <3>1, Zenon
    <3>3. lastRoundSeed # << >> /\ i \in {1, 2}
      BY <1>0, <3>2 DEF DataInv, Seeds
    <3>4. lastRoundSeed[i].seed = SeedOf(r)
      BY <1>0, <3>2, <3>3, Zenon DEF DataInv, SeedsTrue
    <3> QED
      BY <3>4, Zenon DEF i
  <2> HIDE DEF hit, r
  <2>6. sd = SeedOf(r) /\ ss \in Seeds /\ SeedsTrue(ss) /\ l \in {"weight", "storeSeed"}
    BY <1>0, <1>2, <2>5, Zenon DEF DataInv
  <2> HIDE DEF l, sd, ss
  <2>7. Moves(l, ss, sd, v.weight, v.total, v.verdict)
    BY <1>0, <2>3, WorkerUpdates, Zenon
  <2>8. Sound(w, v, l, ss, sd, v.weight, v.total, v.verdict)
    BY <1>1, <1>2, <2>1, <2>2, <2>4, <2>6, Zenon DEF Sound, Weighed, r
  <2> QED
    BY <1>0, <2>7, <2>8, WorkerSteps, Zenon
<1>6. CASE StoreSeed(w)
  <2>1. v.pc = "storeSeed" /\ w # node
    BY <1>1, <1>6, Zenon DEF StoreSeed, At, WorkerInv
  <2>2. v.verdict # "verified" /\ v.seed = SeedOf(seedRound(v.round))
    BY <1>1, <2>1, Zenon DEF WorkerInv, SeedIs
  <2>3. Moves("weight", << >>, v.seed, v.weight, v.total, v.verdict)
    BY <1>0, <1>6, WorkerUpdates, Zenon DEF StoreSeed
  <2>4. Sound(w, v, "weight", << >>, v.seed, v.weight, v.total, v.verdict)
    BY <1>1, <1>2, <2>1, <2>2, Zenon DEF Sound, Weighed
  <2> QED
    BY <1>0, <2>3, <2>4, WorkerSteps, Zenon
<1>7. CASE Weight(w)
  <2>1. v.pc = "weight" /\ (w # node => SeedIs(v)) /\ v.verdict # "verified"
    BY <1>1, <1>7, Zenon DEF Weight, At, WorkerInv
  <2>2. w # node => v.seed = SeedOf(seedRound(v.round))
    BY <2>1, Zenon DEF SeedIs
  <2>3. CASE ~keyEligible(v.round, v.addr)
    <3>1. w # node
      BY <1>1, <2>1, <2>3, Zenon DEF WorkerInv
    <3>2. Moves("done", v.seeds, v.seed, v.weight, v.total, "malformed")
      BY <1>0, <1>7, <2>3, WorkerUpdates, Zenon DEF Weight
    <3>3. Sound(w, v, "done", v.seeds, v.seed, v.weight, v.total, "malformed")
      BY <1>1, <1>2, <2>1, <3>1, Zenon DEF Sound, Weighed
    <3> QED
      BY <1>0, <3>2, <3>3, WorkerSteps, Zenon
  <2>4. CASE keyEligible(v.round, v.addr) /\ weightKey(w) \in DOMAIN weightCache.items
    <3> DEFINE wt == weightCache.items[weightKey(w)]
    <3>1. wt = daemon.weight[<<BalanceRound(v.round), v.addr>>]
      BY <1>0, <2>4, Zenon DEF DataInv, CacheTrue, weightKey
    <3>2. wt \in Nat
      BY <1>0, <1>3, <2>1, <3>1, AnswerTypes, Zenon DEF DataInv
    <3>3. Moves("total", v.seeds, v.seed, wt, v.total, v.verdict)
      BY <1>0, <1>7, <2>4, WorkerUpdates, Zenon DEF Weight
    <3> HIDE DEF wt
    <3>4. Sound(w, v, "total", v.seeds, v.seed, wt, v.total, v.verdict)
      BY <1>1, <1>2, <2>1, <2>2, <2>4, <3>1, <3>2, Zenon DEF Sound, Weighed
    <3> QED
      BY <1>0, <3>3, <3>4, WorkerSteps, Zenon
  <2>5. CASE keyEligible(v.round, v.addr) /\ weightKey(w) \notin DOMAIN weightCache.items
    <3>1. Moves("askWeight", v.seeds, v.seed, v.weight, v.total, v.verdict)
      BY <1>0, <1>7, <2>5, WorkerUpdates, Zenon DEF Weight
    <3>2. Sound(w, v, "askWeight", v.seeds, v.seed, v.weight, v.total, v.verdict)
      BY <1>1, <1>2, <2>1, <2>2, <2>5, Zenon DEF Sound, Weighed
    <3> QED
      BY <1>0, <3>1, <3>2, WorkerSteps, Zenon
  <2> QED
    BY <2>3, <2>4, <2>5, Zenon
<1>8. CASE WeightAnswered(w)
  <2> DEFINE wt == daemon.weight[<<BalanceRound(v.round), v.addr>>]
  <2>1. v.pc = "askWeight" /\ (w # node => SeedIs(v)) /\ v.verdict # "verified" /\ keyEligible(v.round, v.addr)
    BY <1>1, <1>8, Zenon DEF WeightAnswered, At, WorkerInv
  <2>2. wt \in Nat
    BY <1>0, <1>3, <2>1, AnswerTypes, Zenon DEF DataInv
  <2>3. Moves("putWeight", v.seeds, v.seed, wt, v.total, v.verdict)
    BY <1>0, <1>8, WorkerUpdates, Zenon DEF WeightAnswered
  <2>4. Sound(w, v, "putWeight", v.seeds, v.seed, wt, v.total, v.verdict)
    BY <1>1, <1>2, <2>1, <2>2, Zenon DEF Sound, Weighed, SeedIs
  <2> QED
    BY <1>0, <2>3, <2>4, WorkerSteps, Zenon
<1>9. CASE PutWeight(w)
  <2>1. /\ v.pc = "putWeight" /\ (w # node => SeedIs(v)) /\ v.verdict # "verified"
        /\ keyEligible(v.round, v.addr) /\ WeightIs(v, daemon)
    BY <1>1, <1>9, Zenon DEF PutWeight, At, WorkerInv, Weighed
  <2>2. Moves("total", v.seeds, v.seed, v.weight, v.total, v.verdict)
    BY <1>0, <1>9, WorkerUpdates, Zenon DEF PutWeight
  <2>3. Sound(w, v, "total", v.seeds, v.seed, v.weight, v.total, v.verdict)
    BY <1>1, <1>2, <2>1, Zenon DEF Sound, Weighed, SeedIs, WeightIs
  <2> QED
    BY <1>0, <2>2, <2>3, WorkerSteps, Zenon
<1>10. CASE TotalWeight(w)
  <2>1. /\ v.pc = "total" /\ w # node /\ SeedIs(v) /\ v.verdict # "verified"
        /\ keyEligible(v.round, v.addr) /\ WeightIs(v, daemon) /\ v.round \in VoteRounds
    BY <1>1, <1>10, Zenon DEF TotalWeight, At, WorkerInv, Weighed
  <2>2. CASE totalKey(w) \in DOMAIN totalWeightCache.items
    <3> DEFINE tt == totalWeightCache.items[totalKey(w)]
    <3>1. tt = daemon.total[<<BalanceRound(v.round), v.round>>]
      BY <1>0, <2>2, Zenon DEF DataInv, CacheTrue, totalKey
    <3>2. tt \in Nat
      BY <1>0, <1>3, <2>1, <3>1, AnswerTypes, Zenon DEF DataInv
    <3>3. Moves("check", v.seeds, v.seed, v.weight, tt, v.verdict)
      BY <1>0, <1>10, <2>2, WorkerUpdates, Zenon DEF TotalWeight
    <3> HIDE DEF tt
    <3>4. Sound(w, v, "check", v.seeds, v.seed, v.weight, tt, v.verdict)
      BY <1>1, <1>2, <2>1, <3>1, <3>2, Zenon DEF Sound, Weighed, SeedIs, WeightIs
    <3> QED
      BY <1>0, <3>3, <3>4, WorkerSteps, Zenon
  <2>3. CASE totalKey(w) \notin DOMAIN totalWeightCache.items
    <3>1. Moves("askTotal", v.seeds, v.seed, v.weight, v.total, v.verdict)
      BY <1>0, <1>10, <2>3, WorkerUpdates, Zenon DEF TotalWeight
    <3>2. Sound(w, v, "askTotal", v.seeds, v.seed, v.weight, v.total, v.verdict)
      BY <1>1, <1>2, <2>1, Zenon DEF Sound, Weighed, SeedIs, WeightIs
    <3> QED
      BY <1>0, <3>1, <3>2, WorkerSteps, Zenon
  <2> QED
    BY <2>2, <2>3, Zenon
<1>11. CASE TotalAnswered(w)
  <2> DEFINE tt == daemon.total[<<BalanceRound(v.round), v.round>>]
  <2>1. /\ v.pc = "askTotal" /\ w # node /\ SeedIs(v) /\ v.verdict # "verified"
        /\ keyEligible(v.round, v.addr) /\ WeightIs(v, daemon) /\ v.round \in VoteRounds
    BY <1>1, <1>11, Zenon DEF TotalAnswered, At, WorkerInv, Weighed
  <2>2. tt \in Nat
    BY <1>0, <1>3, <2>1, AnswerTypes, Zenon DEF DataInv
  <2>3. Moves("putTotal", v.seeds, v.seed, v.weight, tt, v.verdict)
    BY <1>0, <1>11, WorkerUpdates, Zenon DEF TotalAnswered
  <2>4. Sound(w, v, "putTotal", v.seeds, v.seed, v.weight, tt, v.verdict)
    BY <1>1, <1>2, <2>1, <2>2, Zenon DEF Sound, Weighed, SeedIs, WeightIs
  <2> QED
    BY <1>0, <2>3, <2>4, WorkerSteps, Zenon
<1>12. CASE PutTotal(w)
  <2>1. /\ v.pc = "putTotal" /\ w # node /\ SeedIs(v) /\ v.verdict # "verified"
        /\ keyEligible(v.round, v.addr) /\ WeightIs(v, daemon) /\ TotalIs(v, daemon)
    BY <1>1, <1>12, Zenon DEF PutTotal, At, WorkerInv, Weighed
  <2>2. Moves("check", v.seeds, v.seed, v.weight, v.total, v.verdict)
    BY <1>0, <1>12, WorkerUpdates, Zenon DEF PutTotal
  <2>3. Sound(w, v, "check", v.seeds, v.seed, v.weight, v.total, v.verdict)
    BY <1>1, <1>2, <2>1, Zenon DEF Sound, Weighed, SeedIs, WeightIs, TotalIs
  <2> QED
    BY <1>0, <2>2, <2>3, WorkerSteps, Zenon
<1>13. CASE QueryFailed(w)
  <2>1. CASE w = node
    <3>1. worker' = [worker EXCEPT ![w] = Idle]
      BY <1>13, <2>1, Zenon DEF QueryFailed
    <3> QED
      BY <1>0, <3>1, IdleSound, MoveWorker, Zenon
  <2>2. CASE w # node
    <3>1. v.pc # "idle"
      BY <1>13, Zenon DEF QueryFailed, At
    <3>2. Moves("done", v.seeds, v.seed, v.weight, v.total, "malformed")
      BY <1>0, <1>13, <2>2, WorkerUpdates, Zenon DEF QueryFailed
    <3>3. Sound(w, v, "done", v.seeds, v.seed, v.weight, v.total, "malformed")
      BY <1>1, <1>2, <2>2, <3>1, Zenon DEF Sound, Weighed
    <3> QED
      BY <1>0, <3>2, <3>3, WorkerSteps, Zenon
  <2> QED
    BY <2>1, <2>2, Zenon
<1>15. CASE QueryRefused(w)
  <2>1. UNCHANGED worker \/ worker' = [worker EXCEPT ![w] = Idle]
    BY <1>15, Zenon DEF QueryRefused
  <2>2. CASE UNCHANGED worker
    BY <1>0, <2>2, Zenon DEF WorkersInv
  <2>3. CASE worker' = [worker EXCEPT ![w] = Idle]
    BY <1>0, <2>3, IdleSound, MoveWorker, Zenon
  <2> QED
    BY <2>1, <2>2, <2>3, Zenon
<1>14. CASE Check(w)
  <2>1. CASE UNCHANGED worker
    BY <1>0, <2>1, Zenon DEF WorkersInv
  <2>2. CASE Verdict(w, "verified")
    <3>1. /\ v.pc = "check" /\ w # node /\ SeedIs(v) /\ WeightIs(v, daemon) /\ TotalIs(v, daemon)
      BY <1>1, <1>14, Zenon DEF Check, At, WorkerInv, Weighed
    <3>2. Moves("done", v.seeds, v.seed, v.weight, v.total, "verified")
      BY <1>0, <2>2, WorkerUpdates, Zenon
    <3>3. Sound(w, v, "done", v.seeds, v.seed, v.weight, v.total, "verified")
      BY <1>1, <1>2, <3>1, Zenon DEF Sound, Weighed, SeedIs, WeightIs, TotalIs
    <3> QED
      BY <1>0, <3>2, <3>3, WorkerSteps, Zenon
  <2>3. CASE Verdict(w, "malformed")
    <3>1. v.pc = "check" /\ w # node
      BY <1>1, <1>14, Zenon DEF Check, At, WorkerInv
    <3>2. Moves("done", v.seeds, v.seed, v.weight, v.total, "malformed")
      BY <1>0, <2>3, WorkerUpdates, Zenon
    <3>3. Sound(w, v, "done", v.seeds, v.seed, v.weight, v.total, "malformed")
      BY <1>1, <1>2, <3>1, Zenon DEF Sound, Weighed
    <3> QED
      BY <1>0, <3>2, <3>3, WorkerSteps, Zenon
  <2> QED
    BY <1>14, <2>1, <2>2, <2>3, Zenon DEF Check
<1> QED
  BY <1>4, <1>5, <1>6, <1>7, <1>8, <1>9, <1>10, <1>11, <1>12, <1>13, <1>14, <1>15, Zenon DEF MembershipStep

\* The record of a goroutine that starts.
LEMMA FreshRecord ==
    ASSUME NEW l \in {"done", "circulation", "weight"}, NEW a \in Accounts, NEW r \in Nat,
           NEW vd \in {"filtered", "none"}
    PROVE  Begin(l, a, r, vd) \in WorkerRecords
<1>1. l \in Labels /\ vd \in Verdicts /\ a \in Accounts \cup {""}
  BY Zenon DEF Labels, Verdicts
<1>2. << >> \in Seeds
  BY Zenon DEF Seeds
<1>3. -1 \in Int /\ 0 \in Nat
  OBVIOUS
<1> QED
  BY <1>1, <1>2, <1>3, Zenon DEF Begin, WorkerRecords

LEMMA WorkersStep == ASSUME OracleInv, [Next]_vars PROVE WorkersInv'
<1>0. WorkersInv /\ DataInv
  BY Zenon DEF OracleInv
<1>1. ASSUME NEW w \in Procs, MembershipStep(w) PROVE WorkersInv'
  BY <1>1, MembershipWorkers, Zenon
<1>2. ASSUME NEW w \in Workers, NEW a \in Accounts, NEW r \in VoteRounds, Verify(w, a, r) PROVE WorkersInv'
  <2> DEFINE l == IF BalanceRound(r) < oldest THEN "done" ELSE "circulation"
             vd == IF BalanceRound(r) < oldest THEN "filtered" ELSE "none"
             u == Begin(l, a, r, vd)
  <2>1. worker' = [worker EXCEPT ![w] = u] /\ w # node /\ UNCHANGED daemon /\ w \in Procs
    BY <1>2, Zenon DEF Verify, Procs
  <2>2. l \in {"done", "circulation"} /\ vd \in {"filtered", "none"} /\ r \in Nat
    BY OracleAssumption, Zenon
  <2> HIDE DEF l, vd
  <2>3. /\ u.pc = l /\ u.addr = a /\ u.round = r /\ u.seeds = << >> /\ u.verdict = vd
    BY Zenon DEF Begin
  <2>4. u \in WorkerRecords /\ SeedsTrue(<< >>)
    BY <2>2, FreshRecord, Zenon DEF u, SeedsTrue
  <2> HIDE DEF u
  <2>5. WorkerInv(u, w, daemon)
    BY <2>1, <2>2, <2>3, <2>4, Zenon DEF WorkerInv, Weighed
  <2> QED
    BY <1>0, <2>1, <2>5, MoveWorker, Zenon
<1>3. ASSUME NEW a \in LocalKeys, ValidateKey(a) PROVE WorkersInv'
  <2> DEFINE u == Begin("weight", a, StartRound, "none")
  <2>1. CASE ~keyEligible(StartRound, a)
    BY <1>0, <1>3, <2>1, Zenon DEF ValidateKey, WorkersInv
  <2>2. CASE keyEligible(StartRound, a)
    <3>1. worker' = [worker EXCEPT ![node] = u] /\ UNCHANGED daemon /\ node \in Procs
      BY <1>3, <2>2, Zenon DEF ValidateKey, Procs
    <3>2. a \in Accounts /\ StartRound \in Nat
      BY OracleAssumption, Zenon
    <3>3. /\ u.pc = "weight" /\ u.addr = a /\ u.round = StartRound /\ u.seeds = << >> /\ u.verdict = "none"
      BY Zenon DEF Begin
    <3>4. u \in WorkerRecords /\ SeedsTrue(<< >>)
      BY <3>2, FreshRecord, Zenon DEF SeedsTrue
    <3> HIDE DEF u
    <3>5. WorkerInv(u, node, daemon)
      BY <2>2, <3>2, <3>3, <3>4, Zenon DEF WorkerInv, Weighed
    <3> QED
      BY <1>0, <3>1, <3>5, MoveWorker, Zenon
  <2> QED
    BY <2>1, <2>2, Zenon
<1>4. CASE KeyWeighed
  <2>1. worker' = [worker EXCEPT ![node] = Idle] /\ UNCHANGED daemon /\ node \in Procs
    BY <1>4, Zenon DEF KeyWeighed, Procs
  <2> QED
    BY <1>0, <2>1, IdleSound, MoveWorker, Zenon
<1>5. CASE Ping \/ Identity \/ StartAgreement \/ DropRound \/ UNCHANGED vars
  <2>1. UNCHANGED <<worker, daemon>>
    BY <1>5, Zenon DEF Ping, Identity, StartAgreement, DropRound, vars
  <2> QED
    BY <1>0, <2>1, Zenon DEF WorkersInv
<1> QED
  BY <1>1, <1>2, <1>3, <1>4, <1>5, Zenon DEF Next, MembershipStep, Procs

LEMMA DataStep == ASSUME OracleInv, [Next]_vars PROVE DataInv'
<1>0. WorkersInv /\ DataInv
  BY Zenon DEF OracleInv
<1>1. ASSUME NEW w \in Procs, PutWeight(w) PROVE DataInv'
  <2>1. worker[w].pc = "putWeight" /\ WorkerInv(worker[w], w, daemon)
    BY <1>0, <1>1, Zenon DEF PutWeight, At, WorkersInv
  <2>2. worker[w].weight = daemon.weight[weightKey(w)]
    BY <2>1, Zenon DEF WorkerInv, Weighed, WeightIs, weightKey
  <2>3. CacheTrue(weightCache', daemon.weight)
    BY <1>0, <1>1, <2>2, PutTrue, Zenon DEF PutWeight, DataInv
  <2> QED
    BY <1>0, <1>1, <2>3, Zenon DEF PutWeight, DataInv, data
<1>2. ASSUME NEW w \in Procs, PutTotal(w) PROVE DataInv'
  <2>1. worker[w].pc = "putTotal" /\ WorkerInv(worker[w], w, daemon)
    BY <1>0, <1>2, Zenon DEF PutTotal, At, WorkersInv
  <2>2. worker[w].total = daemon.total[totalKey(w)]
    BY <2>1, Zenon DEF WorkerInv, Weighed, TotalIs, totalKey
  <2>3. CacheTrue(totalWeightCache', daemon.total)
    BY <1>0, <1>2, <2>2, PutTrue, Zenon DEF PutTotal, DataInv
  <2> QED
    BY <1>0, <1>2, <2>3, Zenon DEF PutTotal, DataInv, data
<1>3. ASSUME NEW w \in Procs, Weight(w) PROVE DataInv'
  <2>1. weightCache' = weightCache \/ weightCache' = Touch(weightCache, weightKey(w))
    BY <1>3, Zenon DEF Weight
  <2>2. CacheTrue(weightCache', daemon.weight)
    BY <1>0, <2>1, TouchTrue, Zenon DEF DataInv
  <2> QED
    BY <1>0, <1>3, <2>2, Zenon DEF Weight, DataInv, data
<1>4. ASSUME NEW w \in Procs, TotalWeight(w) PROVE DataInv'
  <2>1. totalWeightCache' = totalWeightCache \/ totalWeightCache' = Touch(totalWeightCache, totalKey(w))
    BY <1>4, Zenon DEF TotalWeight
  <2>2. CacheTrue(totalWeightCache', daemon.total)
    BY <1>0, <2>1, TouchTrue, Zenon DEF DataInv
  <2> QED
    BY <1>0, <1>4, <2>2, Zenon DEF TotalWeight, DataInv, data
<1>5. ASSUME NEW w \in Procs, StoreSeed(w) PROVE DataInv'
  <2> DEFINE ss == worker[w].seeds
             r == seedRound(worker[w].round)
             new == <<IF ss = << >> THEN NoSeed ELSE ss[2], [round |-> r, seed |-> worker[w].seed]>>
  <2>1. /\ worker[w].pc = "storeSeed" /\ WorkerInv(worker[w], w, daemon) /\ ss \in Seeds /\ SeedsTrue(ss)
        /\ worker[w].seed \in Int
    BY <1>0, <1>5, WorkerFields, Zenon DEF StoreSeed, At, WorkerInv
  <2>2. /\ worker[w].seed = SeedOf(r) /\ r \in Nat
    BY <2>1, RoundTypes, Zenon DEF WorkerInv, SeedIs
  <2>3. lastRoundSeed' = lastRoundSeed \/ lastRoundSeed' = new
    BY <1>5, Zenon DEF StoreSeed
  <2>4. NoSeed \in SeedRecords /\ NoSeed.round = 0
    BY DEF NoSeed, SeedRecords
  <2>5. ss # << >> => ss[2] \in SeedRecords /\ (ss[2].round # 0 => ss[2].seed = SeedOf(ss[2].round))
    BY <2>1, Zenon DEF Seeds, SeedsTrue
  <2>6. new \in Seeds /\ SeedsTrue(new)
    <3> DEFINE one == IF ss = << >> THEN NoSeed ELSE ss[2]
               two == [round |-> r, seed |-> worker[w].seed]
    <3>1. one \in SeedRecords /\ (one.round # 0 => one.seed = SeedOf(one.round))
      BY <2>4, <2>5, Zenon
    <3>2. two \in SeedRecords /\ two.round = r /\ two.seed = SeedOf(r)
      BY <2>1, <2>2, Zenon DEF SeedRecords
    <3> HIDE DEF one, two
    <3>3. <<one, two>> \in Seeds /\ SeedsTrue(<<one, two>>)
      BY <3>1, <3>2, Zenon DEF Seeds, SeedsTrue
    <3> QED
      BY <3>3, Zenon DEF one, two
  <2> QED
    BY <1>0, <1>5, <2>3, <2>6, Zenon DEF StoreSeed, DataInv, caches
<1>6. CASE DropRound
  BY <1>0, <1>6 DEF DropRound, DataInv, caches
<1>7. ASSUME UNCHANGED <<daemon, caches, data>> PROVE DataInv'
  BY <1>0, <1>7, Zenon DEF DataInv, caches, data
<1>8. ASSUME NEW w \in Procs, MembershipStep(w) PROVE DataInv'
  <2>1. CASE Circulation(w) \/ Seed(w) \/ WeightAnswered(w) \/ TotalAnswered(w) \/ QueryFailed(w)
             \/ QueryRefused(w) \/ Check(w)
    BY <1>7, <2>1, Zenon DEF Circulation, Seed, WeightAnswered, TotalAnswered, QueryFailed, QueryRefused, Check
  <2> QED
    BY <1>1, <1>2, <1>3, <1>4, <1>5, <1>8, <2>1, Zenon DEF MembershipStep
<1>9. CASE \/ Ping \/ Identity \/ KeyWeighed \/ StartAgreement \/ UNCHANGED vars
           \/ \E a \in LocalKeys : ValidateKey(a)
           \/ \E w \in Workers, a \in Accounts, r \in VoteRounds : Verify(w, a, r)
  BY <1>7, <1>9, Zenon DEF Ping, Identity, KeyWeighed, StartAgreement, vars, ValidateKey, Verify
<1> QED
  BY <1>6, <1>8, <1>9, Zenon DEF Next, MembershipStep, Procs

----------------------------------------------------------------------------
(* The start and the panics.                                               *)

\* The three ways a step of membership can end.
StillBusy(w) == /\ phase' = phase /\ worker'[w].pc # "idle" /\ worker'[w].addr = worker[w].addr
                /\ \A x \in Procs \ {w} : worker'[x] = worker[x]
StartFails(w) == w = node /\ phase' = "failed" /\ worker' = [worker EXCEPT ![w] = Idle]
Panics(w) == (Check(w) \/ QueryRefused(w)) /\ phase' = "panic" /\ UNCHANGED worker

LEMMA MovedBusy ==
    ASSUME WorkersInv, NEW w \in Procs, NEW l, NEW ss, NEW sd, NEW wt, NEW tt, NEW vd,
           Moved(w, l, ss, sd, wt, tt, vd), l # "idle", phase' = phase
    PROVE  StillBusy(w)
<1>1. worker \in [Procs -> WorkerRecords]
  BY Zenon DEF WorkersInv
<1> DEFINE u == Record(l, worker[w].addr, worker[w].round, ss, sd, wt, tt, vd)
<1>2. u.pc = l /\ u.addr = worker[w].addr
  BY Zenon DEF Record
<1>3. worker' = [worker EXCEPT ![w] = u]
  BY Zenon DEF Moved
<1> HIDE DEF u
<1> QED
  BY <1>1, <1>2, <1>3, Zenon DEF StillBusy

LEMMA MembershipShape ==
    ASSUME OracleInv, NEW w \in Procs, MembershipStep(w)
    PROVE  /\ worker[w].pc # "idle" /\ phase \in {"keys", "running"} /\ UNCHANGED <<daemon, unchecked>>
           /\ StillBusy(w) \/ StartFails(w) \/ Panics(w)
<1> DEFINE v == worker[w]
<1>0. WorkersInv
  BY Zenon DEF OracleInv
<1>1. worker[w].pc # "idle" /\ phase \in {"keys", "running"} /\ UNCHANGED <<daemon, unchecked>>
  BY Zenon DEF MembershipStep, Circulation, Seed, StoreSeed, Weight, WeightAnswered, PutWeight,
         TotalWeight, TotalAnswered, PutTotal, QueryFailed, QueryRefused, Check, At
<1> SUFFICES StillBusy(w) \/ StartFails(w) \/ Panics(w)
  BY <1>1, Zenon
<1>2. ASSUME NEW l \in Labels \ {"idle"}, Go(w, l), phase' = phase PROVE StillBusy(w)
  <2>1. Moved(w, l, v.seeds, v.seed, v.weight, v.total, v.verdict)
    BY <1>0, <1>2, WorkerUpdates, Zenon
  <2> QED
    BY <1>0, <1>2, <2>1, MovedBusy, Zenon
<1>3. ASSUME NEW x, Verdict(w, x), phase' = phase PROVE StillBusy(w)
  <2>1. Moved(w, "done", v.seeds, v.seed, v.weight, v.total, x)
    BY <1>0, <1>3, WorkerUpdates, Zenon
  <2>2. "done" # "idle"
    BY Zenon
  <2> QED
    BY <1>0, <1>3, <2>1, <2>2, MovedBusy, Zenon
<1>4. ASSUME NEW l \in Labels \ {"idle"}, NEW x, worker' = [worker EXCEPT ![w].pc = l, ![w].weight = x], phase' = phase
      PROVE StillBusy(w)
  <2>1. Moved(w, l, v.seeds, v.seed, x, v.total, v.verdict)
    BY <1>0, <1>4, WorkerUpdates, Zenon
  <2> QED
    BY <1>0, <1>4, <2>1, MovedBusy, Zenon
<1>5. ASSUME NEW l \in Labels \ {"idle"}, NEW x, worker' = [worker EXCEPT ![w].pc = l, ![w].total = x], phase' = phase
      PROVE StillBusy(w)
  <2>1. Moved(w, l, v.seeds, v.seed, v.weight, x, v.verdict)
    BY <1>0, <1>5, WorkerUpdates, Zenon
  <2> QED
    BY <1>0, <1>5, <2>1, MovedBusy, Zenon
<1>6. ASSUME NEW l \in Labels \ {"idle"}, NEW x, worker' = [worker EXCEPT ![w].pc = l, ![w].seeds = x], phase' = phase
      PROVE StillBusy(w)
  <2>1. Moved(w, l, x, v.seed, v.weight, v.total, v.verdict)
    BY <1>0, <1>6, WorkerUpdates, Zenon
  <2> QED
    BY <1>0, <1>6, <2>1, MovedBusy, Zenon
<1>7. ASSUME NEW l \in Labels \ {"idle"}, NEW x, NEW y,
             worker' = [worker EXCEPT ![w].pc = l, ![w].seed = x, ![w].seeds = y], phase' = phase
      PROVE StillBusy(w)
  <2>1. Moved(w, l, y, x, v.weight, v.total, v.verdict)
    BY <1>0, <1>7, WorkerUpdates, Zenon
  <2> QED
    BY <1>0, <1>7, <2>1, MovedBusy, Zenon
<1>8. \A l \in {"seed", "storeSeed", "weight", "askWeight", "putWeight", "total", "askTotal", "putTotal", "check"} :
         l \in Labels \ {"idle"}
  BY Zenon DEF Labels
<1>9. CASE Circulation(w)
  BY <1>2, <1>3, <1>8, <1>9, Zenon DEF Circulation
<1>10. CASE Seed(w)
  <2> DEFINE r == seedRound(v.round)
             hit == {i \in DOMAIN lastRoundSeed : r # 0 /\ lastRoundSeed[i].round = r}
             l == IF hit # {} THEN "weight" ELSE "storeSeed"
             sd == IF hit # {} THEN lastRoundSeed[CHOOSE i \in hit : TRUE].seed ELSE SeedOf(r)
             ss == IF hit # {} THEN << >> ELSE lastRoundSeed
  <2>1. worker' = [worker EXCEPT ![w].pc = l, ![w].seed = sd, ![w].seeds = ss] /\ phase' = phase
    BY <1>10, Zenon DEF Seed
  <2> HIDE DEF hit
  <2>2. l \in Labels \ {"idle"}
    BY <1>8, Zenon
  <2> HIDE DEF l, sd, ss
  <2>3. StillBusy(w)
    BY <1>7, <2>1, <2>2, Zenon
  <2> QED
    BY <1>1, <2>3, Zenon
<1>11. CASE StoreSeed(w)
  BY <1>6, <1>8, <1>11, Zenon DEF StoreSeed
<1>12. CASE Weight(w)
  BY <1>2, <1>3, <1>4, <1>8, <1>12, Zenon DEF Weight
<1>13. CASE WeightAnswered(w)
  BY <1>4, <1>8, <1>13, Zenon DEF WeightAnswered
<1>14. CASE PutWeight(w)
  BY <1>2, <1>8, <1>14, Zenon DEF PutWeight
<1>15. CASE TotalWeight(w)
  BY <1>2, <1>5, <1>8, <1>15, Zenon DEF TotalWeight
<1>16. CASE TotalAnswered(w)
  BY <1>5, <1>8, <1>16, Zenon DEF TotalAnswered
<1>17. CASE PutTotal(w)
  BY <1>2, <1>8, <1>17, Zenon DEF PutTotal
<1>18. CASE QueryFailed(w)
  BY <1>3, <1>18, Zenon DEF QueryFailed, StartFails
<1>19. CASE Check(w)
  BY <1>3, <1>19, Zenon DEF Check, Panics
<1>20. CASE QueryRefused(w)
  BY <1>20, Zenon DEF QueryRefused, Panics, StartFails
<1> QED
  BY <1>1, <1>9, <1>10, <1>11, <1>12, <1>13, <1>14, <1>15, <1>16, <1>17, <1>18, <1>19, <1>20, Zenon
     DEF MembershipStep

LEMMA MembershipStart ==
    ASSUME OracleInv, NEW w \in Procs, MembershipStep(w)
    PROVE  StartInv' /\ NoPanic'
<1>0. WorkersInv /\ DataInv /\ StartInv /\ NoPanic
  BY Zenon DEF OracleInv
<1>1. /\ worker[w].pc # "idle" /\ phase \in {"keys", "running"} /\ UNCHANGED <<daemon, unchecked>>
      /\ StillBusy(w) \/ StartFails(w) \/ Panics(w)
  BY MembershipShape, Zenon
<1>2. Aligned' <=> Aligned
  BY <1>1, Zenon DEF Aligned
<1>3. phase = "running" => worker[node].pc = "idle" /\ w # node
  BY <1>0, <1>1, Zenon DEF StartInv
<1>4. phase = "keys" => w = node
  BY <1>0, <1>1, Zenon DEF StartInv, Procs
<1>5. CASE StillBusy(w)
  <2>1. NoPanic'
    BY <1>0, <1>2, <1>5, Zenon DEF NoPanic, StillBusy
  <2>2. CASE w = node
    <3>1. phase' = "keys" /\ phase = "keys" /\ worker'[node].pc # "idle" /\ worker'[node].addr = worker[node].addr
      BY <1>1, <1>3, <1>5, <2>2, Zenon DEF StillBusy
    <3>2. \A x \in Workers \ {node} : worker'[x].pc = "idle"
      BY <1>0, <1>5, <2>2, <3>1, Zenon DEF StartInv, StillBusy, Procs
    <3>3. StartInv'
      BY <1>0, <1>1, <2>2, <3>1, <3>2, Zenon DEF StartInv
    <3> QED
      BY <2>1, <3>3, Zenon
  <2>3. CASE w # node
    <3>1. phase' = "running" /\ phase = "running" /\ worker'[node] = worker[node]
      BY <1>1, <1>4, <1>5, <2>3, Zenon DEF StillBusy, Procs
    <3>2. StartInv'
      BY <1>0, <1>1, <3>1, Zenon DEF StartInv
    <3> QED
      BY <2>1, <3>2, Zenon
  <2> QED
    BY <2>2, <2>3, Zenon
<1>6. CASE StartFails(w)
  <2>1. worker \in [Procs -> WorkerRecords] /\ Idle.pc = "idle"
    BY <1>0, Zenon DEF WorkersInv, Idle, Begin
  <2>2. w = node /\ phase = "keys" /\ phase' = "failed"
    BY <1>1, <1>3, <1>6, Zenon DEF StartFails
  <2>3. worker'[node].pc = "idle" /\ \A x \in Workers \ {node} : worker'[x] = worker[x]
    BY <1>6, <2>1, <2>2, Zenon DEF StartFails, Procs
  <2>4. StartInv'
    BY <1>0, <1>1, <2>2, <2>3, Zenon DEF StartInv
  <2> QED
    BY <2>2, <2>4, Zenon DEF NoPanic
<1>7. CASE Panics(w)
  <2> DEFINE v == worker[w]
             wt == daemon.weight[<<BalanceRound(v.round), v.addr>>]
             tt == daemon.total[<<BalanceRound(v.round), v.round>>]
  <2>1. /\ phase' = "panic" /\ UNCHANGED worker /\ WorkerInv(v, w, daemon)
        /\ \/ /\ v.pc = "check"
              /\ v.weight = 0 \/ v.total < v.weight \/ v.total < CommitteeSize
           \/ v.pc = "askWeight" /\ wt = 0 /\ w # node
           \/ v.pc = "askTotal" /\ tt = 0 /\ w # node
    BY <1>0, <1>1, <1>7, Zenon DEF Panics, Check, QueryRefused, At, WorkersInv, weightKey, totalKey
  <2>2. phase = "running" /\ w # node
    BY <1>1, <1>3, <1>4, <2>1, Zenon DEF WorkerInv
  <2>3. /\ v.addr \in Accounts /\ v.round \in VoteRounds /\ keyEligible(v.round, v.addr)
        /\ v.pc = "check" => v.weight = wt /\ v.total = tt
    BY <2>1, <2>2, Zenon DEF WorkerInv, Weighed, WeightIs, TotalIs
  <2>4. wt \in Nat /\ tt \in Nat /\ CommitteeSize \in Nat
    BY <1>0, <2>3, AnswerTypes, OracleAssumption, Zenon DEF DataInv
  <2>5. ~ Aligned
    <3>1. Aligned => wt > 0 /\ tt >= wt /\ tt >= CommitteeSize
      BY <2>3, Zenon DEF Aligned
    <3>2. wt = 0 \/ tt < wt \/ tt < CommitteeSize \/ tt = 0
      BY <2>1, <2>3, Zenon
    <3> HIDE DEF wt, tt
    <3> QED
      BY <2>4, <3>1, <3>2
  <2>6. NoPanic'
    BY <1>2, <2>5, Zenon DEF NoPanic
  <2>7. StartInv'
    BY <1>0, <1>1, <1>3, <2>1, <2>2, Zenon DEF StartInv
  <2> QED
    BY <2>6, <2>7, Zenon
<1> QED
  BY <1>1, <1>5, <1>6, <1>7, Zenon

LEMMA StartStep == ASSUME OracleInv, [Next]_vars PROVE StartInv' /\ NoPanic'
<1>0. WorkersInv /\ DataInv /\ StartInv /\ NoPanic
  BY Zenon DEF OracleInv
<1>1. node \in Procs /\ worker \in [Procs -> WorkerRecords] /\ WorkerInv(worker[node], node, daemon)
      /\ Workers \subseteq Procs
  BY <1>0, Zenon DEF WorkersInv, Procs
<1>2. UNCHANGED daemon => (Aligned' <=> Aligned)
  BY Zenon DEF Aligned
<1>3. CASE Ping
  BY <1>0, <1>2, <1>3, Zenon DEF Ping, StartInv, NoPanic
<1>4. CASE Identity
  BY <1>0, <1>2, <1>4, Zenon DEF Identity, StartInv, NoPanic
<1>5. CASE KeyWeighed
  <2> DEFINE v == worker[node]
  <2>1. /\ phase = "keys" /\ v.pc = "total" /\ UNCHANGED <<unchecked, daemon>>
        /\ phase' = IF v.weight = 0 THEN "failed" ELSE "keys"
        /\ worker' = [worker EXCEPT ![node] = Idle]
    BY <1>5, Zenon DEF KeyWeighed, At
  <2>2. /\ worker'[node].pc = "idle" /\ \A x \in Workers \ {node} : worker'[x] = worker[x]
    BY <1>1, <2>1, Zenon DEF Idle, Begin
  <2>3. v.round = StartRound /\ v.addr \in Accounts /\ v.weight = daemon.weight[<<BalanceRound(StartRound), v.addr>>]
    BY <1>1, <2>1, Zenon DEF WorkerInv, Weighed, WeightIs
  <2>4. v.weight \in Nat
    BY <1>0, <2>3, AnswerTypes, Zenon DEF DataInv
  <2>5. phase' # "failed" => v.weight > 0
    BY <2>1, <2>4
  <2>6. \A a \in LocalKeys \ unchecked : keyEligible(StartRound, a) =>
           daemon.weight[<<BalanceRound(StartRound), a>>] > 0 \/ v.addr = a
    BY <1>0, <2>1, Zenon DEF StartInv
  <2>7. phase' # "failed" => \A a \in LocalKeys \ unchecked : keyEligible(StartRound, a) =>
           daemon.weight[<<BalanceRound(StartRound), a>>] > 0
    BY <2>3, <2>5, <2>6, Zenon
  <2>8. phase' \in {"failed", "keys"}
    BY <2>1, Zenon
  <2> QED
    BY <1>0, <2>1, <2>2, <2>7, <2>8, Zenon DEF StartInv, NoPanic
<1>6. CASE StartAgreement
  BY <1>0, <1>2, <1>6, Zenon DEF StartAgreement, StartInv, NoPanic, At
<1>7. CASE DropRound \/ UNCHANGED vars
  BY <1>0, <1>2, <1>7, Zenon DEF DropRound, vars, StartInv, NoPanic
<1>8. ASSUME NEW a \in LocalKeys, ValidateKey(a) PROVE StartInv' /\ NoPanic'
  <2>1. /\ phase = "keys" /\ phase' = "keys" /\ worker[node].pc = "idle" /\ unchecked' = unchecked \ {a}
        /\ UNCHANGED daemon
    BY <1>8, Zenon DEF ValidateKey
  <2>2. CASE keyEligible(StartRound, a)
    <3> DEFINE u == Begin("weight", a, StartRound, "none")
    <3>1. worker' = [worker EXCEPT ![node] = u]
      BY <1>8, <2>2, Zenon DEF ValidateKey
    <3>2. u.pc = "weight" /\ u.addr = a
      BY Zenon DEF Begin
    <3> HIDE DEF u
    <3>3. /\ worker'[node].pc = "weight" /\ worker'[node].addr = a
          /\ \A x \in Workers \ {node} : worker'[x] = worker[x]
      BY <1>1, <3>1, <3>2, Zenon
    <3> QED
      BY <1>0, <2>1, <3>3, Zenon DEF StartInv, NoPanic
  <2>3. CASE ~ keyEligible(StartRound, a)
    <3>1. UNCHANGED worker
      BY <1>8, <2>3, Zenon DEF ValidateKey
    <3> QED
      BY <1>0, <2>1, <2>3, <3>1, Zenon DEF StartInv, NoPanic
  <2> QED
    BY <2>2, <2>3, Zenon
<1>9. ASSUME NEW w \in Workers, NEW a \in Accounts, NEW r \in VoteRounds, Verify(w, a, r)
      PROVE  StartInv' /\ NoPanic'
  <2>1. phase = "running" /\ phase' = "running" /\ w # node /\ UNCHANGED <<unchecked, daemon>>
    BY <1>9, Zenon DEF Verify
  <2>2. worker'[node] = worker[node]
    BY <1>1, <1>9, <2>1, Zenon DEF Verify
  <2> QED
    BY <1>0, <2>1, <2>2, Zenon DEF StartInv, NoPanic
<1>10. ASSUME NEW w \in Procs, MembershipStep(w) PROVE StartInv' /\ NoPanic'
  BY <1>10, MembershipStart, Zenon
<1> QED
  BY <1>3, <1>4, <1>5, <1>6, <1>7, <1>8, <1>9, <1>10, Zenon DEF Next, MembershipStep, Procs

----------------------------------------------------------------------------
(* The lists of the caches.                                                *)

\* A list that holds each key of D once.
Lists(l, D) ==
    /\ \A i, j \in DOMAIN l : l[i] = l[j] => i = j
    /\ {l[i] : i \in DOMAIN l} = D

LEMMA ListSize ==
    ASSUME NEW K, NEW l \in Seq(K), NEW D, Lists(l, D)
    PROVE  IsFiniteSet(D) /\ Cardinality(D) = Len(l)
<1>1. Len(l) \in Nat /\ DOMAIN l = 1 .. Len(l)
  OBVIOUS
<1>2. l \in Bijection(1 .. Len(l), D)
  <2>1. l \in [1 .. Len(l) -> D]
    BY <1>1 DEF Lists
  <2>2. \A a, b \in 1 .. Len(l) : l[a] = l[b] => a = b
    BY <1>1, Zenon DEF Lists
  <2>3. \A d \in D : \E a \in 1 .. Len(l) : l[a] = d
    BY <1>1, Zenon DEF Lists
  <2> QED
    BY <2>1, <2>2, <2>3, Zenon DEF Bijection, Injection, Surjection, IsInjective
<1>3. ExistsBijection(1 .. Len(l), D)
  BY <1>2, Zenon DEF ExistsBijection
<1>4. IsFiniteSet(1 .. Len(l)) /\ Cardinality(1 .. Len(l)) = Len(l)
  <2>1. Len(l) \in Int /\ 1 \in Int
    OBVIOUS
  <2>2. /\ IsFiniteSet(1 .. Len(l))
        /\ Cardinality(1 .. Len(l)) = IF 1 > Len(l) THEN 0 ELSE Len(l) - 1 + 1
    BY <2>1, FS_Interval, Zenon
  <2>3. (IF 1 > Len(l) THEN 0 ELSE Len(l) - 1 + 1) = Len(l)
    BY <1>1
  <2> QED
    BY <2>2, <2>3
<1> QED
  BY <1>3, <1>4, FS_Bijection, Zenon

LEMMA PushList ==
    ASSUME NEW K, NEW l \in Seq(K), NEW D, Lists(l, D), NEW k \in K, k \notin D
    PROVE  /\ <<k>> \o l \in Seq(K) /\ Len(<<k>> \o l) = Len(l) + 1
           /\ Lists(<<k>> \o l, D \cup {k})
<1> DEFINE m == <<k>> \o l
<1>0. Len(l) \in Nat /\ DOMAIN l = 1 .. Len(l)
  OBVIOUS
<1>1. m \in Seq(K) /\ Len(m) = Len(l) + 1 /\ DOMAIN m = 1 .. (Len(l) + 1)
  BY <1>0
<1>2. \A i \in 1 .. (Len(l) + 1) : m[i] = IF i = 1 THEN k ELSE l[i - 1]
  BY <1>0
<1> HIDE DEF m
<1>3. \A i \in 1 .. (Len(l) + 1) : i # 1 => i - 1 \in 1 .. Len(l) /\ l[i - 1] \in D
  BY <1>0 DEF Lists
<1>4. ASSUME NEW i \in 1 .. (Len(l) + 1), NEW j \in 1 .. (Len(l) + 1), m[i] = m[j] PROVE i = j
  <2>1. CASE i = 1 \/ j = 1
    BY <1>0, <1>2, <1>3, <1>4, <2>1, Zenon
  <2>2. CASE i # 1 /\ j # 1
    <3>1. l[i - 1] = l[j - 1] /\ i - 1 \in 1 .. Len(l) /\ j - 1 \in 1 .. Len(l)
      BY <1>2, <1>3, <1>4, <2>2, Zenon
    <3>2. i - 1 = j - 1
      BY <1>0, <3>1, Zenon DEF Lists
    <3> QED
      BY <3>2
  <2> QED
    BY <2>1, <2>2, Zenon
<1>5. {m[i] : i \in 1 .. (Len(l) + 1)} = D \cup {k}
  <2>1. ASSUME NEW i \in 1 .. (Len(l) + 1) PROVE m[i] \in D \cup {k}
    BY <1>2, <1>3, Zenon
  <2>2. ASSUME NEW d \in D PROVE \E i \in 1 .. (Len(l) + 1) : m[i] = d
    <3>1. PICK j \in 1 .. Len(l) : l[j] = d
      BY <1>0, Zenon DEF Lists
    <3>2. j + 1 \in 1 .. (Len(l) + 1) /\ j + 1 # 1 /\ (j + 1) - 1 = j
      BY <1>0
    <3> QED
      BY <1>2, <3>1, <3>2, Zenon
  <2>3. 1 \in 1 .. (Len(l) + 1) /\ m[1] = k
    BY <1>0, <1>2
  <2> QED
    BY <2>1, <2>2, <2>3, Zenon
<1>6. Lists(m, D \cup {k})
  BY <1>1, <1>4, <1>5, Zenon DEF Lists
<1> QED
  BY <1>1, <1>6, Zenon DEF m

LEMMA RemoveFromList ==
    ASSUME NEW K, NEW l \in Seq(K), NEW D, Lists(l, D), NEW i \in 1 .. Len(l), NEW m \in Seq(K),
           Len(m) = Len(l) - 1,
           \A j \in 1 .. Len(m) : m[j] = IF j < i THEN l[j] ELSE l[j + 1]
    PROVE  Lists(m, D \ {l[i]})
<1>0. Len(l) \in Nat /\ DOMAIN l = 1 .. Len(l) /\ DOMAIN m = 1 .. (Len(l) - 1)
  OBVIOUS
<1> DEFINE old(j) == IF j < i THEN j ELSE j + 1
<1>1. ASSUME NEW j \in 1 .. (Len(l) - 1) PROVE old(j) \in 1 .. Len(l) /\ old(j) # i /\ m[j] = l[old(j)]
  <2>1. CASE j < i
    BY <1>0, <2>1
  <2>2. CASE ~(j < i)
    BY <1>0, <2>2
  <2> QED
    BY <2>1, <2>2, Zenon
<1>2. \A a, b \in 1 .. (Len(l) - 1) : old(a) = old(b) => a = b
  BY <1>0
<1>3. \A a \in 1 .. Len(l) : a # i => \E b \in 1 .. (Len(l) - 1) : old(b) = a
  <2> SUFFICES ASSUME NEW a \in 1 .. Len(l), a # i PROVE \E b \in 1 .. (Len(l) - 1) : old(b) = a
    BY Zenon
  <2>1. CASE a < i
    BY <1>0, <2>1
  <2>2. CASE a > i
    <3>1. a - 1 \in 1 .. (Len(l) - 1) /\ old(a - 1) = a
      BY <1>0, <2>2
    <3> QED
      BY <3>1, Zenon
  <2> QED
    BY <1>0, <2>1, <2>2
<1> HIDE DEF old
<1>4. ASSUME NEW a \in 1 .. (Len(l) - 1), NEW b \in 1 .. (Len(l) - 1), m[a] = m[b] PROVE a = b
  <2>1. l[old(a)] = l[old(b)] /\ old(a) \in 1 .. Len(l) /\ old(b) \in 1 .. Len(l)
    BY <1>1, <1>4, Zenon
  <2>2. old(a) = old(b)
    BY <1>0, <2>1, Zenon DEF Lists
  <2> QED
    BY <1>2, <2>2, Zenon
<1>5. {m[j] : j \in 1 .. (Len(l) - 1)} = D \ {l[i]}
  <2>1. ASSUME NEW j \in 1 .. (Len(l) - 1) PROVE m[j] \in D \ {l[i]}
    <3>1. old(j) \in DOMAIN l /\ i \in DOMAIN l /\ old(j) # i /\ m[j] = l[old(j)]
      BY <1>0, <1>1, Zenon
    <3> QED
      BY <3>1, Zenon DEF Lists
  <2>2. ASSUME NEW d \in D, d # l[i] PROVE \E j \in 1 .. (Len(l) - 1) : m[j] = d
    <3>1. PICK a \in 1 .. Len(l) : l[a] = d
      BY <1>0, Zenon DEF Lists
    <3>2. PICK b \in 1 .. (Len(l) - 1) : old(b) = a
      BY <1>3, <2>2, <3>1, Zenon
    <3> QED
      BY <1>1, <3>1, <3>2, Zenon
  <2> QED
    BY <2>1, <2>2
<1> QED
  BY <1>0, <1>4, <1>5, Zenon DEF Lists

LEMMA ConcatFacts ==
    ASSUME NEW S, NEW s \in Seq(S), NEW t \in Seq(S)
    PROVE  s \o t \in Seq(S) /\ Len(s \o t) = Len(s) + Len(t)
  OBVIOUS

\* The list without its i-th key.
LEMMA CutFromList ==
    ASSUME NEW K, NEW l \in Seq(K), NEW i \in 1 .. Len(l)
    PROVE  LET m == SubSeq(l, 1, i - 1) \o SubSeq(l, i + 1, Len(l))
           IN  /\ m \in Seq(K) /\ Len(m) = Len(l) - 1
               /\ \A j \in 1 .. Len(m) : m[j] = IF j < i THEN l[j] ELSE l[j + 1]
<1> DEFINE a == SubSeq(l, 1, i - 1)
           b == SubSeq(l, i + 1, Len(l))
           m == a \o b
<1>0. Len(l) \in Nat /\ i \in Nat /\ i >= 1 /\ i <= Len(l)
  OBVIOUS
<1>3. a \in Seq(K) /\ Len(a) = i - 1 /\ \A j \in 1 .. (i - 1) : a[j] = l[j]
  BY <1>0
<1>4. b \in Seq(K) /\ Len(b) = Len(l) - i /\ \A j \in 1 .. (Len(l) - i) : b[j] = l[i + j]
  BY <1>0
<1> HIDE DEF a, b
<1>5. m \in Seq(K) /\ Len(m) = Len(l) - 1
  <2>1. m \in Seq(K) /\ Len(m) = Len(a) + Len(b)
    BY <1>3, <1>4, ConcatFacts, Zenon
  <2> QED
    BY <1>0, <1>3, <1>4, <2>1
<1>6. \A j \in 1 .. (Len(l) - 1) : m[j] = IF j <= i - 1 THEN a[j] ELSE b[j - (i - 1)]
  BY <1>0, <1>3, <1>4
<1> HIDE DEF m
<1>7. ASSUME NEW j \in 1 .. Len(m) PROVE m[j] = IF j < i THEN l[j] ELSE l[j + 1]
  <2>1. CASE j < i
    BY <1>0, <1>3, <1>5, <1>6, <2>1
  <2>2. CASE ~(j < i)
    <3>1. j - (i - 1) \in 1 .. (Len(l) - i) /\ i + (j - (i - 1)) = j + 1 /\ ~(j <= i - 1) /\ j \in 1 .. (Len(l) - 1)
      BY <1>0, <1>5, <2>2
    <3>2. m[j] = b[j - (i - 1)]
      BY <1>6, <3>1, Zenon
    <3> QED
      BY <1>4, <2>2, <3>1, <3>2, Zenon
  <2> QED
    BY <2>1, <2>2, Zenon
<1> QED
  BY <1>5, <1>7, Zenon DEF m, a, b

LEMMA FrontList ==
    ASSUME NEW K, NEW l \in Seq(K), NEW D, Lists(l, D), NEW k \in D
    PROVE  /\ MoveToFront(l, k) \in Seq(K) /\ Len(MoveToFront(l, k)) = Len(l)
           /\ Lists(MoveToFront(l, k), D)
<1> DEFINE i == CHOOSE j \in 1 .. Len(l) : l[j] = k
           m == SubSeq(l, 1, i - 1) \o SubSeq(l, i + 1, Len(l))
<1>0. Len(l) \in Nat /\ DOMAIN l = 1 .. Len(l)
  OBVIOUS
<1>1. i \in 1 .. Len(l) /\ l[i] = k
  <2>1. \E j \in 1 .. Len(l) : l[j] = k
    BY <1>0, Zenon DEF Lists
  <2> QED
    BY <2>1, Zenon
<1>2. MoveToFront(l, k) = <<k>> \o m
  BY Zenon DEF MoveToFront
<1> HIDE DEF i
<1>3. /\ m \in Seq(K) /\ Len(m) = Len(l) - 1
      /\ \A j \in 1 .. Len(m) : m[j] = IF j < i THEN l[j] ELSE l[j + 1]
  BY <1>1, CutFromList, Zenon
<1> HIDE DEF m
<1>4. Lists(m, D \ {k})
  <2>1. Lists(m, D \ {l[i]})
    BY <1>1, <1>3, RemoveFromList, Zenon
  <2> QED
    BY <1>1, <2>1, Zenon
<1>5. k \in K /\ k \notin D \ {k} /\ (D \ {k}) \cup {k} = D
  BY <1>0, <1>1
<1>6. <<k>> \o m \in Seq(K) /\ Len(<<k>> \o m) = Len(m) + 1 /\ Lists(<<k>> \o m, (D \ {k}) \cup {k})
  BY <1>3, <1>4, <1>5, PushList, Zenon
<1>7. Len(m) + 1 = Len(l)
  BY <1>0, <1>3
<1> QED
  BY <1>2, <1>5, <1>6, <1>7, Zenon

LEMMA DropList ==
    ASSUME NEW K, NEW l \in Seq(K), NEW D, Lists(l, D), l # << >>
    PROVE  LET m == SubSeq(l, 1, Len(l) - 1)
           IN  m \in Seq(K) /\ Len(m) = Len(l) - 1 /\ Lists(m, D \ {l[Len(l)]})
<1> DEFINE m == SubSeq(l, 1, Len(l) - 1)
<1>0. Len(l) \in Nat \ {0} /\ DOMAIN l = 1 .. Len(l)
  OBVIOUS
<1>1. m \in Seq(K) /\ Len(m) = Len(l) - 1 /\ \A j \in 1 .. (Len(l) - 1) : m[j] = l[j]
  BY <1>0
<1> HIDE DEF m
<1>2. Len(l) \in 1 .. Len(l) /\ \A j \in 1 .. Len(m) : m[j] = IF j < Len(l) THEN l[j] ELSE l[j + 1]
  BY <1>0, <1>1
<1>3. Lists(m, D \ {l[Len(l)]})
  BY <1>1, <1>2, RemoveFromList, Zenon
<1> QED
  BY <1>1, <1>3, Zenon DEF m

\* A cache with at most n keys: the map and the list agree.
CacheInv(c, keys, n) ==
    /\ c = [items |-> c.items, list |-> c.list]
    /\ c.items \in [DOMAIN c.items -> Nat] /\ DOMAIN c.items \subseteq keys
    /\ c.list \in Seq(keys) /\ Lists(c.list, DOMAIN c.items) /\ Len(c.list) <= n

LEMMA CacheFields ==
    ASSUME NEW keys, NEW n \in Nat, NEW D, NEW f \in [D -> Nat], D \subseteq keys,
           NEW l \in Seq(keys), Lists(l, D), Len(l) <= n
    PROVE  CacheInv([items |-> f, list |-> l], keys, n)
<1> DEFINE c == [items |-> f, list |-> l]
<1>1. c.items = f /\ c.list = l /\ DOMAIN f = D
  BY Zenon
<1>2. c = [items |-> c.items, list |-> c.list]
  BY <1>1, Zenon
<1> HIDE DEF c
<1>3. CacheInv(c, keys, n)
  BY <1>1, <1>2, Zenon DEF CacheInv
<1> QED
  BY <1>3, Zenon DEF c

LEMMA TouchKeeps ==
    ASSUME NEW keys, NEW n \in Nat, NEW c, CacheInv(c, keys, n), NEW k \in DOMAIN c.items
    PROVE  CacheInv(Touch(c, k), keys, n)
<1> DEFINE l == MoveToFront(c.list, k)
<1>1. /\ c = [items |-> c.items, list |-> c.list] /\ c.items \in [DOMAIN c.items -> Nat]
      /\ DOMAIN c.items \subseteq keys /\ c.list \in Seq(keys)
      /\ Lists(c.list, DOMAIN c.items) /\ Len(c.list) <= n
  BY Zenon DEF CacheInv
<1>2. l \in Seq(keys) /\ Len(l) = Len(c.list) /\ Lists(l, DOMAIN c.items)
  BY <1>1, FrontList, Zenon
<1>3. Touch(c, k) = [items |-> c.items, list |-> l]
  BY <1>1 DEF Touch
<1>4. Len(l) <= n
  BY <1>1, <1>2, Zenon
<1> HIDE DEF l
<1>5. CacheInv([items |-> c.items, list |-> l], keys, n)
  BY <1>1, <1>2, <1>4, CacheFields, Zenon
<1> QED
  BY <1>3, <1>5, Zenon

LEMMA PutKeeps ==
    ASSUME NEW keys, NEW n \in Nat \ {0}, NEW c, CacheInv(c, keys, n), NEW k \in keys, NEW v \in Nat
    PROVE  CacheInv(Put(c, k, v, n), keys, n)
<1> DEFINE f == c.items
           l == c.list
           D == DOMAIN c.items
<1>1. /\ c = [items |-> f, list |-> l] /\ f \in [D -> Nat] /\ D \subseteq keys
      /\ l \in Seq(keys) /\ Lists(l, D) /\ Len(l) <= n
  BY Zenon DEF CacheInv
<1>2. CASE k \in D
  <2> DEFINE e == [items |-> [f EXCEPT ![k] = v], list |-> l]
  <2>1. [c EXCEPT !.items[k] = v] = e
    <3>1. ASSUME NEW g, NEW m
          PROVE  [[items |-> g, list |-> m] EXCEPT !.items[k] = v] = [items |-> [g EXCEPT ![k] = v], list |-> m]
      OBVIOUS
    <3>2. [[items |-> f, list |-> l] EXCEPT !.items[k] = v] = e
      BY <3>1, Zenon
    <3> QED
      BY <1>1, <3>2, Zenon
  <2>2. [f EXCEPT ![k] = v] \in [D -> Nat]
    BY <1>1, <1>2, Zenon
  <2>3. CacheInv(e, keys, n)
    BY <1>1, <2>2, CacheFields, Zenon
  <2>4. k \in DOMAIN e.items
    BY <1>2, <2>2, Zenon
  <2>5. Put(c, k, v, n) = Touch(e, k)
    BY <1>2, <2>1, Zenon DEF Put
  <2> HIDE DEF e
  <2> QED
    BY <2>3, <2>4, <2>5, TouchKeeps, Zenon
<1>3. CASE k \notin D
  <2>1. ASSUME NEW E, NEW g \in [E -> Nat], E \subseteq keys, k \notin E,
               NEW m \in Seq(keys), Lists(m, E), Len(m) < n
        PROVE  CacheInv(PushFront([items |-> g, list |-> m], k, v), keys, n)
    <3> DEFINE h == [x \in E \cup {k} |-> IF x = k THEN v ELSE g[x]]
    <3>1. PushFront([items |-> g, list |-> m], k, v) = [items |-> h, list |-> <<k>> \o m]
      BY <2>1, Zenon DEF PushFront
    <3>2. h \in [E \cup {k} -> Nat] /\ E \cup {k} \subseteq keys
      BY <2>1, Zenon
    <3>3. <<k>> \o m \in Seq(keys) /\ Len(<<k>> \o m) = Len(m) + 1 /\ Lists(<<k>> \o m, E \cup {k})
      BY <2>1, PushList, Zenon
    <3>4. Len(m) + 1 <= n
      BY <2>1
    <3>5. Len(<<k>> \o m) <= n
      BY <3>3, <3>4, Zenon
    <3> HIDE DEF h
    <3>6. CacheInv([items |-> h, list |-> <<k>> \o m], keys, n)
      BY <3>2, <3>3, <3>5, CacheFields, Zenon
    <3> QED
      BY <3>1, <3>6, Zenon
  <2>2. Cardinality(D) = Len(l)
    BY <1>1, ListSize, Zenon
  <2>3. CASE Cardinality(D) >= n
    <3> DEFINE m == SubSeq(l, 1, Len(l) - 1)
               E == D \ {l[Len(l)]}
               g == [x \in E |-> f[x]]
    <3>1. Len(l) = n /\ l # << >>
      BY <1>1, <2>2, <2>3
    <3>2. m \in Seq(keys) /\ Len(m) = Len(l) - 1 /\ Lists(m, E)
      BY <1>1, <3>1, DropList, Zenon
    <3>3. Evict(c) = [items |-> g, list |-> m]
      BY Zenon DEF Evict
    <3>4. g \in [E -> Nat] /\ E \subseteq keys /\ k \notin E
      BY <1>1, <1>3, Zenon
    <3>5. Put(c, k, v, n) = PushFront([items |-> g, list |-> m], k, v)
      BY <1>3, <2>3, <3>3, Zenon DEF Put
    <3>6. Len(m) < n
      BY <3>1, <3>2
    <3> HIDE DEF m, E, g
    <3>7. CacheInv(PushFront([items |-> g, list |-> m], k, v), keys, n)
      BY <2>1, <3>2, <3>4, <3>6, Zenon
    <3> QED
      BY <3>5, <3>7, Zenon
  <2>4. CASE ~(Cardinality(D) >= n)
    <3>1. Put(c, k, v, n) = PushFront([items |-> f, list |-> l], k, v)
      BY <1>1, <1>3, <2>4, Zenon DEF Put
    <3>2. Len(l) < n
      BY <1>1, <2>2, <2>4
    <3> QED
      BY <1>1, <1>3, <2>1, <3>1, <3>2, Zenon
  <2> QED
    BY <2>3, <2>4, Zenon
<1> QED
  BY <1>2, <1>3, Zenon

ListsInv ==
    /\ unchecked \subseteq LocalKeys
    /\ CacheInv(weightCache, WeightKeys, WeightCacheCapacity)
    /\ CacheInv(totalWeightCache, TotalKeys, TotalWeightCacheCapacity)

LEMMA EmptyKeeps == ASSUME NEW keys, NEW n \in Nat PROVE CacheInv(EmptyCache, keys, n)
<1>1. << >> \in [{} -> Nat] /\ DOMAIN << >> = {} /\ << >> \in Seq(keys) /\ Len(<< >>) = 0
  OBVIOUS
<1>2. Lists(<< >>, {})
  BY <1>1, Zenon DEF Lists
<1>3. Len(<< >>) <= n /\ {} \subseteq keys
  BY <1>1
<1>4. CacheInv([items |-> << >>, list |-> << >>], keys, n)
  BY <1>1, <1>2, <1>3, CacheFields, Zenon
<1> QED
  BY <1>4, Zenon DEF EmptyCache

LEMMA ListsStep == ASSUME OracleInv, ListsInv, [Next]_vars PROVE ListsInv'
<1>0. /\ WorkersInv /\ DataInv
      /\ WeightCacheCapacity \in Nat \ {0} /\ TotalWeightCacheCapacity \in Nat \ {0}
      /\ WeightCacheCapacity \in Nat /\ TotalWeightCacheCapacity \in Nat
  BY OracleAssumption, Zenon DEF OracleInv
<1>1. ASSUME NEW w \in Procs, PutWeight(w) PROVE ListsInv'
  <2>1. worker[w].pc = "putWeight" /\ WorkerInv(worker[w], w, daemon) /\ worker[w].weight \in Nat
    BY <1>0, <1>1, WorkerFields, Zenon DEF PutWeight, At
  <2>2. weightKey(w) \in WeightKeys
    <3>1. worker[w].addr \in Accounts /\ worker[w].round \in VoteRounds \cup {StartRound}
      BY <2>1, Zenon DEF WorkerInv
    <3> QED
      BY <3>1, KeyTypes, Zenon DEF weightKey
  <2>3. CacheInv(weightCache', WeightKeys, WeightCacheCapacity)
    BY <1>0, <1>1, <2>1, <2>2, PutKeeps, Zenon DEF PutWeight, ListsInv
  <2> QED
    BY <1>1, <2>3, Zenon DEF PutWeight, ListsInv
<1>2. ASSUME NEW w \in Procs, PutTotal(w) PROVE ListsInv'
  <2>1. worker[w].pc = "putTotal" /\ WorkerInv(worker[w], w, daemon) /\ worker[w].total \in Nat
    BY <1>0, <1>2, WorkerFields, Zenon DEF PutTotal, At
  <2>2. worker[w].round \in VoteRounds
    BY <2>1, Zenon DEF WorkerInv
  <2>3. totalKey(w) \in TotalKeys
    BY <2>2, Zenon DEF totalKey, TotalKeys
  <2>4. CacheInv(totalWeightCache', TotalKeys, TotalWeightCacheCapacity)
    BY <1>0, <1>2, <2>1, <2>3, PutKeeps, Zenon DEF PutTotal, ListsInv
  <2> QED
    BY <1>2, <2>4, Zenon DEF PutTotal, ListsInv
<1>3. ASSUME NEW w \in Procs, Weight(w) PROVE ListsInv'
  <2>1. \/ weightCache' = weightCache
        \/ weightKey(w) \in DOMAIN weightCache.items /\ weightCache' = Touch(weightCache, weightKey(w))
    BY <1>3, Zenon DEF Weight
  <2>2. CacheInv(weightCache', WeightKeys, WeightCacheCapacity)
    BY <1>0, <2>1, TouchKeeps, Zenon DEF ListsInv
  <2> QED
    BY <1>3, <2>2, Zenon DEF Weight, ListsInv
<1>4. ASSUME NEW w \in Procs, TotalWeight(w) PROVE ListsInv'
  <2>1. \/ totalWeightCache' = totalWeightCache
        \/ /\ totalKey(w) \in DOMAIN totalWeightCache.items
           /\ totalWeightCache' = Touch(totalWeightCache, totalKey(w))
    BY <1>4, Zenon DEF TotalWeight
  <2>2. CacheInv(totalWeightCache', TotalKeys, TotalWeightCacheCapacity)
    BY <1>0, <2>1, TouchKeeps, Zenon DEF ListsInv
  <2> QED
    BY <1>4, <2>2, Zenon DEF TotalWeight, ListsInv
<1>5. ASSUME UNCHANGED caches, unchecked' \subseteq unchecked PROVE ListsInv'
  BY <1>5, Zenon DEF ListsInv, caches
<1>6. ASSUME NEW w \in Procs, MembershipStep(w) PROVE ListsInv'
  <2>1. CASE Circulation(w) \/ Seed(w) \/ StoreSeed(w) \/ WeightAnswered(w) \/ TotalAnswered(w)
             \/ QueryFailed(w) \/ QueryRefused(w) \/ Check(w)
    <3>1. UNCHANGED <<unchecked, caches>>
      BY <2>1, Zenon DEF Circulation, Seed, StoreSeed, WeightAnswered, TotalAnswered, QueryFailed,
                         QueryRefused, Check
    <3> QED
      BY <1>5, <3>1, Zenon
  <2> QED
    BY <1>1, <1>2, <1>3, <1>4, <1>6, <2>1, Zenon DEF MembershipStep
<1>7. CASE \/ Ping \/ Identity \/ KeyWeighed \/ StartAgreement \/ DropRound \/ UNCHANGED vars
           \/ \E a \in LocalKeys : ValidateKey(a)
           \/ \E w \in Workers, a \in Accounts, r \in VoteRounds : Verify(w, a, r)
  <2>1. UNCHANGED caches /\ unchecked' \subseteq unchecked
    BY <1>7, Zenon DEF Ping, Identity, KeyWeighed, StartAgreement, DropRound, vars, ValidateKey, Verify
  <2> QED
    BY <1>5, <2>1, Zenon
<1> QED
  BY <1>6, <1>7, Zenon DEF Next, MembershipStep, Procs

----------------------------------------------------------------------------
\* The inductive invariant of the oracle client, the start-up checks and the
\* verification workers.
THEOREM OracleInvariant == Spec => []OracleInv
<1>1. ASSUME OracleInv, [Next]_vars PROVE OracleInv'
  BY <1>1, WorkersStep, DataStep, StartStep, Zenon DEF OracleInv
<1> QED
  BY OracleInit, <1>1, PTL DEF Spec

\* The caches of Client never hold anything but the daemon's answer for the
\* key, for every capacity and every number of goroutines.
THEOREM CachesTell == Spec => []CachesTrue
<1>1. OracleInv => CachesTrue
  BY Zenon DEF OracleInv, DataInv, CacheTrue, CachesTrue
<1> QED
  BY <1>1, OracleInvariant, PTL

\* unauthenticatedVote.verify: a counted vote was weighed with the seed, the
\* weight and the total of its own round.
THEOREM CountedTruly == Spec => []VerifiedTruly
<1>1. OracleInv => VerifiedTruly
  BY Zenon DEF OracleInv, WorkersInv, WorkerInv, VerifiedTruly, SeedIs, WeightIs, TotalIs, Procs
<1> QED
  BY <1>1, OracleInvariant, PTL

\* membership and Credential.Verify: a daemon that weighs the eligible
\* participants and counts them in the total never makes a node panic.
THEOREM AlignedNeverPanics == Spec => []NoPanic
<1>1. OracleInv => NoPanic
  BY Zenon DEF OracleInv
<1> QED
  BY <1>1, OracleInvariant, PTL

\* initializeWeightOracle: a node that runs has checked the identity of its
\* daemon and the weight of each of its eligible keys.
THEOREM StartIsChecked == Spec => []StartedSound
<1>1. OracleInv => StartedSound
  BY Zenon DEF OracleInv, StartInv, StartedSound
<1> QED
  BY <1>1, OracleInvariant, PTL

\* lruCache: the list and the map of a cache hold the same keys, each once, and never more
\* than the capacity, for every capacity and every number of goroutines that miss, get and
\* put concurrently.
THEOREM CachesStayConsistent == Spec => []CachesConsistent
<1>1. Init => ListsInv
  BY EmptyKeeps, OracleAssumption DEF Init, ListsInv
<1>2. ASSUME OracleInv, ListsInv, [Next]_vars PROVE ListsInv'
  BY <1>2, ListsStep, Zenon
<1>3. OracleInv /\ ListsInv => CachesConsistent
  <2> SUFFICES ASSUME OracleInv, ListsInv PROVE CachesConsistent
    BY Zenon
  <2>1. CacheOK(weightCache, WeightKeys) /\ Consistent(weightCache, WeightCacheCapacity)
    BY Zenon DEF ListsInv, CacheInv, CacheOK, Consistent, Lists
  <2>2. CacheOK(totalWeightCache, TotalKeys) /\ Consistent(totalWeightCache, TotalWeightCacheCapacity)
    BY Zenon DEF ListsInv, CacheInv, CacheOK, Consistent, Lists
  <2>3. ASSUME NEW w \in Workers \cup {node}
        PROVE  /\ worker[w].pc \in Labels /\ worker[w].verdict \in Verdicts
               /\ worker[w].pc # "idle" =>
                     worker[w].addr \in Accounts /\ worker[w].round \in VoteRounds \cup {StartRound}
               /\ worker[w].weight \in Nat /\ worker[w].total \in Nat
    BY Zenon DEF OracleInv, WorkersInv, WorkerInv, WorkerRecords, Procs
  <2>4. TypeOK
    BY <2>1, <2>2, <2>3, Zenon DEF OracleInv, DataInv, StartInv, ListsInv, TypeOK, Labels, Verdicts
  <2> QED
    BY <2>1, <2>2, <2>4, Zenon DEF CachesConsistent
<1> QED
  BY <1>1, <1>2, <1>3, OracleInvariant, PTL DEF Spec
====
