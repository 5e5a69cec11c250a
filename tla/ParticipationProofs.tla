------------------------ MODULE ParticipationProofs ------------------------
(***************************************************************************)
(* Participation keeps its four invariants, for any accounts, nodes,       *)
(* weights, intervals and bounds that meet its assumptions.                *)
(*                                                                         *)
(* WeighedInv: an account that may be found absent was online in every     *)
(* snapshot since it last registered keys, because neither a proposal nor  *)
(* a heartbeat gives back the eligibility a suspension took.  FreeInv: who *)
(* has heartbeat for free was seen since the challenge.  HeartInv counts:  *)
(* an account that is still due has cost a miss in every round since       *)
(* heartbeats became free (Paid), and a service keeps quiet only while a   *)
(* heartbeat of its own waits in the pool (Remembers).                     *)
(***************************************************************************)
EXTENDS Participation, TLAPS

----------------------------------------------------------------------------
(* Challenge rounds are the multiples of the interval.                     *)

\* Division by the interval.
LEMMA DivMod ==
    ASSUME NEW n \in Nat, NEW C \in Nat \ {0}
    PROVE  \E q \in Nat, m \in 0 .. (C - 1) : n = C * q + m /\ m = n % C
<1>1. n \div C \in Nat
  OBVIOUS
<1>2. n % C \in 0 .. (C - 1)
  OBVIOUS
<1>3. n = C * (n \div C) + (n % C)
  OBVIOUS
<1> QED
  BY <1>1, <1>2, <1>3, Zenon

\* A multiple of C strictly between -C and C is 0.
LEMMA NoMultiple ==
    ASSUME NEW C \in Nat \ {0}, NEW k \in Int, C * k < C, 0 - C < C * k
    PROVE  C * k = 0
<1>1. k < 1
  OBVIOUS
<1>2. k > -1
  OBVIOUS
<1>3. k = 0
  BY <1>1, <1>2
<1> QED
  BY <1>3


\* The last multiple of C up to n + 1, when n + 1 is none.
LEMMA SameMultiple ==
    ASSUME NEW n \in Nat, NEW C \in Nat \ {0}, (n + 1) % C # 0
    PROVE  (n + 1) - ((n + 1) % C) = n - (n % C)
<1>0. n + 1 \in Nat
  OBVIOUS
<1>1. PICK q \in Nat, m \in 0 .. (C - 1) : n = C * q + m /\ m = n % C
  BY DivMod, Zenon
<1>2. PICK q2 \in Nat, m2 \in 0 .. (C - 1) : n + 1 = C * q2 + m2 /\ m2 = (n + 1) % C
  BY <1>0, DivMod, Zenon
<1>3. C * (q2 - q) = C * q2 - C * q
  OBVIOUS
<1>4. C * q \in Int /\ C * q2 \in Int /\ q2 - q \in Int
  OBVIOUS
<1>5. C * (q2 - q) = m + 1 - m2
  BY <1>1, <1>2, <1>3, <1>4
<1>6. m2 # 0
  BY <1>2, Zenon
<1>7. C * (q2 - q) < C /\ 0 - C < C * (q2 - q)
  BY <1>5, <1>6
<1>8. C * (q2 - q) = 0
  BY <1>4, <1>7, NoMultiple
<1>9. (n + 1) - m2 = n - m
  BY <1>5, <1>8
<1> QED
  BY <1>1, <1>2, <1>9, Zenon

\* And when it is one.
LEMMA NextMultiple ==
    ASSUME NEW n \in Nat, NEW C \in Nat \ {0}, (n + 1) % C = 0
    PROVE  n - (n % C) = n + 1 - C
<1>0. n + 1 \in Nat
  OBVIOUS
<1>1. PICK q \in Nat, m \in 0 .. (C - 1) : n = C * q + m /\ m = n % C
  BY DivMod, Zenon
<1>2. PICK q2 \in Nat, m2 \in 0 .. (C - 1) : n + 1 = C * q2 + m2 /\ m2 = (n + 1) % C
  BY <1>0, DivMod, Zenon
<1>3. C * (q2 - q - 1) = C * q2 - C * q - C
  OBVIOUS
<1>4. C * q \in Int /\ C * q2 \in Int /\ q2 - q - 1 \in Int
  OBVIOUS
<1>6. m2 = 0
  BY <1>2, Zenon
<1>5. C * (q2 - q - 1) = m + 1 - C
  <2> DEFINE X == C * q
             Y == C * q2
             Z == C * (q2 - q - 1)
  <2>1. Z = Y - X - C /\ X \in Int /\ Y \in Int
    BY <1>3, <1>4
  <2>2. n = X + m /\ n + 1 = Y + 0
    BY <1>1, <1>2, <1>6, Zenon
  <2> HIDE DEF X, Y, Z
  <2>3. Z = m + 1 - C
    BY <2>1, <2>2
  <2> QED
    BY <2>3 DEF Z
<1>7. C * (q2 - q - 1) < C /\ 0 - C < C * (q2 - q - 1)
  BY <1>5
<1>8. C * (q2 - q - 1) = 0
  BY <1>4, <1>7, NoMultiple
<1>9. n - m = n + 1 - C
  BY <1>5, <1>8
<1> QED
  BY <1>1, <1>9, Zenon

\* The numbers a proof computes with.
LEMMA Numbers ==
    /\ ChallengeInterval \in Nat \ {0} /\ ChallengeGracePeriod \in Nat \ {0}
    /\ ChallengeGracePeriod \div 2 \in Nat
    /\ 2 * ChallengeGracePeriod <= ChallengeInterval
    /\ hbLifetime \in Nat \ {0} /\ hbLifetime <= ChallengeGracePeriod
    /\ MaxMissed \in Nat /\ MaxMissed + (ChallengeGracePeriod \div 2) + 1 < ChallengeGracePeriod
  BY ParticipationAssumption, HeartbeatAssumption

\* A challenge is not after the round it is asked for.
LEMMA ChallengeTypes ==
    ASSUME NEW r \in Nat
    PROVE  LastChallenge(r) \in Nat /\ LastChallenge(r) <= r
<1>1. PICK q \in Nat, m \in 0 .. (ChallengeInterval - 1) :
            r = ChallengeInterval * q + m /\ m = r % ChallengeInterval
  BY DivMod, Numbers, Zenon
<1>2. LastChallenge(r) = r - m
  BY <1>1, Zenon DEF LastChallenge
<1>3. ChallengeInterval * q \in Nat
  BY Numbers
<1> QED
  BY <1>1, <1>2, <1>3

\* Until the next challenge round the latest challenge stays.
LEMMA SameChallenge ==
    ASSUME NEW r \in Nat, (r + 1) % ChallengeInterval # 0
    PROVE  LastChallenge(r + 1) = LastChallenge(r)
  BY SameMultiple, Numbers, Zenon DEF LastChallenge

\* A challenge round is an interval after the challenge before.
LEMMA NewChallenge ==
    ASSUME NEW r \in Nat, (r + 1) % ChallengeInterval = 0
    PROVE  LastChallenge(r + 1) = r + 1 /\ LastChallenge(r) + ChallengeInterval = r + 1
<1>1. LastChallenge(r) = r + 1 - ChallengeInterval
  BY NextMultiple, Numbers, Zenon DEF LastChallenge
<1>2. LastChallenge(r + 1) = r + 1
  BY DEF LastChallenge
<1> QED
  BY <1>1, <1>2, Numbers

\* Before the first challenge round the latest challenge is 0.
LEMMA FoundChallenge ==
    ASSUME NEW r \in Nat, NEW from \in Nat, NEW to \in Nat
    PROVE  FindChallenge(r, from, to) = IF r > LastChallenge(r) + from /\ r <= LastChallenge(r) + to
                                        THEN LastChallenge(r) ELSE 0
<1>1. CASE r >= ChallengeInterval
  BY <1>1 DEF FindChallenge
<1>2. CASE ~(r >= ChallengeInterval)
  <2>1. r % ChallengeInterval = r
    BY <1>2, Numbers
  <2>2. LastChallenge(r) = 0
    BY <2>1 DEF LastChallenge
  <2> QED
    BY <1>2, <2>2 DEF FindChallenge
<1> QED
  BY <1>1, <1>2

\* The rounds in which a challenged account may heartbeat for free.
LEMMA Risky ==
    ASSUME NEW r \in Nat
    PROVE  ChRisky(r) = IF /\ r > LastChallenge(r) + (ChallengeGracePeriod \div 2)
                           /\ r <= LastChallenge(r) + ChallengeGracePeriod
                        THEN LastChallenge(r) ELSE 0
  BY FoundChallenge, Numbers DEF ChRisky

\* The rounds in which it may be suspended.
LEMMA Active ==
    ASSUME NEW r \in Nat
    PROVE  ChActive(r) = IF /\ r > LastChallenge(r) + ChallengeGracePeriod
                            /\ r <= LastChallenge(r) + 2 * ChallengeGracePeriod
                         THEN LastChallenge(r) ELSE 0
<1>1. 2 * ChallengeGracePeriod \in Nat
  BY Numbers
<1> QED
  BY <1>1, FoundChallenge, Numbers DEF ChActive

----------------------------------------------------------------------------
(* The inductive invariants.                                               *)

Heartbeats == [addr : Accounts, VoteID : Nat, FirstValid : Nat, LastValid : Nat]

TypeInv ==
    /\ round \in FirstRound .. LastRound
    /\ acct \in [Accounts -> Record] /\ mods \in [Accounts -> Record]
    /\ online \in [BalanceRound(round + 1) .. round -> [Accounts -> Nat]]
    /\ online[round] = OnlineData(acct)
    /\ challenged \subseteq Accounts /\ modified \subseteq Accounts /\ failed \subseteq Accounts
    /\ pool \subseteq Heartbeats /\ \A hb \in pool : hb.FirstValid <= round
    /\ seen \in [Nodes -> Nat] /\ \A n \in Nodes : seen[n] <= round
    /\ suppress \in [Nodes -> [Accounts -> Nat]]
    /\ keyregs \in Nat /\ missed \in 0 .. MaxMissed
    /\ free \in [Accounts -> Nat] /\ registered \in [Accounts -> Nat]

\* x was online in every snapshot since it last registered keys.
OnlineSince(x) == \A s \in DOMAIN online : s >= registered[x] => online[s][x] # 0

\* Being an eligible participant, in one record.
Counts(rec) == rec.Status = "Online" /\ rec.IncentiveEligible

\* The records are coherent, and an account that could be found absent was online since
\* it last registered keys.
WeighedInv == \A x \in Accounts : Coherent(mods[x]) /\ (Counts(mods[x]) => OnlineSince(x))

\* An account that has heartbeat for free since the challenge was seen since.
FreeInv ==
    \A x \in Accounts : free[x] = 0 \/ (free[x] = 1 /\ LastSeen(mods[x]) >= LastChallenge(round))

\* x has yet to answer the latest challenge, and its keys reach far enough.
Due(x) ==
    /\ x \in challenged
    /\ mods[x].Status = "Online" /\ mods[x].IncentiveEligible
    /\ LastSeen(mods[x]) < LastChallenge(round)
    /\ mods[x].VoteLastValid >= round + hbLifetime

Opened == LastChallenge(round) + (ChallengeGracePeriod \div 2) + 1
Closed == LastChallenge(round) + ChallengeGracePeriod

\* A heartbeat of x that the blocks after round, up to last, may take.
Pending(x, last) ==
    \E hb \in pool : /\ hb.addr = x /\ hb.VoteID = mods[x].VoteID
                     /\ hb.LastValid >= last

\* A record the block under evaluation changed is offline or was seen in this block.
Untouched(x) == mods[x] = acct[x] \/ mods[x].Status = "Offline" \/ LastSeen(mods[x]) > round

\* What a service remembers is about the latest challenge, and its heartbeat waits.
Remembers(n, x) ==
    /\ suppress[n][x] <= LastChallenge(round) + 2 * ChallengeGracePeriod
    /\ suppress[n][x] > round /\ Due(x) => Pending(x, suppress[n][x])

\* Every round that heartbeats were free in cost an account that is still due a miss.
Paid(n, x) ==
    Due(x) /\ round >= Opened =>
       /\ round <= Closed => missed >= round - Opened
       /\ round > Closed => missed >= Closed - Opened
       /\ seen[n] = round /\ round < Closed => missed > round - Opened \/ Pending(x, round + 1)

HeartInv ==
    /\ \A x \in Accounts : Untouched(x)
    /\ \A n \in Nodes : \A x \in Local[n] : Remembers(n, x) /\ Paid(n, x)
    /\ failed = {}

----------------------------------------------------------------------------
(* What the actions do to the records.                                     *)

\* The rounds as numbers.
LEMMA Rounds ==
    ASSUME TypeInv
    PROVE  /\ round \in Nat /\ round + 1 \in Nat /\ LastChallenge(round) \in Nat
           /\ LastChallenge(round) <= round
<1>1. round \in Nat /\ round + 1 \in Nat
  BY ParticipationAssumption DEF TypeInv
<1> QED
  BY <1>1, ChallengeTypes, Zenon

\* An account was last seen at its latest proposal or heartbeat.
LEMMA SeenTypes ==
    ASSUME NEW rec \in Record
    PROVE  /\ LastSeen(rec) \in Nat
           /\ LastSeen(rec) >= rec.LastProposed /\ LastSeen(rec) >= rec.LastHeartbeat
  BY DEF LastSeen, Record

\* A heartbeat: its account is seen in the round of the block.
LEMMA HeartbeatChanges ==
    ASSUME TypeInv, NEW hb \in pool, Heartbeat(hb)
    PROVE  /\ hb.addr \in Accounts /\ mods' \in [Accounts -> Record]
           /\ \A x \in Accounts \ {hb.addr} : mods'[x] = mods[x] /\ free'[x] = free[x]
           /\ LastSeen(mods'[hb.addr]) > round
           /\ Coherent(mods[hb.addr]) => Coherent(mods'[hb.addr])
           /\ mods'[hb.addr].Status = mods[hb.addr].Status
           /\ mods'[hb.addr].IncentiveEligible = mods[hb.addr].IncentiveEligible
           /\ free' \in [Accounts -> Nat] /\ free'[hb.addr] = free[hb.addr] + 1
<1> DEFINE a == hb.addr
<1>1. a \in Accounts /\ mods \in [Accounts -> Record] /\ free \in [Accounts -> Nat]
  BY Zenon DEF TypeInv, Heartbeats
<1>2. round \in Nat /\ round + 1 \in Nat
  BY Rounds, Zenon
<1>3. mods' = [mods EXCEPT ![a].LastHeartbeat = round + 1] /\ free' = [free EXCEPT ![a] = @ + 1]
  BY Zenon DEF Heartbeat
<1>4. /\ mods' \in [Accounts -> Record]
      /\ \A x \in Accounts \ {a} : mods'[x] = mods[x]
  BY <1>1, <1>2, <1>3, Zenon DEF Record
<1>5. /\ mods'[a].Status = mods[a].Status /\ mods'[a].VoteID = mods[a].VoteID
      /\ mods'[a].VoteLastValid = mods[a].VoteLastValid
      /\ mods'[a].IncentiveEligible = mods[a].IncentiveEligible
      /\ mods'[a].LastHeartbeat = round + 1
  BY <1>1, <1>2, <1>3, Zenon DEF Record
<1>6. LastSeen(mods'[a]) > round
  BY <1>1, <1>2, <1>4, <1>5, SeenTypes
<1>7. Coherent(mods[a]) => Coherent(mods'[a])
  BY <1>5, Zenon DEF Coherent, Suspended
<1>8. /\ free' \in [Accounts -> Nat] /\ free'[a] = free[a] + 1
      /\ \A x \in Accounts \ {a} : free'[x] = free[x]
  BY <1>1, <1>3
<1> QED
  BY <1>1, <1>4, <1>5, <1>6, <1>7, <1>8, Zenon

\* New keys: their account counts as seen, a lookback ahead.
LEMMA KeyregOnlineChanges ==
    ASSUME TypeInv, NEW x \in Accounts, NEW last \in KeyLasts, NEW fee \in BOOLEAN,
           KeyregOnline(x, last, fee)
    PROVE  /\ mods' \in [Accounts -> Record]
           /\ \A y \in Accounts \ {x} : mods'[y] = mods[y]
           /\ LastSeen(mods'[x]) > round
           /\ Coherent(mods'[x])
           /\ mods'[x].IncentiveEligible => fee \/ mods[x].IncentiveEligible
<1> DEFINE rec == [mods[x] EXCEPT !.Status = "Online", !.VoteID = keyregs + 2,
                        !.VoteLastValid = last, !.LastHeartbeat = round + 1 + Lookback,
                        !.IncentiveEligible = @ \/ fee]
<1>1. mods \in [Accounts -> Record] /\ mods[x] \in Record /\ keyregs \in Nat
  BY Zenon DEF TypeInv
<1>2. round \in Nat /\ last \in Nat /\ last > round + 1 /\ Lookback \in Nat \ {0}
  BY Rounds, ParticipationAssumption, Zenon DEF KeyregOnline
<1>3. mods' = [mods EXCEPT ![x] = rec]
  BY Zenon DEF KeyregOnline, Register
<1>4. rec.Status = "Online" /\ rec.VoteID = keyregs + 2 /\ rec.VoteLastValid = last
      /\ rec.LastHeartbeat = round + 1 + Lookback
  BY <1>1, Zenon DEF Record
<1>5. rec.IncentiveEligible = (mods[x].IncentiveEligible \/ fee)
  BY <1>1, Zenon DEF Record
<1>6. rec \in Record
  <2>1. mods[x].IncentiveEligible \in BOOLEAN
    BY <1>1, Zenon DEF Record
  <2>2. PICK e \in BOOLEAN : (mods[x].IncentiveEligible \/ fee) = e
    BY <2>1, Zenon
  <2>3. PICK k \in Nat, h \in Nat : k = keyregs + 2 /\ h = round + 1 + Lookback
    BY <1>1, <1>2
  <2>4. PICK m \in Record : m = mods[x]
    BY <1>1, Zenon
  <2>5. rec = [m EXCEPT !.Status = "Online", !.VoteID = k, !.VoteLastValid = last,
                        !.LastHeartbeat = h, !.IncentiveEligible = e]
    BY <2>2, <2>3, <2>4, Zenon
  <2>6. [m EXCEPT !.Status = "Online", !.VoteID = k, !.VoteLastValid = last,
                        !.LastHeartbeat = h, !.IncentiveEligible = e] \in Record
    BY <1>2, Zenon DEF Record
  <2> HIDE DEF rec
  <2> QED
    BY <2>5, <2>6, Zenon
<1> HIDE DEF rec
<1>7. mods'[x] = rec /\ mods' \in [Accounts -> Record]
  BY <1>1, <1>3, <1>6, Zenon
<1>8. LastSeen(rec) > round
  BY <1>2, <1>4, <1>6, SeenTypes
<1>9. Coherent(rec)
  BY <1>1, <1>2, <1>4 DEF Coherent, Suspended
<1> QED
  BY <1>1, <1>3, <1>5, <1>7, <1>8, <1>9, Zenon

\* Keys given up.
LEMMA KeyregOfflineChanges ==
    ASSUME TypeInv, NEW x \in Accounts, KeyregOffline(x)
    PROVE  /\ mods' \in [Accounts -> Record]
           /\ \A y \in Accounts \ {x} : mods'[y] = mods[y]
           /\ LastSeen(mods'[x]) = LastSeen(mods[x])
           /\ Coherent(mods'[x])
           /\ mods'[x].Status = "Offline"
<1> DEFINE rec == [mods[x] EXCEPT !.Status = "Offline", !.VoteID = 0, !.VoteLastValid = 0]
<1>1. mods \in [Accounts -> Record] /\ mods[x] \in Record
  BY Zenon DEF TypeInv
<1>2. mods' = [mods EXCEPT ![x] = rec]
  BY Zenon DEF KeyregOffline, Register
<1>3. /\ rec \in Record /\ rec.Status = "Offline" /\ rec.VoteID = 0
      /\ rec.LastProposed = mods[x].LastProposed /\ rec.LastHeartbeat = mods[x].LastHeartbeat
  BY <1>1, Zenon DEF Record
<1> HIDE DEF rec
<1>4. mods'[x] = rec /\ mods' \in [Accounts -> Record]
  BY <1>1, <1>2, <1>3, Zenon
<1>5. LastSeen(rec) = LastSeen(mods[x])
  BY <1>3, Zenon DEF LastSeen
<1>6. Coherent(rec)
  BY <1>3, Zenon DEF Coherent, Suspended
<1> QED
  BY <1>1, <1>2, <1>3, <1>4, <1>5, <1>6, Zenon

\* Resetting the expired, suspending the absent: who stays online is not changed.
Demotes(f, g) ==
    /\ g \in [Accounts -> Record]
    /\ \A x \in Accounts : /\ Coherent(f[x]) => Coherent(g[x])
                           /\ LastSeen(g[x]) = LastSeen(f[x])
                           /\ g[x].Status = "Online" => g[x] = f[x]

\* Expired accounts.
LEMMA ResetDemotes ==
    ASSUME NEW f \in [Accounts -> Record], NEW E
    PROVE  Demotes(f, resetExpiredOnlineAccountsParticipationKeys(f, E))
<1> DEFINE off(x) == [f[x] EXCEPT !.Status = "Offline", !.VoteID = 0, !.VoteLastValid = 0]
           g == resetExpiredOnlineAccountsParticipationKeys(f, E)
<1>1. ASSUME NEW x \in Accounts
      PROVE  /\ off(x) \in Record /\ off(x).Status = "Offline" /\ off(x).VoteID = 0
             /\ off(x).LastProposed = f[x].LastProposed
             /\ off(x).LastHeartbeat = f[x].LastHeartbeat
  <2>1. f[x] \in Record
    BY Zenon
  <2> QED
    BY <2>1, Zenon DEF Record
<1>2. g = [x \in Accounts |-> IF x \in E THEN off(x) ELSE f[x]]
  BY Zenon DEF resetExpiredOnlineAccountsParticipationKeys
<1> HIDE DEF off, g
<1>3. g \in [Accounts -> Record]
  BY <1>1, <1>2, Zenon
<1>4. ASSUME NEW x \in Accounts
      PROVE  /\ Coherent(f[x]) => Coherent(g[x])
             /\ LastSeen(g[x]) = LastSeen(f[x])
             /\ g[x].Status = "Online" => g[x] = f[x]
  <2>1. CASE x \in E
    <3>1. g[x] = off(x)
      BY <1>2, <2>1, Zenon
    <3> QED
      BY <1>1, <3>1, Zenon DEF Coherent, Suspended, LastSeen
  <2>2. CASE x \notin E
    BY <1>2, <2>2, Zenon
  <2> QED
    BY <2>1, <2>2, Zenon
<1> QED
  BY <1>3, <1>4, Zenon DEF Demotes, g

\* Absent accounts.
LEMMA SuspendDemotes ==
    ASSUME NEW f \in [Accounts -> Record], NEW A
    PROVE  Demotes(f, suspendAbsentAccounts(f, A))
<1> DEFINE off(x) == [f[x] EXCEPT !.Status = "Offline", !.IncentiveEligible = FALSE]
           g == suspendAbsentAccounts(f, A)
<1>1. ASSUME NEW x \in Accounts
      PROVE  /\ off(x) \in Record /\ off(x).Status = "Offline"
             /\ off(x).VoteID = f[x].VoteID /\ off(x).VoteLastValid = f[x].VoteLastValid
             /\ off(x).LastProposed = f[x].LastProposed
             /\ off(x).LastHeartbeat = f[x].LastHeartbeat
             /\ ~off(x).IncentiveEligible
  <2>1. f[x] \in Record
    BY Zenon
  <2> QED
    BY <2>1, Zenon DEF Record
<1>2. g = [x \in Accounts |-> IF x \in A THEN off(x) ELSE f[x]]
  BY Zenon DEF suspendAbsentAccounts
<1> HIDE DEF off, g
<1>3. g \in [Accounts -> Record]
  BY <1>1, <1>2, Zenon
<1>4. ASSUME NEW x \in Accounts
      PROVE  /\ Coherent(f[x]) => Coherent(g[x])
             /\ LastSeen(g[x]) = LastSeen(f[x])
             /\ g[x].Status = "Online" => g[x] = f[x]
  <2>1. CASE x \in A
    <3>1. g[x] = off(x)
      BY <1>2, <2>1, Zenon
    <3> QED
      BY <1>1, <3>1, Zenon DEF Coherent, Suspended, LastSeen
  <2>2. CASE x \notin A
    BY <1>2, <2>2, Zenon
  <2> QED
    BY <2>1, <2>2, Zenon
<1> QED
  BY <1>3, <1>4, Zenon DEF Demotes, g

\* Recording the proposer: a suspended account comes back, without its eligibility.
LEMMA ProposalRecorded ==
    ASSUME NEW f \in [Accounts -> Record], NEW p \in Accounts, NEW r \in Nat,
           NEW g, g = recordProposal(f, p, r)
    PROVE  /\ g \in [Accounts -> Record]
           /\ \A x \in Accounts \ {p} : g[x] = f[x]
           /\ LastSeen(g[p]) >= r
           /\ Coherent(f[p]) => Coherent(g[p])
           /\ Coherent(f[p]) /\ g[p].Status = "Online" /\ g[p].IncentiveEligible
                 => f[p].Status = "Online" /\ f[p].IncentiveEligible
<1> DEFINE st == IF Suspended(f[p]) THEN "Online" ELSE f[p].Status
<1>0. st \in {"Online", "Offline"}
  BY Zenon DEF Record
<1>1. g = [f EXCEPT ![p].LastProposed = r, ![p].Status = st]
  BY Zenon DEF recordProposal, Record
<1> HIDE DEF st
<1>2. g \in [Accounts -> Record] /\ \A x \in Accounts \ {p} : g[x] = f[x]
  <2> DEFINE rec == [f[p] EXCEPT !.LastProposed = r, !.Status = st]
  <2>1. PICK m \in Record : m = f[p]
    BY Zenon
  <2>2. [m EXCEPT !.LastProposed = r, !.Status = st] \in Record
    BY <1>0, Zenon DEF Record
  <2>3. rec \in Record
    BY <2>1, <2>2, Zenon
  <2>4. g = [f EXCEPT ![p] = rec]
    BY <1>1, Zenon DEF Record
  <2> HIDE DEF rec
  <2> QED
    BY <2>3, <2>4, Zenon
<1>3. /\ g[p].LastProposed = r /\ g[p].Status = st /\ g[p].VoteID = f[p].VoteID
      /\ g[p].VoteLastValid = f[p].VoteLastValid
      /\ g[p].IncentiveEligible = f[p].IncentiveEligible
  BY <1>1 DEF Record
<1>4. LastSeen(g[p]) >= r
  BY <1>2, <1>3, SeenTypes, Zenon
<1>5. Coherent(f[p]) => Coherent(g[p])
  BY <1>3, Zenon DEF Coherent, Suspended, st
<1>6. Coherent(f[p]) /\ g[p].Status = "Online" /\ g[p].IncentiveEligible
         => f[p].Status = "Online" /\ f[p].IncentiveEligible
  BY <1>3, Zenon DEF Coherent, st
<1> QED
  BY <1>2, <1>4, <1>5, <1>6, Zenon

\* The records at the end of a block.
LEMMA BlockChanges ==
    ASSUME TypeInv, NEW E, NEW A, NEW p \in Accounts, NEW r \in Nat,
           NEW recs, recs = recordProposal(Updated(E, A), p, r)
    PROVE  /\ recs \in [Accounts -> Record]
           /\ \A x \in Accounts : 
                /\ Coherent(mods[x]) => Coherent(recs[x])
                /\ x # p => LastSeen(recs[x]) = LastSeen(mods[x])
                /\ Coherent(mods[x]) /\ recs[x].Status = "Online" /\ recs[x].IncentiveEligible
                     => /\ mods[x].Status = "Online" /\ mods[x].IncentiveEligible
                        /\ x # p => recs[x] = mods[x]
           /\ LastSeen(recs[p]) >= r
<1> DEFINE f == resetExpiredOnlineAccountsParticipationKeys(mods, E)
           g == suspendAbsentAccounts(f, A)
<1>1. mods \in [Accounts -> Record]
  BY Zenon DEF TypeInv
<1>2. Demotes(mods, f)
  BY <1>1, ResetDemotes, Zenon
<1>3. Demotes(f, g)
  BY <1>2, SuspendDemotes, Zenon DEF Demotes
<1>4. recs = recordProposal(g, p, r)
  BY Zenon DEF Updated
<1> HIDE DEF f, g
<1>5. g \in [Accounts -> Record]
  BY <1>3, Zenon DEF Demotes
<1>6. /\ recs \in [Accounts -> Record]
      /\ \A x \in Accounts \ {p} : recs[x] = g[x]
      /\ LastSeen(recs[p]) >= r
      /\ Coherent(g[p]) => Coherent(recs[p])
      /\ Coherent(g[p]) /\ recs[p].Status = "Online" /\ recs[p].IncentiveEligible
            => g[p].Status = "Online" /\ g[p].IncentiveEligible
  BY <1>4, <1>5, ProposalRecorded, Zenon
<1>7. ASSUME NEW x \in Accounts
      PROVE  /\ Coherent(mods[x]) => Coherent(recs[x])
             /\ x # p => LastSeen(recs[x]) = LastSeen(mods[x])
             /\ Coherent(mods[x]) /\ recs[x].Status = "Online" /\ recs[x].IncentiveEligible
                  => /\ mods[x].Status = "Online" /\ mods[x].IncentiveEligible
                     /\ x # p => recs[x] = mods[x]
  <2>1. /\ Coherent(mods[x]) => Coherent(f[x])
        /\ LastSeen(f[x]) = LastSeen(mods[x])
        /\ f[x].Status = "Online" => f[x] = mods[x]
    BY <1>2, Zenon DEF Demotes
  <2>2. /\ Coherent(f[x]) => Coherent(g[x])
        /\ LastSeen(g[x]) = LastSeen(f[x])
        /\ g[x].Status = "Online" => g[x] = f[x]
    BY <1>3, Zenon DEF Demotes
  <2>3. CASE x = p
    BY <1>6, <2>1, <2>2, <2>3, Zenon
  <2>4. CASE x # p
    <3>1. recs[x] = g[x]
      BY <1>6, <2>4, Zenon
    <3> QED
      BY <2>1, <2>2, <2>4, <3>1, Zenon
  <2> QED
    BY <2>3, <2>4, Zenon
<1> QED
  BY <1>6, <1>7, Zenon

\* Candidates are accounts.
LEMMA CandidateTypes ==
    ASSUME TypeInv, NEW n \in Nodes, NEW cands \in CandidateSets(n)
    PROVE  cands \in SUBSET Accounts
<1>1. modified \subseteq Accounts
  BY Zenon DEF TypeInv
<1>2. ASSUME NEW tops \in Tops PROVE (tops \union modified) \ Local[n] \in SUBSET Accounts
  BY <1>1, Zenon DEF Tops
<1> QED
  BY <1>2, Zenon DEF CandidateSets

\* The end of a block, taken apart.
LEMMA BlockParts ==
    ASSUME TypeInv, NEW n \in Nodes, NEW cands \in CandidateSets(n), NEW p \in Local[n],
           EndOfBlock(cands, p)
    PROVE  \E E, A, recs :
              /\ recs = recordProposal(Updated(E, A), p, round + 1)
              /\ A \in AbsentLists(cands, E, round + 1)
              /\ NewBlock(recs, A, round + 1)
              /\ p \in Accounts /\ cands \in SUBSET Accounts
              /\ round + 1 \in FirstRound .. LastRound
              /\ Misses => missed < MaxMissed
<1>1. p \in Accounts /\ Local[n] \in SUBSET Accounts
  BY ParticipationAssumption, Zenon
<1>2. cands \in SUBSET Accounts
  BY CandidateTypes, Zenon
<1>3. round + 1 \in FirstRound .. LastRound
  BY ParticipationAssumption DEF EndOfBlock, TypeInv
<1>4. PICK E \in ExpiredLists(cands, round + 1) :
         \E A \in AbsentLists(cands, E, round + 1) :
            NewBlock(recordProposal(Updated(E, A), p, round + 1), A, round + 1)
  BY Zenon DEF EndOfBlock
<1>5. PICK A \in AbsentLists(cands, E, round + 1) :
            NewBlock(recordProposal(Updated(E, A), p, round + 1), A, round + 1)
  BY <1>4, Zenon
<1>6. Misses => missed < MaxMissed
  BY Zenon DEF EndOfBlock
<1> QED
  BY <1>1, <1>2, <1>3, <1>5, <1>6, Zenon

\* The snapshots move on by one round.
LEMMA SnapshotsMove ==
    ASSUME TypeInv, NEW recs \in [Accounts -> Record], NEW A, NewBlock(recs, A, round + 1)
    PROVE  /\ online' \in [BalanceRound(round' + 1) .. round' -> [Accounts -> Nat]]
           /\ online'[round'] = OnlineData(recs)
           /\ \A b \in DOMAIN online' : b # round' => b \in DOMAIN online /\ online'[b] = online[b]
<1> DEFINE r == round + 1
<1>1. /\ round' = r
      /\ online' = [b \in BalanceRound(r + 1) .. r |-> IF b = r THEN OnlineData(recs) ELSE online[b]]
  BY Zenon DEF NewBlock
<1>2. /\ round \in Nat /\ Lookback \in Nat \ {0}
      /\ online \in [BalanceRound(round + 1) .. round -> [Accounts -> Nat]]
  BY Rounds, ParticipationAssumption, Zenon DEF TypeInv
<1>3. OnlineData(recs) \in [Accounts -> Nat]
  BY Zenon DEF OnlineData, Record
<1>4. /\ BalanceRound(round + 1) \in Nat /\ BalanceRound(r + 1) \in Nat
      /\ BalanceRound(round + 1) <= BalanceRound(r + 1) /\ BalanceRound(r + 1) <= r
  BY <1>2 DEF BalanceRound
<1>5. ASSUME NEW b \in BalanceRound(r + 1) .. r, b # r
      PROVE  b \in BalanceRound(round + 1) .. round
  BY <1>2, <1>4, <1>5
<1>6. r \in BalanceRound(r + 1) .. r
  BY <1>2, <1>4
<1>7. DOMAIN online = BalanceRound(round + 1) .. round
  BY <1>2, Zenon
<1>8. \A b \in BalanceRound(r + 1) .. r : b # r => online[b] \in [Accounts -> Nat]
  BY <1>2, <1>5, Zenon
<1> HIDE DEF r
<1> QED
  BY <1>1, <1>3, <1>5, <1>6, <1>7, <1>8, Zenon

\* Every action keeps the types.
LEMMA TypeStep == TypeInv /\ [Next]_vars => TypeInv'
<1> SUFFICES ASSUME TypeInv, [Next]_vars PROVE TypeInv'
  BY Zenon
<1>0. /\ round \in Nat /\ missed \in Nat /\ keyregs \in Nat /\ MaxMissed \in Nat /\ hbLifetime \in Nat
      /\ round + 1 \in Nat /\ round + hbLifetime \in Nat
  BY Rounds, Numbers DEF TypeInv
<1>1. ASSUME NEW hb \in pool, Heartbeat(hb) PROVE TypeInv'
  <2>1. mods' \in [Accounts -> Record] /\ free' \in [Accounts -> Nat] /\ hb.addr \in Accounts
    BY <1>1, HeartbeatChanges, Zenon
  <2> QED
    BY <1>1, <2>1, Zenon DEF Heartbeat, TypeInv
<1>2. ASSUME NEW x \in Accounts, NEW rec, Register(x, rec), mods' \in [Accounts -> Record],
             registered' \in [Accounts -> Nat]
      PROVE TypeInv'
  BY <1>0, <1>2 DEF Register, TypeInv
<1>3. ASSUME NEW x \in Accounts, NEW last \in KeyLasts, NEW fee \in BOOLEAN, KeyregOnline(x, last, fee)
      PROVE TypeInv'
  <2>1. mods' \in [Accounts -> Record]
    BY <1>3, KeyregOnlineChanges, Zenon
  <2>2. registered' \in [Accounts -> Nat]
    BY <1>0, <1>3, Zenon DEF KeyregOnline, TypeInv
  <2> QED
    BY <1>2, <1>3, <2>1, <2>2, Zenon DEF KeyregOnline
<1>4. ASSUME NEW x \in Accounts, KeyregOffline(x) PROVE TypeInv'
  <2>1. mods' \in [Accounts -> Record]
    BY <1>4, KeyregOfflineChanges, Zenon
  <2>2. registered' \in [Accounts -> Nat]
    BY <1>4, Zenon DEF KeyregOffline, TypeInv
  <2> QED
    BY <1>2, <1>4, <2>1, <2>2, Zenon DEF KeyregOffline
<1>5. ASSUME NEW n \in Nodes, NEW cands \in CandidateSets(n), NEW p \in Local[n], EndOfBlock(cands, p)
      PROVE TypeInv'
  <2>1. PICK E, A, recs :
              /\ recs = recordProposal(Updated(E, A), p, round + 1)
              /\ A \in AbsentLists(cands, E, round + 1)
              /\ NewBlock(recs, A, round + 1)
              /\ p \in Accounts /\ cands \in SUBSET Accounts
              /\ round + 1 \in FirstRound .. LastRound
              /\ Misses => missed < MaxMissed
    BY <1>5, BlockParts, Zenon
  <2>2. recs \in [Accounts -> Record]
    BY <1>0, <2>1, BlockChanges, Zenon
  <2>3. A \in SUBSET Accounts
    BY <2>1, Zenon DEF AbsentLists
  <2>4. round' = round + 1 /\ acct' = recs /\ mods' = recs
    BY <2>1, Zenon DEF NewBlock
  <2>5. /\ online' \in [BalanceRound(round' + 1) .. round' -> [Accounts -> Nat]]
        /\ online'[round'] = OnlineData(acct')
    BY <2>1, <2>2, <2>4, SnapshotsMove, Zenon
  <2>6. missed' \in 0 .. MaxMissed
    <3>1. missed \in 0 .. MaxMissed /\ missed' = missed + (IF Misses THEN 1 ELSE 0)
      BY <2>1, Zenon DEF NewBlock, TypeInv
    <3>2. CASE Misses
      BY <1>0, <2>1, <3>1, <3>2
    <3>3. CASE ~Misses
      BY <1>0, <3>1, <3>3
    <3> QED
      BY <3>2, <3>3, Zenon
  <2>7. challenged' \subseteq Accounts /\ modified' \subseteq Accounts /\ failed' \subseteq Accounts
    BY <2>1, <2>3, Zenon DEF NewBlock, TypeInv
  <2>8. pool' \subseteq Heartbeats /\ \A hb \in pool' : hb.FirstValid <= round'
    <3>1. pool' \subseteq pool /\ pool \subseteq Heartbeats /\ \A hb \in pool : hb.FirstValid <= round
      BY <2>1, Zenon DEF NewBlock, TypeInv
    <3>2. \A k \in Nat : k <= round => k <= round + 1
      BY <1>0
    <3>3. \A hb \in Heartbeats : hb.FirstValid \in Nat
      BY Zenon DEF Heartbeats
    <3> QED
      BY <2>4, <3>1, <3>2, <3>3, Zenon
  <2>9. /\ seen' \in [Nodes -> Nat] /\ \A m \in Nodes : seen'[m] <= round'
        /\ suppress' \in [Nodes -> [Accounts -> Nat]] /\ keyregs' \in Nat
    BY <1>0, <2>1 DEF NewBlock, TypeInv
  <2>10. free' \in [Accounts -> Nat] /\ registered' \in [Accounts -> Nat]
    BY <2>1, Zenon DEF NewBlock, TypeInv
  <2> QED
    BY <2>1, <2>2, <2>4, <2>5, <2>6, <2>7, <2>8, <2>9, <2>10, Zenon DEF TypeInv
<1>6. ASSUME NEW n \in Nodes, NEW sent \in SUBSET Unsuppressed(n), Loop(n, sent) PROVE TypeInv'
  <2>1. /\ UNCHANGED <<round, acct, online, challenged, mods, modified, keyregs, failed, free, registered>>
        /\ seen' = [seen EXCEPT ![n] = round]
        /\ suppress' = [suppress EXCEPT ![n] =
                          [x \in Accounts |-> IF x \in sent THEN round + hbLifetime ELSE @[x]]]
        /\ pool' = pool \union {prepareHeartbeat(x) : x \in sent}
    BY <1>6, Zenon DEF Loop
  <2>2. seen' \in [Nodes -> Nat] /\ \A m \in Nodes : seen'[m] <= round
    BY <1>0, <2>1 DEF TypeInv
  <2>3. suppress' \in [Nodes -> [Accounts -> Nat]]
    BY <1>0, <2>1, Zenon DEF TypeInv
  <2>4. ASSUME NEW x \in sent
        PROVE  prepareHeartbeat(x) \in Heartbeats /\ prepareHeartbeat(x).FirstValid = round
    <3>1. x \in Accounts
      BY ParticipationAssumption, Zenon DEF Unsuppressed, findChallenged
    <3>2. acct[x].VoteID \in Nat
      BY <3>1, Zenon DEF TypeInv, Record
    <3> QED
      BY <1>0, <3>1, <3>2, Zenon DEF prepareHeartbeat, Heartbeats
  <2>5. pool' \subseteq Heartbeats /\ \A hb \in pool' : hb.FirstValid <= round
    BY <1>0, <2>1, <2>4 DEF TypeInv
  <2>6. missed' \in 0 .. MaxMissed
    <3> DEFINE lost == \E x \in Unsuppressed(n) \ sent : Applies(mods, prepareHeartbeat(x), round + 1)
    <3>1. missed \in 0 .. MaxMissed /\ missed' = missed + (IF lost THEN 1 ELSE 0) /\ (lost => missed < MaxMissed)
      BY <1>6, Zenon DEF Loop, TypeInv
    <3> HIDE DEF lost
    <3>2. CASE lost
      BY <1>0, <3>1, <3>2
    <3>3. CASE ~lost
      BY <1>0, <3>1, <3>3
    <3> QED
      BY <3>2, <3>3, Zenon
  <2> QED
    BY <2>1, <2>2, <2>3, <2>5, <2>6, Zenon DEF TypeInv
<1>7. ASSUME NEW n \in Nodes, Start(n) PROVE TypeInv'
  BY <1>0, <1>7 DEF Start, TypeInv
<1>8. CASE UNCHANGED vars
  BY <1>8, Zenon DEF vars, TypeInv
<1> QED
  BY <1>1, <1>3, <1>4, <1>5, <1>6, <1>7, <1>8, Zenon DEF Next

----------------------------------------------------------------------------
(* Who may be weighed has a weight.                                        *)

\* Every action keeps WeighedInv.
LEMMA WeighedStep ==
    ASSUME TypeInv, WeighedInv, [Next]_vars
    PROVE  WeighedInv'
<1>0. /\ mods \in [Accounts -> Record]
      /\ \A x \in Accounts : Coherent(mods[x]) /\ (Counts(mods[x]) => OnlineSince(x))
  BY Zenon DEF TypeInv, WeighedInv
\* A step that keeps the snapshots and changes one account at most.
<1>1. ASSUME NEW x \in Accounts, online' = online,
             \A y \in Accounts \ {x} : mods'[y] = mods[y] /\ registered'[y] = registered[y],
             Coherent(mods'[x]), Counts(mods'[x]) => OnlineSince(x)'
      PROVE  WeighedInv'
  <2>1. ASSUME NEW y \in Accounts \ {x}
        PROVE  Coherent(mods'[y]) /\ (Counts(mods'[y]) => OnlineSince(y)')
    BY <1>0, <1>1, <2>1, Zenon DEF OnlineSince
  <2> QED
    BY <1>1, <2>1, Zenon DEF WeighedInv
<1>2. ASSUME NEW hb \in pool, Heartbeat(hb) PROVE WeighedInv'
  <2>1. /\ hb.addr \in Accounts
        /\ \A x \in Accounts \ {hb.addr} : mods'[x] = mods[x]
        /\ Coherent(mods[hb.addr]) => Coherent(mods'[hb.addr])
        /\ Counts(mods'[hb.addr]) => Counts(mods[hb.addr])
    BY <1>2, HeartbeatChanges, Zenon DEF Counts
  <2>2. online' = online /\ registered' = registered
    BY <1>2, Zenon DEF Heartbeat
  <2>3. Counts(mods'[hb.addr]) => OnlineSince(hb.addr)'
    BY <1>0, <2>1, <2>2, Zenon DEF OnlineSince
  <2> QED
    BY <1>0, <1>1, <2>1, <2>2, <2>3, Zenon
<1>3. ASSUME NEW x \in Accounts, NEW last \in KeyLasts, NEW fee \in BOOLEAN, KeyregOnline(x, last, fee)
      PROVE WeighedInv'
  <2>1. /\ \A y \in Accounts \ {x} : mods'[y] = mods[y]
        /\ Coherent(mods'[x])
    BY <1>3, KeyregOnlineChanges, Zenon
  <2>2. online' = online /\ registered' = [registered EXCEPT ![x] = round + 1]
    BY <1>3, Zenon DEF KeyregOnline, Register
  <2>3. registered'[x] = round + 1 /\ \A y \in Accounts \ {x} : registered'[y] = registered[y]
    BY <2>2, Zenon DEF TypeInv
  \* No snapshot is as late as the block under evaluation.
  <2>4. OnlineSince(x)'
    <3>1. /\ DOMAIN online = BalanceRound(round + 1) .. round
          /\ BalanceRound(round + 1) \in Nat /\ round \in Nat
      BY Rounds, ParticipationAssumption DEF TypeInv, BalanceRound
    <3>2. \A s \in DOMAIN online : ~(s >= round + 1)
      BY <3>1
    <3> QED
      BY <2>2, <2>3, <3>2, Zenon DEF OnlineSince
  <2> QED
    BY <1>1, <2>1, <2>2, <2>3, <2>4, Zenon
<1>4. ASSUME NEW x \in Accounts, KeyregOffline(x) PROVE WeighedInv'
  <2>1. /\ \A y \in Accounts \ {x} : mods'[y] = mods[y]
        /\ Coherent(mods'[x]) /\ ~Counts(mods'[x])
    BY <1>4, KeyregOfflineChanges, Zenon DEF Counts
  <2>2. online' = online /\ registered' = registered
    BY <1>4, Zenon DEF KeyregOffline, Register
  <2> QED
    BY <1>1, <2>1, <2>2, Zenon
<1>5. ASSUME NEW n \in Nodes, NEW cands \in CandidateSets(n), NEW p \in Local[n], EndOfBlock(cands, p)
      PROVE WeighedInv'
  <2>1. PICK E, A, recs :
              /\ recs = recordProposal(Updated(E, A), p, round + 1)
              /\ NewBlock(recs, A, round + 1) /\ p \in Accounts
    BY <1>5, BlockParts, Zenon
  <2>2. round + 1 \in Nat
    BY Rounds, Zenon
  <2>3. /\ recs \in [Accounts -> Record]
        /\ \A x \in Accounts : /\ Coherent(mods[x]) => Coherent(recs[x])
                               /\ Coherent(mods[x]) /\ Counts(recs[x]) => Counts(mods[x])
    BY <2>1, <2>2, BlockChanges DEF Counts
  <2>4. mods' = recs /\ registered' = registered
    BY <2>1, Zenon DEF NewBlock
  <2>5. /\ online'[round'] = OnlineData(recs)
        /\ \A s \in DOMAIN online' : s # round' => s \in DOMAIN online /\ online'[s] = online[s]
    BY <2>1, <2>3, SnapshotsMove, Zenon
  <2>6. \A x \in Accounts : Coherent(recs[x])
    BY <1>0, <2>3, Zenon
  <2>7. ASSUME NEW x \in Accounts, Counts(recs[x]) PROVE OnlineSince(x)'
    <3>1. OnlineSince(x)
      BY <1>0, <2>3, <2>7, Zenon
    <3>2. OnlineData(recs)[x] # 0
      BY <2>6, <2>7, Zenon DEF OnlineData, Coherent, Counts
    <3>3. ASSUME NEW s \in DOMAIN online', s >= registered[x] PROVE online'[s][x] # 0
      BY <2>5, <3>1, <3>2, <3>3, Zenon DEF OnlineSince
    <3> QED
      BY <2>4, <3>3, Zenon DEF OnlineSince
  <2> QED
    BY <2>4, <2>6, <2>7, Zenon DEF WeighedInv
<1>6. ASSUME UNCHANGED <<mods, online, registered>> PROVE WeighedInv'
  BY <1>6, Zenon DEF WeighedInv, OnlineSince
<1>7. ASSUME NEW n \in Nodes, Start(n) \/ \E sent \in SUBSET Unsuppressed(n) : Loop(n, sent) PROVE WeighedInv'
  BY <1>6, <1>7, Zenon DEF Loop, Start
<1>8. CASE UNCHANGED vars
  BY <1>6, <1>8, Zenon DEF vars
<1> QED
  BY <1>2, <1>3, <1>4, <1>5, <1>7, <1>8, Zenon DEF Next

----------------------------------------------------------------------------
(* A free heartbeat is the last one for its challenge.                     *)

\* Every action keeps FreeInv.
LEMMA FreeStep ==
    ASSUME TypeInv, FreeInv, [Next]_vars
    PROVE  FreeInv'
<1> DEFINE c == LastChallenge(round)
<1>0. /\ round \in Nat /\ round + 1 \in Nat /\ c \in Nat /\ c <= round
      /\ mods \in [Accounts -> Record] /\ free \in [Accounts -> Nat]
      /\ \A x \in Accounts : free[x] = 0 \/ (free[x] = 1 /\ LastSeen(mods[x]) >= c)
  BY Rounds, Zenon DEF TypeInv, FreeInv
\* A step within the block that changes the record of one account at most.
<1>1. ASSUME NEW x \in Accounts, round' = round,
             \A y \in Accounts \ {x} : mods'[y] = mods[y] /\ free'[y] = free[y],
             free'[x] = 0 \/ (free'[x] = 1 /\ LastSeen(mods'[x]) >= c)
      PROVE  FreeInv'
  <2>1. \A y \in Accounts : free'[y] = 0 \/ (free'[y] = 1 /\ LastSeen(mods'[y]) >= c)
    BY <1>0, <1>1, Zenon
  <2> QED
    BY <1>1, <2>1, Zenon DEF FreeInv
<1>2. ASSUME NEW hb \in pool, Heartbeat(hb) PROVE FreeInv'
  <2> DEFINE a == hb.addr
  <2>1. /\ a \in Accounts /\ mods' \in [Accounts -> Record]
        /\ \A x \in Accounts \ {a} : mods'[x] = mods[x] /\ free'[x] = free[x]
        /\ LastSeen(mods'[a]) > round
        /\ free'[a] = free[a] + 1
    BY <1>2, HeartbeatChanges, Zenon
  <2>2. round' = round /\ Failed(ChRisky(round + 1), a, mods[a])
    BY <1>2, Zenon DEF Heartbeat, Applies, FreeHeartbeat
  <2>3. /\ ChRisky(round + 1) = LastChallenge(round + 1) /\ round + 1 > LastChallenge(round + 1)
        /\ LastSeen(mods[a]) < LastChallenge(round + 1)
    <3>1. LastChallenge(round + 1) \in Nat
      BY <1>0, ChallengeTypes, Zenon
    <3> QED
      BY <1>0, <2>2, <3>1, Risky, Numbers DEF Failed
  <2>4. LastChallenge(round + 1) = c
    BY <1>0, <2>3, SameChallenge, NewChallenge
  <2>5. LastSeen(mods[a]) \in Nat /\ LastSeen(mods'[a]) \in Nat
    BY <1>0, <2>1, SeenTypes, Zenon
  <2>6. free[a] = 0
    BY <1>0, <2>1, <2>3, <2>4, <2>5
  <2>7. free'[a] = 1 /\ LastSeen(mods'[a]) >= c
    BY <1>0, <2>1, <2>5, <2>6
  <2> QED
    BY <1>1, <2>1, <2>2, <2>7, Zenon
<1>3. ASSUME NEW x \in Accounts, NEW last \in KeyLasts, NEW fee \in BOOLEAN, KeyregOnline(x, last, fee)
      PROVE FreeInv'
  <2>1. /\ mods' \in [Accounts -> Record] /\ \A y \in Accounts \ {x} : mods'[y] = mods[y]
        /\ LastSeen(mods'[x]) > round
    BY <1>3, KeyregOnlineChanges, Zenon
  <2>2. round' = round /\ free' = free
    BY <1>3, Zenon DEF KeyregOnline, Register
  <2>3. LastSeen(mods'[x]) >= c
    BY <1>0, <2>1, SeenTypes
  <2> QED
    BY <1>0, <1>1, <2>1, <2>2, <2>3, Zenon
<1>4. ASSUME NEW x \in Accounts, KeyregOffline(x) PROVE FreeInv'
  <2>1. /\ \A y \in Accounts \ {x} : mods'[y] = mods[y]
        /\ LastSeen(mods'[x]) = LastSeen(mods[x])
    BY <1>4, KeyregOfflineChanges, Zenon
  <2>2. round' = round /\ free' = free
    BY <1>4, Zenon DEF KeyregOffline, Register
  <2> QED
    BY <1>0, <1>1, <2>1, <2>2, Zenon
<1>5. ASSUME NEW n \in Nodes, NEW cands \in CandidateSets(n), NEW p \in Local[n], EndOfBlock(cands, p)
      PROVE FreeInv'
  <2>1. PICK E, A, recs :
              /\ recs = recordProposal(Updated(E, A), p, round + 1)
              /\ NewBlock(recs, A, round + 1) /\ p \in Accounts
    BY <1>5, BlockParts, Zenon
  <2>2. /\ recs \in [Accounts -> Record]
        /\ \A x \in Accounts : x # p => LastSeen(recs[x]) = LastSeen(mods[x])
        /\ LastSeen(recs[p]) >= round + 1
    BY <1>0, <2>1, BlockChanges
  <2>3. /\ mods' = recs /\ round' = round + 1
        /\ free' = IF (round + 1) % ChallengeInterval = 0 THEN [x \in Accounts |-> 0] ELSE free
    BY <2>1, Zenon DEF NewBlock
  <2>4. CASE (round + 1) % ChallengeInterval = 0
    BY <2>3, <2>4, Zenon DEF FreeInv
  <2>5. CASE (round + 1) % ChallengeInterval # 0
    <3>1. LastChallenge(round') = c /\ free' = free
      BY <1>0, <2>3, <2>5, SameChallenge, Zenon
    <3>2. LastSeen(recs[p]) >= c
      BY <1>0, <2>1, <2>2, SeenTypes
    <3> QED
      BY <1>0, <2>2, <2>3, <3>1, <3>2, Zenon DEF FreeInv
  <2> QED
    BY <2>4, <2>5, Zenon
<1>6. ASSUME UNCHANGED <<mods, free, round>> PROVE FreeInv'
  BY <1>6, Zenon DEF FreeInv
<1>7. ASSUME NEW n \in Nodes, Start(n) \/ \E sent \in SUBSET Unsuppressed(n) : Loop(n, sent) PROVE FreeInv'
  BY <1>6, <1>7, Zenon DEF Loop, Start
<1>8. CASE UNCHANGED vars
  BY <1>6, <1>8, Zenon DEF vars
<1> QED
  BY <1>2, <1>3, <1>4, <1>5, <1>7, <1>8, Zenon DEF Next

----------------------------------------------------------------------------
(* The heartbeats suffice.                                                 *)

\* Opened and Closed are rounds, and more than MaxMissed of them lie between.
LEMMA Period ==
    ASSUME TypeInv
    PROVE  /\ Opened \in Nat /\ Closed \in Nat /\ LastChallenge(round) < Opened
           /\ Opened + MaxMissed < Closed
           /\ missed \in Nat /\ missed <= MaxMissed
  BY Rounds, Numbers DEF Opened, Closed, TypeInv

\* While the round lasts, an account that is due was due before.
LEMMA DueBefore ==
    ASSUME TypeInv, TypeInv', UNCHANGED <<round, challenged>>, NEW x \in Accounts, Due(x)',
           mods'[x] = mods[x] \/ mods'[x].Status = "Offline" \/ LastSeen(mods'[x]) > round
    PROVE  Due(x) /\ mods'[x] = mods[x]
<1>1. mods'[x] \in Record
  BY Zenon DEF TypeInv
<1>2. LastSeen(mods'[x]) \in Nat
  BY <1>1, SeenTypes, Zenon
<1>3. LastChallenge(round) \in Nat /\ LastChallenge(round) <= round /\ round \in Nat
  BY Rounds, Zenon
<1>4. LastSeen(mods'[x]) < LastChallenge(round) /\ mods'[x].Status = "Online"
  BY Zenon DEF Due
<1>5. mods'[x] = mods[x]
  BY <1>2, <1>3, <1>4
<1> QED
  BY <1>5, Zenon DEF Due

\* Steps that take transactions into the block.
LEMMA HeartTransaction ==
    ASSUME TypeInv, TypeInv', HeartInv,
           UNCHANGED <<round, acct, challenged, failed, seen, suppress, missed>>,
           \A x \in Accounts : mods'[x] = mods[x] \/ mods'[x].Status = "Offline" \/ LastSeen(mods'[x]) > round,
           \A hb \in pool : Due(hb.addr)' => hb \in pool'
    PROVE  HeartInv'
<1>1. ASSUME NEW x \in Accounts PROVE Untouched(x)'
  BY Zenon DEF HeartInv, Untouched
<1>2. ASSUME NEW x \in Accounts, Due(x)' PROVE Due(x) /\ mods'[x] = mods[x]
  BY <1>2, DueBefore, Zenon
<1>3. ASSUME NEW x \in Accounts, Due(x)', NEW last, Pending(x, last) PROVE Pending(x, last)'
  <2>1. PICK hb \in pool : hb.addr = x /\ hb.VoteID = mods[x].VoteID /\ hb.LastValid >= last
    BY <1>3, Zenon DEF Pending
  <2>2. hb \in pool' /\ mods'[x] = mods[x]
    BY <1>2, <1>3, <2>1, Zenon
  <2> QED
    BY <2>1, <2>2, Zenon DEF Pending
<1>4. ASSUME NEW n \in Nodes, NEW x \in Local[n] PROVE Remembers(n, x)' /\ Paid(n, x)'
  <2>1. x \in Accounts
    BY ParticipationAssumption, Zenon
  <2>2. Remembers(n, x) /\ Paid(n, x)
    BY Zenon DEF HeartInv
  <2>3. Opened' = Opened /\ Closed' = Closed
    BY Zenon DEF Opened, Closed
  <2>4. Due(x)' => Due(x)
    BY <1>2, <2>1, Zenon
  <2>5. Due(x)' /\ Pending(x, suppress[n][x]) => Pending(x, suppress[n][x])'
    BY <1>3, <2>1, Zenon
  <2>6. Due(x)' /\ Pending(x, round + 1) => Pending(x, round + 1)'
    BY <1>3, <2>1, Zenon
  <2>7. Remembers(n, x)'
    BY <2>2, <2>4, <2>5, Zenon DEF Remembers
  <2>8. Paid(n, x)'
    BY <2>2, <2>3, <2>4, <2>6, Zenon DEF Paid
  <2> QED
    BY <2>7, <2>8, Zenon
<1> QED
  BY <1>1, <1>4, Zenon DEF HeartInv

\* An account that is due while heartbeats are free is found by the service.
LEMMA DueIsFound ==
    ASSUME TypeInv, HeartInv, NEW n \in Nodes, NEW x \in Local[n], Due(x),
           Opened <= round, round <= Closed
    PROVE  x \in findChallenged(n) /\ acct[x] = mods[x]
<1>1. x \in Accounts /\ mods[x] \in Record
  BY ParticipationAssumption, Zenon DEF TypeInv
<1>2. LastSeen(mods[x]) \in Nat
  BY <1>1, SeenTypes, Zenon
<1>3. LastChallenge(round) \in Nat /\ LastChallenge(round) <= round /\ round \in Nat
  BY Rounds, Zenon
<1>4. LastSeen(mods[x]) < LastChallenge(round) /\ mods[x].Status = "Online"
  BY Zenon DEF Due
<1>5. acct[x] = mods[x]
  BY <1>1, <1>2, <1>3, <1>4 DEF HeartInv, Untouched
<1>6. ChRisky(round) = LastChallenge(round) /\ LastChallenge(round) # 0
  BY <1>2, <1>3, <1>4, Risky, Numbers DEF Opened, Closed
<1>7. FreeHeartbeat(acct, x, round)
  BY <1>5, <1>6, Zenon DEF FreeHeartbeat, Failed, Due
<1> QED
  BY <1>5, <1>7, Zenon DEF findChallenged, Due

\* An account that is due while heartbeats are free heartbeats for free in the next block.
LEMMA DueIsFree ==
    ASSUME TypeInv, NEW x \in Accounts, Due(x), Opened <= round, round < Closed
    PROVE  FreeHeartbeat(mods, x, round + 1)
<1>2. LastSeen(mods[x]) \in Nat
  BY SeenTypes, Zenon DEF TypeInv
<1>3. /\ LastChallenge(round) \in Nat /\ LastChallenge(round) <= round /\ round \in Nat
      /\ round + 1 \in Nat /\ ChallengeGracePeriod \in Nat /\ ChallengeGracePeriod \div 2 \in Nat
  BY Rounds, Numbers, Zenon
<1>8. LastChallenge(round + 1) = LastChallenge(round)
  <2>1. round + 1 <= Closed /\ round + 1 > LastChallenge(round) /\ Closed < LastChallenge(round) + ChallengeInterval
    BY <1>3, Period, Numbers DEF Closed
  <2> QED
    BY <1>3, <2>1, SameChallenge, NewChallenge, Numbers DEF Closed
<1>9. ChRisky(round + 1) = LastChallenge(round)
  <2>1. round + 1 > LastChallenge(round) + (ChallengeGracePeriod \div 2) /\ round + 1 <= LastChallenge(round) + ChallengeGracePeriod
    BY <1>3 DEF Opened, Closed
  <2> QED
    BY <1>3, <1>8, <2>1, Risky, Zenon
<1>10. LastChallenge(round) # 0
  BY <1>2, <1>3 DEF Due
<1> QED
  BY <1>9, <1>10, Zenon DEF FreeHeartbeat, Failed, Due

\* A turn of the service's loop: an account that is due has a heartbeat in the pool, sent
\* now or the one because of which the service keeps quiet, or the turn is a miss.
LEMMA HeartLoop ==
    ASSUME TypeInv, pool' \subseteq Heartbeats, HeartInv, NEW m \in Nodes,
           NEW sent \in SUBSET Unsuppressed(m), Loop(m, sent)
    PROVE  HeartInv'
<1>0. /\ UNCHANGED <<round, acct, online, challenged, mods, failed>>
      /\ pool' = pool \union {prepareHeartbeat(x) : x \in sent}
      /\ seen' = [seen EXCEPT ![m] = round]
      /\ suppress' = [suppress EXCEPT ![m] =
                      [x \in Accounts |-> IF x \in sent THEN round + hbLifetime ELSE @[x]]]
      /\ missed' = missed + (IF \E x \in Unsuppressed(m) \ sent : Applies(mods, prepareHeartbeat(x), round + 1)
                             THEN 1 ELSE 0)
  BY Zenon DEF Loop
<1>1. /\ seen \in [Nodes -> Nat] /\ suppress \in [Nodes -> [Accounts -> Nat]]
      /\ round \in Nat /\ LastChallenge(round) \in Nat /\ LastChallenge(round) <= round
      /\ hbLifetime \in Nat \ {0} /\ hbLifetime <= ChallengeGracePeriod /\ ChallengeGracePeriod \in Nat
  BY Rounds, Numbers, Zenon DEF TypeInv
<1>2. Opened' = Opened /\ Closed' = Closed /\ \A x : Due(x)' <=> Due(x)
  BY <1>0, Zenon DEF Opened, Closed, Due
<1>3. ASSUME NEW x, NEW last, Pending(x, last) PROVE Pending(x, last)'
  BY <1>0, <1>3, Zenon DEF Pending
<1>4. ASSUME NEW x \in sent, Due(x), Opened <= round, round <= Closed
      PROVE  Pending(x, round + hbLifetime)'
  <2>1. x \in Local[m]
    BY Zenon DEF Unsuppressed, findChallenged
  <2>2. acct[x] = mods[x]
    BY <1>4, <2>1, DueIsFound, Zenon
  <2>3. prepareHeartbeat(x) \in pool'
    BY <1>0, Zenon
  <2>4. /\ prepareHeartbeat(x).addr = x /\ prepareHeartbeat(x).VoteID = mods'[x].VoteID
        /\ prepareHeartbeat(x).LastValid = round + hbLifetime
    BY <1>0, <2>2, Zenon DEF prepareHeartbeat
  <2>5. round + hbLifetime >= round + hbLifetime
    BY <1>1
  <2>6. \E hb \in pool' : hb.addr = x /\ hb.VoteID = mods'[x].VoteID /\ hb.LastValid >= round + hbLifetime
    BY <2>3, <2>4, <2>5, Zenon
  <2> QED
    BY <1>0, <2>6, Zenon DEF Pending
<1>5. ASSUME NEW x \in sent PROVE round > LastChallenge(round) /\ Opened <= round /\ round <= Closed
  <2>1. ChRisky(round) # 0
    BY Zenon DEF Unsuppressed, findChallenged, FreeHeartbeat, Failed
  <2> QED
    BY <1>1, <2>1, Risky, Numbers DEF Opened, Closed
<1>8. missed \in Nat /\ missed' \in Nat /\ missed' >= missed
  BY <1>0, Period
\* The heartbeat of an account that is due would apply, so not sending it is a miss.
<1>9. ASSUME NEW x \in Local[m], x \in Unsuppressed(m) \ sent, Due(x), Opened <= round, round < Closed
      PROVE  missed' = missed + 1
  <2>1. FreeHeartbeat(mods, x, round + 1)
    BY <1>9, DueIsFree, ParticipationAssumption, Zenon
  <2>2. acct[x] = mods[x]
    <3>1. round <= Closed
      BY <1>1, <1>9, Period
    <3> QED
      BY <1>9, <3>1, DueIsFound, Zenon
  <2>3. /\ prepareHeartbeat(x).addr = x /\ prepareHeartbeat(x).VoteID = mods[x].VoteID
        /\ prepareHeartbeat(x).FirstValid = round /\ prepareHeartbeat(x).LastValid = round + hbLifetime
    BY <2>2, Zenon DEF prepareHeartbeat
  <2>4. round <= round + 1 /\ round + 1 <= round + hbLifetime
    BY <1>1
  <2>5. Applies(mods, prepareHeartbeat(x), round + 1)
    BY <2>1, <2>3, <2>4, Zenon DEF Applies
  <2> QED
    BY <1>0, <1>9, <2>5, Zenon
<1>6. ASSUME NEW n \in Nodes, NEW x \in Local[n] PROVE Remembers(n, x)' /\ Paid(n, x)'
  <2>1. x \in Accounts /\ Remembers(n, x) /\ Paid(n, x) /\ suppress[n][x] \in Nat
    BY <1>1, ParticipationAssumption, Zenon DEF HeartInv
  <2>2. CASE n = m /\ x \in sent
    <3>1. suppress'[n][x] = round + hbLifetime
      BY <1>0, <1>1, <2>1, <2>2, Zenon
    <3>2. Due(x) => \E hb \in pool' : hb.addr = x /\ hb.VoteID = mods'[x].VoteID /\ hb.LastValid >= round + hbLifetime
      BY <1>0, <1>4, <1>5, <2>2, Zenon DEF Pending
    <3>3. Remembers(n, x)'
      <4>1. round + hbLifetime <= LastChallenge(round) + 2 * ChallengeGracePeriod
        BY <1>1, <1>5, <2>2 DEF Closed
      <4> QED
        BY <1>0, <1>2, <3>1, <3>2, <4>1, Zenon DEF Remembers, Pending
    <3>4. Due(x) => Pending(x, round + 1)'
      <4>1. \A hb \in pool' : hb.LastValid >= round + hbLifetime => hb.LastValid >= round + 1
        BY <1>1 DEF Heartbeats
      <4> QED
        BY <1>0, <3>2, <4>1, Zenon DEF Pending
    <3>5. Paid(n, x)'
      BY <1>0, <1>1, <1>2, <1>8, <2>1, <3>4, Period DEF Paid
    <3> QED
      BY <3>3, <3>5, Zenon
  <2>3. CASE ~(n = m /\ x \in sent)
    <3>1. suppress'[n][x] = suppress[n][x] /\ (n # m => seen'[n] = seen[n])
      BY <1>0, <1>1, <2>1, <2>3, Zenon
    <3>2. Remembers(n, x)'
      BY <1>0, <1>2, <2>1, <3>1, Zenon DEF Remembers, Pending
    <3>3. ASSUME n = m, Due(x), Opened <= round, round < Closed
          PROVE  Pending(x, round + 1) \/ missed' = missed + 1
      <4>0. Closed \in Nat /\ round <= Closed
        BY <1>1, <3>3, Period
      <4>1. CASE suppress[n][x] > round
        <5>1. pool \subseteq Heartbeats
          BY Zenon DEF TypeInv
        <5> QED
          BY <1>1, <2>1, <3>3, <4>1, <5>1 DEF Remembers, Pending, Heartbeats
      <4>2. CASE ~(suppress[n][x] > round)
        <5>1. x \in findChallenged(m)
          BY <3>3, <4>0, DueIsFound, Zenon
        <5>2. suppress[m][x] <= round
          BY <1>1, <2>1, <3>3, <4>2
        <5>3. x \in Unsuppressed(m) \ sent
          BY <2>3, <3>3, <5>1, <5>2, Zenon DEF Unsuppressed
        <5> QED
          BY <1>9, <3>3, <5>3, Zenon
      <4> QED
        BY <4>1, <4>2, Zenon
    <3>4. Pending(x, round + 1) => Pending(x, round + 1)'
      BY <1>0, Zenon DEF Pending
    <3>5. Paid(n, x)'
      BY <1>0, <1>1, <1>2, <1>8, <2>1, <3>1, <3>3, <3>4, Period DEF Paid
    <3> QED
      BY <3>2, <3>5, Zenon
  <2> QED
    BY <2>2, <2>3, Zenon
<1>7. ASSUME NEW x \in Accounts PROVE Untouched(x)'
  BY <1>0, Zenon DEF HeartInv, Untouched
<1> QED
  BY <1>0, <1>6, <1>7, Zenon DEF HeartInv

\* A restart forgets what was sent and is counted as a miss.
LEMMA HeartStart ==
    ASSUME TypeInv, HeartInv, NEW m \in Nodes, Start(m)
    PROVE  HeartInv'
<1>0. /\ UNCHANGED <<round, acct, challenged, mods, failed, pool>>
      /\ missed' = missed + 1
      /\ seen' = [seen EXCEPT ![m] = round]
      /\ suppress' = [suppress EXCEPT ![m] = [x \in Accounts |-> 0]]
  BY Zenon DEF Start
<1>1. /\ seen \in [Nodes -> Nat] /\ suppress \in [Nodes -> [Accounts -> Nat]]
      /\ round \in Nat /\ LastChallenge(round) \in Nat /\ ChallengeGracePeriod \in Nat
      /\ Opened \in Nat /\ Closed \in Nat /\ missed \in Nat
  BY Rounds, Numbers, Period, Zenon DEF TypeInv
<1>2. /\ Opened' = Opened /\ Closed' = Closed /\ \A x : Due(x)' <=> Due(x)
      /\ \A x, last : Pending(x, last)' <=> Pending(x, last)
  BY <1>0, Zenon DEF Opened, Closed, Due, Pending
<1>3. ASSUME NEW n \in Nodes, NEW x \in Local[n] PROVE Remembers(n, x)' /\ Paid(n, x)'
  <2>1. x \in Accounts
    BY ParticipationAssumption, Zenon
  <2>2. Remembers(n, x) /\ Paid(n, x)
    BY Zenon DEF HeartInv
  <2>3. Remembers(n, x)'
    <3>1. CASE n = m
      <4>1. suppress'[n][x] = 0
        BY <1>0, <1>1, <2>1, <3>1, Zenon
      <4> QED
        BY <1>0, <1>1, <4>1 DEF Remembers
    <3>2. CASE n # m
      <4>1. suppress'[n][x] = suppress[n][x]
        BY <1>0, <1>1, <3>2, Zenon
      <4> QED
        BY <1>0, <1>2, <2>2, <4>1, Zenon DEF Remembers, Pending
    <3> QED
      BY <3>1, <3>2, Zenon
  <2>4. Paid(n, x)'
    BY <1>0, <1>1, <1>2, <2>2 DEF Paid
  <2> QED
    BY <2>3, <2>4, Zenon
<1>4. ASSUME NEW x \in Accounts PROVE Untouched(x)'
  BY <1>0, Zenon DEF HeartInv, Untouched
<1> QED
  BY <1>0, <1>3, <1>4, Zenon DEF HeartInv

\* A block that leaves an account due is a missed block, or was missed by the service.
LEMMA BlockMisses ==
    ASSUME TypeInv, HeartInv, NEW n \in Nodes, NEW x \in Local[n], Due(x),
           Opened <= round, round < Closed, ~Misses
    PROVE  missed > round - Opened
<1>1. x \in Accounts
  BY ParticipationAssumption, Zenon
<1>3. round \in Nat
  BY Rounds, Zenon
<1>4. seen[n] = round
  BY Zenon DEF Misses
<1>5. SUFFICES ASSUME Pending(x, round + 1) PROVE FALSE
  BY <1>4, Zenon DEF HeartInv, Paid
<1>6. PICK hb \in pool : hb.addr = x /\ hb.VoteID = mods[x].VoteID /\ hb.LastValid >= round + 1
  BY <1>5, Zenon DEF Pending
<1>7. hb.FirstValid <= round + 1 /\ round + 1 <= hb.LastValid
  <2>1. hb.FirstValid \in Nat /\ hb.LastValid \in Nat /\ hb.FirstValid <= round
    BY Zenon DEF TypeInv, Heartbeats
  <2> QED
    BY <1>3, <1>6, <2>1
<1>11. FreeHeartbeat(mods, x, round + 1)
  BY <1>1, DueIsFree, Zenon
<1>12. Applies(mods, hb, round + 1)
  BY <1>6, <1>7, <1>11, Zenon DEF Applies
<1> QED
  BY <1>12, Zenon DEF Misses

\* The end of a block.
LEMMA HeartBlock ==
    ASSUME TypeInv, WeighedInv, HeartInv, NEW n \in Nodes, NEW cands \in CandidateSets(n), NEW p \in Local[n],
           EndOfBlock(cands, p)
    PROVE  HeartInv'
<1>1. PICK E, A, recs :
              /\ recs = recordProposal(Updated(E, A), p, round + 1)
              /\ A \in AbsentLists(cands, E, round + 1)
              /\ NewBlock(recs, A, round + 1)
              /\ p \in Accounts /\ cands \in SUBSET Accounts
  BY BlockParts, Zenon
<1>2. /\ round \in Nat /\ round + 1 \in Nat /\ LastChallenge(round) \in Nat /\ LastChallenge(round) <= round
      /\ Opened \in Nat /\ Closed \in Nat /\ missed \in Nat
      /\ Opened + MaxMissed < Closed /\ missed <= MaxMissed
  BY Rounds, Period, Zenon
<1>3. /\ recs \in [Accounts -> Record] /\ mods \in [Accounts -> Record]
      /\ \A x \in Accounts : recs[x].Status = "Online" /\ recs[x].IncentiveEligible /\ x # p
                                => recs[x] = mods[x]
      /\ LastSeen(recs[p]) >= round + 1
  <2>1. /\ recs \in [Accounts -> Record]
        /\ \A x \in Accounts :
              Coherent(mods[x]) /\ recs[x].Status = "Online" /\ recs[x].IncentiveEligible
                 => (x # p => recs[x] = mods[x])
        /\ LastSeen(recs[p]) >= round + 1
    BY <1>1, <1>2, BlockChanges
  <2>2. mods \in [Accounts -> Record] /\ \A x \in Accounts : Coherent(mods[x])
    BY Zenon DEF TypeInv, WeighedInv
  <2> QED
    BY <2>1, <2>2, Zenon
<1>4. /\ round' = round + 1 /\ acct' = recs /\ mods' = recs
      /\ UNCHANGED <<seen, suppress>>
      /\ pool' = {hb \in pool : hb.LastValid > round + 1}
      /\ challenged' \in IF (round + 1) % ChallengeInterval = 0 THEN SUBSET Accounts ELSE {challenged}
      /\ missed' = missed + (IF Misses THEN 1 ELSE 0)
      /\ failed' = failed \union {x \in A : SuspendedByChallenge(x, round + 1)}
  BY <1>1, Zenon DEF NewBlock
<1>5. \A x \in Accounts : Untouched(x)'
  BY <1>4, Zenon DEF Untouched
<1>6. failed' = {}
  <2>1. ASSUME NEW x \in A, SuspendedByChallenge(x, round + 1) PROVE FALSE
    <3>1. /\ x \in Accounts /\ mods[x].Status = "Online" /\ mods[x].IncentiveEligible
          /\ Failed(ChActive(round + 1), x, mods[x])
          /\ mods[x].VoteLastValid >= round + 1 + hbLifetime
          /\ \E m \in Nodes : x \in Local[m]
      BY <1>1, <2>1, Zenon DEF AbsentLists, Absent, SuspendedByChallenge
    <3>2. /\ round + 1 > LastChallenge(round + 1) + ChallengeGracePeriod
          /\ LastSeen(mods[x]) < LastChallenge(round + 1) /\ x \in challenged
      BY <1>2, <3>1, Active, Zenon DEF Failed
    <3>3. LastChallenge(round + 1) = LastChallenge(round)
      BY <1>2, <3>2, SameChallenge, NewChallenge, Numbers
    <3>4. mods[x].VoteLastValid >= round + hbLifetime /\ round >= Closed
      BY <1>2, <1>3, <3>1, <3>2, <3>3, Numbers DEF Record, Closed
    <3>5. Due(x)
      BY <3>1, <3>2, <3>3, <3>4, Zenon DEF Due
    <3>6. PICK m \in Nodes : Paid(m, x)
      BY <3>1, Zenon DEF HeartInv
    <3> QED
      BY <1>2, <3>4, <3>5, <3>6, Numbers DEF Paid
  <2> QED
    BY <1>4, <2>1, Zenon DEF HeartInv
<1>7. CASE (round + 1) % ChallengeInterval = 0
  <2>1. LastChallenge(round') = round' /\ LastChallenge(round) + ChallengeInterval = round'
    BY <1>2, <1>4, <1>7, NewChallenge, Zenon
  <2>2. ASSUME NEW m \in Nodes, NEW x \in Local[m] PROVE Remembers(m, x)' /\ Paid(m, x)'
    <3>1. suppress[m][x] \in Nat /\ suppress[m][x] <= LastChallenge(round) + 2 * ChallengeGracePeriod
      BY ParticipationAssumption DEF HeartInv, Remembers, TypeInv
    <3>2. ~(suppress'[m][x] > round') /\ suppress'[m][x] <= LastChallenge(round') + 2 * ChallengeGracePeriod
      BY <1>2, <1>4, <2>1, <3>1, Numbers
    <3>3. ~(round' >= Opened')
      <4>1. Opened' = round' + (ChallengeGracePeriod \div 2) + 1
        BY <2>1, Zenon DEF Opened
      <4> QED
        BY <1>2, <1>4, <4>1, Numbers
    <3> QED
      BY <3>2, <3>3, Zenon DEF Remembers, Paid
  <2> QED
    BY <1>5, <1>6, <2>2, Zenon DEF HeartInv
<1>8. CASE (round + 1) % ChallengeInterval # 0
  <2>1. LastChallenge(round') = LastChallenge(round) /\ challenged' = challenged
    BY <1>2, <1>4, <1>8, SameChallenge, Zenon
  <2>2. Opened' = Opened /\ Closed' = Closed
    BY <2>1, Zenon DEF Opened, Closed
  <2>3. ASSUME NEW x \in Accounts, Due(x)' PROVE Due(x) /\ mods'[x] = mods[x]
    <3>1. /\ x \in challenged /\ recs[x].Status = "Online" /\ recs[x].IncentiveEligible
          /\ LastSeen(recs[x]) < LastChallenge(round)
          /\ recs[x].VoteLastValid >= round + 1 + hbLifetime
      BY <1>4, <2>1, <2>3, Zenon DEF Due
    <3>2. LastSeen(recs[x]) \in Nat /\ recs[x].VoteLastValid \in Nat
      BY <1>3, SeenTypes, Zenon DEF Record
    <3>3. recs[x] = mods[x] /\ recs[x].VoteLastValid >= round + hbLifetime
      BY <1>2, <1>3, <3>1, <3>2, Numbers
    <3> QED
      BY <1>4, <3>1, <3>3, Zenon DEF Due
  <2>4. ASSUME NEW m \in Nodes, NEW x \in Local[m] PROVE Remembers(m, x)' /\ Paid(m, x)'
    <3>1. x \in Accounts /\ seen[m] \in Nat /\ seen[m] <= round /\ suppress[m][x] \in Nat
          /\ pool \subseteq Heartbeats
      BY ParticipationAssumption DEF TypeInv
    <3>2. Remembers(m, x) /\ Paid(m, x) /\ (Due(x)' => Due(x) /\ mods'[x] = mods[x])
      BY <2>3, <3>1, Zenon DEF HeartInv
    <3>3. Remembers(m, x)'
      <4>1. \A hb \in pool : suppress[m][x] > round + 1 /\ hb.LastValid >= suppress[m][x] => hb \in pool'
        BY <1>2, <1>4, <3>1 DEF Heartbeats
      <4>2. suppress[m][x] > round + 1 => suppress[m][x] > round
        BY <1>2, <3>1
      <4> QED
        BY <1>4, <2>1, <3>2, <4>1, <4>2, Zenon DEF Remembers, Pending
    <3>4. seen'[m] # round' /\ missed' >= missed /\ missed' \in Nat /\ (Misses => missed' = missed + 1)
      BY <1>2, <1>4, <3>1
    <3>5. Due(x)' /\ round + 1 >= Opened /\ round + 1 <= Closed => missed' >= round + 1 - Opened
      <4>1. Due(x) /\ Opened <= round /\ round < Closed /\ ~Misses => missed > round - Opened
        BY BlockMisses, Zenon
      <4> QED
        BY <1>2, <3>2, <3>4, <4>1 DEF Paid
    <3>6. Due(x)' /\ round + 1 > Closed => missed' >= Closed - Opened
      BY <1>2, <3>2, <3>4, Numbers DEF Paid
    <3>7. Paid(m, x)'
      <4>1. round' = round + 1
        BY <1>4, Zenon
      <4> QED
        BY <1>2, <2>2, <3>4, <3>5, <3>6, <4>1 DEF Paid
    <3> QED
      BY <3>3, <3>7, Zenon
  <2> QED
    BY <1>5, <1>6, <2>4, Zenon DEF HeartInv
<1> QED
  BY <1>7, <1>8, Zenon

\* Every action keeps HeartInv.
LEMMA HeartStep ==
    ASSUME TypeInv, TypeInv', WeighedInv, HeartInv, [Next]_vars
    PROVE  HeartInv'
<1>1. ASSUME NEW hb \in pool, Heartbeat(hb) PROVE HeartInv'
  <2>1. /\ hb.addr \in Accounts /\ LastSeen(mods'[hb.addr]) > round
        /\ \A x \in Accounts \ {hb.addr} : mods'[x] = mods[x]
    BY <1>1, HeartbeatChanges, Zenon
  <2>2. /\ UNCHANGED <<round, acct, challenged, failed, seen, suppress, missed>>
        /\ pool' = pool \ {hb}
    BY <1>1, Zenon DEF Heartbeat
  <2>3. ~Due(hb.addr)'
    <3>1. LastSeen(mods'[hb.addr]) \in Nat
      BY <2>1, SeenTypes, Zenon DEF TypeInv
    <3>2. LastChallenge(round) <= round /\ LastChallenge(round) \in Nat /\ round \in Nat /\ round' = round
      BY <2>2, Rounds, Zenon
    <3> QED
      BY <2>1, <3>1, <3>2 DEF Due
  <2>4. \A h \in pool : Due(h.addr)' => h \in pool'
    BY <2>2, <2>3, Zenon
  <2> QED
    BY <2>1, <2>2, <2>4, HeartTransaction, Zenon
<1>2. ASSUME NEW x \in Accounts, NEW rec, Register(x, rec),
             \A y \in Accounts \ {x} : mods'[y] = mods[y],
             mods'[x].Status = "Offline" \/ LastSeen(mods'[x]) > round
      PROVE  HeartInv'
  <2>1. UNCHANGED <<round, acct, challenged, failed, seen, suppress, missed, pool>>
    BY <1>2, Zenon DEF Register
  <2> QED
    BY <1>2, <2>1, HeartTransaction, Zenon
<1>3. ASSUME NEW x \in Accounts, NEW last \in KeyLasts, NEW fee \in BOOLEAN, KeyregOnline(x, last, fee)
      PROVE HeartInv'
  <2>1. LastSeen(mods'[x]) > round /\ \A y \in Accounts \ {x} : mods'[y] = mods[y]
    BY <1>3, KeyregOnlineChanges, Zenon
  <2>2. \E rec : Register(x, rec)
    BY <1>3, Zenon DEF KeyregOnline
  <2> QED
    BY <1>2, <2>1, <2>2, Zenon
<1>4. ASSUME NEW x \in Accounts, KeyregOffline(x) PROVE HeartInv'
  <2>1. mods'[x].Status = "Offline" /\ \A y \in Accounts \ {x} : mods'[y] = mods[y]
    BY <1>4, KeyregOfflineChanges, Zenon
  <2>2. \E rec : Register(x, rec)
    BY <1>4, Zenon DEF KeyregOffline
  <2> QED
    BY <1>2, <2>1, <2>2, Zenon
<1>5. ASSUME NEW n \in Nodes, NEW cands \in CandidateSets(n), NEW p \in Local[n], EndOfBlock(cands, p)
      PROVE HeartInv'
  BY <1>5, HeartBlock, Zenon
<1>6. ASSUME NEW n \in Nodes, NEW sent \in SUBSET Unsuppressed(n), Loop(n, sent) PROVE HeartInv'
  <2>1. pool' \subseteq Heartbeats
    BY Zenon DEF TypeInv
  <2> QED
    BY <1>6, <2>1, HeartLoop, Zenon
<1>7. ASSUME NEW n \in Nodes, Start(n) PROVE HeartInv'
  BY <1>7, HeartStart, Zenon
<1>8. CASE UNCHANGED vars
  BY <1>8, HeartTransaction, Zenon DEF vars
<1> QED
  BY <1>1, <1>3, <1>4, <1>5, <1>6, <1>7, <1>8, Zenon DEF Next

----------------------------------------------------------------------------
(* The theorems.                                                           *)

ParticipationInv == TypeInv /\ WeighedInv /\ FreeInv /\ HeartInv

\* The invariant holds at first.
LEMMA InitInv == Init => ParticipationInv
<1> SUFFICES ASSUME Init PROVE ParticipationInv
  BY Zenon
<1>1. /\ FirstRound \in Nat /\ FirstRound \in FirstRound .. LastRound
      /\ Lookback \in Nat \ {0} /\ MaxMissed \in Nat
      /\ InitialRecs \in [Accounts -> Record] /\ \A x \in Accounts : Coherent(InitialRecs[x])
  BY ParticipationAssumption, InitialRecsAssumption
<1>2. OnlineData(InitialRecs) \in [Accounts -> Nat]
  BY <1>1, Zenon DEF OnlineData, Record
<1>3. BalanceRound(FirstRound + 1) \in Nat /\ BalanceRound(FirstRound + 1) <= FirstRound
  BY <1>1 DEF BalanceRound
<1>4. TypeInv
  <2>1. /\ round = FirstRound /\ acct = InitialRecs /\ mods = InitialRecs /\ modified = {}
        /\ online = [r \in BalanceRound(FirstRound + 1) .. FirstRound |-> OnlineData(InitialRecs)]
        /\ challenged \subseteq Accounts /\ failed = {} /\ pool = {}
        /\ seen = [n \in Nodes |-> FirstRound]
        /\ suppress = [n \in Nodes |-> [x \in Accounts |-> 0]]
        /\ keyregs = 0 /\ missed = 0
        /\ free = [x \in Accounts |-> 0] /\ registered = [x \in Accounts |-> 0]
    BY Zenon DEF Init
  <2>2. FirstRound \in BalanceRound(FirstRound + 1) .. FirstRound
    BY <1>1, <1>3
  <2>3. /\ online \in [BalanceRound(round + 1) .. round -> [Accounts -> Nat]]
        /\ online[round] = OnlineData(acct)
    BY <1>2, <2>1, <2>2, Zenon
  <2> QED
    BY <1>1, <2>1, <2>3 DEF TypeInv
<1>5. WeighedInv
  <2>1. /\ mods = InitialRecs
        /\ online = [r \in BalanceRound(FirstRound + 1) .. FirstRound |-> OnlineData(InitialRecs)]
    BY Zenon DEF Init
  <2>2. ASSUME NEW x \in Accounts, mods[x].Status = "Online" PROVE OnlineSince(x)
    <3>1. OnlineData(InitialRecs)[x] # 0
      BY <1>1, <2>1, <2>2, Zenon DEF OnlineData, Coherent
    <3> QED
      BY <2>1, <3>1, Zenon DEF OnlineSince
  <2> QED
    BY <1>1, <2>1, <2>2, Zenon DEF WeighedInv, Counts
<1>6. FreeInv
  BY Zenon DEF Init, FreeInv
<1>7. HeartInv
  <2>1. \A x \in Accounts : Untouched(x)
    BY Zenon DEF Init, Untouched
  <2>2. ASSUME NEW n \in Nodes, NEW x \in Local[n] PROVE Remembers(n, x) /\ Paid(n, x)
    <3>1. x \in Accounts
      BY ParticipationAssumption, Zenon
    <3>2. suppress[n][x] = 0 /\ round = FirstRound
      BY <3>1, Zenon DEF Init
    <3>3. /\ LastChallenge(round) \in Nat /\ LastChallenge(round) <= round /\ round \in Nat
          /\ ChallengeGracePeriod \in Nat /\ ChallengeGracePeriod \div 2 \in Nat
      BY <1>4, Rounds, Numbers, Zenon
    <3>4. Remembers(n, x)
      BY <3>2, <3>3 DEF Remembers
    <3>5. CASE FirstRound % ChallengeInterval = 0
      <4>1. LastChallenge(round) = round
        BY <3>2, <3>3, <3>5 DEF LastChallenge
      <4>2. ~(round >= Opened)
        BY <3>3, <4>1 DEF Opened
      <4> QED
        BY <3>4, <4>2, Zenon DEF Paid
    <3>6. CASE FirstRound % ChallengeInterval # 0
      <4>1. ~Due(x)
        BY <3>6, Zenon DEF Init, Due
      <4> QED
        BY <3>4, <4>1, Zenon DEF Paid
    <3> QED
      BY <3>5, <3>6, Zenon
  <2> QED
    BY <2>1, <2>2, Zenon DEF HeartInv, Init
<1> QED
  BY <1>4, <1>5, <1>6, <1>7, Zenon DEF ParticipationInv

\* The inductive invariant holds in every state of the run, for any accounts, nodes,
\* weights, lookback, challenge interval, bounds and history that meet the assumptions.
THEOREM ParticipationInvariant == Spec => []ParticipationInv
<1>1. Init => ParticipationInv
  BY InitInv, Zenon
<1>2. ParticipationInv /\ [Next]_vars => ParticipationInv'
  BY TypeStep, WeighedStep, FreeStep, HeartStep, Zenon DEF ParticipationInv
<1> QED
  BY <1>1, <1>2, PTL DEF Spec

\* The lists of expired and absent accounts that a node generates pass the checks that
\* every node makes of them exactly when the queries that the checks make are answered,
\* whoever generates, whatever candidates it is given.
THEOREM GeneratedListsValid == Spec => []GeneratedValid
<1>1. ASSUME ParticipationInv PROVE GeneratedValid
  <2>1. TypeInv /\ WeighedInv /\ round \in Nat
    BY <1>1, Rounds, Zenon DEF ParticipationInv
  <2>2. DOMAIN online = BalanceRound(round + 1) .. round
    BY <2>1, Zenon DEF TypeInv
  <2>3. TypeOK
    BY <2>1, <2>2, Zenon DEF TypeInv, WeighedInv, Coherent, TypeOK, Heartbeats
  <2>4. ASSUME NEW n \in Nodes, NEW cands \in CandidateSets(n),
               NEW E \in ExpiredLists(cands, round + 1),
               NEW A \in AbsentLists(cands, E, round + 1), NEW up \in Answers
        PROVE  Valid(E, A, round + 1, up) <=> Granted(A, up)
    <3> DEFINE recs == resetExpiredOnlineAccountsParticipationKeys(mods, E)
    <3>1. cands \in SUBSET Accounts
      BY <2>1, CandidateTypes, Zenon
    <3>2. validateExpiredOnlineAccounts(mods, E, round + 1)
      BY Zenon DEF ExpiredLists, Expirable, validateExpiredOnlineAccounts
    <3>3. Cardinality(A) <= MaxMarkAbsent
      BY Zenon DEF AbsentLists
    <3>4. ASSUME NEW x \in A
          PROVE  /\ ExternalWeight(BalanceRound(round + 1), x) # 0
                 /\ Absent(x, recs[x], round + 1)
      <4>1. /\ x \in Accounts /\ x \notin E /\ Absent(x, mods[x], round + 1)
            /\ ExternalWeight(BalanceRound(round + 1), x) # 0
        BY <3>1, Zenon DEF AbsentLists
      <4>2. recs[x] = mods[x]
        BY <4>1, Zenon DEF resetExpiredOnlineAccountsParticipationKeys
      <4> QED
        BY <4>1, <4>2, Zenon
    <3> HIDE DEF recs
    <3>5. validateAbsentOnlineAccounts(recs, A, round + 1, up) <=> Granted(A, up)
      BY <3>3, <3>4, Zenon DEF validateAbsentOnlineAccounts, Granted
    <3> QED
      BY <3>2, <3>5, Zenon DEF Valid, recs
  <2> QED
    BY <2>3, <2>4, Zenon DEF GeneratedValid
<1> QED
  BY <1>1, ParticipationInvariant, PTL

\* Generating the lists asks for the weight of an account that has none, which panics the
\* proposer, only when the account registered its keys after the balance round.
THEOREM SettledAreWeighed == Spec => []SettledWeighed
<1>1. ASSUME ParticipationInv PROVE SettledWeighed
  <2>1. TypeInv /\ WeighedInv /\ round \in Nat
    BY <1>1, Rounds, Zenon DEF ParticipationInv
  <2>2. /\ BalanceRound(round + 1) \in DOMAIN online /\ BalanceRound(round + 1) \in Nat
        /\ registered \in [Accounts -> Nat]
    BY <2>1, ParticipationAssumption DEF TypeInv, BalanceRound
  <2>3. ASSUME NEW n \in Nodes, NEW cands \in CandidateSets(n), NEW E,
               NEW x \in ZeroWeight(cands \ E, round + 1)
        PROVE  registered[x] > BalanceRound(round + 1)
    <3>1. /\ x \in Accounts /\ Counts(mods[x])
          /\ ExternalWeight(BalanceRound(round + 1), x) = 0
      BY <2>1, CandidateTypes, Zenon DEF ZeroWeight, Counts
    <3>2. OnlineSince(x)
      BY <2>1, <3>1, Zenon DEF WeighedInv
    <3>3. Weight[x] # 0
      BY <3>1, ParticipationAssumption, Zenon
    <3>4. online[BalanceRound(round + 1)][x] = 0
      BY <3>1, <3>3, Zenon DEF ExternalWeight
    <3>5. ~(BalanceRound(round + 1) >= registered[x])
      BY <2>2, <3>2, <3>4, Zenon DEF OnlineSince
    <3>6. registered[x] \in Nat
      BY <2>2, <3>1, Zenon
    <3> QED
      BY <2>2, <3>5, <3>6
  <2> QED
    BY <2>3, Zenon DEF SettledWeighed
<1> QED
  BY <1>1, ParticipationInvariant, PTL

\* While fewer turns and blocks are missed than the second half of the grace period has, no
\* account whose node can use its keys is suspended because of a challenge.
THEOREM HeartbeatsDoSuffice == Spec => []HeartbeatsSuffice
<1>1. ParticipationInv => HeartbeatsSuffice
  BY Zenon DEF ParticipationInv, HeartInv, HeartbeatsSuffice
<1> QED
  BY <1>1, ParticipationInvariant, PTL

\* An account heartbeats for free at most once for a challenge.
THEOREM FreeOnlyOnce == Spec => []OneFreeHeartbeat
<1>1. ParticipationInv => OneFreeHeartbeat
  BY DEF ParticipationInv, FreeInv, OneFreeHeartbeat
<1> QED
  BY <1>1, ParticipationInvariant, PTL
=============================================================================
