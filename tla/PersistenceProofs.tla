------------------------- MODULE PersistenceProofs --------------------------
(***************************************************************************)
(* Proofs about Persistence for every set of values and points and every   *)
(* number of rounds, votes tasks and restarts.  They are about the road of *)
(* a vote from the player to the network: what the crash database holds    *)
(* when the vote leaves, and what a restart makes of it.                   *)
(***************************************************************************)
EXTENDS Persistence, TLAPS

USE BoundAssumption

----------------------------------------------------------------------------
(* The inductive invariant.                                                *)

Actions == [T : {"attest", "relay"}, vote : Votes] \cup [T : {"ensure"}, Round : Rounds]
           \cup [T : {"checkpoint"}, err : BOOLEAN]
Requests == {"new", "pending", "writing", "stored", "failed", "read", "done"}
Tasks == {"queued", "waiting", "sending", "closed"}
States == [Round : 0 .. MaxRound, cast : SUBSET Points, acts : Seq(Actions)]
Jobs == [vote : Votes, state : States, request : Requests, task : Tasks]

\* The votes that a list of actions makes or relays.
VotesIn(al) == {al[i].vote : i \in {k \in 1 .. Len(al) : al[k].T \in {"attest", "relay"}}}

\* A persisted state knows the votes of its own actions.
SelfCovered(s) == \A x \in VotesIn(s.acts) : Covers(s, x)

TypeInv ==
    /\ pc \in {"do", "poll", "select", "quit", "down"}
    /\ acts \in Seq(Actions)
    /\ status \in [Round : 1 .. (MaxRound + 1), cast : SUBSET Points]
    /\ persist \in States /\ disk \in States
    /\ jobs \in Seq(Jobs)
    /\ ledger \in [next : 1 .. (MaxRound + 1), durable : 1 .. (MaxRound + 1)]
    /\ ledger.durable <= ledger.next /\ disk.Round <= ledger.durable
    /\ quit \in BOOLEAN /\ sent \subseteq Votes /\ restarts \in Nat

\* Every vote the node has sent, may still send, or would make again.
KnownOf(js) == UNION {{js[i].vote} \cup VotesIn(js[i].state.acts) : i \in 1 .. Len(js)}
Known == sent \cup VotesIn(acts) \cup VotesIn(persist.acts) \cup VotesIn(disk.acts) \cup KnownOf(jobs)

Agree(x, y) == x.Round = y.Round /\ x.point = y.point => x = y

\* Two of them for one point are the same vote, and the player will not vote
\* there again.
VoteInv ==
    /\ \A x, y \in Known : Agree(x, y)
    /\ \A x \in Known : Covers(status, x)

\* The state t knows whatever s knows.
Upto(s, t) == s.Round < t.Round \/ (s.Round = t.Round /\ s.cast \subseteq t.cast)

Kept(x) == Covers(disk, x) \/ ledger.durable > x.Round

\* The persistence loop writes the states in the order of the votes tasks.
InOrder(i, k) ==
    /\ jobs[i].request # "new"
    /\ jobs[k].request # "new" => jobs[i].request # "pending"
    /\ jobs[k].request \notin {"new", "pending"} => jobs[i].request # "writing"
    /\ Upto(jobs[i].state, jobs[k].state)

Written(j) == j.request = "stored" \/ (j.request = "done" /\ j.task # "closed")

JobKept(i) ==
    /\ Covers(jobs[i].state, jobs[i].vote) /\ Upto(jobs[i].state, persist)
    /\ jobs[i].request \in {"new", "pending", "writing"} => Upto(disk, jobs[i].state)
    /\ Written(jobs[i]) => Kept(jobs[i].vote)

\* What the actions rely on: an attest's state is the persisted one, a vote is
\* relayed and a task released only when the vote is kept.
ActKept(a) ==
    /\ a.T = "attest" => Covers(persist, a.vote)
    /\ a.T = "relay" => Kept(a.vote)
    /\ a.T = "checkpoint" /\ ~a.err => jobs # << >> /\ Kept(jobs[1].vote)

SentKept == \A x \in sent : Kept(x)
StatesGrow == Upto(persist, status) /\ Upto(disk, persist)
JobsKept == \A i \in 1 .. Len(jobs) : JobKept(i)
JobsInOrder == \A i, k \in 1 .. Len(jobs) : i < k => InOrder(i, k)
ActsKept == \A i \in 1 .. Len(acts) : ActKept(acts[i])

\* Before the first restart a vote reaches the network only once it is kept.
DurableInv == SentKept /\ StatesGrow /\ JobsKept /\ JobsInOrder /\ ActsKept

CoverInv ==
    /\ pc # "do" => acts = << >>
    /\ SelfCovered(persist) /\ SelfCovered(disk)
    /\ \A i \in 1 .. Len(jobs) : SelfCovered(jobs[i].state)

PersistInv ==
    /\ TypeInv /\ CoverInv
    /\ restarts <= 1 => VoteInv
    /\ restarts = 0 => DurableInv

----------------------------------------------------------------------------
(* Lemmas about the data.                                                  *)

\* What the knowledge of states orders.
LEMMA UptoCovers ==
    ASSUME NEW s, NEW t, NEW x, s.Round \in Nat, t.Round \in Nat, x.Round \in Nat,
           Upto(s, t), Covers(s, x)
    PROVE  Covers(t, x)
  BY DEF Upto, Covers

LEMMA UptoTransitive ==
    ASSUME NEW s, NEW t, NEW u, s.Round \in Nat, t.Round \in Nat, u.Round \in Nat,
           Upto(s, t), Upto(t, u)
    PROVE  Upto(s, u)
  BY DEF Upto

Make(v, s, r, k) == [vote |-> v, state |-> s, request |-> r, task |-> k]

\* js1 is js with the request and the task of job i as given.
Moved(js, js1, i, r, k) ==
    /\ js1 \in Seq(Jobs) /\ Len(js1) = Len(js)
    /\ \A n \in 1 .. Len(js) :
          /\ js1[n].vote = js[n].vote /\ js1[n].state = js[n].state
          /\ js1[n].request = IF n = i THEN r ELSE js[n].request
          /\ js1[n].task = IF n = i THEN k ELSE js[n].task

LEMMA JobFields ==
    ASSUME NEW js \in Seq(Jobs), NEW i \in 1 .. Len(js)
    PROVE  /\ js[i].vote \in Votes /\ js[i].state \in States
           /\ js[i].request \in Requests /\ js[i].task \in Tasks
           /\ js[i] = Make(js[i].vote, js[i].state, js[i].request, js[i].task)
<1>1. js[i] \in Jobs
  OBVIOUS
<1> QED
  BY <1>1, Zenon DEF Jobs, Make

LEMMA MoveJob ==
    ASSUME NEW js \in Seq(Jobs), NEW i \in 1 .. Len(js), NEW j \in Jobs,
           j.vote = js[i].vote, j.state = js[i].state
    PROVE  Moved(js, [js EXCEPT ![i] = j], i, j.request, j.task)
  BY DEF Moved

\* A job that moves on keeps its vote and its state.
LEMMA MoveRequest ==
    ASSUME NEW js \in Seq(Jobs), NEW i \in 1 .. Len(js), NEW r \in Requests
    PROVE  Moved(js, [js EXCEPT ![i].request = r], i, r, js[i].task)
<1>1. PICK v \in Votes, s \in States, q \in Requests, k \in Tasks : js[i] = Make(v, s, q, k)
  BY JobFields
<1>2. [js EXCEPT ![i].request = r] = [js EXCEPT ![i] = Make(v, s, r, k)]
  <2>1. [js[i] EXCEPT !.request = r] = Make(v, s, r, k)
    BY <1>1 DEF Make
  <2> QED
    BY <2>1, Zenon
<1>3. /\ Make(v, s, r, k) \in Jobs /\ js[i].vote = v /\ js[i].state = s /\ js[i].task = k
      /\ Make(v, s, r, k).vote = v /\ Make(v, s, r, k).state = s
      /\ Make(v, s, r, k).request = r /\ Make(v, s, r, k).task = k
  BY <1>1 DEF Make, Jobs
<1>4. Moved(js, [js EXCEPT ![i] = Make(v, s, r, k)], i, Make(v, s, r, k).request, Make(v, s, r, k).task)
  BY <1>3, MoveJob, Zenon
<1> QED
  BY <1>2, <1>3, <1>4, Zenon

LEMMA MoveTask ==
    ASSUME NEW js \in Seq(Jobs), NEW i \in 1 .. Len(js), NEW k \in Tasks
    PROVE  Moved(js, [js EXCEPT ![i].task = k], i, js[i].request, k)
<1>1. PICK v \in Votes, s \in States, r \in Requests, q \in Tasks : js[i] = Make(v, s, r, q)
  BY JobFields
<1>2. [js EXCEPT ![i].task = k] = [js EXCEPT ![i] = Make(v, s, r, k)]
  <2>1. [js[i] EXCEPT !.task = k] = Make(v, s, r, k)
    BY <1>1 DEF Make
  <2> QED
    BY <2>1, Zenon
<1>3. /\ Make(v, s, r, k) \in Jobs /\ js[i].vote = v /\ js[i].state = s /\ js[i].request = r
      /\ Make(v, s, r, k).vote = v /\ Make(v, s, r, k).state = s
      /\ Make(v, s, r, k).request = r /\ Make(v, s, r, k).task = k
  BY <1>1 DEF Make, Jobs
<1>4. Moved(js, [js EXCEPT ![i] = Make(v, s, r, k)], i, Make(v, s, r, k).request, Make(v, s, r, k).task)
  BY <1>3, MoveJob, Zenon
<1> QED
  BY <1>2, <1>3, <1>4, Zenon

LEMMA TailFacts ==
    ASSUME NEW S, NEW s \in Seq(S), s # << >>
    PROVE  /\ Head(s) = s[1] /\ Len(s) \in Nat \ {0} /\ Tail(s) \in Seq(S) /\ Len(Tail(s)) = Len(s) - 1
           /\ \A i \in 1 .. Len(Tail(s)) : i + 1 \in 1 .. Len(s) /\ Tail(s)[i] = s[i + 1]
  OBVIOUS

\* Lists of one and two elements, and a list with one more.
LEMMA ShortLists ==
    ASSUME NEW S
    PROVE  /\ << >> \in Seq(S)
           /\ \A a \in S : <<a>> \in Seq(S) /\ Len(<<a>>) = 1 /\ <<a>>[1] = a /\ <<a>> \o << >> = <<a>>
           /\ \A a, b \in S : /\ <<a, b>> \in Seq(S) /\ Len(<<a, b>>) = 2
                             /\ <<a, b>>[1] = a /\ <<a, b>>[2] = b
           /\ \A s \in Seq(S), a \in S :
                 /\ Append(s, a) \in Seq(S) /\ Len(Append(s, a)) = Len(s) + 1
                 /\ \A i \in 1 .. Len(s) : Append(s, a)[i] = s[i]
                 /\ Append(s, a)[Len(s) + 1] = a
<1>1. \A a \in S : <<a>> \in Seq(S) /\ Len(<<a>>) = 1 /\ <<a>>[1] = a
  OBVIOUS
<1>2. \A a \in S : <<a>> \o << >> = <<a>>
  OBVIOUS
<1>3. \A a, b \in S : /\ <<a, b>> \in Seq(S) /\ Len(<<a, b>>) = 2
                     /\ <<a, b>>[1] = a /\ <<a, b>>[2] = b
  OBVIOUS
<1>5. \A s \in Seq(S), a \in S :
         /\ Append(s, a) \in Seq(S) /\ Len(Append(s, a)) = Len(s) + 1
         /\ \A i \in 1 .. Len(s) : Append(s, a)[i] = s[i]
         /\ Append(s, a)[Len(s) + 1] = a
  OBVIOUS
<1>6. << >> \in Seq(S)
  OBVIOUS
<1> QED
  BY <1>1, <1>2, <1>3, <1>5, <1>6, Zenon

LEMMA InVotesIn ==
    ASSUME NEW al, NEW x
    PROVE  x \in VotesIn(al) <=> \E k \in 1 .. Len(al) : al[k].T \in {"attest", "relay"} /\ al[k].vote = x
  BY Zenon DEF VotesIn

\* The rest of a list of actions holds only votes of the list.
LEMMA VotesInTail ==
    ASSUME NEW al \in Seq(Actions), al # << >>
    PROVE  VotesIn(Tail(al)) \subseteq VotesIn(al)
<1> DEFINE tl == Tail(al)
<1>1. \A i \in 1 .. Len(tl) : i + 1 \in 1 .. Len(al) /\ tl[i] = al[i + 1]
  BY TailFacts, Zenon
<1> HIDE DEF tl
<1>2. ASSUME NEW x \in VotesIn(tl) PROVE x \in VotesIn(al)
  <2>1. PICK i \in 1 .. Len(tl) : tl[i].T \in {"attest", "relay"} /\ tl[i].vote = x
    BY InVotesIn, Zenon
  <2> QED
    BY <1>1, <2>1, InVotesIn
<1> QED
  BY <1>2, Zenon DEF tl

----------------------------------------------------------------------------
(* Types.                                                                  *)

LEMMA ActionTypes ==
    /\ \A x \in Votes : attest(x) \in Actions /\ [T |-> "relay", vote |-> x] \in Actions
    /\ \A r \in Rounds : ensure(r) \in Actions
    /\ \A e \in BOOLEAN : [T |-> "checkpoint", err |-> e] \in Actions
  BY Zenon DEF Actions, attest, ensure

LEMMA ActionFields ==
    ASSUME NEW a \in Actions
    PROVE  /\ a.T \in {"attest", "relay"} => a.vote \in Votes
           /\ a.T = "ensure" => a.Round \in Rounds
           /\ a.T = "checkpoint" => a.err \in BOOLEAN
  BY Zenon DEF Actions

LEMMA LedgerMoves ==
    ASSUME NEW lg \in [next : Nat, durable : Nat]
    PROVE  /\ \A x : [lg EXCEPT !.next = x] = [next |-> x, durable |-> lg.durable]
           /\ \A x : [lg EXCEPT !.durable = x] = [next |-> lg.next, durable |-> x]
<1>1. PICK n, d : lg = [next |-> n, durable |-> d]
  BY Zenon
<1>2. lg.next = n /\ lg.durable = d
  BY <1>1, Zenon
<1> QED
  BY <1>1, <1>2

----------------------------------------------------------------------------
(* What the steps do to the jobs, the actions and the player.              *)

LEMMA MovedTwice ==
    ASSUME NEW js \in Seq(Jobs), NEW i \in 1 .. Len(js), NEW r \in Requests, NEW k \in Tasks
    PROVE  Moved(js, [[js EXCEPT ![i].request = r] EXCEPT ![i].task = k], i, r, k)
<1> DEFINE j1 == [js EXCEPT ![i].request = r]
           j2 == [j1 EXCEPT ![i].task = k]
<1>1. Moved(js, j1, i, r, js[i].task)
  BY MoveRequest, Zenon
<1>2. j1 \in Seq(Jobs) /\ Len(j1) = Len(js) /\ j1[i].request = r
  BY <1>1, Zenon DEF Moved
<1> HIDE DEF j1
<1>3. Moved(j1, j2, i, r, k)
  BY <1>2, MoveTask, Zenon
<1> HIDE DEF j2
<1>4. Moved(js, j2, i, r, k)
  BY <1>1, <1>2, <1>3, Zenon DEF Moved
<1> QED
  BY <1>4, Zenon DEF j2, j1

LEMMA CheckpointMoves ==
    ASSUME TypeInv, Checkpoint
    PROVE  \/ jobs = << >> /\ jobs' = jobs
           \/ jobs # << >> /\ Moved(jobs, jobs', 1, "done", IF Head(acts).err THEN "closed" ELSE jobs[1].task)
<1> DEFINE k == IF Head(acts).err THEN "closed" ELSE jobs[1].task
<1>0. jobs \in Seq(Jobs)
  BY Zenon DEF TypeInv
<1>1. jobs' = [jobs EXCEPT ![1].request = "done", ![1].task = IF Head(acts).err THEN "closed" ELSE @]
  BY Zenon DEF Checkpoint
<1>2. CASE jobs = << >>
  <2>1. DOMAIN jobs = {}
    BY <1>2
  <2>2. DOMAIN jobs' = {} /\ jobs' = [i \in DOMAIN jobs' |-> jobs'[i]]
    BY <1>1, <2>1, Zenon
  <2>3. jobs' = << >>
    BY <2>2
  <2> QED
    BY <1>2, <2>3, Zenon
<1>3. CASE jobs # << >>
  <2>1. 1 \in 1 .. Len(jobs)
    BY <1>0, <1>3
  <2>2. k \in Tasks /\ "done" \in Requests
    BY <1>0, <2>1, JobFields, Zenon DEF Tasks, Requests
  <2>3. jobs' = [[jobs EXCEPT ![1].request = "done"] EXCEPT ![1].task = k]
    <3> DEFINE j1 == [jobs EXCEPT ![1].request = "done"]
    <3>1. j1[1].task = jobs[1].task
      <4>1. Moved(jobs, j1, 1, "done", jobs[1].task)
        BY <1>0, <2>1, <2>2, MoveRequest, Zenon
      <4> QED
        BY <2>1, <4>1, Zenon DEF Moved
    <3>2. jobs' = [j1 EXCEPT ![1].task = IF Head(acts).err THEN "closed" ELSE j1[1].task]
      BY <1>1, Zenon
    <3> QED
      BY <3>1, <3>2, Zenon
  <2> QED
    BY <1>0, <1>3, <2>1, <2>2, <2>3, MovedTwice, Zenon
<1> QED
  BY <1>2, <1>3, Zenon

LEMMA ReadMoves ==
    ASSUME TypeInv, CoverInv, ReadQueue
    PROVE  /\ persist' = persist /\ status' = status /\ jobs # << >> /\ acts = << >>
           /\ \/ /\ jobs[1].request \in {"stored", "failed"} /\ pc' = "do"
                 /\ Moved(jobs, jobs', 1, "read", jobs[1].task)
                 /\ acts' = <<[T |-> "checkpoint", err |-> jobs[1].request = "failed"]>>
              \/ /\ jobs[1].request = "done" /\ jobs[1].task = "sending" /\ pc' = "do"
                 /\ Moved(jobs, jobs', 1, "done", "closed")
                 /\ acts' \in {<< >>, <<[T |-> "relay", vote |-> jobs[1].vote]>>}
              \/ /\ jobs[1].request = "done" /\ jobs[1].task = "closed"
                 /\ jobs' = Tail(jobs) /\ pc' = "poll" /\ acts' = acts
<1>1. jobs \in Seq(Jobs) /\ jobs # << >> /\ 1 \in 1 .. Len(jobs) /\ acts = << >>
  BY DEF TypeInv, CoverInv, ReadQueue, Ready
<1>2. CASE jobs[1].request # "done"
  <2>1. /\ jobs' = [jobs EXCEPT ![1].request = "read"]
        /\ Submit(status, <<[T |-> "checkpoint", err |-> jobs[1].request = "failed"]>>)
    BY <1>2, Zenon DEF ReadQueue
  <2>2. jobs[1].request \in {"stored", "failed"}
    BY <1>2, Zenon DEF ReadQueue, Ready
  <2>3. Moved(jobs, jobs', 1, "read", jobs[1].task)
    BY <1>1, <2>1, MoveRequest, Zenon DEF Requests
  <2>4. status' = status /\ persist' = persist /\ pc' = "do"
        /\ acts' = <<[T |-> "checkpoint", err |-> jobs[1].request = "failed"]>>
    <3> DEFINE al == <<[T |-> "checkpoint", err |-> jobs[1].request = "failed"]>>
    <3>1. ~ \E i \in 1 .. Len(al) : al[i].T = "attest"
      OBVIOUS
    <3> QED
      BY <2>1, <3>1, Zenon DEF Submit
  <2> QED
    BY <1>1, <2>2, <2>3, <2>4, Zenon
<1>3. CASE jobs[1].request = "done" /\ jobs[1].task = "sending"
  <2>1. /\ jobs' = [jobs EXCEPT ![1].task = "closed"]
        /\ Submit(status, << >>) \/ Submit(status, <<[T |-> "relay", vote |-> jobs[1].vote]>>)
    BY <1>3, Zenon DEF ReadQueue
  <2>2. Moved(jobs, jobs', 1, "done", "closed")
    BY <1>1, <1>3, <2>1, MoveTask, Zenon DEF Tasks
  <2>3. status' = status /\ persist' = persist /\ pc' = "do"
        /\ acts' \in {<< >>, <<[T |-> "relay", vote |-> jobs[1].vote]>>}
    <3> DEFINE al == <<[T |-> "relay", vote |-> jobs[1].vote]>>
    <3>1. (~ \E i \in 1 .. Len(al) : al[i].T = "attest") /\ (~ \E i \in 1 .. Len(<< >>) : << >>[i].T = "attest")
      OBVIOUS
    <3> QED
      BY <2>1, <3>1, Zenon DEF Submit
  <2> QED
    BY <1>1, <1>3, <2>2, <2>3, Zenon
<1>4. CASE jobs[1].request = "done" /\ jobs[1].task # "sending"
  <2>1. jobs' = Tail(jobs) /\ pc' = "poll" /\ UNCHANGED <<acts, status, persist>>
    BY <1>4, Zenon DEF ReadQueue
  <2>2. jobs[1].task = "closed"
    BY <1>4, Zenon DEF ReadQueue, Ready
  <2> QED
    BY <1>1, <1>4, <2>1, <2>2, Zenon
<1> QED
  BY <1>2, <1>3, <1>4, Zenon

\* The current task never opens again.
LEMMA RunMoves ==
    ASSUME TypeInv, NEW i \in 1 .. Len(jobs), RunTask(i)
    PROVE  /\ jobs[i].task # "closed"
           /\ \E k \in Tasks : Moved(jobs, jobs', i, jobs[i].request, k)
<1>1. jobs \in Seq(Jobs)
  BY Zenon DEF TypeInv
<1>2. jobs[i].task # "closed" /\ \E k \in Tasks : jobs' = [jobs EXCEPT ![i].task = k]
  BY Zenon DEF RunTask, Current, Tasks
<1>3. PICK k \in Tasks : jobs' = [jobs EXCEPT ![i].task = k]
  BY <1>2, Zenon
<1>4. Moved(jobs, jobs', i, jobs[i].request, k)
  BY <1>1, <1>3, MoveTask, Zenon
<1> QED
  BY <1>2, <1>4, Zenon

LEMMA CastShape ==
    ASSUME TypeInv, NEW pt \in Points, NEW v \in Values, CastVote(pt, v)
    PROVE  LET x == [Round |-> status.Round, point |-> pt, value |-> v]
           IN  /\ x \in Votes /\ ~Covers(status, x)
               /\ acts' = <<attest(x)>> /\ acts' \in Seq(Actions) /\ pc' = "do"
               /\ status' = [Round |-> status.Round, cast |-> status.cast \cup {pt}]
               /\ status' \in [Round : 1 .. (MaxRound + 1), cast : SUBSET Points]
               /\ persist' = [Round |-> status'.Round, cast |-> status'.cast, acts |-> acts']
               /\ persist' \in States
<1> DEFINE x == [Round |-> status.Round, point |-> pt, value |-> v]
           s == [Round |-> status.Round, cast |-> status.cast \cup {pt}]
           al == <<attest(x)>>
<1>1. /\ status \in [Round : 1 .. (MaxRound + 1), cast : SUBSET Points]
      /\ status.Round <= MaxRound /\ pt \notin status.cast
  BY Zenon DEF TypeInv, CastVote
<1>2. [status EXCEPT !.cast = @ \cup {pt}] = s
  <2>1. PICK r, c : status = [Round |-> r, cast |-> c]
    BY <1>1, Zenon
  <2>2. [status EXCEPT !.cast = status.cast \cup {pt}] = s
    BY <2>1
  <2> QED
    BY <2>2, Zenon
<1>3. Submit(s, al)
  BY <1>2, Zenon DEF CastVote
<1>4. /\ x \in Votes /\ ~Covers(status, x) /\ s \in [Round : 1 .. (MaxRound + 1), cast : SUBSET Points]
      /\ s.Round \in 0 .. MaxRound
  BY <1>1 DEF Votes, Rounds, Covers
<1>5. al \in Seq(Actions) /\ Len(al) = 1 /\ al[1].T = "attest"
  <2>1. attest(x) \in Actions /\ attest(x).T = "attest"
    BY <1>4, ActionTypes, Zenon DEF attest
  <2> QED
    BY <2>1, ShortLists, Zenon
<1> HIDE DEF x, s, al
<1>6. status' = s /\ acts' = al /\ pc' = "do" /\ persist' = [Round |-> s.Round, cast |-> s.cast, acts |-> al]
  BY <1>3, <1>5 DEF Submit
<1>7. persist' \in States
  BY <1>4, <1>5, <1>6, Zenon DEF States
<1>8. status' = s /\ acts' = al /\ persist' = [Round |-> status'.Round, cast |-> status'.cast, acts |-> acts']
  BY <1>6, Zenon
<1> QED
  BY <1>4, <1>5, <1>6, <1>7, <1>8, Zenon DEF x, s, al

LEMMA EndShape ==
    ASSUME TypeInv, NEW pts \in {{}} \cup {{pt} : pt \in Points}, NEW v \in Values, EndRound(pts, v)
    PROVE  /\ status' = [Round |-> status.Round + 1, cast |-> pts]
           /\ status' \in [Round : 1 .. (MaxRound + 1), cast : SUBSET Points]
           /\ acts' \in Seq(Actions) /\ persist' \in States /\ pc' = "do"
           /\ LET e == ensure(status.Round)
              IN  \/ pts = {} /\ acts' = <<e>> /\ persist' = persist
                  \/ \E pt \in Points : LET x == [Round |-> status.Round + 1, point |-> pt, value |-> v]
                                        IN  /\ pts = {pt} /\ x \in Votes /\ acts' = <<e, attest(x)>>
                                            /\ persist' = [Round |-> status'.Round, cast |-> pts, acts |-> acts']
<1> DEFINE e == ensure(status.Round)
           s == [Round |-> status.Round + 1, cast |-> pts]
<1>1. /\ status.Round \in 1 .. MaxRound /\ (status.Round = MaxRound => pts = {})
      /\ status.Round + 1 \in 1 .. (MaxRound + 1)
  BY DEF TypeInv, EndRound
<1>2. Submit(s, IF pts = {} THEN <<e>>
                ELSE <<e, attest([Round |-> status.Round + 1, point |-> CHOOSE p \in pts : TRUE, value |-> v])>>)
  BY Zenon DEF EndRound
<1>3. s \in [Round : 1 .. (MaxRound + 1), cast : SUBSET Points] /\ e \in Actions
  BY <1>1, ActionTypes, Zenon DEF Rounds
<1> HIDE DEF e
<1>4. CASE pts = {}
  <2>4. <<e>> \in Seq(Actions) /\ Len(<<e>>) = 1 /\ <<e>>[1].T # "attest"
    BY <1>3 DEF e, ensure
  <2>5. status' = s /\ acts' = <<e>> /\ pc' = "do" /\ persist' = persist
    <3>1. Submit(s, <<e>>)
      BY <1>2, <1>4, Zenon
    <3> HIDE DEF s
    <3> QED
      BY <2>4, <3>1 DEF Submit
  <2> QED
    BY <1>3, <1>4, <2>4, <2>5, Zenon DEF TypeInv, e
<1>5. ASSUME NEW pt \in Points, pts = {pt}
      PROVE  LET x == [Round |-> status.Round + 1, point |-> pt, value |-> v]
             IN  /\ x \in Votes /\ acts' = <<e, attest(x)>> /\ acts' \in Seq(Actions) /\ pc' = "do"
                 /\ persist' = [Round |-> status'.Round, cast |-> pts, acts |-> acts']
                 /\ persist' \in States /\ status' = s
  <2> DEFINE x == [Round |-> status.Round + 1, point |-> pt, value |-> v]
             a == attest(x)
  <2>1. (CHOOSE p \in pts : TRUE) = pt
    BY <1>5, Zenon
  <2>2. x \in Votes /\ attest(x) \in Actions
    <3>1. status.Round + 1 \in Rounds
      BY <1>1, <1>5 DEF Rounds
    <3>2. x \in Votes
      BY <3>1, Zenon DEF Votes
    <3> QED
      BY <3>2, ActionTypes, Zenon
  <2>4. a.T = "attest" /\ a \in Actions
    BY <2>2, Zenon DEF attest
  <2>8. Submit(s, <<e, a>>)
    <3>1. pts # {}
      BY <1>5, Zenon
    <3> QED
      BY <1>2, <2>1, <3>1, Zenon
  <2> HIDE DEF a
  <2>7. <<e, a>> \in Seq(Actions) /\ Len(<<e, a>>) = 2 /\ <<e, a>>[2].T = "attest"
    BY <1>3, <2>4
  <2>9. status' = s /\ acts' = <<e, a>> /\ pc' = "do" /\ persist' = [Round |-> s.Round, cast |-> s.cast, acts |-> <<e, a>>]
    BY <2>7, <2>8 DEF Submit
  <2>10. s.Round = status'.Round /\ s.cast = pts /\ s.Round \in 0 .. MaxRound
    BY <1>1, <1>5, <2>9
  <2>11. persist' = [Round |-> status'.Round, cast |-> pts, acts |-> acts']
    BY <2>9, <2>10, Zenon
  <2>12. persist' \in States
    BY <1>3, <2>7, <2>9, <2>10, Zenon DEF States
  <2> QED
    BY <2>2, <2>7, <2>9, <2>11, <2>12, Zenon DEF a
<1>6. pts = {} \/ \E pt \in Points : pts = {pt}
  BY Zenon
<1> QED
  BY <1>3, <1>4, <1>5, <1>6, Zenon DEF e

LEMMA RestartShape ==
    ASSUME TypeInv, CoverInv, Restart
    PROVE  /\ jobs' = << >> /\ persist' = ZeroState /\ restarts' = restarts + 1 /\ UNCHANGED <<disk, sent>>
           /\ ledger' = [next |-> ledger.durable, durable |-> ledger.durable]
           /\ status' \in [Round : 1 .. (MaxRound + 1), cast : SUBSET Points] /\ acts' \in Seq(Actions)
           /\ \/ /\ disk.Round < ledger.durable /\ acts' = << >>
                 /\ status' = [Round |-> ledger.durable, cast |-> {}]
              \/ /\ disk.Round = ledger.durable /\ acts' = disk.acts
                 /\ status' = [Round |-> disk.Round, cast |-> disk.cast]
<1>1. /\ disk \in States /\ disk.Round <= ledger.durable /\ disk.Round \in Nat
      /\ ledger \in [next : Nat, durable : Nat] /\ ledger.durable \in 1 .. (MaxRound + 1)
  BY DEF TypeInv, States
<1>2. ledger' = [next |-> ledger.durable, durable |-> ledger.durable]
  BY <1>1, LedgerMoves, Zenon DEF Restart
<1>3. /\ jobs' = << >> /\ persist' = ZeroState /\ restarts' = restarts + 1 /\ UNCHANGED <<disk, sent>>
      /\ LET s == Restore(disk, ledger.durable)
         IN  status' = [Round |-> s.Round, cast |-> s.cast] /\ acts' = s.acts
  BY Zenon DEF Restart
<1>4. CASE disk.Round < ledger.durable
  <2>1. acts' = << >> /\ status' = [Round |-> ledger.durable, cast |-> {}]
    BY <1>3, <1>4, Zenon DEF Restore
  <2>2. status' \in [Round : 1 .. (MaxRound + 1), cast : SUBSET Points] /\ acts' \in Seq(Actions)
    BY <1>1, <2>1, ShortLists, Zenon
  <2> QED
    BY <1>2, <1>3, <1>4, <2>1, <2>2, Zenon
<1>5. CASE ~(disk.Round < ledger.durable)
  <2>1. acts' = disk.acts /\ status' = [Round |-> disk.Round, cast |-> disk.cast]
    BY <1>3, <1>5, Zenon DEF Restore
  <2>2. disk.Round = ledger.durable /\ disk.acts \in Seq(Actions) /\ disk.cast \in SUBSET Points
    BY <1>1, <1>5 DEF States
  <2> QED
    BY <1>1, <1>2, <1>3, <2>1, <2>2
<1> QED
  BY <1>4, <1>5, Zenon

LEMMA PersistMoves ==
    ASSUME TypeInv, NEW i \in 1 .. Len(jobs), PersistState(i)
    PROVE  /\ jobs[i].request = "writing" /\ ledger.durable >= jobs[i].state.Round
           /\ \/ disk' = jobs[i].state /\ Moved(jobs, jobs', i, "stored", jobs[i].task)
              \/ disk' = disk /\ Moved(jobs, jobs', i, "failed", jobs[i].task)
<1>1. jobs \in Seq(Jobs) /\ "stored" \in Requests /\ "failed" \in Requests
  BY Zenon DEF TypeInv, Requests
<1>2. /\ jobs[i].request = "writing" /\ ledger.durable >= jobs[i].state.Round
      /\ \/ disk' = jobs[i].state /\ jobs' = [jobs EXCEPT ![i].request = "stored"]
         \/ disk' = disk /\ jobs' = [jobs EXCEPT ![i].request = "failed"]
  BY Zenon DEF PersistState
<1>3. /\ Moved(jobs, [jobs EXCEPT ![i].request = "stored"], i, "stored", jobs[i].task)
      /\ Moved(jobs, [jobs EXCEPT ![i].request = "failed"], i, "failed", jobs[i].task)
  BY <1>1, MoveRequest, Zenon
<1> QED
  BY <1>2, <1>3, Zenon

LEMMA TypeStep == ASSUME TypeInv, CoverInv, [Next]_vars PROVE TypeInv'
<1>0. /\ acts \in Seq(Actions) /\ jobs \in Seq(Jobs) /\ disk \in States /\ persist \in States
      /\ status \in [Round : 1 .. (MaxRound + 1), cast : SUBSET Points]
      /\ ledger \in [next : Nat, durable : Nat] /\ ledger.next \in 1 .. (MaxRound + 1)
      /\ ledger.durable \in 1 .. ledger.next
  BY DEF TypeInv
<1>1. CASE MakeVotes
  <2>1. Head(acts).vote \in Votes /\ Tail(acts) \in Seq(Actions)
    BY <1>0, <1>1, TailFacts, ActionFields DEF MakeVotes, Performs
  <2> DEFINE j == Job(Head(acts).vote)
  <2>2. j \in Jobs
    BY <1>0, <2>1, Zenon DEF Job, Jobs, Requests, Tasks
  <2> HIDE DEF j
  <2>3. jobs' \in Seq(Jobs) /\ acts' \in Seq(Actions)
    <3>1. \/ acts' = Tail(acts) /\ jobs' = jobs
          \/ jobs' = Append(jobs, j) /\ acts' = acts
      BY <1>1, Zenon DEF MakeVotes, j
    <3> QED
      <4>1. Append(jobs, j) \in Seq(Jobs)
        BY <1>0, <2>2, ShortLists, Zenon
      <4> QED
        BY <1>0, <2>1, <3>1, <4>1, Zenon
  <2> QED
    BY <1>1, <2>3, Zenon DEF MakeVotes, TypeInv
<1>2. CASE Enqueue
  <2>1. jobs # << >> /\ Tail(acts) \in Seq(Actions)
    BY <1>0, <1>2, TailFacts, Zenon DEF Enqueue, Enqueuing, Performs
  <2>2. jobs' \in Seq(Jobs)
    <3>1. Len(jobs) \in 1 .. Len(jobs) /\ "pending" \in Requests
      BY <1>0, <2>1 DEF Requests
    <3> QED
      BY <1>0, <1>2, <3>1, MoveRequest, Zenon DEF Enqueue, Moved
  <2>3. acts' = Tail(acts) /\ UNCHANGED <<pc, status, persist, disk, ledger, quit, sent, restarts>>
    BY <1>2, Zenon DEF Enqueue
  <2> QED
    BY <2>1, <2>2, <2>3, Zenon DEF TypeInv
<1>3. CASE Checkpoint
  <2>1. Tail(acts) \in Seq(Actions)
    BY <1>0, <1>3, TailFacts, Zenon DEF Checkpoint, Performs
  <2>2. jobs' \in Seq(Jobs)
    BY <1>0, <1>3, CheckpointMoves, Zenon DEF Moved
  <2>3. acts' = Tail(acts) /\ UNCHANGED <<pc, status, persist, disk, ledger, quit, sent, restarts>>
    BY <1>3, Zenon DEF Checkpoint
  <2> QED
    BY <2>1, <2>2, <2>3, Zenon DEF TypeInv
<1>4. CASE Relay
  <2>1. Head(acts).vote \in Votes /\ Tail(acts) \in Seq(Actions)
    BY <1>0, <1>4, TailFacts, ActionFields DEF Relay, Performs
  <2> QED
    BY <1>4, <2>1, Zenon DEF Relay, TypeInv
<1>5. CASE Ensure
  <2>1. Head(acts).Round \in Rounds /\ Tail(acts) \in Seq(Actions)
    BY <1>0, <1>5, TailFacts, ActionFields DEF Ensure, Performs
  <2>2. ledger' = [next |-> IF ledger.next > Head(acts).Round THEN ledger.next ELSE Head(acts).Round + 1,
                   durable |-> ledger.durable]
    BY <1>0, <1>5, LedgerMoves, Zenon DEF Ensure
  <2>3. acts' = Tail(acts) /\ UNCHANGED <<pc, status, persist, jobs, disk, quit, sent, restarts>>
    BY <1>5, Zenon DEF Ensure
  <2> QED
    BY <1>0, <2>1, <2>2, <2>3 DEF Rounds, TypeInv
<1>6. CASE Done \/ Wait \/ LeaveLoop \/ Shutdown \/ UNCHANGED vars
  BY <1>6, Zenon DEF Done, Wait, LeaveLoop, Shutdown, vars, TypeInv
<1>7. CASE Flush \/ Catchup
  <2>1. /\ ledger' = [next |-> ledger.next, durable |-> ledger.durable + 1] \/
           ledger' = [next |-> ledger.next + 1, durable |-> ledger.durable]
        /\ ledger'.next \in 1 .. (MaxRound + 1) /\ ledger'.durable <= ledger'.next
    BY <1>0, <1>7, LedgerMoves DEF Flush, Catchup
  <2>2. UNCHANGED <<pc, acts, status, persist, jobs, disk, quit, sent, restarts>>
    BY <1>7, Zenon DEF Flush, Catchup
  <2> QED
    <3>1. /\ ledger' \in [next : 1 .. (MaxRound + 1), durable : 1 .. (MaxRound + 1)]
          /\ ledger'.durable <= ledger'.next /\ ledger.durable <= ledger'.durable
      BY <1>0, <2>1
    <3>2. disk.Round \in Nat /\ disk.Round <= ledger.durable
      BY <1>0 DEF States, TypeInv
    <3>3. disk'.Round <= ledger'.durable
      BY <1>0, <2>2, <3>1, <3>2
    <3> QED
      BY <2>2, <3>1, <3>3, Zenon DEF TypeInv
<1>8. CASE ReadQueue
  <2>1. jobs' \in Seq(Jobs)
    <3>1. Tail(jobs) \in Seq(Jobs)
      BY <1>0, <1>8, ReadMoves, TailFacts, Zenon
    <3> QED
      BY <1>8, <3>1, ReadMoves, Zenon DEF Moved
  <2>2. acts' \in Seq(Actions) /\ persist' = persist /\ status' = status /\ pc' \in {"do", "poll"}
    <3>1. /\ jobs # << >> /\ persist' = persist /\ status' = status /\ pc' \in {"do", "poll"}
          /\ acts' \in {acts, << >>, <<[T |-> "relay", vote |-> jobs[1].vote]>>,
                       <<[T |-> "checkpoint", err |-> jobs[1].request = "failed"]>>}
      BY <1>8, ReadMoves, Zenon
    <3>2. jobs[1].vote \in Votes /\ (jobs[1].request = "failed") \in BOOLEAN
      BY <1>0, <3>1, JobFields
    <3>3. /\ [T |-> "relay", vote |-> jobs[1].vote] \in Actions
          /\ [T |-> "checkpoint", err |-> jobs[1].request = "failed"] \in Actions
      BY <3>2, ActionTypes, Zenon
    <3>4. /\ << >> \in Seq(Actions) /\ <<[T |-> "relay", vote |-> jobs[1].vote]>> \in Seq(Actions)
          /\ <<[T |-> "checkpoint", err |-> jobs[1].request = "failed"]>> \in Seq(Actions)
      BY <3>3, ShortLists, Zenon
    <3> QED
      BY <1>0, <3>1, <3>4, Zenon
  <2>3. UNCHANGED <<disk, ledger, quit, sent, restarts>>
    BY <1>8, Zenon DEF ReadQueue
  <2> QED
    BY <1>0, <2>1, <2>2, <2>3, Zenon DEF TypeInv
<1>9. ASSUME NEW pt \in Points, NEW v \in Values, CastVote(pt, v) PROVE TypeInv'
  <2>1. /\ acts' \in Seq(Actions) /\ persist' \in States /\ pc' = "do"
        /\ status' \in [Round : 1 .. (MaxRound + 1), cast : SUBSET Points]
    BY <1>9, CastShape, Zenon
  <2>2. UNCHANGED <<jobs, disk, ledger, quit, sent, restarts>>
    BY <1>9, Zenon DEF CastVote
  <2> QED
    BY <2>1, <2>2, Zenon DEF TypeInv
<1>10. ASSUME NEW pts \in {{}} \cup {{pt} : pt \in Points}, NEW v \in Values, EndRound(pts, v)
       PROVE  TypeInv'
  <2>1. /\ acts' \in Seq(Actions) /\ persist' \in States /\ pc' = "do"
        /\ status' \in [Round : 1 .. (MaxRound + 1), cast : SUBSET Points]
    BY <1>10, EndShape, Zenon
  <2>2. UNCHANGED <<jobs, disk, ledger, quit, sent, restarts>>
    BY <1>10, Zenon DEF EndRound
  <2> QED
    BY <2>1, <2>2, Zenon DEF TypeInv
<1>11. CASE RoundInterruption
  <2>1. /\ acts' = << >> /\ persist' = persist /\ pc' = "do"
        /\ status' = [Round |-> ledger.next, cast |-> {}]
    <3>1. Submit([Round |-> ledger.next, cast |-> {}], << >>)
      BY <1>11, Zenon DEF RoundInterruption
    <3>2. ~ \E i \in 1 .. Len(<< >>) : << >>[i].T = "attest"
      OBVIOUS
    <3> QED
      BY <3>1, <3>2, Zenon DEF Submit
  <2>2. UNCHANGED <<jobs, disk, ledger, quit, sent, restarts>>
    BY <1>11, Zenon DEF RoundInterruption
  <2> QED
    BY <1>0, <2>1, <2>2 DEF TypeInv
<1>12. ASSUME NEW i \in 1 .. Len(jobs), RunTask(i) PROVE TypeInv'
  <2>1. jobs' \in Seq(Jobs)
    BY <1>0, <1>12, RunMoves, Zenon DEF Moved
  <2>2. UNCHANGED <<pc, acts, status, persist, disk, ledger, quit, sent, restarts>>
    BY <1>12, Zenon DEF RunTask
  <2> QED
    BY <2>1, <2>2, Zenon DEF TypeInv
<1>13. ASSUME NEW i \in 1 .. Len(jobs), TakeRequest(i) PROVE TypeInv'
  <2>1. jobs' \in Seq(Jobs)
    BY <1>0, <1>13, MoveRequest, Zenon DEF TakeRequest, Moved, Requests
  <2>2. UNCHANGED <<pc, acts, status, persist, disk, ledger, quit, sent, restarts>>
    BY <1>13, Zenon DEF TakeRequest
  <2> QED
    BY <2>1, <2>2, Zenon DEF TypeInv
<1>14. ASSUME NEW i \in 1 .. Len(jobs), PersistState(i) PROVE TypeInv'
  <2>1. jobs' \in Seq(Jobs)
    BY <1>14, PersistMoves, Zenon DEF Moved
  <2>2. disk' \in States /\ disk'.Round <= ledger.durable
    <3>1. jobs[i].state \in States
      BY <1>0, JobFields, Zenon
    <3>2. ledger.durable >= jobs[i].state.Round /\ (disk' = jobs[i].state \/ disk' = disk)
      BY <1>14, PersistMoves, Zenon
    <3>3. jobs[i].state.Round \in Nat /\ ledger.durable \in Nat /\ disk.Round <= ledger.durable
      <4>1. jobs[i].state.Round \in Nat
        BY <3>1 DEF States
      <4> QED
        BY <1>0, <4>1, Zenon DEF TypeInv
    <3> QED
      BY <1>0, <3>1, <3>2, <3>3, Zenon
  <2>3. UNCHANGED <<pc, acts, status, persist, ledger, quit, sent, restarts>>
    BY <1>14, Zenon DEF PersistState
  <2> QED
    BY <2>1, <2>2, <2>3, Zenon DEF TypeInv
<1>15. CASE ShutdownReturns
  BY <1>15 DEF ShutdownReturns, TypeInv
<1>16. CASE Restart
  <2>1. pc' = "do" /\ quit' = FALSE
    BY <1>16, Zenon DEF Restart
  <2>2. persist' \in States /\ jobs' \in Seq(Jobs)
    <3>1. ZeroState \in States
      BY ShortLists DEF ZeroState, States
    <3> QED
      BY <1>16, <3>1, RestartShape, ShortLists, Zenon
  <2>3. ledger' = [next |-> ledger.durable, durable |-> ledger.durable] /\ restarts' = restarts + 1
        /\ status' \in [Round : 1 .. (MaxRound + 1), cast : SUBSET Points] /\ acts' \in Seq(Actions)
        /\ disk' = disk /\ sent' = sent
    BY <1>16, RestartShape, Zenon
  <2>4. /\ ledger' \in [next : 1 .. (MaxRound + 1), durable : 1 .. (MaxRound + 1)]
        /\ ledger'.durable <= ledger'.next /\ disk.Round <= ledger'.durable
    BY <1>0, <2>3 DEF TypeInv
  <2>5. restarts' \in Nat
    BY <2>3 DEF TypeInv
  <2> QED
    BY <1>0, <2>1, <2>2, <2>3, <2>4, <2>5, Zenon DEF TypeInv
<1> QED
  BY <1>1, <1>2, <1>3, <1>4, <1>5, <1>6, <1>7, <1>8, <1>9, <1>10, <1>11, <1>12, <1>13, <1>14, <1>15, <1>16
     DEF Next, DemuxLoop, VerifierLoop, PersistenceLoop, Environment

----------------------------------------------------------------------------
(* The votes a list of actions and the jobs know of.                       *)

LEMMA InKnownOf ==
    ASSUME NEW js, NEW x
    PROVE  x \in KnownOf(js) <=> \E k \in 1 .. Len(js) : js[k].vote = x \/ x \in VotesIn(js[k].state.acts)
  BY DEF KnownOf

\* The lists of actions that the player returns.
LEMMA VotesOfActions ==
    /\ VotesIn(<< >>) = {}
    /\ \A x \in Votes : /\ VotesIn(<<attest(x)>>) = {x} /\ VotesIn(<<[T |-> "relay", vote |-> x]>>) = {x}
                        /\ \A r \in Rounds : VotesIn(<<ensure(r), attest(x)>>) = {x}
    /\ \A r \in Rounds : VotesIn(<<ensure(r)>>) = {}
    /\ \A e \in BOOLEAN : VotesIn(<<[T |-> "checkpoint", err |-> e]>>) = {}
<1>1. VotesIn(<< >>) = {}
  BY InVotesIn
<1>2. ASSUME NEW a PROVE VotesIn(<<a>>) = IF a.T \in {"attest", "relay"} THEN {a.vote} ELSE {}
  <2>1. Len(<<a>>) = 1 /\ <<a>>[1] = a
    BY Zenon
  <2>2. ASSUME NEW x PROVE x \in VotesIn(<<a>>) <=> a.T \in {"attest", "relay"} /\ a.vote = x
    BY <2>1, InVotesIn
  <2> QED
    BY <2>2, Zenon
<1>3. ASSUME NEW a, NEW b, a.T \notin {"attest", "relay"}, b.T = "attest"
      PROVE  VotesIn(<<a, b>>) = {b.vote}
  BY <1>3, InVotesIn
<1>4. ASSUME NEW x \in Votes
      PROVE  /\ VotesIn(<<attest(x)>>) = {x} /\ VotesIn(<<[T |-> "relay", vote |-> x]>>) = {x}
             /\ \A r \in Rounds : VotesIn(<<ensure(r), attest(x)>>) = {x}
  <2>1. attest(x).T = "attest" /\ attest(x).vote = x
    BY Zenon DEF attest
  <2>2. \A r \in Rounds : ensure(r).T \notin {"attest", "relay"}
    BY Zenon DEF ensure
  <2>3. VotesIn(<<attest(x)>>) = {x}
    BY <1>2, <2>1, Zenon
  <2>4. VotesIn(<<[T |-> "relay", vote |-> x]>>) = {x}
    <3> DEFINE a == [T |-> "relay", vote |-> x]
    <3>1. a.T \in {"attest", "relay"} /\ a.vote = x
      BY Zenon
    <3> QED
      BY <1>2, <3>1, Zenon
  <2>5. \A r \in Rounds : VotesIn(<<ensure(r), attest(x)>>) = {x}
    BY <1>3, <2>1, <2>2, Zenon
  <2> QED
    BY <2>3, <2>4, <2>5, Zenon
<1>5. \A r \in Rounds : VotesIn(<<ensure(r)>>) = {}
  BY <1>2, Zenon DEF ensure
<1>6. \A e \in BOOLEAN : VotesIn(<<[T |-> "checkpoint", err |-> e]>>) = {}
  BY <1>2, Zenon
<1> QED
  BY <1>1, <1>4, <1>5, <1>6, Zenon

LEMMA VotesInType ==
    ASSUME NEW al \in Seq(Actions)
    PROVE  VotesIn(al) \subseteq Votes
<1> SUFFICES ASSUME NEW k \in 1 .. Len(al), al[k].T \in {"attest", "relay"}
             PROVE  al[k].vote \in Votes
  BY InVotesIn
<1>1. al[k] \in Actions
  OBVIOUS
<1> QED
  BY <1>1, ActionFields, Zenon

LEMMA KnownType ==
    ASSUME TypeInv
    PROVE  Known \subseteq Votes
<1>1. VotesIn(acts) \subseteq Votes /\ VotesIn(persist.acts) \subseteq Votes /\ VotesIn(disk.acts) \subseteq Votes
  BY VotesInType, Zenon DEF TypeInv, States
<1>2. ASSUME NEW k \in 1 .. Len(jobs) PROVE jobs[k].vote \in Votes /\ VotesIn(jobs[k].state.acts) \subseteq Votes
  <2>1. jobs[k].vote \in Votes /\ jobs[k].state \in States
    BY JobFields, Zenon DEF TypeInv
  <2> QED
    BY <2>1, VotesInType, Zenon DEF States
<1>3. KnownOf(jobs) \subseteq Votes
  BY <1>2, InKnownOf, Zenon
<1> QED
  BY <1>1, <1>3, Zenon DEF Known, TypeInv

LEMMA RoundTypes ==
    ASSUME TypeInv
    PROVE  /\ disk.Round \in Nat /\ persist.Round \in Nat /\ status.Round \in Nat
           /\ ledger.durable \in Nat /\ ledger.next \in Nat /\ \A x \in Votes : x.Round \in Nat
           /\ \A i \in 1 .. Len(jobs) : jobs[i].state.Round \in Nat /\ jobs[i].vote.Round \in Nat
<1>1. \A s \in States : s.Round \in Nat
  BY DEF States
<1>2. \A x \in Votes : x.Round \in Nat
  BY DEF Votes, Rounds
<1>3. jobs \in Seq(Jobs) /\ disk \in States /\ persist \in States
  BY Zenon DEF TypeInv
<1>4. ASSUME NEW i \in 1 .. Len(jobs) PROVE jobs[i].state.Round \in Nat /\ jobs[i].vote.Round \in Nat
  BY <1>1, <1>2, <1>3, JobFields, Zenon
<1>5. status.Round \in Nat /\ ledger.durable \in Nat /\ ledger.next \in Nat
  BY DEF TypeInv
<1> QED
  BY <1>1, <1>2, <1>3, <1>4, <1>5, Zenon

\* Jobs that move on know what they knew.
LEMMA KnownMoved ==
    ASSUME NEW js, NEW js1, NEW i, NEW r, NEW k, Moved(js, js1, i, r, k)
    PROVE  KnownOf(js1) = KnownOf(js)
<1>1. Len(js1) = Len(js) /\ \A n \in 1 .. Len(js) : js1[n].vote = js[n].vote /\ js1[n].state = js[n].state
  BY Zenon DEF Moved
<1>2. ASSUME NEW x PROVE x \in KnownOf(js1) <=> x \in KnownOf(js)
  <2>1. ASSUME NEW n \in 1 .. Len(js)
        PROVE  js1[n].vote = x \/ x \in VotesIn(js1[n].state.acts) <=> js[n].vote = x \/ x \in VotesIn(js[n].state.acts)
    BY <1>1, Zenon
  <2> QED
    BY <1>1, <2>1, InKnownOf, Zenon
<1> QED
  BY <1>2, Zenon

LEMMA KnownTail ==
    ASSUME NEW js \in Seq(Jobs), js # << >>
    PROVE  KnownOf(Tail(js)) \subseteq KnownOf(js)
<1> SUFFICES ASSUME NEW x, NEW n \in 1 .. Len(Tail(js)),
                    Tail(js)[n].vote = x \/ x \in VotesIn(Tail(js)[n].state.acts)
             PROVE  x \in KnownOf(js)
  BY InKnownOf, Zenon
<1>1. n + 1 \in 1 .. Len(js) /\ Tail(js)[n] = js[n + 1]
  BY TailFacts, Zenon
<1> QED
  BY <1>1, InKnownOf, Zenon

LEMMA KnownAppend ==
    ASSUME NEW js \in Seq(Jobs), NEW j \in Jobs
    PROVE  KnownOf(Append(js, j)) = KnownOf(js) \cup {j.vote} \cup VotesIn(j.state.acts)
<1> DEFINE js1 == Append(js, j)
<1>1. /\ Len(js1) = Len(js) + 1 /\ \A n \in 1 .. Len(js) : js1[n] = js[n]
      /\ js1[Len(js) + 1] = j /\ Len(js) \in Nat
  BY ShortLists
<1> HIDE DEF js1
<1>2. ASSUME NEW x
      PROVE  x \in KnownOf(js1) <=> x \in KnownOf(js) \cup {j.vote} \cup VotesIn(j.state.acts)
  BY <1>1, InKnownOf
<1> QED
  BY <1>2, Zenon DEF js1

----------------------------------------------------------------------------
(* The steps in which the player casts no vote.                            *)

\* They know of no new vote, and of no new state but the persisted one.
Quiet ==
    /\ UNCHANGED <<status, persist, restarts>> /\ Known' \subseteq Known
    /\ \A i \in 1 .. Len(jobs') : \/ jobs'[i].state = persist
                                  \/ \E k \in 1 .. Len(jobs) : jobs'[i].state = jobs[k].state
    /\ disk' = disk \/ \E k \in 1 .. Len(jobs) : disk' = jobs[k].state
    /\ pc' # "do" => acts' = << >>

JobStates == \A i \in 1 .. Len(jobs') : \/ jobs'[i].state = persist
                                        \/ \E k \in 1 .. Len(jobs) : jobs'[i].state = jobs[k].state

LEMMA QuietJobs ==
    ASSUME TypeInv
    PROVE  /\ jobs' = jobs \/ jobs' = << >> \/ (\E i, r, k : Moved(jobs, jobs', i, r, k))
              \/ (jobs # << >> /\ jobs' = Tail(jobs))
              => JobStates /\ KnownOf(jobs') \subseteq KnownOf(jobs)
<1>1. jobs \in Seq(Jobs)
  BY Zenon DEF TypeInv
<1>2. CASE jobs' = jobs
  BY <1>2, Zenon DEF JobStates
<1>3. CASE jobs' = << >>
  <2>1. Len(jobs') = 0
    BY <1>3, Zenon
  <2> QED
    BY <2>1, InKnownOf DEF JobStates
<1>4. ASSUME NEW i, NEW r, NEW k, Moved(jobs, jobs', i, r, k)
      PROVE  JobStates /\ KnownOf(jobs') \subseteq KnownOf(jobs)
  <2>1. JobStates
    BY <1>4, Zenon DEF Moved, JobStates
  <2> QED
    BY <1>4, <2>1, KnownMoved, Zenon
<1>5. CASE jobs # << >> /\ jobs' = Tail(jobs)
  <2>1. JobStates
    BY <1>1, <1>5, TailFacts, Zenon DEF JobStates
  <2> QED
    BY <1>1, <1>5, <2>1, KnownTail, Zenon
<1> QED
  BY <1>2, <1>3, <1>4, <1>5, Zenon

LEMMA QuietStep ==
    ASSUME TypeInv, CoverInv,
           DemuxLoop \/ LeaveLoop \/ ShutdownReturns \/ VerifierLoop \/ PersistenceLoop
             \/ Flush \/ Catchup \/ Shutdown \/ UNCHANGED vars
    PROVE  Quiet
<1>0. acts \in Seq(Actions) /\ jobs \in Seq(Jobs)
  BY Zenon DEF TypeInv
<1>a. ASSUME UNCHANGED <<status, persist, restarts>>, JobStates, KnownOf(jobs') \subseteq Known,
             disk' = disk \/ \E k \in 1 .. Len(jobs) : disk' = jobs[k].state,
             pc' # "do" => acts' = << >>, VotesIn(acts') \subseteq Known, sent' \subseteq Known
      PROVE  Quiet
  <2>1. VotesIn(disk'.acts) \subseteq Known
    BY <1>a, InKnownOf, Zenon DEF Known
  <2>2. persist' = persist
    BY <1>a, Zenon
  <2>3. VotesIn(persist'.acts) \subseteq Known
    BY <2>2, Zenon DEF Known
  <2>4. Known' \subseteq Known
    BY <1>a, <2>1, <2>3, Zenon DEF Known
  <2> QED
    BY <1>a, <2>4, Zenon DEF Quiet, JobStates
<1>b. /\ sent \subseteq Known /\ VotesIn(acts) \subseteq Known /\ KnownOf(jobs) \subseteq Known
      /\ VotesIn(persist.acts) \subseteq Known /\ VotesIn(<< >>) \subseteq Known
  BY VotesOfActions, Zenon DEF Known
<1>c. ASSUME acts # << >>
      PROVE  /\ VotesIn(Tail(acts)) \subseteq Known
             /\ Head(acts).T \in {"attest", "relay"} => Head(acts).vote \in Known
  <2>1. VotesIn(Tail(acts)) \subseteq Known
    BY <1>0, <1>b, <1>c, VotesInTail, Zenon
  <2>2. Head(acts) = acts[1] /\ 1 \in 1 .. Len(acts)
    BY <1>0, <1>c
  <2> QED
    BY <1>b, <2>1, <2>2, InVotesIn
<1>1. CASE MakeVotes
  <2>1. /\ acts # << >> /\ Head(acts).T = "attest" /\ pc' = "do" /\ sent' = sent /\ disk' = disk
        /\ UNCHANGED <<status, persist, restarts>>
        /\ \/ acts' = Tail(acts) /\ jobs' = jobs
           \/ jobs' = Append(jobs, Job(Head(acts).vote)) /\ acts' = acts
    BY <1>1, Zenon DEF MakeVotes, Performs
  <2>2. CASE acts' = Tail(acts) /\ jobs' = jobs
    BY <1>a, <1>b, <1>c, <2>1, <2>2, QuietJobs, Zenon
  <2>3. CASE jobs' = Append(jobs, Job(Head(acts).vote)) /\ acts' = acts
    <3> DEFINE j == Job(Head(acts).vote)
    <3>1. j \in Jobs /\ j.vote = Head(acts).vote /\ j.state = persist
      <4>1. Head(acts).vote \in Votes
        BY <1>0, <2>1, TailFacts, ActionFields
      <4> QED
        BY <4>1, Zenon DEF Job, Jobs, Requests, Tasks, TypeInv
    <3> HIDE DEF j
    <3>2. /\ Len(jobs') = Len(jobs) + 1 /\ \A n \in 1 .. Len(jobs) : jobs'[n] = jobs[n]
          /\ jobs'[Len(jobs) + 1] = j
      BY <1>0, <2>3, <3>1, ShortLists DEF j
    <3>3. JobStates
      BY <1>0, <3>1, <3>2 DEF JobStates
    <3>4. KnownOf(jobs') = KnownOf(jobs) \cup {j.vote} \cup VotesIn(j.state.acts)
      BY <1>0, <2>3, <3>1, KnownAppend, Zenon DEF j
    <3>5. KnownOf(jobs') \subseteq Known
      BY <1>b, <1>c, <2>1, <3>1, <3>4, Zenon
    <3> QED
      BY <1>a, <1>b, <2>1, <2>3, <3>3, <3>5, Zenon
  <2> QED
    BY <2>1, <2>2, <2>3, Zenon
<1>2. CASE Enqueue
  <2>1. /\ acts # << >> /\ pc' = "do" /\ sent' = sent /\ disk' = disk /\ acts' = Tail(acts) /\ jobs # << >>
        /\ UNCHANGED <<status, persist, restarts>> /\ jobs' = [jobs EXCEPT ![Len(jobs)].request = "pending"]
    BY <1>2, Zenon DEF Enqueue, Performs, Enqueuing
  <2>2. \E i, r, k : Moved(jobs, jobs', i, r, k)
    <3>1. Len(jobs) \in 1 .. Len(jobs) /\ "pending" \in Requests
      BY <1>0, <2>1 DEF Requests
    <3> QED
      BY <1>0, <2>1, <3>1, MoveRequest, Zenon
  <2> QED
    BY <1>a, <1>b, <1>c, <2>1, <2>2, QuietJobs, Zenon
<1>3. CASE Checkpoint
  <2>1. /\ acts # << >> /\ pc' = "do" /\ sent' = sent /\ disk' = disk /\ acts' = Tail(acts)
        /\ UNCHANGED <<status, persist, restarts>>
    BY <1>3, Zenon DEF Checkpoint, Performs
  <2>2. jobs' = jobs \/ \E i, r, k : Moved(jobs, jobs', i, r, k)
    BY <1>3, CheckpointMoves, Zenon
  <2> QED
    BY <1>a, <1>b, <1>c, <2>1, <2>2, QuietJobs, Zenon
<1>4. CASE Relay
  <2>1. /\ acts # << >> /\ pc' = "do" /\ Head(acts).T = "relay" /\ sent' = sent \cup {Head(acts).vote}
        /\ disk' = disk /\ acts' = Tail(acts) /\ UNCHANGED <<status, persist, restarts, jobs>>
    BY <1>4, Zenon DEF Relay, Performs
  <2> QED
    BY <1>a, <1>b, <1>c, <2>1, QuietJobs, Zenon
<1>5. CASE Ensure
  <2>1. /\ acts # << >> /\ pc' = "do" /\ sent' = sent
        /\ disk' = disk /\ acts' = Tail(acts) /\ UNCHANGED <<status, persist, restarts, jobs>>
    BY <1>5, Zenon DEF Ensure, Performs
  <2> QED
    BY <1>a, <1>b, <1>c, <2>1, QuietJobs, Zenon
<1>6. CASE Done \/ Wait \/ LeaveLoop \/ Shutdown \/ Flush \/ Catchup \/ UNCHANGED vars
  <2>1. /\ sent' = sent /\ disk' = disk /\ acts' = acts /\ UNCHANGED <<status, persist, restarts, jobs>>
    BY <1>6, Zenon DEF Done, Wait, LeaveLoop, Shutdown, Flush, Catchup, vars
  <2>2. pc' # "do" => acts' = << >>
    BY <1>6, <2>1, Zenon DEF CoverInv, Done, Wait, LeaveLoop, Shutdown, Flush, Catchup, vars
  <2> QED
    BY <1>a, <1>b, <2>1, <2>2, QuietJobs, Zenon
<1>7. CASE ReadQueue
  <2>1. sent' = sent /\ disk' = disk /\ restarts' = restarts
    BY <1>7, Zenon DEF ReadQueue
  <2>2. /\ persist' = persist /\ status' = status /\ jobs # << >>
        /\ pc' # "do" => acts' = << >>
        /\ (\E i, r, k : Moved(jobs, jobs', i, r, k)) \/ jobs' = Tail(jobs)
        /\ acts' \in {<< >>, <<[T |-> "relay", vote |-> jobs[1].vote]>>,
                      <<[T |-> "checkpoint", err |-> jobs[1].request = "failed"]>>}
    BY <1>7, ReadMoves, Zenon
  <2>3. jobs[1].vote \in Votes /\ jobs[1].vote \in Known /\ (jobs[1].request = "failed") \in BOOLEAN
    <3>1. 1 \in 1 .. Len(jobs)
      BY <1>0, <2>2
    <3>2. jobs[1].vote \in Votes /\ jobs[1].vote \in KnownOf(jobs)
      BY <1>0, <3>1, JobFields, InKnownOf, Zenon
    <3> QED
      BY <1>b, <3>2, Zenon
  <2>4. VotesIn(acts') \subseteq Known
    <3>1. /\ VotesIn(<<[T |-> "relay", vote |-> jobs[1].vote]>>) = {jobs[1].vote}
          /\ VotesIn(<<[T |-> "checkpoint", err |-> jobs[1].request = "failed"]>>) = {}
      BY <2>3, VotesOfActions, Zenon
    <3> QED
      BY <1>b, <2>2, <2>3, <3>1, Zenon
  <2> QED
    BY <1>a, <1>b, <2>1, <2>2, <2>4, QuietJobs, Zenon
<1>8. CASE ShutdownReturns
  <2>1. /\ sent' = sent /\ disk' = disk /\ acts' = acts /\ jobs' = << >> /\ UNCHANGED <<status, persist, restarts>>
        /\ acts = << >>
    BY <1>8, Zenon DEF ShutdownReturns, CoverInv
  <2> QED
    BY <1>a, <1>b, <2>1, QuietJobs, Zenon
<1>9. ASSUME NEW i \in 1 .. Len(jobs), RunTask(i) \/ TakeRequest(i) \/ PersistState(i)
      PROVE  Quiet
  <2>1. sent' = sent /\ acts' = acts /\ pc' = pc /\ UNCHANGED <<status, persist, restarts>>
    BY <1>9, Zenon DEF RunTask, TakeRequest, PersistState
  <2>2. \E r, k : Moved(jobs, jobs', i, r, k)
    <3>1. CASE RunTask(i)
      BY <3>1, RunMoves, Zenon
    <3>2. CASE TakeRequest(i)
      <4>1. jobs' = [jobs EXCEPT ![i].request = "writing"] /\ "writing" \in Requests
        BY <3>2, Zenon DEF TakeRequest, Requests
      <4> QED
        BY <1>0, <4>1, MoveRequest, Zenon
    <3>3. CASE PersistState(i)
      BY <3>3, PersistMoves, Zenon
    <3> QED
      BY <1>9, <3>1, <3>2, <3>3, Zenon
  <2>3. disk' = disk \/ disk' = jobs[i].state
    BY <1>9, Zenon DEF RunTask, TakeRequest, PersistState
  <2> QED
    BY <1>a, <1>b, <2>1, <2>2, <2>3, QuietJobs, Zenon DEF CoverInv
<1> QED
  BY <1>1, <1>2, <1>3, <1>4, <1>5, <1>6, <1>7, <1>8, <1>9, Zenon DEF DemuxLoop, VerifierLoop, PersistenceLoop

----------------------------------------------------------------------------
(* What a persisted state knows, and the votes for one point.              *)

LEMMA CoverStep == ASSUME TypeInv, CoverInv, [Next]_vars PROVE CoverInv'
<1>1. CASE Quiet
  <2>1. SelfCovered(persist') /\ SelfCovered(disk')
    BY <1>1, Zenon DEF Quiet, CoverInv
  <2>2. \A i \in 1 .. Len(jobs') : SelfCovered(jobs'[i].state)
    BY <1>1, Zenon DEF Quiet, CoverInv
  <2> QED
    BY <1>1, <2>1, <2>2, Zenon DEF Quiet, CoverInv, SelfCovered, Covers
<1>2. ASSUME NEW pt \in Points, NEW v \in Values, CastVote(pt, v) PROVE CoverInv'
  <2> DEFINE x == [Round |-> status.Round, point |-> pt, value |-> v]
  <2>1. x \in Votes /\ acts' = <<attest(x)>> /\ pc' = "do"
        /\ status' = [Round |-> status.Round, cast |-> status.cast \cup {pt}]
        /\ persist' = [Round |-> status'.Round, cast |-> status'.cast, acts |-> acts']
    BY <1>2, CastShape, Zenon
  <2>2. VotesIn(persist'.acts) = {x}
    BY <2>1, VotesOfActions, Zenon
  <2>3. Covers(persist', x)
    BY <2>1, Zenon DEF Covers
  <2>4. SelfCovered(persist')
    BY <2>2, <2>3, Zenon DEF SelfCovered
  <2>5. UNCHANGED <<jobs, disk>>
    BY <1>2, Zenon DEF CastVote
  <2> QED
    BY <2>1, <2>4, <2>5, Zenon DEF CoverInv
<1>3. ASSUME NEW pts \in {{}} \cup {{pt} : pt \in Points}, NEW v \in Values, EndRound(pts, v)
      PROVE  CoverInv'
  <2>1. UNCHANGED <<jobs, disk>> /\ pc' = "do"
    BY <1>3, EndShape, Zenon DEF EndRound
  <2>2. CASE persist' = persist
    BY <2>1, <2>2, Zenon DEF CoverInv
  <2>3. CASE persist' # persist
    <3>1. PICK pt \in Points :
            LET x == [Round |-> status.Round + 1, point |-> pt, value |-> v]
            IN  /\ pts = {pt} /\ x \in Votes /\ acts' = <<ensure(status.Round), attest(x)>>
                /\ persist' = [Round |-> status'.Round, cast |-> pts, acts |-> acts']
      BY <1>3, <2>3, EndShape, Zenon
    <3> DEFINE x == [Round |-> status.Round + 1, point |-> pt, value |-> v]
    <3>2. status.Round \in Rounds /\ status'.Round = status.Round + 1
      <4>1. status' = [Round |-> status.Round + 1, cast |-> pts]
        BY <1>3, EndShape, Zenon
      <4> QED
        BY <1>3, <4>1 DEF EndRound, TypeInv, Rounds
    <3>3. VotesIn(acts') = {x}
      BY <3>1, <3>2, VotesOfActions, Zenon
    <3>4. VotesIn(persist'.acts) = {x} /\ Covers(persist', x)
      BY <3>1, <3>2, <3>3, Zenon DEF Covers
    <3>5. SelfCovered(persist')
      BY <3>4, Zenon DEF SelfCovered
    <3> QED
      BY <2>1, <3>5, Zenon DEF CoverInv
  <2> QED
    BY <2>2, <2>3, Zenon
<1>4. CASE RoundInterruption
  <2>1. UNCHANGED <<jobs, disk>> /\ pc' = "do" /\ persist' = persist
    <3>1. /\ UNCHANGED <<jobs, disk, sent>> /\ ledger.durable > status.Round
          /\ Submit([Round |-> ledger.next, cast |-> {}], << >>)
      BY <1>4, Zenon DEF RoundInterruption
    <3>2. ~ \E i \in 1 .. Len(<< >>) : << >>[i].T = "attest"
      OBVIOUS
    <3> QED
      BY <3>1, <3>2, Zenon DEF Submit
  <2> QED
    BY <2>1, Zenon DEF CoverInv
<1>5. CASE Restart
  <2>1. jobs' = << >> /\ persist' = ZeroState /\ disk' = disk /\ pc' = "do"
    BY <1>5, RestartShape, Zenon DEF Restart
  <2>2. SelfCovered(ZeroState)
    BY VotesOfActions, Zenon DEF SelfCovered, ZeroState
  <2>3. \A i \in 1 .. Len(jobs') : FALSE
    BY <2>1
  <2> QED
    BY <2>1, <2>2, <2>3, Zenon DEF CoverInv
<1> QED
  BY <1>1, <1>2, <1>3, <1>4, <1>5, QuietStep, Zenon DEF Next, Environment

\* The votes known stay, and the player knows at least what it knew.
LEMMA VoteQuiet ==
    ASSUME TypeInv, VoteInv, Known' \subseteq Known, status'.Round \in Nat,
           status' = status \/ status'.Round > status.Round
    PROVE  VoteInv'
<1>1. \A x \in Known : x.Round \in Nat
  BY KnownType DEF Votes, Rounds
<1>2. \A x \in Known : Covers(status', x)
  BY <1>1 DEF VoteInv, Covers, TypeInv
<1> QED
  BY <1>2, Zenon DEF VoteInv

\* One vote more, at a point the player had not voted at.
LEMMA VoteCast ==
    ASSUME TypeInv, VoteInv, NEW x \in Votes, Known' \subseteq Known \cup {x}, ~Covers(status, x),
           status'.Round \in Nat, Upto(status, status'), Covers(status', x)
    PROVE  VoteInv'
<1>1. /\ \A y \in Known : y.Round \in Nat
      /\ x.Round \in Nat /\ status.Round \in Nat
  BY KnownType DEF Votes, Rounds, TypeInv
<1>2. \A y \in Known : Covers(status', y)
  BY <1>1, UptoCovers, Zenon DEF VoteInv
<1>3. \A y \in Known : ~(x.Round = y.Round /\ x.point = y.point)
  BY Zenon DEF VoteInv, Covers
<1>4. \A y, z \in Known \cup {x} : Agree(y, z)
  BY <1>3, Zenon DEF VoteInv, Agree
<1> QED
  BY <1>2, <1>4, Zenon DEF VoteInv

LEMMA VoteStep ==
    ASSUME TypeInv, TypeInv', CoverInv, [Next]_vars, VoteInv, restarts = 0 => DurableInv, restarts' <= 1
    PROVE  VoteInv'
<1>0. status.Round \in Nat /\ status'.Round \in Nat /\ status.Round \in 1 .. (MaxRound + 1)
  BY DEF TypeInv
<1>1. CASE Quiet
  BY <1>0, <1>1, VoteQuiet, Zenon DEF Quiet
<1>2. ASSUME NEW pt \in Points, NEW v \in Values, CastVote(pt, v) PROVE VoteInv'
  <2> DEFINE x == [Round |-> status.Round, point |-> pt, value |-> v]
  <2>1. x \in Votes /\ ~Covers(status, x) /\ acts' = <<attest(x)>>
        /\ status' = [Round |-> status.Round, cast |-> status.cast \cup {pt}]
        /\ persist' = [Round |-> status'.Round, cast |-> status'.cast, acts |-> acts']
    BY <1>2, CastShape, Zenon
  <2>2. VotesIn(acts') = {x} /\ persist'.acts = acts'
    BY <2>1, VotesOfActions, Zenon
  <2>3. UNCHANGED <<jobs, disk, sent>>
    BY <1>2, Zenon DEF CastVote
  <2>4. Known' \subseteq Known \cup {x}
    BY <2>2, <2>3, Zenon DEF Known
  <2>5. Upto(status, status') /\ Covers(status', x)
    BY <2>1, Zenon DEF Upto, Covers
  <2> QED
    BY <1>0, <2>1, <2>4, <2>5, VoteCast, Zenon
<1>3. ASSUME NEW pts \in {{}} \cup {{pt} : pt \in Points}, NEW v \in Values, EndRound(pts, v)
      PROVE  VoteInv'
  <2>1. UNCHANGED <<jobs, disk, sent>> /\ status.Round \in Rounds
    BY <1>0, <1>3 DEF EndRound, Rounds
  <2>2. status' = [Round |-> status.Round + 1, cast |-> pts]
    BY <1>3, EndShape, Zenon
  <2>3. CASE acts' = <<ensure(status.Round)>> /\ persist' = persist
    <3>1. VotesIn(acts') = {}
      BY <2>1, <2>3, VotesOfActions, Zenon
    <3>2. Known' \subseteq Known
      BY <2>1, <2>3, <3>1, Zenon DEF Known
    <3> QED
      BY <1>0, <2>2, <3>2, VoteQuiet
  <2>4. ASSUME NEW pt \in Points,
               LET x == [Round |-> status.Round + 1, point |-> pt, value |-> v]
               IN  /\ pts = {pt} /\ x \in Votes /\ acts' = <<ensure(status.Round), attest(x)>>
                   /\ persist' = [Round |-> status'.Round, cast |-> pts, acts |-> acts']
        PROVE  VoteInv'
    <3> DEFINE x == [Round |-> status.Round + 1, point |-> pt, value |-> v]
    <3>1. x \in Votes /\ acts' = <<ensure(status.Round), attest(x)>>
      BY <2>4, Zenon
    <3>2. VotesIn(acts') = {x}
      BY <2>1, <3>1, VotesOfActions, Zenon
    <3>3. persist'.acts = acts' /\ pts = {pt}
      BY <2>4, Zenon
    <3>4. Known' \subseteq Known \cup {x}
      BY <2>1, <3>2, <3>3, Zenon DEF Known
    <3>5. ~Covers(status, x) /\ Upto(status, status') /\ Covers(status', x)
      BY <1>0, <2>2, <3>3 DEF Covers, Upto
    <3> QED
      BY <1>0, <3>1, <3>4, <3>5, VoteCast, Zenon
  <2>5. \/ acts' = <<ensure(status.Round)>> /\ persist' = persist
        \/ \E pt \in Points :
              LET x == [Round |-> status.Round + 1, point |-> pt, value |-> v]
              IN  /\ pts = {pt} /\ x \in Votes /\ acts' = <<ensure(status.Round), attest(x)>>
                  /\ persist' = [Round |-> status'.Round, cast |-> pts, acts |-> acts']
    BY <1>3, EndShape, Zenon
  <2> QED
    BY <2>3, <2>4, <2>5, Zenon
<1>4. CASE RoundInterruption
  <2>1. /\ UNCHANGED <<jobs, disk, sent>> /\ acts' = << >> /\ persist' = persist
        /\ status' = [Round |-> ledger.next, cast |-> {}] /\ ledger.durable > status.Round
    <3>1. /\ UNCHANGED <<jobs, disk, sent>> /\ ledger.durable > status.Round
          /\ Submit([Round |-> ledger.next, cast |-> {}], << >>)
      BY <1>4, Zenon DEF RoundInterruption
    <3>2. ~ \E i \in 1 .. Len(<< >>) : << >>[i].T = "attest"
      OBVIOUS
    <3> QED
      BY <3>1, <3>2, Zenon DEF Submit
  <2>2. status'.Round > status.Round
    BY <1>0, <2>1 DEF TypeInv
  <2>3. Known' \subseteq Known
    BY <2>1, VotesOfActions, Zenon DEF Known
  <2> QED
    BY <1>0, <2>2, <2>3, VoteQuiet, Zenon
<1>5. CASE Restart
  <2>1. /\ jobs' = << >> /\ persist' = ZeroState /\ restarts' = restarts + 1 /\ UNCHANGED <<disk, sent>>
        /\ \/ /\ disk.Round < ledger.durable /\ acts' = << >>
              /\ status' = [Round |-> ledger.durable, cast |-> {}]
           \/ /\ disk.Round = ledger.durable /\ acts' = disk.acts
              /\ status' = [Round |-> disk.Round, cast |-> disk.cast]
    BY <1>5, RestartShape, Zenon
  <2>2. DurableInv
    <3>1. restarts \in Nat
      BY Zenon DEF TypeInv
    <3> QED
      BY <2>1, <3>1
  <2>3. Known' \subseteq sent \cup VotesIn(disk.acts)
    <3>1. KnownOf(jobs') = {} /\ VotesIn(persist'.acts) = {} /\ VotesIn(acts') \subseteq VotesIn(disk.acts)
      <4>1. Len(jobs') = 0 /\ persist'.acts = << >>
        BY <2>1, Zenon DEF ZeroState
      <4>2. KnownOf(jobs') = {}
        BY <4>1, InKnownOf
      <4> QED
        BY <2>1, <4>1, <4>2, VotesOfActions, Zenon
    <3> QED
      BY <2>1, <3>1, Zenon DEF Known
  <2>4. ASSUME NEW x \in sent \cup VotesIn(disk.acts) PROVE Covers(status', x)
    <3>1. x \in Known /\ x.Round \in Nat /\ disk.Round \in Nat /\ ledger.durable \in Nat
      <4>1. x \in Known
        BY Zenon DEF Known
      <4> QED
        <5>1. x \in Votes
          BY <4>1, KnownType, Zenon
        <5>2. x.Round \in Nat
          BY <5>1 DEF Votes, Rounds
        <5>3. disk.Round \in Nat /\ ledger.durable \in Nat
          BY RoundTypes, Zenon
        <5> QED
          BY <4>1, <5>2, <5>3, Zenon
    <3>2. Covers(disk, x) \/ ledger.durable > x.Round
      BY <2>2, Zenon DEF DurableInv, SentKept, Kept, CoverInv, SelfCovered
    <3>3. CASE disk.Round < ledger.durable /\ status' = [Round |-> ledger.durable, cast |-> {}]
      BY <3>1, <3>2, <3>3 DEF Covers
    <3>4. CASE disk.Round = ledger.durable /\ status' = [Round |-> disk.Round, cast |-> disk.cast]
      BY <3>1, <3>2, <3>4, Zenon DEF Covers
    <3> QED
      BY <2>1, <3>3, <3>4, Zenon
  <2>5. \A x, y \in Known' : Agree(x, y)
    BY <2>3, Zenon DEF VoteInv, Known
  <2> QED
    BY <2>3, <2>4, <2>5, Zenon DEF VoteInv
<1> QED
  BY <1>1, <1>2, <1>3, <1>4, <1>5, QuietStep, Zenon DEF Next, Environment

----------------------------------------------------------------------------
(* What is kept before the first restart.                                  *)

LEMMA RoundTypesNext ==
    ASSUME TypeInv'
    PROVE  disk'.Round \in Nat /\ persist'.Round \in Nat /\ status'.Round \in Nat /\ ledger'.durable \in Nat
<1>1. \A s \in States : s.Round \in Nat
  BY DEF States
<1>2. disk' \in States /\ persist' \in States
  BY Zenon DEF TypeInv
<1>3. status'.Round \in Nat /\ ledger'.durable \in Nat
  BY DEF TypeInv
<1> QED
  BY <1>1, <1>2, <1>3, Zenon

LEMMA KeptStays ==
    ASSUME TypeInv, TypeInv', Upto(disk, disk'), ledger.durable <= ledger'.durable,
           NEW x \in Votes, Kept(x)
    PROVE  Covers(disk', x) \/ ledger'.durable > x.Round
<1>1. /\ disk.Round \in Nat /\ disk'.Round \in Nat /\ ledger.durable \in Nat /\ ledger'.durable \in Nat
      /\ x.Round \in Nat
  BY RoundTypes, RoundTypesNext, Zenon
<1>2. CASE Covers(disk, x)
  BY <1>1, <1>2, UptoCovers, Zenon
<1>3. CASE ledger.durable > x.Round
  BY <1>1, <1>3
<1> QED
  BY <1>2, <1>3, Zenon DEF Kept

\* The jobs when one of them moves on and the crash database stays.
LEMMA JobsKeptMoved ==
    ASSUME TypeInv, TypeInv', JobsKept, NEW i \in 1 .. Len(jobs), NEW r, NEW k, Moved(jobs, jobs', i, r, k),
           persist' = persist, disk' = disk, ledger'.durable = ledger.durable,
           r \in {"new", "pending", "writing"} => jobs[i].request \in {"new", "pending", "writing"},
           r = "stored" \/ (r = "done" /\ k # "closed") => Kept(jobs[i].vote)
    PROVE  JobsKept'
<1> SUFFICES ASSUME NEW n \in 1 .. Len(jobs) PROVE JobKept(n)'
  BY Zenon DEF JobsKept, Moved
<1>1. /\ jobs'[n].vote = jobs[n].vote /\ jobs'[n].state = jobs[n].state
      /\ jobs'[n].request = IF n = i THEN r ELSE jobs[n].request
      /\ jobs'[n].task = IF n = i THEN k ELSE jobs[n].task
  BY Zenon DEF Moved
<1>2. JobKept(n)
  BY Zenon DEF JobsKept
<1>3. CASE n = i
  BY <1>1, <1>2, <1>3, Zenon DEF JobKept, Written, Kept, Covers, Upto
<1>4. CASE n # i
  BY <1>1, <1>2, <1>4, Zenon DEF JobKept, Written, Kept, Covers, Upto
<1> QED
  BY <1>3, <1>4, Zenon

LEMMA InOrderMoved ==
    ASSUME TypeInv, JobsInOrder, NEW i \in 1 .. Len(jobs), NEW r, NEW k, Moved(jobs, jobs', i, r, k),
           r # "new",
           \A n \in 1 .. (i - 1) : /\ jobs[n].request # "pending"
                                   /\ r # "pending" => jobs[n].request # "writing",
           \A n \in (i + 1) .. Len(jobs) : /\ r = "pending" => jobs[n].request = "new"
                                           /\ r = "writing" => jobs[n].request \in {"new", "pending"}
    PROVE  JobsInOrder'
<1>00. jobs \in Seq(Jobs)
  BY Zenon DEF TypeInv
<1>0. jobs \in Seq(Jobs) /\ Len(jobs) \in Nat
  BY <1>00
<1> SUFFICES ASSUME NEW a \in 1 .. Len(jobs), NEW b \in 1 .. Len(jobs), a < b PROVE InOrder(a, b)'
  BY Zenon DEF JobsInOrder, Moved
<1>1. /\ jobs'[a].state = jobs[a].state /\ jobs'[b].state = jobs[b].state
      /\ jobs'[a].request = IF a = i THEN r ELSE jobs[a].request
      /\ jobs'[b].request = IF b = i THEN r ELSE jobs[b].request
  BY Zenon DEF Moved
<1>2. InOrder(a, b)
  BY Zenon DEF JobsInOrder
<1>3. CASE a = i
  <2>1. b \in (i + 1) .. Len(jobs) /\ b # i
    BY <1>0, <1>3
  <2> QED
    BY <1>1, <1>2, <1>3, <2>1, Zenon DEF InOrder, Upto
<1>4. CASE b = i
  <2>1. a \in 1 .. (i - 1) /\ a # i
    BY <1>0, <1>4
  <2> QED
    BY <1>1, <1>2, <1>4, <2>1, Zenon DEF InOrder, Upto
<1>5. CASE a # i /\ b # i
  BY <1>1, <1>2, <1>5, Zenon DEF InOrder, Upto
<1> QED
  BY <1>3, <1>4, <1>5, Zenon

\* Actions that stay rely on what stays.
LEMMA ActsKeptTail ==
    ASSUME TypeInv, TypeInv', ActsKept, acts # << >>, acts' = Tail(acts), persist' = persist,
           Upto(disk, disk'), ledger.durable <= ledger'.durable,
           jobs # << >> => jobs' # << >> /\ jobs'[1].vote = jobs[1].vote
    PROVE  ActsKept'
<1>1. acts \in Seq(Actions) /\ jobs \in Seq(Jobs)
  BY Zenon DEF TypeInv
<1> SUFFICES ASSUME NEW n \in 1 .. Len(acts') PROVE ActKept(acts[n])'
  BY Zenon DEF ActsKept
<1>2. n + 1 \in 1 .. Len(acts) /\ acts'[n] = acts[n + 1]
  BY <1>1, TailFacts, Zenon
<1> DEFINE a == acts[n + 1]
<1>3. ActKept(a) /\ a \in Actions /\ acts'[n] = a
  BY <1>1, <1>2 DEF ActsKept
<1>4. a.T = "relay" => a.vote \in Votes
  BY <1>3, ActionFields, Zenon
<1>5. jobs # << >> => jobs[1].vote \in Votes
  BY <1>1, JobFields
<1> HIDE DEF a
<1>6. a.T = "attest" => Covers(persist', a.vote)
  BY <1>3, Zenon DEF ActKept
<1>7. a.T = "relay" => Kept(a.vote) /\ (Covers(disk', a.vote) \/ ledger'.durable > a.vote.Round)
  BY <1>3, <1>4, KeptStays, Zenon DEF ActKept
<1>8. a.T = "checkpoint" /\ ~a.err =>
        /\ jobs' # << >> /\ jobs'[1].vote = jobs[1].vote
        /\ Covers(disk', jobs[1].vote) \/ ledger'.durable > jobs[1].vote.Round
  BY <1>3, <1>5, KeptStays, Zenon DEF ActKept
<1> QED
  BY <1>3, <1>6, <1>7, <1>8, Zenon DEF ActKept, Kept, Covers

\* Only the action at the head is gone, or nothing changes.
LEMMA SentKeptGrows ==
    ASSUME TypeInv, TypeInv', SentKept, Upto(disk, disk'), ledger.durable <= ledger'.durable,
           sent' = sent \/ \E x \in Votes : sent' = sent \cup {x} /\ Kept(x)
    PROVE  SentKept'
<1>1. sent \subseteq Votes
  BY Zenon DEF TypeInv
<1>2. \A x \in sent' : x \in Votes /\ Kept(x)
  BY <1>1, Zenon DEF SentKept
<1>3. \A x \in sent' : Covers(disk', x) \/ ledger'.durable > x.Round
  BY <1>2, KeptStays, Zenon
<1> QED
  BY <1>3, Zenon DEF SentKept, Kept, Covers

\* Steps of the demux loop and the environment that leave the jobs alone.
LEMMA JobsStay ==
    ASSUME TypeInv, TypeInv', JobsKept, JobsInOrder, jobs' = jobs, disk' = disk,
           ledger.durable <= ledger'.durable, Upto(persist, persist')
    PROVE  JobsKept' /\ JobsInOrder'
<1>1. ASSUME NEW n \in 1 .. Len(jobs) PROVE JobKept(n)'
  <2>1. JobKept(n)
    BY Zenon DEF JobsKept
  <2>2. jobs[n].vote \in Votes
    BY JobFields, Zenon DEF TypeInv
  <2>3. Upto(disk, disk')
    BY Zenon DEF Upto
  <2>4. Written(jobs[n]) => Covers(disk', jobs[n].vote) \/ ledger'.durable > jobs[n].vote.Round
    BY <2>1, <2>2, <2>3, KeptStays, Zenon DEF JobKept
  <2>5. Upto(jobs[n].state, persist')
    BY <2>1, RoundTypes, RoundTypesNext, UptoTransitive, Zenon DEF JobKept
  <2> QED
    BY <2>1, <2>4, <2>5, Zenon DEF JobKept, Written, Kept, Covers, Upto
<1>2. JobsInOrder'
  BY DEF JobsInOrder, InOrder, Upto
<1> QED
  BY <1>1, <1>2, Zenon DEF JobsKept

\* A new votes task: its state is the persisted one, which is the latest.
LEMMA JobsAppended ==
    ASSUME TypeInv, TypeInv', DurableInv, MakeVotes, jobs' = Append(jobs, Job(Head(acts).vote))
    PROVE  /\ JobsKept' /\ JobsInOrder'
           /\ jobs' # << >> /\ (jobs # << >> => jobs'[1].vote = jobs[1].vote)
<1> DEFINE j == Job(Head(acts).vote)
<1>0. /\ jobs \in Seq(Jobs) /\ Len(jobs) \in Nat /\ acts # << >> /\ Head(acts).T = "attest" /\ ~Enqueuing
      /\ UNCHANGED <<disk, ledger, persist>>
  BY DEF MakeVotes, Performs, TypeInv
<1>1. j.vote = Head(acts).vote /\ j.state = persist /\ j.request = "new" /\ j.task = "queued" /\ j \in Jobs
  <2>1. Head(acts).vote \in Votes
    BY <1>0, TailFacts, ActionFields DEF TypeInv
  <2> QED
    BY <2>1, Zenon DEF Job, Jobs, Requests, Tasks, TypeInv
<1>2. Covers(persist, j.vote)
  <2>1. Head(acts) = acts[1] /\ 1 \in 1 .. Len(acts)
    BY <1>0 DEF TypeInv
  <2> QED
    BY <1>0, <1>1, <2>1, Zenon DEF DurableInv, ActsKept, ActKept
<1> HIDE DEF j
<1>3. /\ Len(jobs') = Len(jobs) + 1 /\ \A n \in 1 .. Len(jobs) : jobs'[n] = jobs[n]
      /\ jobs'[Len(jobs) + 1] = j
  BY <1>0, <1>1, ShortLists DEF j
<1>4. ASSUME NEW n \in 1 .. Len(jobs') PROVE JobKept(n)'
  <2>1. CASE n \in 1 .. Len(jobs)
    <3>1. JobKept(n) /\ jobs'[n] = jobs[n]
      BY <1>3, <2>1, Zenon DEF DurableInv, JobsKept
    <3> QED
      BY <1>0, <3>1, Zenon DEF JobKept, Written, Kept, Covers, Upto
  <2>2. CASE n = Len(jobs) + 1
    <3>1. jobs'[n] = j /\ Upto(disk, persist) /\ Upto(persist, persist)
      BY <1>3, <2>2, Zenon DEF DurableInv, StatesGrow, Upto
    <3> QED
      BY <1>0, <1>1, <1>2, <3>1, Zenon DEF JobKept, Written, Kept, Covers, Upto
  <2> QED
    BY <1>0, <1>3, <2>1, <2>2
<1>5. ASSUME NEW a \in 1 .. Len(jobs'), NEW b \in 1 .. Len(jobs'), a < b PROVE InOrder(a, b)'
  <2>1. a \in 1 .. Len(jobs) /\ jobs'[a] = jobs[a]
    BY <1>0, <1>3, <1>5
  <2>2. CASE b \in 1 .. Len(jobs)
    <3>1. InOrder(a, b) /\ jobs'[b] = jobs[b]
      BY <1>3, <1>5, <2>1, <2>2, Zenon DEF DurableInv, JobsInOrder
    <3> QED
      BY <2>1, <3>1, Zenon DEF InOrder, Upto
  <2>3. CASE b = Len(jobs) + 1
    <3>1. jobs'[b] = j
      BY <1>3, <2>3, Zenon
    <3>2. jobs[a].request # "new"
      <4>1. jobs # << >> /\ jobs[Len(jobs)].request # "new" /\ Len(jobs) \in 1 .. Len(jobs)
        BY <1>0, <2>1 DEF Enqueuing
      <4>2. a # Len(jobs) => InOrder(a, Len(jobs))
        BY <1>0, <2>1, <4>1 DEF DurableInv, JobsInOrder
      <4> QED
        BY <4>1, <4>2, Zenon DEF InOrder
    <3>3. Upto(jobs[a].state, persist)
      BY <2>1, Zenon DEF DurableInv, JobsKept, JobKept
    <3> QED
      BY <1>1, <2>1, <3>1, <3>2, <3>3, Zenon DEF InOrder, Upto
  <2> QED
    BY <1>0, <1>3, <2>2, <2>3
<1>6. jobs' # << >> /\ (jobs # << >> => jobs'[1].vote = jobs[1].vote)
  BY <1>0, <1>3
<1> QED
  BY <1>4, <1>5, <1>6, Zenon DEF JobsKept, JobsInOrder

LEMMA JobsDropped ==
    ASSUME TypeInv, TypeInv', JobsKept, JobsInOrder, jobs # << >>, jobs' = Tail(jobs),
           UNCHANGED <<disk, ledger, persist>>
    PROVE  JobsKept' /\ JobsInOrder'
<1>0. jobs \in Seq(Jobs)
  BY Zenon DEF TypeInv
<1>1. /\ Len(jobs') \in Nat /\ Len(jobs') = Len(jobs) - 1
      /\ \A n \in 1 .. Len(jobs') : n + 1 \in 1 .. Len(jobs) /\ jobs'[n] = jobs[n + 1]
  BY <1>0, TailFacts
<1>2. ASSUME NEW n \in 1 .. Len(jobs') PROVE JobKept(n)'
  <2>1. JobKept(n + 1) /\ jobs'[n] = jobs[n + 1]
    BY <1>1, Zenon DEF JobsKept
  <2> QED
    BY <2>1, Zenon DEF JobKept, Written, Kept, Covers, Upto
<1>3. ASSUME NEW a \in 1 .. Len(jobs'), NEW b \in 1 .. Len(jobs'), a < b PROVE InOrder(a, b)'
  <2>1. a + 1 < b + 1
    BY <1>3
  <2>2. InOrder(a + 1, b + 1) /\ jobs'[a] = jobs[a + 1] /\ jobs'[b] = jobs[b + 1]
    BY <1>1, <2>1, Zenon DEF JobsInOrder
  <2> QED
    BY <2>2, Zenon DEF InOrder, Upto
<1> QED
  BY <1>2, <1>3, Zenon DEF JobsKept, JobsInOrder

\* The loop writes the oldest state not yet written: it knows at least what the
\* crash database knew, and no more than what is still to be written.
LEMMA JobsWritten ==
    ASSUME TypeInv, TypeInv', DurableInv, NEW i \in 1 .. Len(jobs), PersistState(i)
    PROVE  JobsKept' /\ JobsInOrder' /\ Upto(disk, disk') /\ Upto(disk', persist)
<1>0. jobs \in Seq(Jobs) /\ Len(jobs) \in Nat /\ UNCHANGED <<ledger, persist>> /\ jobs[i].request = "writing"
  BY DEF PersistState, TypeInv
<1>1. PICK r \in {"stored", "failed"} : /\ Moved(jobs, jobs', i, r, jobs[i].task)
                                        /\ disk' = IF r = "stored" THEN jobs[i].state ELSE disk
  BY PersistMoves, Zenon
<1>2. \A n \in 1 .. (i - 1) : jobs[n].request \notin {"new", "pending", "writing"}
  <2> SUFFICES ASSUME NEW n \in 1 .. (i - 1) PROVE jobs[n].request \notin {"new", "pending", "writing"}
    BY Zenon
  <2>1. InOrder(n, i)
    BY <1>0 DEF DurableInv, JobsInOrder
  <2> QED
    BY <1>0, <2>1, Zenon DEF InOrder
<1>3. JobsInOrder'
  BY <1>0, <1>1, <1>2, InOrderMoved, Zenon DEF DurableInv
<1>4. Upto(disk, disk') /\ Upto(disk', persist)
  <2>1. JobKept(i) /\ Upto(disk, persist)
    BY Zenon DEF DurableInv, JobsKept, StatesGrow
  <2> QED
    BY <1>0, <1>1, <2>1, Zenon DEF JobKept, Upto
<1>5. ASSUME NEW n \in 1 .. Len(jobs) PROVE JobKept(n)'
  <2>1. /\ jobs'[n].vote = jobs[n].vote /\ jobs'[n].state = jobs[n].state
        /\ jobs'[n].request = IF n = i THEN r ELSE jobs[n].request
        /\ jobs'[n].task = jobs[n].task
    BY <1>1, Zenon DEF Moved
  <2>2. JobKept(n) /\ JobKept(i)
    BY Zenon DEF DurableInv, JobsKept
  <2>3. Covers(jobs[n].state, jobs[n].vote) /\ Upto(jobs[n].state, persist)
    BY <2>2, Zenon DEF JobKept
  <2>4. jobs'[n].request \in {"new", "pending", "writing"} => Upto(disk', jobs[n].state)
    <3> SUFFICES ASSUME jobs'[n].request \in {"new", "pending", "writing"} PROVE Upto(disk', jobs[n].state)
      BY Zenon
    <3>1. n # i /\ jobs[n].request \in {"new", "pending", "writing"}
      BY <1>1, <2>1, Zenon
    <3>2. n > i
      BY <1>0, <1>2, <3>1
    <3>3. Upto(jobs[i].state, jobs[n].state)
      BY <3>2, Zenon DEF DurableInv, JobsInOrder, InOrder
    <3> QED
      BY <1>1, <2>2, <3>1, <3>3, Zenon DEF JobKept
  <2>5. Written(jobs'[n]) => Covers(disk', jobs[n].vote) \/ ledger'.durable > jobs[n].vote.Round
    <3>1. CASE n = i
      BY <1>1, <2>1, <2>3, <3>1, Zenon DEF Written
    <3>2. CASE n # i
      <4>1. Written(jobs'[n]) => Kept(jobs[n].vote)
        BY <2>1, <2>2, <3>2, Zenon DEF Written, JobKept
      <4>2. jobs[n].vote \in Votes
        BY <1>0, JobFields, Zenon
      <4> QED
        BY <1>0, <1>4, <4>1, <4>2, KeptStays, RoundTypes
    <3> QED
      BY <3>1, <3>2, Zenon
  <2> QED
    BY <1>0, <2>1, <2>3, <2>4, <2>5, Zenon DEF JobKept, Written, Kept, Covers, Upto
<1> QED
  BY <1>1, <1>3, <1>4, <1>5, Zenon DEF JobsKept, Moved

\* A state is up to itself.
LEMMA UptoSame == ASSUME NEW s PROVE Upto(s, s)
  BY Zenon DEF Upto

\* Steps in which one job moves on and at most the action at the head goes.
LEMMA DurableMoved ==
    ASSUME TypeInv, TypeInv', DurableInv, NEW i \in 1 .. Len(jobs), NEW r, NEW k, Moved(jobs, jobs', i, r, k),
           JobsKept', JobsInOrder', UNCHANGED <<persist, status, disk, ledger, sent>>,
           acts' = acts \/ (acts # << >> /\ acts' = Tail(acts)) \/ ActsKept'
    PROVE  DurableInv'
<1>0. jobs \in Seq(Jobs) /\ Upto(disk, disk') /\ ledger.durable <= ledger'.durable
  <2>1. jobs \in Seq(Jobs) /\ ledger.durable \in Nat
    BY RoundTypes, Zenon DEF TypeInv
  <2>2. disk' = disk /\ ledger' = ledger
    BY Zenon
  <2>3. Upto(disk, disk')
    BY <2>2, UptoSame, Zenon
  <2>4. ledger.durable <= ledger'.durable
    BY <2>1, <2>2
  <2> QED
    BY <2>1, <2>3, <2>4, Zenon
<1>1. jobs # << >> /\ jobs' # << >> /\ jobs'[1].vote = jobs[1].vote
  BY <1>0 DEF Moved
<1>2. SentKept'
  BY <1>0, SentKeptGrows, Zenon DEF DurableInv
<1>3. StatesGrow'
  BY Zenon DEF DurableInv, StatesGrow, Upto
<1>4. ActsKept'
  <2>1. CASE acts # << >> /\ acts' = Tail(acts)
    BY <1>0, <1>1, <2>1, ActsKeptTail, Zenon DEF DurableInv
  <2>2. CASE acts' = acts
    BY <1>1, <2>2, Zenon DEF DurableInv, ActsKept, ActKept, Kept, Covers
  <2> QED
    BY <2>1, <2>2, Zenon
<1> QED
  BY <1>2, <1>3, <1>4, Zenon DEF DurableInv

\* Steps of the player: the jobs and the crash database stay.
LEMMA DurablePlayer ==
    ASSUME TypeInv, TypeInv', DurableInv, UNCHANGED <<jobs, disk, ledger, sent>>,
           Upto(persist, persist'), Upto(persist', status'), ActsKept'
    PROVE  DurableInv'
<1>1. Upto(disk, disk') /\ ledger.durable <= ledger'.durable
  <2>1. disk' = disk /\ ledger' = ledger
    BY Zenon
  <2>2. Upto(disk, disk')
    BY <2>1, UptoSame, Zenon
  <2>3. ledger.durable <= ledger'.durable
    BY <2>1, RoundTypes
  <2> QED
    BY <2>2, <2>3, Zenon
<1>2. SentKept'
  BY <1>1, SentKeptGrows, Zenon DEF DurableInv
<1>3. JobsKept' /\ JobsInOrder'
  BY <1>1, JobsStay, Zenon DEF DurableInv
<1>4. Upto(disk, persist')
  BY RoundTypes, RoundTypesNext, UptoTransitive, Zenon DEF DurableInv, StatesGrow
<1>5. StatesGrow'
  BY <1>4, Zenon DEF StatesGrow, Upto
<1> QED
  BY <1>2, <1>3, <1>5, Zenon DEF DurableInv

LEMMA DurableStep ==
    ASSUME TypeInv, TypeInv', CoverInv, DurableInv, [Next]_vars, restarts' = 0
    PROVE  DurableInv'
<1>0. /\ acts \in Seq(Actions) /\ jobs \in Seq(Jobs) /\ Len(jobs) \in Nat
      /\ SentKept /\ StatesGrow /\ JobsKept /\ JobsInOrder /\ ActsKept
  BY DEF TypeInv, DurableInv
<1>a. ASSUME disk' = disk PROVE Upto(disk, disk')
  BY <1>a, Zenon DEF Upto
<1>b. ASSUME persist' = persist, status' = status, disk' = disk PROVE StatesGrow' /\ Upto(persist, persist')
  BY <1>0, <1>b, Zenon DEF StatesGrow, Upto
<1>c. ASSUME acts # << >> PROVE ActKept(Head(acts)) /\ Head(acts) \in Actions
  <2>1. Head(acts) = acts[1] /\ 1 \in 1 .. Len(acts)
    BY <1>0, <1>c
  <2> QED
    BY <1>0, <2>1 DEF ActsKept
<1>1. CASE MakeVotes
  <2>1. /\ acts # << >> /\ sent' = sent /\ disk' = disk /\ persist' = persist /\ status' = status /\ ledger' = ledger
        /\ \/ acts' = Tail(acts) /\ jobs' = jobs
           \/ jobs' = Append(jobs, Job(Head(acts).vote)) /\ acts' = acts
    BY <1>1, Zenon DEF MakeVotes, Performs
  <2>2. ledger.durable <= ledger'.durable
    BY <2>1, RoundTypes
  <2>3. SentKept' /\ StatesGrow'
    BY <1>0, <1>a, <1>b, <2>1, <2>2, SentKeptGrows, Zenon
  <2>4. CASE acts' = Tail(acts) /\ jobs' = jobs
    BY <1>0, <1>a, <1>b, <2>1, <2>2, <2>3, <2>4, JobsStay, ActsKeptTail, Zenon DEF DurableInv
  <2>5. CASE jobs' = Append(jobs, Job(Head(acts).vote)) /\ acts' = acts
    <3>1. JobsKept' /\ JobsInOrder' /\ jobs' # << >> /\ (jobs # << >> => jobs'[1].vote = jobs[1].vote)
      BY <1>1, <2>5, JobsAppended, Zenon
    <3>2. ActsKept'
      BY <1>0, <2>1, <2>5, <3>1, Zenon DEF ActsKept, ActKept, Kept, Covers
    <3> QED
      BY <2>3, <3>1, <3>2, Zenon DEF DurableInv
  <2> QED
    BY <2>1, <2>4, <2>5, Zenon
<1>2. CASE Enqueue
  <2>1. /\ acts # << >> /\ acts' = Tail(acts) /\ UNCHANGED <<persist, status, disk, ledger, sent>>
        /\ jobs' = [jobs EXCEPT ![Len(jobs)].request = "pending"] /\ jobs # << >>
        /\ jobs[Len(jobs)].request = "new" /\ \A n \in 1 .. Len(jobs) : jobs[n].request # "pending"
    BY <1>2, Zenon DEF Enqueue, Performs, Enqueuing
  <2>2. Len(jobs) \in 1 .. Len(jobs) /\ "pending" \in Requests
    BY <1>0, <2>1 DEF Requests
  <2>3. Moved(jobs, jobs', Len(jobs), "pending", jobs[Len(jobs)].task)
    BY <1>0, <2>1, <2>2, MoveRequest, Zenon
  <2>4. JobsKept'
    BY <1>0, <2>1, <2>2, <2>3, JobsKeptMoved, Zenon
  <2>5. JobsInOrder'
    <3>1. /\ \A n \in 1 .. (Len(jobs) - 1) : jobs[n].request # "pending"
          /\ \A n \in (Len(jobs) + 1) .. Len(jobs) : FALSE
      BY <1>0, <2>1
    <3> QED
      BY <1>0, <2>2, <2>3, <3>1, InOrderMoved, Zenon
  <2> QED
    BY <2>1, <2>2, <2>3, <2>4, <2>5, DurableMoved, Zenon
<1>3. CASE Checkpoint
  <2> DEFINE k == IF Head(acts).err THEN "closed" ELSE jobs[1].task
  <2>1. /\ acts # << >> /\ acts' = Tail(acts) /\ UNCHANGED <<persist, status, disk, ledger, sent>>
        /\ Head(acts).T = "checkpoint"
    BY <1>3, Zenon DEF Checkpoint, Performs
  <2>2. CASE jobs = << >> /\ jobs' = jobs
    <3>1. ledger.durable <= ledger'.durable
      BY <2>1, RoundTypes
    <3> QED
      BY <1>0, <1>a, <1>b, <2>1, <2>2, <3>1, SentKeptGrows, JobsStay, ActsKeptTail, Zenon DEF DurableInv
  <2>3. CASE jobs # << >> /\ Moved(jobs, jobs', 1, "done", k)
    <3>1. 1 \in 1 .. Len(jobs)
      BY <1>0, <2>3
    <3>2. Head(acts).err \/ Kept(jobs[1].vote)
      BY <1>c, <2>1, Zenon DEF ActKept
    <3>3. JobsKept'
      BY <1>0, <2>1, <2>3, <3>1, <3>2, JobsKeptMoved, Zenon
    <3>4. JobsInOrder'
      BY <1>0, <2>3, <3>1, InOrderMoved
    <3> QED
      BY <2>1, <2>3, <3>1, <3>3, <3>4, DurableMoved, Zenon
  <2> QED
    BY <1>3, <2>2, <2>3, CheckpointMoves, Zenon
<1>4. CASE Relay
  <2>1. /\ acts # << >> /\ acts' = Tail(acts) /\ UNCHANGED <<persist, status, disk, ledger, jobs>>
        /\ sent' = sent \cup {Head(acts).vote} /\ Head(acts).T = "relay"
    BY <1>4, Zenon DEF Relay, Performs
  <2>2. Head(acts).vote \in Votes /\ Kept(Head(acts).vote)
    BY <1>c, <2>1, ActionFields, Zenon DEF ActKept
  <2>3. ledger.durable <= ledger'.durable
    BY <2>1, RoundTypes
  <2>4. SentKept'
    BY <1>0, <1>a, <2>1, <2>2, <2>3, SentKeptGrows, Zenon
  <2>5. JobsKept' /\ JobsInOrder' /\ ActsKept' /\ StatesGrow'
    BY <1>0, <1>a, <1>b, <2>1, <2>3, JobsStay, ActsKeptTail, Zenon
  <2> QED
    BY <2>4, <2>5, Zenon DEF DurableInv
<1>5. CASE Ensure
  <2>1. acts # << >> /\ acts' = Tail(acts) /\ UNCHANGED <<persist, status, disk, jobs, sent>>
    BY <1>5, Zenon DEF Ensure, Performs
  <2>2. ledger.durable <= ledger'.durable
    <3>1. ledger' = [ledger EXCEPT !.next = IF @ > Head(acts).Round THEN @ ELSE Head(acts).Round + 1]
      BY <1>5, Zenon DEF Ensure
    <3>2. ledger \in [next : Nat, durable : Nat]
      BY DEF TypeInv
    <3>3. ledger'.durable = ledger.durable
      BY <3>1, <3>2, LedgerMoves, Zenon
    <3> QED
      BY <3>3, RoundTypes
  <2>3. SentKept' /\ JobsKept' /\ JobsInOrder' /\ ActsKept' /\ StatesGrow'
    BY <1>0, <1>a, <1>b, <2>1, <2>2, SentKeptGrows, JobsStay, ActsKeptTail, Zenon
  <2> QED
    BY <2>3, Zenon DEF DurableInv
<1>6. CASE Done \/ Wait \/ LeaveLoop \/ Shutdown \/ Flush \/ Catchup \/ UNCHANGED vars
  <2>1. UNCHANGED <<persist, status, disk, jobs, sent, acts>>
    BY <1>6, Zenon DEF Done, Wait, LeaveLoop, Shutdown, Flush, Catchup, vars
  <2>2. ledger.durable <= ledger'.durable
    <3>1. ledger \in [next : Nat, durable : Nat]
      BY DEF TypeInv
    <3>2. ledger' = ledger \/ ledger' = [ledger EXCEPT !.durable = ledger.durable + 1]
          \/ ledger' = [ledger EXCEPT !.next = ledger.next + 1]
      BY <1>6, Zenon DEF Done, Wait, LeaveLoop, Shutdown, Flush, Catchup, vars
    <3>3. ledger'.durable = ledger.durable \/ ledger'.durable = ledger.durable + 1
      BY <3>1, <3>2, LedgerMoves, Zenon
    <3> QED
      BY <3>3, RoundTypes
  <2>3. SentKept' /\ JobsKept' /\ JobsInOrder' /\ StatesGrow'
    BY <1>0, <1>a, <1>b, <2>1, <2>2, SentKeptGrows, JobsStay, Zenon
  <2>4. ASSUME NEW n \in 1 .. Len(acts) PROVE ActKept(acts[n])'
    <3> DEFINE a == acts[n]
    <3>1. a \in Actions /\ ActKept(a) /\ acts' = acts /\ Upto(disk, disk')
      BY <1>0, <1>a, <2>1 DEF ActsKept
    <3>2. (a.T = "relay" => a.vote \in Votes) /\ (jobs # << >> => jobs[1].vote \in Votes)
      <4>1. jobs # << >> => 1 \in 1 .. Len(jobs)
        BY <1>0
      <4>2. jobs # << >> => jobs[1].vote \in Votes
        BY <1>0, <4>1, JobFields, Zenon
      <4> QED
        BY <3>1, <4>2, ActionFields, Zenon
    <3> HIDE DEF a
    <3>3. /\ a.T = "attest" => Covers(persist, a.vote)
          /\ a.T = "relay" => Covers(disk', a.vote) \/ ledger'.durable > a.vote.Round
          /\ a.T = "checkpoint" /\ ~a.err =>
               jobs # << >> /\ (Covers(disk', jobs[1].vote) \/ ledger'.durable > jobs[1].vote.Round)
      BY <2>2, <3>1, <3>2, KeptStays, Zenon DEF ActKept
    <3>4. acts[n]' = a
      BY <3>1, Zenon DEF a
    <3> QED
      BY <2>1, <3>3, <3>4, Zenon DEF ActKept, Kept, Covers
  <2> QED
    BY <2>1, <2>3, <2>4, Zenon DEF DurableInv, ActsKept
<1>7. CASE ReadQueue
  <2>1. UNCHANGED <<disk, ledger, sent, persist, status>> /\ jobs # << >> /\ 1 \in 1 .. Len(jobs)
    BY <1>0, <1>7, ReadMoves DEF ReadQueue
  <2>2. JobKept(1)
    BY <1>0, <2>1, Zenon DEF JobsKept
  <2>3. CASE /\ jobs[1].request \in {"stored", "failed"} /\ Moved(jobs, jobs', 1, "read", jobs[1].task)
             /\ acts' = <<[T |-> "checkpoint", err |-> jobs[1].request = "failed"]>>
    <3>1. JobsKept'
      BY <1>0, <2>1, <2>3, JobsKeptMoved, Zenon
    <3>2. JobsInOrder'
      BY <1>0, <2>1, <2>3, InOrderMoved
    <3>3. ActsKept'
      <4>1. jobs' # << >> /\ jobs'[1].vote = jobs[1].vote
        BY <1>0, <2>1, <2>3 DEF Moved
      <4>2. jobs[1].request = "failed" \/ Kept(jobs[1].vote)
        BY <2>2, <2>3, Zenon DEF JobKept, Written
      <4>3. Len(acts') = 1 /\ acts'[1].T = "checkpoint" /\ acts'[1].err = (jobs[1].request = "failed")
        BY <2>3, Zenon
      <4>4. ActKept(acts[1])'
        BY <2>1, <4>1, <4>2, <4>3, Zenon DEF ActKept, Kept, Covers
      <4> QED
        BY <4>3, <4>4 DEF ActsKept
    <3> QED
      BY <2>1, <2>3, <3>1, <3>2, <3>3, DurableMoved, Zenon
  <2>4. CASE /\ jobs[1].request = "done" /\ jobs[1].task = "sending" /\ Moved(jobs, jobs', 1, "done", "closed")
             /\ acts' \in {<< >>, <<[T |-> "relay", vote |-> jobs[1].vote]>>}
    <3>1. JobsKept'
      BY <1>0, <2>1, <2>4, JobsKeptMoved, Zenon
    <3>2. JobsInOrder'
      BY <1>0, <2>1, <2>4, InOrderMoved
    <3>3. ActsKept'
      <4>1. Kept(jobs[1].vote)
        BY <2>2, <2>4, Zenon DEF JobKept, Written
      <4>2. CASE acts' = << >>
        BY <4>2 DEF ActsKept
      <4>3. CASE acts' = <<[T |-> "relay", vote |-> jobs[1].vote]>>
        <5>1. Len(acts') = 1 /\ acts'[1].T = "relay" /\ acts'[1].vote = jobs[1].vote
          BY <4>3, Zenon
        <5>2. ActKept(acts[1])'
          BY <2>1, <4>1, <5>1, Zenon DEF ActKept, Kept, Covers
        <5> QED
          BY <5>1, <5>2 DEF ActsKept
      <4> QED
        BY <2>4, <4>2, <4>3, Zenon
    <3> QED
      BY <2>1, <2>4, <3>1, <3>2, <3>3, DurableMoved, Zenon
  <2>5. CASE jobs' = Tail(jobs) /\ acts' = << >>
    <3>1. JobsKept' /\ JobsInOrder'
      BY <1>0, <2>1, <2>5, JobsDropped, Zenon
    <3>2. SentKept' /\ StatesGrow'
      BY <1>0, <1>a, <1>b, <2>1, RoundTypes, SentKeptGrows
    <3>3. ActsKept'
      BY <2>5 DEF ActsKept
    <3> QED
      BY <3>1, <3>2, <3>3, Zenon DEF DurableInv
  <2> QED
    BY <1>7, <2>3, <2>4, <2>5, ReadMoves, Zenon
<1>8. ASSUME NEW pt \in Points, NEW v \in Values, CastVote(pt, v) PROVE DurableInv'
  <2> DEFINE x == [Round |-> status.Round, point |-> pt, value |-> v]
  <2>1. acts' = <<attest(x)>> /\ status' = [Round |-> status.Round, cast |-> status.cast \cup {pt}]
        /\ persist' = [Round |-> status'.Round, cast |-> status'.cast, acts |-> acts']
    BY <1>8, CastShape, Zenon
  <2>2. UNCHANGED <<jobs, disk, ledger, sent>>
    BY <1>8, Zenon DEF CastVote
  <2>3. Upto(status, persist') /\ Upto(persist', status') /\ Covers(persist', x)
    BY <2>1, Zenon DEF Upto, Covers
  <2>4. Upto(persist, persist')
    BY <1>0, <2>3, RoundTypes, RoundTypesNext, UptoTransitive, Zenon DEF StatesGrow
  <2>5. ActsKept'
    <3>1. Len(acts') = 1 /\ acts'[1].T = "attest" /\ acts'[1].vote = x
      BY <2>1, Zenon DEF attest
    <3>2. ActKept(acts[1])'
      BY <2>3, <3>1, Zenon DEF ActKept, Covers
    <3> QED
      BY <3>1, <3>2 DEF ActsKept
  <2> QED
    BY <2>2, <2>3, <2>4, <2>5, DurablePlayer, Zenon
<1>9. ASSUME NEW pts \in {{}} \cup {{pt} : pt \in Points}, NEW v \in Values, EndRound(pts, v)
      PROVE  DurableInv'
  <2>1. UNCHANGED <<jobs, disk, ledger, sent>>
    BY <1>9, Zenon DEF EndRound
  <2>2. status' = [Round |-> status.Round + 1, cast |-> pts]
    BY <1>9, EndShape, Zenon
  <2>3. Upto(status, status')
    BY <2>2, RoundTypes DEF Upto
  <2>4. CASE acts' = <<ensure(status.Round)>> /\ persist' = persist
    <3>1. Upto(persist, persist') /\ Upto(persist', status')
      <4>1. Upto(persist, status')
        BY <1>0, <2>3, RoundTypes, RoundTypesNext, UptoTransitive, Zenon DEF StatesGrow
      <4> QED
        BY <2>4, <4>1, Zenon DEF Upto
    <3>2. ActsKept'
      <4>1. Len(acts') = 1 /\ acts'[1].T = "ensure"
        BY <2>4, Zenon DEF ensure
      <4> QED
        BY <4>1 DEF ActsKept, ActKept
    <3> QED
      BY <2>1, <3>1, <3>2, DurablePlayer, Zenon
  <2>5. ASSUME NEW pt \in Points,
               LET x == [Round |-> status.Round + 1, point |-> pt, value |-> v]
               IN  /\ pts = {pt} /\ x \in Votes /\ acts' = <<ensure(status.Round), attest(x)>>
                   /\ persist' = [Round |-> status'.Round, cast |-> pts, acts |-> acts']
        PROVE  DurableInv'
    <3> DEFINE x == [Round |-> status.Round + 1, point |-> pt, value |-> v]
    <3>1. /\ acts' = <<ensure(status.Round), attest(x)>> /\ pts = {pt}
          /\ persist' = [Round |-> status'.Round, cast |-> pts, acts |-> acts']
      BY <2>5, Zenon
    <3>2. Upto(status, persist') /\ Upto(persist', status') /\ Covers(persist', x)
      BY <2>2, <3>1, RoundTypes DEF Upto, Covers
    <3>3. Upto(persist, persist')
      BY <1>0, <3>2, RoundTypes, RoundTypesNext, UptoTransitive, Zenon DEF StatesGrow
    <3>4. ActsKept'
      <4>1. Len(acts') = 2 /\ acts'[1].T = "ensure" /\ acts'[2].T = "attest" /\ acts'[2].vote = x
        BY <3>1, Zenon DEF attest, ensure
      <4>2. ActKept(acts[1])' /\ ActKept(acts[2])'
        BY <3>2, <4>1, Zenon DEF ActKept, Covers
      <4> QED
        BY <4>1, <4>2 DEF ActsKept
    <3> QED
      BY <2>1, <3>2, <3>3, <3>4, DurablePlayer, Zenon
  <2>6. \/ acts' = <<ensure(status.Round)>> /\ persist' = persist
        \/ \E pt \in Points :
              LET x == [Round |-> status.Round + 1, point |-> pt, value |-> v]
              IN  /\ pts = {pt} /\ x \in Votes /\ acts' = <<ensure(status.Round), attest(x)>>
                  /\ persist' = [Round |-> status'.Round, cast |-> pts, acts |-> acts']
    BY <1>9, EndShape, Zenon
  <2> QED
    BY <2>4, <2>5, <2>6, Zenon
<1>10. CASE RoundInterruption
  <2>1. /\ UNCHANGED <<jobs, disk, ledger, sent>> /\ acts' = << >> /\ persist' = persist
        /\ status' = [Round |-> ledger.next, cast |-> {}] /\ ledger.durable > status.Round
    <3>1. /\ UNCHANGED <<jobs, disk, ledger, sent>> /\ ledger.durable > status.Round
          /\ Submit([Round |-> ledger.next, cast |-> {}], << >>)
      BY <1>10, Zenon DEF RoundInterruption
    <3>2. ~ \E i \in 1 .. Len(<< >>) : << >>[i].T = "attest"
      OBVIOUS
    <3> QED
      BY <3>1, <3>2, Zenon DEF Submit
  <2>2. Upto(status, status')
    BY <2>1, RoundTypes DEF TypeInv, Upto
  <2>3. Upto(persist, status')
    BY <1>0, <2>2, RoundTypes, RoundTypesNext, UptoTransitive, Zenon DEF StatesGrow
  <2>4. Upto(persist, persist') /\ Upto(persist', status') /\ ActsKept'
    BY <2>1, <2>3 DEF Upto, ActsKept
  <2> QED
    BY <2>1, <2>4, DurablePlayer, Zenon
<1>11. CASE ShutdownReturns
  <2>1. /\ UNCHANGED <<persist, status, disk, ledger, sent>> /\ jobs' = << >> /\ acts' = << >>
    BY <1>11, Zenon DEF ShutdownReturns, CoverInv
  <2>2. SentKept' /\ StatesGrow'
    BY <1>0, <1>a, <1>b, <2>1, RoundTypes, SentKeptGrows
  <2>3. Len(jobs') = 0 /\ Len(acts') = 0
    BY <2>1, Zenon
  <2> QED
    BY <2>2, <2>3 DEF DurableInv, JobsKept, JobsInOrder, ActsKept
<1>12. ASSUME NEW i \in 1 .. Len(jobs), RunTask(i) PROVE DurableInv'
  <2>1. UNCHANGED <<persist, status, disk, ledger, sent, acts>>
    BY <1>12, Zenon DEF RunTask
  <2>2. PICK k \in Tasks : Moved(jobs, jobs', i, jobs[i].request, k)
    BY <1>12, RunMoves, Zenon
  <2>3. JobKept(i) /\ jobs[i].task # "closed"
    BY <1>0, <1>12, RunMoves, Zenon DEF JobsKept
  <2>4. JobsKept'
    BY <1>0, <2>1, <2>2, <2>3, JobsKeptMoved, Zenon DEF JobKept, Written
  <2>5. JobsInOrder'
    <3> SUFFICES ASSUME NEW a \in 1 .. Len(jobs), NEW b \in 1 .. Len(jobs), a < b PROVE InOrder(a, b)'
      BY <2>2, Zenon DEF JobsInOrder, Moved
    <3>1. InOrder(a, b)
      BY <1>0, Zenon DEF JobsInOrder
    <3>2. /\ jobs'[a].state = jobs[a].state /\ jobs'[b].state = jobs[b].state
          /\ jobs'[a].request = jobs[a].request /\ jobs'[b].request = jobs[b].request
      BY <2>2, Zenon DEF Moved
    <3> QED
      BY <3>1, <3>2, Zenon DEF InOrder, Upto
  <2> QED
    BY <2>1, <2>2, <2>4, <2>5, DurableMoved, Zenon
<1>13. ASSUME NEW i \in 1 .. Len(jobs), TakeRequest(i) PROVE DurableInv'
  <2>1. /\ UNCHANGED <<persist, status, disk, ledger, sent, acts>> /\ jobs[i].request = "pending"
        /\ \A n \in 1 .. Len(jobs) : jobs[n].request # "writing"
        /\ jobs' = [jobs EXCEPT ![i].request = "writing"] /\ "writing" \in Requests
    BY <1>13, Zenon DEF TakeRequest, Requests
  <2>2. Moved(jobs, jobs', i, "writing", jobs[i].task)
    BY <1>0, <2>1, MoveRequest, Zenon
  <2>3. JobsKept'
    BY <1>0, <2>1, <2>2, JobsKeptMoved, Zenon
  <2>4. \A n \in 1 .. (i - 1) : jobs[n].request # "pending"
    <3> SUFFICES ASSUME NEW n \in 1 .. (i - 1) PROVE jobs[n].request # "pending"
      BY Zenon
    <3>1. n \in 1 .. Len(jobs) /\ n < i
      BY <1>0
    <3>2. InOrder(n, i)
      BY <1>0, <3>1, Zenon DEF JobsInOrder
    <3> QED
      BY <2>1, <3>2, Zenon DEF InOrder
  <2>5. \A n \in (i + 1) .. Len(jobs) : jobs[n].request = "new"
    <3> SUFFICES ASSUME NEW n \in (i + 1) .. Len(jobs) PROVE jobs[n].request = "new"
      BY Zenon
    <3>1. n \in 1 .. Len(jobs) /\ i < n
      BY <1>0
    <3>2. InOrder(i, n)
      BY <1>0, <3>1, Zenon DEF JobsInOrder
    <3> QED
      BY <2>1, <3>2, Zenon DEF InOrder
  <2>6. JobsInOrder'
    <3>1. \A n \in 1 .. (i - 1) : jobs[n].request # "pending" /\ jobs[n].request # "writing"
      BY <1>0, <2>1, <2>4
    <3> QED
      BY <1>0, <2>2, <2>5, <3>1, InOrderMoved, Zenon
  <2> QED
    BY <2>1, <2>2, <2>3, <2>6, DurableMoved, Zenon
<1>14. ASSUME NEW i \in 1 .. Len(jobs), PersistState(i) PROVE DurableInv'
  <2>1. UNCHANGED <<persist, status, ledger, sent, acts>>
    BY <1>14, Zenon DEF PersistState
  <2>2. JobsKept' /\ JobsInOrder' /\ Upto(disk, disk') /\ Upto(disk', persist)
    BY <1>14, JobsWritten, Zenon
  <2>3. ledger.durable <= ledger'.durable
    BY <2>1, RoundTypes
  <2>4. SentKept'
    BY <1>0, <2>1, <2>2, <2>3, SentKeptGrows, Zenon
  <2>5. StatesGrow'
    BY <1>0, <2>1, <2>2, Zenon DEF StatesGrow, Upto
  <2>6. ActsKept'
    <3> SUFFICES ASSUME NEW n \in 1 .. Len(acts) PROVE ActKept(acts[n])'
      BY <2>1, Zenon DEF ActsKept
    <3> DEFINE a == acts[n]
    <3>1. a \in Actions /\ ActKept(a)
      BY <1>0 DEF ActsKept
    <3>2. (a.T = "relay" => a.vote \in Votes) /\ (jobs # << >> => jobs[1].vote \in Votes)
      <4>1. jobs # << >> => 1 \in 1 .. Len(jobs)
        BY <1>0
      <4>2. jobs # << >> => jobs[1].vote \in Votes
        BY <1>0, <4>1, JobFields, Zenon
      <4> QED
        BY <3>1, <4>2, ActionFields, Zenon
    <3> HIDE DEF a
    <3>3. /\ a.T = "attest" => Covers(persist, a.vote)
          /\ a.T = "relay" => Covers(disk', a.vote) \/ ledger'.durable > a.vote.Round
          /\ a.T = "checkpoint" /\ ~a.err =>
               jobs # << >> /\ (Covers(disk', jobs[1].vote) \/ ledger'.durable > jobs[1].vote.Round)
      BY <2>2, <2>3, <3>1, <3>2, KeptStays, Zenon DEF ActKept
    <3>4. acts[n]' = a
      BY <2>1, Zenon DEF a
    <3>5. jobs # << >> => jobs' # << >> /\ jobs'[1].vote = jobs[1].vote
      BY <1>0, <1>14, PersistMoves DEF Moved
    <3> QED
      BY <2>1, <3>3, <3>4, <3>5, Zenon DEF ActKept, Kept, Covers
  <2> QED
    BY <2>2, <2>4, <2>5, <2>6, Zenon DEF DurableInv
<1>15. ~Restart
  BY RestartShape DEF TypeInv
<1> QED
  BY <1>1, <1>2, <1>3, <1>4, <1>5, <1>6, <1>7, <1>8, <1>9, <1>10, <1>11, <1>12, <1>13, <1>14, <1>15
     DEF Next, DemuxLoop, VerifierLoop, PersistenceLoop, Environment

LEMMA InitInv == Init => PersistInv
<1> SUFFICES ASSUME Init PROVE PersistInv
  BY Zenon
<1>1. /\ jobs = << >> /\ acts = << >> /\ persist = ZeroState /\ disk = ZeroState /\ sent = {} /\ restarts = 0
      /\ Len(jobs) = 0 /\ Len(acts) = 0
  BY Zenon DEF Init
<1>2. ZeroState \in States /\ ZeroState.Round = 0 /\ ZeroState.cast = {} /\ ZeroState.acts = << >>
  BY ShortLists DEF ZeroState, States
<1>3. TypeInv
  <2>1. acts \in Seq(Actions) /\ jobs \in Seq(Jobs)
    BY <1>1, ShortLists, Zenon
  <2>2. status \in [Round : 1 .. (MaxRound + 1), cast : SUBSET Points]
    BY DEF Init
  <2>3. /\ ledger \in [next : 1 .. (MaxRound + 1), durable : 1 .. (MaxRound + 1)]
        /\ ledger.durable = 1 /\ ledger.next = 1
    BY DEF Init
  <2>4. pc = "do" /\ quit = FALSE
    BY Zenon DEF Init
  <2>5. ledger.durable <= ledger.next /\ disk.Round <= ledger.durable /\ restarts \in Nat
    BY <1>1, <1>2, <2>3
  <2> QED
    BY <1>1, <1>2, <2>1, <2>2, <2>3, <2>4, <2>5, Zenon DEF TypeInv
<1>4. VotesIn(<< >>) = {}
  BY VotesOfActions, Zenon
<1>5. CoverInv
  BY <1>1, <1>2, <1>4 DEF CoverInv, SelfCovered
<1>6. KnownOf(jobs) = {}
  BY <1>1, InKnownOf
<1>7. VoteInv
  BY <1>1, <1>2, <1>4, <1>6, Zenon DEF VoteInv, Known
<1>8. StatesGrow
  BY <1>1, <1>2 DEF Init, StatesGrow, Upto
<1>9. DurableInv
  BY <1>1, <1>8 DEF DurableInv, SentKept, JobsKept, JobsInOrder, ActsKept
<1> QED
  BY <1>3, <1>5, <1>7, <1>9, Zenon DEF PersistInv

LEMMA InvStep == PersistInv /\ [Next]_vars => PersistInv'
<1> SUFFICES ASSUME PersistInv, [Next]_vars PROVE PersistInv'
  BY Zenon
<1>1. TypeInv /\ CoverInv
  BY Zenon DEF PersistInv
<1>2. TypeInv' /\ CoverInv'
  BY <1>1, TypeStep, CoverStep, Zenon
<1>3. restarts \in Nat /\ (restarts' = restarts \/ restarts' = restarts + 1)
  <2>1. CASE Restart
    BY <1>1, <2>1, RestartShape, Zenon DEF TypeInv
  <2>2. CASE ~Restart
    BY <1>1, <2>2, Zenon
       DEF TypeInv, Next, vars, DemuxLoop, VerifierLoop, PersistenceLoop, Environment, MakeVotes, Enqueue,
           Checkpoint, Relay, Ensure, Done, ReadQueue, Wait, CastVote, EndRound, RoundInterruption, LeaveLoop,
           RunTask, TakeRequest, PersistState, Flush, Catchup, Shutdown, ShutdownReturns
  <2> QED
    BY <2>1, <2>2, Zenon
<1>4. restarts' <= 1 => VoteInv'
  BY <1>1, <1>2, <1>3, VoteStep DEF PersistInv
<1>5. restarts' = 0 => DurableInv'
  BY <1>1, <1>2, <1>3, DurableStep DEF PersistInv
<1> QED
  BY <1>2, <1>4, <1>5, Zenon DEF PersistInv

----------------------------------------------------------------------------
(* Theorems.                                                               *)

\* The inductive invariant: the votes the node knows of agree and the player
\* does not repeat them up to the first restart, and until it happens a vote is
\* on its way to the network only when it is kept.
THEOREM PersistInvariant == Spec => []PersistInv
  BY InitInv, InvStep, PTL DEF Spec

\* For every number of rounds, points, values, votes tasks and restarts: the
\* state in the crash database (persistState waits for the ledger) is never of
\* a round whose predecessor the ledger could lose, so a restored player finds
\* its own round.
THEOREM DiskNeverAhead == Spec => []DiskBehindLedger
<1>1. PersistInv => DiskBehindLedger
  <2> SUFFICES ASSUME TypeInv PROVE DiskBehindLedger
    BY Zenon DEF PersistInv
  <2>1. disk.Round \in 0 .. MaxRound /\ disk.cast \subseteq Points
    BY Zenon DEF TypeInv, States
  <2>2. \A i \in 1 .. Len(jobs) : jobs[i].vote \in Votes /\ jobs[i].request \in Requests /\ jobs[i].task \in Tasks
    BY JobFields, Zenon DEF TypeInv
  <2>3. ledger.durable \in 1 .. ledger.next /\ ledger.next \in 1 .. (MaxRound + 1) /\ disk.Round <= ledger.durable
    BY DEF TypeInv
  <2>4. /\ pc \in {"do", "poll", "select", "quit", "down"} /\ quit \in BOOLEAN /\ sent \subseteq Votes
        /\ status.Round \in 1 .. (MaxRound + 1) /\ status.cast \subseteq Points
    BY Zenon DEF TypeInv
  <2> QED
    BY <2>1, <2>2, <2>3, <2>4, Zenon DEF DiskBehindLedger, TypeOK, Requests, Tasks
<1> QED
  BY <1>1, PersistInvariant, PTL

\* "we don't want to send any vote unless we've completed flushing it to disk"
\* (pseudonode.go): until the node is started again, whatever it has sent the
\* crash database or the durable ledger keeps it from voting there again.
THEOREM SentIsDurable == Spec => []SentIsDurableAtFirst
<1>1. PersistInv => SentIsDurableAtFirst
  BY Zenon DEF PersistInv, DurableInv, SentKept, Kept, SentIsDurableAtFirst
<1> QED
  BY <1>1, PersistInvariant, PTL

\* Across the first restart, whenever the process dies and whatever write
\* fails, the network never gets two votes of the node for one point.  (The
\* vote replayed then is persisted as a state of round 0, so nothing is claimed
\* once the node is started a second time after a crash.)
THEOREM NoDoubleVote == Spec => [](restarts <= 1 => OneVotePerPoint)
<1>1. PersistInv => (restarts <= 1 => OneVotePerPoint)
  BY Zenon DEF PersistInv, VoteInv, Known, Agree, OneVotePerPoint
<1> QED
  BY <1>1, PersistInvariant, PTL
=============================================================================
