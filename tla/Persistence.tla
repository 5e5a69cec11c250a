---------------------------- MODULE Persistence ----------------------------
(***************************************************************************)
(* How a vote leaves the node, and what a crash makes of it: mainLoop and  *)
(* demuxLoop (agreement/service.go), the actions they perform (actions.go),*)
(* the pseudonode's votes task (pseudonode.go), the asynchronous           *)
(* persistence loop and the crash database (persistence.go), the queue of  *)
(* prioritised channels (demux.go), and a ledger that writes its blocks    *)
(* some time after it has them in memory.                                  *)
(*                                                                         *)
(* The player is reduced to what matters here: a vote is cast once per     *)
(* point, a (period, step) of the round (PlayerNode!OneValuePerStep), for  *)
(* a value that depends on the messages that arrived, hence for any value. *)
(* mainLoop and demuxLoop hand control to each other over unbuffered       *)
(* channels and never run at once: they are one process here.              *)
(***************************************************************************)
EXTENDS Integers, Sequences

CONSTANTS
    Values,      \* proposal-values
    Points,      \* the (period, step)s of a round
    MaxRound,    \* bound: rounds 1..MaxRound
    MaxJobs,     \* pseudonodeVerificationBacklog: votes tasks in the queue
    MaxRestarts, \* bound: how often the node is started again
    DiskFails    \* whether a write to the crash database may fail

ASSUME BoundAssumption ==
    MaxRound \in Nat \ {0} /\ MaxJobs \in Nat \ {0} /\ MaxRestarts \in Nat
ASSUME DiskFailsAssumption == DiskFails \in BOOLEAN

Rounds == 1..MaxRound
Votes == [Round : Rounds, point : Points, value : Values]

\* The persisted part of the service: player, router and actions.
ZeroState == [Round |-> 0, cast |-> {}, acts |-> << >>]

VARIABLES
    pc,       \* of demuxLoop: "do", "poll" and "select" in demux.next, "quit"
              \* when its loop is left, "down" when Shutdown has returned
    acts,     \* the actions still to perform
    status,   \* the player: its round and the points it has voted at
    persist,  \* Service.persist{Router,Status,Actions}
    jobs,     \* the attests whose channels are in demux.queue, oldest first
    disk,     \* the row of the crash database
    ledger,   \* NextRound in memory, and as of the durable blocks
    quit,     \* Shutdown was called
    sent,     \* history: the votes given to the network since the node exists
    restarts  \* history: how often the node was started again

vars == <<pc, acts, status, persist, jobs, disk, ledger, quit, sent, restarts>>

\* A job is the votes task of an attest with its persistentRequest.
\*   request: "new" before the request is in the pending channel, "pending" in
\*     it, "writing" taken by the loop, "stored" or "failed" when the
\*     checkpointEvent is in its channel, "read" when the player has it, "done"
\*     when the checkpointAction has closed persistStateDone;
\*   task: "queued", "waiting" for persistStateDone, "sending" its vote, "closed".
Job(vote) == [vote |-> vote, state |-> persist, request |-> "new", task |-> "queued"]

attest(vote) == [T |-> "attest", vote |-> vote]
ensure(round) == [T |-> "ensure", Round |-> round]

Init ==
    /\ pc = "do" /\ acts = << >>
    /\ status = [Round |-> 1, cast |-> {}]
    /\ persist = ZeroState
    /\ jobs = << >>
    /\ disk = ZeroState
    /\ ledger = [next |-> 1, durable |-> 1]
    /\ quit = FALSE
    /\ sent = {}
    /\ restarts = 0

----------------------------------------------------------------------------
(* demuxLoop performs the actions, in order.                               *)

Performs(T) == pc = "do" /\ acts # << >> /\ Head(acts).T = T

Enqueuing == jobs # << >> /\ jobs[Len(jobs)].request = "new"

\* attest: without keys or with a full backlog nothing happens; otherwise the
\* votes task is queued.
MakeVotes ==
    /\ Performs("attest")
    /\ ~Enqueuing
    /\ \/ acts' = Tail(acts) /\ UNCHANGED jobs
       \/ /\ Len(SelectSeq(jobs, LAMBDA j : j.task = "queued")) < MaxJobs
          /\ jobs' = Append(jobs, Job(Head(acts).vote))
          /\ UNCHANGED acts
    /\ UNCHANGED <<pc, status, persist, disk, ledger, quit, sent, restarts>>

\* persistState waits for room in the pending channel; then the channels of
\* both are prioritised.
Enqueue ==
    /\ Performs("attest")
    /\ Enqueuing
    /\ \A i \in 1..Len(jobs) : jobs[i].request # "pending"
    /\ jobs' = [jobs EXCEPT ![Len(jobs)].request = "pending"]
    /\ acts' = Tail(acts)
    /\ UNCHANGED <<pc, status, persist, disk, ledger, quit, sent, restarts>>

\* Mutant of Checkpoint: a failed write is treated like a successful one.
CheckpointIgnoresError ==
    /\ Performs("checkpoint")
    /\ jobs' = [jobs EXCEPT ![1].request = "done"]
    /\ acts' = Tail(acts)
    /\ UNCHANGED <<pc, status, persist, disk, ledger, quit, sent, restarts>>

\* checkpoint: a failure is handed to the votes task over the unbuffered
\* channel persistStateDone, which is then closed.
Checkpoint ==
    LET err == Head(acts).err IN
    /\ Performs("checkpoint")
    /\ err => jobs[1].task = "waiting"
    /\ jobs' = [jobs EXCEPT ![1].request = "done",
                            ![1].task = IF err THEN "closed" ELSE @]
    /\ acts' = Tail(acts)
    /\ UNCHANGED <<pc, status, persist, disk, ledger, quit, sent, restarts>>

Relay ==
    /\ Performs("relay")
    /\ sent' = sent \cup {Head(acts).vote}
    /\ acts' = Tail(acts)
    /\ UNCHANGED <<pc, status, persist, jobs, disk, ledger, quit, restarts>>

\* ensure returns when the block is in the ledger's memory.
Ensure ==
    /\ Performs("ensure")
    /\ ledger' = [ledger EXCEPT !.next = IF @ > Head(acts).Round THEN @ ELSE Head(acts).Round + 1]
    /\ acts' = Tail(acts)
    /\ UNCHANGED <<pc, status, persist, jobs, disk, quit, sent, restarts>>

Done ==
    /\ pc = "do" /\ acts = << >>
    /\ pc' = "poll"
    /\ UNCHANGED <<acts, status, persist, jobs, disk, ledger, quit, sent, restarts>>

----------------------------------------------------------------------------
(* demux.next, and the player's answer to the event.                       *)

\* mainLoop: the player went to st1 and returns al.
Submit(st1, al) ==
    /\ status' = st1
    /\ acts' = al
    /\ persist' = IF \E i \in 1..Len(al) : al[i].T = "attest"
                  THEN [Round |-> st1.Round, cast |-> st1.cast, acts |-> al] ELSE persist
    /\ pc' = "do"

\* The first channel of the queue has an event, or is closed.
Ready == /\ jobs # << >>
         /\ \/ jobs[1].request \in {"stored", "failed"}
            \/ jobs[1].request = "done" /\ jobs[1].task \in {"sending", "closed"}

\* The checkpointEvent, or the vote, of the oldest job; a closed channel is
\* dropped from the queue.
ReadQueue ==
    /\ pc \in {"poll", "select"}
    /\ Ready
    /\ LET j == jobs[1] IN
       CASE j.request # "done" ->
              /\ jobs' = [jobs EXCEPT ![1].request = "read"]
              /\ Submit(status, <<[T |-> "checkpoint", err |-> j.request = "failed"]>>)
         [] j.request = "done" /\ j.task = "sending" ->
              /\ jobs' = [jobs EXCEPT ![1].task = "closed"]
              /\ \/ Submit(status, << >>)
                 \/ /\ j.vote.Round = status.Round
                    /\ Submit(status, <<[T |-> "relay", vote |-> j.vote]>>)
         [] OTHER ->
              /\ jobs' = Tail(jobs)
              /\ pc' = "poll"
              /\ UNCHANGED <<acts, status, persist>>
    /\ UNCHANGED <<disk, ledger, quit, sent, restarts>>

\* Nothing prioritised is ready: wait for whatever comes first.
Wait ==
    /\ pc = "poll" /\ ~Ready /\ ~quit
    /\ pc' = "select"
    /\ UNCHANGED <<acts, status, persist, jobs, disk, ledger, quit, sent, restarts>>

\* A timeout or a message makes the player vote at a new point.
CastVote(pt, v) ==
    /\ pc = "select"
    /\ status.Round <= MaxRound /\ pt \notin status.cast
    /\ Submit([status EXCEPT !.cast = @ \cup {pt}],
              <<attest([Round |-> status.Round, point |-> pt, value |-> v])>>)
    /\ UNCHANGED <<jobs, disk, ledger, quit, sent, restarts>>

\* The round ends with a certificate; the player may at once vote in the next
\* one, on messages pipelined for it.
EndRound(pts, v) ==
    LET r == status.Round IN
    /\ pc = "select"
    /\ r <= MaxRound /\ (r = MaxRound => pts = {})
    /\ Submit([Round |-> r + 1, cast |-> pts],
              IF pts = {} THEN <<ensure(r)>>
              ELSE <<ensure(r), attest([Round |-> r + 1, point |-> CHOOSE p \in pts : TRUE, value |-> v])>>)
    /\ UNCHANGED <<jobs, disk, ledger, quit, sent, restarts>>

\* The ledger has durably passed the player's round.
RoundInterruption ==
    /\ pc = "select"
    /\ ledger.durable > status.Round
    /\ Submit([Round |-> ledger.next, cast |-> {}], << >>)
    /\ UNCHANGED <<jobs, disk, ledger, quit, sent, restarts>>

\* Shutdown's quit channel is closed: demuxLoop ends mainLoop and itself.
LeaveLoop ==
    /\ pc \in {"poll", "select"}
    /\ quit
    /\ pc' = "quit"
    /\ UNCHANGED <<acts, status, persist, jobs, disk, ledger, quit, sent, restarts>>

----------------------------------------------------------------------------
(* The votes tasks run one after the other; the context is cancelled by    *)
(* Shutdown.                                                               *)

Current(i) == jobs[i].task # "closed" /\ \A k \in 1..(i - 1) : jobs[k].task = "closed"

\* Mutant of RunTask: a task that waits for the disk does not see the shutdown.
RunTaskUncancelled(i) ==
    /\ Current(i)
    /\ \/ jobs[i].task = "queued" /\ jobs' = [jobs EXCEPT ![i].task = "waiting"]
       \/ /\ jobs[i].task = "waiting" /\ jobs[i].request = "done"
          /\ jobs' = [jobs EXCEPT ![i].task = "sending"]
    /\ UNCHANGED <<pc, acts, status, persist, disk, ledger, quit, sent, restarts>>

\* execute: no account of the node may be on the committee; otherwise it
\* waits until the state is on disk, and sends.
RunTask(i) ==
    /\ Current(i)
    /\ \/ jobs[i].task = "queued" /\ ~quit /\ jobs' = [jobs EXCEPT ![i].task = "waiting"]
       \/ jobs[i].task = "queued" /\ jobs' = [jobs EXCEPT ![i].task = "closed"]
       \/ /\ jobs[i].task = "waiting" /\ jobs[i].request = "done"
          /\ jobs' = [jobs EXCEPT ![i].task = "sending"]
       \/ jobs[i].task # "queued" /\ quit /\ jobs' = [jobs EXCEPT ![i].task = "closed"]
    /\ UNCHANGED <<pc, acts, status, persist, disk, ledger, quit, sent, restarts>>

----------------------------------------------------------------------------
(* asyncPersistenceLoop.loop.                                              *)

\* Mutant of TakeRequest: the channel of checkpointEvents has no buffer.
TakeRequestUnbuffered(i) ==
    /\ jobs[i].request = "pending"
    /\ \A k \in 1..Len(jobs) : jobs[k].request \notin {"writing", "stored", "failed"}
    /\ jobs' = [jobs EXCEPT ![i].request = "writing"]
    /\ UNCHANGED <<pc, acts, status, persist, disk, ledger, quit, sent, restarts>>

TakeRequest(i) ==
    /\ jobs[i].request = "pending"
    /\ \A k \in 1..Len(jobs) : jobs[k].request # "writing"
    /\ jobs' = [jobs EXCEPT ![i].request = "writing"]
    /\ UNCHANGED <<pc, acts, status, persist, disk, ledger, quit, sent, restarts>>

\* Mutant of PersistState: the ledger is not waited for.
PersistStateUnchecked(i) ==
    /\ jobs[i].request = "writing"
    /\ disk' = jobs[i].state
    /\ jobs' = [jobs EXCEPT ![i].request = "stored"]
    /\ UNCHANGED <<pc, acts, status, persist, ledger, quit, sent, restarts>>

\* The ledger has the block before the state's round on disk; the write is a
\* transaction.
PersistState(i) ==
    /\ jobs[i].request = "writing"
    /\ ledger.durable >= jobs[i].state.Round
    /\ \/ /\ disk' = jobs[i].state
          /\ jobs' = [jobs EXCEPT ![i].request = "stored"]
       \/ /\ DiskFails
          /\ jobs' = [jobs EXCEPT ![i].request = "failed"]
          /\ UNCHANGED disk
    /\ UNCHANGED <<pc, acts, status, persist, ledger, quit, sent, restarts>>

----------------------------------------------------------------------------
(* The ledger, Shutdown, and the node going down and up again.             *)

\* The block queue reaches the disk.
Flush ==
    /\ ledger.durable < ledger.next
    /\ ledger' = [ledger EXCEPT !.durable = @ + 1]
    /\ UNCHANGED <<pc, acts, status, persist, jobs, disk, quit, sent, restarts>>

\* Catchup adds a block.
Catchup ==
    /\ ledger.next <= MaxRound
    /\ ledger' = [ledger EXCEPT !.next = @ + 1]
    /\ UNCHANGED <<pc, acts, status, persist, jobs, disk, quit, sent, restarts>>

Shutdown ==
    /\ ~quit
    /\ quit' = TRUE
    /\ UNCHANGED <<pc, acts, status, persist, jobs, disk, ledger, sent, restarts>>

\* pseudonode.Quit has waited for the running votes task, Shutdown for both
\* loops and then for the persistence loop.
ShutdownReturns ==
    /\ pc = "quit"
    /\ \A i \in 1..Len(jobs) : jobs[i].task \in {"queued", "closed"}
    /\ pc' = "down" /\ jobs' = << >>
    /\ UNCHANGED <<acts, status, persist, disk, ledger, quit, sent, restarts>>

\* Mutant of Restore: the state of the ledger's own round is dropped as well.
RestoreLater(d, round) ==
    IF d.Round <= round THEN [Round |-> round, cast |-> {}, acts |-> << >>] ELSE d

\* mainLoop starts from the crash database, or afresh when its state is of a
\* round the ledger has passed.
Restore(d, round) ==
    IF d.Round < round THEN [Round |-> round, cast |-> {}, acts |-> << >>] ELSE d

\* The process dies, or was shut down, and starts again.
Restart ==
    LET s == Restore(disk, ledger.durable) IN
    /\ restarts < MaxRestarts
    /\ restarts' = restarts + 1
    /\ ledger' = [ledger EXCEPT !.next = ledger.durable]
    /\ status' = [Round |-> s.Round, cast |-> s.cast]
    /\ acts' = s.acts
    /\ persist' = ZeroState
    /\ jobs' = << >>
    /\ pc' = "do" /\ quit' = FALSE
    /\ UNCHANGED <<disk, sent>>

DemuxLoop == MakeVotes \/ Enqueue \/ Checkpoint \/ Relay \/ Ensure \/ Done \/ ReadQueue \/ Wait
VerifierLoop == \E i \in 1..Len(jobs) : RunTask(i)
PersistenceLoop == \E i \in 1..Len(jobs) : TakeRequest(i) \/ PersistState(i)
Environment ==
    \/ \E pt \in Points, v \in Values : CastVote(pt, v)
    \/ \E pts \in {{}} \cup {{pt} : pt \in Points}, v \in Values : EndRound(pts, v)
    \/ RoundInterruption \/ Catchup \/ Shutdown \/ Restart

Next == DemuxLoop \/ LeaveLoop \/ ShutdownReturns
        \/ VerifierLoop \/ PersistenceLoop \/ Flush \/ Environment

\* Goroutines that can run do, a select among ready channels does not neglect
\* one of them forever, and the ledger writes its blocks.
Fairness ==
    /\ WF_vars(DemuxLoop) /\ WF_vars(ShutdownReturns)
    /\ WF_vars(VerifierLoop) /\ WF_vars(PersistenceLoop) /\ WF_vars(Flush)
    /\ SF_vars(LeaveLoop)

Spec == Init /\ [][Next]_vars
FairSpec == Spec /\ Fairness

----------------------------------------------------------------------------
(* Properties.                                                             *)

\* Type invariant, a conjunct of DiskBehindLedger.
TypeOK ==
    /\ pc \in {"do", "poll", "select", "quit", "down"}
    /\ status.Round \in 1..(MaxRound + 1) /\ status.cast \subseteq Points
    /\ disk.Round \in 0..MaxRound /\ disk.cast \subseteq Points
    /\ \A i \in 1..Len(jobs) :
          /\ jobs[i].vote \in Votes
          /\ jobs[i].request \in {"new", "pending", "writing", "stored", "failed", "read", "done"}
          /\ jobs[i].task \in {"queued", "waiting", "sending", "closed"}
    /\ ledger.durable \in 1..ledger.next /\ ledger.next \in 1..(MaxRound + 1)
    /\ quit \in BOOLEAN
    /\ sent \subseteq Votes

\* The network never gets two votes of the node for one point of a round: not
\* when the node crashes after the vote, before it, or between the write of its
\* state and the vote, and not when the write fails.
OneVotePerPoint ==
    \A x, y \in sent : x.Round = y.Round /\ x.point = y.point => x = y

\* A state that knows of the vote, or is of a later round.
Covers(d, x) == d.Round > x.Round \/ (d.Round = x.Round /\ x.point \in d.cast)

\* "we don't want to send any vote unless we've completed flushing it to disk"
\* (pseudonode.go): whatever was sent, the crash database or the durable ledger
\* keeps the node from voting there again.  Until the node is started a second
\* time: the vote replayed after a restart is persisted as a state of round 0.
SentIsDurableAtFirst ==
    restarts = 0 => \A x \in sent : Covers(disk, x) \/ ledger.durable > x.Round

\* The state in the crash database is never of a round whose predecessor the
\* ledger could lose in a crash ("make sure that the ledger finished writing
\* the previous round to disk"), so a restored player finds its own round.
DiskBehindLedger == TypeOK /\ disk.Round <= ledger.durable

\* The one place where the demux loop blocks for good: the checkpointAction hands the error
\* of a failed write to a votes task that has ended, for want of a committee or because of
\* the shutdown, over a channel nobody reads any more.
Stuck == Performs("checkpoint") /\ Head(acts).err /\ jobs[1].task = "closed"

\* The demux loop blocks for good in no action but that one: not with the pending channel
\* of the persistence loop full and the loop waiting for the ledger, and not after a failed
\* write that its votes task still waits for.
ActionsEnd == (pc = "do") ~> (pc # "do" \/ Stuck)

\* "This method returns after all resources have been cleaned up" (service.go): Shutdown
\* returns, unless the process dies or the demux loop is stuck with the error of a failed
\* write, wherever the tasks, the disk and the demux loop are.  (The verifier that Shutdown
\* waits for as well is the subject of Verifier.)
ShutdownEnds == quit ~> (pc = "down" \/ ~quit \/ Stuck)
=============================================================================
