---------------------------- MODULE Verifier ----------------------------
(***************************************************************************)
(* The verification pipeline of the agreement service: the demultiplexer   *)
(* that reads messages only while the verifier has room (demux.next), the  *)
(* workers of the verifier (cryptoVerifier.go), the asynchronous vote      *)
(* verifier with the execution pool behind it (asyncVoteVerifier.go,       *)
(* util/execpool), and the shutdown of the service, which waits for all of *)
(* them (service.go).                                                      *)
(*                                                                         *)
(* A message is its kind: a vote, a payload, a vote with the payload it    *)
(* proposes ("compound"), or a bundle.  What the state machine makes of a  *)
(* message is left open; what it may ask the verifier for is not.          *)
(***************************************************************************)
EXTENDS Integers, Sequences, FiniteSets

CONSTANTS
    Parallelism,    \* goroutines of the execution pool
    BacklogSize,    \* capacity of the pool's backlog, 2 * Parallelism in node.go
    Kinds,          \* the kinds of messages that arrive
    BundleVotes,    \* votes in a bundle
    MaxBundles,     \* bound: bundles that arrive
    MaxMessages,    \* bound: messages that arrive
    BundleLoad      \* bound: the messages a bundle counts for in MaxMessages

ASSUME VerifierAssumption ==
    /\ Parallelism \in Nat \ {0} /\ BacklogSize \in Nat \ {0} /\ BundleVotes \in Nat \ {0}
    /\ Kinds \subseteq {"vote", "payload", "compound", "bundle"}
    /\ MaxBundles \in Nat /\ MaxMessages \in Nat /\ BundleLoad \in Nat

VARIABLES
    pc,         \* demuxLoop: "gate", "select", "do", and the stages of quitting
    open,       \* the raw channels that next reads from
    action,     \* what the state machine asked the verifier for
    votesIn, votesOut, bundlesIn, bundlesOut, proposalsIn, proposalsOut,
    fill,       \* voteFillWorker: the task, or the bundle with the votes left, it enqueues
    wait,       \* bundleWaitWorker: the bundle it waits for
    validate,   \* proposalVerifyWorker
    pool,       \* the tasks in the backlog, executing, or done and in execpoolOut
    worker,     \* AsyncVoteVerifier.worker: the response it delivers
    results,    \* bundles one of whose votes has a response
    quit,       \* Service.quit is closed
    closed,     \* poolCryptoVerifier.quit is closed
    arrived, bundles,
    owed        \* history: votes submitted whose result the state machine has not got

voteVars == <<votesIn, votesOut, fill, pool, worker, results>>
bundleVars == <<bundlesIn, bundlesOut, wait, bundles>>
proposalVars == <<proposalsIn, proposalsOut, validate>>
demuxVars == <<pc, open, action, arrived, owed>>
vars == <<demuxVars, voteVars, bundleVars, proposalVars, quit, closed>>

\* Capacities of the channels, from makeCryptoVerifier and MakeAsyncVoteVerifier.
votesInCap == Parallelism
votesOutCap == 3 * Parallelism
bundlesInCap == 1
bundlesOutCap == 3
proposalsInCap == 1
proposalsOutCap == votesInCap + votesOutCap + Parallelism + 3

\* The backlog with the task its goroutine holds, the tasks executing, and execpoolOut.
poolCap == BacklogSize + 1 + Parallelism + 3 * Parallelism

Idle == [kind |-> "none", id |-> 0, left |-> 0]
Stopped == [Idle EXCEPT !.kind = "stopped"]
Refused == [Idle EXCEPT !.kind = "bundle"]
Task(kind, id, left) == [kind |-> kind, id |-> id, left |-> left]

Init ==
    /\ pc = "gate" /\ open = {} /\ action = "none"
    /\ votesIn = <<>> /\ votesOut = <<>> /\ bundlesIn = <<>> /\ bundlesOut = 0
    /\ proposalsIn = 0 /\ proposalsOut = 0
    /\ fill = Idle /\ wait = Idle /\ validate = "idle"
    /\ pool = <<>> /\ worker = <<>>
    /\ results = {}
    /\ quit = FALSE /\ closed = FALSE
    /\ arrived = 0 /\ bundles = 0 /\ owed = 0

----------------------------------------------------------------------------
(* demux.next and the actions demuxLoop carries out.                       *)

\* Mutant of ChannelFull: only the room for results counts.
ChannelFullOut(tag) ==
    CASE tag = "votes" -> votesOutCap - Len(votesOut) < Parallelism + Len(votesIn)
      [] tag = "proposals" -> proposalsOut > 1
      [] tag = "bundles" -> bundlesOutCap - bundlesOut < 2

ChannelFull(tag) ==
    CASE tag = "votes" -> \/ Len(votesIn) = votesInCap
                          \/ votesOutCap - Len(votesOut) < Parallelism + Len(votesIn)
      [] tag = "proposals" -> proposalsIn = proposalsInCap \/ proposalsOut > 1
      [] tag = "bundles" -> Len(bundlesIn) = bundlesInCap \/ bundlesOutCap - bundlesOut < 2

\* Stop reading off the network if there is no space; a vote may be attached to a payload.
Gate ==
    /\ pc = "gate"
    /\ open' = {tag \in {"votes", "proposals", "bundles"} :
                   ~ChannelFull(tag) /\ (tag = "proposals" => ~ChannelFull("votes"))}
    /\ pc' = "select"
    /\ UNCHANGED <<action, arrived, owed, voteVars, bundleVars, proposalVars, quit, closed>>

\* The state machine wants a vote, a payload or a bundle verified, or nothing.
Ask(what) == action' = what /\ pc' = IF what = "none" THEN "gate" ELSE "do"

\* A compound message: its vote is verified first; when the vote is filtered the payload
\* is looked at right away.
ReadRaw(kind) ==
    /\ pc = "select"
    /\ arrived' = arrived + (IF kind = "bundle" THEN BundleLoad ELSE 1)
    /\ arrived' <= MaxMessages
    /\ CASE kind = "vote" -> "votes" \in open /\ Ask("vote") /\ UNCHANGED bundles
         [] kind = "payload" -> "proposals" \in open /\ Ask("payload") /\ UNCHANGED bundles
         [] kind = "compound" -> "proposals" \in open /\ UNCHANGED bundles
                                 /\ (Ask("vote") \/ Ask("payload"))
         [] kind = "bundle" -> "bundles" \in open /\ bundles < MaxBundles
                               /\ bundles' = bundles + 1 /\ Ask("bundle")
    /\ UNCHANGED <<open, owed, voteVars, bundlesIn, bundlesOut, wait, proposalVars, quit, closed>>

\* Once its vote is verified the payload of a compound message follows.  Any other vote, a
\* payload and a bundle may end the round, and a payload that is known for the next round
\* is verified then.
ReadVote ==
    /\ pc = "select" /\ votesOut # <<>>
    /\ votesOut' = Tail(votesOut)
    /\ owed' = owed - 1
    /\ (Ask("none") \/ Ask("payload"))
    /\ UNCHANGED <<open, arrived, votesIn, fill, pool, worker, results,
                   bundleVars, proposalVars, quit, closed>>

ReadProposal ==
    /\ pc = "select" /\ proposalsOut > 0
    /\ proposalsOut' = proposalsOut - 1
    /\ (Ask("none") \/ Ask("payload"))
    /\ UNCHANGED <<open, arrived, owed, voteVars, bundleVars, proposalsIn, validate, quit, closed>>

ReadBundle ==
    /\ pc = "select" /\ bundlesOut > 0
    /\ bundlesOut' = bundlesOut - 1
    /\ (Ask("none") \/ Ask("payload"))
    /\ UNCHANGED <<open, arrived, owed, voteVars, bundlesIn, wait, bundles, proposalVars, quit,
                   closed>>

\* VerifyVote, VerifyProposal and VerifyBundle block while there is no room; a request may
\* be dropped once the service is told to stop.
Submit ==
    /\ pc = "do"
    /\ CASE action = "vote" ->
              /\ Len(votesIn) < votesInCap
              /\ votesIn' = Append(votesIn, Task("vote", 0, 1))
              /\ owed' = owed + 1
              /\ UNCHANGED <<bundlesIn, proposalsIn>>
         [] action = "payload" ->
              /\ proposalsIn < proposalsInCap
              /\ proposalsIn' = proposalsIn + 1
              /\ UNCHANGED <<votesIn, bundlesIn, owed>>
         [] action = "bundle" ->
              /\ Len(bundlesIn) < bundlesInCap
              /\ bundlesIn' = Append(bundlesIn, Task("bundle", bundles, BundleVotes))
              /\ UNCHANGED <<votesIn, proposalsIn, owed>>
    /\ action' = "none" /\ pc' = "gate"
    /\ UNCHANGED <<open, arrived, votesOut, fill, pool, worker,
                   results, bundlesOut, wait, bundles, proposalsOut, validate, quit, closed>>

DropRequest ==
    /\ pc = "do" /\ quit
    /\ action' = "none" /\ pc' = "gate"
    /\ UNCHANGED <<open, arrived, owed, voteVars, bundleVars, proposalVars, quit, closed>>

----------------------------------------------------------------------------
(* voteFillWorker: it feeds the pool with votes and with the votes of      *)
(* bundles.                                                                *)

\* The bundle was refused, all its votes are verified, or one of them is invalid.
Answered(b) == b.kind = "bundle" /\ (b = Refused \/ b.id \in results)

\* Mutant of FillVote: after a bundle the votes are not read any more.
FillVoteUntilBundle ==
    /\ fill = Idle /\ votesIn # <<>> /\ bundles = 0
    /\ fill' = Head(votesIn) /\ votesIn' = Tail(votesIn)
    /\ UNCHANGED <<demuxVars, votesOut, pool, worker, results, bundleVars,
                   proposalVars, quit, closed>>

FillVote ==
    /\ fill = Idle /\ votesIn # <<>>
    /\ fill' = Head(votesIn) /\ votesIn' = Tail(votesIn)
    /\ UNCHANGED <<demuxVars, votesOut, pool, worker, results, bundleVars,
                   proposalVars, quit, closed>>

\* A malformed bundle is refused before any of its votes is verified.
FillBundle ==
    /\ fill = Idle /\ bundlesIn # <<>>
    /\ fill' \in {Head(bundlesIn), Refused} /\ bundlesIn' = Tail(bundlesIn)
    /\ UNCHANGED <<demuxVars, votesIn, votesOut, pool, worker, results,
                   bundlesOut, wait, bundles, proposalVars, quit, closed>>

EnqueueBacklog ==
    /\ fill.left > 0 /\ Len(pool) < poolCap
    /\ pool' = Append(pool, Task(fill.kind, fill.id, 1))
    /\ fill' = IF fill.kind = "bundle" THEN [fill EXCEPT !.left = @ - 1] ELSE Idle
    /\ UNCHANGED <<demuxVars, votesIn, votesOut, worker, results, bundleVars,
                   proposalVars, quit, closed>>

\* The future of a bundle is handed over once all its votes are enqueued.
HandOver ==
    /\ fill.kind = "bundle" /\ fill.left = 0 /\ wait = Idle
    /\ wait' = fill /\ fill' = Idle
    /\ UNCHANGED <<demuxVars, votesIn, votesOut, pool, worker, results,
                   bundlesIn, bundlesOut, bundles, proposalVars, quit, closed>>

\* The context of a bundle is cancelled when the player has moved on: no more of its votes
\* are enqueued.
CancelBundle ==
    /\ fill.kind = "bundle" /\ fill.left > 0
    /\ fill' = Refused
    /\ UNCHANGED <<demuxVars, votesIn, votesOut, pool, worker, results, bundleVars,
                   proposalVars, quit, closed>>

----------------------------------------------------------------------------
(* The execution pool and AsyncVoteVerifier.worker.                        *)

Without(s, i) == SubSeq(s, 1, i - 1) \o SubSeq(s, i + 1, Len(s))

\* Tasks are executed Parallelism at a time and may overtake each other then.
TakeResponse ==
    /\ worker = <<>>
    /\ \E i \in 1 .. Parallelism :
           i <= Len(pool) /\ worker' = <<pool[i]>> /\ pool' = Without(pool, i)
    /\ UNCHANGED <<demuxVars, votesIn, votesOut, fill, results, bundleVars, proposalVars, quit, closed>>

\* Mutant of Deliver: a response for which there is no room is dropped.
DeliverOrDrop ==
    /\ worker # <<>>
    /\ IF Head(worker).kind = "bundle"
       THEN results' = results \union {Head(worker).id} /\ UNCHANGED votesOut
       ELSE votesOut' = (IF Len(votesOut) < votesOutCap THEN votesOut \o worker ELSE votesOut)
            /\ UNCHANGED results
    /\ worker' = <<>>
    /\ UNCHANGED <<demuxVars, votesIn, fill, pool, bundleVars, proposalVars, quit, closed>>

\* The response waits for room in votes.out; the channel of a bundle always has room.
Deliver ==
    /\ worker # <<>>
    /\ IF Head(worker).kind = "bundle"
       THEN results' = results \union {Head(worker).id} /\ UNCHANGED votesOut
       ELSE Len(votesOut) < votesOutCap /\ votesOut' = votesOut \o worker /\ UNCHANGED results
    /\ worker' = <<>>
    /\ UNCHANGED <<demuxVars, votesIn, fill, pool, bundleVars, proposalVars, quit, closed>>

----------------------------------------------------------------------------
(* bundleWaitWorker and proposalVerifyWorker.                              *)

BundleDone ==
    /\ Answered(wait) /\ bundlesOut < bundlesOutCap
    /\ wait' = Idle /\ bundlesOut' = bundlesOut + 1
    /\ UNCHANGED <<demuxVars, voteVars, bundlesIn, bundles, proposalVars, quit, closed>>

\* The context is cancelled while the results are waited for.
BundleCancelled ==
    /\ wait.kind = "bundle" /\ ~Answered(wait) /\ bundlesOut < bundlesOutCap
    /\ wait' = Idle /\ bundlesOut' = bundlesOut + 1
    /\ UNCHANGED <<demuxVars, voteVars, bundlesIn, bundles, proposalVars, quit, closed>>

ValidatePayload ==
    /\ validate = "idle" /\ proposalsIn > 0
    /\ validate' = "busy" /\ proposalsIn' = proposalsIn - 1
    /\ UNCHANGED <<demuxVars, voteVars, bundleVars, proposalsOut, quit, closed>>

PayloadValidated ==
    /\ validate = "busy" /\ proposalsOut < proposalsOutCap
    /\ validate' = "idle" /\ proposalsOut' = proposalsOut + 1
    /\ UNCHANGED <<demuxVars, voteVars, bundleVars, proposalsIn, quit, closed>>

----------------------------------------------------------------------------
(* Service.Shutdown.                                                       *)

Shutdown ==
    /\ ~quit /\ quit' = TRUE
    /\ UNCHANGED <<demuxVars, voteVars, bundleVars, proposalVars, closed>>

\* next sees quit; poolCryptoVerifier.Quit closes its channels and waits for its workers.
Quit ==
    /\ pc = "select" /\ quit
    /\ pc' = "crypto" /\ closed' = TRUE
    /\ UNCHANGED <<open, action, arrived, owed, voteVars, bundleVars, proposalVars, quit>>

\* Its workers see that; bundleWaitWorker only after voteFillWorker.
FillStops ==
    /\ closed /\ fill.kind # "stopped" /\ fill.left = 0
    /\ fill' = Stopped
    /\ UNCHANGED <<demuxVars, votesIn, votesOut, pool, worker, results,
                   bundleVars, proposalVars, quit, closed>>

WaitStops ==
    /\ closed /\ wait.kind # "stopped"
    /\ (wait = Idle /\ fill = Stopped) \/ Answered(wait)
    /\ wait' = Stopped
    /\ UNCHANGED <<demuxVars, voteVars, bundlesIn, bundlesOut, bundles, proposalVars, quit, closed>>

ValidateStops ==
    /\ closed
    /\ (validate = "idle" /\ proposalsIn = 0) \/ validate = "busy"
    /\ validate' = "stopped"
    /\ UNCHANGED <<demuxVars, voteVars, bundleVars, proposalsIn, proposalsOut, quit, closed>>

CryptoQuits ==
    /\ pc = "crypto" /\ fill = Stopped /\ wait = Stopped /\ validate = "stopped"
    /\ pc' = "verifier"
    /\ UNCHANGED <<open, action, arrived, owed, voteVars, bundleVars, proposalVars, quit, closed>>

\* Mutant of VerifierQuits: it also waits until the results are read.
VerifierQuitsDrained ==
    /\ pc = "verifier" /\ pool = <<>> /\ worker = <<>>
    /\ votesOut = <<>>
    /\ pc' = "done"
    /\ UNCHANGED <<open, action, arrived, owed, voteVars, bundleVars, proposalVars, quit, closed>>

\* AsyncVoteVerifier.Quit waits until all tasks it gave the pool are done.
VerifierQuits ==
    /\ pc = "verifier" /\ pool = <<>> /\ worker = <<>>
    /\ pc' = "done"
    /\ UNCHANGED <<open, action, arrived, owed, voteVars, bundleVars, proposalVars, quit, closed>>

----------------------------------------------------------------------------

Demux ==
    Gate \/ ReadVote \/ ReadProposal \/ ReadBundle \/ Submit \/ DropRequest \/ Quit \/ CryptoQuits
    \/ VerifierQuits

Fill == FillVote \/ FillBundle \/ EnqueueBacklog \/ HandOver \/ FillStops

Next ==
    \/ Demux \/ \E kind \in Kinds : ReadRaw(kind)
    \/ Fill \/ CancelBundle \/ TakeResponse \/ Deliver
    \/ BundleDone \/ BundleCancelled \/ WaitStops \/ ValidatePayload \/ PayloadValidated \/ ValidateStops
    \/ Shutdown

\* Every goroutine goes on while it can, and the select of next does not pass over a result
\* that is ready for ever; messages and the shutdown come when they like.
Fairness ==
    /\ WF_vars(Demux) /\ SF_vars(ReadVote) /\ WF_vars(Fill) /\ WF_vars(TakeResponse \/ Deliver)
    /\ WF_vars(BundleDone \/ WaitStops)
    /\ WF_vars(ValidatePayload \/ PayloadValidated \/ ValidateStops)

Spec == Init /\ [][Next]_vars
FairSpec == Spec /\ Fairness

----------------------------------------------------------------------------
(* Properties.                                                             *)

Tasks == votesIn \o pool \o worker \o votesOut \o <<fill>>
VotesInside == Cardinality({i \in 1 .. Len(Tasks) : Tasks[i].kind = "vote"})

\* Type invariant, a conjunct of SubmitFindsRoom: every channel holds at most what it
\* has room for.
TypeOK ==
    /\ pc \in {"gate", "select", "do", "crypto", "verifier", "done"}
    /\ open \subseteq {"votes", "proposals", "bundles"}
    /\ action \in {"none", "vote", "payload", "bundle"}
    /\ Len(votesIn) <= votesInCap /\ Len(votesOut) <= votesOutCap
    /\ Len(bundlesIn) <= bundlesInCap /\ bundlesOut \in 0 .. bundlesOutCap
    /\ proposalsIn \in 0 .. proposalsInCap /\ proposalsOut \in 0 .. proposalsOutCap
    /\ Len(pool) <= poolCap /\ Len(worker) <= 1
    /\ validate \in {"idle", "busy", "stopped"}
    /\ results \subseteq 1 .. MaxBundles
    /\ quit \in BOOLEAN /\ closed \in BOOLEAN
    /\ arrived \in 0 .. MaxMessages /\ bundles \in 0 .. MaxBundles /\ owed \in Nat

\* "This prevents deadlock: the only producer to the pool is its consumer": a vote or a
\* bundle that next let in finds room when it is submitted, although the workers moved
\* other requests and results since next looked.
SubmitFindsRoom ==
    /\ TypeOK
    /\ pc = "do" =>
          /\ action = "vote" => Len(votesIn) < votesInCap
          /\ action = "bundle" => Len(bundlesIn) < bundlesInCap

\* Every vote submitted yields exactly one result, also when the channel of the results is
\* full for a while: otherwise the payload that waits for it in the proposal table would
\* stay there for good.
OneResultPerVote == owed = VotesInside

\* demuxLoop waits to hand a payload to proposalVerifyWorker, which waits for demuxLoop to
\* read what it has validated.
Stuck ==
    /\ pc = "do" /\ action = "payload" /\ proposalsIn = proposalsInCap
    /\ validate = "busy" /\ proposalsOut = proposalsOutCap

\* The results of all votes reach the state machine while the service runs, although votes,
\* payloads and bundles share the workers and the pool.  There is one exception: that many
\* payloads are asked for when votes are read (next does not look for room then) that
\* demuxLoop and proposalVerifyWorker wait for each other.
VotesAnswered == owed > 0 ~> (owed = 0 \/ quit \/ Stuck)

\* Shutdown ends when the votes left fit in the channel of the results, whatever the
\* workers and the pool were doing.
QuietShutdownEnds == (closed /\ owed <= votesOutCap) ~> pc = "done"
=============================================================================
