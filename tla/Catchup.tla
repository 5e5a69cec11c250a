---------------------------- MODULE Catchup ----------------------------
(***************************************************************************)
(* The catchup service (catchup/service.go): periodicSync with the         *)
(* pipeline of parallel fetches it runs (pipelinedFetch, fetchAndWrite),   *)
(* the fetch of the one block agreement holds a certificate for            *)
(* (EnsureDigest, fetchRound), and the monitor that stops the service at a *)
(* protocol the node does not support.  Agreement adds blocks to the same  *)
(* ledger all the while.                                                   *)
(*                                                                         *)
(* A block of a round is "good" (the one that was certified), "tampered"   *)
(* (its header, other contents) or "forged" (another block, whose          *)
(* certificate does not authenticate it).  Peers are known by their        *)
(* answers: which of them is asked is left to the peer selector.           *)
(***************************************************************************)
EXTENDS Integers, FiniteSets

CONSTANTS
    SeedLookback,
    parallelBlocks,
    retryLimit,         \* catchupRetryLimit
    AnnounceRound,      \* the first header that names the unsupported protocol
    SwitchRound,        \* its NextProtocolSwitchOn
    MaxRound,           \* bound: rounds the network certified; a peer may be behind
    MaxBusy             \* bound: times the ledger becomes busy

ASSUME CatchupAssumption ==
    /\ SeedLookback \in Nat \ {0} /\ parallelBlocks \in Nat \ {0}
    /\ retryLimit \in Nat /\ MaxBusy \in Nat
    /\ MaxRound \in Nat /\ AnnounceRound \in Nat /\ SwitchRound \in Nat
    /\ AnnounceRound < SwitchRound

VARIABLES
    last,       \* the ledger's last round in memory
    wrong,      \* rounds in which the ledger holds another block than the certified one
    busy, busied,   \* a catchpoint is being written or flushing is behind; how often it was
    pending,    \* UnmatchedPendingCertificates: the round of the certificate in it, or 0
    digested,   \* the last round agreement called EnsureDigest for
    pc,         \* periodicSync
    fetch,      \* the fetchAndWrite goroutines
    firstRound, nextRound, limitedParallelRequests,
    cancelled,  \* the context of the pipeline
    want, got,  \* fetchRound: the certificate's round, what a peer answered
    suspendForLedgerOps, initialSyncNotified,
    monitor,    \* unsupportedRoundMonitor: "off", "on", "done"
    ctx,        \* Service.ctx: "live", or who cancelled it: "unsupported", "stop"
    stopped,    \* Stop returned
    blamed      \* history: why the good block last had its peer ranked invalid, or "no"

ledgerVars == <<last, wrong>>
pipeVars == <<firstRound, nextRound, limitedParallelRequests, cancelled>>
certVars == <<pending, digested, want, got>>
syncVars == <<suspendForLedgerOps, initialSyncNotified>>
stopVars == <<monitor, ctx, stopped>>
netVars == <<busy, busied>>
vars == <<ledgerVars, netVars, certVars, pc, fetch, pipeVars, syncVars, stopVars, blamed>>

maxParallelRequests == IF parallelBlocks > SeedLookback THEN parallelBlocks ELSE SeedLookback
minParallelRequests == SeedLookback

Rounds == 1 .. (MaxRound + maxParallelRequests)

NoFetch == [pc |-> "none", blk |-> "", tries |-> 0]

Init ==
    /\ last = 0 /\ wrong = {} /\ busy = FALSE /\ busied = 0
    /\ pending = 0 /\ digested = 0 /\ want = 0 /\ got = ""
    /\ pc = "sync" /\ fetch = [r \in Rounds |-> NoFetch]
    /\ firstRound = 1 /\ nextRound = 1 /\ limitedParallelRequests = minParallelRequests
    /\ cancelled = FALSE
    /\ suspendForLedgerOps = FALSE /\ initialSyncNotified = FALSE
    /\ monitor = "off" /\ ctx = "live" /\ stopped = FALSE /\ blamed = "no"

Done == ctx # "live"            \* <-s.ctx.Done()
Aborted == Done \/ cancelled    \* <-ctx.Done() of the pipeline

\* Ledger.WaitMem(r) is closed; rounds before the first are there from the start.
InMem(r) == r <= last

----------------------------------------------------------------------------
(* What the ledger takes, and the rest of the node.                        *)

Supported(r) == r < SwitchRound

\* A block the ledger has not got is added in order; one of a protocol it does not know fails.
Add(r, blk) ==
    /\ r = last + 1 /\ Supported(r)
    /\ last' = r
    /\ wrong' = IF blk = "good" THEN wrong ELSE wrong \union {r}

\* Agreement writes the block it concluded with (EnsureBlock, EnsureValidatedBlock).
AgreementWrites ==
    /\ last < MaxRound
    /\ Add(last + 1, "good")
    /\ UNCHANGED <<netVars, certVars, pc, fetch, pipeVars, syncVars, stopVars, blamed>>

\* Agreement has the certificate of its round without the block; an older certificate that
\* is still pending is flushed out.
EnsureDigest ==
    /\ last < MaxRound /\ digested <= last
    /\ pending' = last + 1 /\ digested' = last + 1
    /\ UNCHANGED <<ledgerVars, netVars, want, got, pc, fetch, pipeVars, syncVars, stopVars, blamed>>

\* A catchpoint file is written, or the trackers fall behind, and it ends.
LedgerBusy ==
    /\ ~busy /\ busied < MaxBusy
    /\ busy' = TRUE /\ busied' = busied + 1
    /\ UNCHANGED <<ledgerVars, certVars, pc, fetch, pipeVars, syncVars, stopVars, blamed>>

LedgerQuiet ==
    /\ busy /\ busy' = FALSE
    /\ UNCHANGED <<ledgerVars, busied, certVars, pc, fetch, pipeVars, syncVars, stopVars, blamed>>

----------------------------------------------------------------------------
(* The pipeline.                                                           *)

\* According to the last header of the ledger.
Unsupported(r) == last >= AnnounceRound /\ r >= SwitchRound

\* Mutant of StartMonitor: the monitor is not started.
StartMonitorNever == UNCHANGED monitor

\* onceUnsupportedRound
StartMonitor == monitor' = IF monitor = "off" THEN "on" ELSE monitor

\* sync, up to the loop of pipelinedFetch.
StartSync ==
    /\ pc = "sync"
    /\ firstRound' = last + 1 /\ nextRound' = last + 1
    /\ limitedParallelRequests' = minParallelRequests
    /\ cancelled' = FALSE
    /\ pc' = "launch"
    /\ UNCHANGED <<ledgerVars, netVars, certVars, fetch, syncVars, stopVars, blamed>>

\* It ends at once when there is no peer.
NoPeers ==
    /\ pc = "sync"
    /\ pc' = "drain"
    /\ UNCHANGED <<ledgerVars, netVars, certVars, fetch, pipeVars, syncVars, stopVars, blamed>>

MayLaunch == nextRound < firstRound + limitedParallelRequests

Launch ==
    /\ pc = "launch"
    /\ IF ~MayLaunch THEN
           pc' = "wait" /\ UNCHANGED <<fetch, nextRound, monitor>>
       ELSE IF Unsupported(nextRound) THEN
           pc' = "wait" /\ StartMonitor /\ UNCHANGED <<fetch, nextRound>>
       ELSE
           /\ fetch' = [fetch EXCEPT ![nextRound] = [NoFetch EXCEPT !.pc = "next"]]
           /\ nextRound' = nextRound + 1
           /\ UNCHANGED <<pc, monitor>>
    /\ UNCHANGED <<ledgerVars, netVars, certVars, firstRound, limitedParallelRequests, cancelled,
                   syncVars, ctx, stopped, blamed>>

\* The channel of the first round: its fetch wrote the block, or failed, or the service
\* stops.  Without a fetch (an unsupported round) only the last can happen.
Completed ==
    /\ pc = "wait" /\ firstRound < nextRound
    /\ fetch[firstRound].pc \in {"true", "false"}
    /\ firstRound' = firstRound + 1
    /\ fetch' = [fetch EXCEPT ![firstRound] = NoFetch]
    /\ IF fetch[firstRound].pc = "true" THEN
           /\ pc' = "pause" /\ UNCHANGED cancelled
           /\ limitedParallelRequests' \in {minParallelRequests, maxParallelRequests}
       ELSE pc' = "drain" /\ cancelled' = TRUE /\ UNCHANGED limitedParallelRequests
    /\ UNCHANGED <<ledgerVars, netVars, certVars, nextRound, syncVars, stopVars, blamed>>

Abort ==
    /\ pc = "wait" /\ Done
    /\ pc' = "drain" /\ cancelled' = TRUE
    /\ UNCHANGED <<ledgerVars, netVars, certVars, fetch, firstRound, nextRound,
                   limitedParallelRequests, syncVars, stopVars, blamed>>

\* A busy ledger is waited for, for a while.
Pause ==
    /\ pc = "pause"
    /\ IF busy THEN pc' = "drain" /\ cancelled' = TRUE /\ suspendForLedgerOps' = TRUE
       ELSE pc' = "launch" /\ UNCHANGED <<cancelled, suspendForLedgerOps>>
    /\ UNCHANGED <<ledgerVars, netVars, certVars, fetch, firstRound, nextRound,
                   limitedParallelRequests, initialSyncNotified, stopVars, blamed>>

\* The deferred wg.Wait, the end of pipelinedFetch with its variables, and the end of sync.
Drain ==
    /\ pc = "drain"
    /\ \A r \in Rounds : fetch[r].pc \in {"none", "true", "false"}
    /\ fetch' = [r \in Rounds |-> NoFetch]
    /\ initialSyncNotified' = (initialSyncNotified \/ ~suspendForLedgerOps)
    /\ pc' = "idle"
    /\ firstRound' = 1 /\ nextRound' = 1 /\ limitedParallelRequests' = minParallelRequests
    /\ blamed' = "no"
    /\ UNCHANGED <<ledgerVars, netVars, certVars, cancelled, suspendForLedgerOps, stopVars>>

----------------------------------------------------------------------------
(* fetchAndWrite.                                                          *)

Goto(r, label) == fetch' = [fetch EXCEPT ![r].pc = label]

\* The result that done is sent, or a step that needs no more of the attempts.
Return(r, result) == fetch' = [fetch EXCEPT ![r] = [NoFetch EXCEPT !.pc = result]]
Forget(r, label) == fetch' = [fetch EXCEPT ![r] = [NoFetch EXCEPT !.pc = label, !.blk = fetch[r].blk]]

\* Blocks a peer may answer with, of the rounds the network certified.
Serves(r) == {b \in {"good", "tampered", "forged"} : r <= MaxRound}

\* No further attempt: the pipeline is cancelled, the attempts are used up, there is no peer,
\* the ledger has the block (innerFetch), or peers said too often that they have not.
GiveUp(r) ==
    /\ fetch[r].pc = "next"
    /\ Return(r, "false")

MayAsk(r) == fetch[r].pc = "next" /\ ~Aborted /\ fetch[r].tries < retryLimit /\ ~InMem(r)

\* A peer does not answer, its answer does not decode, or it has not got the block.
NoBlock(r) ==
    /\ MayAsk(r)
    /\ fetch' = [fetch EXCEPT ![r].pc = "retry", ![r].tries = @ + 1]

\* The peer is ranked peerRankInvalidDownload, for the block b.
Blame(b, why) == blamed' = IF b = "good" THEN why ELSE blamed

\* A block whose contents do not match its header is dropped.  The contents of a block of a
\* protocol that is not known never do.
BlockArrives(r) ==
    /\ MayAsk(r)
    /\ \E b \in Serves(r) :
          IF ~Supported(r) THEN Return(r, "false") /\ Blame(b, "unsupported")
          ELSE /\ UNCHANGED blamed
               /\ IF b = "tampered" THEN fetch' = [fetch EXCEPT ![r].tries = @ + 1]
                  ELSE fetch' = [fetch EXCEPT ![r].pc = "lookback", ![r].blk = b, ![r].tries = @ + 1]

\* After a failure the attempt is repeated once the lookback block is there.
Retry(r) ==
    /\ fetch[r].pc = "retry"
    /\ \/ Aborted /\ Return(r, "false")
       \/ InMem(r - SeedLookback) /\ Goto(r, "next")

\* Mutant of LookbackComplete: the wait is skipped.
LookbackCompleteAlways(r) == fetch[r].pc = "lookback"

LookbackComplete(r) == fetch[r].pc = "lookback" /\ InMem(r - SeedLookback)

\* A certificate is checked against the seed and the balances of the lookback block, and
\* the weights that the daemon answers.
Authentic(r) == fetch[r].blk = "good" /\ InMem(r - SeedLookback)

\* Authenticate fails, and another peer is asked.
Refuse(r) ==
    /\ fetch' = [fetch EXCEPT ![r] = [pc |-> "next", blk |-> "", tries |-> fetch[r].tries]]
    /\ Blame(fetch[r].blk, IF InMem(r - SeedLookback) THEN "daemon" ELSE "lookback")

\* A query of the daemon may fail, so that a certificate may always be refused.
Authenticate(r) ==
    /\ LookbackComplete(r)
    /\ \/ Authentic(r) /\ Forget(r, "prev") /\ blamed' = "no"
       \/ Refuse(r)

\* Ledger writes are in order.
PrevComplete(r) == fetch[r].pc = "prev" /\ InMem(r - 1) /\ Forget(r, "eval")

AbortWait(r) == fetch[r].pc \in {"lookback", "prev"} /\ Aborted /\ Return(r, "false")

\* The ledger has written enough to disk, or the service stops.  AddBlock evaluates the
\* block on top of the last one; a block that is there already fails, one out of order
\* counts as done, and so does not stop the pipeline.
Evaluation(r) == IF r > last + 1 THEN "true"
                 ELSE IF r = last + 1 /\ Supported(r) THEN "add" ELSE "false"

Evaluate(r) ==
    /\ fetch[r].pc = "eval"
    /\ (Done /\ Return(r, "false")) \/ Forget(r, Evaluation(r))

\* AddValidatedBlock: another writer may have been faster.
AddBlock(r) ==
    /\ fetch[r].pc = "add"
    /\ \/ Add(r, fetch[r].blk) /\ Return(r, "true")
       \/ r <= last /\ Return(r, "false") /\ UNCHANGED ledgerVars
    /\ UNCHANGED blamed

FetchAndWrite(r) ==
    /\ \/ /\ \/ Authenticate(r) \/ BlockArrives(r)
             \/ /\ \/ GiveUp(r) \/ NoBlock(r) \/ Retry(r)
                   \/ PrevComplete(r) \/ AbortWait(r) \/ Evaluate(r)
                /\ UNCHANGED blamed
          /\ UNCHANGED ledgerVars
       \/ AddBlock(r)
    /\ UNCHANGED <<netVars, certVars, pc, pipeVars, syncVars, stopVars>>

----------------------------------------------------------------------------
(* periodicSync.                                                           *)

\* It's been too long since the ledger advanced.
Resync ==
    /\ pc = "idle" /\ ~Done /\ ~busy
    /\ pc' = "sync" /\ suspendForLedgerOps' = FALSE
    /\ UNCHANGED <<ledgerVars, netVars, certVars, fetch, pipeVars, initialSyncNotified, stopVars,
                   blamed>>

\* syncCert
TakeCert ==
    /\ pc = "idle" /\ pending # 0
    /\ pending' = 0
    /\ IF Unsupported(pending) THEN StartMonitor /\ UNCHANGED <<pc, want>>
       ELSE pc' = "cert" /\ want' = pending /\ UNCHANGED monitor
    /\ UNCHANGED <<ledgerVars, netVars, digested, got, fetch, pipeVars, syncVars, ctx, stopped, blamed>>

Exit ==
    /\ pc = "idle" /\ Done /\ pc' = "exit"
    /\ UNCHANGED <<ledgerVars, netVars, certVars, fetch, pipeVars, syncVars, stopVars, blamed>>

----------------------------------------------------------------------------
(* fetchRound.                                                             *)

CertLeft == UNCHANGED <<netVars, pending, digested, fetch, pipeVars, syncVars, stopVars>>

\* The loop ends when the ledger has the round.
CertPresent ==
    /\ pc = "cert" /\ InMem(want)
    /\ pc' = "idle" /\ want' = 0
    /\ UNCHANGED <<ledgerVars, got, blamed>> /\ CertLeft

\* Mutant of CertFails: the loop looks at the context only when there is no peer.
CertFailsOn ==
    /\ pc = "cert" /\ ~InMem(want)
    /\ UNCHANGED <<pc, want, got, ledgerVars, blamed>> /\ CertLeft

\* Mutant of CertFails: the fetch is given up when a peer has not got the block.
CertFailsOnce ==
    /\ pc = "cert" /\ ~InMem(want)
    /\ pc' = "idle" /\ want' = 0
    /\ UNCHANGED <<got, ledgerVars, blamed>> /\ CertLeft

\* No peer, no answer, or a peer without the block: try again unless the service stops.
CertFails ==
    /\ pc = "cert" /\ ~InMem(want) /\ Done
    /\ pc' = "idle" /\ want' = 0
    /\ UNCHANGED <<got, ledgerVars, blamed>> /\ CertLeft

\* Mutant of Matches: the header alone is compared.
MatchesHeader(b) == b \in {"good", "tampered"}

\* block.Hash() == blockHash && block.ContentsMatchHeader(); after any other block the loop
\* goes on.
Matches(b) == b = "good" /\ Supported(want)

CertBlock ==
    /\ pc = "cert" /\ ~InMem(want) /\ ~Done
    /\ \E b \in Serves(want) : Matches(b) /\ got' = b
    /\ pc' = "ensure"
    /\ UNCHANGED <<want, ledgerVars, blamed>> /\ CertLeft

\* Ledger.EnsureBlock retries until the ledger has the round.
Ensure ==
    /\ pc = "ensure"
    /\ \/ Add(want, got)
       \/ InMem(want) /\ UNCHANGED ledgerVars
    /\ pc' = "idle" /\ want' = 0 /\ got' = ""
    /\ UNCHANGED blamed /\ CertLeft

----------------------------------------------------------------------------
(* The monitor, and Stop.                                                  *)

Monitor ==
    /\ monitor = "on"
    /\ IF Done THEN monitor' = "done" /\ UNCHANGED ctx
       ELSE Unsupported(last + 1) /\ ctx' = "unsupported" /\ UNCHANGED monitor
    /\ UNCHANGED <<ledgerVars, netVars, certVars, pc, fetch, pipeVars, syncVars, stopped, blamed>>

Stop ==
    /\ ctx # "stop" /\ ctx' = "stop"
    /\ UNCHANGED <<ledgerVars, netVars, certVars, pc, fetch, pipeVars, syncVars, monitor, stopped,
                   blamed>>

\* workers.Wait, and the end of Stop.
StopReturns ==
    /\ ctx = "stop" /\ pc = "exit" /\ monitor # "on" /\ ~stopped
    /\ stopped' = TRUE /\ initialSyncNotified' = TRUE
    /\ UNCHANGED <<ledgerVars, netVars, certVars, pc, fetch, pipeVars, suspendForLedgerOps, monitor,
                   ctx, blamed>>

Environment ==
    AgreementWrites \/ EnsureDigest \/ LedgerBusy \/ Stop

Sync ==
    StartSync \/ NoPeers \/ Launch \/ Completed \/ Abort \/ Pause \/ Drain \/ Exit \/ StopReturns

FetchRound == CertPresent \/ CertFails \/ CertBlock \/ Ensure

Service ==
    \/ LedgerQuiet \/ Sync \/ Resync \/ FetchRound \/ Monitor
    \/ \E r \in Rounds : FetchAndWrite(r)

Next == Environment \/ Service \/ TakeCert

Spec == Init /\ [][Next]_vars

\* Some goroutine of the service that can run does run, a busy ledger finishes, and some
\* peer serves the certified block when it is asked again and again.  Go's select picks
\* among the ready cases at random, so that a certificate that stays in its channel is
\* taken; RequestConnectOutgoing finds peers in the end.
Fairness == WF_vars(Service) /\ SF_vars(TakeCert) /\ SF_vars(StartSync)

FairSpec == Spec /\ Fairness

----------------------------------------------------------------------------
(* Properties.                                                             *)

\* A pipeline is never deeper than maxParallelRequests, and every fetch lies between its two
\* ends, although the depth changes while fetches are under way (pipelinedFetch).
PipelineBounded ==
    /\ nextRound \in firstRound .. (firstRound + maxParallelRequests)
    /\ \A r \in Rounds : fetch[r].pc # "none" => r \in firstRound .. (nextRound - 1)

\* Whatever peers answer, and whichever of the pipeline, fetchRound and agreement writes a
\* round, the ledger holds the block that was certified for it (fetchAndWrite's
\* Authenticate, fetchRound's comparison with the certificate of agreement).
LedgerCertified == wrong = {}

\* A peer that serves the block that was certified is ranked peerRankInvalidDownload for
\* two reasons only, neither of them the pipeline's: the node does not know the block's
\* protocol, or a query of the weight daemon failed while the certificate was checked.  It
\* never is because the pipeline ran ahead of the ledger: a certificate is checked only
\* when the lookback block it needs is there (fetchAndWrite's wait for lookbackComplete).
GoodNotBlamed == blamed \in {"no", "unsupported", "daemon"}

\* A block is evaluated, or ensured, only when the one before it is in the ledger and its
\* protocol is known.  An evaluation out of order would pass for success
\* (ErrNonSequentialBlockEval) and leave a gap behind the pipeline; EnsureBlock, which
\* never looks at the context, would retry for ever.
WritesInOrder ==
    /\ \A r \in Rounds : fetch[r].pc \in {"eval", "add"} => r <= last + 1 /\ Supported(r)
    /\ pc = "ensure" => want <= last + 1 /\ Supported(want)

\* A block agreement only has the certificate of arrives in the ledger, although the service
\* may be in the middle of a sync when the certificate comes (EnsureDigest, syncCert).
CertServed == (digested > last) ~> (digested <= last \/ Done)

\* Stop returns, wherever the pipeline, its fetches and fetchRound are (Stop, periodicSync).
StopEnds == (ctx = "stop") ~> stopped

\* The service stops once the ledger has the last block of the protocols it supports, and
\* never waits on for the fetch of a round it did not start (unsupportedRoundMonitor).
StopsAtUnsupported == (last + 1 = SwitchRound) ~> Done
====
