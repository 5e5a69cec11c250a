---------------------------- MODULE CatchupProofs ----------------------------
(***************************************************************************)
(* Whatever the depth of the pipeline, the lookbacks and the length of the *)
(* chain: blocks are written in order and only certified ones are, and no  *)
(* peer is blamed for a certified block because the pipeline ran ahead.    *)
(***************************************************************************)
EXTENDS Catchup, TLAPS

Labels == {"none", "next", "retry", "lookback", "prev", "eval", "add", "true", "false"}
Blocks == {"", "good", "tampered", "forged"}
Fetches == [pc : Labels, blk : Blocks, tries : Nat]

\* What a fetch has established by the step it is at.
FetchInv(f, r) ==
    /\ f.pc \in {"lookback", "prev", "eval", "add"} => Supported(r)
    /\ f.pc \in {"prev", "eval", "add"} => f.blk = "good"
    /\ f.pc \in {"eval", "add"} => r <= last + 1

\* The invariant.  Certificates are at most one round ahead of the ledger, which only grows.
CatchupInv ==
    /\ last \in Nat /\ digested \in Nat /\ pending \in Nat /\ want \in Nat
    /\ digested <= last + 1 /\ pending <= digested /\ want <= last + 1
    /\ fetch \in [Rounds -> Fetches]
    /\ \A r \in Rounds : FetchInv(fetch[r], r)
    /\ pc = "ensure" => got = "good" /\ Supported(want)
    /\ wrong = {} /\ GoodNotBlamed

LEMMA RoundsInt == Rounds \subseteq Int
BY CatchupAssumption DEF Rounds, maxParallelRequests

LEMMA InitInv == Init => CatchupInv
<1> SUFFICES ASSUME Init PROVE CatchupInv
  BY Zenon
<1>1. /\ GoodNotBlamed /\ last = 0 /\ wrong = {} /\ pending = 0 /\ digested = 0 /\ want = 0
      /\ pc = "sync" /\ fetch = [r \in Rounds |-> NoFetch]
  BY Zenon DEF Init, GoodNotBlamed
<1>2. NoFetch \in Fetches
  BY Zenon DEF NoFetch, Fetches, Labels, Blocks
<1>3. fetch \in [Rounds -> Fetches] /\ \A r \in Rounds : FetchInv(fetch[r], r)
  BY <1>1, <1>2, Zenon DEF FetchInv, NoFetch
<1> QED
  BY <1>1, <1>3 DEF CatchupInv

\* A step that leaves the ledger and the certificates alone and moves one fetch.
LEMMA FetchStep ==
    ASSUME CatchupInv, NEW r \in Rounds, NEW l \in Labels, NEW b \in Blocks, NEW t \in Nat,
           fetch' = [fetch EXCEPT ![r] = [pc |-> l, blk |-> b, tries |-> t]],
           l \in {"lookback", "prev", "eval", "add"} => Supported(r),
           l \in {"prev", "eval", "add"} => b = "good",
           l \in {"eval", "add"} => r <= last + 1,
           UNCHANGED <<ledgerVars, certVars, pc>>, GoodNotBlamed'
    PROVE  CatchupInv'
<1> DEFINE f == [pc |-> l, blk |-> b, tries |-> t]
<1>1. f \in Fetches
  BY Zenon DEF Fetches
<1>2. FetchInv(f, r)'
  BY Zenon DEF FetchInv, Supported, ledgerVars
<1>3. \A s \in Rounds : FetchInv(fetch[s], s)'
  <2> SUFFICES ASSUME NEW s \in Rounds PROVE FetchInv(fetch[s], s)'
    BY Zenon
  <2>1. CASE s = r
    BY <1>2, <2>1, Zenon DEF CatchupInv, FetchInv
  <2>2. CASE s # r
    BY <2>2, Zenon DEF CatchupInv, FetchInv, Supported, ledgerVars
  <2> QED
    BY <2>1, <2>2, Zenon
<1>4. fetch' \in [Rounds -> Fetches]
  BY <1>1, Zenon DEF CatchupInv
<1> QED
  BY <1>3, <1>4, Zenon DEF CatchupInv, Supported, ledgerVars, certVars

LEMMA FetchAndWriteInv ==
    ASSUME CatchupInv, NEW r \in Rounds, FetchAndWrite(r)
    PROVE  CatchupInv'
<1> DEFINE F == fetch[r]
           Moves(l, b, t) == fetch' = [fetch EXCEPT ![r] = [pc |-> l, blk |-> b, tries |-> t]]
<1>0. /\ F \in Fetches /\ FetchInv(F, r) /\ r \in Int /\ last \in Nat /\ fetch \in [Rounds -> Fetches]
      /\ F.pc \in Labels /\ F.blk \in Blocks /\ F.tries \in Nat
      /\ F = [pc |-> F.pc, blk |-> F.blk, tries |-> F.tries]
  BY RoundsInt, Zenon DEF CatchupInv, Fetches
<1>a. \A l : Return(r, l) => Moves(l, "", 0)
  BY Zenon DEF Return, NoFetch
<1>b. \A l : Forget(r, l) => Moves(l, F.blk, 0)
  BY Zenon DEF Forget, NoFetch
<1>c. "true" \in Labels /\ "false" \in Labels /\ "" \in Blocks /\ 0 \in Nat
  BY Zenon DEF Labels, Blocks
<1>1. CASE AddBlock(r)
  <2>1. UNCHANGED <<certVars, pc>> /\ GoodNotBlamed'
    BY <1>1, Zenon DEF FetchAndWrite, AddBlock, CatchupInv, GoodNotBlamed
  <2>2. CASE Add(r, fetch[r].blk) /\ Return(r, "true")
    <3>1. fetch[r].blk = "good"
      BY <1>0, <1>1, Zenon DEF FetchInv, AddBlock
    <3>2. last' = last + 1 /\ wrong' = {}
      BY <2>2, <3>1, Zenon DEF Add, CatchupInv
    <3>3. Moves("true", "", 0)
      BY <1>a, <2>2, Zenon
    <3>4. fetch' \in [Rounds -> Fetches]
      BY <1>0, <1>c, <3>3, Zenon DEF Fetches
    <3>5. \A s \in Rounds : FetchInv(fetch[s], s)'
      <4> SUFFICES ASSUME NEW s \in Rounds PROVE FetchInv(fetch[s], s)'
        BY Zenon
      <4>1. CASE s = r
        BY <1>0, <3>3, <4>1, Zenon DEF FetchInv
      <4>2. CASE s # r
        <5>1. fetch'[s] = fetch[s] /\ FetchInv(fetch[s], s) /\ s \in Int
          BY <1>0, <3>3, <4>2, RoundsInt, Zenon DEF CatchupInv
        <5> QED
          BY <1>0, <3>2, <5>1 DEF FetchInv, Supported
      <4> QED
        BY <4>1, <4>2, Zenon
    <3> QED
      BY <1>0, <2>1, <3>2, <3>4, <3>5 DEF CatchupInv, certVars, Supported
  <2>3. CASE r <= last /\ Return(r, "false") /\ UNCHANGED ledgerVars
    <3>1. Moves("false", "", 0) /\ UNCHANGED <<ledgerVars, certVars, pc>>
      BY <1>a, <2>1, <2>3, Zenon
    <3> QED
      BY <1>c, <2>1, <3>1, FetchStep, Zenon
  <2> QED
    BY <1>1, <2>2, <2>3, Zenon DEF AddBlock
<1>2. CASE Authenticate(r) /\ UNCHANGED ledgerVars
  <2>1. UNCHANGED <<certVars, pc>>
    BY Zenon DEF FetchAndWrite
  <2>2. F.pc = "lookback" /\ Supported(r) /\ InMem(r - SeedLookback)
    BY <1>0, <1>2, Zenon DEF Authenticate, LookbackComplete, FetchInv
  <2>3. CASE Authentic(r) /\ Forget(r, "prev") /\ blamed' = "no"
    <3>1. GoodNotBlamed'
      BY <2>3, Zenon DEF GoodNotBlamed
    <3>2. Moves("prev", F.blk, 0) /\ F.blk = "good"
      BY <1>b, <2>3, Zenon DEF Authentic
    <3>3. "prev" \in Labels
      BY Zenon DEF Labels
    <3> QED
      BY <1>0, <1>2, <1>c, <2>1, <2>2, <3>1, <3>2, <3>3, FetchStep, Zenon
  <2>4. CASE Refuse(r)
    \* The lookback block is in the ledger, so that is not why.
    <3>2. GoodNotBlamed'
      BY <2>2, <2>4, Zenon DEF Refuse, Blame, CatchupInv, GoodNotBlamed
    <3>3. Moves("next", "", F.tries)
      BY <2>4, Zenon DEF Refuse
    <3>4. "next" \in Labels
      BY Zenon DEF Labels
    <3> QED
      BY <1>0, <1>2, <1>c, <2>1, <3>2, <3>3, <3>4, FetchStep, Zenon
  <2> QED
    BY <1>2, <2>3, <2>4, Zenon DEF Authenticate
<1>3. CASE /\ \/ /\ GiveUp(r) \/ NoBlock(r) \/ Retry(r) \/ PrevComplete(r) \/ AbortWait(r) \/ Evaluate(r)
                 /\ UNCHANGED blamed
              \/ BlockArrives(r)
           /\ UNCHANGED ledgerVars
  <2>0. blamed' \in {blamed, "unsupported"}
    BY <1>3, Zenon DEF BlockArrives, Blame
  <2>1. UNCHANGED <<ledgerVars, certVars, pc>> /\ GoodNotBlamed'
    BY <1>3, <2>0, Zenon DEF FetchAndWrite, CatchupInv, GoodNotBlamed
  <2>2. ASSUME NEW l \in {"true", "false"}, Return(r, l) PROVE CatchupInv'
    BY <1>a, <1>c, <2>1, <2>2, FetchStep, ZenonT(60)
  <2>3. ASSUME NEW l \in {"next", "retry"}, NEW t \in Nat, NEW b \in Blocks, Moves(l, b, t)
        PROVE  CatchupInv'
    <3>1. l \in Labels
      BY Zenon DEF Labels
    <3> QED
      BY <2>1, <2>3, <3>1, FetchStep, Zenon
  <2>4. CASE GiveUp(r) \/ AbortWait(r)
    BY <2>2, <2>4, Zenon DEF GiveUp, AbortWait
  <2>5. CASE NoBlock(r)
    <3>1. Moves("retry", F.blk, F.tries + 1) /\ F.tries + 1 \in Nat
      BY <1>0, <2>5 DEF NoBlock, Fetches
    <3> QED
      BY <1>0, <2>3, <3>1, Zenon
  <2>6. CASE BlockArrives(r)
    <3>1. PICK b \in Serves(r) :
             IF ~Supported(r) THEN Return(r, "false") /\ Blame(b, "unsupported")
             ELSE /\ UNCHANGED blamed
                  /\ IF b = "tampered" THEN fetch' = [fetch EXCEPT ![r].tries = @ + 1]
                     ELSE fetch' = [fetch EXCEPT ![r].pc = "lookback", ![r].blk = b, ![r].tries = @ + 1]
      BY <2>6, Zenon DEF BlockArrives
    <3>2. F.pc = "next" /\ b \in Blocks /\ "lookback" \in Labels
      BY <2>6, Zenon DEF BlockArrives, MayAsk, Serves, Blocks, Labels
    <3>3. CASE ~Supported(r)
      BY <2>2, <3>1, <3>3, Zenon
    <3>4. CASE Supported(r) /\ b = "tampered"
      <4>1. Moves("next", F.blk, F.tries + 1) /\ F.tries + 1 \in Nat
        BY <1>0, <3>1, <3>2, <3>4 DEF Fetches
      <4> QED
        BY <1>0, <2>3, <4>1, Zenon
    <3>5. CASE Supported(r) /\ b # "tampered"
      <4>1. Moves("lookback", b, F.tries + 1)
        BY <1>0, <3>1, <3>5, Zenon DEF Fetches
      <4>2. F.tries + 1 \in Nat
        BY <1>0
      <4> QED
        BY <2>1, <3>2, <3>5, <4>1, <4>2, FetchStep, Zenon
    <3> QED
      BY <3>3, <3>4, <3>5, Zenon
  <2>7. CASE Retry(r)
    <3>1. CASE Return(r, "false")
      BY <2>2, <3>1, Zenon
    <3>2. CASE Goto(r, "next")
      <4>1. Moves("next", F.blk, F.tries)
        <5>1. fetch' = [fetch EXCEPT ![r] = [F EXCEPT !.pc = "next"]]
          BY <3>2, Zenon DEF Goto
        <5>2. [F EXCEPT !.pc = "next"] = [pc |-> "next", blk |-> F.blk, tries |-> F.tries]
          BY <1>0 DEF Fetches
        <5> QED
          BY <5>1, <5>2, Zenon
      <4> QED
        BY <1>0, <2>3, <4>1, Zenon
    <3> QED
      BY <2>7, <3>1, <3>2, Zenon DEF Retry
  <2>8. CASE PrevComplete(r)
    <3>1. /\ Moves("eval", F.blk, 0) /\ F.blk = "good" /\ Supported(r) /\ r <= last + 1
          /\ "eval" \in Labels
      BY <1>0, <1>b, <2>8 DEF PrevComplete, InMem, FetchInv, Labels
    <3> QED
      BY <1>0, <1>c, <2>1, <3>1, FetchStep, Zenon
  <2>9. CASE Evaluate(r)
    <3>1. CASE Return(r, "false")
      BY <2>2, <3>1, Zenon
    <3>2. CASE Forget(r, Evaluation(r))
      <4>1. /\ Moves(Evaluation(r), F.blk, 0) /\ F.blk = "good" /\ Supported(r) /\ r <= last + 1
            /\ Evaluation(r) \in Labels
        BY <1>0, <1>b, <2>9, <3>2, Zenon DEF Evaluate, Evaluation, FetchInv, Labels
      <4> QED
        BY <1>0, <1>c, <2>1, <4>1, FetchStep, Zenon
    <3> QED
      BY <2>9, <3>1, <3>2, Zenon DEF Evaluate
  <2> QED
    BY <1>3, <2>4, <2>5, <2>6, <2>7, <2>8, <2>9, Zenon
<1> QED
  BY <1>1, <1>2, <1>3, Zenon DEF FetchAndWrite
\* The certificates, which agreement asks for one round ahead of the ledger.
LEMMA CertInv ==
    ASSUME CatchupInv, EnsureDigest \/ TakeCert \/ FetchRound
    PROVE  CatchupInv'
<1> USE DEF certVars
<1>1. CASE EnsureDigest
  <2>1. GoodNotBlamed'
    BY <1>1, Zenon DEF EnsureDigest, CatchupInv, GoodNotBlamed
  <2>2. /\ UNCHANGED <<last, wrong, fetch, pc, want, got>>
        /\ pending' = last + 1 /\ digested' = last + 1
    BY <1>1, Zenon DEF EnsureDigest, ledgerVars
  <2> QED
    BY <2>1, <2>2 DEF CatchupInv, FetchInv, Supported
<1>2. CASE TakeCert
  <2>1. GoodNotBlamed'
    BY <1>2, Zenon DEF TakeCert, CatchupInv, GoodNotBlamed
  <2>2. /\ UNCHANGED <<last, wrong, fetch, digested, got>> /\ pending' = 0
        /\ pc' = pc \/ pc' = "cert"
        /\ pc = "idle" /\ (want' = want \/ want' = pending)
    BY <1>2, Zenon DEF TakeCert, ledgerVars
  <2> QED
    BY <2>1, <2>2 DEF CatchupInv, FetchInv, Supported
<1>3. CASE CertPresent \/ CertFails
  <2>1. GoodNotBlamed'
    BY <1>3, Zenon DEF CertPresent, CertFails, CertLeft, CatchupInv, GoodNotBlamed
  <2>2. /\ UNCHANGED <<last, wrong, fetch, digested, pending, got>> /\ want' = 0 /\ pc' = "idle"
    BY <1>3, Zenon DEF CertPresent, CertFails, CertLeft, ledgerVars
  <2> QED
    BY <2>1, <2>2 DEF CatchupInv, FetchInv, Supported
<1>4. CASE CertBlock
  <2>1. GoodNotBlamed'
    BY <1>4, Zenon DEF CertBlock, CertLeft, CatchupInv, GoodNotBlamed
  <2>2. /\ UNCHANGED <<last, wrong, fetch, digested, pending, want>> /\ pc' = "ensure"
        /\ got' = "good" /\ Supported(want)
    BY <1>4, Zenon DEF CertBlock, CertLeft, Matches, ledgerVars
  <2> QED
    BY <2>1, <2>2, Zenon DEF CatchupInv, FetchInv, Supported
<1>5. CASE Ensure
  <2>1. GoodNotBlamed'
    BY <1>5, Zenon DEF Ensure, CertLeft, CatchupInv, GoodNotBlamed
  <2>2. UNCHANGED <<fetch, digested, pending>> /\ want' = 0 /\ pc' = "idle"
    BY <1>5, Zenon DEF Ensure, CertLeft
  <2>3. got = "good"
    BY <1>5, Zenon DEF Ensure, CatchupInv
  <2>4. CASE Add(want, got)
    BY <2>1, <2>2, <2>3, <2>4, RoundsInt DEF Add, CatchupInv, FetchInv, Supported
  <2>5. CASE UNCHANGED ledgerVars
    BY <2>1, <2>2, <2>5 DEF ledgerVars, CatchupInv, FetchInv, Supported
  <2> QED
    BY <1>5, <2>4, <2>5, Zenon DEF Ensure
<1> QED
  BY <1>1, <1>2, <1>3, <1>4, <1>5, Zenon DEF FetchRound

\* The steps that touch neither the ledger nor a certificate, and no fetch but to start or
\* drop it.
LEMMA SyncInv ==
    ASSUME CatchupInv, Sync \/ Resync \/ Monitor \/ LedgerQuiet \/ LedgerBusy \/ Stop \/ UNCHANGED vars
    PROVE  CatchupInv'
<1>1. GoodNotBlamed' /\ UNCHANGED <<last, wrong, digested, pending, want, got>>
  <2>1. UNCHANGED <<ledgerVars, certVars>> /\ blamed' \in {blamed, "no"}
    BY Zenon DEF Sync, StartSync, NoPeers, Launch, Completed, Abort, Pause, Drain, Exit, StopReturns,
       Resync, Monitor, LedgerQuiet, LedgerBusy, Stop, vars
  <2>2. GoodNotBlamed'
    BY <2>1, Zenon DEF CatchupInv, GoodNotBlamed
  <2> QED
    BY <2>1, <2>2, Zenon DEF ledgerVars, certVars
<1>2. pc' = pc \/ pc' # "ensure"
  BY Zenon DEF Sync, StartSync, NoPeers, Launch, Completed, Abort, Pause, Drain, Exit, StopReturns,
     Resync, Monitor, LedgerQuiet, LedgerBusy, Stop, vars
<1>3. \/ UNCHANGED fetch
      \/ \E r \in Rounds : fetch' = [fetch EXCEPT ![r] = NoFetch]
      \/ fetch' = [r \in Rounds |-> NoFetch]
      \/ \E r : fetch' = [fetch EXCEPT ![r] = [NoFetch EXCEPT !.pc = "next"]]
  <2>1. CASE Completed
    <3>1. fetch' = [fetch EXCEPT ![firstRound] = NoFetch]
      BY <2>1, Zenon DEF Completed
    <3>2. CASE firstRound \in Rounds
      BY <3>1, <3>2, Zenon
    <3>3. CASE firstRound \notin Rounds
      BY <3>1, <3>3, Zenon DEF CatchupInv
    <3> QED
      BY <3>2, <3>3, Zenon
  <2> QED
    BY <2>1, Zenon DEF Sync, StartSync, NoPeers, Launch, Abort, Pause, Drain, Exit,
       StopReturns, Resync, Monitor, LedgerQuiet, LedgerBusy, Stop, vars
<1>4. /\ NoFetch \in Fetches /\ [NoFetch EXCEPT !.pc = "next"] \in Fetches
      /\ NoFetch.pc = "none" /\ [NoFetch EXCEPT !.pc = "next"].pc = "next"
  BY Zenon DEF NoFetch, Fetches, Labels, Blocks
<1>5. fetch' \in [Rounds -> Fetches]
  BY <1>3, <1>4, Zenon DEF CatchupInv
<1>6. ASSUME NEW s \in Rounds
      PROVE  fetch'[s] = fetch[s] \/ fetch'[s].pc \in {"none", "next"}
  BY <1>3, <1>4, Zenon DEF CatchupInv
<1>7. \A s \in Rounds : FetchInv(fetch[s], s)'
  BY <1>1, <1>6, Zenon DEF CatchupInv, FetchInv, Supported
<1> QED
  BY <1>1, <1>2, <1>5, <1>7, Zenon DEF CatchupInv, Supported

LEMMA AgreementInv ==
    ASSUME CatchupInv, AgreementWrites
    PROVE  CatchupInv'
<1>1. GoodNotBlamed' /\ UNCHANGED <<fetch, pc, pending, digested, want, got>> /\ Add(last + 1, "good")
  BY Zenon DEF AgreementWrites, CatchupInv, GoodNotBlamed, certVars
<1> QED
  BY <1>1, RoundsInt DEF Add, CatchupInv, FetchInv, Supported

LEMMA InductiveInv == CatchupInv /\ [Next]_vars => CatchupInv'
<1> SUFFICES ASSUME CatchupInv, [Next]_vars PROVE CatchupInv'
  BY Zenon
<1>1. ASSUME NEW r \in Rounds, FetchAndWrite(r) PROVE CatchupInv'
  BY <1>1, FetchAndWriteInv, Zenon
<1> QED
  BY <1>1, CertInv, SyncInv, AgreementInv, Zenon DEF Next, Environment, Service

\* The invariant holds in every reachable state.
THEOREM CatchupInvariant == Spec => []CatchupInv
BY InitInv, InductiveInv, PTL DEF Spec

\* Every write, of the pipeline and of fetchRound, is of the round after the ledger's last or
\* of one it has already, and of a protocol the node knows: AddBlock's answer for a block
\* out of order, which the pipeline would take for success, and EnsureBlock's endless
\* retries are never met.
THEOREM WriteOrder == Spec => []WritesInOrder
<1>1. CatchupInv => WritesInOrder
  BY RoundsInt, Zenon DEF CatchupInv, FetchInv, WritesInOrder
<1> QED
  BY <1>1, CatchupInvariant, PTL

\* Whatever peers answer, only certified blocks reach the ledger.
THEOREM OnlyCertified == Spec => []LedgerCertified
<1>1. CatchupInv => LedgerCertified
  BY Zenon DEF CatchupInv, LedgerCertified
<1> QED
  BY <1>1, CatchupInvariant, PTL

\* A peer is ranked invalid for a block that was certified only when the node does not know
\* its protocol or the weight daemon fails, never because the pipeline ran ahead.
THEOREM NoneBlamed == Spec => []GoodNotBlamed
<1>1. CatchupInv => GoodNotBlamed
  BY Zenon DEF CatchupInv
<1> QED
  BY <1>1, CatchupInvariant, PTL

----------------------------------------------------------------------------
(* The depth of the pipeline.                                              *)

\* Between two pipelines no fetch is left: StartSync moves both ends.
PipeInv ==
    /\ firstRound \in Nat /\ nextRound \in Nat
    /\ limitedParallelRequests \in {minParallelRequests, maxParallelRequests}
    /\ PipelineBounded
    /\ pc \in {"sync", "idle", "cert", "ensure", "exit"} => \A r \in Rounds : fetch[r].pc = "none"

LEMMA Depths ==
    /\ minParallelRequests \in Nat /\ maxParallelRequests \in Nat
    /\ minParallelRequests <= maxParallelRequests
BY CatchupAssumption DEF minParallelRequests, maxParallelRequests

LEMMA PipeInit == Init => PipeInv
<1> SUFFICES ASSUME Init PROVE PipeInv
  BY Zenon
<1>1. /\ firstRound = 1 /\ nextRound = 1 /\ limitedParallelRequests = minParallelRequests
      /\ fetch = [r \in Rounds |-> NoFetch]
  BY Zenon DEF Init
<1>2. \A r \in Rounds : fetch[r].pc = "none"
  BY <1>1, Zenon DEF NoFetch
<1>3. nextRound \in firstRound .. (firstRound + maxParallelRequests)
  BY <1>1, Depths
<1> QED
  BY <1>1, <1>2, <1>3, Zenon DEF PipeInv, PipelineBounded

\* A fetch only moves itself, and only once it was launched.
LEMMA FetchMoves ==
    ASSUME CatchupInv, NEW r \in Rounds, FetchAndWrite(r)
    PROVE  /\ fetch[r].pc # "none" /\ UNCHANGED <<pc, firstRound, nextRound, limitedParallelRequests>>
           /\ \A s \in Rounds : s # r => fetch'[s] = fetch[s]
<1>1. UNCHANGED <<pc, firstRound, nextRound, limitedParallelRequests>>
  BY Zenon DEF FetchAndWrite, pipeVars
<1>2. \/ AddBlock(r) \/ Authenticate(r) \/ GiveUp(r) \/ NoBlock(r) \/ BlockArrives(r) \/ Retry(r)
      \/ PrevComplete(r) \/ AbortWait(r) \/ Evaluate(r)
  BY Zenon DEF FetchAndWrite
<1>3. fetch[r].pc # "none"
  BY <1>2, Zenon DEF AddBlock, Authenticate, LookbackComplete, GiveUp, NoBlock, BlockArrives, MayAsk, Retry,
     PrevComplete, AbortWait, Evaluate
<1>4. \E f : fetch' = [fetch EXCEPT ![r] = f]
  BY <1>2, Zenon DEF AddBlock, Authenticate, Refuse, GiveUp, NoBlock, BlockArrives, Retry, Goto, Return, Forget,
     PrevComplete, AbortWait, Evaluate
<1> QED
  BY <1>1, <1>3, <1>4, Zenon DEF CatchupInv

LEMMA PipeStep == CatchupInv /\ PipeInv /\ [Next]_vars => PipeInv'
<1> SUFFICES ASSUME CatchupInv, PipeInv, [Next]_vars PROVE PipeInv'
  BY Zenon
<1>0. /\ fetch \in [Rounds -> Fetches] /\ last \in Nat /\ firstRound \in Nat /\ nextRound \in Nat
      /\ limitedParallelRequests \in {minParallelRequests, maxParallelRequests}
      /\ firstRound <= nextRound /\ nextRound <= firstRound + maxParallelRequests
      /\ \A r \in Rounds : fetch[r].pc # "none" => r \in firstRound .. (nextRound - 1)
      /\ pc \in {"sync", "idle", "cert", "ensure", "exit"} => \A r \in Rounds : fetch[r].pc = "none"
  BY Depths DEF CatchupInv, PipeInv, PipelineBounded
<1>1. ASSUME NEW r \in Rounds, FetchAndWrite(r) PROVE PipeInv'
  <2>1. /\ fetch[r].pc # "none" /\ UNCHANGED <<pc, firstRound, nextRound, limitedParallelRequests>>
        /\ \A s \in Rounds : s # r => fetch'[s] = fetch[s]
    BY <1>1, FetchMoves, Zenon
  <2> QED
    BY <1>0, <2>1, Zenon DEF PipeInv, PipelineBounded
<1>2. CASE StartSync
  <2>1. /\ firstRound' = last + 1 /\ nextRound' = last + 1 /\ fetch' = fetch /\ pc' = "launch"
        /\ limitedParallelRequests' = minParallelRequests /\ pc = "sync"
    BY <1>2, Zenon DEF StartSync
  <2> QED
    BY <1>0, <2>1, Depths DEF PipeInv, PipelineBounded
<1>3. CASE Launch
  <2>1. pc = "launch" /\ pc' \in {"launch", "wait"} /\ UNCHANGED <<firstRound, limitedParallelRequests>>
    BY <1>3, Zenon DEF Launch
  <2>2. CASE UNCHANGED <<fetch, nextRound>>
    BY <1>0, <2>1, <2>2, Zenon DEF PipeInv, PipelineBounded
  <2>3. CASE /\ nextRound < firstRound + limitedParallelRequests /\ nextRound' = nextRound + 1
             /\ fetch' = [fetch EXCEPT ![nextRound] = [NoFetch EXCEPT !.pc = "next"]]
    <3>1. \A s \in Rounds : s # nextRound => fetch'[s] = fetch[s]
      BY <1>0, <2>3, Zenon
    <3>2. nextRound' <= firstRound + maxParallelRequests
      BY <1>0, <2>3, Depths
    <3>3. \A s \in Rounds : fetch'[s].pc # "none" => s \in firstRound .. (nextRound' - 1)
      BY <1>0, <2>3, <3>1, RoundsInt
    <3> QED
      BY <1>0, <2>1, <2>3, <3>2, <3>3, Depths DEF PipeInv, PipelineBounded
  <2> QED
    BY <1>3, <2>2, <2>3, Zenon DEF Launch, MayLaunch
<1>4. CASE Completed
  <2>1. /\ firstRound < nextRound /\ firstRound' = firstRound + 1 /\ nextRound' = nextRound
        /\ fetch' = [fetch EXCEPT ![firstRound] = NoFetch]
        /\ pc' \in {"pause", "drain"}
        /\ limitedParallelRequests' \in {limitedParallelRequests, minParallelRequests, maxParallelRequests}
    BY <1>4, Zenon DEF Completed
  <2>2. \A s \in Rounds : fetch'[s].pc # "none" => s # firstRound /\ fetch[s].pc # "none"
    BY <1>0, <2>1, Zenon DEF NoFetch
  <2>3. \A s \in Rounds : fetch'[s].pc # "none" => s \in firstRound' .. (nextRound' - 1)
    BY <1>0, <2>1, <2>2, RoundsInt
  <2> QED
    BY <1>0, <2>1, <2>3, Depths DEF PipeInv, PipelineBounded
<1>5. CASE Drain
  <2>1. /\ firstRound' = 1 /\ nextRound' = 1 /\ limitedParallelRequests' = minParallelRequests
        /\ fetch' = [r \in Rounds |-> NoFetch]
    BY <1>5, Zenon DEF Drain
  <2>2. \A r \in Rounds : fetch'[r].pc = "none"
    BY <2>1, Zenon DEF NoFetch
  <2>3. nextRound' \in firstRound' .. (firstRound' + maxParallelRequests)
    BY <2>1, Depths
  <2> QED
    BY <2>1, <2>2, <2>3, Zenon DEF PipeInv, PipelineBounded
<1>6. CASE /\ UNCHANGED <<fetch, firstRound, nextRound, limitedParallelRequests>>
           /\ \/ pc' = pc \/ pc' \in {"drain", "launch"}
              \/ pc \in {"sync", "idle", "cert", "ensure", "exit"}
  BY <1>0, <1>6, Zenon DEF PipeInv, PipelineBounded
<1>7. ASSUME \/ AgreementWrites \/ EnsureDigest \/ LedgerBusy \/ Stop \/ LedgerQuiet \/ NoPeers \/ Abort
             \/ Pause \/ Exit \/ StopReturns \/ Resync \/ FetchRound \/ Monitor \/ TakeCert
             \/ UNCHANGED vars
      PROVE  PipeInv'
  <2>1. UNCHANGED <<fetch, firstRound, nextRound, limitedParallelRequests>>
    BY <1>7, Zenon DEF AgreementWrites, EnsureDigest, LedgerBusy, Stop, LedgerQuiet, NoPeers, Abort, Pause,
       Exit, StopReturns, Resync, FetchRound, CertPresent, CertFails, CertBlock, Ensure, CertLeft,
       Monitor, TakeCert, pipeVars, vars
  <2>2. \/ pc' = pc \/ pc' \in {"drain", "launch"}
        \/ pc \in {"sync", "idle", "cert", "ensure", "exit"}
    BY <1>7, Zenon DEF AgreementWrites, EnsureDigest, LedgerBusy, Stop, LedgerQuiet, NoPeers, Abort, Pause,
       Exit, StopReturns, Resync, FetchRound, CertPresent, CertFails, CertBlock, Ensure, CertLeft,
       Monitor, TakeCert, vars
  <2> QED
    BY <1>6, <2>1, <2>2, Zenon
<1> QED
  BY <1>1, <1>2, <1>3, <1>4, <1>5, <1>7, Zenon DEF Next, Environment, Service, Sync

\* The pipeline never runs further ahead than maxParallelRequests, whatever it is launched
\* with while fetches come back in any order, and leaves no fetch behind.
THEOREM PipelineDepth == Spec => []PipelineBounded
<1>1. CatchupInv /\ PipeInv => PipelineBounded
  BY Zenon DEF PipeInv
<1> QED
  BY <1>1, PipeInit, PipeStep, CatchupInvariant, PTL DEF Spec
====
