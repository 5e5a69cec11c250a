------------------------------- MODULE Player -------------------------------
(***************************************************************************)
(* The player state machine of one node, with the machines it drives       *)
(* synchronously through the router: proposalManager, proposalStore and    *)
(* proposalTracker on the proposal side, voteTrackerRound and              *)
(* voteTrackerPeriod on the vote side (agreement/player.go and the files   *)
(* of those names).  The whole tree is one record; a handler is an         *)
(* operator that takes the record to [st, acts], the new record and the    *)
(* actions the player returns, in order.                                   *)
(*                                                                         *)
(* Vote counting is not here: a threshold event arrives when the           *)
(* voteTracker of its (period, step) emits it (module VoteTracker).        *)
(***************************************************************************)
EXTENDS Integers, FiniteSets, SequencesExt

CONSTANTS
    Values,      \* proposal-values: records [per, by, ...] of the original
                 \* period and proposer; proposers are integers in the order
                 \* of their credentials, the lowest first
    Bottom,      \* the bottom proposal-value
    MaxRound,    \* bound: rounds 1..MaxRound have state, MaxRound + 1 ends
    MaxPeriod    \* bound: periods 0..MaxPeriod

ASSUME BottomAssumption == Bottom \notin Values
ASSUME BoundAssumption == MaxRound \in Nat \ {0} /\ MaxPeriod \in Nat

Rounds == 1..MaxRound
Periods == 0..MaxPeriod

\* Steps (types.go).  A step s with next <= s < late is a recovery step.
soft == 1
cert == 2
next == 3
late == 253
redo == 254
down == 255
partitionStep == next + 3

NoVote == [sender |-> 0, value |-> Bottom]
NoThreshold == [T |-> "none"]
EmptyAssembler == [Filled |-> FALSE, Assembled |-> FALSE]

\* periodRouter: a proposalTracker (Duplicate, Lowest, Frozen, Staging), the
\* Cached next-threshold status of a voteTrackerPeriod (Bottom, Proposal).
EmptyPeriod == [Duplicate |-> {}, Lowest |-> NoVote, Frozen |-> FALSE,
                Staging |-> Bottom, Bottom |-> FALSE, Proposal |-> Bottom]

\* roundRouter: a proposalStore and a voteTrackerRound.
EmptyRound == [Relevant |-> << >>, Pinned |-> Bottom, Assemblers |-> << >>,
               Freshest |-> NoThreshold,
               per |-> [p \in Periods |-> EmptyPeriod]]

InitPlayer == [Round |-> 1, Period |-> 0, Step |-> soft,
               Napping |-> FALSE, FastRecovery |-> FALSE, panic |-> FALSE,
               rs |-> [r \in Rounds |-> EmptyRound]]

----------------------------------------------------------------------------
(* proposalStore and proposalTracker: operators on one round's state rs.   *)

Assembler(rs, v) ==
    IF v \in DOMAIN rs.Assemblers THEN rs.Assemblers[v] ELSE EmptyAssembler

\* trim keeps the assemblers of the pinned and the relevant values only.
trim(rs) ==
    LET keep == ({rs.Pinned} \cup Range(rs.Relevant)) \ {Bottom}
    IN  [rs EXCEPT !.Assemblers = [v \in keep |-> Assembler(rs, v)]]

\* stagedValue: the staging value of a period, and whether its payload is held.
Committable(rs, p) == Assembler(rs, rs.per[p].Staging).Assembled

\* proposalTracker, voteVerified: the sender is new, nothing is staged, and its
\* credential is lower than every earlier one while the seeker is not frozen.
Accepts(ps, s) ==
    /\ s \notin ps.Duplicate
    /\ ps.Staging = Bottom
    /\ ~ps.Frozen
    /\ ps.Lowest = NoVote \/ s < ps.Lowest.sender

\* Mutant of storeVote: the assembler of a displaced value is kept.
storeVoteUntrimmed(rs, p, s, v) ==
    LET rs1 == [rs EXCEPT !.per[p].Duplicate = @ \cup {s}]
    IN  IF ~Accepts(rs.per[p], s) THEN rs1
        ELSE [rs1 EXCEPT !.per[p].Lowest = [sender |-> s, value |-> v],
                         !.Relevant = (p :> v) @@ @,
                         !.Assemblers = (v :> Assembler(rs, v)) @@ @]

\* proposalStore, voteVerified.
storeVote(rs, p, s, v) ==
    LET ps  == rs.per[p]
        rs1 == [rs EXCEPT !.per[p].Duplicate = @ \cup {s}]
        rs2 == [rs1 EXCEPT !.per[p].Lowest = [sender |-> s, value |-> v],
                           !.Relevant = (p :> v) @@ @,
                           !.Assemblers = (v :> Assembler(rs, v)) @@ @]
    IN  IF Accepts(ps, s) THEN trim(rs2) ELSE rs1

\* lastRelevant: the context a payload is verified in, the sentinel of the
\* pinned value or the last period for which the value is relevant.
PinnedKey == -1

lastRelevant(rs, v) ==
    IF rs.Pinned = v THEN PinnedKey
    ELSE Max({0} \cup {p \in DOMAIN rs.Relevant : rs.Relevant[p] = v})

verifyPayload(rs, r, v) ==
    [T |-> "verifyPayload", Round |-> r, Proposal |-> v, Key |-> lastRelevant(rs, v)]

\* proposalStore, newPeriod; q is the period the player is still in.
storeNewPeriod(rs, q, target, starting) ==
    LET staged == rs.per[q].Staging
        pin    == IF starting # Bottom THEN starting
                  ELSE IF staged # Bottom THEN staged ELSE rs.Pinned
        recent == {p \in DOMAIN rs.Relevant : p + 1 >= target}
    IN  trim([rs EXCEPT !.Pinned = pin, !.Relevant = Restrict(@, recent)])

\* Mutant of storeThreshold: the value is staged but not made relevant.
storeThresholdUntracked(rs, e) == [rs EXCEPT !.per[e.Period].Staging = e.Proposal]

\* proposalStore, {soft,cert}Threshold.
storeThreshold(rs, e) ==
    LET v   == e.Proposal
        rs1 == [rs EXCEPT !.per[e.Period].Staging = v]
    IN  IF Assembler(rs, v).Assembled THEN rs1
        ELSE trim([rs1 EXCEPT !.Relevant = (e.Period :> v) @@ @,
                              !.Assemblers = (v :> Assembler(rs, v)) @@ @])

----------------------------------------------------------------------------
(* voteTrackerRound and voteTrackerPeriod.                                 *)

\* Mutant of fresherThan: a soft-threshold displaces the next-threshold of its
\* period.
fresherThanEqual(e, o) ==
    \/ o.T = "none"
    \/ o.T # "cert" /\ (e.T = "cert" \/ e.Period >= o.Period)

\* thresholdEvent.fresherThan, for thresholds of one round.
fresherThan(e, o) ==
    \/ o.T = "none"
    \/ /\ o.T # "cert"
       /\ \/ e.T = "cert"
          \/ e.T = "soft" /\ e.Period > o.Period
          \/ e.T = "next" /\ e.Period > o.Period
          \/ /\ e.T = "next" /\ e.Period = o.Period
             /\ o.T = "soft" \/ (e.Proposal = Bottom /\ o.Proposal # Bottom)

\* A threshold passes the vote machines of its round: a next-threshold is
\* cached in its period, and a threshold fresher than every other is kept.
observe(rs, e) ==
    LET rs1 == IF e.T # "next" THEN rs
               ELSE IF e.Proposal = Bottom
               THEN [rs EXCEPT !.per[e.Period].Bottom = TRUE]
               ELSE [rs EXCEPT !.per[e.Period].Proposal = e.Proposal]
    IN  IF fresherThan(e, rs.Freshest) THEN [rs1 EXCEPT !.Freshest = e] ELSE rs1

\* The next-threshold status of period p, empty for the period before 0.
nextStatus(rs, p) == IF p \in Periods THEN rs.per[p] ELSE EmptyPeriod

----------------------------------------------------------------------------
(* The router collects the periods before Period - 1, except 0 and 1; a    *)
(* dispatch to a collected period finds no router and panics.  The rounds  *)
(* before the player's are kept for late credentials only, which are not   *)
(* modelled, and forgotten here.                                           *)

Collected(st, p) == p + 1 < st.Period /\ p > 1

gc(st) ==
    [st EXCEPT !.rs = [r \in Rounds |->
        IF r < st.Round THEN EmptyRound
        ELSE [st.rs[r] EXCEPT !.per = [p \in Periods |->
            IF Collected(st, p) THEN EmptyPeriod ELSE st.rs[r].per[p]]]]]

----------------------------------------------------------------------------
(* player.                                                                 *)

Out(st, acts) == [st |-> st, acts |-> acts]
attest(st, s, v) == [T |-> "attest", Round |-> st.Round, Period |-> st.Period,
                     Step |-> s, Proposal |-> v]

Partitioned(st) == st.Step >= partitionStep \/ st.Period >= 3

\* The actions that repropagate the freshest bundle and a payload.
partitionPolicy(st) ==
    LET rs == st.rs[st.Round]
        o  == rs.Freshest
        ok == o.T # "none"
        p  == IF ok /\ o.Proposal # Bottom THEN o.Period ELSE st.Period
        payload ==
            IF Committable(rs, p) THEN <<[T |-> "payload", Proposal |-> rs.per[p].Staging]>>
            ELSE IF Assembler(rs, rs.Pinned).Assembled
            THEN <<[T |-> "payload", Proposal |-> rs.Pinned]>> ELSE << >>
    IN  IF ~Partitioned(st) THEN << >>
        ELSE (IF ok THEN <<[T |-> "bundle", Event |-> o]>> ELSE << >>)
             \o (IF (ok /\ o.Proposal # Bottom) \/ st.Period = 0 THEN payload ELSE << >>)

\* proposalManager on a threshold of the player's round, before the player
\* changes period; TRUE in ok when the result is proposalCommittable.
proposalMachine(st, e) ==
    LET r  == st.Round
        target == IF e.T = "next" THEN e.Period + 1 ELSE e.Period
        rs1 == IF e.T = "next" \/ st.Period < e.Period
               THEN storeNewPeriod(st.rs[r], st.Period, target, e.Proposal)
               ELSE st.rs[r]
        rs2 == IF e.T = "next" THEN rs1 ELSE storeThreshold(rs1, e)
    IN  [st |-> [st EXCEPT !.rs[r] = rs2],
         ok |-> e.T # "next" /\ Assembler(rs1, e.Proposal).Assembled]

enterPeriod(st, source, target) ==
    LET m   == proposalMachine(st, source)
        st1 == gc([m.st EXCEPT !.Period = target,
                               !.Step = soft, !.Napping = FALSE,
                               !.FastRecovery = FALSE])
        rest == IF m.ok THEN <<attest(st1, cert, source.Proposal)>>
                ELSE IF source.T # "next" THEN << >>
                ELSE IF source.Proposal = Bottom
                THEN <<[T |-> "assemble", Round |-> st1.Round, Period |-> target]>>
                ELSE <<[T |-> "repropose", Round |-> st1.Round, Period |-> target,
                        Proposal |-> source.Proposal]>>
    IN  Out(st1, partitionPolicy(st) \o <<[T |-> "rezero", Round |-> st.Round]>> \o rest)

\* A threshold of the player's round that does not end the round.
thresholdInRound(st, e) ==
    CASE e.T = "cert" ->
           LET m   == proposalMachine(st, e).st
               dig == <<[T |-> "stageDigest", Proposal |-> e.Proposal]>>
               in  == enterPeriod(m, e, e.Period)
           IN  IF st.Period < e.Period THEN Out(in.st, dig \o in.acts) ELSE Out(m, dig)
      [] e.T = "soft" ->
           IF st.Period > e.Period THEN Out(st, << >>)
           ELSE IF st.Period < e.Period THEN enterPeriod(st, e, e.Period)
           ELSE LET m == proposalMachine(st, e)
                IN  Out(m.st, IF m.ok /\ st.Step <= cert
                              THEN <<attest(st, cert, e.Proposal)>> ELSE << >>)
      [] e.T = "next" ->
           IF st.Period > e.Period THEN Out(st, << >>)
           ELSE enterPeriod(st, e, e.Period + 1)

\* The certified value of a cert threshold is held: the round ends.
Ends(st, e) == e.T = "cert" /\ Committable(proposalMachine(st, e).st.rs[st.Round], e.Period)

\* enterRound; the freshest threshold pipelined for the new round is handled
\* at once.  That it would end the new round in turn is excluded (a pipelined
\* payload is not yet verified) and marked as a panic.
enterRound(st, target) ==
    LET st1 == gc([st EXCEPT !.Round = target,
                             !.Period = 0, !.Step = soft, !.Napping = FALSE,
                             !.FastRecovery = FALSE])
        rs  == st1.rs[target]
        start == <<[T |-> "rezero", Round |-> target],
                   [T |-> "assemble", Round |-> target, Period |-> 0]>>
        fill  == {v \in DOMAIN rs.Assemblers : rs.Assemblers[v].Filled}
        verify == IF fill = {} THEN << >>
                  ELSE <<verifyPayload(rs, target, CHOOSE v \in fill : TRUE)>>
        e   == rs.Freshest
        out == thresholdInRound(st1, e)
    IN  IF target > MaxRound THEN Out(st1, << >>)
        ELSE IF Cardinality(DOMAIN rs.Assemblers) > 1
        THEN Out([st1 EXCEPT !.panic = TRUE], << >>)
        ELSE IF e.T = "none" THEN Out(st1, start \o verify)
        ELSE IF Ends(st1, e) THEN Out([st1 EXCEPT !.panic = TRUE], << >>)
        ELSE Out(out.st, start \o verify \o out.acts)

ensure(st, v) == [T |-> "ensure", Round |-> st.Round, Proposal |-> v]

handleThresholdEvent(st, e) ==
    IF Ends(st, e)
    THEN LET out == enterRound(proposalMachine(st, e).st, st.Round + 1)
         IN  Out(out.st, <<ensure(st, e.Proposal)>> \o out.acts)
    ELSE thresholdInRound(st, e)

\* Mutant of threshold: a threshold pipelined for the next round is handled in
\* the player's round.
thresholdOfAnyRound(st, r, e) ==
    LET st1 == [st EXCEPT !.rs[r] = observe(@, e)]
    IN  IF ~fresherThan(e, st.rs[r].Freshest) THEN Out(st1, << >>)
        ELSE handleThresholdEvent(st1, e)

\* A threshold emitted by a voteTracker of round r reaches the player when it
\* is of the player's round and the freshest; one of the next round waits.
threshold(st, r, e) ==
    LET st1 == [st EXCEPT !.rs[r] = observe(@, e)]
    IN  IF Collected(st, e.Period) THEN Out([st EXCEPT !.panic = TRUE], << >>)
        ELSE IF r # st.Round \/ ~fresherThan(e, st.rs[r].Freshest) THEN Out(st1, << >>)
        ELSE handleThresholdEvent(st1, e)

\* Which thresholds the vote aggregator lets through (voteFresh, bundleFresh):
\* of the player's round any period but stale ones, a cert of any period; of
\* the next round period 0.
Fresh(st, r, e) ==
    \/ r = st.Round /\ (e.T = "cert" \/ e.Period + 1 >= st.Period)
    \/ r = st.Round + 1 /\ e.Period = 0

----------------------------------------------------------------------------
(* Votes the player issues.                                                *)

issueSoftVote(st) ==
    LET r   == st.Round
        rs  == st.rs[r]
        v   == rs.per[st.Period].Lowest.value
        ns  == nextStatus(rs, st.Period - 1)
        st1 == [st EXCEPT !.rs[r].per[st.Period].Frozen = TRUE]
        Vote(w) == Out(st1, <<attest(st, soft, w)>>)
    IN  IF st.Period > 0 /\ ~ns.Bottom /\ ns.Proposal # Bottom THEN Vote(ns.Proposal)
        ELSE IF v = Bottom THEN Out(st1, << >>)
        ELSE IF st.Period > v.per /\ ns.Proposal # v THEN Out(st1, << >>)
        ELSE Vote(v)

\* Mutant of recoveryValue: bottom comes before the staged value.
recoveryValueBottomFirst(st) ==
    LET rs == st.rs[st.Round]
        ns == nextStatus(rs, st.Period - 1)
    IN  IF ns.Bottom THEN Bottom
        ELSE IF Committable(rs, st.Period) THEN rs.per[st.Period].Staging ELSE ns.Proposal

\* The value a recovery vote names: the staged value when its payload is held,
\* otherwise what the period before ended with.
recoveryValue(st) ==
    LET rs == st.rs[st.Round]
        ns == nextStatus(rs, st.Period - 1)
    IN  IF Committable(rs, st.Period) THEN rs.per[st.Period].Staging
        ELSE IF ns.Bottom THEN Bottom ELSE ns.Proposal

issueNextVote(st) ==
    Out([st EXCEPT !.Napping = FALSE],
        partitionPolicy(st) \o <<attest(st, st.Step, recoveryValue(st))>>)

\* Mutant of issueFastVote: one step for all three kinds of fast votes.
issueFastVoteOneStep(st) ==
    Out(st, partitionPolicy(st) \o <<attest(st, late, recoveryValue(st))>>)

issueFastVote(st) ==
    LET v == recoveryValue(st)
        s == IF v = Bottom THEN down
             ELSE IF Committable(st.rs[st.Round], st.Period) THEN late ELSE redo
    IN  Out(st, partitionPolicy(st) \o <<attest(st, s, v)>>)

\* timeoutEvent: the deadline of the step.
handleTimeout(st) ==
    IF st.Step = soft
    THEN LET out == issueSoftVote(st) IN Out([out.st EXCEPT !.Step = cert], out.acts)
    ELSE IF st.Step = cert THEN issueNextVote([st EXCEPT !.Step = next])
    ELSE IF st.Napping THEN issueNextVote(st)
    ELSE Out([st EXCEPT !.Step = @ + 1, !.Napping = TRUE], << >>)

\* fastTimeout: the first one of a period only arms the timer.
handleFastTimeout(st) ==
    IF ~st.FastRecovery THEN Out([st EXCEPT !.FastRecovery = TRUE], << >>)
    ELSE issueFastVote(st)

----------------------------------------------------------------------------
(* Proposals.                                                              *)

\* proposalFresh.
proposalFresh(st, r, p) ==
    \/ r = st.Round /\ p + 1 >= st.Period /\ p <= st.Period + 1
    \/ r = st.Round + 1 /\ p = 0

\* A verified proposal-vote.
proposalVote(st, r, p, s, v) == [st EXCEPT !.rs[r] = storeVote(@, p, s, v)]

\* payloadPresent: pipelined in the assembler of its value; a payload of the
\* player's round goes on to verification.
payloadPresent(st, r, v) ==
    LET a == st.rs[r].Assemblers[v]
    IN  IF v \notin DOMAIN st.rs[r].Assemblers \/ a.Assembled \/ a.Filled
        THEN Out(st, << >>)
        ELSE Out([st EXCEPT !.rs[r].Assemblers[v].Filled = TRUE],
                 IF r = st.Round THEN <<verifyPayload(st.rs[r], r, v)>> ELSE << >>)

\* payloadVerified: bound in the assembler; it ends the round when it is the
\* certified value, and is cert-voted when it is the staged value.
payloadVerified(st, v) ==
    LET r   == st.Round
        rs  == st.rs[r]
        st1 == [st EXCEPT !.rs[r].Assemblers[v].Assembled = TRUE]
        out == enterRound(st1, r + 1)
        o   == rs.Freshest
    IN  IF v \notin DOMAIN rs.Assemblers \/ Assembler(rs, v).Assembled
        THEN Out(st, << >>)
        ELSE IF o.T = "cert" /\ o.Proposal = v
        THEN Out(out.st, <<ensure(st, v)>> \o out.acts)
        ELSE Out(st1, IF rs.per[st.Period].Staging = v /\ st.Step <= cert
                      THEN <<attest(st, cert, v)>> ELSE << >>)

\* roundInterruption: the ledger reached round target by other means.
roundInterruption(st, target) == enterRound(st, target)
=============================================================================
