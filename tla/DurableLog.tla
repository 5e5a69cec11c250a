---------------------------- MODULE DurableLog ----------------------------
(***************************************************************************)
(* What a ledger promises about its rounds: blocks are added one by one,   *)
(* a round that was announced as stored survives a crash, and a crash      *)
(* loses nothing else than the newest rounds.                              *)
(***************************************************************************)
EXTENDS Integers

VARIABLES
    latest,     \* the latest round of the ledger
    announced   \* the rounds up to here were announced as stored durably

vars == <<latest, announced>>

Init == latest = 0 /\ announced = 0

Append == latest' = latest + 1 /\ UNCHANGED announced

Announce == announced' \in announced + 1 .. latest /\ UNCHANGED latest

Crash == latest' \in announced .. latest /\ announced' \in announced .. latest'

Next == Append \/ Announce \/ Crash

Spec == Init /\ [][Next]_vars
=============================================================================
