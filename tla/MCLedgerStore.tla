---------------------------- MODULE MCLedgerStore ----------------------------
(* An instance of LedgerStore for TLC: up to four rounds, the second of      *)
(* which starts a new consensus version; the account is created, changed     *)
(* and closed.                                                               *)
EXTENDS LedgerStore

Histories == {<<"keep", "set", "close", "keep">>, <<"set", "set", "keep">>}
=============================================================================
