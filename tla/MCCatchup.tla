---------------------------- MODULE MCCatchup ----------------------------
(* Small instance of Catchup. *)
EXTENDS Catchup
====
