--------------------------- MODULE MCPersistence ---------------------------
(* Instances of Persistence.                                               *)
EXTENDS Persistence, TLC

\* Shutdown and what follows it are the subject of another instance.
NotShutDown == ~quit

Renamings == Permutations(Values) \cup Permutations(Points)
=============================================================================
