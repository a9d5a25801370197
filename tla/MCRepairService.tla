---------------------------- MODULE MCRepairService ----------------------------
(***************************************************************************)
(* TLC instances of RepairService.  f1, g1 and bare fail the SQL the       *)
(* upstream started with, s0 (bare without log or error message); f2 and   *)
(* ok report on s1, which only the agent can have proposed.                *)
(***************************************************************************)
EXTENDS RepairService, TLC

CONSTANTS f1, g1, f2, bare, ok, s0, s1, w1, w2, w3, p1

MCSqlOf == [e \in Event |-> IF e \in {f1, g1, bare} THEN s0 ELSE s1]

\* Nothing in any SQL looks like a secret; or s1 ends in a password, and its
\* file is no JSON any more.
Unredacted == [s \in Sql |-> s]
RedactsPassword == [s \in Sql |-> IF s = s1 THEN NoSql ELSE s]

OneProcess == [w \in Worker |-> p1]

\* Threads of one process, and events that report on the same SQL, can be
\* exchanged.
Interchangeable == Permutations(Worker) \cup Permutations(FailedEvent)
=============================================================================
