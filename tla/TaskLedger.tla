------------------------------- MODULE TaskLedger -------------------------------
(***************************************************************************)
(* What the files of a task are meant to record of its failures: each is   *)
(* given the next attempt number, once; a result is filed only for an      *)
(* attempt some failure was given; and nothing that was recorded is ever   *)
(* taken back.  RepairService, where calls save whole sessions over each   *)
(* other and may die between any two writes, is shown to implement it as   *)
(* long as two failures are not handled at once.                           *)
(***************************************************************************)
EXTENDS Naturals

CONSTANT Failure   \* the FAILED events of the task

VARIABLES
  count,       \* attempt numbers given out: attempt_ids of the session
  attemptOf,   \* the attempt of each failure, 0 for none: attempt_id of its record
  filed        \* the attempts with an external_result.json

Init == count = 0 /\ attemptOf = [e \in Failure |-> 0] /\ filed = {}

\* A failure is given its attempt.
Open(e) ==
  /\ attemptOf[e] = 0
  /\ count' = count + 1
  /\ attemptOf' = [attemptOf EXCEPT ![e] = count + 1]
  /\ UNCHANGED filed

\* The first result of the attempt of a failure.
File(e) ==
  /\ attemptOf[e] \notin filed \cup {0}
  /\ filed' = filed \cup {attemptOf[e]}
  /\ UNCHANGED <<count, attemptOf>>

Next == \E e \in Failure : Open(e) \/ File(e)

Spec == Init /\ [][Next]_<<count, attemptOf, filed>>
=============================================================================
