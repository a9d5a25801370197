------------------------------ MODULE SessionMutex ------------------------------
(***************************************************************************)
(* What `with session_store.lock_for_task(task_id):` is meant to promise:  *)
(* the lock is taken by a caller only while it is free, and only who is    *)
(* inside gives it up, by leaving.  That a lock is taken (a file on disk)  *)
(* and that somebody is inside (a thread in the body of the with           *)
(* statement) are two things, and the promise is that they go together.    *)
(* SessionLock (a lock file, a stale timeout, a polling loop) is shown to  *)
(* implement this specification as long as no holder dies and every holder *)
(* is faster than the stale timeout.                                       *)
(***************************************************************************)
CONSTANT Proc   \* the callers of lock_for_task, threads or operating-system processes

VARIABLES
  taken,    \* whether the lock counts as taken
  inside    \* the callers in the body of the with statement

Init == taken = FALSE /\ inside = {}

Acquire(p) ==
  /\ ~taken
  /\ taken' = TRUE
  /\ inside' = inside \cup {p}

Release(p) ==
  /\ p \in inside
  /\ taken' = FALSE
  /\ inside' = inside \ {p}

Next == \E p \in Proc : Acquire(p) \/ Release(p)

Spec == Init /\ [][Next]_<<taken, inside>>
=============================================================================
