------------------------------- MODULE SessionLock -------------------------------
(***************************************************************************)
(* session/session_lock.py: a lock file created with O_CREAT|O_EXCL, a     *)
(* polling loop with a deadline, and the removal of a file whose           *)
(* modification time is too old.                                           *)
(*                                                                         *)
(* Every file operation is a step of its own: another caller can run       *)
(* between the stat and the unlink of _remove_if_stale, and between any    *)
(* two rounds of the loop.  Time is counted in ticks, and only ages and    *)
(* remaining waiting times are kept, so that it needs no bound: an age     *)
(* saturates just above StaleAfter, where the code no longer tells ages    *)
(* apart.                                                                  *)
(***************************************************************************)
EXTENDS Integers

CONSTANTS
  Proc,           \* callers of SessionLock on the same task, in any process
  Free,           \* the lock file does not exist
  StaleAfter,     \* stale_seconds, in ticks
  Timeout,        \* timeout_seconds, in ticks
  HoldersPrompt,  \* TRUE: no live caller holds the lock longer than StaleAfter
  MaxCrashes      \* how many callers may die waiting or holding

ASSUME LockAssumption ==
  /\ Free \notin Proc
  /\ StaleAfter \in Nat
  /\ Timeout \in Nat
  /\ HoldersPrompt \in BOOLEAN
  /\ MaxCrashes \in Nat

VARIABLES
  pc,       \* pc[p]: where caller p is in __enter__ / __exit__
  file,     \* the caller whose pid is in the lock file, or Free
  age,      \* ticks since the file's modification time
  left,     \* left[p]: ticks before p's deadline
  held,     \* held[p]: ticks since p acquired the lock
  crashes   \* callers that died so far

vars == <<pc, file, age, left, held, crashes>>

Stages == {"idle", "create", "stat", "unlink", "deadline", "hold"}

Ages == 0 .. StaleAfter + 1

Older(n) == IF n > StaleAfter THEN n ELSE n + 1

Waiting(p) == pc[p] \in {"create", "stat", "unlink", "deadline"}

Holds(p) == pc[p] = "hold"

TypeOK ==
  /\ pc \in [Proc -> Stages]
  /\ file \in Proc \cup {Free}
  /\ age \in Ages
  /\ left \in [Proc -> 0 .. Timeout]
  /\ held \in [Proc -> Ages]
  /\ crashes \in 0 .. MaxCrashes

Init ==
  /\ pc = [p \in Proc |-> "idle"]
  /\ file = Free
  /\ age = 0
  /\ left = [p \in Proc |-> 0]
  /\ held = [p \in Proc |-> 0]
  /\ crashes = 0

\* __enter__: the deadline is fixed and the loop entered.
Enter(p) ==
  /\ pc[p] = "idle"
  /\ pc' = [pc EXCEPT ![p] = "create"]
  /\ left' = [left EXCEPT ![p] = Timeout]
  /\ UNCHANGED <<file, age, held, crashes>>

\* Mutant of Create: the file is opened without O_EXCL.
CreateNotExclusive(p) ==
  /\ pc[p] = "create"
  /\ file' = p
  /\ age' = 0
  /\ held' = [held EXCEPT ![p] = 0]
  /\ pc' = [pc EXCEPT ![p] = "hold"]
  /\ UNCHANGED <<left, crashes>>

\* os.open(O_CREAT | O_EXCL) succeeds: the file is p's, and p returns from
\* __enter__ with _acquired set.
Create(p) ==
  /\ pc[p] = "create"
  /\ file = Free
  /\ file' = p
  /\ age' = 0
  /\ held' = [held EXCEPT ![p] = 0]
  /\ pc' = [pc EXCEPT ![p] = "hold"]
  /\ UNCHANGED <<left, crashes>>

\* Mutant of CreateFails: the deadline is computed inside the loop.
CreateFailsNewDeadline(p) ==
  /\ pc[p] = "create"
  /\ file # Free
  /\ pc' = [pc EXCEPT ![p] = "stat"]
  /\ left' = [left EXCEPT ![p] = Timeout]
  /\ UNCHANGED <<file, age, held, crashes>>

\* os.open fails with EEXIST.
CreateFails(p) ==
  /\ pc[p] = "create"
  /\ file # Free
  /\ pc' = [pc EXCEPT ![p] = "stat"]
  /\ UNCHANGED <<file, age, left, held, crashes>>

\* Mutant of StaleSeen: >= instead of >.
StaleSeenOneTickEarly == file # Free /\ age >= StaleAfter

\* _remove_if_stale reads the modification time of whatever file is there;
\* FileNotFoundError is swallowed.
StaleSeen == file # Free /\ age > StaleAfter

Stat(p) ==
  /\ pc[p] = "stat"
  /\ pc' = [pc EXCEPT ![p] = IF StaleSeen THEN "unlink" ELSE "deadline"]
  /\ UNCHANGED <<file, age, left, held, crashes>>

\* Mutant of UnlinkStale: the failure of the unlink is swallowed as well.
UnlinkStaleSwallowed(p) ==
  /\ pc[p] = "unlink"
  /\ pc' = [pc EXCEPT ![p] = "deadline"]
  /\ UNCHANGED <<file, age, left, held, crashes>>

\* The unlink goes by path, with missing_ok: it removes whatever file is
\* there now, which need not be the one that was looked at.
UnlinkStale(p) ==
  /\ pc[p] = "unlink"
  /\ file' = Free
  /\ age' = 0
  /\ pc' = [pc EXCEPT ![p] = "deadline"]
  /\ UNCHANGED <<left, held, crashes>>

\* Mutant of GiveUp: a caller that never acquired the lock cleans up after it.
GiveUpUnlinks(p) ==
  /\ pc[p] = "deadline"
  /\ left[p] = 0
  /\ file' = Free
  /\ age' = 0
  /\ pc' = [pc EXCEPT ![p] = "idle"]
  /\ UNCHANGED <<left, held, crashes>>

\* time.monotonic() >= deadline: SessionLockTimeout.
GiveUp(p) ==
  /\ pc[p] = "deadline"
  /\ left[p] = 0
  /\ pc' = [pc EXCEPT ![p] = "idle"]
  /\ UNCHANGED <<file, age, left, held, crashes>>

\* Otherwise sleep(poll_seconds) and try again.
Poll(p) ==
  /\ pc[p] = "deadline"
  /\ left[p] > 0
  /\ pc' = [pc EXCEPT ![p] = "create"]
  /\ UNCHANGED <<file, age, left, held, crashes>>

\* __exit__ unlinks by path too: it does not look whose file it is.
Exit(p) ==
  /\ Holds(p)
  /\ file' = Free
  /\ age' = 0
  /\ pc' = [pc EXCEPT ![p] = "idle"]
  /\ UNCHANGED <<left, held, crashes>>

\* The process of p dies (and may be restarted later): the file stays.
Crash(p) ==
  /\ pc[p] # "idle"
  /\ crashes < MaxCrashes
  /\ crashes' = crashes + 1
  /\ pc' = [pc EXCEPT ![p] = "idle"]
  /\ UNCHANGED <<file, age, left, held>>

\* Mutant of Tick: the remaining time runs below zero.
TickPastDeadline ==
  /\ HoldersPrompt => \A p \in Proc : Holds(p) => held[p] < StaleAfter
  /\ age' = IF file = Free THEN age ELSE Older(age)
  /\ left' = [p \in Proc |-> left[p] - 1]
  /\ held' = [p \in Proc |-> IF Holds(p) THEN Older(held[p]) ELSE held[p]]
  /\ UNCHANGED <<pc, file, crashes>>

\* One tick of both clocks.  With HoldersPrompt, a live holder leaves before
\* its file would look stale.
Tick ==
  /\ HoldersPrompt => \A p \in Proc : Holds(p) => held[p] < StaleAfter
  /\ age' = IF file = Free THEN age ELSE Older(age)
  /\ left' = [p \in Proc |-> IF left[p] > 0 THEN left[p] - 1 ELSE 0]
  /\ held' = [p \in Proc |-> IF Holds(p) THEN Older(held[p]) ELSE held[p]]
  /\ UNCHANGED <<pc, file, crashes>>

Try(p) == Create(p) \/ CreateFails(p)

RemoveIfStale(p) == Stat(p) \/ UnlinkStale(p)

Step(p) == Try(p) \/ RemoveIfStale(p) \/ GiveUp(p) \/ Poll(p) \/ Exit(p)

Next == (\E p \in Proc : Enter(p) \/ Step(p) \/ Crash(p)) \/ Tick

Spec == Init /\ [][Next]_vars

\* The loop and the body of the with statement keep running, and time passes.
FairSpec == Spec /\ WF_vars(Tick) /\ \A p \in Proc : WF_vars(Step(p))

\* In addition the upstream keeps sending events for the task.
RetrySpec == FairSpec /\ \A p \in Proc : WF_vars(Enter(p))

-----------------------------------------------------------------------------
(* Safety *)

\* No two callers are inside `with SessionLock(...)` for the same task
\* (README: the session concurrency lock).
MutualExclusion == \A p, q \in Proc : Holds(p) /\ Holds(q) => p = q

\* A caller inside the lock still has its own file on disk: nobody's stale
\* check and nobody's __exit__ removed or replaced it.
HolderKeepsFile == \A p \in Proc : Holds(p) => file = p

\* The strengthening of the two properties above that every step preserves
\* when no caller dies and holders are prompt: the file is there exactly while
\* its creator holds the lock, its age is the time its creator has held it,
\* and so no caller ever finds it stale.
LockInv ==
  /\ \A p \in Proc : Holds(p) <=> file = p
  /\ \A p \in Proc : Holds(p) => held[p] = age /\ age <= StaleAfter
  /\ \A p \in Proc : pc[p] # "unlink"

\* The abstract lock: it is taken while the file is there, and inside are the
\* callers that hold it, whatever the file says.
Mutex == INSTANCE SessionMutex WITH
           taken  <- file # Free,
           inside <- {p \in Proc : Holds(p)}

\* The file appears only when a caller enters and disappears only when the caller
\* inside leaves: no stale check and no __exit__ takes the lock from another one.
MutexSpec == Mutex!Spec

-----------------------------------------------------------------------------
(* Liveness *)

\* Every __enter__ ends, with the lock or with SessionLockTimeout, even if the
\* holder died or others keep taking the lock first.
EnterEnds == \A p \in Proc : Waiting(p) ~> ~Waiting(p)

\* The lock file a dead caller left behind does not block its task for ever:
\* as long as events keep coming, some caller removes it or takes it over.
OrphanFile == \E p \in Proc : file = p /\ ~Holds(p)
OrphanReclaimed == OrphanFile ~> ~OrphanFile
=============================================================================
