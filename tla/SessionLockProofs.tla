---------------------------- MODULE SessionLockProofs ----------------------------
(***************************************************************************)
(* What holds of SessionLock for every set of callers and all timeouts.    *)
(***************************************************************************)
EXTENDS SessionLock, TLAPS

\* The state of the lock file, of every caller and of the clocks stays in
\* its type whatever happens: deaths, slow holders, late unlinks.
THEOREM TypeCorrect == Spec => []TypeOK
<1>1. Init => TypeOK
  BY LockAssumption DEF Init, TypeOK, Stages, Ages
<1>2. TypeOK /\ [Next]_vars => TypeOK'
  <2> SUFFICES ASSUME TypeOK, [Next]_vars PROVE TypeOK'
    OBVIOUS
  <2> USE LockAssumption DEF TypeOK, Stages, Ages
  <2>1. ASSUME NEW p \in Proc, Enter(p) PROVE TypeOK'
    BY <2>1 DEF Enter
  <2>2. ASSUME NEW p \in Proc, Try(p) PROVE TypeOK'
    BY <2>2 DEF Try, Create, CreateFails
  <2>3. ASSUME NEW p \in Proc, RemoveIfStale(p) PROVE TypeOK'
    BY <2>3 DEF RemoveIfStale, Stat, UnlinkStale
  <2>4. ASSUME NEW p \in Proc, GiveUp(p) \/ Poll(p) \/ Exit(p) PROVE TypeOK'
    BY <2>4 DEF GiveUp, Poll, Exit
  <2>5. ASSUME NEW p \in Proc, Crash(p) PROVE TypeOK'
    BY <2>5 DEF Crash
  <2>6. CASE Tick
    BY <2>6 DEF Tick, Older
  <2>7. CASE UNCHANGED vars
    BY <2>7 DEF vars
  <2> QED
    BY <2>1, <2>2, <2>3, <2>4, <2>5, <2>6, <2>7 DEF Next, Step
<1> QED
  BY <1>1, <1>2, PTL DEF Spec

\* The environment the lock relies on: nobody dies inside it and everybody
\* leaves it before its file looks stale.
Benign == HoldersPrompt /\ MaxCrashes = 0

\* In that environment LockInv is inductive (relative to the types).
LEMMA LockInvInit == Init => LockInv
  BY LockAssumption DEF Init, LockInv, Holds

\* Every step preserves the invariant.
LEMMA LockInvStep ==
  ASSUME Benign, TypeOK, LockInv, [Next]_vars
  PROVE  LockInv'
<1> USE LockAssumption DEF TypeOK, Stages, Ages, LockInv, Holds
<1>1. ASSUME NEW p \in Proc, Enter(p) PROVE LockInv'
  BY <1>1 DEF Enter
<1>2. ASSUME NEW p \in Proc, Try(p) PROVE LockInv'
  BY <1>2 DEF Try, Create, CreateFails
<1>3. ASSUME NEW p \in Proc, Stat(p) PROVE LockInv'
  \* A file on disk has a live owner, and so is at most StaleAfter old.
  <2>1. ~StaleSeen
    BY DEF StaleSeen
  <2> QED
    BY <1>3, <2>1 DEF Stat
<1>4. ASSUME NEW p \in Proc, UnlinkStale(p) PROVE LockInv'
  BY <1>4 DEF UnlinkStale
<1>5. ASSUME NEW p \in Proc, GiveUp(p) \/ Poll(p) PROVE LockInv'
  BY <1>5 DEF GiveUp, Poll
<1>6. ASSUME NEW p \in Proc, Exit(p) PROVE LockInv'
  BY <1>6 DEF Exit
<1>7. ASSUME NEW p \in Proc, Crash(p) PROVE LockInv'
  BY <1>7 DEF Crash, Benign
<1>8. CASE Tick
  BY <1>8 DEF Tick, Older, Benign
<1>9. CASE UNCHANGED vars
  BY <1>9 DEF vars
<1> QED
  BY <1>1, <1>2, <1>3, <1>4, <1>5, <1>6, <1>7, <1>8, <1>9
     DEF Next, Step, RemoveIfStale

\* The lock file belongs to its only holder and is as old as the time it was held: nobody
\* can find it stale, so nobody is about to unlink it.
THEOREM LockInvariant == Benign => (Spec => []LockInv)
<1> SUFFICES ASSUME Benign PROVE Spec => []LockInv
  OBVIOUS
<1>1. TypeOK /\ LockInv /\ [Next]_vars => LockInv'
  BY LockInvStep
<1> QED
  BY LockInvInit, <1>1, TypeCorrect, PTL DEF Spec

\* No two callers are ever inside the lock of the same task, provided nobody
\* dies inside it and every holder is faster than the stale timeout
\* (both are needed: one death, or one slow holder, breaks it).
THEOREM Exclusion == Benign => (Spec => []MutualExclusion)
<1>1. LockInv => MutualExclusion
  BY DEF LockInv, MutualExclusion
<1> QED
  BY <1>1, LockInvariant, PTL

\* In the same environment nobody removes or replaces the file of a holder.
THEOREM FileKept == Benign => (Spec => []HolderKeepsFile)
<1>1. LockInv => HolderKeepsFile
  BY DEF LockInv, HolderKeepsFile
<1> QED
  BY <1>1, LockInvariant, PTL

\* The callers inside the lock.
inside == {p \in Proc : Holds(p)}

\* In the same environment the lock file protocol implements the abstract
\* lock: the file is created by the caller that enters, and it is removed by the
\* caller that is inside when it leaves, and by nobody else.
THEOREM Refinement == Benign => (Spec => MutexSpec)
<1> SUFFICES ASSUME Benign PROVE Spec => MutexSpec
  OBVIOUS
<1>1. Init => Mutex!Init
  BY DEF Init, Mutex!Init, Holds
<1>2. TypeOK /\ LockInv /\ [Next]_vars => [Mutex!Next]_<<file # Free, inside>>
  <2> SUFFICES ASSUME TypeOK, LockInv, [Next]_vars
               PROVE  Mutex!Next \/ UNCHANGED <<file # Free, inside>>
    OBVIOUS
  <2> USE LockAssumption DEF TypeOK, Holds, inside
  <2>1. ASSUME NEW p \in Proc, Create(p) PROVE Mutex!Acquire(p)
    \* There was no file, so nobody was inside.
    <3>1. \A q \in Proc : pc'[q] = "hold" <=> pc[q] = "hold" \/ q = p
      BY <2>1 DEF Create
    <3> QED
      BY <2>1, <3>1 DEF Create, Mutex!Acquire
  <2>2. ASSUME NEW p \in Proc, Exit(p) PROVE Mutex!Release(p)
    <3>1. \A q \in Proc : pc'[q] = "hold" <=> pc[q] = "hold" /\ q # p
      BY <2>2 DEF Exit
    <3> QED
      BY <2>2, <3>1 DEF Exit, Mutex!Release
  <2>3. ASSUME NEW p \in Proc,
               Enter(p) \/ CreateFails(p) \/ Stat(p) \/ GiveUp(p) \/ Poll(p)
        PROVE  UNCHANGED <<file # Free, inside>>
    <3>1. file' = file /\ \A q \in Proc : pc'[q] = "hold" <=> pc[q] = "hold"
      BY <2>3 DEF Enter, CreateFails, Stat, GiveUp, Poll
    <3> QED
      BY <3>1
  <2>4. ASSUME NEW p \in Proc PROVE ~UnlinkStale(p) /\ ~Crash(p)
    \* Nobody has found a holder's file stale, and nobody dies.
    BY DEF UnlinkStale, Crash, LockInv, Benign
  <2>5. CASE Tick \/ UNCHANGED vars
    BY <2>5 DEF Tick, vars
  <2> QED
    BY <2>1, <2>2, <2>3, <2>4, <2>5 DEF Next, Step, Try, RemoveIfStale, Mutex!Next
<1> QED
  BY <1>1, <1>2, TypeCorrect, LockInvariant, PTL DEF Spec, MutexSpec, Mutex!Spec, inside
=============================================================================
