------------------------------ MODULE RepairService ------------------------------
(***************************************************************************)
(* orchestrator/repair_agent_service.py with session/session_store.py and  *)
(* agent/gates/candidate_committer.py: how FAILED and SUCCESS events of    *)
(* one task become attempts, candidates, confirmations and answers.        *)
(*                                                                         *)
(* Every write of a file (session.json, attempts/<id>.json, the external   *)
(* result of an attempt) is a step of its own, so that another worker can  *)
(* run, or the process can die, between any two of them.  session.json is  *)
(* always written whole, from the copy the call holds in memory: mem.      *)
(* The agent run between the two critical sections writes none of these    *)
(* files; its outcome is a nondeterministic choice (see AgentRun and       *)
(* CandidateGates).  The lock is the file of SessionLock without its       *)
(* clock: a live holder is faster than the stale timeout, and the file a   *)
(* dead one left behind may be found stale at any time.                    *)
(***************************************************************************)
EXTENDS Naturals

CONSTANTS
  Worker,        \* threads that call handle_upstream_event
  Process,       \* operating-system processes
  ProcessOf,     \* the process a worker runs in
  FailedEvent,   \* event keys of FAILED events of the task
  SuccessEvent,  \* event keys of SUCCESS events of the task
  NoEvidence,    \* FAILED events with neither log_path nor error_message
  Sql,           \* SQL texts
  SqlOf,         \* the SQL an event reports on
  Original,      \* SQL the upstream has without having been given it
  Redact,        \* what PersistenceSanitizer makes of an SQL, NoSql if no JSON is left
  MaxAttempts,   \* bound on attempt numbers
  MaxCalls,      \* bound on the calls the upstream makes
  MaxCrashes,    \* bound on process deaths
  MaxFaults,     \* bound on file operations that fail
  NoSql, NoEvent, Free, Orphan   \* absent values and lock states

Event == FailedEvent \cup SuccessEvent

ASSUME ServiceAssumption ==
  /\ ProcessOf \in [Worker -> Process]
  /\ SqlOf \in [Event -> Sql]
  /\ NoEvidence \subseteq FailedEvent
  /\ FailedEvent \cap SuccessEvent = {}
  /\ Original \subseteq Sql
  /\ Redact \in [Sql -> Sql \cup {NoSql}]
  /\ NoSql \notin Sql /\ NoEvent \notin Event
  /\ Free \notin Worker /\ Orphan \notin Worker /\ Free # Orphan
  /\ MaxAttempts \in Nat /\ MaxCalls \in Nat
  /\ MaxCrashes \in Nat /\ MaxFaults \in Nat

VARIABLES
  session,     \* session.json
  attempts,    \* attempts/attempt_<n>.json
  results,     \* external_result.json of attempt n
  memory,      \* success experiences written: <<attempt, confirmed SQL>>
  lock,        \* the lock file of the task: who created it, or Free, or Orphan
  inside,      \* the workers whose SessionLock is _acquired
  look,        \* look[w]: what w, waiting for the lock, knows of the lock file
  active,      \* active[p]: _active_event_keys of process p
  call,        \* call[w]: the call worker w is executing
  answers,     \* history: what callers were answered, per event
  approved,    \* history: <<event, SQL>> the gates approved in a run
  reported,    \* history: the events the upstream has sent
  calls,       \* calls made so far
  crashes,     \* process deaths so far
  faults       \* failed file operations so far

files == <<session, attempts, results>>
mutex == <<lock, inside, look>>
history == <<approved, reported, calls, crashes, faults>>
vars == <<files, memory, mutex, active, call, answers, history>>

-----------------------------------------------------------------------------
(* Data *)

AttemptNo == 1 .. MaxAttempts

AttemptStatus == {"ABSENT", "CREATED", "SQL_READY", "HUMAN_REQUIRED", "VALIDATION_BLOCKED",
                  "REFLECTION_BLOCKED", "UPSTREAM_FAILED", "UPSTREAM_CONFIRMED_SUCCESS"}

\* RepairAttempt.  The stage references are left out: they are only saved
\* together with a terminal status.
Attempt == [no : 0 .. MaxAttempts, status : AttemptStatus, key : FailedEvent \cup {NoEvent},
            sql : Sql \cup {NoSql}]

NoAttempt == [no |-> 0, status |-> "ABSENT", key |-> NoEvent, sql |-> NoSql]

\* UpstreamTaskEventRecord.  ref is the attempt whose external_result.json
\* result_ref names, 0 for none.
Record == [status : {"ABSENT", "RECEIVED", "PROCESSING", "SUCCEEDED", "SYSTEM_ERROR"},
           attempt : 0 .. MaxAttempts, ref : 0 .. MaxAttempts,
           error : {"NONE", "UNMATCHED", "DEGRADED", "RECOVERY"}]

NoRecord == [status |-> "ABSENT", attempt |-> 0, ref |-> 0, error |-> "NONE"]

Received == [NoRecord EXCEPT !.status = "RECEIVED"]

\* RepairSession.  attempt_ids is always attempt_001 .. attempt_<count>.  A
\* session that was not created yet is indistinguishable from a new one.
Session == [status : {"CREATED", "RUNNING", "SQL_READY_PENDING_UPSTREAM", "HUMAN_REQUIRED",
                      "UPSTREAM_CONFIRMED_SUCCESS"},
            sql : Sql \cup {NoSql}, sqlAttempt : 0 .. MaxAttempts, confirmed : 0 .. MaxAttempts,
            confirmedSql : Sql \cup {NoSql}, count : 0 .. MaxAttempts, events : [Event -> Record]]

NewSession == [status |-> "CREATED", sql |-> NoSql, sqlAttempt |-> 0, confirmed |-> 0,
               confirmedSql |-> NoSql, count |-> 0, events |-> [e \in Event |-> NoRecord]]

\* AgentExternalResult.  BUSY stands for the HUMAN_REQUIRED answers that only
\* ask the caller to retry (event or session in progress).  RAISES is a file that
\* cannot be read, and the exception a caller gets when it is.
Result == [status : {"NONE", "SQL_READY", "NO_SQL", "HUMAN_REQUIRED", "BUSY", "SUCCESS_ACK",
                     "RAISES"},
           sql : Sql \cup {NoSql}]

SqlReady(s) == [status |-> "SQL_READY", sql |-> s]
Plain(status) == [status |-> status, sql |-> NoSql]
NoResult == Plain("NONE")
Human == Plain("HUMAN_REQUIRED")
Busy == Plain("BUSY")
Ack == Plain("SUCCESS_ACK")
Unreadable == Plain("RAISES")

\* What a waiting caller knows of the lock file: nothing; it was stale when it
\* looked, and it is about to unlink it; it has just done so.
Look == {"nothing", "stale", "removed"}

Label == {"idle", "lock", "find", "match", "create", "link", "begin", "unsafe", "input",
          "previous", "run", "stop", "human", "human_session", "commit", "commit_session",
          "commit_done", "discard", "persist", "finish", "confirm", "memory", "finish_lock",
          "finish_success", "degrade_lock", "degrade"}

\* guarded: an exception is caught in _handle_failed_event.  kept: while a
\* commit is under way, the session copy the handler goes back to if it fails.
\* prev: the previous attempt, between its load and its save.
Call == [pc : Label, job : Event \cup {NoEvent}, mem : Session, att : Attempt, ret : Result,
         guarded : BOOLEAN, kept : Session, prev : Attempt]

IdleCall == [pc |-> "idle", job |-> NoEvent, mem |-> NewSession, att |-> NoAttempt,
             ret |-> NoResult, guarded |-> FALSE, kept |-> NewSession, prev |-> NoAttempt]

TypeOK ==
  /\ session \in Session
  /\ attempts \in [AttemptNo -> Attempt]
  /\ results \in [AttemptNo -> Result]
  /\ memory \subseteq AttemptNo \X Sql
  /\ lock \in Worker \cup {Free, Orphan}
  /\ inside \subseteq Worker
  /\ look \in [Worker -> Look]
  /\ active \in [Process -> SUBSET Event]
  /\ call \in [Worker -> Call]
  /\ answers \in [Event -> SUBSET Result]
  /\ approved \subseteq Event \X Sql
  /\ reported \subseteq Event
  /\ calls \in 0 .. MaxCalls
  /\ crashes \in 0 .. MaxCrashes
  /\ faults \in 0 .. MaxFaults

Init ==
  /\ session = NewSession
  /\ attempts = [n \in AttemptNo |-> NoAttempt]
  /\ results = [n \in AttemptNo |-> NoResult]
  /\ memory = {}
  /\ lock = Free
  /\ inside = {}
  /\ look = [w \in Worker |-> "nothing"]
  /\ active = [p \in Process |-> {}]
  /\ call = [w \in Worker |-> IdleCall]
  /\ answers = [e \in Event |-> {}]
  /\ approved = {}
  /\ reported = {}
  /\ calls = 0
  /\ crashes = 0
  /\ faults = 0

-----------------------------------------------------------------------------
(* Helpers *)

At(w, l) == call[w].pc = l

\* A commit works on a new copy of the session; the old one is dropped
\* when it is done.
Kept(w, l) ==
  CASE l = "commit_session" -> call[w].mem
    [] l = "commit_done"    -> call[w].kept
    [] OTHER                -> NewSession

WithStatus(a, st) == [a EXCEPT !.status = st]

\* The attempt of the session's candidate, loaded and marked in memory.
Marking(w, l) ==
  IF l = "previous" THEN WithStatus(attempts[call[w].mem.sqlAttempt], "UPSTREAM_FAILED")
  ELSE NoAttempt

\* The call goes on at label l with session copy m, attempt copy a and the
\* result r it is about to persist; the try block begins with the run.
Continue(w, l, m, a, r) ==
  call' = [call EXCEPT ![w] = [pc |-> l, job |-> call[w].job, mem |-> m, att |-> a, ret |-> r,
                               guarded |-> call[w].guarded \/ l = "run", kept |-> Kept(w, l),
                               prev |-> Marking(w, l)]]

Goto(w, l) == Continue(w, l, call[w].mem, call[w].att, call[w].ret)

\* The except clauses of the run: _human for the session copy m, and nobody
\* catches what it raises.
Rescue(w, m) ==
  call' = [call EXCEPT ![w] = [@ EXCEPT !.pc = "human", !.mem = m, !.guarded = FALSE,
                                        !.kept = NewSession]]

\* os.open creates the lock file, and the caller is inside.
CanLock(w) == lock = Free /\ look[w] # "stale"

TakeLock(w) ==
  /\ lock' = w
  /\ inside' = inside \cup {w}
  /\ look' = [look EXCEPT ![w] = "nothing"]

\* The last os.open of the wait found a file, which may have been removed since by
\* the caller itself.
CannotLock(w) == (lock # Free /\ look[w] # "stale") \/ look[w] = "removed"

\* __exit__, if __enter__ was left with the lock: it unlinks whatever file is
\* there.  A caller that gives up waiting leaves the file alone.
ReleaseLock(w) ==
  /\ lock' = IF w \in inside THEN Free ELSE lock
  /\ inside' = inside \ {w}
  /\ look' = [look EXCEPT ![w] = "nothing"]

\* handle_upstream_event returns r to its caller.
Answer(w, r) ==
  /\ call' = [call EXCEPT ![w] = IdleCall]
  /\ answers' = [answers EXCEPT ![call[w].job] = @ \cup {r}]
  /\ ReleaseLock(w)

\* find_event(session, event_key), its presence, and the attempt it names.
RecordOf(s, e) == s.events[e]
Recorded(s, e) == RecordOf(s, e).status # "ABSENT"

PutRecord(s, e, r) == [s EXCEPT !.events = [@ EXCEPT ![e] = r]]

\* finish_event on the session copy s (the caller saves it).
FinishEvent(s, e, status, ref, error) ==
  PutRecord(s, e, [RecordOf(s, e) EXCEPT !.status = status, !.ref = ref, !.error = error])

Mem(w) == call[w].mem
Job(w) == call[w].job
Att(w) == call[w].att
Own(w) == RecordOf(Mem(w), Job(w))

Delivered == {r.sql : r \in {q \in UNION {answers[e] : e \in Event} : q.status = "SQL_READY"}}

-----------------------------------------------------------------------------
(* Entering the session *)

\* The upstream reports an event, for the first time or again.  It can only
\* report on SQL it had or was given.
Submit(w, e) ==
  /\ At(w, "idle")
  /\ calls < MaxCalls
  /\ SqlOf[e] \in Original \cup Delivered
  /\ calls' = calls + 1
  /\ reported' = reported \cup {e}
  /\ call' = [call EXCEPT ![w] = [IdleCall EXCEPT !.pc = "lock", !.job = e]]
  /\ UNCHANGED <<files, memory, mutex, active, answers, approved, crashes, faults>>

\* lock_for_task succeeds and load_or_create_for_event reads session.json.
LockAndLoad(w, from, to) ==
  /\ At(w, from)
  /\ CanLock(w)
  /\ TakeLock(w)
  /\ Continue(w, to, session, Att(w), call[w].ret)
  /\ UNCHANGED <<files, memory, active, answers, history>>

EnterSession(w) == LockAndLoad(w, "lock", "find")

Waits(w) == call[w].pc \in {"lock", "commit", "finish_lock", "degrade_lock"}

\* _remove_if_stale of a waiting caller sees that the file is too old ...
FindStale(w) ==
  /\ Waits(w)
  /\ lock = Orphan
  /\ look[w] # "stale"
  /\ look' = [look EXCEPT ![w] = "stale"]
  /\ UNCHANGED <<files, memory, lock, inside, active, call, answers, history>>

\* ... and unlinks the file that is there by then, which may be the lock another
\* caller has taken since.
RemoveStale(w) ==
  /\ Waits(w)
  /\ look[w] = "stale"
  /\ lock' = Free
  /\ look' = [look EXCEPT ![w] = "removed"]
  /\ UNCHANGED <<files, memory, inside, active, call, answers, history>>

\* SessionLockTimeout in the first critical section.
LockTimeout(w) ==
  /\ At(w, "lock")
  /\ CannotLock(w)
  /\ Answer(w, Busy)
  /\ UNCHANGED <<files, memory, active, history>>

-----------------------------------------------------------------------------
(* FAILED: duplicates and recovery *)

FindFailed(w) == At(w, "find") /\ Job(w) \in FailedEvent

\* Mutant of Replayable: only an attempt that is still SQL_READY is replayed.
ReplayableWhileReady(w) == Own(w).ref # 0 /\ attempts[Own(w).ref].status = "SQL_READY"

Replayable(w) == Own(w).ref # 0 /\ results[Own(w).ref] # NoResult

InProgress(w) == Job(w) \in active[ProcessOf[w]]

\* _load_processed_failed_result: the stored answer is given again.
ReplayResult(w) ==
  /\ FindFailed(w)
  /\ Recorded(Mem(w), Job(w))
  /\ Replayable(w)
  /\ Answer(w, results[Own(w).ref])
  /\ UNCHANGED <<files, memory, active, history>>

\* The event is in this process's _active_event_keys.
AnswerInProgress(w) ==
  /\ FindFailed(w)
  /\ Recorded(Mem(w), Job(w))
  /\ ~Replayable(w)
  /\ InProgress(w)
  /\ Answer(w, Busy)
  /\ UNCHANGED <<files, memory, active, history>>

\* What _recover_failed_event is called for.
Recovering(w) == FindFailed(w) /\ Recorded(Mem(w), Job(w)) /\ ~Replayable(w) /\ ~InProgress(w)

\* load_attempt(session, record.attempt_id).
OnDisk(w) == attempts[Own(w).attempt]

\* The record was saved, but the attempt was not linked to it.
RecoverWithoutAttempt(w) ==
  /\ Recovering(w)
  /\ Own(w).attempt = 0
  /\ session' = FinishEvent(Mem(w), Job(w), "SYSTEM_ERROR", 0, "RECOVERY")
  /\ Answer(w, Human)
  /\ UNCHANGED <<attempts, results, memory, active, history>>

\* Mutant of RecoverEnded: the session's candidate is answered, not the attempt's.
RecoverSessionCandidate(w) ==
  /\ Recovering(w)
  /\ Own(w).attempt # 0
  /\ \/ /\ OnDisk(w).status = "SQL_READY"
        /\ OnDisk(w).sql # NoSql
        /\ Continue(w, "discard", Mem(w), OnDisk(w), SqlReady(Mem(w).sql))
     \/ /\ OnDisk(w).status \in {"HUMAN_REQUIRED", "VALIDATION_BLOCKED", "REFLECTION_BLOCKED"}
        /\ Continue(w, "discard", Mem(w), OnDisk(w), Human)
  /\ UNCHANGED <<files, memory, mutex, active, answers, history>>

\* The attempt had ended: only its external result is missing.
RecoverEnded(w) ==
  /\ Recovering(w)
  /\ Own(w).attempt # 0
  /\ \/ /\ OnDisk(w).status = "SQL_READY"
        /\ OnDisk(w).sql # NoSql
        /\ Continue(w, "discard", Mem(w), OnDisk(w), SqlReady(OnDisk(w).sql))
     \/ /\ OnDisk(w).status \in {"HUMAN_REQUIRED", "VALIDATION_BLOCKED", "REFLECTION_BLOCKED"}
        /\ Continue(w, "discard", Mem(w), OnDisk(w), Human)
  /\ UNCHANGED <<files, memory, mutex, active, answers, history>>

\* Mutant of ResumeAttempt: a retry starts a new attempt.
ResumeWithNewAttempt(w) ==
  /\ Recovering(w)
  /\ Own(w).attempt # 0
  /\ OnDisk(w).status = "CREATED"
  /\ Continue(w, "create", Mem(w), NoAttempt, NoResult)
  /\ UNCHANGED <<files, memory, mutex, active, answers, history>>

\* The attempt was created and nothing more: it is run again.
ResumeAttempt(w) ==
  /\ Recovering(w)
  /\ Own(w).attempt # 0
  /\ OnDisk(w).status = "CREATED"
  /\ Continue(w, "begin", Mem(w), OnDisk(w), NoResult)
  /\ UNCHANGED <<files, memory, mutex, active, answers, history>>

\* Any other attempt ends as HUMAN_REQUIRED / RECOVERY_PARTIAL_STATE_UNSAFE.
RecoverUnsafe(w) ==
  /\ Recovering(w)
  /\ Own(w).attempt # 0
  /\ OnDisk(w).status \in {"UPSTREAM_FAILED", "UPSTREAM_CONFIRMED_SUCCESS"}
  /\ attempts' = [attempts EXCEPT ![Own(w).attempt] = WithStatus(@, "HUMAN_REQUIRED")]
  /\ Goto(w, "unsafe")
  /\ UNCHANGED <<session, results, memory, mutex, active, answers, history>>

FinishUnsafe(w) ==
  /\ At(w, "unsafe")
  /\ session' = FinishEvent(Mem(w), Job(w), "SYSTEM_ERROR", 0, "RECOVERY")
  /\ Answer(w, Human)
  /\ UNCHANGED <<attempts, results, memory, active, history>>

-----------------------------------------------------------------------------
(* FAILED: a new event *)

\* Mutant of RecordFailed: nobody looks whether the event is known.
RecordFailedAgain(w) ==
  /\ FindFailed(w)
  /\ session' = PutRecord(Mem(w), Job(w), Received)
  /\ Continue(w, "create", session', NoAttempt, NoResult)
  /\ UNCHANGED <<attempts, results, memory, mutex, active, answers, history>>

\* create_event_record and append_upstream_event.
RecordFailed(w) ==
  /\ FindFailed(w)
  /\ ~Recorded(Mem(w), Job(w))
  /\ session' = PutRecord(Mem(w), Job(w), Received)
  /\ Continue(w, "create", session', NoAttempt, NoResult)
  /\ UNCHANGED <<attempts, results, memory, mutex, active, answers, history>>

\* create_attempt: the next attempt number, and save_attempt ...
CreateAttempt(w) ==
  LET n == Mem(w).count + 1
      a == [no |-> n, status |-> "CREATED", key |-> Job(w), sql |-> NoSql]
      r == [Own(w) EXCEPT !.status = "PROCESSING", !.attempt = n]
  IN  /\ At(w, "create")
      /\ n \in AttemptNo
      /\ attempts' = [attempts EXCEPT ![n] = a]
      /\ Continue(w, "link", [PutRecord(Mem(w), Job(w), r) EXCEPT !.count = n], a, NoResult)
      /\ UNCHANGED <<session, results, memory, mutex, active, answers, history>>

\* ... and then save_event_record.
LinkAttempt(w) ==
  /\ At(w, "link")
  /\ session' = Mem(w)
  /\ Goto(w, "begin")
  /\ UNCHANGED <<attempts, results, memory, mutex, active, answers, history>>

\* Mutant of BeginRun: the event does not become active.
BeginRunUnmarked(w) ==
  /\ At(w, "begin")
  /\ session' = [Mem(w) EXCEPT !.status = "RUNNING"]
  /\ Continue(w, "input", session', Att(w), NoResult)
  /\ ReleaseLock(w)
  /\ UNCHANGED <<attempts, results, memory, active, answers, history>>

\* The event becomes active, the session RUNNING, and the lock is released.
BeginRun(w) ==
  /\ At(w, "begin")
  /\ active' = [active EXCEPT ![ProcessOf[w]] = @ \cup {Job(w)}]
  /\ session' = [Mem(w) EXCEPT !.status = "RUNNING"]
  /\ Continue(w, "input", session', Att(w), NoResult)
  /\ ReleaseLock(w)
  /\ UNCHANGED <<attempts, results, memory, answers, history>>

-----------------------------------------------------------------------------
(* FAILED: the agent run, outside the lock *)

RejectInput(w) ==
  /\ At(w, "input")
  /\ Job(w) \in NoEvidence
  /\ Goto(w, "human")
  /\ UNCHANGED <<files, memory, mutex, active, answers, history>>

FailsCandidate(w) ==
  Job(w) \notin NoEvidence /\ Mem(w).sql = SqlOf[Job(w)] /\ Mem(w).sqlAttempt # 0

\* The event does not fail the current candidate: nothing to mark.
KeepPrevious(w) ==
  /\ At(w, "input")
  /\ Job(w) \notin NoEvidence
  /\ ~FailsCandidate(w)
  /\ Goto(w, "run")
  /\ UNCHANGED <<files, memory, mutex, active, answers, history>>

\* The event fails the current candidate: its attempt is loaded and marked
\* UPSTREAM_FAILED in memory, outside the lock ...
LoadPrevious(w) ==
  /\ At(w, "input")
  /\ FailsCandidate(w)
  /\ Goto(w, "previous")
  /\ UNCHANGED <<files, memory, mutex, active, answers, history>>

\* ... and saved, whatever has been saved there since.
SavePrevious(w) ==
  /\ At(w, "previous")
  /\ attempts' = [attempts EXCEPT ![Mem(w).sqlAttempt] = call[w].prev]
  /\ Goto(w, "run")
  /\ UNCHANGED <<session, results, memory, mutex, active, answers, history>>

\* Mutant of AgentProposes: the gates are not asked.
AgentProposesUngated(w, s) ==
  /\ At(w, "run")
  /\ Continue(w, "commit", Mem(w), [Att(w) EXCEPT !.status = "SQL_READY", !.sql = s], NoResult)
  /\ UNCHANGED <<files, memory, mutex, active, answers, history>>

\* Mutant of AgentProposes: the attempt gets the session's status.
AgentProposesSessionStatus(w, s) ==
  /\ At(w, "run")
  /\ approved' = approved \cup {<<Job(w), s>>}
  /\ Continue(w, "commit", Mem(w),
              [Att(w) EXCEPT !.status = "SQL_READY_PENDING_UPSTREAM", !.sql = s], NoResult)
  /\ UNCHANGED <<files, memory, mutex, active, answers, reported, calls, crashes, faults>>

\* AgenticFailedEventProcessor.run ends with CANDIDATE_READY.
AgentProposes(w, s) ==
  /\ At(w, "run")
  /\ approved' = approved \cup {<<Job(w), s>>}
  /\ Continue(w, "commit", Mem(w), [Att(w) EXCEPT !.status = "SQL_READY", !.sql = s], NoResult)
  /\ UNCHANGED <<files, memory, mutex, active, answers, reported, calls, crashes, faults>>

\* It ends with NO_SQL, HUMAN_REQUIRED or FAILED: save_attempt ...
AgentStops(w, st) ==
  /\ At(w, "run")
  /\ LET a == WithStatus(Att(w), st)
     IN  /\ attempts' = [attempts EXCEPT ![a.no] = a]
         /\ Continue(w, "stop", Mem(w), a,
                     IF st = "HUMAN_REQUIRED" THEN Human ELSE Plain("NO_SQL"))
  /\ UNCHANGED <<session, results, memory, mutex, active, answers, history>>

\* Mutant of StopRun: the agent is run again until it finds SQL.
StopRunRetries(w) ==
  /\ At(w, "stop")
  /\ session' = Mem(w)
  /\ Goto(w, "run")
  /\ UNCHANGED <<attempts, results, memory, mutex, active, answers, history>>

\* ... and save_session, with the copy made before the run.
StopRun(w) ==
  /\ At(w, "stop")
  /\ session' = Mem(w)
  /\ Goto(w, IF call[w].ret = Human THEN "human" ELSE "discard")
  /\ UNCHANGED <<attempts, results, memory, mutex, active, answers, history>>

\* The run raises.
AgentRaises(w) ==
  /\ At(w, "run")
  /\ Rescue(w, Mem(w))
  /\ UNCHANGED <<files, memory, mutex, active, answers, history>>

\* _human: save_attempt, then save_session with the copy in memory.
SaveHumanAttempt(w) ==
  /\ At(w, "human")
  /\ LET a == WithStatus(Att(w), "HUMAN_REQUIRED")
     IN  /\ attempts' = [attempts EXCEPT ![a.no] = a]
         /\ Continue(w, "human_session", [Mem(w) EXCEPT !.status = "HUMAN_REQUIRED"], a, Human)
  /\ UNCHANGED <<session, results, memory, mutex, active, answers, history>>

SaveHumanSession(w) ==
  /\ At(w, "human_session")
  /\ session' = Mem(w)
  /\ Goto(w, "discard")
  /\ UNCHANGED <<attempts, results, memory, mutex, active, answers, history>>

-----------------------------------------------------------------------------
(* FAILED: the second critical section *)

\* The event is still this attempt's in the session on disk.
StillOurs(w) == RecordOf(session, Att(w).key).attempt = Att(w).no

\* CandidateCommitter: only the newest attempt may commit.
NewestAttempt(w) == session.count = Att(w).no

\* SessionLockTimeout, or the ownership check of commit raises: _human runs
\* without the lock.
CommitFails(w) ==
  /\ At(w, "commit")
  /\ CannotLock(w) \/ (CanLock(w) /\ StillOurs(w) /\ ~NewestAttempt(w))
  /\ Rescue(w, Mem(w))
  /\ ReleaseLock(w)
  /\ UNCHANGED <<files, memory, active, answers, history>>

\* The event changed hands: _human runs under the lock.
CommitRefused(w) ==
  /\ At(w, "commit")
  /\ CanLock(w)
  /\ ~StillOurs(w)
  /\ TakeLock(w)
  /\ Goto(w, "human")
  /\ UNCHANGED <<files, memory, active, answers, history>>

\* Mutant of CommitAttempt: the session is written before the attempt.
CommitSessionFirst(w) ==
  /\ At(w, "commit")
  /\ CanLock(w)
  /\ StillOurs(w)
  /\ NewestAttempt(w)
  /\ TakeLock(w)
  /\ Continue(w, "commit_session",
              [session EXCEPT !.sql = Att(w).sql, !.sqlAttempt = Att(w).no,
                              !.status = "SQL_READY_PENDING_UPSTREAM"],
              Att(w), SqlReady(Att(w).sql))
  /\ UNCHANGED <<files, memory, active, answers, history>>

\* commit: save_attempt ...
CommitAttempt(w) ==
  /\ At(w, "commit")
  /\ CanLock(w)
  /\ StillOurs(w)
  /\ NewestAttempt(w)
  /\ TakeLock(w)
  /\ attempts' = [attempts EXCEPT ![Att(w).no] = Att(w)]
  /\ Continue(w, "commit_session",
              [session EXCEPT !.sql = Att(w).sql, !.sqlAttempt = Att(w).no,
                              !.status = "SQL_READY_PENDING_UPSTREAM"],
              Att(w), SqlReady(Att(w).sql))
  /\ UNCHANGED <<session, results, memory, active, answers, history>>

\* ... then save_session ...
CommitSession(w) ==
  /\ At(w, "commit_session")
  /\ session' = Mem(w)
  /\ Goto(w, "commit_done")
  /\ UNCHANGED <<attempts, results, memory, mutex, active, answers, history>>

\* ... and the attempt once more before the lock is released.
CommitDone(w) ==
  /\ At(w, "commit_done")
  /\ attempts' = [attempts EXCEPT ![Att(w).no] = Att(w)]
  /\ Goto(w, "discard")
  /\ ReleaseLock(w)
  /\ UNCHANGED <<session, results, memory, active, answers, history>>

-----------------------------------------------------------------------------
(* _persist_external_result *)

\* Mutant of DiscardActive: the result is not stored before the event is finished.
DiscardThenFinish(w) ==
  /\ At(w, "discard")
  /\ active' = [active EXCEPT ![ProcessOf[w]] = @ \ {Att(w).key}]
  /\ Goto(w, "finish")
  /\ UNCHANGED <<files, memory, mutex, answers, history>>

\* Mutant of DiscardActive: the event stays active.
DiscardNothing(w) ==
  /\ At(w, "discard")
  /\ Goto(w, "persist")
  /\ UNCHANGED <<files, memory, mutex, active, answers, history>>

\* The event stops being active before its result is stored ...
DiscardActive(w) ==
  /\ At(w, "discard")
  /\ active' = [active EXCEPT ![ProcessOf[w]] = @ \ {Att(w).key}]
  /\ Goto(w, "persist")
  /\ UNCHANGED <<files, memory, mutex, answers, history>>

\* The file that save_json leaves of a result: the sanitizer rewrites e-mail
\* addresses, tokens and passwords in its text, and what it replaces may
\* include the quote that ends the SQL.
Sanitized(r) ==
  IF r.sql = NoSql THEN r
  ELSE IF Redact[r.sql] = NoSql THEN Unreadable ELSE SqlReady(Redact[r.sql])

WriteResult(w) ==
  /\ At(w, "persist")
  /\ results' = [results EXCEPT ![Att(w).no] = Sanitized(call[w].ret)]
  /\ Goto(w, "finish")
  /\ UNCHANGED <<session, attempts, memory, mutex, active, answers, history>>

\* ... and finish_event saves the copy of the session the call holds.
FinishFailed(w) ==
  /\ At(w, "finish")
  /\ session' = IF Recorded(Mem(w), Att(w).key)
                THEN FinishEvent(Mem(w), Att(w).key, "SUCCEEDED", Att(w).no, "NONE")
                ELSE Mem(w)
  /\ Answer(w, call[w].ret)
  /\ UNCHANGED <<attempts, results, memory, active, history>>

-----------------------------------------------------------------------------
(* SUCCESS *)

FindSuccess(w) == At(w, "find") /\ Job(w) \in SuccessEvent

\* A SUCCESS that was finished before is acknowledged and nothing else.
AckDuplicate(w) ==
  /\ FindSuccess(w)
  /\ Own(w).status = "SUCCEEDED"
  /\ Answer(w, Ack)
  /\ UNCHANGED <<files, memory, active, history>>

RecordSuccess(w) ==
  /\ FindSuccess(w)
  /\ Own(w).status # "SUCCEEDED"
  /\ session' = IF Recorded(Mem(w), Job(w)) THEN session
                ELSE PutRecord(Mem(w), Job(w), Received)
  /\ Continue(w, "match", IF Recorded(Mem(w), Job(w)) THEN Mem(w) ELSE session', NoAttempt, NoResult)
  /\ UNCHANGED <<attempts, results, memory, mutex, active, answers, history>>

\* Mutant of Matches: any current candidate is confirmed.
MatchesAny(w) == Mem(w).sqlAttempt # 0

Matches(w) == Mem(w).sqlAttempt # 0 /\ SqlOf[Job(w)] = Mem(w).sql

AckUnmatched(w) ==
  /\ At(w, "match")
  /\ ~Matches(w)
  /\ session' = FinishEvent(Mem(w), Job(w), "SUCCEEDED", 0, "UNMATCHED")
  /\ Answer(w, Ack)
  /\ UNCHANGED <<attempts, results, memory, active, history>>

\* The current candidate worked: save_attempt ...
ConfirmAttempt(w) ==
  /\ At(w, "match")
  /\ Matches(w)
  /\ LET n == Mem(w).sqlAttempt
         a == WithStatus(attempts[n], "UPSTREAM_CONFIRMED_SUCCESS")
     IN  /\ attempts' = [attempts EXCEPT ![n] = a]
         /\ Continue(w, "confirm",
                     [Mem(w) EXCEPT !.status = "UPSTREAM_CONFIRMED_SUCCESS",
                                     !.confirmed = n, !.confirmedSql = Mem(w).sql],
                     a, NoResult)
  /\ UNCHANGED <<session, results, memory, mutex, active, answers, history>>

\* ... then save_session, and the lock is released.
ConfirmSession(w) ==
  /\ At(w, "confirm")
  /\ session' = Mem(w)
  /\ Goto(w, "memory")
  /\ ReleaseLock(w)
  /\ UNCHANGED <<attempts, results, memory, active, answers, history>>

\* write_success_experience succeeds (see MemoryStore) ...
WriteMemory(w) ==
  /\ At(w, "memory")
  /\ memory' = memory \cup {<<Mem(w).confirmed, Mem(w).confirmedSql>>}
  /\ Goto(w, "finish_lock")
  /\ UNCHANGED <<files, mutex, active, answers, history>>

\* ... or raises; a SessionLockTimeout after it takes the same path.
MemoryDegraded(w) ==
  /\ \/ At(w, "memory")
     \/ At(w, "finish_lock") /\ CannotLock(w)
  /\ Goto(w, "degrade_lock")
  /\ ReleaseLock(w)
  /\ UNCHANGED <<files, memory, active, answers, history>>

ReloadForFinish(w) == LockAndLoad(w, "finish_lock", "finish_success")

ReloadForDegrade(w) == LockAndLoad(w, "degrade_lock", "degrade")

\* The record is finished if the session still has it.
SaveFinished(w, error) ==
  /\ session' = IF Recorded(Mem(w), Job(w))
                THEN FinishEvent(Mem(w), Job(w), "SUCCEEDED", 0, error)
                ELSE session
  /\ Answer(w, Ack)
  /\ UNCHANGED <<attempts, results, memory, active, history>>

FinishSuccess(w) == At(w, "finish_success") /\ SaveFinished(w, "NONE")

FinishDegraded(w) == At(w, "degrade") /\ SaveFinished(w, "DEGRADED")

\* SessionLockTimeout in the degraded path: the handler of
\* handle_upstream_event answers.
DegradeTimeout(w) ==
  /\ At(w, "degrade_lock")
  /\ CannotLock(w)
  /\ Answer(w, Human)
  /\ UNCHANGED <<files, memory, active, history>>

-----------------------------------------------------------------------------
(* File errors *)

\* The call is about to read or write a file, and an error of it is not one of
\* the ways the run or the memory write may end anyway.
UsesFile(w) ==
  CASE FindFailed(w)  -> ~Recorded(Mem(w), Job(w)) \/ Replayable(w) \/ ~InProgress(w)
    [] FindSuccess(w) -> ~Recorded(Mem(w), Job(w))
    [] At(w, "input") -> FailsCandidate(w)
    [] OTHER          -> call[w].pc \notin {"idle", "run", "discard", "memory"}

\* A read or an atomic write fails: the file is as before, the lock is released.
FileError(w) ==
  /\ faults < MaxFaults /\ UsesFile(w)
  /\ faults' = faults + 1
  /\ UNCHANGED <<files, memory, approved, reported, calls, crashes>>

\* The session copy of the except clause.  finish_event has changed the record
\* in memory before it is saved.
HandlersCopy(w) ==
  CASE call[w].pc \in {"commit_session", "commit_done"} -> call[w].kept
    [] At(w, "finish") /\ Recorded(Mem(w), Att(w).key) ->
         FinishEvent(Mem(w), Att(w).key, "SUCCEEDED", Att(w).no, "NONE")
    [] OTHER -> Mem(w)

\* In the try block of _handle_failed_event.
ErrorIsCaught(w) ==
  /\ call[w].guarded /\ FileError(w)
  /\ Rescue(w, HandlersCopy(w))
  /\ ReleaseLock(w)
  /\ UNCHANGED <<active, answers>>

\* Elsewhere in _handle_failed_event: the caller gets the exception, and an
\* event that was made active stays so.
ErrorIsRaised(w) ==
  /\ Job(w) \in FailedEvent /\ ~call[w].guarded /\ FileError(w)
  /\ active' = IF At(w, "begin") THEN [active EXCEPT ![ProcessOf[w]] = @ \cup {Job(w)}] ELSE active
  /\ Answer(w, Unreadable)

\* In _handle_success_event: after the memory write it degrades; before that,
\* or again, handle_upstream_event answers, if it can read the session.
SuccessError(w) ==
  /\ Job(w) \in SuccessEvent /\ FileError(w)
  /\ IF call[w].pc \in {"finish_lock", "finish_success"}
     THEN Goto(w, "degrade_lock") /\ ReleaseLock(w) /\ UNCHANGED answers
     ELSE Answer(w, Human) \/ Answer(w, Unreadable)
  /\ UNCHANGED active

-----------------------------------------------------------------------------
(* Process deaths *)

\* A process dies with every call in it; a lock file it created stays behind.
Crash(p) ==
  /\ crashes < MaxCrashes
  /\ \E w \in Worker : ProcessOf[w] = p /\ ~At(w, "idle")
  /\ crashes' = crashes + 1
  /\ call' = [w \in Worker |-> IF ProcessOf[w] = p THEN IdleCall ELSE call[w]]
  /\ active' = [active EXCEPT ![p] = {}]
  /\ lock' = IF lock \in Worker /\ ProcessOf[lock] = p THEN Orphan ELSE lock
  /\ inside' = {w \in inside : ProcessOf[w] # p}
  /\ look' = [w \in Worker |-> IF ProcessOf[w] = p THEN "nothing" ELSE look[w]]
  /\ UNCHANGED <<files, memory, answers, approved, reported, calls, faults>>

-----------------------------------------------------------------------------
(* The specification *)

ServeDuplicate(w) ==
  \/ ReplayResult(w) \/ AnswerInProgress(w) \/ RecoverWithoutAttempt(w)
  \/ RecoverEnded(w) \/ ResumeAttempt(w) \/ RecoverUnsafe(w) \/ FinishUnsafe(w)

ServeNew(w) == RecordFailed(w) \/ CreateAttempt(w) \/ LinkAttempt(w) \/ BeginRun(w)

ServeRun(w) ==
  \/ RejectInput(w) \/ KeepPrevious(w) \/ LoadPrevious(w) \/ SavePrevious(w)
  \/ \E s \in Sql : AgentProposes(w, s)
  \/ \E st \in {"HUMAN_REQUIRED", "VALIDATION_BLOCKED", "REFLECTION_BLOCKED"} : AgentStops(w, st)
  \/ StopRun(w) \/ AgentRaises(w) \/ SaveHumanAttempt(w) \/ SaveHumanSession(w)

ServeCommit(w) ==
  CommitFails(w) \/ CommitRefused(w) \/ CommitAttempt(w) \/ CommitSession(w) \/ CommitDone(w)

ServeResult(w) == DiscardActive(w) \/ WriteResult(w) \/ FinishFailed(w)

ServeSuccess(w) ==
  \/ AckDuplicate(w) \/ RecordSuccess(w) \/ AckUnmatched(w) \/ ConfirmAttempt(w)
  \/ ConfirmSession(w) \/ WriteMemory(w) \/ MemoryDegraded(w) \/ ReloadForFinish(w)
  \/ ReloadForDegrade(w) \/ FinishSuccess(w) \/ FinishDegraded(w) \/ DegradeTimeout(w)

Serve(w) ==
  \/ EnterSession(w) \/ FindStale(w) \/ RemoveStale(w) \/ LockTimeout(w)
  \/ ServeDuplicate(w) \/ ServeNew(w) \/ ServeRun(w)
  \/ ServeCommit(w) \/ ServeResult(w) \/ ServeSuccess(w)

\* The upstream made all its calls and has all its answers.
Quiet == calls = MaxCalls /\ (\A w \in Worker : At(w, "idle")) /\ UNCHANGED vars

Next ==
  \/ \E w \in Worker, e \in Event : Submit(w, e)
  \/ \E w \in Worker : Serve(w)
  \/ \E w \in Worker : ErrorIsCaught(w) \/ ErrorIsRaised(w) \/ SuccessError(w)
  \/ \E p \in Process : Crash(p)
  \/ Quiet

Spec == Init /\ [][Next]_vars

\* A running thread keeps running (the agent run has a wall clock budget, and
\* every wait for the lock a timeout).
FairSpec == Spec /\ \A w \in Worker : WF_vars(Serve(w))

-----------------------------------------------------------------------------
(* Safety *)

\* An event that has an attempt is never given another one, by a duplicate,
\* a retry after a death or a concurrent call (README: "submitting the same
\* event again does not create a new Attempt").
NoSecondAttempt ==
  [][\A n \in AttemptNo :
       attempts'[n] # attempts[n] /\ attempts'[n].status = "CREATED"
         => \A m \in AttemptNo : attempts[m].key # attempts'[n].key]_vars

\* All answers to the same FAILED event agree, whoever asks and however often,
\* apart from "in progress, retry" and exceptions (README: "duplicates of all
\* terminal results return consistently").
DuplicatesAgree ==
  \A e \in FailedEvent : \A r, q \in answers[e] \ {Busy, Unreadable} : r = q

\* An event its process holds to be active is one some call of it works on: the
\* duplicates that are told so ("being processed, retry later") do not wait for
\* nothing (_active_event_keys).
ActiveIsServed ==
  \A p \in Process, e \in Event :
    e \in active[p] => \E w \in Worker : ProcessOf[w] = p /\ Job(w) = e

\* A finished event points to the result of its own attempt.
ResultBelongs ==
  \A e \in FailedEvent :
    LET n == session.events[e].ref IN n # 0 => attempts[n].key = e /\ results[n] # NoResult

\* Once an event is finished with a result, neither its record nor that result
\* ever changes or gets lost, as long as no file operation has failed: when the
\* save of the finished record does, HUMAN_REQUIRED replaces the result.
FinishedForever ==
  [][faults' = 0 => \A e \in FailedEvent :
       LET r == session.events[e]
       IN  r.ref # 0 => session'.events[e] = r /\ results'[r.ref] = results[r.ref]]_vars

\* The session's current candidate is the SQL its attempt proposes, approved by
\* the gates for the event of that attempt, and the attempt is one the session
\* counts: whatever process deaths came between the writes of session and attempt.
CandidateFromAttempt ==
  session.sqlAttempt # 0 =>
    /\ attempts[session.sqlAttempt].sql = session.sql
    /\ <<attempts[session.sqlAttempt].key, session.sql>> \in approved
    /\ session.sqlAttempt <= session.count

ReportedSuccess(s) == \E e \in SuccessEvent \cap reported : SqlOf[e] = s

ApprovedSql == {s \in Sql : \E e \in FailedEvent : <<e, s>> \in approved}

\* Memory learns only from SQL that the gates approved and the upstream
\* confirmed, and so does the session's confirmed_sql, whatever other calls
\* overwrite meanwhile.
ExperienceConfirmed ==
  /\ \A x \in memory : x[2] \in ApprovedSql /\ ReportedSuccess(x[2])
  /\ session.confirmedSql # NoSql =>
       session.confirmedSql \in ApprovedSql /\ ReportedSuccess(session.confirmedSql)

\* The caller of an event is only given SQL the gates approved in a run for
\* that very event.
AnswerApproved ==
  \A e \in Event, s \in Sql : SqlReady(s) \in answers[e] => <<e, s>> \in approved

\* SQL that reaches any caller was approved by the gates in some run: neither
\* deaths, nor recoveries, nor lost updates, nor reused attempt numbers make
\* the service hand out SQL that was never approved.
OnlyApprovedSql == Delivered \subseteq ApprovedSql

\* The sanitizer finds nothing to replace in any SQL.
NothingRedacted == \A s \in Sql : Redact[s] = s

\* Every caller gets an answer: the handler never ends in an exception
\* (README: duplicates of all terminal results return).
NeverRaises == \A e \in Event : Unreadable \notin answers[e]

\* An attempt is being run by one worker at a time.
RunningLabels == {"input", "previous", "run", "stop", "human", "human_session", "commit",
                  "commit_session", "commit_done"}
SingleRunner ==
  \A v, w \in Worker :
    call[v].pc \in RunningLabels /\ call[w].pc \in RunningLabels /\ Att(v).no = Att(w).no => v = w

\* When SQL_READY is about to be answered, the session on disk has that
\* attempt's SQL, or a newer one, as its candidate: a later SUCCESS can match.
DeliveredIsCandidate ==
  \A w \in Worker :
    At(w, "finish") /\ call[w].ret.status = "SQL_READY" =>
      \/ session.sqlAttempt > Att(w).no
      \/ session.sqlAttempt = Att(w).no /\ session.sql = call[w].ret.sql

\* When the SUCCESS of the confirmed SQL is acknowledged as a duplicate, the
\* experience has been written (README: "a duplicate SUCCESS completes the
\* write" after a memory failure).
SuccessCompensated ==
  [][\A w \in Worker :
       FindSuccess(w) /\ call'[w].pc = "idle" /\ Mem(w).confirmed # 0
         /\ SqlOf[Job(w)] = Mem(w).confirmedSql
       => <<Mem(w).confirmed, SqlOf[Job(w)]>> \in memory']_vars

-----------------------------------------------------------------------------
(* The abstract specification *)

\* What session.json and the result files record of the failures.
Log == INSTANCE TaskLedger WITH
         Failure   <- FailedEvent,
         count     <- session.count,
         attemptOf <- [e \in FailedEvent |-> session.events[e].attempt],
         filed     <- {n \in AttemptNo : results[n] # NoResult}

\* The records of the failures only grow, one attempt for each, and no save of
\* an older session takes a number, a link or a result back.
LogSpec == Log!Spec

-----------------------------------------------------------------------------
(* Liveness *)

\* Every call of handle_upstream_event is answered.
CallsReturn == \A w \in Worker : ~At(w, "idle") ~> At(w, "idle")
=============================================================================
