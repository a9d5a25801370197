--------------------------- MODULE RepairServiceProofs ---------------------------
(***************************************************************************)
(* Where the SQL that RepairService hands out, commits, confirms and       *)
(* learns from can come from, for any number of workers, processes,        *)
(* events, calls, deaths and file errors, for any interleaving: the        *)
(* theorems hold although whole-session saves overwrite each other and     *)
(* attempt numbers are reused.                                             *)
(***************************************************************************)
EXTENDS RepairService, TLAPS

\* Labels that only the handler of FAILED events, or only the one of SUCCESS
\* events, goes through.
FailedLabel == {"create", "link", "begin", "unsafe", "input", "previous", "run", "stop",
                "human", "human_session", "commit", "commit_session", "commit_done", "discard",
                "persist", "finish"}
SuccessLabel == {"match", "confirm", "memory", "finish_lock", "finish_success",
                 "degrade_lock", "degrade"}

\* A session copy, an attempt and a result that only carry approved SQL.
GoodSession(m) ==
  /\ m \in Session
  /\ m.sql # NoSql => m.sql \in ApprovedSql
  /\ m.confirmedSql # NoSql => m.confirmedSql \in ApprovedSql /\ ReportedSuccess(m.confirmedSql)

GoodAttempt(a) == a \in Attempt /\ (a.sql # NoSql => a.sql \in ApprovedSql)

GoodResult(r) ==
  r \in Result /\ (r.status = "SQL_READY" \/ r.sql # NoSql => r.sql \in ApprovedSql)

\* A result in a file, or in an answer: the sanitizer may have changed its SQL.
Handed == ApprovedSql \cup {Redact[s] : s \in ApprovedSql}

StoredResult(r) == r \in Result /\ (r.status = "SQL_READY" => r.sql \in Handed)

GoodCall(c) ==
  /\ c \in Call
  /\ GoodSession(c.mem) /\ GoodAttempt(c.att) /\ GoodResult(c.ret) /\ GoodSession(c.kept)
  /\ GoodAttempt(c.prev)
  /\ c.pc # "idle" => c.job \in Event /\ c.job \in reported
  /\ c.pc \in FailedLabel \/ c.guarded => c.job \in FailedEvent
  /\ c.pc \in SuccessLabel => c.job \in SuccessEvent
  /\ c.pc = "commit" => c.att.sql # NoSql
  /\ c.pc \in {"confirm", "memory"} => c.mem.confirmed # 0 /\ c.mem.confirmedSql # NoSql

\* The inductive invariant: everything on disk and in memory is good.
Disk ==
  /\ GoodSession(session)
  /\ attempts \in [AttemptNo -> Attempt] /\ \A n \in AttemptNo : GoodAttempt(attempts[n])
  /\ results \in [AttemptNo -> Result] /\ \A n \in AttemptNo : StoredResult(results[n])
  /\ memory \subseteq AttemptNo \X Sql
  /\ \A x \in memory : x[2] \in ApprovedSql /\ ReportedSuccess(x[2])

Calls == call \in [Worker -> Call] /\ \A w \in Worker : GoodCall(call[w])

Answered ==
  /\ answers \in [Event -> SUBSET Result]
  /\ \A e \in Event : \A r \in answers[e] : StoredResult(r)

Locks ==
  /\ lock \in Worker \cup {Free, Orphan}
  /\ inside \subseteq Worker
  /\ look \in [Worker -> Look]

Rest ==
  /\ Locks
  /\ active \in [Process -> SUBSET Event]
  /\ approved \subseteq Event \X Sql
  /\ reported \subseteq Event
  /\ calls \in 0 .. MaxCalls
  /\ crashes \in 0 .. MaxCrashes
  /\ faults \in 0 .. MaxFaults

Provenance == Disk /\ Calls /\ Answered /\ Rest

-----------------------------------------------------------------------------
(* The operators the actions are built from *)

\* A new session, a missing attempt and an idle call carry no SQL.
LEMMA NewGood == GoodSession(NewSession) /\ GoodAttempt(NoAttempt) /\ GoodCall(IdleCall)
  <1>1. NoRecord \in Record /\ NewSession \in Session /\ NoAttempt \in Attempt
    BY ServiceAssumption
       DEF NoRecord, Record, NewSession, Session, NoAttempt, Attempt, AttemptStatus
  <1>2. GoodResult(NoResult)
    BY DEF GoodResult, NoResult, Plain, Result
  <1>3. GoodSession(NewSession) /\ GoodAttempt(NoAttempt)
    BY <1>1 DEF GoodSession, GoodAttempt, NewSession, NoAttempt
  <1> QED
    BY <1>1, <1>2, <1>3 DEF GoodCall, IdleCall, Call, Label, FailedLabel, SuccessLabel, GoodResult

\* Nor do the answers without one.
LEMMA PlainGood ==
  GoodResult(Human) /\ GoodResult(Busy) /\ GoodResult(Ack) /\ GoodResult(NoResult)
    /\ GoodResult(Plain("NO_SQL"))
  BY DEF GoodResult, Human, Busy, Ack, NoResult, Plain, Result

\* Approved SQL may be answered.
LEMMA SqlReadyGood == ASSUME NEW s \in ApprovedSql PROVE GoodResult(SqlReady(s))
  BY DEF GoodResult, SqlReady, Result, ApprovedSql

\* A result may be stored, as it is and as the sanitizer leaves it.
LEMMA StoredGood ==
  ASSUME NEW r, GoodResult(r)
  PROVE  StoredResult(r) /\ StoredResult(Sanitized(r))
  <1>1. ApprovedSql \subseteq Handed /\ \A s \in ApprovedSql : Redact[s] \in Handed
    BY DEF Handed
  <1>2. StoredResult(r)
    BY <1>1 DEF StoredResult, GoodResult
  <1>3. ASSUME r.sql # NoSql, Redact[r.sql] # NoSql
        PROVE  StoredResult(SqlReady(Redact[r.sql]))
    BY <1>1, <1>3, ServiceAssumption DEF StoredResult, GoodResult, SqlReady, Result
  <1> QED
    BY <1>2, <1>3 DEF Sanitized, StoredResult, GoodResult, Unreadable, Plain, Result

\* Writing an event record into a session keeps its SQL.
LEMMA PutGood ==
  ASSUME NEW m, GoodSession(m), NEW e \in Event, NEW r \in Record
  PROVE  /\ GoodSession(PutRecord(m, e, r))
         /\ PutRecord(m, e, r).confirmed = m.confirmed
         /\ PutRecord(m, e, r).confirmedSql = m.confirmedSql
  BY DEF GoodSession, PutRecord, Session

\* So does finishing an event (`session_store.py:finish_event`).
LEMMA FinishGood ==
  ASSUME NEW m, GoodSession(m), NEW e \in Event,
         NEW st \in {"SUCCEEDED", "SYSTEM_ERROR"}, NEW n \in 0 .. MaxAttempts,
         NEW c \in {"NONE", "UNMATCHED", "DEGRADED", "RECOVERY"}
  PROVE  GoodSession(FinishEvent(m, e, st, n, c))
  <1>1. m.events[e] \in Record
    BY DEF GoodSession, Session
  <1>2. [RecordOf(m, e) EXCEPT !.status = st, !.ref = n, !.error = c] \in Record
    BY <1>1 DEF Record, RecordOf
  <1> QED
    BY <1>2, PutGood DEF FinishEvent

\* The record of an attempt; a key that is no event has no record to change.
LEMMA FinishOwnGood ==
  ASSUME NEW m, GoodSession(m), NEW a, GoodAttempt(a)
  PROVE  GoodSession(FinishEvent(m, a.key, "SUCCEEDED", a.no, "NONE"))
  <1>1. a.no \in 0 .. MaxAttempts /\ a.key \in Event \cup {NoEvent}
    BY DEF GoodAttempt, Attempt, Event
  <1>2. CASE a.key \in Event
    BY <1>1, <1>2, FinishGood
  <1>3. CASE a.key \notin Event
    <2>1. PutRecord(m, a.key, [RecordOf(m, a.key) EXCEPT
            !.status = "SUCCEEDED", !.ref = a.no, !.error = "NONE"]) = m
      BY <1>3 DEF PutRecord, GoodSession, Session
    <2> QED
      BY <2>1 DEF FinishEvent
  <1> QED
    BY <1>2, <1>3

\* A new status keeps the SQL of an attempt.
LEMMA StatusGood ==
  ASSUME NEW a, GoodAttempt(a), NEW st \in AttemptStatus
  PROVE  GoodAttempt(WithStatus(a, st)) /\ WithStatus(a, st).sql = a.sql
  BY DEF GoodAttempt, WithStatus, Attempt

\* A call that continues with good data is good, and the others did not move.
LEMMA ContinueGood ==
  ASSUME Calls, NEW w \in Worker, ~At(w, "idle"), UNCHANGED <<approved, reported>>,
         NEW l \in Label, NEW m, GoodSession(m), NEW a, GoodAttempt(a), NEW r, GoodResult(r),
         Continue(w, l, m, a, r),
         l \in FailedLabel => Job(w) \in FailedEvent,
         l \in SuccessLabel => Job(w) \in SuccessEvent,
         l = "commit" => a.sql # NoSql,
         l \in {"confirm", "memory"} => m.confirmed # 0 /\ m.confirmedSql # NoSql,
         l = "previous" => GoodAttempt(Marking(w, l))
  PROVE  Calls'
  <1>0. GoodSession(Kept(w, l)) /\ call[w].guarded \in BOOLEAN /\ GoodAttempt(Marking(w, l))
    BY NewGood DEF Kept, Marking, Calls, GoodCall, Call
  <1> DEFINE g == call[w].guarded \/ l = "run"
             k == Kept(w, l)
             q == Marking(w, l)
             c == [pc |-> l, job |-> call[w].job, mem |-> m, att |-> a, ret |-> r,
                   guarded |-> g, kept |-> k, prev |-> q]
  <1>g. /\ g \in BOOLEAN /\ GoodSession(k) /\ k \in Session /\ GoodAttempt(q)
        /\ g => call[w].job \in FailedEvent
    BY <1>0 DEF GoodSession, Calls, GoodCall, Job, FailedLabel
  <1> HIDE DEF g, k, q
  <1>1. GoodCall(c) /\ c \in Call
    BY <1>g DEF GoodCall, Calls, Call, At, Job, GoodSession, GoodAttempt, GoodResult
  <1>2. call' = [call EXCEPT ![w] = c]
    BY DEF Continue, g, k, q
  <1>3. \A x : GoodCall(x)' <=> GoodCall(x)
    BY DEF GoodCall, GoodSession, GoodAttempt, GoodResult, ApprovedSql, ReportedSuccess
  <1> HIDE DEF c
  <1> QED
    BY <1>1, <1>2, <1>3 DEF Calls

\* The lock and those who wait for it stay in their types.
LEMMA LocksStep ==
  ASSUME Locks, NEW w \in Worker, UNCHANGED mutex \/ TakeLock(w) \/ ReleaseLock(w)
  PROVE  Locks'
  BY DEF Locks, mutex, TakeLock, ReleaseLock, Look

\* Answering a result that carries approved SQL at most, which ends the call.
LEMMA AnswerGood ==
  ASSUME Calls, Answered, Rest, NEW w \in Worker, ~At(w, "idle"), UNCHANGED <<approved, reported>>,
         NEW r, StoredResult(r), Answer(w, r)
  PROVE  Calls' /\ Answered' /\ Locks'
  <1>1. \A x : GoodCall(x)' <=> GoodCall(x)
    BY DEF GoodCall, GoodSession, GoodAttempt, GoodResult, ApprovedSql, ReportedSuccess
  <1>2. \A x : StoredResult(x)' <=> StoredResult(x)
    BY DEF StoredResult, Handed, ApprovedSql
  <1>3. Calls'
    BY <1>1, NewGood DEF Calls, Answer, GoodCall
  <1>4. Answered'
    BY <1>2 DEF Answered, Answer, StoredResult
  <1> QED
    BY <1>3, <1>4, LocksStep DEF Answer, Rest

-----------------------------------------------------------------------------
(* Nothing good turns bad while approved stays the same or grows *)

\* Most actions leave approved alone, and then only the variables they write
\* need a look.
LEMMA KeepDisk ==
  ASSUME Disk, UNCHANGED <<approved, reported>>, UNCHANGED memory,
         GoodSession(session'),
         \/ UNCHANGED attempts
         \/ \E n, a : GoodAttempt(a) /\ attempts' = [attempts EXCEPT ![n] = a],
         \/ UNCHANGED results
         \/ \E n, r : StoredResult(r) /\ results' = [results EXCEPT ![n] = r]
  PROVE  Disk'
  <1>1. \A x : /\ GoodAttempt(x)' <=> GoodAttempt(x)
               /\ StoredResult(x)' <=> StoredResult(x)
    BY DEF GoodAttempt, StoredResult, Handed, ApprovedSql
  <1>2. ApprovedSql' = ApprovedSql /\ (\A x : ReportedSuccess(x)' <=> ReportedSuccess(x))
    BY DEF ApprovedSql, ReportedSuccess
  <1>3. GoodSession(session)'
    BY <1>2 DEF GoodSession
  <1>4. attempts' \in [AttemptNo -> Attempt] /\ \A n \in AttemptNo : GoodAttempt(attempts'[n])
    BY DEF Disk, GoodAttempt
  <1>5. results' \in [AttemptNo -> Result] /\ \A n \in AttemptNo : StoredResult(results'[n])
    BY DEF Disk, StoredResult
  <1> QED
    BY <1>1, <1>2, <1>3, <1>4, <1>5 DEF Disk

\* A call that stays in its handler, with the copies it has or good ones.
LEMMA KeepAnswered ==
  ASSUME Answered, UNCHANGED answers, UNCHANGED <<approved, reported>>
  PROVE  Answered'
  BY DEF Answered, StoredResult, Handed, ApprovedSql

\* A session on disk that no step wrote keeps its provenance.
LEMMA SameSession == ASSUME Disk, UNCHANGED <<session, approved>> PROVE GoodSession(session')
  BY DEF Disk

\* What a call holds is good.
LEMMA CallParts ==
  ASSUME Calls, NEW w \in Worker
  PROVE  /\ GoodCall(call[w]) /\ GoodSession(Mem(w)) /\ GoodAttempt(Att(w)) /\ GoodResult(call[w].ret)
         /\ call[w].pc \in Label
         /\ ~At(w, "idle") => Job(w) \in Event /\ Own(w) \in Record /\ RecordOf(Mem(w), Job(w)) \in Record
         /\ call[w].pc \in FailedLabel => Job(w) \in FailedEvent
         /\ call[w].pc \in SuccessLabel => Job(w) \in SuccessEvent
  <1>1. GoodCall(call[w]) /\ GoodSession(Mem(w)) /\ GoodAttempt(Att(w)) /\ GoodResult(call[w].ret)
    BY DEF Calls, GoodCall, Mem, Att
  <1>2. call[w].pc \in Label /\ (~At(w, "idle") => Job(w) \in Event)
    BY <1>1 DEF GoodCall, Call, At, Job
  <1>3. ~At(w, "idle") => RecordOf(Mem(w), Job(w)) \in Record
    BY <1>1, <1>2 DEF GoodSession, Session, RecordOf
  <1> QED
    BY <1>1, <1>2, <1>3 DEF Own, GoodCall, Job

\* A call that moves on within the handler of FAILED events.
LEMMA GotoGood ==
  ASSUME Calls, NEW w \in Worker, ~At(w, "idle"), UNCHANGED <<approved, reported>>,
         NEW l \in FailedLabel \ {"commit", "previous"}, Goto(w, l), Job(w) \in FailedEvent
  PROVE  Calls'
  <1>1. /\ GoodSession(call[w].mem) /\ GoodAttempt(call[w].att) /\ GoodResult(call[w].ret)
        /\ Continue(w, l, call[w].mem, call[w].att, call[w].ret)
    BY CallParts DEF Goto, Mem, Att
  <1>2. l \in Label /\ l \notin SuccessLabel /\ l \notin {"commit", "previous", "confirm", "memory"}
    BY DEF FailedLabel, Label, SuccessLabel
  <1> QED
    BY <1>1, <1>2, ContinueGood

\* A call that goes to the except clause.
LEMMA RescueGood ==
  ASSUME Calls, NEW w \in Worker, ~At(w, "idle"), UNCHANGED <<approved, reported>>,
         NEW m, GoodSession(m), Rescue(w, m), Job(w) \in FailedEvent
  PROVE  Calls'
  <1>1. /\ GoodAttempt(call[w].att) /\ GoodResult(call[w].ret) /\ call[w] \in Call
        /\ GoodSession(NewSession) /\ GoodAttempt(call[w].prev) /\ Job(w) \in reported
    BY CallParts, NewGood DEF Att, At, Job, GoodCall
  <1>2. PICK c : c = [call[w] EXCEPT !.pc = "human", !.mem = m, !.guarded = FALSE, !.kept = NewSession]
    OBVIOUS
  <1>3. c = [pc |-> "human", job |-> Job(w), mem |-> m, att |-> call[w].att, ret |-> call[w].ret,
             guarded |-> FALSE, kept |-> NewSession, prev |-> call[w].prev]
    BY <1>1, <1>2 DEF Call, Job
  <1>4. c \in Call
    BY <1>1, <1>3 DEF Call, Label, Event, GoodSession, GoodAttempt, GoodResult
  <1>5. GoodCall(c)
    BY <1>1, <1>3, <1>4 DEF GoodCall, SuccessLabel, Event
  <1>6. call' = [call EXCEPT ![w] = c]
    BY <1>2 DEF Rescue
  <1>7. \A x : GoodCall(x)' <=> GoodCall(x)
    BY DEF GoodCall, GoodSession, GoodAttempt, GoodResult, ApprovedSql, ReportedSuccess
  <1> QED
    BY <1>4, <1>5, <1>6, <1>7 DEF Calls

-----------------------------------------------------------------------------
(* The initial state *)

\* A task without files carries no SQL.
LEMMA ProvenanceInit == Init => Provenance
  <1> SUFFICES ASSUME Init PROVE Provenance
    OBVIOUS
  <1> USE NewGood, PlainGood, ServiceAssumption DEF Init
  <1>1. Disk
    BY StoredGood DEF Disk, GoodAttempt, StoredResult
  <1>2. Calls
    BY DEF Calls, GoodCall
  <1>3. Answered /\ Rest
    BY DEF Answered, Rest, Locks, Look
  <1> QED
    BY <1>1, <1>2, <1>3 DEF Provenance

-----------------------------------------------------------------------------
(* One lemma per part of the handler *)

\* Taking or missing the lock, and loading the session.
LEMMA EnterStep ==
  ASSUME Provenance, NEW w \in Worker,
         EnterSession(w) \/ LockTimeout(w) \/ ReloadForFinish(w) \/ ReloadForDegrade(w)
  PROVE  Provenance'
  <1> USE DEF Provenance
  <1>1. CASE LockTimeout(w)
    BY <1>1, AnswerGood, StoredGood, KeepDisk, LocksStep, SameSession, PlainGood
       DEF LockTimeout, At, files, history, Rest
  <1>2. ASSUME NEW from \in {"lock", "finish_lock", "degrade_lock"},
               NEW to \in {"find", "finish_success", "degrade"},
               to # "find" => from # "lock",
               LockAndLoad(w, from, to)
        PROVE  Provenance'
    <2>1. ~At(w, "idle") /\ UNCHANGED <<approved, reported>> /\ GoodSession(session)
      BY <1>2 DEF LockAndLoad, At, history, Disk
    <2>2. Calls'
      BY <1>2, <2>1, CallParts, ContinueGood
         DEF LockAndLoad, Label, FailedLabel, SuccessLabel, At
    <2> QED
      BY <1>2, <2>1, <2>2, KeepDisk, LocksStep, KeepAnswered DEF LockAndLoad, files, history, Rest
  <1> QED
    BY <1>1, <1>2 DEF EnterSession, ReloadForFinish, ReloadForDegrade

\* A FAILED event that has a record: replayed, in progress, or recovered.
LEMMA DuplicateStep ==
  ASSUME Provenance, NEW w \in Worker, ServeDuplicate(w)
  PROVE  Provenance'
  <1> USE DEF Provenance
  <1>0. Own(w) = RecordOf(Mem(w), Job(w)) /\ GoodSession(Mem(w)) /\ GoodAttempt(Att(w))
    BY CallParts DEF Own
  <1>1. CASE ReplayResult(w)
    <2>1. ~At(w, "idle") /\ Own(w) \in Record
      BY <1>1, CallParts DEF ReplayResult, FindFailed, At
    <2>2. StoredResult(results[Own(w).ref])
      BY <1>1, <2>1, ServiceAssumption DEF ReplayResult, Replayable, Record, Disk, AttemptNo
    <2> QED
      BY <1>1, <2>1, <2>2, AnswerGood, StoredGood, KeepDisk, LocksStep,
             SameSession DEF ReplayResult, files,
             history, Rest
  <1>2. CASE AnswerInProgress(w)
    BY <1>2, AnswerGood, StoredGood, KeepDisk, LocksStep, SameSession, PlainGood
       DEF AnswerInProgress, FindFailed, At, files, history, Rest
  <1>3. CASE RecoverWithoutAttempt(w)
    <2>1. ~At(w, "idle") /\ Job(w) \in Event /\ UNCHANGED <<approved, reported>>
      BY <1>3, CallParts DEF RecoverWithoutAttempt, Recovering, FindFailed, At, history
    <2>2. GoodSession(session')
      BY <1>0, <1>3, <2>1, FinishGood, ServiceAssumption DEF RecoverWithoutAttempt
    <2> QED
      BY <1>3, <2>1, <2>2, AnswerGood, StoredGood, KeepDisk, LocksStep,
             PlainGood DEF RecoverWithoutAttempt,
             history, Rest
  <1>4. ASSUME Recovering(w), Own(w).attempt # 0
        PROVE  /\ ~At(w, "idle") /\ Job(w) \in FailedEvent
               /\ GoodAttempt(OnDisk(w)) /\ Own(w).attempt \in AttemptNo
    <2>1. ~At(w, "idle") /\ Job(w) \in FailedEvent /\ Own(w) \in Record
      BY <1>4, CallParts DEF Recovering, FindFailed, At
    <2> QED
      BY <1>4, <2>1, ServiceAssumption DEF Record, Disk, AttemptNo, OnDisk
  <1>5. CASE RecoverEnded(w)
    <2>1. /\ ~At(w, "idle") /\ Job(w) \in FailedEvent /\ GoodAttempt(OnDisk(w))
          /\ UNCHANGED <<session, attempts, results, memory, mutex, active, answers, approved,
                         reported, calls, crashes, faults>>
      BY <1>4, <1>5 DEF RecoverEnded, files, history
    <2>2. CASE OnDisk(w).sql # NoSql
               /\ Continue(w, "discard", Mem(w), OnDisk(w), SqlReady(OnDisk(w).sql))
      <3>1. GoodResult(SqlReady(OnDisk(w).sql))
        BY <2>1, <2>2, SqlReadyGood DEF GoodAttempt
      <3>2. Calls'
        BY <1>0, <2>1, <2>2, <3>1, ContinueGood DEF Label, FailedLabel, SuccessLabel
      <3> QED
        BY <2>1, <3>2, KeepDisk, LocksStep, KeepAnswered, SameSession DEF Rest
    <2>3. CASE Continue(w, "discard", Mem(w), OnDisk(w), Human)
      <3>1. Calls'
        BY <1>0, <2>1, <2>3, PlainGood, ContinueGood DEF Label, FailedLabel, SuccessLabel
      <3> QED
        BY <2>1, <3>1, KeepDisk, LocksStep, KeepAnswered, SameSession DEF Rest
    <2> QED
      BY <1>5, <2>2, <2>3 DEF RecoverEnded
  <1>6. CASE ResumeAttempt(w)
    <2>1. Calls'
      BY <1>0, <1>4, <1>6, PlainGood, ContinueGood
         DEF ResumeAttempt, Label, FailedLabel, SuccessLabel, history
    <2> QED
      BY <1>6, <2>1, KeepDisk, LocksStep, KeepAnswered, SameSession DEF ResumeAttempt, files,
             history, Rest
  <1>7. CASE RecoverUnsafe(w)
    <2>1. Calls'
      BY <1>4, <1>7, GotoGood DEF RecoverUnsafe, FailedLabel, history
    <2>2. GoodAttempt(WithStatus(OnDisk(w), "HUMAN_REQUIRED"))
      BY <1>4, <1>7, StatusGood DEF RecoverUnsafe, AttemptStatus
    <2>3. attempts' = [attempts EXCEPT ![Own(w).attempt] = WithStatus(OnDisk(w), "HUMAN_REQUIRED")]
      BY <1>7 DEF RecoverUnsafe, OnDisk
    <2> QED
      BY <1>7, <2>1, <2>2, <2>3, KeepDisk, LocksStep, KeepAnswered, SameSession DEF RecoverUnsafe,
             history,
             Rest
  <1>8. CASE FinishUnsafe(w)
    <2>1. ~At(w, "idle") /\ Job(w) \in Event /\ UNCHANGED <<approved, reported>>
      BY <1>8, CallParts DEF FinishUnsafe, At, history
    <2>2. GoodSession(session')
      BY <1>0, <1>8, <2>1, FinishGood, ServiceAssumption DEF FinishUnsafe
    <2> QED
      BY <1>8, <2>1, <2>2, AnswerGood, StoredGood, KeepDisk, LocksStep, PlainGood DEF FinishUnsafe,
             history,
             Rest
  <1> QED
    BY <1>1, <1>2, <1>3, <1>5, <1>6, <1>7, <1>8 DEF ServeDuplicate

\* A FAILED event that has none: record, attempt, link, begin.
LEMMA NewStep ==
  ASSUME Provenance, NEW w \in Worker, ServeNew(w)
  PROVE  Provenance'
  <1> USE DEF Provenance
  <1>0. GoodSession(Mem(w)) /\ GoodAttempt(Att(w))
    BY CallParts
  <1>1. CASE RecordFailed(w)
    <2>1. ~At(w, "idle") /\ Job(w) \in FailedEvent /\ Job(w) \in Event
      BY <1>1, CallParts DEF RecordFailed, FindFailed, At
    <2>2. Received \in Record
      BY ServiceAssumption DEF Received, NoRecord, Record
    <2>3. GoodSession(session')
      BY <1>0, <1>1, <2>1, <2>2, PutGood DEF RecordFailed
    <2>4. Calls'
      BY <1>1, <2>1, <2>3, PlainGood, NewGood, ContinueGood
         DEF RecordFailed, Label, FailedLabel, SuccessLabel, history
    <2> QED
      BY <1>1, <2>3, <2>4, KeepDisk, LocksStep, KeepAnswered DEF RecordFailed, history, Rest
  <1>2. CASE CreateAttempt(w)
    <2> DEFINE n == Mem(w).count + 1
               a == [no |-> n, status |-> "CREATED", key |-> Job(w), sql |-> NoSql]
               r == [Own(w) EXCEPT !.status = "PROCESSING", !.attempt = n]
               m == [PutRecord(Mem(w), Job(w), r) EXCEPT !.count = n]
    <2>1. ~At(w, "idle") /\ Job(w) \in FailedEvent /\ Job(w) \in Event /\ Own(w) \in Record
      BY <1>2, CallParts DEF CreateAttempt, At, FailedLabel
    <2>2. n \in AttemptNo /\ n \in 0 .. MaxAttempts
      BY <1>2, ServiceAssumption DEF CreateAttempt, AttemptNo
    <2>3. GoodAttempt(a)
      BY <2>1, <2>2 DEF GoodAttempt, Attempt, AttemptStatus
    <2>4. r \in Record
      BY <2>1, <2>2 DEF Record
    <2>5. GoodSession(m)
      <3>1. GoodSession(PutRecord(Mem(w), Job(w), r))
        BY <1>0, <2>1, <2>4, PutGood
      <3> QED
        BY <2>2, <3>1 DEF GoodSession, Session
    <2>6. Continue(w, "link", m, a, NoResult) /\ attempts' = [attempts EXCEPT ![n] = a]
      BY <1>2 DEF CreateAttempt
    <2> HIDE DEF n, a, r, m
    <2>7. Calls'
      BY <1>2, <2>1, <2>3, <2>5, <2>6, PlainGood, ContinueGood
         DEF CreateAttempt, Label, FailedLabel, SuccessLabel, history
    <2> QED
      BY <1>2, <2>3, <2>6, <2>7, KeepDisk, LocksStep, KeepAnswered, SameSession DEF CreateAttempt,
             history,
             Rest
  <1>3. CASE LinkAttempt(w)
    <2>1. Calls'
      BY <1>3, CallParts, GotoGood DEF LinkAttempt, At, FailedLabel, history
    <2> QED
      BY <1>0, <1>3, <2>1, KeepDisk, LocksStep, KeepAnswered DEF LinkAttempt, history, Rest
  <1>4. CASE BeginRun(w)
    <2>1. GoodSession(session')
      BY <1>0, <1>4 DEF BeginRun, GoodSession, Session
    <2>2. Calls'
      BY <1>0, <1>4, <2>1, CallParts, PlainGood, ContinueGood
         DEF BeginRun, At, Label, FailedLabel, SuccessLabel, history
    <2>3. active' \in [Process -> SUBSET Event]
      BY <1>4, CallParts, ServiceAssumption DEF BeginRun, At, Rest
    <2> QED
      BY <1>4, <2>1, <2>2, <2>3, KeepDisk, LocksStep, KeepAnswered DEF BeginRun, history, Rest
  <1> QED
    BY <1>1, <1>2, <1>3, <1>4 DEF ServeNew

\* The run of the agent; what it proposes becomes approved.
LEMMA RunStep ==
  ASSUME Provenance, NEW w \in Worker, ServeRun(w)
  PROVE  Provenance'
  <1> USE DEF Provenance
  <1>0. GoodSession(Mem(w)) /\ GoodAttempt(Att(w))
    BY CallParts
  <1>a. ASSUME call[w].pc \in FailedLabel PROVE ~At(w, "idle") /\ Job(w) \in FailedEvent
    BY <1>a, CallParts DEF At, FailedLabel
  <1>1. CASE RejectInput(w) \/ AgentRaises(w)
    <2>1. Calls'
      BY <1>0, <1>1, <1>a, GotoGood, RescueGood DEF RejectInput, AgentRaises, At, FailedLabel,
             history
    <2> QED
      BY <1>1, <2>1, KeepDisk, LocksStep, KeepAnswered, SameSession
         DEF RejectInput, AgentRaises, files, history, Rest
  <1>2. CASE KeepPrevious(w)
    <2>1. Calls'
      BY <1>2, <1>a, GotoGood DEF KeepPrevious, At, FailedLabel, history
    <2> QED
      BY <1>2, <2>1, KeepDisk, LocksStep, KeepAnswered, SameSession
         DEF KeepPrevious, files, history, Rest
  <1>7. CASE LoadPrevious(w)
    <2>1. /\ ~At(w, "idle") /\ Job(w) \in FailedEvent /\ UNCHANGED <<approved, reported>>
          /\ GoodResult(call[w].ret)
      BY <1>7, <1>a, CallParts DEF LoadPrevious, At, FailedLabel, history
    <2>2. Mem(w).sqlAttempt \in AttemptNo
      BY <1>0, <1>7, ServiceAssumption
         DEF LoadPrevious, FailsCandidate, GoodSession, Session, AttemptNo
    <2>3. GoodAttempt(Marking(w, "previous"))
      BY <2>2, StatusGood DEF Marking, Mem, Disk, AttemptStatus
    <2>4. Calls'
      BY <1>0, <1>7, <2>1, <2>3, ContinueGood
         DEF LoadPrevious, Goto, Mem, Att, Label, FailedLabel, SuccessLabel
    <2> QED
      BY <1>7, <2>4, KeepDisk, LocksStep, KeepAnswered, SameSession
         DEF LoadPrevious, files, history, Rest
  <1>8. CASE SavePrevious(w)
    <2>1. Calls'
      BY <1>8, <1>a, GotoGood DEF SavePrevious, At, FailedLabel, history
    <2>2. GoodAttempt(call[w].prev)
      BY CallParts DEF GoodCall
    <2> QED
      BY <1>8, <2>1, <2>2, KeepDisk, LocksStep, KeepAnswered, SameSession
         DEF SavePrevious, history, Rest
  <1>3. ASSUME NEW s \in Sql, AgentProposes(w, s) PROVE Provenance'
    <2>1. At(w, "run") /\ ~At(w, "idle") /\ Job(w) \in FailedEvent
      BY <1>3, <1>a DEF AgentProposes, At, FailedLabel
    <2>2. ApprovedSql \subseteq ApprovedSql' /\ s \in ApprovedSql' /\ reported' = reported
      BY <1>3, <2>1 DEF AgentProposes, ApprovedSql
    <2>3. \A x : /\ GoodSession(x) => GoodSession(x)'
                 /\ GoodAttempt(x) => GoodAttempt(x)'
                 /\ GoodResult(x) => GoodResult(x)'
                 /\ StoredResult(x) => StoredResult(x)'
      BY <2>2 DEF GoodSession, GoodAttempt, GoodResult, StoredResult, Handed, ReportedSuccess
    <2>4. \A c : GoodCall(c) => GoodCall(c)'
      BY <2>2, <2>3 DEF GoodCall
    <2>5. PICK a : a = [Att(w) EXCEPT !.status = "SQL_READY", !.sql = s]
      OBVIOUS
    <2>6. a \in Attempt /\ a.sql = s
      BY <1>0, <2>5 DEF GoodAttempt, Attempt, AttemptStatus
    <2>7. PICK m, r : m = Mem(w) /\ r = NoResult
      OBVIOUS
    <2>8. PICK c : c = [pc |-> "commit", job |-> Job(w), mem |-> m, att |-> a, ret |-> r,
                        guarded |-> call[w].guarded, kept |-> NewSession,
                        prev |-> NoAttempt]
      OBVIOUS
    <2>g. /\ call[w].guarded \in BOOLEAN /\ GoodSession(NewSession) /\ GoodSession(NewSession)'
          /\ GoodAttempt(NoAttempt) /\ GoodAttempt(NoAttempt)' /\ Job(w) \in reported'
      BY <1>3, <2>1, <2>3, NewGood, CallParts DEF GoodCall, Call, AgentProposes, At, Job
    <2>9. Calls'
      <3>1. s # NoSql /\ GoodAttempt(a)' /\ GoodSession(m)' /\ GoodResult(r)'
        BY <1>0, <2>2, <2>3, <2>6, <2>7, PlainGood, ServiceAssumption DEF GoodAttempt
      <3>2. m \in Session /\ r \in Result
        BY <1>0, <2>7, PlainGood DEF GoodSession, GoodResult
      <3>3. c \in Call
        BY <2>1, <2>6, <2>8, <2>g, <3>2 DEF Call, Label, Event, GoodSession, GoodAttempt
      <3>4. GoodCall(c)'
        BY <2>1, <2>6, <2>8, <2>g, <3>1, <3>3 DEF GoodCall, SuccessLabel, Event
      <3>5. call' = [call EXCEPT ![w] = c]
        BY <1>3, <2>5, <2>7, <2>8, <2>g DEF AgentProposes, Continue, Kept, Marking, Job, Mem, Att
      <3>8. \A v \in Worker : call'[v] = c \/ call'[v] = call[v]
        BY <3>5 DEF Calls
      <3>9. ASSUME NEW v \in Worker, NEW x, x = call'[v] PROVE GoodCall(x)'
        BY <2>4, <3>4, <3>8, <3>9 DEF Calls
      <3>10. \A v \in Worker : GoodCall(call[v])'
        BY <3>9 DEF GoodCall, GoodSession, GoodAttempt, GoodResult
      <3> QED
        BY <3>3, <3>5, <3>10 DEF Calls
    <2>10. Disk'
      BY <1>3, <2>2, <2>3 DEF AgentProposes, Disk, files, ReportedSuccess
    <2>11. Answered'
      BY <1>3, <2>3 DEF AgentProposes, Answered
    <2>12. Rest'
      BY <1>3, <2>1, LocksStep DEF AgentProposes, Rest, Event
    <2> QED
      BY <2>9, <2>10, <2>11, <2>12
  <1>4. ASSUME NEW st \in {"HUMAN_REQUIRED", "VALIDATION_BLOCKED", "REFLECTION_BLOCKED"},
               AgentStops(w, st)
        PROVE  Provenance'
    <2>1. GoodAttempt(WithStatus(Att(w), st))
      BY <1>0, StatusGood DEF AttemptStatus
    <2>2. Calls'
      BY <1>0, <1>4, <1>a, <2>1, PlainGood, ContinueGood
         DEF AgentStops, At, Label, FailedLabel, SuccessLabel, history
    <2> QED
      BY <1>4, <2>1, <2>2, KeepDisk, LocksStep, KeepAnswered, SameSession DEF AgentStops, history,
             Rest
  <1>5. CASE StopRun(w) \/ SaveHumanSession(w)
    <2>1. \E l \in {"human", "discard"} : Goto(w, l)
      BY <1>5 DEF StopRun, SaveHumanSession
    <2>2. ~At(w, "idle") /\ Job(w) \in FailedEvent /\ UNCHANGED <<approved, reported>>
      BY <1>5, <1>a DEF StopRun, SaveHumanSession, At, FailedLabel, history
    <2>3. Calls'
      BY <2>1, <2>2, GotoGood DEF FailedLabel
    <2> QED
      BY <1>0, <1>5, <2>3, KeepDisk, LocksStep, KeepAnswered DEF StopRun, SaveHumanSession,
             history, Rest
  <1>6. CASE SaveHumanAttempt(w)
    <2>1. GoodAttempt(WithStatus(Att(w), "HUMAN_REQUIRED"))
      BY <1>0, StatusGood DEF AttemptStatus
    <2>2. GoodSession([Mem(w) EXCEPT !.status = "HUMAN_REQUIRED"])
      BY <1>0 DEF GoodSession, Session
    <2>3. Calls'
      BY <1>6, <1>a, <2>1, <2>2, PlainGood, ContinueGood
         DEF SaveHumanAttempt, At, Label, FailedLabel, SuccessLabel, history
    <2> QED
      BY <1>6, <2>1, <2>3, KeepDisk, LocksStep, KeepAnswered, SameSession DEF SaveHumanAttempt,
             history, Rest
  <1> QED
    BY <1>1, <1>2, <1>3, <1>4, <1>5, <1>6, <1>7, <1>8 DEF ServeRun

\* The committer saves the attempt, then the session.
LEMMA CommitStep ==
  ASSUME Provenance, NEW w \in Worker, ServeCommit(w)
  PROVE  Provenance'
  <1> USE DEF Provenance
  <1>0. GoodSession(Mem(w)) /\ GoodAttempt(Att(w))
    BY CallParts
  <1>a. ASSUME call[w].pc \in FailedLabel PROVE ~At(w, "idle") /\ Job(w) \in FailedEvent
    BY <1>a, CallParts DEF At, FailedLabel
  <1>1. CASE CommitFails(w) \/ CommitRefused(w)
    <2>1. Calls'
      BY <1>0, <1>1, <1>a, GotoGood, RescueGood
         DEF CommitFails, CommitRefused, At, FailedLabel, history
    <2> QED
      BY <1>1, <2>1, KeepDisk, LocksStep, KeepAnswered, SameSession
         DEF CommitFails, CommitRefused, files, history, Rest
  <1>2. CASE CommitAttempt(w)
    <2>1. At(w, "commit") /\ ~At(w, "idle") /\ Job(w) \in FailedEvent /\ UNCHANGED <<approved, reported>>
      BY <1>2, <1>a DEF CommitAttempt, At, FailedLabel, history
    <2>2. Att(w).sql # NoSql /\ Att(w).sql \in ApprovedSql
      BY <1>0, <2>1, CallParts DEF GoodCall, GoodAttempt, At, Att
    <2>3. PICK m : m = [session EXCEPT !.sql = Att(w).sql, !.sqlAttempt = Att(w).no,
                                       !.status = "SQL_READY_PENDING_UPSTREAM"]
      OBVIOUS
    <2>4. /\ m \in Session /\ m.sql = Att(w).sql /\ m.confirmedSql = session.confirmedSql
      BY <1>0, <2>3 DEF Disk, GoodSession, Session, GoodAttempt, Attempt
    <2>5. GoodSession(m)
      BY <2>2, <2>4 DEF GoodSession, Disk
    <2>6. Calls'
      BY <1>0, <1>2, <2>1, <2>2, <2>3, <2>5, SqlReadyGood, ContinueGood
         DEF CommitAttempt, Label, FailedLabel, SuccessLabel
    <2> QED
      BY <1>0, <1>2, <2>6, KeepDisk, LocksStep, KeepAnswered, SameSession DEF CommitAttempt,
             history, Rest
  <1>3. CASE CommitSession(w) \/ CommitDone(w)
    <2>1. Calls'
      BY <1>3, <1>a, GotoGood DEF CommitSession, CommitDone, At, FailedLabel, history
    <2> QED
      BY <1>0, <1>3, <2>1, KeepDisk, LocksStep, KeepAnswered, SameSession
         DEF CommitSession, CommitDone, history, Rest
  <1> QED
    BY <1>1, <1>2, <1>3 DEF ServeCommit

\* `_persist_external_result`: discard, store, finish.
LEMMA ResultStep ==
  ASSUME Provenance, NEW w \in Worker, ServeResult(w)
  PROVE  Provenance'
  <1> USE DEF Provenance
  <1>0. GoodSession(Mem(w)) /\ GoodAttempt(Att(w)) /\ GoodResult(call[w].ret)
    BY CallParts
  <1>a. ASSUME call[w].pc \in FailedLabel PROVE ~At(w, "idle") /\ Job(w) \in FailedEvent
    BY <1>a, CallParts DEF At, FailedLabel
  <1>1. CASE DiscardActive(w)
    <2>1. Calls'
      BY <1>1, <1>a, GotoGood DEF DiscardActive, At, FailedLabel, history
    <2>2. active' \in [Process -> SUBSET Event]
      BY <1>1 DEF DiscardActive, Rest
    <2> QED
      BY <1>1, <2>1, <2>2, KeepDisk, LocksStep, KeepAnswered, SameSession DEF DiscardActive, files,
             history,
             Rest
  <1>2. CASE WriteResult(w)
    <2>1. Calls'
      BY <1>2, <1>a, GotoGood DEF WriteResult, At, FailedLabel, history
    <2> QED
      BY <1>0, <1>2, <2>1, StoredGood, KeepDisk, LocksStep, KeepAnswered, SameSession
         DEF WriteResult, history, Rest
  <1>3. CASE FinishFailed(w)
    <2>1. ~At(w, "idle") /\ UNCHANGED <<approved, reported>>
      BY <1>3, <1>a DEF FinishFailed, At, FailedLabel, history
    <2>2. GoodSession(session')
      BY <1>0, <1>3, FinishOwnGood DEF FinishFailed
    <2> QED
      BY <1>0, <1>3, <2>1, <2>2, AnswerGood, StoredGood, KeepDisk, LocksStep DEF FinishFailed,
             history, Rest
  <1> QED
    BY <1>1, <1>2, <1>3 DEF ServeResult

\* A SUCCESS event, the memory write and its compensation included.
LEMMA SuccessStep ==
  ASSUME Provenance, NEW w \in Worker, ServeSuccess(w)
  PROVE  Provenance'
  <1> USE DEF Provenance
  <1>0. GoodSession(Mem(w)) /\ GoodAttempt(Att(w)) /\ GoodCall(call[w])
    BY CallParts
  <1>a. ASSUME call[w].pc \in SuccessLabel
        PROVE ~At(w, "idle") /\ Job(w) \in SuccessEvent /\ Job(w) \in Event
    BY <1>a, CallParts DEF At, SuccessLabel
  <1>b. ASSUME NEW l \in SuccessLabel \ {"confirm", "memory"}, Goto(w, l), UNCHANGED <<approved, reported>>,
               call[w].pc \in SuccessLabel
        PROVE  Calls'
    BY <1>0, <1>a, <1>b, CallParts, ContinueGood
       DEF Goto, SuccessLabel, FailedLabel, Label, Mem, Att
  <1>1. CASE AckDuplicate(w)
    BY <1>1, AnswerGood, StoredGood, KeepDisk, LocksStep, SameSession, PlainGood
       DEF AckDuplicate, FindSuccess, At, files, history, Rest
  <1>2. CASE RecordSuccess(w)
    <2>1. ~At(w, "idle") /\ Job(w) \in SuccessEvent /\ Job(w) \in Event /\ UNCHANGED <<approved, reported>>
      BY <1>2, CallParts DEF RecordSuccess, FindSuccess, At, history
    <2>2. Received \in Record
      BY ServiceAssumption DEF Received, NoRecord, Record
    <2>3. GoodSession(session') /\ GoodSession(PutRecord(Mem(w), Job(w), Received))
      BY <1>0, <1>2, <2>1, <2>2, PutGood DEF RecordSuccess, Disk
    <2>4. PICK m : GoodSession(m) /\ Continue(w, "match", m, NoAttempt, NoResult)
      BY <1>0, <1>2, <2>3 DEF RecordSuccess
    <2>5. Calls'
      BY <2>1, <2>4, PlainGood, NewGood, ContinueGood DEF Label, FailedLabel, SuccessLabel
    <2> QED
      BY <1>2, <2>3, <2>5, KeepDisk, LocksStep, KeepAnswered DEF RecordSuccess, history, Rest
  <1>3. CASE AckUnmatched(w)
    <2>1. ~At(w, "idle") /\ Job(w) \in Event /\ UNCHANGED <<approved, reported>>
      BY <1>3, <1>a DEF AckUnmatched, At, SuccessLabel, history
    <2>2. GoodSession(session')
      BY <1>0, <1>3, <2>1, FinishGood, ServiceAssumption DEF AckUnmatched
    <2> QED
      BY <1>3, <2>1, <2>2, AnswerGood, StoredGood, KeepDisk, LocksStep, PlainGood DEF AckUnmatched,
             history,
             Rest
  <1>4. CASE ConfirmAttempt(w)
    <2>1. /\ At(w, "match") /\ Matches(w)
          /\ ~At(w, "idle") /\ Job(w) \in SuccessEvent /\ Job(w) \in Event
      BY <1>4, <1>a DEF ConfirmAttempt, At, SuccessLabel
    <2>2. PICK n : n = Mem(w).sqlAttempt
      OBVIOUS
    <2>3. n \in AttemptNo /\ n # 0 /\ n \in 0 .. MaxAttempts
      BY <1>0, <2>1, <2>2, ServiceAssumption DEF GoodSession, Session, Matches, AttemptNo
    <2>4. Mem(w).sql \in Sql /\ Mem(w).sql # NoSql
          /\ Mem(w).sql \in ApprovedSql /\ ReportedSuccess(Mem(w).sql)
      BY <1>0, <2>1, CallParts, ServiceAssumption
         DEF Matches, GoodSession, ReportedSuccess, GoodCall, At, Job
    <2>5. PICK m : m = [Mem(w) EXCEPT !.status = "UPSTREAM_CONFIRMED_SUCCESS",
                                      !.confirmed = n, !.confirmedSql = Mem(w).sql]
      OBVIOUS
    <2>6. m \in Session /\ m.confirmed = n /\ m.confirmedSql = Mem(w).sql /\ m.sql = Mem(w).sql
      BY <1>0, <2>3, <2>4, <2>5 DEF GoodSession, Session
    <2>7. GoodSession(m)
      BY <2>4, <2>6 DEF GoodSession
    <2>8. PICK a : a = WithStatus(attempts[n], "UPSTREAM_CONFIRMED_SUCCESS")
      OBVIOUS
    <2>9. GoodAttempt(a)
      BY <2>3, <2>8, StatusGood DEF Disk, AttemptStatus
    <2>10. Continue(w, "confirm", m, a, NoResult) /\ attempts' = [attempts EXCEPT ![n] = a]
      BY <1>4, <2>2, <2>5, <2>8 DEF ConfirmAttempt
    <2>11. Calls'
      BY <1>4, <2>1, <2>3, <2>4, <2>6, <2>7, <2>9, <2>10, PlainGood, ContinueGood
         DEF ConfirmAttempt, Label, FailedLabel, SuccessLabel, history
    <2> QED
      BY <1>4, <2>9, <2>10, <2>11, KeepDisk, LocksStep, KeepAnswered,
             SameSession DEF ConfirmAttempt,
             history, Rest
  <1>5. CASE ConfirmSession(w)
    <2>1. At(w, "confirm") /\ Mem(w).confirmed # 0 /\ Mem(w).confirmedSql # NoSql
          /\ ~At(w, "idle") /\ Job(w) \in SuccessEvent
      BY <1>0, <1>5, <1>a DEF ConfirmSession, At, SuccessLabel, GoodCall, Mem
    <2>2. Continue(w, "memory", Mem(w), Att(w), call[w].ret) /\ GoodResult(call[w].ret)
      BY <1>0, <1>5 DEF ConfirmSession, Goto, Mem, Att, GoodCall
    <2>3. Calls'
      BY <1>0, <1>5, <2>1, <2>2, ContinueGood
         DEF ConfirmSession, Label, FailedLabel, SuccessLabel, history
    <2> QED
      BY <1>0, <1>5, <2>3, KeepDisk, LocksStep, KeepAnswered DEF ConfirmSession, history, Rest
  <1>6. CASE WriteMemory(w)
    <2>1. Mem(w).confirmed # 0 /\ Mem(w).confirmedSql # NoSql /\ call[w].pc \in SuccessLabel
      BY <1>0, <1>6 DEF WriteMemory, At, GoodCall, Mem, SuccessLabel
    <2>2. Mem(w).confirmed \in AttemptNo /\ Mem(w).confirmedSql \in Sql
      BY <1>0, <2>1, ServiceAssumption DEF GoodSession, Session, AttemptNo
    <2>3. Calls'
      BY <1>6, <1>b, <2>1 DEF WriteMemory, SuccessLabel, history
    <2>4. ApprovedSql' = ApprovedSql /\ \A x : ReportedSuccess(x)' <=> ReportedSuccess(x)
      BY <1>6 DEF WriteMemory, history, ApprovedSql, ReportedSuccess
    <2>5. PICK x : x = <<Mem(w).confirmed, Mem(w).confirmedSql>>
      OBVIOUS
    <2>6. x \in AttemptNo \X Sql /\ x[2] \in ApprovedSql /\ ReportedSuccess(x[2])
      BY <1>0, <2>1, <2>2, <2>5 DEF GoodSession
    <2>7. memory' = memory \cup {x}
      BY <1>6, <2>5 DEF WriteMemory
    <2>8. /\ memory' \subseteq AttemptNo \X Sql
          /\ \A y \in memory' : y[2] \in ApprovedSql' /\ ReportedSuccess(y[2])'
      BY <2>4, <2>6, <2>7 DEF Disk, ReportedSuccess
    <2>9. \A y : /\ GoodSession(y) <=> GoodSession(y)'
                 /\ GoodAttempt(y) <=> GoodAttempt(y)'
                 /\ StoredResult(y) <=> StoredResult(y)'
      BY <2>4 DEF GoodSession, GoodAttempt, StoredResult, Handed
    <2>10. UNCHANGED <<session, attempts, results>>
      BY <1>6 DEF WriteMemory, files
    <2>11. Disk'
      BY <2>8, <2>9, <2>10 DEF Disk
    <2> QED
      BY <1>6, <2>3, <2>11, LocksStep, KeepAnswered DEF WriteMemory, history, Rest
  <1>7. CASE MemoryDegraded(w)
    <2>1. Calls'
      BY <1>7, <1>b DEF MemoryDegraded, At, SuccessLabel, history
    <2> QED
      BY <1>7, <2>1, KeepDisk, LocksStep, KeepAnswered, SameSession DEF MemoryDegraded, files,
             history, Rest
  <1>8. CASE FinishSuccess(w) \/ FinishDegraded(w)
    <2>1. ~At(w, "idle") /\ Job(w) \in Event
      BY <1>8, <1>a DEF FinishSuccess, FinishDegraded, At, SuccessLabel
    <2>2. PICK c \in {"NONE", "DEGRADED"} : SaveFinished(w, c)
      BY <1>8 DEF FinishSuccess, FinishDegraded
    <2>3. GoodSession(session')
      BY <1>0, <2>1, <2>2, FinishGood, ServiceAssumption DEF SaveFinished, Disk
    <2> QED
      BY <2>1, <2>2, <2>3, AnswerGood, StoredGood, KeepDisk, LocksStep, PlainGood DEF SaveFinished,
             history,
             Rest
  <1>9. CASE DegradeTimeout(w)
    BY <1>9, AnswerGood, StoredGood, KeepDisk, LocksStep, SameSession,
           PlainGood DEF DegradeTimeout, At,
           files, history, Rest
  <1> QED
    BY <1>1, <1>2, <1>3, <1>4, <1>5, <1>6, <1>7, <1>8, <1>9, EnterStep DEF ServeSuccess

\* A file operation fails: at worst a good copy of the session is held longer.
LEMMA ErrorStep ==
  ASSUME Provenance, NEW w \in Worker, ErrorIsCaught(w) \/ ErrorIsRaised(w) \/ SuccessError(w)
  PROVE  Provenance'
  <1> USE DEF Provenance
  <1>1. /\ UNCHANGED <<session, attempts, results, memory, approved, reported, calls, crashes>>
        /\ faults' \in 0 .. MaxFaults
    BY ServiceAssumption DEF ErrorIsCaught, ErrorIsRaised, SuccessError, FileError, files, Rest
  <1>2. Disk'
    BY <1>1, KeepDisk, LocksStep, SameSession
  <1>3. ~At(w, "idle")
    BY DEF ErrorIsCaught, ErrorIsRaised, SuccessError, FileError, UsesFile, FindFailed,
           FindSuccess, At
  <1>4. /\ GoodSession(Mem(w)) /\ GoodAttempt(Att(w)) /\ GoodSession(call[w].kept)
        /\ call[w].pc \in Label /\ Job(w) \in Event
    BY <1>3, CallParts DEF GoodCall
  <1>5. StoredResult(Human) /\ StoredResult(Unreadable)
    BY PlainGood, StoredGood DEF StoredResult, Unreadable, Plain, Result
  <1>6. CASE ErrorIsCaught(w)
    <2>1. UNCHANGED <<active, answers>> /\ Rescue(w, HandlersCopy(w)) /\ ReleaseLock(w)
          /\ Job(w) \in FailedEvent
      BY <1>6, CallParts DEF ErrorIsCaught, GoodCall, Job
    <2>2. GoodSession(HandlersCopy(w))
      BY <1>4, FinishOwnGood DEF HandlersCopy
    <2>3. Calls'
      BY <1>1, <1>3, <2>1, <2>2, RescueGood
    <2> QED
      BY <1>1, <1>2, <2>1, <2>3, KeepAnswered, LocksStep DEF Rest
  <1>7. ASSUME NEW r \in {Human, Unreadable}, Answer(w, r), active' \in [Process -> SUBSET Event]
        PROVE  Provenance'
    <2>1. Calls' /\ Answered' /\ Locks'
      BY <1>1, <1>3, <1>5, <1>7, AnswerGood
    <2> QED
      BY <1>1, <1>2, <1>7, <2>1 DEF Rest
  <1>8. CASE ErrorIsRaised(w)
    <2>1. active' \in [Process -> SUBSET Event] /\ Answer(w, Unreadable)
      BY <1>4, <1>8 DEF ErrorIsRaised, Rest
    <2> QED
      BY <1>7, <2>1
  <1>9. CASE SuccessError(w)
    <2>1. active' \in [Process -> SUBSET Event]
      BY <1>9 DEF SuccessError, Rest
    <2>2. CASE Goto(w, "degrade_lock") /\ ReleaseLock(w) /\ UNCHANGED answers
      <3>1. GoodResult(call[w].ret) /\ Job(w) \in SuccessEvent
        BY <1>9, CallParts DEF SuccessError
      <3>2. Calls'
        BY <1>1, <1>3, <1>4, <2>2, <3>1, ContinueGood
           DEF Goto, Label, FailedLabel, SuccessLabel, Mem, Att
      <3> QED
        BY <1>1, <1>2, <2>1, <2>2, <3>2, KeepAnswered, LocksStep DEF Rest
    <2> QED
      BY <1>7, <1>9, <2>1, <2>2 DEF SuccessError
  <1> QED
    BY <1>6, <1>8, <1>9

\* What is good stays good when the upstream has reported more.
LEMMA MoreReported ==
  ASSUME UNCHANGED approved, reported \subseteq reported'
  PROVE  /\ \A x : /\ GoodSession(x) => GoodSession(x)'
                   /\ GoodAttempt(x) => GoodAttempt(x)'
                   /\ StoredResult(x) => StoredResult(x)'
         /\ \A c : GoodCall(c) => GoodCall(c)'
         /\ \A s : ReportedSuccess(s) => ReportedSuccess(s)'
         /\ ApprovedSql' = ApprovedSql
  <1>1. /\ ApprovedSql' = ApprovedSql /\ Handed' = Handed
        /\ \A s : ReportedSuccess(s) => ReportedSuccess(s)'
    BY DEF ApprovedSql, Handed, ReportedSuccess
  <1>2. \A x : /\ GoodSession(x) => GoodSession(x)'
               /\ GoodAttempt(x) => GoodAttempt(x)'
               /\ GoodResult(x) => GoodResult(x)'
               /\ StoredResult(x) => StoredResult(x)'
    BY <1>1 DEF GoodSession, GoodAttempt, GoodResult, StoredResult, ReportedSuccess
  <1>3. \A c : GoodCall(c) => GoodCall(c)'
    BY <1>2 DEF GoodCall
  <1> QED
    BY <1>1, <1>2, <1>3

\* Steps outside the handlers: a call arrives, a process dies, a stale lock file
\* is found or removed, nothing happens.
LEMMA OuterStep ==
  ASSUME Provenance,
         \/ \E w \in Worker, e \in Event : Submit(w, e)
         \/ \E p \in Process : Crash(p)
         \/ \E w \in Worker : FindStale(w) \/ RemoveStale(w)
         \/ UNCHANGED vars
  PROVE  Provenance'
  <1> USE DEF Provenance
  <1>1. UNCHANGED <<session, attempts, results, memory, answers, approved>>
        /\ reported \subseteq reported'
    BY DEF Submit, Crash, FindStale, RemoveStale, vars, files, history
  <1>a. UNCHANGED approved /\ reported \subseteq reported'
    BY <1>1
  <1>b. /\ \A x : /\ GoodSession(x) => GoodSession(x)'
                  /\ GoodAttempt(x) => GoodAttempt(x)'
                  /\ StoredResult(x) => StoredResult(x)'
        /\ \A c : GoodCall(c) => GoodCall(c)'
        /\ \A s : ReportedSuccess(s) => ReportedSuccess(s)'
        /\ ApprovedSql' = ApprovedSql
    BY <1>a, MoreReported
  <1>2. Disk' /\ Answered'
    <2>1. Disk'
      BY <1>1, <1>b DEF Disk, ReportedSuccess
    <2>2. Answered'
      BY <1>1, <1>b DEF Answered
    <2> QED
      BY <2>1, <2>2
  <1>3. \A c : GoodCall(c) => GoodCall(c)'
    BY <1>b
  <1>4. ASSUME NEW w \in Worker, NEW e \in Event, Submit(w, e) PROVE Provenance'
    <2>1. PICK c : c = [IdleCall EXCEPT !.pc = "lock", !.job = e]
      OBVIOUS
    <2>0. e \in reported'
      BY <1>4 DEF Submit
    <2>2. c \in Call /\ GoodCall(c)'
      <3>1. c = [pc |-> "lock", job |-> e, mem |-> NewSession, att |-> NoAttempt, ret |-> NoResult,
                 guarded |-> FALSE, kept |-> NewSession, prev |-> NoAttempt]
        BY <2>1 DEF IdleCall
      <3>2. GoodSession(NewSession) /\ GoodAttempt(NoAttempt) /\ GoodCall(IdleCall)
        BY NewGood
      <3>3. GoodSession(NewSession)' /\ GoodAttempt(NoAttempt)' /\ GoodCall(IdleCall)'
        BY <1>b, <3>2
      <3>4. c \in Call
        BY <3>1, <3>2, PlainGood DEF Call, Label, GoodSession, GoodAttempt, GoodResult
      <3> QED
        BY <2>0, <3>1, <3>3, <3>4 DEF GoodCall, IdleCall, FailedLabel, SuccessLabel
    <2>3. call' = [call EXCEPT ![w] = c]
      BY <1>4, <2>1 DEF Submit
    <2>4. Calls'
      <3>2. call' \in [Worker -> Call] /\ \A v \in Worker : call'[v] = c \/ call'[v] = call[v]
        BY <2>2, <2>3 DEF Calls
      <3>3. ASSUME NEW v \in Worker, NEW x, x = call'[v] PROVE GoodCall(x)'
        BY <1>3, <2>2, <3>2, <3>3 DEF Calls
      <3>4. \A v \in Worker : GoodCall(call[v])'
        BY <3>3 DEF GoodCall, GoodSession, GoodAttempt, GoodResult
      <3> QED
        BY <3>2, <3>4 DEF Calls
    <2>5. Rest'
      <3>1. UNCHANGED <<mutex, active, approved, crashes, faults>> /\ calls' = calls + 1
            /\ calls < MaxCalls /\ reported' = reported \cup {e}
        BY <1>4 DEF Submit
      <3> QED
        BY <3>1, LocksStep, ServiceAssumption DEF Rest
    <2> QED
      BY <1>2, <2>4, <2>5
  <1>5. ASSUME NEW p \in Process, Crash(p) PROVE Provenance'
    <2>1. \A v \in Worker : call'[v] = IdleCall \/ call'[v] = call[v]
      BY <1>5 DEF Crash
    <2>2. ASSUME NEW v \in Worker, NEW x, x = call'[v] PROVE GoodCall(x)' /\ x \in Call
      BY <1>3, <2>1, <2>2, NewGood DEF Calls, GoodCall
    <2>3. call' \in [Worker -> Call]
      BY <1>5, <2>2 DEF Crash
    <2>4. \A v \in Worker : GoodCall(call[v])'
      BY <2>2 DEF GoodCall, GoodSession, GoodAttempt, GoodResult
    <2>5. Locks'
      BY <1>5 DEF Crash, Locks, Rest, Look
    <2>6. Rest'
      BY <1>1, <1>5, <2>5, ServiceAssumption DEF Crash, Rest
    <2> QED
      BY <1>2, <2>3, <2>4, <2>6 DEF Calls
  <1>6. CASE (\E w \in Worker : FindStale(w) \/ RemoveStale(w)) \/ UNCHANGED vars
    <2>1. UNCHANGED <<call, reported, active, calls, crashes, faults>>
      BY <1>6 DEF FindStale, RemoveStale, vars, history
    <2>2. Calls'
      BY <1>3, <2>1 DEF Calls
    <2>3. Locks'
      BY <1>6 DEF FindStale, RemoveStale, vars, mutex, Locks, Rest, Look
    <2> QED
      BY <1>1, <1>2, <2>1, <2>2, <2>3 DEF Rest
  <1> QED
    BY <1>4, <1>5, <1>6

\* Every step preserves the invariant.
LEMMA ProvenanceStep == Provenance /\ [Next]_vars => Provenance'
  <1>1. ASSUME Provenance, NEW w \in Worker, Serve(w) PROVE Provenance'
    BY <1>1, EnterStep, DuplicateStep, NewStep, RunStep, CommitStep, ResultStep, SuccessStep,
           OuterStep
       DEF Serve
  <1> QED
    BY <1>1, ErrorStep, OuterStep DEF Next, Quiet

-----------------------------------------------------------------------------
(* The theorems *)

\* All SQL in the files, in the memory of the calls and in the answers of the service
\* comes from a run that approved it, whatever overlaps, dies or is lost.
THEOREM ProvenanceInvariant == Spec => []Provenance
  BY ProvenanceInit, ProvenanceStep, PTL DEF Spec

\* Files, memory, lock, calls in progress and answers stay in their types.
THEOREM TypeCorrect == Spec => []TypeOK
  <1>1. Provenance => TypeOK
    BY DEF Provenance, TypeOK, Disk, Calls, Answered, Rest, Locks, GoodSession, GoodCall
  <1> QED
    BY <1>1, ProvenanceInvariant, PTL

\* Whatever overlaps, dies, is recovered or overwritten: SQL is answered as
\* SQL_READY only if the gates approved it in some run of the agent, or it is
\* what the sanitizer of external_result.json made of such SQL.
THEOREM OnlyHanded == Spec => [](Delivered \subseteq Handed)
  <1>1. Provenance => Delivered \subseteq Handed
    BY DEF Provenance, Answered, StoredResult, Delivered
  <1> QED
    BY <1>1, ProvenanceInvariant, PTL

\* SQL that names nothing the sanitizer replaces is always answered as it was
\* approved.
THEOREM OnlyApproved == ASSUME NothingRedacted PROVE Spec => []OnlyApprovedSql
  <1>1. Handed \subseteq ApprovedSql
    BY NothingRedacted DEF NothingRedacted, Handed, ApprovedSql
  <1>2. Delivered \subseteq Handed => OnlyApprovedSql
    BY <1>1 DEF OnlyApprovedSql
  <1> QED
    BY <1>2, OnlyHanded, PTL

\* And memory learns, and the session confirms, only approved SQL that the
\* upstream reported SUCCESS for.
THEOREM LearnedFromSuccess == Spec => []ExperienceConfirmed
  <1>1. Provenance => ExperienceConfirmed
    BY DEF Provenance, Disk, GoodSession, ExperienceConfirmed
  <1> QED
    BY <1>1, ProvenanceInvariant, PTL
=============================================================================
