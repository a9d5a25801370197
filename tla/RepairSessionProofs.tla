------------------------- MODULE RepairSessionProofs -------------------------
(***************************************************************************)
(* What RepairService promises about the records of one session when its   *)
(* calls do not overlap: whatever process deaths and file errors come      *)
(* between any two writes, and however often an event is reported again,   *)
(* every event keeps its one attempt, a finished event keeps its result,   *)
(* and its callers are all answered the same.  Overlapping calls are       *)
(* excluded by a hypothesis, OneCall: whole-session saves of two calls     *)
(* overwrite each other, and these properties are lost (see the runs).     *)
(***************************************************************************)
EXTENDS RepairServiceProofs

\* No two calls are under way at once.
OneCall == \A v, w \in Worker : ~At(v, "idle") /\ ~At(w, "idle") => v = w

-----------------------------------------------------------------------------
(* The records: the inductive invariant Orderly *)

\* What the record of event e in a copy s of the session points to, among the
\* attempts A and the results R: an attempt the copy counts, made for e, and, if
\* any, the stored result of that attempt.
Entry(s, e, A, R) ==
  LET r == s.events[e]
  IN  /\ r.attempt # 0 => r.attempt <= s.count /\ A[r.attempt].key = e
      /\ r.ref # 0 => r.ref = r.attempt /\ R[r.ref] # NoResult

\* The candidate of a copy is the SQL of the attempt it names.
Candidate(s, A) ==
  s.sqlAttempt # 0 => s.sqlAttempt <= s.count /\ s.sql # NoSql /\ A[s.sqlAttempt].sql = s.sql

Book(s, A, R) == (\A e \in FailedEvent : Entry(s, e, A, R)) /\ Candidate(s, A)

\* The file of an attempt has its number, belongs to a recorded event, and
\* proposes SQL only once that was approved for the event.
Numbered(n) ==
  LET a == attempts[n]
  IN  a # NoAttempt =>
        /\ a.no = n /\ a.status # "ABSENT" /\ a.key \in FailedEvent /\ Recorded(session, a.key)
        /\ a.status = "CREATED" => a.sql = NoSql
        /\ a.sql # NoSql => <<a.key, a.sql>> \in approved

Filed == Book(session, attempts, results) /\ \A n \in AttemptNo : Numbered(n)

\* Labels at which a call has no copy it relies on, at which its copy is ahead
\* of the file for its own event, and at which it works on an attempt.
Reloads == {"idle", "lock", "memory", "finish_lock", "degrade_lock"}
Ahead == {"link", "human", "human_session"}
Owning == FailedLabel \ {"create", "link", "unsafe"}

\* Labels at which the answer is decided and not yet stored.
Deciding == {"stop", "human_session", "commit_session", "commit_done", "discard", "persist"}

\* The copy a call holds is the file's, but for the record of its own event.
Current(w) ==
  /\ call[w].pc \notin Reloads =>
       /\ Book(Mem(w), attempts, results)
       /\ \A x \in Event \ {Job(w)} : Mem(w).events[x] = session.events[x]
  /\ call[w].pc \notin Reloads \cup {"link"} => Mem(w).count = session.count
  /\ call[w].pc \notin Reloads \cup Ahead => Mem(w).events = session.events
  /\ call[w].pc \in {"commit_session", "commit_done"} =>
       /\ Book(call[w].kept, attempts, results)
       /\ call[w].kept.count = session.count /\ call[w].kept.events = session.events

\* A call that works on an attempt has the one that its event's record names,
\* and its copy of the attempt is at most ahead of the file by approved SQL.
Owns(w) ==
  LET a == Att(w)  n == Att(w).no
  IN  /\ call[w].pc \in Owning =>
           /\ n # 0 /\ a.key = Job(w) /\ a.status # "ABSENT"
           /\ session.events[Job(w)].attempt = n /\ Mem(w).events[Job(w)].attempt = n
           /\ Recorded(Mem(w), Job(w))
           /\ a.sql # NoSql => <<Job(w), a.sql>> \in approved
           /\ attempts[n].sql \in {NoSql, a.sql}
      /\ call[w].pc \in {"begin", "input", "previous", "run"} => a.sql = NoSql
      /\ call[w].pc \in {"commit", "commit_session", "commit_done"} => a.status = "SQL_READY"
      /\ call[w].pc \in Deciding => call[w].ret # NoResult
      /\ At(w, "finish") => results[n] # NoResult
      /\ call[w].guarded => call[w].pc \in Owning \ {"begin", "input", "previous"}

\* A call that creates an attempt does so for an event that has none, and one
\* that marks an attempt has it as it is on file.
Prepares(w) ==
  /\ At(w, "create") =>
       /\ Recorded(session, Job(w)) /\ session.events[Job(w)].attempt = 0
       /\ \A n \in AttemptNo : attempts[n].key # Job(w)
  /\ At(w, "link") =>
       /\ Mem(w).count = session.count + 1
       /\ Att(w) = [no |-> Mem(w).count, status |-> "CREATED", key |-> Job(w), sql |-> NoSql]
       /\ attempts[Att(w).no] = Att(w)
       /\ Mem(w).events[Job(w)].attempt = Att(w).no
       /\ Mem(w).events[Job(w)].ref = 0 /\ session.events[Job(w)].ref = 0
       /\ Recorded(Mem(w), Job(w))
  /\ At(w, "previous") =>
       Mem(w).sqlAttempt # 0 /\ call[w].prev = Marking(w, "previous")

\* While nothing has failed, only an event without a result is worked on.
Unfinished(w) ==
  faults = 0 /\ call[w].pc \in FailedLabel =>
    session.events[Job(w)].ref = 0 /\ Mem(w).events[Job(w)].ref = 0

Works(w) == Current(w) /\ Owns(w) /\ Prepares(w) /\ Unfinished(w)

Orderly == Filed /\ \A w \in Worker : Works(w)

-----------------------------------------------------------------------------
(* The answers: the inductive invariant Consistent *)

\* What the caller of event e may be answered.
Fair(e, r) ==
  \/ r = Human
  \/ r = Plain("NO_SQL")
  \/ \E s \in Sql : r = SqlReady(s) /\ <<e, s>> \in approved

\* A stored result is one of an attempt the session counts.
Earned(n) == results[n] # NoResult => n <= session.count /\ Fair(attempts[n].key, results[n])

\* Answers other than "retry" and exceptions.
Final(e) == answers[e] \ {Busy, Unreadable}

\* An attempt from which no SQL can be answered any more.
Settled == {"HUMAN_REQUIRED", "VALIDATION_BLOCKED", "REFLECTION_BLOCKED",
            "UPSTREAM_FAILED", "UPSTREAM_CONFIRMED_SUCCESS"}

\* An answer r of event e is on file: it is the stored result, or there is
\* none, r was HUMAN_REQUIRED, and nothing else can follow.
Given(e, r) ==
  LET own == session.events[e]
  IN  /\ Recorded(session, e) /\ Fair(e, r)
      /\ own.ref # 0 => results[own.ref] = r
      /\ own.ref = 0 => r = Human /\ (own.attempt # 0 => attempts[own.attempt].status \in Settled)

Agreed == \A e \in FailedEvent : \A r \in Final(e) : Given(e, r)

NoSqlForSuccess == \A e \in SuccessEvent : \A r \in answers[e] : r.status # "SQL_READY"

\* What a call is about to answer.
Returns(w) ==
  LET r == call[w].ret
  IN  /\ call[w].pc \in {"commit_session", "commit_done"} => r = SqlReady(Att(w).sql) /\ Att(w).sql # NoSql
      /\ At(w, "stop") => r \in {Human, Plain("NO_SQL")}
      /\ At(w, "human_session") => r = Human
      /\ call[w].pc \in {"discard", "persist", "finish"} => Fair(Job(w), r)
      /\ At(w, "finish") => results[Att(w).no] = r

\* An event that was answered is only worked on again where HUMAN_REQUIRED was
\* the answer, and will be the next one.
Repeats(w) ==
  /\ call[w].pc \in FailedLabel /\ Final(Job(w)) # {} =>
       /\ call[w].pc \in {"unsafe", "discard", "persist", "finish"} /\ ~call[w].guarded
       /\ session.events[Job(w)].ref = 0
       /\ call[w].pc # "unsafe" => call[w].ret = Human /\ attempts[Att(w).no].status \in Settled
  /\ At(w, "unsafe") =>
       /\ session.events[Job(w)].ref = 0
       /\ session.events[Job(w)].attempt # 0 => attempts[session.events[Job(w)].attempt].status \in Settled

Consistent ==
  /\ \A n \in AttemptNo : Earned(n)
  /\ Agreed /\ NoSqlForSuccess
  /\ \A w \in Worker : Returns(w) /\ Repeats(w)

-----------------------------------------------------------------------------
(* The data the steps handle *)

\* Files and what a call holds are of their types.
LEMMA Parts ==
  ASSUME Provenance, NEW w \in Worker
  PROVE  /\ session \in Session /\ attempts \in [AttemptNo -> Attempt]
         /\ results \in [AttemptNo -> Result]
         /\ Mem(w) \in Session /\ Att(w) \in Attempt /\ call[w].ret \in Result
         /\ call[w].kept \in Session /\ call[w].guarded \in BOOLEAN /\ call[w].pc \in Label
         /\ ~At(w, "idle") => Job(w) \in Event
         /\ call[w].pc \in FailedLabel \/ call[w].guarded => Job(w) \in FailedEvent
         /\ call[w].pc \in SuccessLabel => Job(w) \in SuccessEvent
  <1>1. GoodCall(call[w])
    BY DEF Provenance, Calls
  <1> QED
    BY <1>1 DEF Provenance, Disk, GoodSession, GoodCall, GoodAttempt, GoodResult, Call, Mem, Att,
           Job, At

\* The fields of a session copy in which one record was replaced.
LEMMA PutIs ==
  ASSUME NEW m \in Session, NEW e \in Event, NEW r \in Record, NEW q, q = PutRecord(m, e, r)
  PROVE  /\ q \in Session /\ q.events[e] = r /\ \A x \in Event \ {e} : q.events[x] = m.events[x]
         /\ q.count = m.count /\ q.sql = m.sql /\ q.sqlAttempt = m.sqlAttempt
  BY DEF PutRecord, Session

\* q is m with the record of e finished.
FinishedAs(q, m, e, st, n) ==
  /\ q \in Session /\ \A x \in Event \ {e} : q.events[x] = m.events[x]
  /\ q.events[e].status = st /\ q.events[e].ref = n
  /\ q.events[e].attempt = m.events[e].attempt
  /\ q.count = m.count /\ q.sql = m.sql /\ q.sqlAttempt = m.sqlAttempt

\* What finishing an event (`session_store.py:finish_event`) does to a session.
LEMMA FinishIs ==
  ASSUME NEW m \in Session, NEW e \in Event, NEW st \in {"SUCCEEDED", "SYSTEM_ERROR"},
         NEW n \in 0 .. MaxAttempts, NEW c \in {"NONE", "UNMATCHED", "DEGRADED", "RECOVERY"},
         NEW q, q = FinishEvent(m, e, st, n, c)
  PROVE  FinishedAs(q, m, e, st, n)
  <1>1. m.events[e] \in Record
    BY DEF Session
  <1>2. PICK r : r = [RecordOf(m, e) EXCEPT !.status = st, !.ref = n, !.error = c]
    OBVIOUS
  <1>3. r \in Record /\ r.status = st /\ r.ref = n /\ r.attempt = m.events[e].attempt
    BY <1>1, <1>2 DEF Record, RecordOf
  <1>4. q = PutRecord(m, e, r)
    BY <1>2 DEF FinishEvent
  <1> QED
    BY <1>3, <1>4, PutIs DEF FinishedAs

\* Two copies that agree on records, count and candidate are as good.
LEMMA BookSame ==
  ASSUME NEW A, NEW R, NEW m, NEW q, Book(m, A, R),
         q.events = m.events, q.count = m.count, q.sql = m.sql, q.sqlAttempt = m.sqlAttempt
  PROVE  Book(q, A, R)
  BY DEF Book, Entry, Candidate

\* A record may be replaced by one that points to the same attempt, and to no
\* result or to the stored one of the attempt.
LEMMA BookPut ==
  ASSUME NEW A, NEW R, NEW m \in Session, NEW q \in Session, NEW e \in Event, Book(m, A, R),
         \A x \in Event \ {e} : q.events[x] = m.events[x],
         q.count = m.count, q.sql = m.sql, q.sqlAttempt = m.sqlAttempt,
         e \in FailedEvent => Entry(q, e, A, R)
  PROVE  Book(q, A, R)
  <1>1. ASSUME NEW x \in FailedEvent PROVE Entry(q, x, A, R)
    BY DEF Book, Entry, Event
  <1> QED
    BY <1>1 DEF Book, Candidate

\* A copy stays good while the attempts it counts keep their event and their
\* SQL, and results stay.
LEMMA BookStays ==
  ASSUME NEW A, NEW A2, NEW R, NEW R2, NEW s \in Session, Book(s, A, R),
         \A n \in AttemptNo : n <= s.count =>
           A2[n].key = A[n].key /\ (A[n].sql # NoSql => A2[n].sql = A[n].sql),
         \A n \in AttemptNo : R[n] # NoResult => R2[n] # NoResult
  PROVE  Book(s, A2, R2)
  <1>1. ASSUME NEW e \in FailedEvent PROVE Entry(s, e, A2, R2)
    <2>1. s.events[e] \in Record
      BY DEF Session, Event
    <2>2. s.events[e].attempt \in 0 .. MaxAttempts
      BY <2>1 DEF Record
    <2>3. Entry(s, e, A, R)
      BY DEF Book
    <2> QED
      BY <2>2, <2>3, ServiceAssumption DEF Entry, AttemptNo
  <1>2. Candidate(s, A2)
    <2>1. s.sqlAttempt \in 0 .. MaxAttempts /\ Candidate(s, A)
      BY DEF Session, Book
    <2> QED
      BY <2>1, ServiceAssumption DEF Candidate, AttemptNo
  <1> QED
    BY <1>1, <1>2 DEF Book

-----------------------------------------------------------------------------
(* How a step changes the call it belongs to *)

\* `Continue` moves one call on, with new copies.
LEMMA ContinueIs ==
  ASSUME Provenance, NEW w \in Worker, NEW l, NEW m, NEW a, NEW r, Continue(w, l, m, a, r)
  PROVE  /\ call'[w].pc = l /\ Mem(w)' = m /\ Job(w)' = Job(w) /\ Att(w)' = a /\ call'[w].ret = r
         /\ call'[w].guarded => call[w].guarded \/ l = "run"
         /\ call'[w].kept = Kept(w, l) /\ call'[w].prev = Marking(w, l)
         /\ \A v \in Worker : v # w => call'[v] = call[v]
  BY DEF Continue, Provenance, Calls, Mem, Job, Att

\* `Goto` moves one call on, with the copies it has.
LEMMA GotoIs ==
  ASSUME Provenance, NEW w \in Worker, NEW l, Goto(w, l)
  PROVE  /\ call'[w].pc = l /\ Mem(w)' = Mem(w) /\ Job(w)' = Job(w) /\ Att(w)' = Att(w)
         /\ call'[w].ret = call[w].ret
         /\ call'[w].guarded => call[w].guarded \/ l = "run"
         /\ call'[w].kept = Kept(w, l) /\ call'[w].prev = Marking(w, l)
         /\ \A v \in Worker : v # w => call'[v] = call[v]
  BY DEF Goto, Continue, Provenance, Calls, Mem, Job, Att

\* The except clause of the run goes to the answer `HUMAN_REQUIRED`.
LEMMA RescueIs ==
  ASSUME Provenance, NEW w \in Worker, NEW m, Rescue(w, m)
  PROVE  /\ call'[w].pc = "human" /\ Mem(w)' = m /\ Job(w)' = Job(w) /\ Att(w)' = Att(w)
         /\ ~call'[w].guarded
         /\ \A v \in Worker : v # w => call'[v] = call[v]
  <1>1. call[w] \in Call /\ call' = [call EXCEPT ![w] = [call[w] EXCEPT !.pc = "human", !.mem = m, !.guarded = FALSE,
                                                     !.kept = NewSession]]
    BY DEF Rescue, Provenance, Calls
  <1> QED
    BY <1>1 DEF Provenance, Calls, Call, Mem, Job, Att

\* An answered call is over.
LEMMA AnswerIs ==
  ASSUME Provenance, NEW w \in Worker, NEW r, Answer(w, r)
  PROVE  /\ call'[w].pc = "idle" /\ ~call'[w].guarded
         /\ \A v \in Worker : v # w => call'[v] = call[v]
  BY DEF Answer, Provenance, Calls, IdleCall

\* A call that holds no copy asks nothing.
LEMMA Rests ==
  ASSUME NEW w \in Worker, call'[w].pc \in Reloads, ~call'[w].guarded
  PROVE  Works(w)'
  <1>1. Current(w)' /\ Owns(w)'
    BY DEF Current, Owns, Reloads, Owning, FailedLabel, Deciding, At
  <1>2. Prepares(w)' /\ Unfinished(w)'
    BY DEF Prepares, Unfinished, Reloads, FailedLabel, At
  <1> QED
    BY <1>1, <1>2 DEF Works

\* Only the call that makes the step needs a look.
LEMMA OthersRest ==
  ASSUME OneCall, OneCall', Orderly, NEW w \in Worker,
         ~At(w, "idle") \/ ~At(w, "idle")',
         \A v \in Worker : v # w => call'[v] = call[v],
         Filed', Works(w)'
  PROVE  Orderly'
  <1>1. ASSUME NEW v \in Worker, v # w PROVE Works(v)'
    <2>1. At(v, "idle") /\ At(v, "idle")'
      BY <1>1 DEF OneCall, At
    <2>2. ~call[v].guarded
      BY <2>1 DEF Orderly, Works, Owns, At, Owning, FailedLabel
    <2> QED
      BY <1>1, <2>1, <2>2, Rests DEF At, Reloads
  <1> QED
    BY <1>1 DEF Orderly

-----------------------------------------------------------------------------
(* How a step changes the files *)

\* The attempt a record names is on file, and is what it should be.
LEMMA KnownAttempt ==
  ASSUME Provenance, Filed, NEW e \in FailedEvent, NEW k, k = session.events[e].attempt, k # 0
  PROVE  /\ k \in AttemptNo /\ k <= session.count
         /\ attempts[k] \in Attempt /\ attempts[k].key = e /\ attempts[k].no = k
         /\ attempts[k].status # "ABSENT" /\ Recorded(session, e)
         /\ attempts[k].status = "CREATED" => attempts[k].sql = NoSql
         /\ attempts[k].sql # NoSql => <<e, attempts[k].sql>> \in approved
  <1>1. session \in Session /\ attempts \in [AttemptNo -> Attempt]
    BY DEF Provenance, Disk, GoodSession
  <1>2. session.events[e] \in Record
    BY <1>1 DEF Session, Event
  <1>3. k \in AttemptNo
    BY <1>2, ServiceAssumption DEF Record, AttemptNo
  <1>4. attempts[k].key = e /\ k <= session.count
    BY DEF Filed, Book, Entry
  <1>5. Numbered(k) /\ attempts[k] # NoAttempt
    BY <1>3, <1>4, ServiceAssumption DEF Filed, NoAttempt, Event
  <1> QED
    BY <1>1, <1>3, <1>4, <1>5 DEF Numbered

\* So is the attempt of a candidate.
LEMMA KnownCandidate ==
  ASSUME Provenance, Filed, NEW s \in Session, Book(s, attempts, results),
         NEW k, k = s.sqlAttempt, k # 0
  PROVE  /\ k \in AttemptNo /\ k <= s.count /\ s.sql # NoSql
         /\ attempts[k] \in Attempt /\ attempts[k].sql = s.sql /\ attempts[k].no = k
         /\ attempts[k].key \in FailedEvent /\ <<attempts[k].key, s.sql>> \in approved
         /\ Numbered(k) /\ attempts[k] # NoAttempt
  <1>1. k \in AttemptNo
    BY ServiceAssumption DEF Session, AttemptNo
  <1>2. attempts \in [AttemptNo -> Attempt]
    BY DEF Provenance, Disk
  <1>3. k <= s.count /\ s.sql # NoSql /\ attempts[k].sql = s.sql
    BY DEF Book, Candidate
  <1>4. Numbered(k) /\ attempts[k] # NoAttempt
    BY <1>1, <1>3 DEF Filed, NoAttempt
  <1> QED
    BY <1>1, <1>2, <1>3, <1>4 DEF Numbered

\* When no file changes, the order of the records does not.
LEMMA SameFiles ==
  ASSUME Filed, UNCHANGED files, approved \subseteq approved'
  PROVE  Filed'
  BY DEF Filed, files, Numbered

\* session.json is replaced by a good copy that forgets no event.
LEMMA SessionWrite ==
  ASSUME Filed, Book(session', attempts, results), UNCHANGED <<attempts, results, approved>>,
         \A e \in FailedEvent : Recorded(session, e) => Recorded(session', e)
  PROVE  Filed'
  BY DEF Filed, Numbered

\* An attempt is saved again, for the same event, with its SQL or, if it had
\* none, with approved SQL.
LEMMA AttemptWrite ==
  ASSUME Provenance, Filed, NEW n \in AttemptNo, NEW a \in Attempt,
         attempts' = [attempts EXCEPT ![n] = a], UNCHANGED <<session, results, approved>>,
         a.key = attempts[n].key, attempts[n].sql # NoSql => a.sql = attempts[n].sql,
         a.no = n, a.status # "ABSENT", a.key \in FailedEvent, Recorded(session, a.key),
         a.status = "CREATED" => a.sql = NoSql,
         a.sql # NoSql => <<a.key, a.sql>> \in approved
  PROVE  /\ Filed' /\ attempts'[n] = a
         /\ \A s \in Session : Book(s, attempts, results) => Book(s, attempts', results')
  <1>1. attempts \in [AttemptNo -> Attempt] /\ session \in Session
    BY DEF Provenance, Disk, GoodSession
  <1>2. \A k \in AttemptNo : attempts'[k].key = attempts[k].key
                          /\ (attempts[k].sql # NoSql => attempts'[k].sql = attempts[k].sql)
    BY <1>1
  <1>3. ASSUME NEW s \in Session, Book(s, attempts, results) PROVE Book(s, attempts', results')
    <2>1. PICK A, A2, R, R2 : A = attempts /\ A2 = attempts' /\ R = results /\ R2 = results'
      OBVIOUS
    <2>2. /\ \A k \in AttemptNo : k <= s.count =>
                A2[k].key = A[k].key /\ (A[k].sql # NoSql => A2[k].sql = A[k].sql)
          /\ \A k \in AttemptNo : R[k] # NoResult => R2[k] # NoResult
          /\ Book(s, A, R)
      BY <1>2, <1>3, <2>1
    <2>3. Book(s, A2, R2)
      BY <2>2, BookStays
    <2> QED
      BY <2>1, <2>3
  <1>4. ASSUME NEW k \in AttemptNo PROVE Numbered(k)'
    <2>1. Numbered(k)
      BY DEF Filed
    <2> QED
      BY <1>1, <2>1 DEF Numbered
  <1>5. Book(session', attempts', results')
    BY <1>1, <1>3 DEF Filed
  <1> QED
    BY <1>1, <1>3, <1>4, <1>5 DEF Filed

\* Only the status of an attempt is replaced.
LEMMA StatusWrite ==
  ASSUME Provenance, Filed, NEW n \in AttemptNo, NEW st \in Settled, attempts[n] # NoAttempt,
         attempts' = [attempts EXCEPT ![n] = WithStatus(attempts[n], st)],
         UNCHANGED <<session, results, approved>>
  PROVE  /\ Filed' /\ \A s \in Session : Book(s, attempts, results) => Book(s, attempts', results')
         /\ \A k \in AttemptNo : attempts'[k].sql = attempts[k].sql /\ attempts'[k].key = attempts[k].key
  <1>1. attempts \in [AttemptNo -> Attempt] /\ Numbered(n)
    BY DEF Provenance, Disk, Filed
  <1>2. PICK a : a = WithStatus(attempts[n], st)
    OBVIOUS
  <1>3. /\ a \in Attempt /\ a.no = attempts[n].no /\ a.key = attempts[n].key /\ a.sql = attempts[n].sql
        /\ a.status = st
    BY <1>1, <1>2 DEF WithStatus, Attempt, Settled, AttemptStatus
  <1>4. attempts' = [attempts EXCEPT ![n] = a]
    BY <1>2
  <1>5. a.status # "ABSENT" /\ a.status # "CREATED"
    BY <1>3 DEF Settled
  <1>6. /\ a.no = n /\ a.key \in FailedEvent /\ Recorded(session, a.key)
        /\ a.sql # NoSql => <<a.key, a.sql>> \in approved
    BY <1>1, <1>3 DEF Numbered
  <1>7. Filed' /\ \A s \in Session : Book(s, attempts, results) => Book(s, attempts', results')
    BY <1>3, <1>4, <1>5, <1>6, AttemptWrite
  <1> QED
    BY <1>1, <1>3, <1>4, <1>7

-----------------------------------------------------------------------------
(* Orderly is kept: one lemma per part of the handler *)

\* Taking or missing the lock, and loading the session.
LEMMA EnterKeeps ==
  ASSUME Provenance, Orderly, OneCall, OneCall', NEW w \in Worker,
         EnterSession(w) \/ LockTimeout(w) \/ ReloadForFinish(w) \/ ReloadForDegrade(w)
  PROVE  Orderly'
  <1>1. ~At(w, "idle") /\ UNCHANGED files /\ UNCHANGED approved
    BY DEF EnterSession, LockTimeout, ReloadForFinish, ReloadForDegrade, LockAndLoad, At, files,
           history
  <1>2. Filed /\ Works(w) /\ Filed'
    BY <1>1, SameFiles DEF Orderly
  <1>3. CASE LockTimeout(w)
    BY <1>1, <1>2, <1>3, AnswerIs, Rests, OthersRest DEF LockTimeout, Reloads
  <1>4. ASSUME NEW from \in {"lock", "finish_lock", "degrade_lock"},
               NEW to \in {"find", "finish_success", "degrade"}, LockAndLoad(w, from, to)
        PROVE  Orderly'
    <2>1. /\ call'[w].pc = to /\ Mem(w)' = session /\ Job(w)' = Job(w)
          /\ call'[w].guarded => call[w].guarded \/ to = "run"
          /\ \A v \in Worker : v # w => call'[v] = call[v]
      BY <1>4, ContinueIs DEF LockAndLoad
    <2>2. ~call'[w].guarded
      BY <1>2, <1>4, <2>1 DEF Works, Owns, LockAndLoad, At, Owning, FailedLabel
    <2>3. Current(w)'
      BY <1>1, <1>2, <2>1 DEF Current, files, Filed
    <2>4. Owns(w)'
      BY <2>1, <2>2 DEF Owns, Owning, FailedLabel, Deciding, At
    <2>5. Prepares(w)' /\ Unfinished(w)'
      BY <2>1 DEF Prepares, Unfinished, FailedLabel, At
    <2> QED
      BY <1>1, <1>2, <2>1, <2>3, <2>4, <2>5, OthersRest DEF Works
  <1> QED
    BY <1>3, <1>4 DEF EnterSession, ReloadForFinish, ReloadForDegrade

\* A call that is about to recover an event has its record as it is on file,
\* without a result.
LEMMA Found ==
  ASSUME Provenance, Orderly, NEW w \in Worker, Recovering(w)
  PROVE  /\ ~At(w, "idle") /\ Job(w) \in FailedEvent /\ Job(w) \in Event /\ ~call[w].guarded
         /\ Mem(w) \in Session /\ Own(w) \in Record /\ Own(w) = session.events[Job(w)]
         /\ Mem(w).events = session.events /\ Mem(w).count = session.count
         /\ Book(Mem(w), attempts, results) /\ Recorded(session, Job(w)) /\ Own(w).ref = 0
         /\ Own(w).attempt # 0 => Own(w).attempt \in AttemptNo
  <1>1. At(w, "find") /\ Job(w) \in FailedEvent /\ Works(w)
    BY DEF Recovering, FindFailed, Orderly
  <1>2. /\ ~At(w, "idle") /\ Job(w) \in Event /\ ~call[w].guarded
        /\ Mem(w).events = session.events /\ Mem(w).count = session.count
        /\ Book(Mem(w), attempts, results)
    BY <1>1 DEF Works, Owns, Current, At, Reloads, Ahead, Owning, FailedLabel, Event
  <1>3. Mem(w) \in Session /\ Own(w) = session.events[Job(w)]
    BY <1>2, Parts DEF Own, RecordOf
  <1>4. Own(w) \in Record
    BY <1>2, <1>3 DEF Session, Own, RecordOf
  <1>5. Recorded(session, Job(w))
    BY <1>2 DEF Recovering, Recorded, RecordOf
  <1>6. Own(w).ref = 0
    BY <1>1, <1>2 DEF Recovering, Replayable, Own, RecordOf, Book, Entry
  <1> QED
    BY <1>1, <1>2, <1>3, <1>4, <1>5, <1>6, ServiceAssumption DEF Record, AttemptNo

\* A FAILED event that has a record: replayed, in progress, or recovered.
LEMMA DuplicateKeeps ==
  ASSUME Provenance, Orderly, OneCall, OneCall', NEW w \in Worker, ServeDuplicate(w)
  PROVE  Orderly'
  <1>0. Filed /\ Works(w)
    BY DEF Orderly
  <1>1. CASE ReplayResult(w) \/ AnswerInProgress(w)
    <2>1. ~At(w, "idle") /\ UNCHANGED files /\ UNCHANGED approved
      BY <1>1 DEF ReplayResult, AnswerInProgress, FindFailed, At, files, history
    <2>2. PICK r : Answer(w, r)
      BY <1>1 DEF ReplayResult, AnswerInProgress
    <2> QED
      BY <1>0, <2>1, <2>2, SameFiles, AnswerIs, Rests, OthersRest DEF Reloads
  <1>2. ASSUME NEW q, session' = q, q = FinishEvent(Mem(w), Job(w), "SYSTEM_ERROR", 0, "RECOVERY"),
               ~At(w, "idle"), Job(w) \in Event, Mem(w) \in Session,
               Book(Mem(w), attempts, results), Mem(w).events = session.events,
               UNCHANGED <<attempts, results, approved>>, Answer(w, Human)
        PROVE  Orderly'
    <2>0. 0 \in 0 .. MaxAttempts
      BY ServiceAssumption
    <2>e. FinishedAs(q, Mem(w), Job(w), "SYSTEM_ERROR", 0)
      BY <1>2, <2>0, FinishIs
    <2>1. /\ q \in Session /\ \A x \in Event \ {Job(w)} : q.events[x] = Mem(w).events[x]
          /\ q.events[Job(w)].status = "SYSTEM_ERROR" /\ q.events[Job(w)].ref = 0
          /\ q.events[Job(w)].attempt = Mem(w).events[Job(w)].attempt
          /\ q.count = Mem(w).count /\ q.sql = Mem(w).sql /\ q.sqlAttempt = Mem(w).sqlAttempt
      BY <2>e DEF FinishedAs
    <2>2. Job(w) \in FailedEvent => Entry(q, Job(w), attempts, results)
      BY <1>2, <2>1 DEF Book, Entry
    <2>3. Book(q, attempts, results)
      BY <1>2, <2>1, <2>2, BookPut
    <2>4. \A e \in FailedEvent : Recorded(session, e) => Recorded(q, e)
      BY <1>2, <2>1 DEF Recorded, RecordOf, Event
    <2>5. Filed'
      BY <1>0, <1>2, <2>3, <2>4, SessionWrite
    <2> QED
      BY <1>2, <2>5, AnswerIs, Rests, OthersRest DEF Reloads
  <1>3. CASE RecoverWithoutAttempt(w)
    BY <1>2, <1>3, Found DEF RecoverWithoutAttempt, history
  <1>4. CASE FinishUnsafe(w)
    <2>1. ~At(w, "idle") /\ Job(w) \in Event /\ Mem(w) \in Session
      BY <1>4, Parts DEF FinishUnsafe, At
    <2>2. Book(Mem(w), attempts, results) /\ Mem(w).events = session.events
      BY <1>0, <1>4 DEF FinishUnsafe, At, Works, Current, Reloads, Ahead
    <2> QED
      BY <1>2, <1>4, <2>1, <2>2 DEF FinishUnsafe, history
  <1>5. ASSUME Recovering(w), Own(w).attempt # 0
        PROVE  LET a == OnDisk(w)  k == Own(w).attempt
               IN  /\ k \in AttemptNo /\ k <= session.count
                   /\ session.events[Job(w)].attempt = k /\ Mem(w).events[Job(w)].attempt = k
                   /\ a = attempts[k] /\ a \in Attempt /\ a.key = Job(w) /\ a.no = k
                   /\ a.status # "ABSENT" /\ Recorded(session, Job(w))
                   /\ a.status = "CREATED" => a.sql = NoSql
                   /\ a.sql # NoSql => <<Job(w), a.sql>> \in approved
                   /\ k # 0 /\ a # NoAttempt
    <2>1. Job(w) \in FailedEvent /\ Own(w) = session.events[Job(w)] /\ Own(w).attempt # 0
          /\ Mem(w).events = session.events
      BY <1>5, Found
    <2> QED
      BY <1>0, <2>1, KnownAttempt, ServiceAssumption DEF OnDisk, NoAttempt, Event
  <1>6. ASSUME NEW l \in {"discard", "begin"}, NEW r, l = "discard" => r # NoResult,
               l = "begin" => OnDisk(w).status = "CREATED",
               Recovering(w), Own(w).attempt # 0, UNCHANGED files, UNCHANGED approved,
               Continue(w, l, Mem(w), OnDisk(w), r)
        PROVE  Orderly'
    <2>1. Filed'
      BY <1>0, <1>6, SameFiles
    <2>2. /\ call'[w].pc = l /\ Mem(w)' = Mem(w) /\ Job(w)' = Job(w) /\ Att(w)' = OnDisk(w)
          /\ call'[w].ret = r
          /\ call'[w].guarded => call[w].guarded \/ l = "run"
          /\ \A v \in Worker : v # w => call'[v] = call[v]
      BY <1>6, ContinueIs
    <2>3. UNCHANGED <<session, attempts, results>>
      BY <1>6 DEF files
    <2>4. Current(w)'
      BY <1>6, <2>2, <2>3, Found DEF Current
    <2>5. Owns(w)'
      BY <1>5, <1>6, <2>2, <2>3, Found DEF Owns, Owning, FailedLabel, Deciding, At, Recorded,
             RecordOf
    <2>6. Prepares(w)' /\ Unfinished(w)'
      BY <1>6, <2>2, <2>3, Found DEF Prepares, Unfinished, At
    <2> QED
      BY <1>6, <2>1, <2>2, <2>4, <2>5, <2>6, Found, OthersRest DEF Works
  <1>7. CASE RecoverEnded(w)
    <2>1. PICK r : r # NoResult /\ Continue(w, "discard", Mem(w), OnDisk(w), r)
      BY <1>7 DEF RecoverEnded, SqlReady, NoResult, Plain, Human
    <2> QED
      BY <1>6, <1>7, <2>1 DEF RecoverEnded, history
  <1>8. CASE ResumeAttempt(w)
    BY <1>6, <1>8 DEF ResumeAttempt, history
  <1>9. CASE RecoverUnsafe(w)
    <2>0. Recovering(w) /\ Own(w).attempt # 0 /\ UNCHANGED <<session, results, approved>> /\ Goto(w, "unsafe")
      BY <1>9 DEF RecoverUnsafe, history
    <2>1. attempts' = [attempts EXCEPT ![Own(w).attempt] = WithStatus(attempts[Own(w).attempt], "HUMAN_REQUIRED")]
      BY <1>9 DEF RecoverUnsafe
    <2>2. Filed' /\ \A s \in Session : Book(s, attempts, results) => Book(s, attempts', results')
      BY <1>0, <1>5, <2>0, <2>1, StatusWrite DEF Settled
    <2>3. /\ call'[w].pc = "unsafe" /\ Mem(w)' = Mem(w) /\ Job(w)' = Job(w)
          /\ call'[w].guarded => call[w].guarded
          /\ \A v \in Worker : v # w => call'[v] = call[v]
      BY <2>0, GotoIs
    <2>4. Current(w)'
      BY <2>0, <2>2, <2>3, Found DEF Current
    <2>5. Owns(w)'
      BY <2>0, <2>3, Found DEF Owns, Owning, Deciding, At
    <2>6. Prepares(w)' /\ Unfinished(w)'
      BY <2>0, <2>3, Found DEF Prepares, Unfinished, At, Own, RecordOf
    <2> QED
      BY <2>0, <2>2, <2>3, <2>4, <2>5, <2>6, Found, OthersRest DEF Works
  <1> QED
    BY <1>1, <1>3, <1>4, <1>7, <1>8, <1>9 DEF ServeDuplicate

\* A FAILED event that has none: the record, the attempt, its link, the beginning of the run.
LEMMA NewKeeps ==
  ASSUME Provenance, Orderly, OneCall, OneCall', NEW w \in Worker, ServeNew(w)
  PROVE  Orderly'
  <1>0. Filed /\ Works(w) /\ Mem(w) \in Session /\ session \in Session
        /\ attempts \in [AttemptNo -> Attempt] /\ session.count \in Nat
    BY Parts, ServiceAssumption DEF Orderly, Session
  <1>1. CASE RecordFailed(w)
    <2>1. At(w, "find") /\ ~At(w, "idle") /\ Job(w) \in FailedEvent /\ Job(w) \in Event
      BY <1>1 DEF RecordFailed, FindFailed, At, Event
    <2>2. /\ Mem(w).events = session.events /\ Mem(w).count = session.count
          /\ Book(Mem(w), attempts, results) /\ ~call[w].guarded
      BY <1>0, <2>1 DEF Works, Current, Owns, At, Reloads, Ahead, Owning, FailedLabel
    <2>3. PICK q : q = PutRecord(Mem(w), Job(w), Received)
      OBVIOUS
    <2>4. /\ session' = q /\ UNCHANGED <<attempts, results, approved>>
          /\ Continue(w, "create", q, NoAttempt, NoResult)
      BY <1>1, <2>3 DEF RecordFailed, history
    <2>5. Received \in Record /\ Received.attempt = 0 /\ Received.ref = 0 /\ Received.status = "RECEIVED"
      BY ServiceAssumption DEF Received, NoRecord, Record
    <2>6. /\ q \in Session /\ q.events[Job(w)] = Received
          /\ \A x \in Event \ {Job(w)} : q.events[x] = Mem(w).events[x]
          /\ q.count = Mem(w).count /\ q.sql = Mem(w).sql /\ q.sqlAttempt = Mem(w).sqlAttempt
      BY <1>0, <2>1, <2>3, <2>5, PutIs
    <2>7. Entry(q, Job(w), attempts, results)
      BY <2>5, <2>6 DEF Entry
    <2>8. Book(q, attempts, results)
      BY <1>0, <2>1, <2>2, <2>6, <2>7, BookPut
    <2>9. \A e \in FailedEvent : Recorded(session, e) => Recorded(q, e)
      BY <2>2, <2>5, <2>6 DEF Recorded, RecordOf, Event
    <2>10. Filed'
      BY <1>0, <2>4, <2>8, <2>9, SessionWrite
    <2>11. /\ call'[w].pc = "create" /\ Mem(w)' = q /\ Job(w)' = Job(w)
           /\ ~call'[w].guarded
           /\ \A v \in Worker : v # w => call'[v] = call[v]
      BY <2>2, <2>4, ContinueIs
    <2>12. Current(w)' /\ Owns(w)'
      BY <2>2, <2>4, <2>6, <2>8, <2>11 DEF Current, Owns, Owning, Deciding, At
    <2>13. ~Recorded(session, Job(w))
      BY <1>1, <2>2 DEF RecordFailed, Recorded, RecordOf
    <2>14. ASSUME NEW n \in AttemptNo PROVE attempts[n].key # Job(w)
      <3>1. Numbered(n) /\ NoAttempt.key \notin Event
        BY <1>0, ServiceAssumption DEF Filed, NoAttempt
      <3> QED
        BY <2>1, <2>13, <3>1 DEF Numbered
    <2>15. Prepares(w)' /\ Unfinished(w)'
      BY <2>4, <2>5, <2>6, <2>11, <2>14 DEF Prepares, Unfinished, At, Recorded, RecordOf
    <2> QED
      BY <2>1, <2>10, <2>11, <2>12, <2>15, OthersRest DEF Works
  <1>2. CASE CreateAttempt(w)
    <2>1. At(w, "create") /\ ~At(w, "idle") /\ Job(w) \in FailedEvent /\ Job(w) \in Event
      BY <1>2, Parts DEF CreateAttempt, At, FailedLabel
    <2>2. /\ Mem(w).events = session.events /\ Mem(w).count = session.count
          /\ Book(Mem(w), attempts, results) /\ ~call[w].guarded
          /\ Recorded(session, Job(w)) /\ session.events[Job(w)].attempt = 0
      BY <1>0, <2>1 DEF Works, Current, Owns, Prepares, At, Reloads, Ahead, Owning
    <2>3. Own(w) \in Record /\ Own(w) = session.events[Job(w)] /\ Own(w).ref = 0
      BY <1>0, <2>1, <2>2 DEF Own, RecordOf, Session, Filed, Book, Entry
    <2>4. PICK n, a, r, p, m :
            /\ n = Mem(w).count + 1
            /\ a = [no |-> n, status |-> "CREATED", key |-> Job(w), sql |-> NoSql]
            /\ r = [Own(w) EXCEPT !.status = "PROCESSING", !.attempt = n]
            /\ p = PutRecord(Mem(w), Job(w), r)
            /\ m = [p EXCEPT !.count = n]
      OBVIOUS
    <2>5. /\ n \in AttemptNo /\ attempts' = [attempts EXCEPT ![n] = a]
          /\ Continue(w, "link", m, a, NoResult)
          /\ UNCHANGED <<session, results, approved>>
      BY <1>2, <2>4 DEF CreateAttempt, history
    <2>6. /\ n = session.count + 1 /\ n \in 0 .. MaxAttempts
          /\ r \in Record /\ r.attempt = n /\ r.ref = 0 /\ r.status = "PROCESSING"
      <3>1. n = session.count + 1 /\ n \in 0 .. MaxAttempts
        BY <2>2, <2>4, <2>5, ServiceAssumption DEF AttemptNo
      <3> QED
        BY <2>3, <2>4, <3>1 DEF Record
    <2>7. /\ p \in Session /\ p.events[Job(w)] = r
          /\ \A x \in Event \ {Job(w)} : p.events[x] = Mem(w).events[x]
          /\ p.count = Mem(w).count /\ p.sql = Mem(w).sql /\ p.sqlAttempt = Mem(w).sqlAttempt
      BY <1>0, <2>1, <2>4, <2>6, PutIs
    <2>8. /\ m \in Session /\ m.events = p.events /\ m.count = n /\ m.sql = p.sql /\ m.sqlAttempt = p.sqlAttempt
      BY <2>4, <2>6, <2>7 DEF Session
    <2>9. a.no = n /\ a.status = "CREATED" /\ a.key = Job(w) /\ a.sql = NoSql
      BY <2>4
    <2>10. attempts'[n] = a /\ \A k \in AttemptNo : k <= session.count => attempts'[k] = attempts[k]
      BY <1>0, <2>5, <2>6 DEF AttemptNo
    <2>11. \A s \in Session : s.count = session.count /\ Book(s, attempts, results) => Book(s, attempts', results')
      <3>1. PICK A, A2, R, R2 : A = attempts /\ A2 = attempts' /\ R = results /\ R2 = results'
        OBVIOUS
      <3>2. ASSUME NEW s \in Session, s.count = session.count, Book(s, A, R) PROVE Book(s, A2, R2)
        <4>1. /\ \A k \in AttemptNo : k <= s.count =>
                   A2[k].key = A[k].key /\ (A[k].sql # NoSql => A2[k].sql = A[k].sql)
              /\ \A k \in AttemptNo : R[k] # NoResult => R2[k] # NoResult
          BY <2>5, <2>10, <3>1, <3>2
        <4> QED
          BY <3>2, <4>1, BookStays
      <3> QED
        BY <3>1, <3>2
    <2>12. Book(Mem(w), attempts', results') /\ Book(session, attempts', results')
      BY <1>0, <2>2, <2>11 DEF Filed
    <2>13. Book(m, attempts', results')
      <3>1. ASSUME NEW e \in FailedEvent PROVE Entry(m, e, attempts', results')
        <4>1. CASE e = Job(w)
          BY <2>6, <2>7, <2>8, <2>9, <2>10, <4>1 DEF Entry
        <4>2. CASE e # Job(w)
          <5>1. m.events[e] = Mem(w).events[e] /\ Mem(w).events[e] \in Record
            BY <1>0, <2>7, <2>8, <4>2 DEF Event, Session
          <5>2. Mem(w).events[e].attempt \in Nat
            BY <5>1, ServiceAssumption DEF Record
          <5>3. Entry(Mem(w), e, attempts', results')
            BY <2>12 DEF Book
          <5> QED
            BY <1>0, <2>2, <2>6, <2>8, <5>1, <5>2, <5>3 DEF Entry
        <4> QED
          BY <4>1, <4>2
      <3>2. Candidate(m, attempts')
        <4>1. Mem(w).sqlAttempt \in Nat /\ Candidate(Mem(w), attempts')
          BY <1>0, <2>12, ServiceAssumption DEF Session, Book
        <4> QED
          BY <1>0, <2>2, <2>6, <2>7, <2>8, <4>1 DEF Candidate
      <3> QED
        BY <3>1, <3>2 DEF Book
    <2>14. ASSUME NEW k \in AttemptNo PROVE Numbered(k)'
      <3>1. Numbered(k)
        BY <1>0 DEF Filed
      <3> QED
        BY <1>0, <2>1, <2>2, <2>5, <2>9, <2>10, <3>1 DEF Numbered
    <2>15. Filed'
      BY <2>5, <2>12, <2>14 DEF Filed
    <2>16. /\ call'[w].pc = "link" /\ Mem(w)' = m /\ Job(w)' = Job(w) /\ Att(w)' = a
           /\ ~call'[w].guarded
           /\ \A v \in Worker : v # w => call'[v] = call[v]
      BY <2>2, <2>5, ContinueIs
    <2>17. Current(w)' /\ Owns(w)'
      BY <2>2, <2>5, <2>7, <2>8, <2>13, <2>16 DEF Current, Owns, Ahead, Owning, Deciding, At
    <2>18. Prepares(w)'
      <3>1. m.events[Job(w)] = r /\ m.count = session.count + 1
            /\ a = [no |-> m.count, status |-> "CREATED", key |-> Job(w), sql |-> NoSql]
        BY <2>4, <2>6, <2>7, <2>8
      <3> QED
        BY <2>2, <2>3, <2>5, <2>6, <2>8, <2>9, <2>10, <2>16, <3>1
           DEF Prepares, At, Recorded, RecordOf
    <2>19. Unfinished(w)'
      BY <2>3, <2>5, <2>6, <2>7, <2>8, <2>16 DEF Unfinished
    <2> QED
      BY <2>1, <2>15, <2>16, <2>17, <2>18, <2>19, OthersRest DEF Works
  <1>3. CASE LinkAttempt(w)
    <2>1. At(w, "link") /\ ~At(w, "idle") /\ Job(w) \in FailedEvent /\ Job(w) \in Event
      BY <1>3, Parts DEF LinkAttempt, At, FailedLabel
    <2>2. session' = Mem(w) /\ Goto(w, "begin") /\ UNCHANGED <<attempts, results, approved>>
      BY <1>3 DEF LinkAttempt, history
    <2>3. /\ Book(Mem(w), attempts, results) /\ ~call[w].guarded
          /\ \A x \in Event \ {Job(w)} : Mem(w).events[x] = session.events[x]
          /\ Mem(w).count = session.count + 1 /\ Recorded(Mem(w), Job(w))
          /\ Mem(w).events[Job(w)].attempt = Att(w).no /\ Mem(w).events[Job(w)].ref = 0
          /\ Att(w).no = Mem(w).count /\ Att(w).key = Job(w) /\ Att(w).status = "CREATED"
          /\ Att(w).sql = NoSql /\ attempts[Att(w).no] = Att(w)
      BY <1>0, <2>1 DEF Works, Current, Owns, Prepares, At, Reloads, Ahead, Owning
    <2>4. Filed'
      BY <1>0, <2>2, <2>3, SessionWrite DEF Recorded, RecordOf, Event
    <2>5. /\ call'[w].pc = "begin" /\ Mem(w)' = Mem(w) /\ Job(w)' = Job(w) /\ Att(w)' = Att(w)
          /\ ~call'[w].guarded
          /\ \A v \in Worker : v # w => call'[v] = call[v]
      BY <2>2, <2>3, GotoIs
    <2>6. Current(w)'
      BY <2>2, <2>3, <2>5 DEF Current
    <2>7. Owns(w)'
      BY <1>0, <2>2, <2>3, <2>5 DEF Owns, Deciding, At
    <2>8. Prepares(w)' /\ Unfinished(w)'
      BY <2>2, <2>3, <2>5 DEF Prepares, Unfinished, At
    <2> QED
      BY <2>1, <2>4, <2>5, <2>6, <2>7, <2>8, OthersRest DEF Works
  <1>4. CASE BeginRun(w)
    <2>1. At(w, "begin") /\ ~At(w, "idle") /\ Job(w) \in FailedEvent
      BY <1>4, Parts DEF BeginRun, At, FailedLabel
    <2>2. PICK q : q = [Mem(w) EXCEPT !.status = "RUNNING"]
      OBVIOUS
    <2>3. /\ session' = q /\ Continue(w, "input", q, Att(w), NoResult)
          /\ UNCHANGED <<attempts, results, approved, faults>>
      BY <1>4, <2>2 DEF BeginRun, history
    <2>4. q.events = Mem(w).events /\ q.count = Mem(w).count /\ q.sql = Mem(w).sql /\ q.sqlAttempt = Mem(w).sqlAttempt
      BY <1>0, <2>2 DEF Session
    <2>5. /\ Book(Mem(w), attempts, results) /\ ~call[w].guarded /\ Mem(w).events = session.events
          /\ Mem(w).count = session.count
      BY <1>0, <2>1 DEF Works, Current, Owns, At, Reloads, Ahead
    <2>6. Book(q, attempts, results)
      BY <2>4, <2>5, BookSame
    <2>7. Filed'
      BY <1>0, <2>3, <2>4, <2>5, <2>6, SessionWrite DEF Recorded, RecordOf
    <2>8. /\ call'[w].pc = "input" /\ Mem(w)' = q /\ Job(w)' = Job(w) /\ Att(w)' = Att(w)
          /\ ~call'[w].guarded
          /\ \A v \in Worker : v # w => call'[v] = call[v]
      BY <2>3, <2>5, ContinueIs
    <2>9. Current(w)'
      BY <2>3, <2>6, <2>8 DEF Current
    <2>10. Owns(w)'
      BY <1>0, <2>1, <2>3, <2>4, <2>5, <2>8
         DEF Works, Owns, Owning, FailedLabel, Deciding, At, Recorded, RecordOf
    <2>11. Prepares(w)' /\ Unfinished(w)'
      BY <1>0, <2>1, <2>3, <2>4, <2>5, <2>8 DEF Works, Prepares, Unfinished, At, FailedLabel
    <2> QED
      BY <2>1, <2>7, <2>8, <2>9, <2>10, <2>11, OthersRest DEF Works
  <1> QED
    BY <1>1, <1>2, <1>3, <1>4 DEF ServeNew

\* What a call that works on an attempt can rely on.
LEMMA OwnAttempt ==
  ASSUME Provenance, Orderly, NEW w \in Worker, call[w].pc \in Owning
  PROVE  /\ ~At(w, "idle") /\ Job(w) \in FailedEvent /\ Job(w) \in Event
         /\ Att(w).no \in AttemptNo /\ Att(w).no <= session.count /\ Att(w).no # 0
         /\ attempts[Att(w).no] \in Attempt /\ attempts[Att(w).no].key = Job(w)
         /\ attempts[Att(w).no].sql \in {NoSql, Att(w).sql} /\ attempts \in [AttemptNo -> Attempt]
         /\ Att(w) \in Attempt /\ Att(w).key = Job(w) /\ Att(w).status # "ABSENT"
         /\ Att(w).sql # NoSql => <<Job(w), Att(w).sql>> \in approved
         /\ session.events[Job(w)].attempt = Att(w).no /\ Mem(w).events[Job(w)].attempt = Att(w).no
         /\ Recorded(session, Job(w)) /\ Recorded(Mem(w), Job(w))
         /\ session \in Session /\ Mem(w) \in Session
         /\ Book(session, attempts, results) /\ Book(Mem(w), attempts, results)
         /\ \A x \in Event \ {Job(w)} : Mem(w).events[x] = session.events[x]
         /\ Mem(w).count = session.count
         /\ call[w].pc \notin Ahead => Mem(w).events = session.events
         /\ call[w].guarded => call[w].pc \notin {"begin", "input", "previous"}
         /\ Filed /\ Works(w)
  <1>1. ~At(w, "idle") /\ Job(w) \in FailedEvent /\ Job(w) \in Event
    BY Parts DEF Owning, FailedLabel, At, Event
  <1>2. /\ Att(w).no # 0 /\ Att(w).key = Job(w) /\ Att(w).status # "ABSENT"
        /\ session.events[Job(w)].attempt = Att(w).no /\ Mem(w).events[Job(w)].attempt = Att(w).no
        /\ Recorded(Mem(w), Job(w)) /\ Filed /\ Works(w)
        /\ Att(w).sql # NoSql => <<Job(w), Att(w).sql>> \in approved
        /\ attempts[Att(w).no].sql \in {NoSql, Att(w).sql}
        /\ call[w].guarded => call[w].pc \notin {"begin", "input", "previous"}
    BY DEF Orderly, Works, Owns
  <1>3. /\ Att(w).no \in AttemptNo /\ Att(w).no <= session.count
        /\ attempts[Att(w).no] \in Attempt /\ attempts[Att(w).no].key = Job(w)
        /\ Recorded(session, Job(w))
    BY <1>1, <1>2, KnownAttempt
  <1>4. /\ Book(Mem(w), attempts, results) /\ Mem(w).count = session.count
        /\ \A x \in Event \ {Job(w)} : Mem(w).events[x] = session.events[x]
        /\ call[w].pc \notin Ahead => Mem(w).events = session.events
    BY <1>2 DEF Works, Current, Reloads, Owning, FailedLabel
  <1> QED
    BY <1>1, <1>2, <1>3, <1>4, Parts DEF Filed

\* It saves its attempt, with the status it gives it.
LEMMA OwnWrite ==
  ASSUME Provenance, Orderly, NEW w \in Worker, call[w].pc \in Owning, NEW a \in Attempt,
         a.no = Att(w).no, a.key = Att(w).key, a.sql = Att(w).sql,
         a.status \notin {"ABSENT", "CREATED"},
         attempts' = [attempts EXCEPT ![Att(w).no] = a], UNCHANGED <<session, results, approved>>
  PROVE  /\ Filed' /\ attempts'[Att(w).no] = a
         /\ \A s \in Session : Book(s, attempts, results) => Book(s, attempts', results')
  <1>1. PICK n : n = Att(w).no
    OBVIOUS
  <1>2. /\ n \in AttemptNo /\ Filed /\ a.key = attempts[n].key /\ (attempts[n].sql # NoSql => a.sql = attempts[n].sql)
        /\ a.no = n /\ a.status # "ABSENT" /\ a.key \in FailedEvent /\ Recorded(session, a.key)
        /\ a.status = "CREATED" => a.sql = NoSql
        /\ a.sql # NoSql => <<a.key, a.sql>> \in approved
        /\ attempts' = [attempts EXCEPT ![n] = a]
    BY <1>1, OwnAttempt
  <1>3. Filed' /\ attempts'[n] = a /\ \A s \in Session : Book(s, attempts, results) => Book(s, attempts', results')
    BY <1>2, AttemptWrite
  <1> QED
    BY <1>1, <1>3

\* A copy of which only the status is replaced.
LEMMA CopyStatusIs ==
  ASSUME NEW m \in Session, NEW st, NEW q, q = [m EXCEPT !.status = st]
  PROVE  q.events = m.events /\ q.count = m.count /\ q.sql = m.sql /\ q.sqlAttempt = m.sqlAttempt
  BY DEF Session

\* It goes on with the same copies, and touches no file of the session.
LEMMA GoesOn ==
  ASSUME Provenance, Orderly, OneCall, OneCall', NEW w \in Worker, call[w].pc \in Owning,
         UNCHANGED <<session, attempts, results>>, approved \subseteq approved', faults' >= faults,
         faults \in Nat, faults' \in Nat,
         Mem(w)' = Mem(w), Job(w)' = Job(w),
         Att(w)'.no = Att(w).no, Att(w)'.key = Att(w).key, Att(w)'.status # "ABSENT",
         Att(w)'.sql # NoSql => <<Job(w), Att(w)'.sql>> \in approved',
         attempts[Att(w).no].sql \in {NoSql, Att(w)'.sql},
         call'[w].pc \in {"human", "previous", "run", "commit", "persist"},
         call'[w].pc = "human" \/ call[w].pc \notin Ahead,
         call'[w].pc \in {"previous", "run"} => Att(w)'.sql = NoSql,
         call'[w].pc = "previous" => Prepares(w)' /\ ~call'[w].guarded,
         call'[w].pc = "commit" => Att(w)'.status = "SQL_READY",
         call'[w].pc = "persist" => call'[w].ret # NoResult,
         \A v \in Worker : v # w => call'[v] = call[v]
  PROVE  Orderly'
  <1>1. Filed'
    BY SameFiles DEF files, Orderly
  <1>2. Current(w)'
    BY OwnAttempt DEF Current, Ahead
  <1>3. Owns(w)'
    BY OwnAttempt DEF Owns, Owning, FailedLabel, Deciding, At
  <1>4. Prepares(w)'
    BY DEF Prepares, At
  <1>5. Unfinished(w)'
    <2>1. Unfinished(w) /\ call[w].pc \in FailedLabel
      BY OwnAttempt DEF Works, Owning
    <2>2. faults' = 0 => faults = 0
      OBVIOUS
    <2> QED
      BY <2>1, <2>2 DEF Unfinished
  <1> QED
    BY <1>1, <1>2, <1>3, <1>4, <1>5, OwnAttempt, OthersRest DEF Works

\* The run, what it proposes, and the answers without SQL.
LEMMA RunKeeps ==
  ASSUME Provenance, Provenance', Orderly, OneCall, OneCall', NEW w \in Worker, ServeRun(w)
  PROVE  Orderly'
  <1>0. /\ Filed /\ Works(w) /\ faults \in Nat /\ faults' \in Nat
    BY DEF Orderly, Provenance, Rest
  <1>1. CASE RejectInput(w)
    <2>1. call[w].pc = "input" /\ Goto(w, "human") /\ UNCHANGED <<session, attempts, results, approved, faults>>
      BY <1>1 DEF RejectInput, At, files, history
    <2>2. /\ call'[w].pc = "human" /\ Mem(w)' = Mem(w) /\ Job(w)' = Job(w) /\ Att(w)' = Att(w)
          /\ \A v \in Worker : v # w => call'[v] = call[v]
      BY <2>1, GotoIs
    <2>3. call[w].pc \in Owning
      BY <2>1 DEF Owning, FailedLabel
    <2>4. /\ approved \subseteq approved' /\ faults' >= faults
          /\ Att(w)'.no = Att(w).no /\ Att(w)'.key = Att(w).key /\ Att(w)'.status # "ABSENT"
          /\ Att(w)'.sql # NoSql => <<Job(w), Att(w)'.sql>> \in approved'
          /\ attempts[Att(w).no].sql \in {NoSql, Att(w)'.sql}
      BY <1>0, <2>1, <2>2, <2>3, OwnAttempt
    <2> QED
      BY <1>0, <2>1, <2>2, <2>3, <2>4, GoesOn
  <1>2. CASE KeepPrevious(w) \/ LoadPrevious(w)
    <2>1. /\ call[w].pc = "input"
          /\ \/ Goto(w, "run")
             \/ Goto(w, "previous") /\ FailsCandidate(w)
          /\ UNCHANGED <<session, attempts, results, approved, faults>>
      BY <1>2 DEF KeepPrevious, LoadPrevious, At, files, history
    <2>2. /\ call'[w].pc \in {"run", "previous"}
          /\ Mem(w)' = Mem(w) /\ Job(w)' = Job(w) /\ Att(w)' = Att(w)
          /\ call'[w].pc = "previous" =>
               /\ FailsCandidate(w) /\ call'[w].prev = Marking(w, "previous")
               /\ call'[w].guarded => call[w].guarded
          /\ \A v \in Worker : v # w => call'[v] = call[v]
      BY <2>1, GotoIs
    <2>3. call[w].pc \in Owning /\ call[w].pc \notin Ahead /\ Att(w).sql = NoSql
      BY <1>0, <2>1 DEF Owning, FailedLabel, Ahead, Works, Owns
    <2>4. call'[w].pc = "previous" => Prepares(w)' /\ ~call'[w].guarded
      <3>1. Marking(w, "previous")' = Marking(w, "previous")
        BY <2>1, <2>2 DEF Marking, WithStatus, Mem
      <3>2. ~call[w].guarded
        BY <1>0, <2>1 DEF Works, Owns
      <3> QED
        BY <2>2, <3>1, <3>2 DEF Prepares, FailsCandidate, At
    <2>5. /\ approved \subseteq approved' /\ faults' >= faults
          /\ Att(w)'.no = Att(w).no /\ Att(w)'.key = Att(w).key /\ Att(w)'.status # "ABSENT"
          /\ Att(w)'.sql # NoSql => <<Job(w), Att(w)'.sql>> \in approved'
          /\ attempts[Att(w).no].sql \in {NoSql, Att(w)'.sql} /\ Att(w)'.sql = NoSql
      <3>1. approved' = approved /\ faults' = faults /\ Att(w)' = Att(w)
        BY <2>1, <2>2
      <3> QED
        BY <1>0, <2>3, <3>1, OwnAttempt
    <2> QED
      BY <1>0, <2>1, <2>2, <2>3, <2>4, <2>5, GoesOn
  <1>8. CASE SavePrevious(w)
    <2>1. /\ call[w].pc = "previous" /\ Goto(w, "run") /\ UNCHANGED <<session, results, approved, faults>>
          /\ attempts' = [attempts EXCEPT ![Mem(w).sqlAttempt] = call[w].prev]
      BY <1>8 DEF SavePrevious, At, history
    <2>2. /\ call'[w].pc = "run" /\ Mem(w)' = Mem(w) /\ Job(w)' = Job(w) /\ Att(w)' = Att(w)
          /\ \A v \in Worker : v # w => call'[v] = call[v]
      BY <2>1, GotoIs
    <2>3. call[w].pc \in Owning /\ call[w].pc \notin Ahead /\ Att(w).sql = NoSql
      BY <1>0, <2>1 DEF Owning, FailedLabel, Ahead, Works, Owns
    <2>4. PICK k : k = Mem(w).sqlAttempt
      OBVIOUS
    <2>5. k # 0 /\ call[w].prev = WithStatus(attempts[k], "UPSTREAM_FAILED")
      BY <1>0, <2>1, <2>4 DEF Works, Prepares, Marking, Mem, At
    <2>6. k \in AttemptNo /\ attempts[k] # NoAttempt
      BY <2>3, <2>4, <2>5, OwnAttempt, KnownCandidate
    <2>7. attempts' = [attempts EXCEPT ![k] = WithStatus(attempts[k], "UPSTREAM_FAILED")]
      BY <2>1, <2>4, <2>5
    <2>8. /\ Filed' /\ \A s \in Session : Book(s, attempts, results) => Book(s, attempts', results')
          /\ \A n \in AttemptNo : attempts'[n].sql = attempts[n].sql
      BY <1>0, <2>1, <2>6, <2>7, StatusWrite DEF Settled
    <2>9. Current(w)'
      BY <2>1, <2>2, <2>3, <2>8, OwnAttempt DEF Current
    <2>10. Owns(w)'
      BY <2>1, <2>2, <2>3, <2>8, OwnAttempt DEF Owns, Owning, FailedLabel, Deciding, At
    <2>11. Prepares(w)' /\ Unfinished(w)'
      BY <1>0, <2>1, <2>2 DEF Works, Prepares, Unfinished, At, FailedLabel
    <2> QED
      BY <2>2, <2>3, <2>8, <2>9, <2>10, <2>11, OwnAttempt, OthersRest DEF Works
  <1>3. ASSUME NEW s \in Sql, AgentProposes(w, s) PROVE Orderly'
    <2>1. PICK a : a = [Att(w) EXCEPT !.status = "SQL_READY", !.sql = s]
      OBVIOUS
    <2>2. /\ call[w].pc = "run" /\ Continue(w, "commit", Mem(w), a, NoResult)
          /\ UNCHANGED <<session, attempts, results, faults>> /\ approved' = approved \cup {<<Job(w), s>>}
      BY <1>3, <2>1 DEF AgentProposes, At, files
    <2>3. /\ call'[w].pc = "commit" /\ Mem(w)' = Mem(w) /\ Job(w)' = Job(w) /\ Att(w)' = a
          /\ \A v \in Worker : v # w => call'[v] = call[v]
      BY <2>2, ContinueIs
    <2>4. call[w].pc \in Owning /\ call[w].pc \notin Ahead /\ Att(w).sql = NoSql
      BY <1>0, <2>2 DEF Owning, FailedLabel, Ahead, Works, Owns
    <2>5. a.no = Att(w).no /\ a.key = Att(w).key /\ a.status = "SQL_READY" /\ a.sql = s
      BY <2>1, <2>4, OwnAttempt DEF Attempt
    <2>6. approved \subseteq approved' /\ <<Job(w), s>> \in approved' /\ faults' >= faults
      BY <1>0, <2>2
    <2>7. attempts[Att(w).no].sql \in {NoSql, a.sql}
      BY <2>4, OwnAttempt
    <2> QED
      BY <1>0, <2>2, <2>3, <2>4, <2>5, <2>6, <2>7, GoesOn
  <1>4. ASSUME NEW st \in {"HUMAN_REQUIRED", "VALIDATION_BLOCKED", "REFLECTION_BLOCKED"},
               AgentStops(w, st)
        PROVE  Orderly'
    <2>1. PICK a, r : a = WithStatus(Att(w), st) /\ r = IF st = "HUMAN_REQUIRED" THEN Human ELSE Plain("NO_SQL")
      OBVIOUS
    <2>2. /\ call[w].pc = "run" /\ attempts' = [attempts EXCEPT ![a.no] = a]
          /\ Continue(w, "stop", Mem(w), a, r) /\ UNCHANGED <<session, results, approved, faults>>
      BY <1>4, <2>1 DEF AgentStops, At, history
    <2>3. /\ call'[w].pc = "stop" /\ Mem(w)' = Mem(w) /\ Job(w)' = Job(w) /\ Att(w)' = a /\ call'[w].ret = r
          /\ \A v \in Worker : v # w => call'[v] = call[v]
      BY <2>2, ContinueIs
    <2>4. call[w].pc \in Owning /\ call[w].pc \notin Ahead
      BY <2>2 DEF Owning, FailedLabel, Ahead
    <2>5. /\ a \in Attempt /\ a.no = Att(w).no /\ a.key = Att(w).key /\ a.sql = Att(w).sql /\ a.status = st
          /\ r # NoResult
      <3>1. Att(w) \in Attempt
        BY <2>4, OwnAttempt
      <3>2. a \in Attempt /\ a.no = Att(w).no /\ a.key = Att(w).key /\ a.sql = Att(w).sql /\ a.status = st
        BY <2>1, <3>1 DEF WithStatus, Attempt, AttemptStatus
      <3> QED
        BY <2>1, <3>2 DEF Human, NoResult, Plain
    <2>6. /\ Filed' /\ attempts'[Att(w).no] = a
          /\ \A s \in Session : Book(s, attempts, results) => Book(s, attempts', results')
      BY <2>2, <2>4, <2>5, OwnWrite
    <2>7. Current(w)'
      BY <2>2, <2>3, <2>4, <2>6, OwnAttempt DEF Current
    <2>8. Owns(w)'
      BY <2>2, <2>3, <2>4, <2>5, <2>6, OwnAttempt DEF Owns, Owning, FailedLabel, At
    <2>9. Prepares(w)' /\ Unfinished(w)'
      BY <1>0, <2>2, <2>3 DEF Works, Prepares, Unfinished, At, FailedLabel
    <2> QED
      BY <2>3, <2>4, <2>6, <2>7, <2>8, <2>9, OwnAttempt, OthersRest DEF Works
  <1>5. CASE AgentRaises(w)
    <2>1. call[w].pc = "run" /\ Rescue(w, Mem(w)) /\ UNCHANGED <<session, attempts, results, approved, faults>>
      BY <1>5 DEF AgentRaises, At, files, history
    <2>2. /\ call'[w].pc = "human" /\ Mem(w)' = Mem(w) /\ Job(w)' = Job(w) /\ Att(w)' = Att(w)
          /\ \A v \in Worker : v # w => call'[v] = call[v]
      BY <2>1, RescueIs
    <2>3. call[w].pc \in Owning
      BY <2>1 DEF Owning, FailedLabel
    <2>4. /\ approved \subseteq approved' /\ faults' >= faults
          /\ Att(w)'.no = Att(w).no /\ Att(w)'.key = Att(w).key /\ Att(w)'.status # "ABSENT"
          /\ Att(w)'.sql # NoSql => <<Job(w), Att(w)'.sql>> \in approved'
          /\ attempts[Att(w).no].sql \in {NoSql, Att(w)'.sql}
      BY <1>0, <2>1, <2>2, <2>3, OwnAttempt
    <2> QED
      BY <1>0, <2>1, <2>2, <2>3, <2>4, GoesOn
  <1>6. CASE StopRun(w) \/ SaveHumanSession(w)
    <2>1. PICK l \in {"human", "discard"} :
            /\ Goto(w, l) /\ session' = Mem(w) /\ UNCHANGED <<attempts, results, approved, faults>>
            /\ call[w].pc \in {"stop", "human_session"}
      BY <1>6 DEF StopRun, SaveHumanSession, At, history
    <2>2. /\ call'[w].pc = l /\ Mem(w)' = Mem(w) /\ Job(w)' = Job(w) /\ Att(w)' = Att(w)
          /\ call'[w].ret = call[w].ret
          /\ \A v \in Worker : v # w => call'[v] = call[v]
      BY <2>1, GotoIs
    <2>3. call[w].pc \in Owning /\ call[w].ret # NoResult
      BY <1>0, <2>1 DEF Owning, FailedLabel, Works, Owns, Deciding
    <2>4. Filed'
      BY <1>0, <2>1, <2>3, OwnAttempt, SessionWrite DEF Recorded, RecordOf, Event
    <2>5. Current(w)'
      BY <2>1, <2>2, <2>3, OwnAttempt DEF Current
    <2>6. Owns(w)'
      BY <2>1, <2>2, <2>3, OwnAttempt DEF Owns, Owning, FailedLabel, At
    <2>7. Prepares(w)' /\ Unfinished(w)'
      BY <1>0, <2>1, <2>2 DEF Works, Prepares, Unfinished, At, FailedLabel
    <2> QED
      BY <2>2, <2>3, <2>4, <2>5, <2>6, <2>7, OwnAttempt, OthersRest DEF Works
  <1>7. CASE SaveHumanAttempt(w)
    <2>1. PICK a, q : a = WithStatus(Att(w), "HUMAN_REQUIRED") /\ q = [Mem(w) EXCEPT !.status = "HUMAN_REQUIRED"]
      OBVIOUS
    <2>2. /\ call[w].pc = "human" /\ attempts' = [attempts EXCEPT ![a.no] = a]
          /\ Continue(w, "human_session", q, a, Human) /\ UNCHANGED <<session, results, approved, faults>>
      BY <1>7, <2>1 DEF SaveHumanAttempt, At, history
    <2>3. /\ call'[w].pc = "human_session" /\ Mem(w)' = q /\ Job(w)' = Job(w) /\ Att(w)' = a
          /\ call'[w].ret = Human
          /\ \A v \in Worker : v # w => call'[v] = call[v]
      BY <2>2, ContinueIs
    <2>4. call[w].pc \in Owning
      BY <2>2 DEF Owning, FailedLabel
    <2>5. /\ a \in Attempt /\ a.no = Att(w).no /\ a.key = Att(w).key /\ a.sql = Att(w).sql
          /\ a.status = "HUMAN_REQUIRED" /\ Human # NoResult
      <3>1. Att(w) \in Attempt
        BY <2>4, OwnAttempt
      <3>2. a \in Attempt /\ a.no = Att(w).no /\ a.key = Att(w).key /\ a.sql = Att(w).sql /\ a.status = "HUMAN_REQUIRED"
        BY <2>1, <3>1 DEF WithStatus, Attempt, AttemptStatus
      <3> QED
        BY <2>1, <3>2 DEF Human, NoResult, Plain
    <2>6. /\ Filed' /\ attempts'[Att(w).no] = a
          /\ \A s \in Session : Book(s, attempts, results) => Book(s, attempts', results')
      BY <2>2, <2>4, <2>5, OwnWrite
    <2>7. q.events = Mem(w).events /\ q.count = Mem(w).count /\ q.sql = Mem(w).sql /\ q.sqlAttempt = Mem(w).sqlAttempt
      BY <2>1, <2>4, OwnAttempt, CopyStatusIs
    <2>8. Book(Mem(w), attempts', results')
      BY <2>4, <2>6, OwnAttempt
    <2>9. Book(q, attempts', results')
      BY <2>7, <2>8 DEF Book, Entry, Candidate
    <2>10. Current(w)'
      BY <2>2, <2>3, <2>4, <2>7, <2>9, OwnAttempt DEF Current, Ahead
    <2>11. Owns(w)'
      BY <2>2, <2>3, <2>4, <2>5, <2>6, <2>7, OwnAttempt
         DEF Owns, Owning, FailedLabel, At, Recorded, RecordOf
    <2>12. Prepares(w)' /\ Unfinished(w)'
      BY <1>0, <2>2, <2>3, <2>7 DEF Works, Prepares, Unfinished, At, FailedLabel
    <2> QED
      BY <2>3, <2>4, <2>6, <2>10, <2>11, <2>12, OwnAttempt, OthersRest DEF Works
  <1> QED
    BY <1>1, <1>2, <1>3, <1>4, <1>5, <1>6, <1>7, <1>8 DEF ServeRun

\* The committer saves the attempt, then the session; a death in between leaves the old candidate.
LEMMA CommitKeeps ==
  ASSUME Provenance, Provenance', Orderly, OneCall, OneCall', NEW w \in Worker, ServeCommit(w)
  PROVE  Orderly'
  <1>0. /\ Filed /\ Works(w) /\ faults \in Nat /\ faults' \in Nat
    BY DEF Orderly, Provenance, Rest
  <1>1. CASE CommitFails(w) \/ CommitRefused(w)
    <2>1. /\ call[w].pc = "commit" /\ UNCHANGED <<session, attempts, results, approved, faults>>
          /\ Rescue(w, Mem(w)) \/ Goto(w, "human")
      BY <1>1 DEF CommitFails, CommitRefused, At, files, history
    <2>2. /\ call'[w].pc = "human" /\ Mem(w)' = Mem(w) /\ Job(w)' = Job(w) /\ Att(w)' = Att(w)
          /\ \A v \in Worker : v # w => call'[v] = call[v]
      BY <2>1, RescueIs, GotoIs
    <2>3. call[w].pc \in Owning
      BY <2>1 DEF Owning, FailedLabel
    <2>4. /\ approved \subseteq approved' /\ faults' >= faults
          /\ Att(w)'.no = Att(w).no /\ Att(w)'.key = Att(w).key /\ Att(w)'.status # "ABSENT"
          /\ Att(w)'.sql # NoSql => <<Job(w), Att(w)'.sql>> \in approved'
          /\ attempts[Att(w).no].sql \in {NoSql, Att(w)'.sql}
      <3>1. approved' = approved /\ faults' = faults /\ Att(w)' = Att(w)
        BY <2>1, <2>2
      <3> QED
        BY <1>0, <2>3, <3>1, OwnAttempt
    <2>5. UNCHANGED <<session, attempts, results>>
      BY <2>1
    <2> QED
      BY <1>0, <2>2, <2>3, <2>4, <2>5, GoesOn
  <1>2. CASE CommitAttempt(w)
    <2>1. PICK a, q : /\ a = Att(w)
                      /\ q = [session EXCEPT !.sql = a.sql, !.sqlAttempt = a.no,
                                             !.status = "SQL_READY_PENDING_UPSTREAM"]
      OBVIOUS
    <2>2. /\ call[w].pc = "commit" /\ attempts' = [attempts EXCEPT ![a.no] = a]
          /\ Continue(w, "commit_session", q, a, SqlReady(a.sql))
          /\ UNCHANGED <<session, results, approved, faults>>
      BY <1>2, <2>1 DEF CommitAttempt, At, history
    <2>3. /\ call'[w].pc = "commit_session" /\ Mem(w)' = q /\ Job(w)' = Job(w) /\ Att(w)' = a
          /\ call'[w].ret = SqlReady(a.sql) /\ call'[w].kept = Mem(w)
          /\ \A v \in Worker : v # w => call'[v] = call[v]
      BY <2>2, ContinueIs DEF Kept, Mem
    <2>4. call[w].pc \in Owning /\ call[w].pc \notin Ahead /\ a.status = "SQL_READY" /\ a.sql # NoSql
      BY <1>0, <2>1, <2>2, CallParts DEF Owning, FailedLabel, Ahead, Works, Owns, GoodCall, Att,
             Provenance
    <2>5. a \in Attempt /\ a.no \in AttemptNo /\ a.no <= session.count /\ a.key = Job(w)
      BY <2>1, <2>4, OwnAttempt
    <2>6. /\ Filed' /\ attempts'[a.no] = a
          /\ \A s \in Session : Book(s, attempts, results) => Book(s, attempts', results')
      BY <2>1, <2>2, <2>4, <2>5, OwnWrite
    <2>7. q.events = session.events /\ q.count = session.count /\ q.sql = a.sql /\ q.sqlAttempt = a.no
      BY <2>1, <2>4, OwnAttempt DEF Session
    <2>8. Book(session, attempts', results') /\ Book(Mem(w), attempts', results')
      BY <2>4, <2>6, OwnAttempt
    <2>9. Book(q, attempts', results')
      BY <2>4, <2>5, <2>6, <2>7, <2>8 DEF Book, Entry, Candidate
    <2>10. Current(w)'
      BY <2>2, <2>3, <2>4, <2>7, <2>8, <2>9, OwnAttempt DEF Current
    <2>11. Owns(w)'
      <3>1. SqlReady(a.sql) # NoResult
        BY DEF SqlReady, NoResult, Plain
      <3> QED
        BY <2>1, <2>2, <2>3, <2>4, <2>5, <2>6, <2>7, <3>1, OwnAttempt
           DEF Owns, Owning, FailedLabel, At, Recorded, RecordOf
    <2>12. Prepares(w)' /\ Unfinished(w)'
      BY <1>0, <2>2, <2>3, <2>7 DEF Works, Prepares, Unfinished, At, FailedLabel
    <2> QED
      BY <2>3, <2>4, <2>6, <2>10, <2>11, <2>12, OwnAttempt, OthersRest DEF Works
  <1>3. CASE CommitSession(w)
    <2>1. /\ call[w].pc = "commit_session" /\ session' = Mem(w) /\ Goto(w, "commit_done")
          /\ UNCHANGED <<attempts, results, approved, faults>>
      BY <1>3 DEF CommitSession, At, history
    <2>2. /\ call'[w].pc = "commit_done" /\ Mem(w)' = Mem(w) /\ Job(w)' = Job(w) /\ Att(w)' = Att(w)
          /\ call'[w].ret = call[w].ret /\ call'[w].kept = call[w].kept
          /\ \A v \in Worker : v # w => call'[v] = call[v]
      BY <2>1, GotoIs DEF Kept
    <2>3. /\ call[w].pc \in Owning /\ call[w].pc \notin Ahead /\ call[w].ret # NoResult
          /\ Att(w).status = "SQL_READY"
          /\ Book(call[w].kept, attempts, results)
          /\ call[w].kept.count = session.count /\ call[w].kept.events = session.events
      BY <1>0, <2>1 DEF Owning, FailedLabel, Ahead, Works, Owns, Current, Deciding
    <2>4. Filed'
      BY <1>0, <2>1, <2>3, OwnAttempt, SessionWrite DEF Recorded, RecordOf
    <2>5. Current(w)'
      BY <2>1, <2>2, <2>3, OwnAttempt DEF Current
    <2>6. Owns(w)'
      BY <2>1, <2>2, <2>3, OwnAttempt DEF Owns, Owning, FailedLabel, At
    <2>7. Prepares(w)' /\ Unfinished(w)'
      BY <1>0, <2>1, <2>2 DEF Works, Prepares, Unfinished, At, FailedLabel
    <2> QED
      BY <2>2, <2>3, <2>4, <2>5, <2>6, <2>7, OwnAttempt, OthersRest DEF Works
  <1>4. CASE CommitDone(w)
    <2>1. /\ call[w].pc = "commit_done" /\ attempts' = [attempts EXCEPT ![Att(w).no] = Att(w)]
          /\ Goto(w, "discard") /\ UNCHANGED <<session, results, approved, faults>>
      BY <1>4 DEF CommitDone, At, history
    <2>2. /\ call'[w].pc = "discard" /\ Mem(w)' = Mem(w) /\ Job(w)' = Job(w) /\ Att(w)' = Att(w)
          /\ call'[w].ret = call[w].ret
          /\ \A v \in Worker : v # w => call'[v] = call[v]
      BY <2>1, GotoIs
    <2>3. /\ call[w].pc \in Owning /\ call[w].pc \notin Ahead /\ call[w].ret # NoResult
          /\ Att(w).status = "SQL_READY"
      BY <1>0, <2>1 DEF Owning, FailedLabel, Ahead, Works, Owns, Deciding
    <2>4. PICK a : a = Att(w)
      OBVIOUS
    <2>5. /\ Filed' /\ attempts'[Att(w).no] = a
          /\ \A s \in Session : Book(s, attempts, results) => Book(s, attempts', results')
      BY <2>1, <2>3, <2>4, OwnAttempt, OwnWrite
    <2>6. Current(w)'
      BY <2>1, <2>2, <2>3, <2>5, OwnAttempt DEF Current
    <2>7. Owns(w)'
      BY <2>1, <2>2, <2>3, <2>4, <2>5, OwnAttempt DEF Owns, Owning, FailedLabel, At
    <2>8. Prepares(w)' /\ Unfinished(w)'
      BY <1>0, <2>1, <2>2 DEF Works, Prepares, Unfinished, At, FailedLabel
    <2> QED
      BY <2>2, <2>3, <2>5, <2>6, <2>7, <2>8, OwnAttempt, OthersRest DEF Works
  <1> QED
    BY <1>1, <1>2, <1>3, <1>4 DEF ServeCommit

\* What is stored of an answer is a result.
LEMMA SanitizedIs == ASSUME NEW r \in Result, r # NoResult PROVE Sanitized(r) # NoResult
  BY DEF Sanitized, NoResult, Plain, SqlReady, Unreadable

\* `_persist_external_result`: discard, store, finish.
LEMMA ResultKeeps ==
  ASSUME Provenance, Provenance', Orderly, OneCall, OneCall', NEW w \in Worker, ServeResult(w)
  PROVE  Orderly'
  <1>0. /\ Filed /\ Works(w) /\ faults \in Nat /\ faults' \in Nat
    BY DEF Orderly, Provenance, Rest
  <1>1. CASE DiscardActive(w)
    <2>1. /\ call[w].pc = "discard" /\ UNCHANGED <<session, attempts, results, approved, faults>>
          /\ Goto(w, "persist")
      BY <1>1 DEF DiscardActive, At, files, history
    <2>2. /\ call'[w].pc = "persist" /\ Mem(w)' = Mem(w) /\ Job(w)' = Job(w) /\ Att(w)' = Att(w)
          /\ call'[w].ret = call[w].ret
          /\ \A v \in Worker : v # w => call'[v] = call[v]
      BY <2>1, GotoIs
    <2>3. call[w].pc \in Owning /\ call[w].pc \notin Ahead /\ call[w].ret # NoResult
      BY <1>0, <2>1 DEF Owning, FailedLabel, Ahead, Works, Owns, Deciding
    <2>4. /\ approved \subseteq approved' /\ faults' >= faults
          /\ Att(w)'.no = Att(w).no /\ Att(w)'.key = Att(w).key /\ Att(w)'.status # "ABSENT"
          /\ Att(w)'.sql # NoSql => <<Job(w), Att(w)'.sql>> \in approved'
          /\ attempts[Att(w).no].sql \in {NoSql, Att(w)'.sql}
      <3>1. approved' = approved /\ faults' = faults /\ Att(w)' = Att(w)
        BY <2>1, <2>2
      <3> QED
        BY <1>0, <2>3, <3>1, OwnAttempt
    <2>5. UNCHANGED <<session, attempts, results>>
      BY <2>1
    <2> QED
      BY <1>0, <2>2, <2>3, <2>4, <2>5, GoesOn
  <1>2. CASE WriteResult(w)
    <2>1. PICK r : r = Sanitized(call[w].ret)
      OBVIOUS
    <2>2. /\ call[w].pc = "persist" /\ results' = [results EXCEPT ![Att(w).no] = r]
          /\ Goto(w, "finish") /\ UNCHANGED <<session, attempts, approved, faults>>
      BY <1>2, <2>1 DEF WriteResult, At, history
    <2>3. /\ call'[w].pc = "finish" /\ Mem(w)' = Mem(w) /\ Job(w)' = Job(w) /\ Att(w)' = Att(w)
          /\ \A v \in Worker : v # w => call'[v] = call[v]
      BY <2>2, GotoIs
    <2>4. call[w].pc \in Owning /\ call[w].pc \notin Ahead /\ call[w].ret # NoResult
      BY <1>0, <2>2 DEF Owning, FailedLabel, Ahead, Works, Owns, Deciding
    <2>5. r # NoResult /\ results \in [AttemptNo -> Result]
      BY <2>1, <2>4, Parts, SanitizedIs
    <2>6. /\ results'[Att(w).no] = r
          /\ \A n \in AttemptNo : results[n] # NoResult => results'[n] # NoResult
      BY <2>2, <2>4, <2>5, OwnAttempt
    <2>7. \A s \in Session : Book(s, attempts, results) => Book(s, attempts', results')
      <3>1. PICK A, A2, R, R2 : A = attempts /\ A2 = attempts' /\ R = results /\ R2 = results'
        OBVIOUS
      <3>2. ASSUME NEW s \in Session, Book(s, A, R) PROVE Book(s, A2, R2)
        <4>1. /\ \A k \in AttemptNo : k <= s.count =>
                   A2[k].key = A[k].key /\ (A[k].sql # NoSql => A2[k].sql = A[k].sql)
              /\ \A k \in AttemptNo : R[k] # NoResult => R2[k] # NoResult
          BY <2>2, <2>6, <3>1
        <4> QED
          BY <3>2, <4>1, BookStays
      <3> QED
        BY <3>1, <3>2
    <2>8. Book(Mem(w), attempts', results') /\ Book(session, attempts', results')
      BY <2>4, <2>7, OwnAttempt
    <2>9. Filed'
      BY <1>0, <2>2, <2>8 DEF Filed, Numbered
    <2>10. Current(w)'
      BY <2>2, <2>3, <2>4, <2>8, OwnAttempt DEF Current
    <2>11. Owns(w)'
      BY <2>2, <2>3, <2>4, <2>5, <2>6, OwnAttempt DEF Owns, Owning, FailedLabel, Deciding, At
    <2>12. Prepares(w)' /\ Unfinished(w)'
      BY <1>0, <2>2, <2>3 DEF Works, Prepares, Unfinished, At, FailedLabel
    <2> QED
      BY <2>3, <2>4, <2>9, <2>10, <2>11, <2>12, OwnAttempt, OthersRest DEF Works
  <1>3. CASE FinishFailed(w)
    <2>1. /\ call[w].pc = "finish" /\ UNCHANGED <<attempts, results, approved>> /\ Answer(w, call[w].ret)
          /\ session' = IF Recorded(Mem(w), Att(w).key)
                        THEN FinishEvent(Mem(w), Att(w).key, "SUCCEEDED", Att(w).no, "NONE")
                        ELSE Mem(w)
      BY <1>3 DEF FinishFailed, At, history
    <2>2. call[w].pc \in Owning /\ call[w].pc \notin Ahead /\ results[Att(w).no] # NoResult
      BY <1>0, <2>1 DEF Owning, FailedLabel, Ahead, Works, Owns, At
    <2>3. PICK q : q = FinishEvent(Mem(w), Job(w), "SUCCEEDED", Att(w).no, "NONE")
      OBVIOUS
    <2>4. session' = q
      BY <2>1, <2>2, <2>3, OwnAttempt
    <2>5. Att(w).no \in 0 .. MaxAttempts /\ Mem(w) \in Session /\ Job(w) \in Event
      BY <2>2, OwnAttempt, Parts DEF Att, Attempt
    <2>6. FinishedAs(q, Mem(w), Job(w), "SUCCEEDED", Att(w).no)
      BY <2>3, <2>5, FinishIs
    <2>7. Book(q, attempts, results) /\ \A e \in FailedEvent : Recorded(session, e) => Recorded(q, e)
      <3>1. Entry(q, Job(w), attempts, results)
        <4>1. /\ q.events[Job(w)].attempt = Att(w).no /\ q.events[Job(w)].ref = Att(w).no
              /\ Att(w).no <= q.count /\ attempts[Att(w).no].key = Job(w)
          BY <2>2, <2>6, OwnAttempt DEF FinishedAs
        <4> QED
          BY <2>2, <4>1 DEF Entry
      <3>2. Book(q, attempts, results)
        BY <2>2, <2>5, <2>6, <3>1, OwnAttempt, BookPut DEF FinishedAs
      <3> QED
        BY <2>2, <2>6, <3>2, OwnAttempt DEF FinishedAs, Recorded, RecordOf, Event
    <2>8. Filed'
      BY <1>0, <2>1, <2>4, <2>7, SessionWrite
    <2> QED
      BY <2>1, <2>2, <2>8, OwnAttempt, AnswerIs, Rests, OthersRest DEF Reloads
  <1> QED
    BY <1>1, <1>2, <1>3 DEF ServeResult

\* A SUCCESS event, the memory write and its compensation included.
LEMMA SuccessKeeps ==
  ASSUME Provenance, Orderly, OneCall, OneCall', NEW w \in Worker, ServeSuccess(w)
  PROVE  Orderly'
  <1>0. Filed /\ Works(w)
    BY DEF Orderly
  <1>a. ASSUME call[w].pc \in SuccessLabel \cup {"find"}
        PROVE  ~At(w, "idle") /\ Job(w) \in Event /\ ~call[w].guarded
    BY <1>0, <1>a, Parts DEF Works, Owns, At, SuccessLabel, FailedLabel, Owning
  <1>1. CASE AckDuplicate(w) \/ DegradeTimeout(w)
    <2>1. /\ call[w].pc \in SuccessLabel \cup {"find"} /\ UNCHANGED files /\ UNCHANGED approved
          /\ Answer(w, Ack) \/ Answer(w, Human)
      BY <1>1 DEF AckDuplicate, DegradeTimeout, FindSuccess, SuccessLabel, At, history, files
    <2> QED
      BY <1>0, <1>a, <2>1, SameFiles, AnswerIs, Rests, OthersRest DEF Reloads
  <1>2. CASE RecordSuccess(w)
    <2>1. /\ call[w].pc = "find" /\ Job(w) \in SuccessEvent /\ Job(w) \notin FailedEvent
          /\ UNCHANGED <<attempts, results, approved>>
      BY <1>2, ServiceAssumption DEF RecordSuccess, FindSuccess, At, history
    <2>2. /\ Mem(w).events = session.events /\ Mem(w).count = session.count
          /\ Book(Mem(w), attempts, results) /\ Mem(w) \in Session
      BY <1>0, <2>1, Parts DEF Works, Current, Reloads, Ahead
    <2>3. PICK q : q = PutRecord(Mem(w), Job(w), Received)
      OBVIOUS
    <2>4. Received \in Record
      BY ServiceAssumption DEF Received, NoRecord, Record
    <2>5. /\ q \in Session
          /\ \A x \in Event \ {Job(w)} : q.events[x] = Mem(w).events[x]
          /\ q.count = Mem(w).count /\ q.sql = Mem(w).sql /\ q.sqlAttempt = Mem(w).sqlAttempt
      BY <1>a, <2>1, <2>2, <2>3, <2>4, PutIs
    <2>6. Book(q, attempts, results)
      BY <1>a, <2>1, <2>2, <2>5, BookPut
    <2>7. PICK m : /\ Continue(w, "match", m, NoAttempt, NoResult)
                   /\ \/ session' = q /\ m = q
                      \/ session' = session /\ m = Mem(w)
      BY <1>2, <2>3 DEF RecordSuccess
    <2>8. Filed'
      BY <1>0, <2>1, <2>2, <2>5, <2>6, <2>7, SessionWrite DEF Recorded, RecordOf, Event, Filed
    <2>9. /\ call'[w].pc = "match" /\ Mem(w)' = m /\ Job(w)' = Job(w)
          /\ call'[w].guarded => call[w].guarded
          /\ \A v \in Worker : v # w => call'[v] = call[v]
      BY <2>7, ContinueIs
    <2>10. Current(w)' /\ Owns(w)'
      BY <1>a, <2>1, <2>2, <2>5, <2>6, <2>7, <2>9 DEF Current, Owns, Owning, FailedLabel,
             Deciding, At
    <2>11. Prepares(w)' /\ Unfinished(w)'
      BY <2>9 DEF Prepares, Unfinished, FailedLabel, At
    <2> QED
      BY <1>a, <2>1, <2>8, <2>9, <2>10, <2>11, OthersRest DEF Works
  <1>b. ASSUME call[w].pc \in {"match", "confirm", "finish_success", "degrade"}
        PROVE  /\ Mem(w).events = session.events /\ Mem(w).count = session.count
               /\ Book(Mem(w), attempts, results) /\ Mem(w) \in Session
               /\ Job(w) \in SuccessEvent /\ Job(w) \notin FailedEvent
    BY <1>0, <1>b, Parts, ServiceAssumption DEF Works, Current, Reloads, Ahead, SuccessLabel
  <1>3. ASSUME NEW c \in {"NONE", "UNMATCHED", "DEGRADED"}, NEW q,
               call[w].pc \in {"match", "finish_success", "degrade"},
               q = FinishEvent(Mem(w), Job(w), "SUCCEEDED", 0, c),
               session' \in {q, session}, UNCHANGED <<attempts, results, approved>>, Answer(w, Ack)
        PROVE  Orderly'
    <2>1. 0 \in 0 .. MaxAttempts /\ Job(w) \in Event /\ ~At(w, "idle")
      BY <1>3, <1>a, ServiceAssumption DEF SuccessLabel
    <2>2. FinishedAs(q, Mem(w), Job(w), "SUCCEEDED", 0)
      BY <1>3, <1>b, <2>1, FinishIs
    <2>3. Book(q, attempts, results)
      BY <1>3, <1>b, <2>1, <2>2, BookPut DEF FinishedAs
    <2>4. \A e \in FailedEvent : Recorded(session, e) => Recorded(q, e)
      BY <1>3, <1>b, <2>2 DEF FinishedAs, Recorded, RecordOf, Event
    <2>5. Book(session', attempts, results)
          /\ \A e \in FailedEvent : Recorded(session, e) => Recorded(session', e)
      BY <1>0, <1>3, <2>3, <2>4 DEF Filed
    <2>6. Filed'
      BY <1>0, <1>3, <2>5, SessionWrite
    <2> QED
      BY <1>3, <2>1, <2>6, AnswerIs, Rests, OthersRest DEF Reloads
  <1>4. CASE AckUnmatched(w)
    <2>1. PICK q : q = FinishEvent(Mem(w), Job(w), "SUCCEEDED", 0, "UNMATCHED")
      OBVIOUS
    <2> QED
      BY <1>3, <1>4, <2>1 DEF AckUnmatched, At, history
  <1>5. CASE FinishSuccess(w) \/ FinishDegraded(w)
    <2>1. PICK c \in {"NONE", "DEGRADED"} : SaveFinished(w, c) /\ call[w].pc \in {"finish_success", "degrade"}
      BY <1>5 DEF FinishSuccess, FinishDegraded, At
    <2>2. PICK q : q = FinishEvent(Mem(w), Job(w), "SUCCEEDED", 0, c)
      OBVIOUS
    <2> QED
      BY <1>3, <2>1, <2>2 DEF SaveFinished, history
  <1>6. CASE ConfirmAttempt(w)
    <2>1. PICK k, a, m : /\ k = Mem(w).sqlAttempt
                         /\ a = WithStatus(attempts[k], "UPSTREAM_CONFIRMED_SUCCESS")
                         /\ m = [Mem(w) EXCEPT !.status = "UPSTREAM_CONFIRMED_SUCCESS",
                                     !.confirmed = k, !.confirmedSql = Mem(w).sql]
      OBVIOUS
    <2>2. /\ call[w].pc = "match" /\ k # 0
          /\ attempts' = [attempts EXCEPT ![k] = WithStatus(attempts[k], "UPSTREAM_CONFIRMED_SUCCESS")]
          /\ Continue(w, "confirm", m, a, NoResult) /\ UNCHANGED <<session, results, approved>>
      BY <1>6, <2>1 DEF ConfirmAttempt, Matches, At, history
    <2>3. k \in AttemptNo /\ attempts[k] # NoAttempt
      BY <1>0, <1>b, <2>1, <2>2, KnownCandidate
    <2>4. /\ Filed' /\ \A s \in Session : Book(s, attempts, results) => Book(s, attempts', results')
      BY <1>0, <2>2, <2>3, StatusWrite DEF Settled
    <2>5. m.events = Mem(w).events /\ m.count = Mem(w).count /\ m.sql = Mem(w).sql /\ m.sqlAttempt = Mem(w).sqlAttempt
      BY <1>b, <2>1, <2>2 DEF Session
    <2>6. Book(Mem(w), attempts', results')
      BY <1>b, <2>2, <2>4
    <2>7. Book(m, attempts', results')
      BY <2>5, <2>6 DEF Book, Entry, Candidate
    <2>8. /\ call'[w].pc = "confirm" /\ Mem(w)' = m /\ Job(w)' = Job(w)
          /\ call'[w].guarded => call[w].guarded
          /\ \A v \in Worker : v # w => call'[v] = call[v]
      BY <2>2, ContinueIs
    <2>9. Current(w)' /\ Owns(w)'
      BY <1>a, <1>b, <2>2, <2>5, <2>7, <2>8
         DEF Current, Owns, Owning, FailedLabel, SuccessLabel, Deciding, At
    <2>10. Prepares(w)' /\ Unfinished(w)'
      BY <2>8 DEF Prepares, Unfinished, FailedLabel, At
    <2> QED
      BY <1>a, <2>2, <2>4, <2>8, <2>9, <2>10, OthersRest DEF Works, SuccessLabel
  <1>7. ASSUME NEW l \in Reloads, Goto(w, l), call[w].pc \in SuccessLabel, Filed' PROVE Orderly'
    <2>1. /\ call'[w].pc = l /\ (call'[w].guarded => call[w].guarded \/ l = "run")
          /\ \A v \in Worker : v # w => call'[v] = call[v]
      BY <1>7, GotoIs
    <2>2. ~call'[w].guarded /\ ~At(w, "idle")
      BY <1>7, <1>a, <2>1 DEF Reloads
    <2> QED
      BY <1>7, <2>1, <2>2, Rests, OthersRest
  <1>8. CASE ConfirmSession(w)
    <2>1. /\ call[w].pc = "confirm" /\ session' = Mem(w) /\ UNCHANGED <<attempts, results, approved>>
          /\ Goto(w, "memory")
      BY <1>8 DEF ConfirmSession, At, history
    <2>2. Filed'
      BY <1>0, <1>b, <2>1, SessionWrite DEF Recorded, RecordOf
    <2> QED
      BY <1>7, <2>1, <2>2 DEF Reloads, SuccessLabel
  <1>9. CASE WriteMemory(w) \/ MemoryDegraded(w)
    <2>1. /\ call[w].pc \in {"memory", "finish_lock"} /\ UNCHANGED files /\ UNCHANGED approved
          /\ Goto(w, "finish_lock") \/ Goto(w, "degrade_lock")
      BY <1>9 DEF WriteMemory, MemoryDegraded, At, history, files
    <2>2. Filed'
      BY <1>0, <2>1, SameFiles
    <2> QED
      BY <1>7, <2>1, <2>2 DEF Reloads, SuccessLabel
  <1> QED
    BY <1>1, <1>2, <1>4, <1>5, <1>6, <1>8, <1>9, EnterKeeps DEF ServeSuccess

\* A file operation fails.
LEMMA ErrorKeeps ==
  ASSUME Provenance, Provenance', Orderly, OneCall, OneCall', NEW w \in Worker,
         ErrorIsCaught(w) \/ ErrorIsRaised(w) \/ SuccessError(w)
  PROVE  Orderly'
  <1>0. Filed /\ Works(w)
    BY DEF Orderly
  <1>1. UNCHANGED <<session, attempts, results, approved>> /\ faults' = faults + 1 /\ UsesFile(w)
    BY DEF ErrorIsCaught, ErrorIsRaised, SuccessError, FileError, files
  <1>2. ~At(w, "idle") /\ Filed'
    BY <1>0, <1>1, SameFiles DEF UsesFile, FindFailed, FindSuccess, At, files
  <1>3. ASSUME NEW r, Answer(w, r) PROVE Orderly'
    BY <1>2, <1>3, AnswerIs, Rests, OthersRest DEF Reloads
  <1>4. CASE ErrorIsCaught(w)
    <2>1. call[w].guarded /\ Rescue(w, HandlersCopy(w))
      BY <1>4 DEF ErrorIsCaught
    <2>2. call[w].pc \in Owning
      BY <1>0, <2>1 DEF Works, Owns
    <2>3. PICK m : m = HandlersCopy(w)
      OBVIOUS
    <2>4. /\ Book(m, attempts, results) /\ m.count = session.count
          /\ \A x \in Event \ {Job(w)} : m.events[x] = session.events[x]
          /\ m.events[Job(w)].attempt = Att(w).no /\ Recorded(m, Job(w))
      <3>1. CASE call[w].pc \in {"commit_session", "commit_done"}
        <4>1. m = call[w].kept /\ Book(call[w].kept, attempts, results)
              /\ call[w].kept.count = session.count /\ call[w].kept.events = session.events
          BY <1>0, <2>3, <3>1 DEF HandlersCopy, Works, Current, At
        <4> QED
          BY <2>2, <4>1, OwnAttempt DEF Recorded, RecordOf
      <3>2. CASE call[w].pc = "finish"
        <4>1. m = FinishEvent(Mem(w), Job(w), "SUCCEEDED", Att(w).no, "NONE")
          BY <2>2, <2>3, <3>2, OwnAttempt DEF HandlersCopy, At
        <4>2. Att(w).no \in 0 .. MaxAttempts /\ Mem(w) \in Session /\ Job(w) \in Event
          BY <2>2, OwnAttempt, Parts DEF Att, Attempt
        <4>3. FinishedAs(m, Mem(w), Job(w), "SUCCEEDED", Att(w).no)
          BY <4>1, <4>2, FinishIs
        <4>4. /\ m.events[Job(w)].attempt = Att(w).no /\ m.events[Job(w)].ref = Att(w).no
              /\ Att(w).no <= m.count /\ attempts[Att(w).no].key = Job(w)
              /\ results[Att(w).no] # NoResult
          BY <1>0, <2>2, <3>2, <4>3, OwnAttempt DEF FinishedAs, Works, Owns, At
        <4>5. Entry(m, Job(w), attempts, results)
          BY <4>4 DEF Entry
        <4>6. Book(m, attempts, results)
          BY <2>2, <4>2, <4>3, <4>5, OwnAttempt, BookPut DEF FinishedAs
        <4> QED
          BY <2>2, <4>3, <4>4, <4>6, OwnAttempt DEF FinishedAs, Recorded, RecordOf
      <3>3. CASE call[w].pc \notin {"commit_session", "commit_done", "finish"}
        <4>1. m = Mem(w)
          BY <2>3, <3>3 DEF HandlersCopy, At
        <4> QED
          BY <2>2, <4>1, OwnAttempt
      <3> QED
        BY <3>1, <3>2, <3>3
    <2>5. /\ call'[w].pc = "human" /\ Mem(w)' = m /\ Job(w)' = Job(w) /\ Att(w)' = Att(w)
          /\ ~call'[w].guarded
          /\ \A v \in Worker : v # w => call'[v] = call[v]
      BY <2>1, <2>3, RescueIs
    <2>6. Current(w)'
      BY <1>1, <2>4, <2>5 DEF Current, Ahead
    <2>7. Owns(w)'
      BY <1>1, <2>2, <2>4, <2>5, OwnAttempt DEF Owns, Deciding, Owning, FailedLabel, At
    <2>8. Prepares(w)' /\ Unfinished(w)'
      <3>1. faults' # 0
        BY <1>1 DEF Provenance, Rest
      <3> QED
        BY <2>5, <3>1 DEF Prepares, Unfinished, At
    <2> QED
      BY <1>2, <2>5, <2>6, <2>7, <2>8, OthersRest DEF Works
  <1>5. CASE ErrorIsRaised(w)
    BY <1>3, <1>5 DEF ErrorIsRaised
  <1>6. CASE SuccessError(w)
    <2>1. CASE Goto(w, "degrade_lock")
      <3>1. /\ call'[w].pc = "degrade_lock" /\ (call'[w].guarded => call[w].guarded)
            /\ \A v \in Worker : v # w => call'[v] = call[v]
        BY <2>1, GotoIs
      <3>2. ~call[w].guarded
        BY <1>6, Parts, ServiceAssumption DEF SuccessError
      <3> QED
        BY <1>2, <3>1, <3>2, Rests, OthersRest DEF Reloads
    <2> QED
      BY <1>3, <1>6, <2>1 DEF SuccessError
  <1> QED
    BY <1>4, <1>5, <1>6

\* Steps outside the handlers.
LEMMA OuterKeeps ==
  ASSUME Provenance, Orderly, OneCall, OneCall',
         \/ \E w \in Worker, e \in Event : Submit(w, e)
         \/ \E p \in Process : Crash(p)
         \/ \E w \in Worker : FindStale(w) \/ RemoveStale(w)
         \/ UNCHANGED vars
  PROVE  Orderly'
  <1>1. UNCHANGED files /\ UNCHANGED approved /\ UNCHANGED faults
    BY DEF Submit, Crash, FindStale, RemoveStale, vars, files, history
  <1>2. Filed /\ Filed' /\ \A w \in Worker : Works(w)
    BY <1>1, SameFiles DEF Orderly
  <1>3. ASSUME NEW w \in Worker, NEW e \in Event, Submit(w, e) PROVE Orderly'
    <2>1. PICK c : c = [IdleCall EXCEPT !.pc = "lock", !.job = e]
      OBVIOUS
    <2>2. c.pc = "lock" /\ ~c.guarded
      BY <2>1 DEF IdleCall
    <2>3. call' = [call EXCEPT ![w] = c]
      BY <1>3, <2>1 DEF Submit
    <2>4. call'[w] = c /\ \A v \in Worker : v # w => call'[v] = call[v]
      BY <2>3 DEF Provenance, Calls
    <2> QED
      BY <1>2, <2>2, <2>4, Rests, OthersRest DEF Reloads, At
  <1>4. ASSUME NEW w \in Worker, call'[w] = call[w] PROVE Works(w)'
    <2>1. Works(w) /\ UNCHANGED <<session, attempts, results, approved, faults>> /\ call'[w] = call[w]
      BY <1>1, <1>2, <1>4 DEF files
    <2>2. Current(w)' /\ Owns(w)'
      BY <2>1 DEF Works, Current, Owns, Mem, Att, Job, At
    <2>3. Prepares(w)' /\ Unfinished(w)'
      BY <2>1 DEF Works, Prepares, Unfinished, Marking, Mem, Att, Job, At
    <2> QED
      BY <2>2, <2>3 DEF Works
  <1>5. ASSUME NEW p \in Process, Crash(p) PROVE Orderly'
    <2>1. ASSUME NEW w \in Worker PROVE Works(w)'
      <3>1. CASE call'[w] = call[w]
        BY <1>4, <3>1
      <3>2. CASE call'[w] # call[w]
        <4>1. call'[w] = IdleCall
          BY <1>5, <3>2 DEF Crash
        <4> QED
          BY <4>1, Rests DEF IdleCall, Reloads
      <3> QED
        BY <3>1, <3>2
    <2> QED
      BY <1>2, <2>1 DEF Orderly
  <1>6. CASE (\E w \in Worker : FindStale(w) \/ RemoveStale(w)) \/ UNCHANGED vars
    BY <1>2, <1>4, <1>6 DEF FindStale, RemoveStale, vars, Orderly
  <1> QED
    BY <1>3, <1>5, <1>6

\* A task without files is in order.
LEMMA OrderlyInit == Init => Orderly
  <1> SUFFICES ASSUME Init PROVE Orderly
    OBVIOUS
  <1>1. Filed
    BY DEF Init, Filed, Book, Entry, Candidate, Numbered, NewSession, NoRecord, Event
  <1>2. ASSUME NEW w \in Worker PROVE Works(w)
    <2>1. call[w].pc = "idle" /\ ~call[w].guarded
      BY DEF Init, IdleCall
    <2>2. Current(w) /\ Owns(w)
      BY <2>1 DEF Current, Owns, Reloads, Owning, FailedLabel, Deciding, At
    <2>3. Prepares(w) /\ Unfinished(w)
      BY <2>1 DEF Prepares, Unfinished, FailedLabel, At
    <2> QED
      BY <2>2, <2>3 DEF Works
  <1> QED
    BY <1>1, <1>2 DEF Orderly

\* Every step keeps the records in order, while calls do not overlap.
LEMMA OrderlyStep ==
  Provenance /\ Provenance' /\ OneCall /\ OneCall' /\ Orderly /\ [Next]_vars => Orderly'
  <1> SUFFICES ASSUME Provenance, Provenance', OneCall, OneCall', Orderly, [Next]_vars
               PROVE  Orderly'
    OBVIOUS
  <1>1. ASSUME NEW w \in Worker, Serve(w) PROVE Orderly'
    BY <1>1, EnterKeeps, DuplicateKeeps, NewKeeps, RunKeeps, CommitKeeps, ResultKeeps, SuccessKeeps,
           OuterKeeps
       DEF Serve
  <1> QED
    BY <1>1, ErrorKeeps, OuterKeeps DEF Next, Quiet

\* While calls do not overlap, the records, the attempts and the calls stay in
\* order, whatever dies or fails between two writes.
THEOREM RecordsStayInOrder == Spec /\ []OneCall => []Orderly
  BY OrderlyInit, OrderlyStep, ProvenanceInvariant, PTL DEF Spec

-----------------------------------------------------------------------------
(* What the records promise *)

\* The current candidate is the approved SQL of an attempt the session counts.
THEOREM CandidateIsProposed == Spec /\ []OneCall => []CandidateFromAttempt
  <1>1. ASSUME Provenance, Orderly PROVE CandidateFromAttempt
    <2>1. Filed /\ session \in Session /\ Book(session, attempts, results)
      BY <1>1 DEF Orderly, Filed, Provenance, Disk, GoodSession
    <2> QED
      BY <1>1, <2>1, KnownCandidate DEF CandidateFromAttempt
  <1> QED
    BY <1>1, RecordsStayInOrder, ProvenanceInvariant, PTL

-----------------------------------------------------------------------------
(* What a finished event keeps *)

\* A record put into a copy leaves the other events' records.
LEMMA PutOther ==
  ASSUME NEW m \in Session, NEW e \in Event, NEW j, NEW r, e # j
  PROVE  PutRecord(m, j, r).events[e] = m.events[e]
  BY DEF PutRecord, Session

\* While nothing has failed, no step of a call writes the record of a finished event.
LEMMA RecordKept ==
  ASSUME Provenance, Orderly, NEW w \in Worker, Serve(w), faults = 0,
         NEW e \in FailedEvent, session.events[e].ref # 0
  PROVE  session'.events[e] = session.events[e]
  <1>0. Filed /\ Works(w) /\ Mem(w) \in Session /\ e \in Event
    BY Parts DEF Orderly, Event
  <1>1. e = Job(w) => call[w].pc \in Reloads \cup {"find"}
    <2>1. call[w].pc \notin FailedLabel \/ e # Job(w)
      BY <1>0 DEF Works, Unfinished
    <2>2. call[w].pc \notin SuccessLabel \/ e # Job(w)
      BY Parts, ServiceAssumption
    <2>3. call[w].pc \in Label
      BY Parts
    <2> QED
      BY <2>1, <2>2, <2>3 DEF Label, FailedLabel, SuccessLabel, Reloads
  <1>2. call[w].pc \notin Reloads => Mem(w).events[e] = session.events[e]
    BY <1>0, <1>1 DEF Works, Current, Reloads, Ahead
  <1>3. Recorded(session, e)
    <2>1. session.events[e].ref = session.events[e].attempt
      BY <1>0 DEF Filed, Book, Entry
    <2> QED
      BY <1>0, <2>1, KnownAttempt
  <1>4. CASE UNCHANGED session
    BY <1>4
  <1>5. CASE session' = Mem(w) /\ call[w].pc \notin Reloads
    BY <1>2, <1>5
  <1>6. ASSUME NEW r, session' = PutRecord(Mem(w), Job(w), r), call[w].pc \notin Reloads, e # Job(w)
        PROVE  session'.events[e] = session.events[e]
    BY <1>0, <1>2, <1>6, PutOther
  <1>7. CASE RecoverWithoutAttempt(w)
    <2>1. Recovering(w) /\ call[w].pc = "find"
      BY <1>7 DEF RecoverWithoutAttempt, Recovering, FindFailed, At
    <2>2. e # Job(w)
      BY <2>1, Found
    <2> QED
      BY <1>6, <1>7, <2>1, <2>2 DEF RecoverWithoutAttempt, FinishEvent, Reloads
  <1>8. CASE RecordFailed(w)
    <2>1. call[w].pc = "find" /\ ~Recorded(Mem(w), Job(w))
      BY <1>8 DEF RecordFailed, FindFailed, At
    <2>2. e # Job(w)
      BY <1>2, <1>3, <2>1 DEF Recorded, RecordOf, Reloads
    <2> QED
      BY <1>6, <1>8, <2>1, <2>2 DEF RecordFailed, Reloads
  <1>9. CASE RecordSuccess(w)
    <2>1. call[w].pc = "find" /\ e # Job(w)
      BY <1>9, ServiceAssumption DEF RecordSuccess, FindSuccess, At
    <2> QED
      BY <1>4, <1>6, <1>9, <2>1 DEF RecordSuccess, Reloads
  <1>10. CASE FinishUnsafe(w) \/ AckUnmatched(w)
    <2>1. call[w].pc \in {"unsafe", "match"}
      BY <1>10 DEF FinishUnsafe, AckUnmatched, At
    <2>2. e # Job(w)
      BY <1>1, <2>1 DEF Reloads
    <2> QED
      BY <1>6, <1>10, <2>1, <2>2 DEF FinishUnsafe, AckUnmatched, FinishEvent, Reloads
  <1>11. CASE FinishSuccess(w) \/ FinishDegraded(w)
    <2>1. call[w].pc \in {"finish_success", "degrade"}
      BY <1>11 DEF FinishSuccess, FinishDegraded, At
    <2>2. e # Job(w)
      BY <1>1, <2>1 DEF Reloads
    <2> QED
      BY <1>4, <1>6, <1>11, <2>1, <2>2
         DEF FinishSuccess, FinishDegraded, SaveFinished, FinishEvent, Reloads
  <1>12. CASE FinishFailed(w)
    <2>1. call[w].pc = "finish"
      BY <1>12 DEF FinishFailed, At
    <2>2. e # Job(w) /\ Att(w).key = Job(w)
      BY <1>1, <2>1, OwnAttempt DEF Reloads, Owning, FailedLabel
    <2> QED
      BY <1>5, <1>6, <1>12, <2>1, <2>2 DEF FinishFailed, FinishEvent, Reloads
  <1>13. CASE BeginRun(w)
    <2>1. call[w].pc = "begin" /\ session' = [Mem(w) EXCEPT !.status = "RUNNING"]
      BY <1>13 DEF BeginRun, At
    <2>2. session'.events = Mem(w).events
      BY <1>0, <2>1 DEF Session
    <2> QED
      BY <1>2, <2>1, <2>2 DEF Reloads
  <1>14. CASE LinkAttempt(w) \/ StopRun(w) \/ SaveHumanSession(w) \/ CommitSession(w) \/ ConfirmSession(w)
    BY <1>5, <1>14
       DEF LinkAttempt, StopRun, SaveHumanSession, CommitSession, ConfirmSession, At, Reloads
  <1>15. CASE ServeDuplicate(w)
    BY <1>4, <1>7, <1>10, <1>15
       DEF ServeDuplicate, ReplayResult, AnswerInProgress, RecoverEnded, ResumeAttempt,
           RecoverUnsafe, files
  <1>16. CASE ServeNew(w)
    BY <1>4, <1>8, <1>13, <1>14, <1>16 DEF ServeNew, CreateAttempt
  <1>17. CASE ServeRun(w)
    BY <1>4, <1>14, <1>17
       DEF ServeRun, RejectInput, KeepPrevious, LoadPrevious, SavePrevious, AgentProposes,
           AgentStops, AgentRaises, SaveHumanAttempt, files
  <1>18. CASE ServeCommit(w)
    BY <1>4, <1>14, <1>18
       DEF ServeCommit, CommitFails, CommitRefused, CommitAttempt, CommitDone, files
  <1>19. CASE ServeResult(w)
    BY <1>4, <1>12, <1>19 DEF ServeResult, DiscardActive, WriteResult, files
  <1>20. CASE ServeSuccess(w)
    BY <1>4, <1>9, <1>10, <1>11, <1>14, <1>20
       DEF ServeSuccess, AckDuplicate, ConfirmAttempt, WriteMemory, MemoryDegraded, ReloadForFinish,
           ReloadForDegrade, LockAndLoad, DegradeTimeout, files
  <1>21. CASE EnterSession(w) \/ FindStale(w) \/ RemoveStale(w) \/ LockTimeout(w)
    BY <1>4, <1>21 DEF EnterSession, FindStale, RemoveStale, LockTimeout, LockAndLoad, files
  <1> QED
    BY <1>15, <1>16, <1>17, <1>18, <1>19, <1>20, <1>21 DEF Serve

\* Nor its stored result.
LEMMA ResultKept ==
  ASSUME Provenance, Orderly, NEW w \in Worker, Serve(w), faults = 0,
         NEW e \in FailedEvent, session.events[e].ref # 0
  PROVE  results'[session.events[e].ref] = results[session.events[e].ref]
  <1>1. CASE WriteResult(w)
    <2>1. /\ call[w].pc = "persist" /\ call[w].pc \in Owning
          /\ results' = [results EXCEPT ![Att(w).no] = Sanitized(call[w].ret)]
      BY <1>1 DEF WriteResult, At, Owning, FailedLabel
    <2>2. session.events[Job(w)].ref = 0 /\ attempts[Att(w).no].key = Job(w)
      BY <2>1, OwnAttempt DEF Works, Unfinished, Owning
    <2>3. attempts[session.events[e].ref].key = e
      BY DEF Orderly, Filed, Book, Entry
    <2>4. session.events[e].ref # Att(w).no
      BY <2>2, <2>3
    <2> QED
      BY <2>1, <2>4, Parts
  <1>2. CASE UNCHANGED results
    BY <1>2
  <1>3. ASSUME ~WriteResult(w) PROVE UNCHANGED results
    <2>1. CASE ServeDuplicate(w)
      BY <2>1
         DEF ServeDuplicate, ReplayResult, AnswerInProgress, RecoverWithoutAttempt, RecoverEnded,
             ResumeAttempt, RecoverUnsafe, FinishUnsafe, files
    <2>2. CASE ServeNew(w)
      BY <2>2 DEF ServeNew, RecordFailed, CreateAttempt, LinkAttempt, BeginRun
    <2>3. CASE ServeRun(w)
      BY <2>3
         DEF ServeRun, RejectInput, KeepPrevious, LoadPrevious, SavePrevious, AgentProposes,
             AgentStops, StopRun, AgentRaises,
             SaveHumanAttempt, SaveHumanSession, files
    <2>4. CASE ServeCommit(w)
      BY <2>4 DEF ServeCommit, CommitFails, CommitRefused, CommitAttempt, CommitSession,
             CommitDone, files
    <2>5. CASE ServeResult(w)
      BY <1>3, <2>5 DEF ServeResult, DiscardActive, FinishFailed, files
    <2>6. CASE ServeSuccess(w)
      BY <2>6
         DEF ServeSuccess, AckDuplicate, RecordSuccess, AckUnmatched, ConfirmAttempt,
             ConfirmSession,
             WriteMemory, MemoryDegraded, ReloadForFinish, ReloadForDegrade, LockAndLoad,
             FinishSuccess,
             FinishDegraded, SaveFinished, DegradeTimeout, files
    <2>7. CASE EnterSession(w) \/ FindStale(w) \/ RemoveStale(w) \/ LockTimeout(w)
      BY <2>7 DEF EnterSession, FindStale, RemoveStale, LockTimeout, LockAndLoad, files
    <2> QED
      BY <2>1, <2>2, <2>3, <2>4, <2>5, <2>6, <2>7 DEF Serve
  <1> QED
    BY <1>1, <1>2, <1>3

\* The number of faults never falls.
LEMMA ServeFaults == ASSUME NEW w \in Worker, Serve(w) PROVE UNCHANGED faults
  <1>1. CASE ServeDuplicate(w)
    BY <1>1
       DEF ServeDuplicate, ReplayResult, AnswerInProgress, RecoverWithoutAttempt, RecoverEnded,
           ResumeAttempt, RecoverUnsafe, FinishUnsafe, history
  <1>2. CASE ServeNew(w)
    BY <1>2 DEF ServeNew, RecordFailed, CreateAttempt, LinkAttempt, BeginRun, history
  <1>3. CASE ServeRun(w)
    BY <1>3
       DEF ServeRun, RejectInput, KeepPrevious, LoadPrevious, SavePrevious, AgentProposes,
           AgentStops, StopRun, AgentRaises,
           SaveHumanAttempt, SaveHumanSession, history
  <1>4. CASE ServeCommit(w)
    BY <1>4 DEF ServeCommit, CommitFails, CommitRefused, CommitAttempt, CommitSession, CommitDone,
           history
  <1>5. CASE ServeResult(w)
    BY <1>5 DEF ServeResult, DiscardActive, WriteResult, FinishFailed, history
  <1>6. CASE ServeSuccess(w)
    BY <1>6
       DEF ServeSuccess, AckDuplicate, RecordSuccess, AckUnmatched, ConfirmAttempt, ConfirmSession,
           WriteMemory, MemoryDegraded, ReloadForFinish, ReloadForDegrade, LockAndLoad,
           FinishSuccess,
           FinishDegraded, SaveFinished, DegradeTimeout, history
  <1>7. CASE EnterSession(w) \/ FindStale(w) \/ RemoveStale(w) \/ LockTimeout(w)
    BY <1>7 DEF EnterSession, FindStale, RemoveStale, LockTimeout, LockAndLoad, history
  <1> QED
    BY <1>1, <1>2, <1>3, <1>4, <1>5, <1>6, <1>7 DEF Serve

\* While no file operation has failed, a finished event keeps its record and
\* its result, whatever is reported, fails, dies or is retried after it.
THEOREM FinishedStays == Spec /\ []OneCall => FinishedForever
  <1>1. ASSUME Provenance, Orderly, [Next]_vars, faults' = 0, NEW e \in FailedEvent,
               session.events[e].ref # 0
        PROVE  /\ session'.events[e] = session.events[e]
               /\ results'[session.events[e].ref] = results[session.events[e].ref]
    <2>0. faults \in Nat
      BY <1>1 DEF Provenance, Rest
    <2>1. ASSUME NEW w \in Worker, Serve(w) 
          PROVE  /\ session'.events[e] = session.events[e]
                 /\ results'[session.events[e].ref] = results[session.events[e].ref]
      BY <1>1, <2>1, ServeFaults, RecordKept, ResultKept
    <2>2. ASSUME NEW w \in Worker, ErrorIsCaught(w) \/ ErrorIsRaised(w) \/ SuccessError(w) PROVE FALSE
      BY <1>1, <2>0, <2>2 DEF ErrorIsCaught, ErrorIsRaised, SuccessError, FileError
    <2>3. CASE UNCHANGED files
      BY <2>3 DEF files
    <2> QED
      BY <1>1, <2>1, <2>2, <2>3 DEF Next, Submit, Crash, Quiet, vars
  <1>2. Provenance /\ Orderly /\ [Next]_vars =>
          [faults' = 0 => \A e \in FailedEvent :
             LET r == session.events[e]
             IN  r.ref # 0 => session'.events[e] = r /\ results'[r.ref] = results[r.ref]]_vars
    BY <1>1
  <1> QED
    BY <1>2, RecordsStayInOrder, ProvenanceInvariant, PTL DEF Spec, FinishedForever

-----------------------------------------------------------------------------
(* How a step changes what was answered *)

\* Approval of SQL is never withdrawn.
LEMMA FairStays ==
  ASSUME approved \subseteq approved', NEW e, NEW r, Fair(e, r)
  PROVE  Fair(e, r)'
  BY DEF Fair

\* What may be answered is stored as it is, unless the sanitizer changes it.
LEMMA StoredAsIs ==
  ASSUME NothingRedacted, NEW e, NEW r, Fair(e, r)
  PROVE  Sanitized(r) = r
  <1>1. CASE r = Human \/ r = Plain("NO_SQL")
    BY <1>1 DEF Sanitized, Human, Plain
  <1>2. ASSUME NEW s \in Sql, r = SqlReady(s) PROVE Sanitized(r) = r
    <2>1. r.sql = s /\ Redact[s] = s /\ s # NoSql
      BY <1>2, ServiceAssumption DEF SqlReady, NothingRedacted
    <2> QED
      BY <1>2, <2>1 DEF Sanitized
  <1> QED
    BY <1>1, <1>2 DEF Fair

\* A call that holds no copy answers nothing.
LEMMA SaysNothing ==
  ASSUME NEW w \in Worker, call'[w].pc \in Reloads \cup SuccessLabel \cup {"find"}
  PROVE  Returns(w)' /\ Repeats(w)'
  BY DEF Returns, Repeats, Reloads, FailedLabel, SuccessLabel, At

\* Neither does one that works on an event that was not answered.
LEMMA NotRepeated ==
  ASSUME NEW w \in Worker, Final(Job(w)) = {}, UNCHANGED answers, Job(w)' = Job(w),
         call'[w].pc # "unsafe"
  PROVE  Repeats(w)'
  BY DEF Repeats, Final, At

\* An event that is being worked on was not answered, except where it is
\* answered HUMAN_REQUIRED again.
LEMMA Fresh ==
  ASSUME Consistent, NEW w \in Worker, call[w].pc \in FailedLabel,
         call[w].guarded \/ call[w].pc \notin {"unsafe", "discard", "persist", "finish"}
  PROVE  Final(Job(w)) = {}
  BY DEF Consistent, Repeats

\* A step of a call that answers nobody.
LEMMA OnlySteps ==
  ASSUME OneCall, OneCall', Consistent, NEW w \in Worker, ~At(w, "idle"),
         \A v \in Worker : v # w => call'[v] = call[v],
         UNCHANGED answers,
         \A n \in AttemptNo : Earned(n)',
         \A e \in FailedEvent : \A q \in Final(e) : Given(e, q)',
         Returns(w)', Repeats(w)'
  PROVE  Consistent'
  <1>1. ASSUME NEW v \in Worker, v # w PROVE Returns(v)' /\ Repeats(v)'
    <2>1. At(v, "idle") /\ call'[v] = call[v]
      BY <1>1 DEF OneCall
    <2> QED
      BY <2>1, SaysNothing DEF At, Reloads
  <1>2. Agreed' /\ NoSqlForSuccess'
    BY DEF Consistent, Agreed, NoSqlForSuccess, Final
  <1> QED
    BY <1>1, <1>2 DEF Consistent

\* A step that answers r.
LEMMA StepAnswers ==
  ASSUME Provenance, OneCall, OneCall', Consistent, NEW w \in Worker, ~At(w, "idle"), NEW r,
         Answer(w, r), NEW j, j = Job(w),
         \A n \in AttemptNo : Earned(n)',
         \A e \in FailedEvent : \A q \in Final(e) : Given(e, q)',
         j \in FailedEvent /\ r \notin {Busy, Unreadable} => Given(j, r)',
         j \in SuccessEvent => r.status # "SQL_READY"
  PROVE  Consistent'
  <1>1. /\ call'[w].pc = "idle" /\ \A v \in Worker : v # w => call'[v] = call[v]
        /\ answers' = [answers EXCEPT ![j] = @ \cup {r}]
    BY AnswerIs DEF Answer, Job
  <1>2. ASSUME NEW v \in Worker PROVE Returns(v)' /\ Repeats(v)'
    <2>1. call'[v].pc = "idle"
      BY <1>1 DEF OneCall, At
    <2> QED
      BY <2>1, SaysNothing DEF Reloads
  <1>3. answers \in [Event -> SUBSET Result]
    BY DEF Provenance, Answered
  <1>4. ASSUME NEW e \in Event
        PROVE  answers'[e] = answers[e] \/ (e = j /\ answers'[e] = answers[e] \cup {r})
    BY <1>1, <1>3
  <1>5. Agreed'
    <2>1. ASSUME NEW e \in FailedEvent, NEW q \in Final(e)' PROVE Given(e, q)'
      <3>1. q \in Final(e) \/ (e = j /\ q = r /\ q \notin {Busy, Unreadable})
        BY <1>4, <2>1 DEF Final, Event
      <3> QED
        BY <3>1
    <2> QED
      BY <2>1 DEF Agreed
  <1>6. NoSqlForSuccess'
    BY <1>4 DEF NoSqlForSuccess, Consistent, Event
  <1> QED
    BY <1>2, <1>5, <1>6 DEF Consistent

-----------------------------------------------------------------------------
(* How a step changes what the answers rest on *)

\* No file is written.
LEMMA FilesRest ==
  ASSUME Consistent, UNCHANGED <<session, attempts, results>>, approved \subseteq approved'
  PROVE  /\ \A n \in AttemptNo : Earned(n)'
         /\ \A e \in FailedEvent : \A q \in Final(e) : Given(e, q)'
  <1>1. ASSUME NEW n \in AttemptNo PROVE Earned(n)'
    BY FairStays DEF Consistent, Earned
  <1>2. ASSUME NEW e \in FailedEvent, NEW q \in Final(e) PROVE Given(e, q)'
    <2>1. Given(e, q) /\ Fair(e, q)'
      BY FairStays DEF Consistent, Agreed, Given
    <2> QED
      BY <2>1 DEF Given, Recorded, RecordOf
  <1> QED
    BY <1>1, <1>2

\* session.json is replaced by a copy that has the records of other events, and
\* honours what was answered of event j.
LEMMA SessionRests ==
  ASSUME Consistent, UNCHANGED <<attempts, results, approved>>, NEW j,
         session \in Session, session' \in Session, session'.count >= session.count,
         \A e \in FailedEvent \ {j} : session'.events[e] = session.events[e],
         j \in FailedEvent => \A q \in Final(j) : Given(j, q)'
  PROVE  /\ \A n \in AttemptNo : Earned(n)'
         /\ \A e \in FailedEvent : \A q \in Final(e) : Given(e, q)'
  <1>1. ASSUME NEW n \in AttemptNo PROVE Earned(n)'
    <2>1. Earned(n) /\ session.count \in Nat /\ session'.count \in Nat /\ n \in Nat
      BY ServiceAssumption DEF Consistent, Session, AttemptNo
    <2> QED
      BY <2>1, FairStays DEF Earned
  <1>2. ASSUME NEW e \in FailedEvent, NEW q \in Final(e) PROVE Given(e, q)'
    <2>1. CASE e # j
      <3>1. Given(e, q) /\ Fair(e, q)'
        BY FairStays DEF Consistent, Agreed, Given
      <3> QED
        BY <2>1, <3>1 DEF Given, Recorded, RecordOf
    <2> QED
      BY <2>1
  <1> QED
    BY <1>1, <1>2

\* An attempt is saved, with a status from which no SQL can be answered, or for
\* an event that was not answered.
LEMMA AttemptsRest ==
  ASSUME Consistent, Orderly, NEW k \in AttemptNo, NEW a,
         attempts' = [attempts EXCEPT ![k] = a], UNCHANGED <<session, results, approved>>,
         attempts \in [AttemptNo -> Attempt], session \in Session,
         a.key = attempts[k].key, a.status \in Settled \/ Final(a.key) = {}
  PROVE  /\ \A n \in AttemptNo : Earned(n)'
         /\ \A e \in FailedEvent : \A q \in Final(e) : Given(e, q)'
  <1>1. ASSUME NEW n \in AttemptNo PROVE Earned(n)'
    <2>1. attempts'[n].key = attempts[n].key
      OBVIOUS
    <2> QED
      BY <2>1, FairStays DEF Consistent, Earned
  <1>2. ASSUME NEW e \in FailedEvent, NEW q \in Final(e) PROVE Given(e, q)'
    <2>1. Given(e, q) /\ Fair(e, q)'
      BY FairStays DEF Consistent, Agreed, Given
    <2>2. session.events[e].attempt # 0 => attempts[session.events[e].attempt].key = e
      BY DEF Orderly, Filed, Book, Entry
    <2>3. session.events[e].attempt \in 0 .. MaxAttempts
      BY DEF Session, Record, Event
    <2>4. session.events[e].attempt = k => session.events[e].attempt # 0 /\ a.status \in Settled
      BY <1>2, <2>2, ServiceAssumption DEF AttemptNo
    <2>5. session.events[e].attempt # 0 => session.events[e].attempt \in AttemptNo
      BY <2>3, ServiceAssumption DEF AttemptNo
    <2>6. session.events[e].attempt # 0 /\ attempts[session.events[e].attempt].status \in Settled
            => attempts'[session.events[e].attempt].status \in Settled
      BY <2>4, <2>5
    <2> QED
      BY <2>1, <2>6 DEF Given, Recorded, RecordOf
  <1> QED
    BY <1>1, <1>2

-----------------------------------------------------------------------------
(* Consistent is kept: one lemma per part of the handler *)

\* Taking or missing the lock, and loading the session.
LEMMA EnterAgrees ==
  ASSUME Provenance, OneCall, OneCall', Consistent, NEW w \in Worker,
         EnterSession(w) \/ LockTimeout(w) \/ ReloadForFinish(w) \/ ReloadForDegrade(w)
  PROVE  Consistent'
  <1>1. /\ ~At(w, "idle") /\ UNCHANGED <<session, attempts, results>> /\ approved \subseteq approved'
    BY DEF EnterSession, LockTimeout, ReloadForFinish, ReloadForDegrade, LockAndLoad, At, files,
           history
  <1>2. /\ \A n \in AttemptNo : Earned(n)'
        /\ \A e \in FailedEvent : \A q \in Final(e) : Given(e, q)'
    BY <1>1, FilesRest
  <1>3. CASE LockTimeout(w)
    BY <1>1, <1>2, <1>3, StepAnswers DEF LockTimeout, Busy, Plain
  <1>4. ASSUME NEW from, NEW to \in {"find", "finish_success", "degrade"}, LockAndLoad(w, from, to)
        PROVE  Consistent'
    <2>1. /\ call'[w].pc = to /\ UNCHANGED answers /\ \A v \in Worker : v # w => call'[v] = call[v]
      BY <1>4, ContinueIs DEF LockAndLoad
    <2>2. Returns(w)' /\ Repeats(w)'
      BY <2>1, SaysNothing DEF SuccessLabel
    <2> QED
      BY <1>1, <1>2, <2>1, <2>2, OnlySteps
  <1> QED
    BY <1>3, <1>4 DEF EnterSession, ReloadForFinish, ReloadForDegrade

\* What was answered of an event that is found without a stored result.
LEMMA FoundAnswers ==
  ASSUME Provenance, Orderly, Consistent, NEW w \in Worker, Recovering(w), NEW q \in Final(Job(w))
  PROVE  /\ q = Human /\ Fair(Job(w), q)
         /\ Own(w).attempt # 0 => attempts[Own(w).attempt].status \in Settled
  <1>1. Given(Job(w), q) /\ session.events[Job(w)].ref = 0 /\ Own(w) = session.events[Job(w)]
    BY Found DEF Consistent, Agreed
  <1> QED
    BY <1>1 DEF Given

\* The event is finished as HUMAN_REQUIRED without a result.
LEMMA HumanAgrees ==
  ASSUME Provenance, Provenance', Orderly, OneCall, OneCall', Consistent, NEW w \in Worker,
         call[w].pc \in {"find", "unsafe"}, Job(w) \in FailedEvent,
         session.events[Job(w)].ref = 0,
         session.events[Job(w)].attempt # 0 => attempts[session.events[Job(w)].attempt].status \in Settled,
         session' = FinishEvent(Mem(w), Job(w), "SYSTEM_ERROR", 0, "RECOVERY"),
         UNCHANGED <<attempts, results, approved>>, Answer(w, Human)
  PROVE  Consistent'
  <1>1. PICK j : j = Job(w)
    OBVIOUS
  <1>2. PICK q : q = FinishEvent(Mem(w), j, "SYSTEM_ERROR", 0, "RECOVERY")
    OBVIOUS
  <1>3. /\ session' = q /\ j \in FailedEvent /\ j \in Event /\ ~At(w, "idle")
        /\ Mem(w) \in Session /\ session \in Session /\ 0 \in 0 .. MaxAttempts
    BY <1>1, <1>2, Parts, ServiceAssumption DEF At, Event
  <1>4. Mem(w).events = session.events /\ Mem(w).count = session.count
    BY DEF Orderly, Works, Current, Reloads, Ahead
  <1>5. FinishedAs(q, Mem(w), j, "SYSTEM_ERROR", 0)
    BY <1>2, <1>3, FinishIs
  <1>6. /\ q \in Session /\ \A x \in Event \ {j} : q.events[x] = session.events[x]
        /\ q.events[j].ref = 0 /\ q.events[j].attempt = session.events[j].attempt
        /\ q.events[j].status # "ABSENT" /\ q.count = session.count
    BY <1>4, <1>5 DEF FinishedAs
  <1>7. Given(j, Human)'
    BY <1>1, <1>3, <1>6 DEF Given, Recorded, RecordOf, Fair
  <1>8. ASSUME NEW r \in Final(j) PROVE Given(j, r)'
    <2>1. Given(j, r)
      BY <1>3 DEF Consistent, Agreed
    <2>2. r = Human
      BY <1>1, <2>1 DEF Given
    <2> QED
      BY <1>7, <2>2
  <1>9. session'.count >= session.count
    BY <1>3, <1>6, ServiceAssumption DEF Session
  <1>10. \A e \in FailedEvent \ {j} : session'.events[e] = session.events[e]
    BY <1>3, <1>6 DEF Event
  <1>11. /\ \A n \in AttemptNo : Earned(n)'
         /\ \A e \in FailedEvent : \A r \in Final(e) : Given(e, r)'
    BY <1>3, <1>6, <1>8, <1>9, <1>10, SessionRests
  <1> QED
    BY <1>1, <1>3, <1>7, <1>11, StepAnswers DEF Human, Plain

\* A FAILED event that has a record gets the answer that is stored for it, or one that is the first.
LEMMA DuplicateAgrees ==
  ASSUME Provenance, Provenance', Orderly, OneCall, OneCall', Consistent, NEW w \in Worker,
         ServeDuplicate(w)
  PROVE  Consistent'
  <1>0. PICK j : j = Job(w)
    OBVIOUS
  <1>1. CASE ReplayResult(w) \/ AnswerInProgress(w)
    <2>1. /\ ~At(w, "idle") /\ UNCHANGED <<session, attempts, results>> /\ approved \subseteq approved'
          /\ At(w, "find") /\ j \in FailedEvent /\ j \in Event /\ j \notin SuccessEvent
      BY <1>0, <1>1, ServiceAssumption DEF ReplayResult, AnswerInProgress, FindFailed, At, files,
             history, Event
    <2>2. /\ \A n \in AttemptNo : Earned(n)'
          /\ \A e \in FailedEvent : \A q \in Final(e) : Given(e, q)'
      BY <2>1, FilesRest
    <2>3. CASE AnswerInProgress(w)
      BY <1>0, <2>1, <2>2, <2>3, StepAnswers DEF AnswerInProgress
    <2>4. CASE ReplayResult(w)
      <3>1. PICK n, r : n = session.events[j].ref /\ r = results[n]
        OBVIOUS
      <3>2. Mem(w).events = session.events
        BY <2>1 DEF Orderly, Works, Current, Reloads, Ahead, At
      <3>3. n # 0 /\ r # NoResult /\ Answer(w, r) /\ Recorded(session, j)
        BY <1>0, <2>4, <3>1, <3>2 DEF ReplayResult, Replayable, Own, Recorded, RecordOf
      <3>4. attempts[n].key = j
        BY <2>1, <3>1, <3>3 DEF Orderly, Filed, Book, Entry
      <3>5. n \in AttemptNo
        <4>1. session.events[j] \in Record
          BY <2>1, Parts DEF Session
        <4> QED
          BY <3>1, <3>3, <4>1, ServiceAssumption DEF Record, AttemptNo
      <3>6. Fair(j, r)
        BY <3>1, <3>3, <3>4, <3>5 DEF Consistent, Earned
      <3>7. Given(j, r)'
        BY <2>1, <3>1, <3>3, <3>6, FairStays DEF Given, Recorded, RecordOf
      <3> QED
        BY <1>0, <2>1, <2>2, <3>3, <3>7, StepAnswers
    <2> QED
      BY <1>1, <2>3, <2>4
  <1>2. CASE RecoverWithoutAttempt(w)
    BY <1>2, Found, HumanAgrees DEF RecoverWithoutAttempt, Recovering, FindFailed, At, history
  <1>3. CASE FinishUnsafe(w)
    <2>1. /\ session.events[Job(w)].ref = 0
          /\ session.events[Job(w)].attempt # 0 => attempts[session.events[Job(w)].attempt].status \in Settled
      BY <1>3 DEF FinishUnsafe, Consistent, Repeats
    <2>2. Job(w) \in FailedEvent
      BY <1>3, Parts DEF FinishUnsafe, At, FailedLabel
    <2> QED
      BY <1>3, <2>1, <2>2, HumanAgrees DEF FinishUnsafe, At, history
  <1>4. CASE RecoverEnded(w)
    <2>1. PICK a, r : /\ Recovering(w) /\ Own(w).attempt # 0 /\ a = OnDisk(w)
                      /\ Continue(w, "discard", Mem(w), a, r) /\ UNCHANGED <<session, attempts, results, approved, answers>>
                      /\ \/ a.status = "SQL_READY" /\ a.sql # NoSql /\ r = SqlReady(a.sql)
                         \/ r = Human
      BY <1>4 DEF RecoverEnded, files, history
    <2>2. PICK k : k = Own(w).attempt
      OBVIOUS
    <2>3. /\ ~At(w, "idle") /\ Job(w) \in FailedEvent /\ k \in AttemptNo /\ ~call[w].guarded
          /\ k = session.events[Job(w)].attempt /\ session.events[Job(w)].ref = 0 /\ a = attempts[k]
      BY <2>1, <2>2, Found DEF OnDisk
    <2>4. /\ a \in Attempt /\ a.no = k /\ a.key = Job(w)
          /\ a.sql # NoSql => <<Job(w), a.sql>> \in approved
      BY <2>1, <2>2, <2>3, KnownAttempt DEF Orderly
    <2>5. /\ call'[w].pc = "discard" /\ Job(w)' = Job(w) /\ Att(w)' = a /\ call'[w].ret = r
          /\ ~call'[w].guarded
          /\ \A v \in Worker : v # w => call'[v] = call[v]
      BY <2>1, <2>3, ContinueIs
    <2>6. /\ \A n \in AttemptNo : Earned(n)'
          /\ \A e \in FailedEvent : \A q \in Final(e) : Given(e, q)'
      BY <2>1, FilesRest
    <2>7. Fair(Job(w), r)
      BY <2>1, <2>4 DEF Fair, Attempt
    <2>8. Returns(w)'
      BY <2>1, <2>5, <2>7 DEF Returns, Fair, At
    <2>9. Repeats(w)'
      <3>1. Final(Job(w)) # {} => a.status \in Settled
        BY <2>1, <2>2, <2>3, FoundAnswers
      <3>2. Final(Job(w)) # {} => r = Human
        BY <2>1, <3>1 DEF Settled
      <3> QED
        BY <2>1, <2>3, <2>4, <2>5, <3>1, <3>2 DEF Repeats, Final, At
    <2> QED
      BY <2>1, <2>3, <2>5, <2>6, <2>8, <2>9, OnlySteps
  <1>5. CASE ResumeAttempt(w)
    <2>1. /\ Recovering(w) /\ Own(w).attempt # 0 /\ OnDisk(w).status = "CREATED"
          /\ Continue(w, "begin", Mem(w), OnDisk(w), NoResult)
          /\ UNCHANGED <<session, attempts, results, approved, answers>>
      BY <1>5 DEF ResumeAttempt, files, history
    <2>2. /\ call'[w].pc = "begin" /\ Job(w)' = Job(w) /\ \A v \in Worker : v # w => call'[v] = call[v]
      BY <2>1, ContinueIs
    <2>3. Final(Job(w)) = {}
      BY <2>1, FoundAnswers DEF OnDisk, Settled
    <2>4. /\ \A n \in AttemptNo : Earned(n)'
          /\ \A e \in FailedEvent : \A q \in Final(e) : Given(e, q)'
      BY <2>1, FilesRest
    <2>5. Returns(w)' /\ Repeats(w)'
      BY <2>1, <2>2, <2>3, NotRepeated DEF Returns, At
    <2> QED
      BY <2>1, <2>2, <2>4, <2>5, Found, OnlySteps
  <1>6. CASE RecoverUnsafe(w)
    <2>1. PICK k, a : k = Own(w).attempt /\ a = WithStatus(attempts[k], "HUMAN_REQUIRED")
      OBVIOUS
    <2>2. /\ Recovering(w) /\ k # 0 /\ attempts' = [attempts EXCEPT ![k] = a] /\ Goto(w, "unsafe")
          /\ UNCHANGED <<session, results, approved, answers>>
      BY <1>6, <2>1 DEF RecoverUnsafe, history
    <2>3. /\ ~At(w, "idle") /\ Job(w) \in FailedEvent /\ k \in AttemptNo /\ ~call[w].guarded
          /\ k = session.events[Job(w)].attempt /\ session.events[Job(w)].ref = 0
      BY <2>1, <2>2, Found
    <2>4. attempts \in [AttemptNo -> Attempt] /\ session \in Session
      BY Parts
    <2>5. a.key = attempts[k].key /\ a.status = "HUMAN_REQUIRED" /\ a.status \in Settled
      BY <2>1, <2>3, <2>4 DEF WithStatus, Attempt, Settled
    <2>6. /\ \A n \in AttemptNo : Earned(n)'
          /\ \A e \in FailedEvent : \A q \in Final(e) : Given(e, q)'
      BY <2>2, <2>3, <2>4, <2>5, AttemptsRest
    <2>7. /\ call'[w].pc = "unsafe" /\ Job(w)' = Job(w) /\ ~call'[w].guarded
          /\ \A v \in Worker : v # w => call'[v] = call[v]
      BY <2>2, <2>3, GotoIs
    <2>8. attempts'[k] = a
      BY <2>2, <2>3, <2>4
    <2>9. Returns(w)' /\ Repeats(w)'
      BY <2>2, <2>3, <2>5, <2>7, <2>8 DEF Returns, Repeats, At
    <2> QED
      BY <2>2, <2>3, <2>6, <2>7, <2>9, OnlySteps
  <1> QED
    BY <1>1, <1>2, <1>3, <1>4, <1>5, <1>6 DEF ServeDuplicate

\* A FAILED event that has none has no answer to contradict.
LEMMA NewAgrees ==
  ASSUME Provenance, Provenance', Orderly, Orderly', OneCall, OneCall', Consistent, NEW w \in Worker,
         ServeNew(w)
  PROVE  Consistent'
  <1>0. PICK j : j = Job(w)
    OBVIOUS
  <1>1. /\ Works(w) /\ Mem(w) \in Session /\ session \in Session /\ attempts \in [AttemptNo -> Attempt]
        /\ session.count \in Nat
    BY Parts, ServiceAssumption DEF Orderly, Session
  <1>2. /\ ~At(w, "idle") /\ j \in FailedEvent /\ j \in Event
        /\ UNCHANGED <<answers, results, approved>> /\ approved \subseteq approved'
    BY <1>0, Parts
       DEF ServeNew, RecordFailed, CreateAttempt, LinkAttempt, BeginRun, FindFailed, At,
           FailedLabel,
           history, Event
  <1>3. session' \in Session
    BY DEF Provenance, Disk, GoodSession
  \* In all of these the event was not answered.
  <1>4. Final(j) = {}
    <2>1. CASE RecordFailed(w)
      <3>1. ~Recorded(session, j)
        BY <1>0, <1>1, <2>1
           DEF RecordFailed, FindFailed, Works, Current, Reloads, Ahead, At, Recorded, RecordOf
      <3> QED
        BY <1>2, <3>1 DEF Consistent, Agreed, Given
    <2>2. CASE call[w].pc \in {"create", "link", "begin"}
      BY <1>0, <2>2, Fresh DEF FailedLabel
    <2> QED
      BY <2>1, <2>2 DEF ServeNew, CreateAttempt, LinkAttempt, BeginRun, At
  <1>5. ASSUME call'[w].pc \in {"create", "link", "begin", "input"}, Job(w)' = Job(w),
               \A v \in Worker : v # w => call'[v] = call[v],
               \A n \in AttemptNo : Earned(n)',
               \A e \in FailedEvent : \A q \in Final(e) : Given(e, q)'
        PROVE  Consistent'
    <2>1. Returns(w)' /\ Repeats(w)'
      BY <1>0, <1>2, <1>4, <1>5, NotRepeated DEF Returns, At
    <2> QED
      BY <1>2, <1>5, <2>1, OnlySteps
  <1>6. ASSUME UNCHANGED attempts, session'.count >= session.count,
               \A e \in FailedEvent \ {j} : session'.events[e] = session.events[e],
               call'[w].pc \in {"create", "link", "begin", "input"}, Job(w)' = Job(w),
               \A v \in Worker : v # w => call'[v] = call[v]
        PROVE  Consistent'
    <2>1. /\ \A n \in AttemptNo : Earned(n)'
          /\ \A e \in FailedEvent : \A q \in Final(e) : Given(e, q)'
      BY <1>1, <1>2, <1>3, <1>4, <1>6, SessionRests
    <2> QED
      BY <1>5, <1>6, <2>1
  <1>7. CASE RecordFailed(w)
    <2>1. /\ UNCHANGED attempts /\ session' = PutRecord(Mem(w), j, Received)
          /\ Continue(w, "create", session', NoAttempt, NoResult) /\ At(w, "find")
      BY <1>0, <1>7 DEF RecordFailed, FindFailed
    <2>2. Mem(w).events = session.events /\ Mem(w).count = session.count
      BY <1>1, <2>1 DEF Works, Current, Reloads, Ahead, At
    <2>3. \A e \in FailedEvent \ {j} : session'.events[e] = session.events[e]
      BY <1>1, <2>1, <2>2, PutOther DEF Event
    <2>4. session'.count = session.count
      BY <1>1, <2>1, <2>2 DEF PutRecord, Session
    <2>5. /\ call'[w].pc = "create" /\ Job(w)' = Job(w) /\ \A v \in Worker : v # w => call'[v] = call[v]
      BY <2>1, ContinueIs
    <2> QED
      BY <1>1, <1>6, <2>1, <2>3, <2>4, <2>5
  <1>8. CASE CreateAttempt(w)
    <2>1. PICK k, a, m : /\ k = Mem(w).count + 1 /\ k \in AttemptNo
                         /\ a.key = Job(w) /\ attempts' = [attempts EXCEPT ![k] = a]
                         /\ Continue(w, "link", m, a, NoResult) /\ UNCHANGED session /\ At(w, "create")
      <3>1. PICK k, a, m : /\ k = Mem(w).count + 1
                           /\ a = [no |-> k, status |-> "CREATED", key |-> Job(w), sql |-> NoSql]
                           /\ m = [PutRecord(Mem(w), Job(w), [Own(w) EXCEPT !.status = "PROCESSING", !.attempt = k])
                                     EXCEPT !.count = k]
        OBVIOUS
      <3>2. a.key = Job(w)
        BY <3>1
      <3>3. /\ k \in AttemptNo /\ attempts' = [attempts EXCEPT ![k] = a]
            /\ Continue(w, "link", m, a, NoResult) /\ UNCHANGED session /\ At(w, "create")
        BY <1>8, <3>1 DEF CreateAttempt
      <3> QED
        BY <3>1, <3>2, <3>3
    <2>2. k = session.count + 1
      BY <1>1, <2>1 DEF Works, Current, Reloads, Ahead, At
    <2>3. results[k] = NoResult
      BY <1>1, <2>1, <2>2 DEF Consistent, Earned
    <2>4. ASSUME NEW n \in AttemptNo PROVE Earned(n)'
      <3>1. Earned(n) /\ (n # k => attempts'[n] = attempts[n])
        BY <1>1, <2>1 DEF Consistent
      <3> QED
        BY <1>2, <2>1, <2>3, <3>1, FairStays DEF Earned
    <2>5. ASSUME NEW e \in FailedEvent, NEW q \in Final(e) PROVE Given(e, q)'
      <3>1. Given(e, q) /\ Fair(e, q)'
        BY <1>2, FairStays DEF Consistent, Agreed, Given
      <3>2. session.events[e].attempt # 0 => session.events[e].attempt <= session.count
        BY DEF Orderly, Filed, Book, Entry
      <3>3. session.events[e].attempt \in Nat
        BY <1>1, ServiceAssumption DEF Session, Record, Event
      <3>4. session.events[e].attempt # k
        BY <1>1, <2>2, <3>2, <3>3
      <3>5. attempts'[session.events[e].attempt] = attempts[session.events[e].attempt]
              \/ session.events[e].attempt = 0
        <4>1. session.events[e].attempt \in 0 .. MaxAttempts
          BY <1>1 DEF Session, Record, Event
        <4> QED
          BY <1>1, <2>1, <3>4, <4>1, ServiceAssumption DEF AttemptNo
      <3> QED
        BY <1>2, <2>1, <3>1, <3>5 DEF Given, Recorded, RecordOf
    <2>6. /\ call'[w].pc = "link" /\ Job(w)' = Job(w) /\ \A v \in Worker : v # w => call'[v] = call[v]
      BY <2>1, ContinueIs
    <2> QED
      BY <1>5, <2>4, <2>5, <2>6
  <1>9. CASE LinkAttempt(w)
    <2>1. /\ UNCHANGED attempts /\ session' = Mem(w) /\ Goto(w, "begin") /\ At(w, "link")
      BY <1>9 DEF LinkAttempt
    <2>2. /\ \A e \in FailedEvent \ {j} : Mem(w).events[e] = session.events[e]
          /\ Mem(w).count = session.count + 1
      BY <1>0, <1>1, <2>1 DEF Works, Current, Prepares, Reloads, At, Event
    <2>3. /\ call'[w].pc = "begin" /\ Job(w)' = Job(w) /\ \A v \in Worker : v # w => call'[v] = call[v]
      BY <2>1, GotoIs
    <2> QED
      BY <1>1, <1>6, <2>1, <2>2, <2>3
  <1>10. CASE BeginRun(w)
    <2>1. /\ UNCHANGED attempts /\ session' = [Mem(w) EXCEPT !.status = "RUNNING"]
          /\ Continue(w, "input", session', Att(w), NoResult) /\ At(w, "begin")
      BY <1>10 DEF BeginRun
    <2>2. session'.events = session.events /\ session'.count = session.count
      BY <1>1, <2>1 DEF Works, Current, Reloads, Ahead, At, Session
    <2>3. /\ call'[w].pc = "input" /\ Job(w)' = Job(w) /\ \A v \in Worker : v # w => call'[v] = call[v]
      BY <2>1, ContinueIs
    <2> QED
      BY <1>1, <1>6, <2>1, <2>2, <2>3
  <1> QED
    BY <1>7, <1>8, <1>9, <1>10 DEF ServeNew

\* A call that works on an attempt, for an event that was not answered, writes
\* the attempt, the session, or nothing.
LEMMA RunRests ==
  ASSUME Provenance, Provenance', Orderly, Consistent, NEW w \in Worker, call[w].pc \in Owning,
         Final(Job(w)) = {}, UNCHANGED <<results, approved>>,
         \/ UNCHANGED <<session, attempts>>
         \/ UNCHANGED session /\ \E a : a.key = Job(w) /\ attempts' = [attempts EXCEPT ![Att(w).no] = a]
         \/ session' = Mem(w) /\ UNCHANGED attempts
  PROVE  /\ \A n \in AttemptNo : Earned(n)'
         /\ \A e \in FailedEvent : \A q \in Final(e) : Given(e, q)'
  <1>1. CASE UNCHANGED <<session, attempts>>
    BY <1>1, FilesRest
  <1>2. ASSUME NEW a, a.key = Job(w), UNCHANGED session, attempts' = [attempts EXCEPT ![Att(w).no] = a]
        PROVE  /\ \A n \in AttemptNo : Earned(n)'
               /\ \A e \in FailedEvent : \A q \in Final(e) : Given(e, q)'
    <2>1. PICK k : k = Att(w).no
      OBVIOUS
    <2>2. k \in AttemptNo /\ a.key = attempts[k].key /\ attempts \in [AttemptNo -> Attempt] /\ session \in Session
      BY <1>2, <2>1, OwnAttempt
    <2>3. attempts' = [attempts EXCEPT ![k] = a] /\ Final(a.key) = {}
      BY <1>2, <2>1
    <2> QED
      BY <1>2, <2>2, <2>3, AttemptsRest
  <1>3. CASE session' = Mem(w) /\ UNCHANGED attempts
    <2>1. PICK j : j = Job(w)
      OBVIOUS
    <2>2. /\ session \in Session /\ Mem(w) \in Session /\ Mem(w).count = session.count
          /\ \A e \in FailedEvent \ {j} : session'.events[e] = session.events[e]
      BY <1>3, <2>1, OwnAttempt DEF Event
    <2>3. session' \in Session /\ session'.count >= session.count
      BY <1>3, <2>2, ServiceAssumption DEF Session
    <2>4. Final(j) = {}
      BY <2>1
    <2> QED
      BY <1>3, <2>2, <2>3, <2>4, SessionRests
  <1> QED
    BY <1>1, <1>2, <1>3

\* What the run ends with is the first answer of its event.
LEMMA RunAgrees ==
  ASSUME Provenance, Provenance', Orderly, Orderly', OneCall, OneCall', Consistent, NEW w \in Worker,
         ServeRun(w)
  PROVE  Consistent'
  <1>1. ASSUME call[w].pc \in {"input", "previous", "run", "stop", "human", "human_session"}
        PROVE  /\ call[w].pc \in Owning /\ Final(Job(w)) = {} /\ ~At(w, "idle")
               /\ Job(w) \in FailedEvent /\ Att(w).key = Job(w) /\ Att(w) \in Attempt
    <2>1. call[w].pc \in Owning /\ call[w].pc \in FailedLabel
      BY <1>1 DEF Owning, FailedLabel
    <2> QED
      BY <1>1, <2>1, Fresh, OwnAttempt
  <1>2. ASSUME call[w].pc \in {"input", "previous", "run", "stop", "human", "human_session"},
               UNCHANGED <<results, approved, answers>>, Job(w)' = Job(w), call'[w].pc # "unsafe",
               \A v \in Worker : v # w => call'[v] = call[v],
               \/ UNCHANGED <<session, attempts>>
               \/ UNCHANGED session /\ \E a : a.key = Job(w) /\ attempts' = [attempts EXCEPT ![Att(w).no] = a]
               \/ session' = Mem(w) /\ UNCHANGED attempts,
               Returns(w)'
        PROVE  Consistent'
    BY <1>1, <1>2, RunRests, NotRepeated, OnlySteps
  <1>3. CASE RejectInput(w) \/ AgentRaises(w)
    <2>1. /\ call[w].pc \in {"input", "run"}
          /\ Goto(w, "human") \/ Rescue(w, Mem(w))
          /\ UNCHANGED <<session, attempts, results, approved, answers>>
      BY <1>3 DEF RejectInput, AgentRaises, At, files, history
    <2>2. /\ call'[w].pc = "human" /\ Job(w)' = Job(w) /\ \A v \in Worker : v # w => call'[v] = call[v]
      BY <2>1, GotoIs, RescueIs
    <2>3. Returns(w)'
      BY <2>2 DEF Returns, At
    <2> QED
      BY <1>2, <2>1, <2>2, <2>3
  <1>4. CASE KeepPrevious(w) \/ LoadPrevious(w)
    <2>1. /\ call[w].pc = "input"
          /\ Goto(w, "run") \/ Goto(w, "previous")
          /\ UNCHANGED <<session, attempts, results, approved, answers>>
      BY <1>4 DEF KeepPrevious, LoadPrevious, At, files, history
    <2>2. /\ call'[w].pc \in {"run", "previous"} /\ Job(w)' = Job(w)
          /\ \A v \in Worker : v # w => call'[v] = call[v]
      BY <2>1, GotoIs
    <2>3. Returns(w)'
      BY <2>2 DEF Returns, At
    <2> QED
      BY <1>2, <2>1, <2>2, <2>3
  <1>10. CASE SavePrevious(w)
    <2>1. /\ call[w].pc = "previous" /\ Goto(w, "run") /\ UNCHANGED <<session, results, approved, answers>>
          /\ attempts' = [attempts EXCEPT ![Mem(w).sqlAttempt] = call[w].prev]
      BY <1>10 DEF SavePrevious, At, history
    <2>2. /\ call'[w].pc = "run" /\ Job(w)' = Job(w) /\ \A v \in Worker : v # w => call'[v] = call[v]
      BY <2>1, GotoIs
    <2>3. Returns(w)'
      BY <2>2 DEF Returns, At
    <2>4. PICK k, a : k = Mem(w).sqlAttempt /\ a = WithStatus(attempts[k], "UPSTREAM_FAILED")
      OBVIOUS
    <2>5. k # 0 /\ call[w].prev = a
      BY <2>1, <2>4 DEF Orderly, Works, Prepares, Marking, Mem, At
    <2>6. k \in AttemptNo /\ attempts \in [AttemptNo -> Attempt] /\ session \in Session
      BY <1>1, <2>1, <2>4, <2>5, OwnAttempt, KnownCandidate
    <2>7. attempts' = [attempts EXCEPT ![k] = a] /\ a.key = attempts[k].key /\ a.status \in Settled
      BY <2>1, <2>4, <2>5, <2>6 DEF WithStatus, Attempt, Settled
    <2>8. /\ \A n \in AttemptNo : Earned(n)'
          /\ \A e \in FailedEvent : \A q \in Final(e) : Given(e, q)'
      BY <2>1, <2>6, <2>7, AttemptsRest
    <2> QED
      BY <1>1, <2>1, <2>2, <2>3, <2>8, NotRepeated, OnlySteps
  <1>5. ASSUME NEW s \in Sql, AgentProposes(w, s) PROVE Consistent'
    <2>1. PICK a : Continue(w, "commit", Mem(w), a, NoResult)
      BY <1>5 DEF AgentProposes
    <2>2. /\ call[w].pc = "run" /\ UNCHANGED <<session, attempts, results, answers>> /\ approved \subseteq approved'
      BY <1>5 DEF AgentProposes, At, files
    <2>3. /\ call'[w].pc = "commit" /\ Job(w)' = Job(w) /\ \A v \in Worker : v # w => call'[v] = call[v]
      BY <2>1, ContinueIs
    <2>4. /\ \A n \in AttemptNo : Earned(n)'
          /\ \A e \in FailedEvent : \A q \in Final(e) : Given(e, q)'
      BY <2>2, FilesRest
    <2>5. Returns(w)' /\ Repeats(w)'
      BY <1>1, <2>2, <2>3, NotRepeated DEF Returns, At
    <2> QED
      BY <1>1, <2>2, <2>3, <2>4, <2>5, OnlySteps
  <1>6. ASSUME NEW st \in {"HUMAN_REQUIRED", "VALIDATION_BLOCKED", "REFLECTION_BLOCKED"}, NEW l, NEW m,
               NEW r \in {Human, Plain("NO_SQL")}, NEW a, a = WithStatus(Att(w), st),
               call[w].pc \in {"run", "human"}, l = "stop" \/ (l = "human_session" /\ r = Human),
               attempts' = [attempts EXCEPT ![a.no] = a], Continue(w, l, m, a, r),
               UNCHANGED <<session, results, approved, answers>>
        PROVE  Consistent'
    <2>1. Att(w) \in Attempt
      BY <1>1, <1>6
    <2>2. a.no = Att(w).no /\ a.key = Job(w)
      BY <1>1, <1>6, <2>1 DEF WithStatus, Attempt
    <2>3. /\ call'[w].pc = l /\ Job(w)' = Job(w) /\ call'[w].ret = r
          /\ \A v \in Worker : v # w => call'[v] = call[v]
      BY <1>6, ContinueIs
    <2>4. Returns(w)'
      BY <1>6, <2>3 DEF Returns, At
    <2> QED
      BY <1>2, <1>6, <2>2, <2>3, <2>4
  <1>7. ASSUME NEW st \in {"HUMAN_REQUIRED", "VALIDATION_BLOCKED", "REFLECTION_BLOCKED"}, AgentStops(w, st)
        PROVE  Consistent'
    <2>1. PICK a, r : a = WithStatus(Att(w), st) /\ r = IF st = "HUMAN_REQUIRED" THEN Human ELSE Plain("NO_SQL")
      OBVIOUS
    <2>2. /\ call[w].pc = "run" /\ attempts' = [attempts EXCEPT ![a.no] = a]
          /\ Continue(w, "stop", Mem(w), a, r) /\ UNCHANGED <<session, results, approved, answers>>
      BY <1>7, <2>1 DEF AgentStops, At, history
    <2> QED
      BY <1>6, <2>1, <2>2
  <1>8. CASE SaveHumanAttempt(w)
    <2>1. PICK a, m : a = WithStatus(Att(w), "HUMAN_REQUIRED") /\ m = [Mem(w) EXCEPT !.status = "HUMAN_REQUIRED"]
      OBVIOUS
    <2>2. /\ call[w].pc = "human" /\ attempts' = [attempts EXCEPT ![a.no] = a]
          /\ Continue(w, "human_session", m, a, Human) /\ UNCHANGED <<session, results, approved, answers>>
      BY <1>8, <2>1 DEF SaveHumanAttempt, At, history
    <2> QED
      BY <1>6, <2>1, <2>2
  <1>9. CASE StopRun(w) \/ SaveHumanSession(w)
    <2>1. PICK l \in {"human", "discard"} :
            /\ call[w].pc \in {"stop", "human_session"} /\ Goto(w, l) /\ session' = Mem(w)
            /\ UNCHANGED <<attempts, results, approved, answers>>
      BY <1>9 DEF StopRun, SaveHumanSession, At, history
    <2>2. /\ call'[w].pc = l /\ Job(w)' = Job(w) /\ call'[w].ret = call[w].ret
          /\ \A v \in Worker : v # w => call'[v] = call[v]
      BY <2>1, GotoIs
    <2>3. call[w].ret \in {Human, Plain("NO_SQL")}
      BY <2>1 DEF Consistent, Returns, At
    <2>4. Returns(w)'
      BY <2>2, <2>3 DEF Returns, Fair, At
    <2> QED
      BY <1>2, <2>1, <2>2, <2>4
  <1> QED
    BY <1>3, <1>4, <1>5, <1>7, <1>8, <1>9, <1>10 DEF ServeRun

\* So is what the committer ends with.
LEMMA CommitAgrees ==
  ASSUME Provenance, Provenance', Orderly, Orderly', OneCall, OneCall', Consistent, NEW w \in Worker,
         ServeCommit(w)
  PROVE  Consistent'
  <1>1. ASSUME call[w].pc \in {"commit", "commit_session", "commit_done"}
        PROVE  /\ call[w].pc \in Owning /\ Final(Job(w)) = {} /\ ~At(w, "idle")
               /\ Job(w) \in FailedEvent /\ Att(w).key = Job(w) /\ Att(w) \in Attempt
               /\ Att(w).sql # NoSql /\ <<Job(w), Att(w).sql>> \in approved
    <2>1. call[w].pc \in Owning /\ call[w].pc \in FailedLabel
      BY <1>1 DEF Owning, FailedLabel
    <2>2. Att(w).sql # NoSql
      BY <1>1, CallParts DEF Provenance, GoodCall, Att, Consistent, Returns
    <2> QED
      BY <1>1, <2>1, <2>2, Fresh, OwnAttempt
  <1>2. ASSUME call[w].pc \in {"commit", "commit_session", "commit_done"},
               UNCHANGED <<results, approved, answers>>, Job(w)' = Job(w), call'[w].pc # "unsafe",
               \A v \in Worker : v # w => call'[v] = call[v],
               \/ UNCHANGED <<session, attempts>>
               \/ UNCHANGED session /\ \E a : a.key = Job(w) /\ attempts' = [attempts EXCEPT ![Att(w).no] = a]
               \/ session' = Mem(w) /\ UNCHANGED attempts,
               Returns(w)'
        PROVE  Consistent'
    BY <1>1, <1>2, RunRests, NotRepeated, OnlySteps
  <1>3. CASE CommitFails(w) \/ CommitRefused(w)
    <2>1. /\ call[w].pc = "commit"
          /\ Goto(w, "human") \/ Rescue(w, Mem(w))
          /\ UNCHANGED <<session, attempts, results, approved, answers>>
      BY <1>3 DEF CommitFails, CommitRefused, At, files, history
    <2>2. /\ call'[w].pc = "human" /\ Job(w)' = Job(w) /\ \A v \in Worker : v # w => call'[v] = call[v]
      BY <2>1, GotoIs, RescueIs
    <2>3. Returns(w)'
      BY <2>2 DEF Returns, At
    <2> QED
      BY <1>2, <2>1, <2>2, <2>3
  <1>4. CASE CommitAttempt(w)
    <2>1. PICK a, m : /\ a = Att(w)
                      /\ m = [session EXCEPT !.sql = a.sql, !.sqlAttempt = a.no,
                                             !.status = "SQL_READY_PENDING_UPSTREAM"]
      OBVIOUS
    <2>2. /\ call[w].pc = "commit" /\ attempts' = [attempts EXCEPT ![Att(w).no] = a]
          /\ Continue(w, "commit_session", m, a, SqlReady(a.sql))
          /\ UNCHANGED <<session, results, approved, answers>>
      BY <1>4, <2>1 DEF CommitAttempt, At, history
    <2>3. /\ call'[w].pc = "commit_session" /\ Job(w)' = Job(w) /\ Att(w)' = a /\ call'[w].ret = SqlReady(a.sql)
          /\ \A v \in Worker : v # w => call'[v] = call[v]
      BY <2>2, ContinueIs
    <2>4. a.key = Job(w) /\ a.sql # NoSql
      BY <1>1, <2>1, <2>2
    <2>5. Returns(w)'
      BY <2>3, <2>4 DEF Returns, At
    <2> QED
      BY <1>2, <2>2, <2>3, <2>4, <2>5
  <1>5. CASE CommitSession(w)
    <2>1. /\ call[w].pc = "commit_session" /\ session' = Mem(w) /\ Goto(w, "commit_done")
          /\ UNCHANGED <<attempts, results, approved, answers>>
      BY <1>5 DEF CommitSession, At, history
    <2>2. /\ call'[w].pc = "commit_done" /\ Job(w)' = Job(w) /\ Att(w)' = Att(w) /\ call'[w].ret = call[w].ret
          /\ \A v \in Worker : v # w => call'[v] = call[v]
      BY <2>1, GotoIs
    <2>3. call[w].ret = SqlReady(Att(w).sql) /\ Att(w).sql # NoSql
      BY <2>1 DEF Consistent, Returns
    <2>4. Returns(w)'
      BY <2>2, <2>3 DEF Returns, At
    <2> QED
      BY <1>2, <2>1, <2>2, <2>4
  <1>6. CASE CommitDone(w)
    <2>1. /\ call[w].pc = "commit_done" /\ attempts' = [attempts EXCEPT ![Att(w).no] = Att(w)]
          /\ Goto(w, "discard") /\ UNCHANGED <<session, results, approved, answers>>
      BY <1>6 DEF CommitDone, At, history
    <2>2. /\ call'[w].pc = "discard" /\ Job(w)' = Job(w) /\ call'[w].ret = call[w].ret
          /\ \A v \in Worker : v # w => call'[v] = call[v]
      BY <2>1, GotoIs
    <2>3. PICK s : s = Att(w).sql
      OBVIOUS
    <2>4. call[w].ret = SqlReady(s) /\ s \in Sql /\ <<Job(w), s>> \in approved /\ Att(w).key = Job(w)
      BY <1>1, <2>1, <2>3 DEF Consistent, Returns, Attempt
    <2>5. Returns(w)'
      BY <2>1, <2>2, <2>4 DEF Returns, Fair, At
    <2> QED
      BY <1>2, <2>1, <2>2, <2>4, <2>5
  <1> QED
    BY <1>3, <1>4, <1>5, <1>6 DEF ServeCommit

\* Storing an answer that is not redacted, and giving it.
LEMMA ResultAgrees ==
  ASSUME NothingRedacted, Provenance, Provenance', Orderly, Orderly', OneCall, OneCall', Consistent,
         NEW w \in Worker, ServeResult(w)
  PROVE  Consistent'
  <1>0. PICK j, n, r : j = Job(w) /\ n = Att(w).no /\ r = call[w].ret
    OBVIOUS
  <1>1. /\ call[w].pc \in {"discard", "persist", "finish"} /\ call[w].pc \in Owning
        /\ call[w].pc \in FailedLabel /\ call[w].pc # "unsafe"
    BY DEF ServeResult, DiscardActive, WriteResult, FinishFailed, At, Owning, FailedLabel
  <1>2. /\ ~At(w, "idle") /\ j \in FailedEvent /\ j \in Event /\ j \notin SuccessEvent
        /\ n \in AttemptNo /\ n # 0 /\ n <= session.count /\ attempts[n].key = j /\ Att(w).key = j
        /\ session.events[j].attempt = n /\ Mem(w).events = session.events /\ Mem(w).count = session.count
        /\ Recorded(session, j) /\ Recorded(Mem(w), j) /\ session \in Session /\ Mem(w) \in Session
        /\ results \in [AttemptNo -> Result]
    BY <1>0, <1>1, OwnAttempt, Parts, ServiceAssumption DEF Ahead
  <1>3. /\ Fair(j, r)
        /\ call[w].pc = "finish" => results[n] = r
    BY <1>0, <1>1 DEF Consistent, Returns, At
  <1>4. Final(j) # {} => /\ ~call[w].guarded /\ session.events[j].ref = 0
                         /\ r = Human /\ attempts[n].status \in Settled
    BY <1>0, <1>1 DEF Consistent, Repeats
  <1>5. \A q \in Final(j) : Given(j, q) /\ q = r
    BY <1>2, <1>4 DEF Consistent, Agreed, Given
  <1>6. ASSUME NEW l \in {"persist", "finish"}, Goto(w, l), UNCHANGED <<session, attempts, approved, answers>>,
               \A m \in AttemptNo : Earned(m)',
               \A e \in FailedEvent : \A q \in Final(e) : Given(e, q)',
               l = "finish" => results'[n] = r
        PROVE  Consistent'
    <2>1. /\ call'[w].pc = l /\ Job(w)' = j /\ Att(w)' = Att(w) /\ call'[w].ret = r
          /\ call'[w].guarded => call[w].guarded
          /\ \A v \in Worker : v # w => call'[v] = call[v]
      BY <1>0, <1>6, GotoIs
    <2>2. Returns(w)'
      BY <1>0, <1>3, <1>6, <2>1 DEF Returns, Fair, At
    <2>3. Repeats(w)'
      BY <1>0, <1>4, <1>6, <2>1 DEF Repeats, Final, At
    <2> QED
      BY <1>2, <1>6, <2>1, <2>2, <2>3, OnlySteps
  <1>7. CASE DiscardActive(w)
    <2>1. /\ UNCHANGED <<session, attempts, results, approved, answers>> /\ approved \subseteq approved'
          /\ Goto(w, "persist")
      BY <1>7 DEF DiscardActive, files, history
    <2>2. /\ \A m \in AttemptNo : Earned(m)'
          /\ \A e \in FailedEvent : \A q \in Final(e) : Given(e, q)'
      BY <2>1, FilesRest
    <2> QED
      BY <1>6, <2>1, <2>2
  <1>8. CASE WriteResult(w)
    <2>1. /\ results' = [results EXCEPT ![n] = r] /\ Goto(w, "finish")
          /\ UNCHANGED <<session, attempts, approved, answers>> /\ approved \subseteq approved'
      BY <1>0, <1>3, <1>8, StoredAsIs DEF WriteResult, history
    <2>2. results'[n] = r /\ \A m \in AttemptNo : m # n => results'[m] = results[m]
      BY <1>2, <2>1
    <2>3. ASSUME NEW m \in AttemptNo PROVE Earned(m)'
      <3>1. CASE m = n
        BY <1>2, <1>3, <2>1, <2>2, <3>1, FairStays DEF Earned
      <3>2. CASE m # n
        BY <2>1, <2>2, <3>2, FairStays DEF Earned, Consistent
      <3> QED
        BY <3>1, <3>2
    <2>4. ASSUME NEW e \in FailedEvent, NEW q \in Final(e) PROVE Given(e, q)'
      <3>1. Given(e, q) /\ Fair(e, q)'
        BY <2>1, FairStays DEF Consistent, Agreed, Given
      <3>2. session.events[e].ref # n
        <4>1. CASE e = j
          BY <1>2, <1>4, <2>4, <4>1
        <4>2. CASE e # j
          <5>1. session.events[e].ref # 0 => attempts[session.events[e].ref].key = e
            BY DEF Orderly, Filed, Book, Entry
          <5> QED
            BY <1>2, <4>2, <5>1
        <4> QED
          BY <4>1, <4>2
      <3>3. session.events[e].ref # 0 => session.events[e].ref \in AttemptNo
        BY <1>2, ServiceAssumption DEF Session, Record, AttemptNo, Event
      <3>4. session.events[e].ref # 0 => results'[session.events[e].ref] = results[session.events[e].ref]
        BY <2>2, <3>2, <3>3
      <3> QED
        BY <2>1, <3>1, <3>4 DEF Given, Recorded, RecordOf
    <2> QED
      BY <1>6, <2>1, <2>2, <2>3, <2>4
  <1>9. CASE FinishFailed(w)
    <2>1. PICK q : q = FinishEvent(Mem(w), j, "SUCCEEDED", n, "NONE")
      OBVIOUS
    <2>2. /\ session' = q /\ UNCHANGED <<attempts, results, approved>> /\ approved \subseteq approved'
          /\ Answer(w, r) /\ call[w].pc = "finish"
      BY <1>0, <1>2, <1>9, <2>1 DEF FinishFailed, At, history
    <2>3. n \in 0 .. MaxAttempts
      BY <1>2, ServiceAssumption DEF AttemptNo
    <2>4. FinishedAs(q, Mem(w), j, "SUCCEEDED", n)
      BY <1>2, <2>1, <2>3, FinishIs
    <2>5. /\ q \in Session /\ \A x \in Event \ {j} : q.events[x] = session.events[x]
          /\ q.events[j].ref = n /\ q.events[j].status # "ABSENT" /\ q.count = session.count
      BY <1>2, <2>4 DEF FinishedAs
    <2>6. Given(j, r)'
      BY <1>2, <1>3, <2>2, <2>5, FairStays DEF Given, Recorded, RecordOf
    <2>7. \A x \in Final(j) : Given(j, x)'
      BY <1>5, <2>6
    <2>8. session' \in Session /\ session'.count >= session.count
      BY <1>2, <2>2, <2>5, ServiceAssumption DEF Session
    <2>9. \A e \in FailedEvent \ {j} : session'.events[e] = session.events[e]
      BY <2>2, <2>5 DEF Event
    <2>10. /\ \A m \in AttemptNo : Earned(m)'
           /\ \A e \in FailedEvent : \A x \in Final(e) : Given(e, x)'
      BY <1>2, <2>2, <2>7, <2>8, <2>9, SessionRests
    <2> QED
      BY <1>0, <1>2, <2>2, <2>6, <2>10, StepAnswers
  <1> QED
    BY <1>7, <1>8, <1>9 DEF ServeResult

\* A SUCCESS event is answered without SQL.
LEMMA SuccessAgrees ==
  ASSUME Provenance, Provenance', Orderly, Orderly', OneCall, OneCall', Consistent, NEW w \in Worker,
         ServeSuccess(w)
  PROVE  Consistent'
  <1>0. PICK j : j = Job(w)
    OBVIOUS
  <1>1. /\ ~At(w, "idle") /\ j \in SuccessEvent /\ j \notin FailedEvent /\ j \in Event /\ Works(w)
        /\ Mem(w) \in Session /\ session \in Session /\ session' \in Session
        /\ attempts \in [AttemptNo -> Attempt]
        /\ UNCHANGED <<results, approved>> /\ approved \subseteq approved'
    <2>1. FindSuccess(w) \/ call[w].pc \in SuccessLabel
      BY DEF ServeSuccess, AckDuplicate, RecordSuccess, AckUnmatched, ConfirmAttempt,
             ConfirmSession,
             WriteMemory, MemoryDegraded, ReloadForFinish, ReloadForDegrade, LockAndLoad,
             FinishSuccess,
             FinishDegraded, DegradeTimeout, At, SuccessLabel
    <2>2. UNCHANGED <<results, approved>>
      BY DEF ServeSuccess, AckDuplicate, RecordSuccess, AckUnmatched, ConfirmAttempt,
             ConfirmSession,
             WriteMemory, MemoryDegraded, ReloadForFinish, ReloadForDegrade, LockAndLoad,
             FinishSuccess,
             FinishDegraded, SaveFinished, DegradeTimeout, files, history
    <2>3. ~At(w, "idle") /\ j \in SuccessEvent
      BY <1>0, <2>1, Parts DEF FindSuccess, At, SuccessLabel
    <2>4. session' \in Session
      BY DEF Provenance, Disk, GoodSession
    <2> QED
      BY <2>2, <2>3, <2>4, Parts, ServiceAssumption DEF Orderly, Event
  <1>2. call[w].pc \notin Reloads => Mem(w).events = session.events /\ Mem(w).count = session.count
    BY <1>0, <1>1, Parts, ServiceAssumption DEF Works, Current, Ahead, FailedLabel
  \* Records of FAILED events stay, and so does the number of attempts.
  <1>3. ASSUME UNCHANGED attempts, session'.count = session.count,
               \A e \in FailedEvent : session'.events[e] = session.events[e]
        PROVE  /\ \A n \in AttemptNo : Earned(n)'
               /\ \A e \in FailedEvent : \A q \in Final(e) : Given(e, q)'
    <2>1. session'.count >= session.count
      BY <1>1, <1>3, ServiceAssumption DEF Session
    <2> QED
      BY <1>1, <1>3, <2>1, SessionRests
  <1>4. ASSUME NEW l \in Reloads \cup SuccessLabel \cup {"find"},
               call'[w].pc = l, UNCHANGED answers, \A v \in Worker : v # w => call'[v] = call[v],
               \A n \in AttemptNo : Earned(n)',
               \A e \in FailedEvent : \A q \in Final(e) : Given(e, q)'
        PROVE  Consistent'
    BY <1>1, <1>4, SaysNothing, OnlySteps
  <1>5. ASSUME NEW r \in {Ack, Human}, Answer(w, r),
               \A n \in AttemptNo : Earned(n)',
               \A e \in FailedEvent : \A q \in Final(e) : Given(e, q)'
        PROVE  Consistent'
    <2>1. r.status # "SQL_READY"
      BY <1>5 DEF Ack, Human, Plain
    <2> QED
      BY <1>0, <1>1, <1>5, <2>1, StepAnswers
  <1>6. ASSUME NEW st, NEW n, NEW c, session' \in {session, FinishEvent(Mem(w), j, st, n, c)},
               UNCHANGED attempts, Answer(w, Ack), call[w].pc \notin Reloads
        PROVE  Consistent'
    <2>1. \A e \in FailedEvent : session'.events[e] = session.events[e]
      BY <1>1, <1>2, <1>6, PutOther DEF FinishEvent, Event
    <2>2. session'.count = session.count
      BY <1>1, <1>2, <1>6 DEF FinishEvent, PutRecord, Session
    <2> QED
      BY <1>3, <1>5, <1>6, <2>1, <2>2
  <1>7. CASE AckUnmatched(w)
    BY <1>0, <1>6, <1>7 DEF AckUnmatched, At, Reloads
  <1>8. CASE FinishSuccess(w) \/ FinishDegraded(w)
    BY <1>0, <1>6, <1>8 DEF FinishSuccess, FinishDegraded, SaveFinished, At, Reloads
  <1>9. CASE AckDuplicate(w) \/ DegradeTimeout(w)
    <2>1. UNCHANGED <<session, attempts>>
      BY <1>9 DEF AckDuplicate, DegradeTimeout, files
    <2> QED
      BY <1>3, <1>5, <1>9, <2>1 DEF AckDuplicate, DegradeTimeout
  <1>10. CASE RecordSuccess(w)
    <2>1. /\ call[w].pc = "find" /\ UNCHANGED <<attempts, answers>>
          /\ session' \in {session, PutRecord(Mem(w), j, Received)}
      BY <1>0, <1>10 DEF RecordSuccess, FindSuccess, At
    <2>2. PICK m : Continue(w, "match", m, NoAttempt, NoResult)
      BY <1>10 DEF RecordSuccess
    <2>3. \A e \in FailedEvent : session'.events[e] = session.events[e]
      BY <1>1, <1>2, <2>1, PutOther DEF Event, Reloads
    <2>4. session'.count = session.count
      BY <1>1, <1>2, <2>1 DEF PutRecord, Session, Reloads
    <2>5. call'[w].pc = "match" /\ \A v \in Worker : v # w => call'[v] = call[v]
      BY <2>2, ContinueIs
    <2> QED
      BY <1>3, <1>4, <2>1, <2>3, <2>4, <2>5 DEF SuccessLabel
  <1>11. CASE ConfirmAttempt(w)
    <2>1. PICK k, a : k = Mem(w).sqlAttempt /\ a = WithStatus(attempts[k], "UPSTREAM_CONFIRMED_SUCCESS")
      OBVIOUS
    <2>2. /\ call[w].pc = "match" /\ k # 0 /\ attempts' = [attempts EXCEPT ![k] = a]
          /\ UNCHANGED <<session, answers>>
      BY <1>11, <2>1 DEF ConfirmAttempt, Matches, At
    <2>3. PICK m : Continue(w, "confirm", m, a, NoResult)
      BY <1>11, <2>1 DEF ConfirmAttempt
    <2>4. Book(Mem(w), attempts, results) /\ Filed
      BY <1>1, <2>2 DEF Works, Current, Reloads, Orderly
    <2>5. k \in AttemptNo
      BY <1>1, <2>1, <2>2, <2>4, KnownCandidate
    <2>6. a.key = attempts[k].key /\ a.status \in Settled
      BY <1>1, <2>1, <2>5 DEF WithStatus, Attempt, Settled
    <2>7. /\ \A n \in AttemptNo : Earned(n)'
          /\ \A e \in FailedEvent : \A q \in Final(e) : Given(e, q)'
      BY <1>1, <2>2, <2>5, <2>6, AttemptsRest
    <2>8. call'[w].pc = "confirm" /\ \A v \in Worker : v # w => call'[v] = call[v]
      BY <2>3, ContinueIs
    <2> QED
      BY <1>4, <2>2, <2>7, <2>8 DEF SuccessLabel
  <1>12. CASE ConfirmSession(w)
    <2>1. /\ call[w].pc = "confirm" /\ session' = Mem(w) /\ UNCHANGED <<attempts, answers>> /\ Goto(w, "memory")
      BY <1>12 DEF ConfirmSession, At
    <2>2. call'[w].pc = "memory" /\ \A v \in Worker : v # w => call'[v] = call[v]
      BY <2>1, GotoIs
    <2>3. session'.count = session.count /\ session'.events = session.events
      BY <1>2, <2>1 DEF Reloads
    <2> QED
      BY <1>3, <1>4, <2>1, <2>2, <2>3 DEF SuccessLabel
  <1>13. CASE WriteMemory(w) \/ MemoryDegraded(w)
    <2>1. PICK l \in {"finish_lock", "degrade_lock"} : Goto(w, l) /\ UNCHANGED <<session, attempts, answers>>
      BY <1>13 DEF WriteMemory, MemoryDegraded, files
    <2>2. call'[w].pc = l /\ \A v \in Worker : v # w => call'[v] = call[v]
      BY <2>1, GotoIs
    <2> QED
      BY <1>3, <1>4, <2>1, <2>2 DEF SuccessLabel
  <1> QED
    BY <1>7, <1>8, <1>9, <1>10, <1>11, <1>12, <1>13, EnterAgrees DEF ServeSuccess

\* A file error gives up an answer, or makes `HUMAN_REQUIRED` of it before one was given.
LEMMA ErrorAgrees ==
  ASSUME Provenance, Provenance', Orderly, Orderly', OneCall, OneCall', Consistent, NEW w \in Worker,
         ErrorIsCaught(w) \/ ErrorIsRaised(w) \/ SuccessError(w)
  PROVE  Consistent'
  <1>0. PICK j : j = Job(w)
    OBVIOUS
  <1>1. UNCHANGED <<session, attempts, results, approved>> /\ approved \subseteq approved' /\ UsesFile(w)
    BY DEF ErrorIsCaught, ErrorIsRaised, SuccessError, FileError, files
  <1>2. ~At(w, "idle") /\ Works(w)
    BY <1>1 DEF UsesFile, FindFailed, FindSuccess, At, Orderly
  <1>3. /\ \A n \in AttemptNo : Earned(n)'
        /\ \A e \in FailedEvent : \A q \in Final(e) : Given(e, q)'
    BY <1>1, FilesRest
  <1>4. CASE ErrorIsCaught(w)
    <2>1. PICK m : call[w].guarded /\ Rescue(w, m) /\ UNCHANGED answers
      BY <1>4 DEF ErrorIsCaught
    <2>2. call[w].pc \in FailedLabel
      BY <1>2, <2>1 DEF Works, Owns, Owning
    <2>3. Final(Job(w)) = {}
      BY <2>1, <2>2, Fresh
    <2>4. /\ call'[w].pc = "human" /\ Job(w)' = Job(w) /\ \A v \in Worker : v # w => call'[v] = call[v]
      BY <2>1, RescueIs
    <2>5. Returns(w)' /\ Repeats(w)'
      BY <2>1, <2>3, <2>4, NotRepeated DEF Returns, At
    <2> QED
      BY <1>2, <1>3, <2>1, <2>4, <2>5, OnlySteps
  <1>5. CASE ErrorIsRaised(w)
    <2>1. Answer(w, Unreadable) /\ j \in FailedEvent /\ j \notin SuccessEvent
      BY <1>0, <1>5, ServiceAssumption DEF ErrorIsRaised
    <2> QED
      BY <1>0, <1>2, <1>3, <2>1, StepAnswers
  <1>6. CASE SuccessError(w)
    <2>1. j \in SuccessEvent /\ j \notin FailedEvent
      BY <1>0, <1>6, ServiceAssumption DEF SuccessError
    <2>2. CASE Goto(w, "degrade_lock") /\ UNCHANGED answers
      <3>1. call'[w].pc = "degrade_lock" /\ \A v \in Worker : v # w => call'[v] = call[v]
        BY <2>2, GotoIs
      <3> QED
        BY <1>2, <1>3, <2>2, <3>1, SaysNothing, OnlySteps DEF SuccessLabel
    <2>3. CASE Answer(w, Human) \/ Answer(w, Unreadable)
      <3>1. PICK r \in {Human, Unreadable} : Answer(w, r)
        BY <2>3
      <3>2. r.status # "SQL_READY"
        BY <3>1 DEF Human, Unreadable, Plain
      <3> QED
        BY <1>0, <1>2, <1>3, <2>1, <3>1, <3>2, StepAnswers
    <2> QED
      BY <1>6, <2>2, <2>3 DEF SuccessError
  <1> QED
    BY <1>4, <1>5, <1>6

\* Submitting an event, the death of a process, and the removal of its lock.
LEMMA OuterAgrees ==
  ASSUME Provenance, OneCall, OneCall', Consistent,
         \/ \E w \in Worker, e \in Event : Submit(w, e)
         \/ \E p \in Process : Crash(p)
         \/ \E w \in Worker : FindStale(w) \/ RemoveStale(w)
         \/ UNCHANGED vars
  PROVE  Consistent'
  <1>1. UNCHANGED <<session, attempts, results, approved, answers>> /\ approved \subseteq approved'
    BY DEF Submit, Crash, FindStale, RemoveStale, vars, files, history
  <1>2. /\ \A n \in AttemptNo : Earned(n)'
        /\ \A e \in FailedEvent : \A q \in Final(e) : Given(e, q)'
    BY <1>1, FilesRest
  <1>3. Agreed' /\ NoSqlForSuccess'
    BY <1>1, <1>2 DEF Consistent, Agreed, NoSqlForSuccess, Final
  <1>4. ASSUME NEW w \in Worker PROVE Returns(w)' /\ Repeats(w)'
    <2>1. CASE call'[w] = call[w]
      <3>1. Returns(w)'
        BY <1>1, <2>1 DEF Consistent, Returns, Fair, Job, Att, At
      <3>2. Repeats(w)'
        BY <1>1, <2>1 DEF Consistent, Repeats, Final, Job, Att, At
      <3> QED
        BY <3>1, <3>2
    <2>2. CASE call'[w].pc \in {"idle", "lock"}
      BY <2>2, SaysNothing DEF Reloads
    <2>3. ASSUME NEW p \in Process, Crash(p) PROVE call'[w] = call[w] \/ call'[w].pc = "idle"
      BY <2>3 DEF Crash, IdleCall
    <2>4. ASSUME NEW v \in Worker, NEW e \in Event, Submit(v, e)
          PROVE  call'[w] = call[w] \/ call'[w].pc = "lock"
      BY <2>4 DEF Submit, IdleCall, Provenance, Calls
    <2> QED
      BY <2>1, <2>2, <2>3, <2>4 DEF FindStale, RemoveStale, vars
  <1> QED
    BY <1>2, <1>3, <1>4 DEF Consistent

\* Nothing was answered yet.
LEMMA ConsistentInit == Init => Consistent
  <1> SUFFICES ASSUME Init PROVE Consistent
    OBVIOUS
  <1>1. \A n \in AttemptNo : Earned(n)
    BY DEF Init, Earned
  <1>2. Agreed /\ NoSqlForSuccess
    BY DEF Init, Agreed, NoSqlForSuccess, Final, Event
  <1>3. \A w \in Worker : Returns(w) /\ Repeats(w)
    BY DEF Init, Returns, Repeats, IdleCall, FailedLabel, At
  <1> QED
    BY <1>1, <1>2, <1>3 DEF Consistent

\* Every step keeps the answers consistent, while calls do not overlap.
LEMMA ConsistentStep ==
  ASSUME NothingRedacted
  PROVE  Provenance /\ Provenance' /\ Orderly /\ Orderly' /\ OneCall /\ OneCall' /\ Consistent /\ [Next]_vars
           => Consistent'
  <1> SUFFICES ASSUME Provenance, Provenance', Orderly, Orderly', OneCall, OneCall', Consistent, [Next]_vars
               PROVE  Consistent'
    OBVIOUS
  <1>1. ASSUME NEW w \in Worker, Serve(w) PROVE Consistent'
    BY <1>1, EnterAgrees, DuplicateAgrees, NewAgrees, RunAgrees, CommitAgrees, ResultAgrees,
           SuccessAgrees, OuterAgrees
       DEF Serve
  <1> QED
    BY <1>1, ErrorAgrees, OuterAgrees DEF Next, Quiet

\* While calls do not overlap and the sanitizer replaces nothing, every answer
\* given of an event stays the one that is on file for it.
LEMMA ConsistentInvariant == ASSUME NothingRedacted PROVE Spec /\ []OneCall => []Consistent
  BY ConsistentInit, ConsistentStep, RecordsStayInOrder, ProvenanceInvariant, PTL DEF Spec

\* All final answers to a FAILED event agree, across duplicates, retries,
\* process deaths and file errors.
THEOREM AnswersAgree == ASSUME NothingRedacted PROVE Spec /\ []OneCall => []DuplicatesAgree
  <1>1. ASSUME Consistent PROVE DuplicatesAgree
    <2>1. ASSUME NEW e \in FailedEvent, NEW r \in Final(e), NEW q \in Final(e) PROVE r = q
      <3>1. Given(e, r) /\ Given(e, q)
        BY <1>1 DEF Consistent, Agreed
      <3> QED
        BY <3>1 DEF Given
    <2> QED
      BY <2>1 DEF DuplicatesAgree, Final
  <1> QED
    BY <1>1, ConsistentInvariant, PTL

=============================================================================
