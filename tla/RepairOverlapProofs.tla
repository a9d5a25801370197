-------------------------- MODULE RepairOverlapProofs --------------------------
(***************************************************************************)
(* What RepairService promises although calls overlap, as long as two      *)
(* failures of a task are not handled at once (SeparateFailures) and the   *)
(* lock lets one call in at a time (Exclusive).  Duplicates of the failure *)
(* that is handled, SUCCESS events and file errors may come between any    *)
(* two writes, and process deaths too: the second hypothesis says of them  *)
(* that no removal of a stale lock file was raced.  Whole-session saves    *)
(* then overwrite the status and the finish of records, but never the      *)
(* number of attempts and the event each of them belongs to.               *)
(***************************************************************************)
EXTENDS RepairSessionProofs

\* FAILED calls that are under way at once report the same event.
SeparateFailures ==
  \A v, w \in Worker : Job(v) \in FailedEvent /\ Job(w) \in FailedEvent => Job(v) = Job(w)

\* No two calls are inside the lock.  So it is until a process dies
\* (ExclusiveUntilDeath below), and after a death unless the removal of the file
\* left behind is raced (ExclusionHolds).
Exclusive == \A v, w \in inside : v = w

-----------------------------------------------------------------------------
(* When the lock excludes *)

\* Whoever is inside created the lock file that is there.
LockKept == inside \subseteq Worker /\ \A w \in inside : lock = w

\* The file a waiting caller is about to unlink is the one it found stale, or
\* another that a dead process left.
Unraced == \A w \in Worker : look[w] = "stale" => lock = Orphan

\* What a step may do to the lock.
LEMMA LockMoves ==
  ASSUME [Next]_vars
  PROVE  \/ \E w \in Worker : CanLock(w) /\ TakeLock(w) /\ UNCHANGED crashes
         \/ \E w \in Worker : ReleaseLock(w) /\ UNCHANGED crashes
         \/ \E w \in Worker : FindStale(w) \/ RemoveStale(w)
         \/ \E p \in Process : Crash(p)
         \/ UNCHANGED mutex /\ UNCHANGED crashes
  <1>1. ASSUME NEW w \in Worker, Serve(w)
        PROVE  \/ CanLock(w) /\ TakeLock(w) /\ UNCHANGED crashes
               \/ ReleaseLock(w) /\ UNCHANGED crashes
               \/ FindStale(w) \/ RemoveStale(w)
               \/ UNCHANGED mutex /\ UNCHANGED crashes
    <2>1. CASE EnterSession(w) \/ LockTimeout(w) \/ ServeDuplicate(w) \/ ServeNew(w)
      BY <2>1 DEF EnterSession, LockAndLoad, LockTimeout, ServeDuplicate, ReplayResult, Answer,
             AnswerInProgress, RecoverWithoutAttempt, RecoverEnded, ResumeAttempt, RecoverUnsafe,
             FinishUnsafe, ServeNew, RecordFailed, CreateAttempt, LinkAttempt, BeginRun, history
    <2>2. CASE ServeRun(w) \/ ServeCommit(w) \/ ServeResult(w)
      BY <2>2 DEF ServeRun, RejectInput, KeepPrevious, LoadPrevious, SavePrevious, AgentProposes,
             AgentStops, StopRun, AgentRaises, SaveHumanAttempt, SaveHumanSession, ServeCommit,
             CommitFails, CommitRefused, CommitAttempt, CommitSession, CommitDone, ServeResult,
             DiscardActive, WriteResult, FinishFailed, Answer, history
    <2>3. CASE ServeSuccess(w)
      BY <2>3 DEF ServeSuccess, AckDuplicate, RecordSuccess, AckUnmatched, ConfirmAttempt,
             ConfirmSession, WriteMemory, MemoryDegraded, ReloadForFinish, ReloadForDegrade,
             LockAndLoad, FinishSuccess, FinishDegraded, SaveFinished, DegradeTimeout, Answer,
             history
    <2> QED
      BY <1>1, <2>1, <2>2, <2>3 DEF Serve
  <1>2. ASSUME NEW w \in Worker, ErrorIsCaught(w) \/ ErrorIsRaised(w) \/ SuccessError(w)
        PROVE  ReleaseLock(w) /\ UNCHANGED crashes
    BY <1>2 DEF ErrorIsCaught, ErrorIsRaised, SuccessError, FileError, Answer
  <1>3. ASSUME NEW w \in Worker, NEW e \in Event, Submit(w, e)
        PROVE  UNCHANGED mutex /\ UNCHANGED crashes
    BY <1>3 DEF Submit
  <1>4. CASE UNCHANGED vars
    BY <1>4 DEF vars, history
  <1> QED
    BY <1>1, <1>2, <1>3, <1>4 DEF Next, Quiet

\* The lock stays with the one who is inside, unless somebody else's file is
\* unlinked.
LEMMA LockKeeps ==
  ASSUME Unraced, LockKept, [Next]_vars
  PROVE  LockKept'
  <1>1. ASSUME NEW w \in Worker, CanLock(w), TakeLock(w) PROVE LockKept'
    <2>1. inside = {}
      BY <1>1, ServiceAssumption DEF CanLock, LockKept
    <2> QED
      BY <1>1, <2>1 DEF TakeLock, LockKept
  <1>2. ASSUME NEW w \in Worker, ReleaseLock(w) PROVE LockKept'
    BY <1>2 DEF ReleaseLock, LockKept
  <1>3. ASSUME NEW w \in Worker, FindStale(w) PROVE LockKept'
    BY <1>3 DEF FindStale, LockKept
  <1>4. ASSUME NEW w \in Worker, RemoveStale(w) PROVE LockKept'
    <2>1. lock = Orphan
      BY <1>4 DEF RemoveStale, Unraced
    <2>2. inside = {}
      BY <2>1, ServiceAssumption DEF LockKept
    <2> QED
      BY <1>4, <2>2 DEF RemoveStale, LockKept
  <1>5. ASSUME NEW p \in Process, Crash(p) PROVE LockKept'
    BY <1>5 DEF Crash, LockKept
  <1>6. ASSUME UNCHANGED mutex PROVE LockKept'
    BY <1>6 DEF mutex, LockKept
  <1> QED
    BY <1>1, <1>2, <1>3, <1>4, <1>5, <1>6, LockMoves

\* The lock excludes although processes die, as long as nobody unlinks a file it
\* did not find stale: between the age check and the unlink of _remove_if_stale
\* no other caller removes that file and takes the lock.
THEOREM ExclusionHolds == Spec /\ []Unraced => []Exclusive
  <1>1. Init => LockKept
    BY DEF Init, LockKept
  <1>2. Unraced /\ LockKept /\ [Next]_vars => LockKept'
    BY LockKeeps
  <1>3. LockKept => Exclusive
    BY DEF LockKept, Exclusive
  <1> QED
    BY <1>1, <1>2, <1>3, PTL DEF Spec

\* Until a process dies there is no file to find stale.
Calm == crashes = 0 => LockKept /\ Unraced /\ lock # Orphan

\* As long as no process has died, the lock excludes: any number of threads and
\* processes, timeouts and file errors included.
THEOREM ExclusiveUntilDeath == Spec => [](crashes = 0 => Exclusive)
  <1>1. Init => Calm
    BY ServiceAssumption DEF Init, Calm, LockKept, Unraced
  <1>2. Provenance /\ Calm /\ [Next]_vars => Calm'
    <2> SUFFICES ASSUME Provenance, Calm, [Next]_vars, crashes' = 0
                 PROVE  LockKept' /\ Unraced' /\ lock' # Orphan
      BY DEF Calm
    <2>1. crashes \in Nat /\ look \in [Worker -> Look]
      BY ServiceAssumption DEF Provenance, Rest, Locks
    <2>2. ASSUME NEW p \in Process PROVE ~Crash(p)
      BY <2>1 DEF Crash
    <2>3. crashes = 0
      BY <2>1, <2>2, LockMoves DEF FindStale, RemoveStale, history
    <2>4. LockKept /\ Unraced /\ lock # Orphan /\ \A w \in Worker : look[w] # "stale"
      BY <2>3 DEF Calm, Unraced
    <2>5. LockKept'
      BY <2>4, LockKeeps
    <2>6. ASSUME NEW w \in Worker, TakeLock(w) PROVE Unraced' /\ lock' # Orphan
      BY <2>1, <2>4, <2>6, ServiceAssumption DEF TakeLock, Unraced
    <2>7. ASSUME NEW w \in Worker, ReleaseLock(w) PROVE Unraced' /\ lock' # Orphan
      BY <2>1, <2>4, <2>7, ServiceAssumption DEF ReleaseLock, Unraced
    <2>8. ASSUME NEW w \in Worker PROVE ~FindStale(w) /\ ~RemoveStale(w)
      BY <2>4 DEF FindStale, RemoveStale
    <2>9. ASSUME UNCHANGED mutex PROVE Unraced' /\ lock' # Orphan
      BY <2>4, <2>9 DEF mutex, Unraced
    <2> QED
      BY <2>2, <2>5, <2>6, <2>7, <2>8, <2>9, LockMoves
  <1>3. Calm => (crashes = 0 => Exclusive)
    BY DEF Calm, LockKept, Exclusive
  <1> QED
    BY <1>1, <1>2, <1>3, ProvenanceInvariant, PTL DEF Spec

-----------------------------------------------------------------------------
(* The attempts: the inductive invariant Ledger *)

\* Two copies count the same attempts, and link them to the same events.
SameBook(s, t) ==
  /\ s.count = t.count
  /\ \A e \in FailedEvent :
       s.events[e].attempt = t.events[e].attempt /\ (Recorded(s, e) <=> Recorded(t, e))

\* All records of a copy point to attempts and results of their own events.
Entries(s, A, R) ==
  \A e \in FailedEvent : Entry(s, e, A, R) /\ (s.events[e].attempt # 0 => Recorded(s, e))

\* The attempt of an event has its number, its event is recorded, and it
\* proposes SQL only once that was approved.
Named(n) ==
  LET a == attempts[n]
  IN  a.key \in FailedEvent =>
        /\ a.no = n /\ Recorded(session, a.key)
        /\ a.status = "CREATED" => a.sql = NoSql
        /\ a.sql # NoSql => <<a.key, a.sql>> \in approved

Tidy == Entries(session, attempts, results) /\ \A n \in AttemptNo : Named(n)

\* Labels at which a call holds the lock.
Locking == {"find", "match", "create", "link", "begin", "unsafe", "commit_session", "commit_done",
            "confirm", "finish_success", "degrade"}

Locked(w) == call[w].pc \in Locking => w \in inside

\* The copy a call holds may be old, but not in its attempts.
Copied(w) ==
  /\ call[w].pc \notin Reloads => Entries(Mem(w), attempts, results)
  /\ call[w].pc \notin Reloads \cup {"link"} => SameBook(Mem(w), session)
  /\ call[w].pc \in {"commit_session", "commit_done"} =>
       Entries(call[w].kept, attempts, results) /\ SameBook(call[w].kept, session)

\* The attempt a call is about to mark is a copy of the one on file, but for
\* its status, and what it proposes was approved.
Marks(w) ==
  LET p == call[w].prev  n == Mem(w).sqlAttempt
  IN  /\ n # 0 /\ p.status = "UPSTREAM_FAILED" /\ p.key = attempts[n].key
      /\ p.key \in FailedEvent => p.no = n /\ (p.sql # NoSql => <<p.key, p.sql>> \in approved)

\* A call that works on an attempt has the one of its event.
Working(w) ==
  LET a == Att(w)  n == Att(w).no
  IN  /\ call[w].pc \in Owning =>
           /\ n # 0 /\ a.key = Job(w) /\ session.events[Job(w)].attempt = n
           /\ a.sql # NoSql => <<Job(w), a.sql>> \in approved
      /\ call[w].pc \in {"begin", "input", "previous", "run"} => a.sql = NoSql
      /\ call[w].pc \in {"commit", "commit_session", "commit_done"} => a.status = "SQL_READY"
      /\ call[w].pc \in Deciding => call[w].ret # NoResult
      /\ At(w, "finish") => results[n] # NoResult
      /\ At(w, "unsafe") => Recorded(session, Job(w))
      /\ At(w, "previous") => Marks(w)
      /\ call[w].guarded => call[w].pc \in Owning \ {"begin", "input", "previous"}

\* A call that creates an attempt does so for an event that has none.
Making(w) ==
  /\ call[w].pc \in {"create", "link"} =>
       Recorded(session, Job(w)) /\ session.events[Job(w)].attempt = 0
  /\ At(w, "create") => \A n \in AttemptNo : attempts[n].key # Job(w)
  /\ At(w, "link") =>
       /\ Mem(w).count = session.count + 1
       /\ Att(w) = [no |-> Mem(w).count, status |-> "CREATED", key |-> Job(w), sql |-> NoSql]
       /\ Mem(w).events[Job(w)].attempt = Att(w).no
       /\ \A x \in FailedEvent \ {Job(w)} :
            /\ Mem(w).events[x].attempt = session.events[x].attempt
            /\ Recorded(Mem(w), x) <=> Recorded(session, x)

Fit(w) == Locked(w) /\ Copied(w) /\ Working(w) /\ Making(w)

Ledger == Tidy /\ \A w \in Worker : Fit(w)

-----------------------------------------------------------------------------
(* Copies of the session *)

\* Agreement of copies is transitive, and looks at records and count only.
LEMMA BookChain ==
  ASSUME NEW s, NEW t, NEW u, SameBook(s, t), SameBook(t, u)
  PROVE  SameBook(s, u)
  BY DEF SameBook

LEMMA BookEvents ==
  ASSUME NEW A, NEW R, NEW m, NEW q, q.events = m.events, q.count = m.count
  PROVE  SameBook(q, m) /\ (Entries(m, A, R) => Entries(q, A, R))
  BY DEF SameBook, Entries, Entry, Recorded, RecordOf

\* Finishing a record, without a result or with the stored one of its attempt,
\* changes nothing in the book.
LEMMA BookFinish ==
  ASSUME NEW A, NEW R, NEW m, NEW q, NEW e, NEW st \in {"SUCCEEDED", "SYSTEM_ERROR"},
         NEW n, Entries(m, A, R), FinishedAs(q, m, e, st, n),
         e \in FailedEvent => Recorded(m, e) /\ (n # 0 => n = m.events[e].attempt /\ R[n] # NoResult)
  PROVE  SameBook(q, m) /\ Entries(q, A, R)
  <1>1. /\ \A x \in Event \ {e} : q.events[x] = m.events[x]
        /\ q.events[e].status = st /\ q.events[e].ref = n /\ q.events[e].attempt = m.events[e].attempt
        /\ q.count = m.count
    BY DEF FinishedAs
  <1>2. ASSUME NEW x \in FailedEvent
        PROVE  /\ q.events[x].attempt = m.events[x].attempt /\ (Recorded(q, x) <=> Recorded(m, x))
               /\ Entry(q, x, A, R) /\ (q.events[x].attempt # 0 => Recorded(q, x))
    <2>1. Entry(m, x, A, R) /\ (m.events[x].attempt # 0 => Recorded(m, x))
      BY DEF Entries
    <2>2. CASE x = e
      BY <1>1, <2>1, <2>2 DEF Entry, Recorded, RecordOf
    <2>3. CASE x # e
      BY <1>1, <2>1, <2>3 DEF Entry, Recorded, RecordOf, Event
    <2> QED
      BY <2>2, <2>3
  <1> QED
    BY <1>1, <1>2 DEF SameBook, Entries

\* Copies stay in order while attempts keep their events and results stay.
LEMMA EntriesStay ==
  ASSUME NEW A, NEW A2, NEW R, NEW R2, NEW s \in Session, Entries(s, A, R),
         \A n \in AttemptNo : n <= s.count => A2[n].key = A[n].key,
         \A n \in AttemptNo : R[n] # NoResult => R2[n] # NoResult
  PROVE  Entries(s, A2, R2)
  <1>1. ASSUME NEW e \in FailedEvent PROVE Entry(s, e, A2, R2)
    <2>1. s.events[e] \in Record
      BY DEF Session, Event
    <2>2. s.events[e].attempt \in 0 .. MaxAttempts
      BY <2>1 DEF Record
    <2>3. Entry(s, e, A, R)
      BY DEF Entries
    <2> QED
      BY <2>2, <2>3, ServiceAssumption DEF Entry, AttemptNo
  <1> QED
    BY <1>1 DEF Entries

\* The attempt of a record is on file, and is what it should be.
LEMMA NamedAttempt ==
  ASSUME Provenance, Tidy, NEW s \in Session, SameBook(s, session),
         NEW e \in FailedEvent, NEW k, k = s.events[e].attempt, k # 0
  PROVE  /\ k \in AttemptNo /\ k <= session.count /\ k = session.events[e].attempt
         /\ attempts[k] \in Attempt /\ attempts[k].key = e /\ attempts[k].no = k
         /\ Recorded(session, e) /\ Recorded(s, e)
         /\ attempts[k].status = "CREATED" => attempts[k].sql = NoSql
         /\ attempts[k].sql # NoSql => <<e, attempts[k].sql>> \in approved
  <1>1. attempts \in [AttemptNo -> Attempt]
    BY DEF Provenance, Disk
  <1>2. s.events[e] \in Record /\ k = session.events[e].attempt
    BY DEF Session, Event, SameBook
  <1>3. k \in AttemptNo
    <2>1. k \in 0 .. MaxAttempts
      BY <1>2 DEF Record
    <2> QED
      BY <2>1, ServiceAssumption DEF AttemptNo
  <1>4. attempts[k].key = e /\ k <= session.count /\ Recorded(session, e)
    BY <1>2 DEF Tidy, Entries, Entry
  <1>5. Named(k)
    BY <1>3 DEF Tidy
  <1>6. Recorded(s, e)
    BY <1>4 DEF SameBook
  <1>7. /\ attempts[k].no = k
        /\ attempts[k].status = "CREATED" => attempts[k].sql = NoSql
        /\ attempts[k].sql # NoSql => <<e, attempts[k].sql>> \in approved
    BY <1>4, <1>5 DEF Named
  <1> QED
    BY <1>1, <1>2, <1>3, <1>4, <1>6, <1>7

-----------------------------------------------------------------------------
(* What a step does to the files *)

\* The book stays as it is, and no attempt becomes CREATED again.
Steady ==
  /\ Tidy' /\ SameBook(session', session)
  /\ \A n \in AttemptNo : /\ attempts'[n].key = attempts[n].key
                          /\ attempts'[n].status = "CREATED" => attempts'[n] = attempts[n]
                          /\ results[n] # NoResult => results'[n] # NoResult
  /\ approved \subseteq approved'

\* What Steady means for copies.
LEMMA SteadyCopies ==
  ASSUME Steady, NEW m \in Session
  PROVE  /\ Entries(m, attempts, results) => Entries(m, attempts', results')
         /\ SameBook(m, session) => SameBook(m, session')
         /\ \A e \in FailedEvent : session'.events[e].attempt = session.events[e].attempt
                                 /\ (Recorded(session', e) <=> Recorded(session, e))
         /\ session'.count = session.count
  <1>1. PICK A, A2, R, R2 : A = attempts /\ A2 = attempts' /\ R = results /\ R2 = results'
    OBVIOUS
  <1>2. \A n \in AttemptNo : A2[n].key = A[n].key /\ (R[n] # NoResult => R2[n] # NoResult)
    BY <1>1 DEF Steady
  <1>3. Entries(m, A, R) => Entries(m, A2, R2)
    BY <1>2, EntriesStay
  <1>4. PICK t, u : t = session /\ u = session'
    OBVIOUS
  <1>5. SameBook(u, t)
    BY <1>4 DEF Steady
  <1>6. /\ SameBook(m, t) => SameBook(m, u)
        /\ \A e \in FailedEvent : u.events[e].attempt = t.events[e].attempt /\ (Recorded(u, e) <=> Recorded(t, e))
        /\ u.count = t.count
    BY <1>5 DEF SameBook
  <1> QED
    BY <1>1, <1>3, <1>4, <1>6

\* No file is written.
LEMMA FilesStay ==
  ASSUME Tidy, UNCHANGED files, approved \subseteq approved'
  PROVE  Steady
  BY DEF Steady, Tidy, Named, files, SameBook

\* session.json is replaced by a copy with the same book.
LEMMA SessionSaved ==
  ASSUME Tidy, NEW q, session' = q, SameBook(q, session), Entries(q, attempts, results),
         UNCHANGED <<attempts, results, approved>>
  PROVE  Steady
  <1>1. \A e \in FailedEvent : Recorded(session, e) => Recorded(session', e)
    BY DEF SameBook
  <1>2. \A n \in AttemptNo : Named(n)'
    BY <1>1 DEF Tidy, Named
  <1> QED
    BY <1>2 DEF Steady, Tidy

\* An attempt is saved for the same event.
LEMMA AttemptSaved ==
  ASSUME Provenance, Tidy, NEW n \in AttemptNo, NEW a \in Attempt,
         attempts' = [attempts EXCEPT ![n] = a], UNCHANGED <<session, results, approved>>,
         a.key = attempts[n].key, a.status # "CREATED",
         a.key \in FailedEvent => a.no = n /\ (a.sql # NoSql => <<a.key, a.sql>> \in approved)
  PROVE  Steady /\ attempts'[n] = a
  <1>1. attempts \in [AttemptNo -> Attempt] /\ session \in Session
    BY DEF Provenance, Disk, GoodSession
  <1>2. /\ attempts'[n] = a /\ \A k \in AttemptNo : k # n => attempts'[k] = attempts[k]
        /\ \A k \in AttemptNo : attempts'[k].key = attempts[k].key
    BY <1>1
  <1>3. ASSUME NEW k \in AttemptNo PROVE Named(k)'
    BY <1>1, <1>2 DEF Tidy, Named
  <1>4. Entries(session', attempts', results')
    <2>1. PICK A, A2, R, s : A = attempts /\ A2 = attempts' /\ R = results /\ s = session
      OBVIOUS
    <2>2. s \in Session /\ Entries(s, A, R) /\ \A k \in AttemptNo : A2[k].key = A[k].key
      BY <1>1, <1>2, <2>1 DEF Tidy
    <2>3. Entries(s, A2, R)
      BY <2>2, EntriesStay
    <2> QED
      BY <2>1, <2>3
  <1> QED
    BY <1>1, <1>2, <1>3, <1>4 DEF Steady, Tidy, SameBook

\* Only the status of an attempt is replaced.
LEMMA StatusSaved ==
  ASSUME Provenance, Tidy, NEW n \in AttemptNo, NEW st \in Settled,
         attempts' = [attempts EXCEPT ![n] = WithStatus(attempts[n], st)],
         UNCHANGED <<session, results, approved>>
  PROVE  Steady /\ attempts'[n] = WithStatus(attempts[n], st)
  <1>1. attempts \in [AttemptNo -> Attempt] /\ Named(n)
    BY DEF Provenance, Disk, Tidy
  <1>2. PICK a : a = WithStatus(attempts[n], st)
    OBVIOUS
  <1>3. /\ a \in Attempt /\ a.no = attempts[n].no /\ a.key = attempts[n].key /\ a.sql = attempts[n].sql
        /\ a.status = st /\ st # "CREATED"
    BY <1>1, <1>2 DEF WithStatus, Attempt, Settled, AttemptStatus
  <1>4. attempts' = [attempts EXCEPT ![n] = a]
    BY <1>2
  <1>5. a.key \in FailedEvent => a.no = n /\ (a.sql # NoSql => <<a.key, a.sql>> \in approved)
    <2>1. attempts[n].key \in FailedEvent =>
            /\ attempts[n].no = n
            /\ attempts[n].sql # NoSql => <<attempts[n].key, attempts[n].sql>> \in approved
      BY <1>1 DEF Named
    <2> QED
      BY <1>3, <2>1
  <1>6. UNCHANGED <<session, results, approved>> /\ a \in Attempt /\ a.key = attempts[n].key
        /\ a.status # "CREATED"
    BY <1>3
  <1>7. Steady /\ attempts'[n] = a
    BY <1>4, <1>5, <1>6, AttemptSaved
  <1> QED
    BY <1>2, <1>7

-----------------------------------------------------------------------------
(* What a step does to the other calls *)

\* A call that holds no copy and no attempt fits.
LEMMA Quits ==
  ASSUME NEW w \in Worker, call'[w].pc \in Reloads, ~call'[w].guarded
  PROVE  Fit(w)'
  BY DEF Fit, Locked, Copied, Working, Making, Locking, Reloads, Owning, FailedLabel, Deciding, At

\* Steps that keep the book do not disturb the calls of others.
LEMMA OthersFit ==
  ASSUME Provenance, Ledger, Steady, NEW w \in Worker, Fit(w)',
         \A v \in Worker : v # w => call'[v] = call[v],
         inside \ {w} \subseteq inside'
  PROVE  Ledger'
  <1>1. ASSUME NEW v \in Worker, v # w PROVE Fit(v)'
    <2>1. /\ call'[v] = call[v] /\ Fit(v) /\ Mem(v) \in Session /\ call[v].kept \in Session
          /\ ~At(v, "idle") => Job(v) \in Event
          /\ call[v].pc \in FailedLabel \/ call[v].guarded => Job(v) \in FailedEvent
      BY <1>1, Parts DEF Ledger
    <2>2. Locked(v)'
      BY <1>1, <2>1, ServiceAssumption DEF Fit, Locked
    <2>3. Copied(v)'
      <3>1. \A m \in Session : /\ Entries(m, attempts, results) => Entries(m, attempts', results')
                               /\ SameBook(m, session) => SameBook(m, session')
        BY SteadyCopies
      <3> QED
        BY <2>1, <3>1 DEF Fit, Copied, Mem
    <2>4. \A e \in FailedEvent : /\ session'.events[e].attempt = session.events[e].attempt
                                 /\ Recorded(session', e) <=> Recorded(session, e)
      BY <2>1, SteadyCopies
    <2>5. session'.count = session.count
      BY <2>1, SteadyCopies
    <2>6. Working(v)'
      <3>1. Working(v)
        BY <2>1 DEF Fit
      <3>2. At(v, "finish") => Att(v).no \in AttemptNo
        <4> SUFFICES ASSUME At(v, "finish") PROVE Att(v).no \in AttemptNo
          OBVIOUS
        <4>1. Att(v) \in Attempt
          BY Parts
        <4>2. Att(v).no \in 0 .. MaxAttempts /\ Att(v).no # 0
          BY <3>1, <4>1 DEF Attempt, Working, Owning, FailedLabel, At
        <4> QED
          BY <4>2, ServiceAssumption DEF AttemptNo
      <3>3. At(v, "previous") => Marks(v)'
        <4> SUFFICES ASSUME At(v, "previous") PROVE Marks(v)'
          OBVIOUS
        <4>1. Marks(v) /\ Mem(v).sqlAttempt \in 0 .. MaxAttempts
          BY <2>1, <3>1 DEF Working, Session
        <4>2. Mem(v).sqlAttempt \in AttemptNo
          BY <4>1, ServiceAssumption DEF Marks, AttemptNo
        <4> QED
          BY <2>1, <4>1, <4>2 DEF Marks, Steady, Mem
      <3> QED
        BY <2>1, <2>4, <3>1, <3>2, <3>3 DEF Working, Steady, Owning, FailedLabel, At, Att, Job
    <2>7. Making(v)'
      <3>1. Making(v)
        BY <2>1 DEF Fit
      <3> QED
        BY <2>1, <2>4, <2>5, <3>1 DEF Making, Steady, FailedLabel, At, Att, Job, Mem
    <2> QED
      BY <2>2, <2>3, <2>6, <2>7 DEF Fit
  <1> QED
    BY <1>1 DEF Ledger, Steady

\* While a call makes the attempt of an event, no other holds a copy.
LEMMA NoOther ==
  ASSUME Provenance, Ledger, SeparateFailures, Exclusive, NEW w \in Worker, w \in inside,
         Job(w) \in FailedEvent,
         session.events[Job(w)].attempt = 0, NEW v \in Worker, v # w
  PROVE  call[v].pc \in Reloads /\ ~call[v].guarded
  <1>1. /\ Fit(v) /\ call[v].pc \in Label
        /\ call[v].pc \in FailedLabel \/ call[v].guarded => Job(v) \in FailedEvent
    BY Parts DEF Ledger
  <1>2. call[v].pc \notin Locking
    BY <1>1 DEF Fit, Locked, Exclusive
  <1>3. ASSUME call[v].pc \in Owning PROVE FALSE
    <2>1. Job(v) = Job(w)
      BY <1>1, <1>3 DEF Owning, SeparateFailures
    <2> QED
      BY <1>1, <1>3, <2>1 DEF Fit, Working
  <1>4. ~call[v].guarded
    BY <1>1, <1>3 DEF Fit, Working
  <1> QED
    BY <1>1, <1>2, <1>3, <1>4 DEF Label, Locking, Owning, FailedLabel, Reloads

\* Such a step keeps the ledger if it keeps the files and its own call in order.
LEMMA MakesAlone ==
  ASSUME Provenance, Ledger, SeparateFailures, Exclusive, NEW w \in Worker, w \in inside,
         Job(w) \in FailedEvent,
         session.events[Job(w)].attempt = 0, Tidy', Fit(w)',
         \A v \in Worker : v # w => call'[v] = call[v]
  PROVE  Ledger'
  <1>1. ASSUME NEW v \in Worker, v # w PROVE Fit(v)'
    BY <1>1, NoOther, Quits
  <1> QED
    BY <1>1 DEF Ledger

-----------------------------------------------------------------------------
(* Ledger is kept: one lemma per part of the handler *)

\* Taking or missing the lock, and loading the session.
LEMMA EnterFits ==
  ASSUME Provenance, Ledger, NEW w \in Worker,
         EnterSession(w) \/ LockTimeout(w) \/ ReloadForFinish(w) \/ ReloadForDegrade(w)
  PROVE  Steady /\ Ledger'
  <1>1. UNCHANGED files /\ UNCHANGED approved
    BY DEF EnterSession, LockTimeout, ReloadForFinish, ReloadForDegrade, LockAndLoad, files, history
  <1>2. Tidy /\ Fit(w) /\ Steady
    BY <1>1, FilesStay DEF Ledger
  <1>3. CASE LockTimeout(w)
    <2>1. /\ call'[w].pc = "idle" /\ ~call'[w].guarded /\ \A v \in Worker : v # w => call'[v] = call[v]
          /\ inside' = inside \ {w}
      BY <1>3, AnswerIs DEF LockTimeout, Answer, ReleaseLock
    <2> QED
      BY <1>2, <2>1, Quits, OthersFit DEF Reloads
  <1>4. ASSUME NEW from \in {"lock", "finish_lock", "degrade_lock"},
               NEW to \in {"find", "finish_success", "degrade"}, LockAndLoad(w, from, to)
        PROVE  Steady /\ Ledger'
    <2>1. /\ call'[w].pc = to /\ Mem(w)' = session /\ Job(w)' = Job(w)
          /\ call'[w].guarded => call[w].guarded \/ to = "run"
          /\ \A v \in Worker : v # w => call'[v] = call[v]
          /\ inside' = inside \cup {w}
      BY <1>4, ContinueIs DEF LockAndLoad, TakeLock
    <2>2. ~call'[w].guarded
      BY <1>2, <1>4, <2>1 DEF Fit, Working, LockAndLoad, At, Owning, FailedLabel
    <2>3. Copied(w)'
      BY <1>1, <1>2, <2>1 DEF Copied, files, Tidy, SameBook
    <2>4. Locked(w)' /\ Working(w)' /\ Making(w)'
      BY <2>1, <2>2 DEF Locked, Working, Making, Owning, FailedLabel, Deciding, At
    <2> QED
      BY <1>2, <2>1, <2>3, <2>4, OthersFit DEF Fit
  <1> QED
    BY <1>3, <1>4 DEF EnterSession, ReloadForFinish, ReloadForDegrade

\* A call that is answered leaves the others as they are.
LEMMA Leaves ==
  ASSUME Provenance, Ledger, Steady, NEW w \in Worker, NEW r, Answer(w, r)
  PROVE  Ledger'
  <1>1. /\ call'[w].pc = "idle" /\ ~call'[w].guarded /\ \A v \in Worker : v # w => call'[v] = call[v]
        /\ inside' = inside \ {w}
    BY AnswerIs DEF Answer, ReleaseLock
  <1> QED
    BY <1>1, Quits, OthersFit DEF Reloads

\* A FAILED event that has a record: replayed, in progress, or recovered.
LEMMA DuplicateFits ==
  ASSUME Provenance, Ledger, NEW w \in Worker, ServeDuplicate(w)
  PROVE  Steady /\ Ledger'
  <1>1. Tidy /\ Fit(w)
    BY DEF Ledger
  <1>2. /\ session \in Session /\ Mem(w) \in Session /\ Att(w) \in Attempt
        /\ attempts \in [AttemptNo -> Attempt]
    BY Parts
  <1>3. ASSUME FindFailed(w)
        PROVE  /\ call[w].pc = "find" /\ Job(w) \in FailedEvent /\ Job(w) \in Event /\ w \in inside
               /\ Entries(Mem(w), attempts, results) /\ SameBook(Mem(w), session)
               /\ ~call[w].guarded
    BY <1>1, <1>3 DEF FindFailed, At, Fit, Locked, Copied, Working, Locking, Reloads, Owning,
                      FailedLabel, Event
  <1>4. CASE ReplayResult(w) \/ AnswerInProgress(w)
    <2>1. UNCHANGED files /\ UNCHANGED approved
      BY <1>4 DEF ReplayResult, AnswerInProgress, files, history
    <2>2. Steady
      BY <1>1, <2>1, FilesStay
    <2> QED
      BY <1>4, <2>2, Leaves DEF ReplayResult, AnswerInProgress
  <1>5. ASSUME NEW j \in FailedEvent, Recorded(Mem(w), j),
               session' = FinishEvent(Mem(w), j, "SYSTEM_ERROR", 0, "RECOVERY"),
               UNCHANGED <<attempts, results, approved>>,
               Entries(Mem(w), attempts, results), SameBook(Mem(w), session)
        PROVE  Steady
    <2>1. PICK q : q = FinishEvent(Mem(w), j, "SYSTEM_ERROR", 0, "RECOVERY")
      OBVIOUS
    <2>2. j \in Event /\ 0 \in 0 .. MaxAttempts
      BY ServiceAssumption DEF Event
    <2>3. FinishedAs(q, Mem(w), j, "SYSTEM_ERROR", 0)
      BY <1>2, <2>1, <2>2, FinishIs
    <2>4. SameBook(q, Mem(w)) /\ Entries(q, attempts, results)
      BY <1>5, <2>3, BookFinish
    <2>5. SameBook(q, session) /\ session' = q
      BY <1>5, <2>1, <2>4, BookChain
    <2> QED
      BY <1>1, <1>5, <2>4, <2>5, SessionSaved
  <1>6. CASE RecoverWithoutAttempt(w)
    <2>1. Recorded(Mem(w), Job(w)) /\ FindFailed(w)
      BY <1>6 DEF RecoverWithoutAttempt, Recovering
    <2>2. Steady
      BY <1>3, <1>5, <1>6, <2>1 DEF RecoverWithoutAttempt, history
    <2> QED
      BY <1>6, <2>2, Leaves DEF RecoverWithoutAttempt
  <1>7. ASSUME Recovering(w), Own(w).attempt # 0, NEW k, k = Own(w).attempt
        PROVE  /\ k \in AttemptNo /\ k = session.events[Job(w)].attempt
               /\ attempts[k] \in Attempt /\ attempts[k].key = Job(w) /\ attempts[k].no = k
               /\ Recorded(session, Job(w)) /\ Recorded(Mem(w), Job(w))
               /\ attempts[k].status = "CREATED" => attempts[k].sql = NoSql
               /\ attempts[k].sql # NoSql => <<Job(w), attempts[k].sql>> \in approved
    <2>1. FindFailed(w) /\ k = Mem(w).events[Job(w)].attempt /\ k # 0
      BY <1>7 DEF Recovering, Own, RecordOf
    <2> QED
      BY <1>1, <1>2, <1>3, <2>1, NamedAttempt
  <1>8. ASSUME NEW l \in {"discard", "begin"}, NEW r, NEW k, k = Own(w).attempt, k # 0,
               Recovering(w), Continue(w, l, Mem(w), attempts[k], r),
               l = "begin" => attempts[k].sql = NoSql, l = "discard" => r # NoResult,
               UNCHANGED <<files, inside, approved>>
        PROVE  Steady /\ Ledger'
    <2>1. Steady
      BY <1>1, <1>8, FilesStay
    <2>2. FindFailed(w)
      BY <1>8 DEF Recovering
    <2>3. /\ call'[w].pc = l /\ Mem(w)' = Mem(w) /\ Job(w)' = Job(w) /\ Att(w)' = attempts[k]
          /\ call'[w].ret = r
          /\ call'[w].guarded => call[w].guarded \/ l = "run"
          /\ \A v \in Worker : v # w => call'[v] = call[v]
      BY <1>8, ContinueIs
    <2>4. ~call'[w].guarded
      BY <1>3, <1>8, <2>2, <2>3
    <2>5. /\ k = session.events[Job(w)].attempt /\ attempts[k].key = Job(w) /\ attempts[k].no = k
          /\ attempts[k].sql # NoSql => <<Job(w), attempts[k].sql>> \in approved
      BY <1>7, <1>8
    <2>6. Locked(w)' /\ Copied(w)'
      BY <1>3, <1>8, <2>2, <2>3 DEF Locked, Copied, files
    <2>7. Working(w)'
      BY <1>8, <2>3, <2>4, <2>5 DEF Working, Owning, FailedLabel, Deciding, At, files
    <2>8. Making(w)'
      BY <1>8, <2>3 DEF Making, At
    <2> QED
      BY <1>8, <2>1, <2>3, <2>6, <2>7, <2>8, OthersFit DEF Fit
  <1>9. CASE RecoverEnded(w)
    <2>1. PICK r : Continue(w, "discard", Mem(w), OnDisk(w), r) /\ r # NoResult
      BY <1>9 DEF RecoverEnded, SqlReady, Human, NoResult, Plain
    <2>2. PICK k : k = Own(w).attempt
      OBVIOUS
    <2>3. k # 0 /\ Recovering(w) /\ UNCHANGED <<files, inside, approved>>
      BY <1>9, <2>2 DEF RecoverEnded, history, mutex
    <2> QED
      BY <1>8, <2>1, <2>2, <2>3 DEF OnDisk
  <1>10. CASE ResumeAttempt(w)
    <2>1. PICK k : k = Own(w).attempt
      OBVIOUS
    <2>2. k # 0 /\ Recovering(w) /\ UNCHANGED <<files, inside, approved>> /\ attempts[k].status = "CREATED"
          /\ Continue(w, "begin", Mem(w), attempts[k], NoResult)
      BY <1>10, <2>1 DEF ResumeAttempt, history, OnDisk, mutex
    <2>3. attempts[k].sql = NoSql
      BY <1>7, <2>1, <2>2
    <2> QED
      BY <1>8, <2>1, <2>2, <2>3
  <1>11. CASE RecoverUnsafe(w)
    <2>1. PICK k : k = Own(w).attempt
      OBVIOUS
    <2>2. /\ k # 0 /\ Recovering(w) /\ UNCHANGED <<session, results, inside, approved>>
          /\ attempts' = [attempts EXCEPT ![k] = WithStatus(attempts[k], "HUMAN_REQUIRED")]
          /\ Goto(w, "unsafe")
      BY <1>11, <2>1 DEF RecoverUnsafe, history, mutex
    <2>3. FindFailed(w)
      BY <2>2 DEF Recovering
    <2>4. k \in AttemptNo /\ Recorded(session, Job(w))
      BY <1>7, <2>1, <2>2
    <2>5. Steady
      BY <1>1, <2>2, <2>4, StatusSaved DEF Settled
    <2>6. /\ call'[w].pc = "unsafe" /\ Mem(w)' = Mem(w) /\ Job(w)' = Job(w)
          /\ call'[w].guarded => call[w].guarded
          /\ \A v \in Worker : v # w => call'[v] = call[v]
      BY <2>2, GotoIs
    <2>7. Copied(w)'
      <3>1. Entries(Mem(w), attempts', results') /\ SameBook(Mem(w), session')
        BY <1>2, <1>3, <2>3, <2>5, SteadyCopies
      <3> QED
        BY <2>6, <3>1 DEF Copied
    <2>8. Locked(w)' /\ Working(w)' /\ Making(w)'
      BY <1>3, <2>2, <2>3, <2>4, <2>6 DEF Locked, Working, Making, Owning, FailedLabel, Deciding,
             At, Recorded, RecordOf
    <2> QED
      BY <2>2, <2>5, <2>6, <2>7, <2>8, OthersFit DEF Fit
  <1>12. CASE FinishUnsafe(w)
    <2>1. call[w].pc = "unsafe" /\ Job(w) \in FailedEvent
      BY <1>12, Parts DEF FinishUnsafe, At, FailedLabel
    <2>2. Entries(Mem(w), attempts, results) /\ SameBook(Mem(w), session) /\ Recorded(session, Job(w))
      BY <1>1, <2>1 DEF Fit, Copied, Working, Reloads, At
    <2>3. Recorded(Mem(w), Job(w))
      BY <2>1, <2>2 DEF SameBook
    <2>4. Steady
      BY <1>5, <1>12, <2>1, <2>2, <2>3 DEF FinishUnsafe, history
    <2> QED
      BY <1>12, <2>4, Leaves DEF FinishUnsafe
  <1> QED
    BY <1>4, <1>6, <1>9, <1>10, <1>11, <1>12 DEF ServeDuplicate

\* A new FAILED event: its record is saved ...
LEMMA RecordFits ==
  ASSUME Provenance, Ledger, SeparateFailures, Exclusive, NEW w \in Worker, RecordFailed(w)
  PROVE  Ledger'
  <1>1. Tidy /\ Fit(w)
    BY DEF Ledger
  <1>2. session \in Session /\ Mem(w) \in Session
    BY Parts
  <1>3. /\ call[w].pc = "find" /\ Job(w) \in FailedEvent /\ Job(w) \in Event /\ w \in inside
        /\ Entries(Mem(w), attempts, results) /\ SameBook(Mem(w), session) /\ ~call[w].guarded
    BY <1>1 DEF RecordFailed, FindFailed, At, Fit, Locked, Copied, Working, Locking, Reloads,
           Owning,
                FailedLabel, Event
  <1>4. PICK m, j, q : m = Mem(w) /\ j = Job(w) /\ q = PutRecord(m, j, Received)
    OBVIOUS
  <1>5. /\ ~Recorded(m, j) /\ session' = q /\ Continue(w, "create", q, NoAttempt, NoResult)
        /\ UNCHANGED <<attempts, results, inside, approved>>
    BY <1>4 DEF RecordFailed, history, mutex
  <1>6. m.events[j].attempt = 0 /\ session.events[j].attempt = 0 /\ ~Recorded(session, j)
    BY <1>3, <1>4, <1>5 DEF Entries, SameBook
  <1>7. /\ q \in Session /\ q.events[j] = Received /\ \A x \in Event \ {j} : q.events[x] = m.events[x]
        /\ q.count = m.count
    <2>1. Received \in Record
      BY ServiceAssumption DEF Received, NoRecord, Record
    <2> QED
      BY <1>2, <1>3, <1>4, <2>1, PutIs
  <1>8. Received.attempt = 0 /\ Received.ref = 0 /\ Recorded(q, j)
    BY <1>7 DEF Received, NoRecord, Recorded, RecordOf
  <1>9. ASSUME NEW x \in FailedEvent, x # j
        PROVE  q.events[x] = m.events[x] /\ (Recorded(q, x) <=> Recorded(session, x))
    BY <1>3, <1>4, <1>7, <1>9 DEF SameBook, Recorded, RecordOf, Event
  <1>10. Entries(q, attempts, results)
    <2>1. ASSUME NEW x \in FailedEvent
          PROVE  Entry(q, x, attempts, results) /\ (q.events[x].attempt # 0 => Recorded(q, x))
      <3>1. CASE x = j
        BY <1>7, <1>8, <3>1 DEF Entry
      <3>2. CASE x # j
        BY <1>3, <1>4, <1>7, <1>9, <3>2 DEF Entries, Entry, Recorded, RecordOf
      <3> QED
        BY <3>1, <3>2
    <2> QED
      BY <2>1 DEF Entries
  <1>11. Tidy'
    <2>1. ASSUME NEW n \in AttemptNo PROVE Named(n)'
      BY <1>1, <1>5, <1>8, <1>9 DEF Tidy, Named
    <2> QED
      BY <1>5, <1>10, <2>1 DEF Tidy
  <1>12. /\ call'[w].pc = "create" /\ Mem(w)' = q /\ Job(w)' = j /\ ~call'[w].guarded
         /\ \A v \in Worker : v # w => call'[v] = call[v]
    BY <1>3, <1>4, <1>5, ContinueIs
  <1>13. \A n \in AttemptNo : attempts[n].key # j
    BY <1>1, <1>3, <1>4, <1>6 DEF Tidy, Named
  <1>14. Copied(w)' /\ Locked(w)' /\ Working(w)'
    BY <1>3, <1>5, <1>10, <1>12
       DEF Copied, Locked, Working, SameBook, Owning, FailedLabel, Deciding, At
  <1>15. Making(w)'
    BY <1>5, <1>7, <1>8, <1>12, <1>13 DEF Making, At
  <1> QED
    BY <1>3, <1>4, <1>6, <1>11, <1>12, <1>14, <1>15, MakesAlone DEF Fit

\* ... its attempt is created ...
LEMMA CreateFits ==
  ASSUME Provenance, Ledger, SeparateFailures, Exclusive, NEW w \in Worker, CreateAttempt(w)
  PROVE  Ledger'
  <1>1. Tidy /\ Fit(w)
    BY DEF Ledger
  <1>2. session \in Session /\ Mem(w) \in Session /\ attempts \in [AttemptNo -> Attempt]
    BY Parts
  <1>3. /\ call[w].pc = "create" /\ Job(w) \in FailedEvent /\ Job(w) \in Event /\ w \in inside
        /\ Entries(Mem(w), attempts, results) /\ SameBook(Mem(w), session) /\ ~call[w].guarded
        /\ Recorded(session, Job(w)) /\ session.events[Job(w)].attempt = 0
    BY <1>1, Parts DEF CreateAttempt, At, Fit, Locked, Copied, Working, Making, Locking, Reloads,
           Owning,
                FailedLabel, Event
  <1>4. PICK m, j, n, a, r, q :
          /\ m = Mem(w) /\ j = Job(w) /\ n = m.count + 1
          /\ a = [no |-> n, status |-> "CREATED", key |-> j, sql |-> NoSql]
          /\ r = [RecordOf(m, j) EXCEPT !.status = "PROCESSING", !.attempt = n]
          /\ q = [PutRecord(m, j, r) EXCEPT !.count = n]
    OBVIOUS
  <1>5. /\ n \in AttemptNo /\ attempts' = [attempts EXCEPT ![n] = a]
        /\ Continue(w, "link", q, a, NoResult) /\ UNCHANGED <<session, results, inside, approved>>
    BY <1>4 DEF CreateAttempt, Own, history, mutex
  <1>6. m.count = session.count /\ m.events[j].attempt = 0 /\ m.count \in Nat
        /\ m.events[j] \in Record /\ Recorded(m, j)
    BY <1>2, <1>3, <1>4, ServiceAssumption DEF SameBook, Session
  <1>7. m.events[j].ref = 0
    BY <1>3, <1>4, <1>6 DEF Entries, Entry
  <1>8. r \in Record /\ r.attempt = n /\ r.ref = 0 /\ r.status = "PROCESSING"
    <2>1. n \in 0 .. MaxAttempts
      BY <1>5, ServiceAssumption DEF AttemptNo
    <2>2. PICK o : o = m.events[j]
      OBVIOUS
    <2>3. o \in Record /\ o.ref = 0 /\ r = [o EXCEPT !.status = "PROCESSING", !.attempt = n]
      BY <1>4, <1>6, <1>7, <2>2 DEF RecordOf
    <2> QED
      BY <2>1, <2>3 DEF Record
  <1>9. /\ q.events[j] = r /\ \A x \in Event \ {j} : q.events[x] = m.events[x]
        /\ q.count = n
    <2>1. PICK p : p = PutRecord(m, j, r)
      OBVIOUS
    <2>2. /\ p \in Session /\ p.events[j] = r /\ \A x \in Event \ {j} : p.events[x] = m.events[x]
      BY <1>2, <1>3, <1>4, <1>8, <2>1, PutIs
    <2>3. q = [p EXCEPT !.count = n]
      BY <1>4, <2>1
    <2> QED
      BY <2>2, <2>3 DEF Session
  <1>10. /\ attempts'[n] = a /\ a.key = j /\ a.no = n /\ a.status = "CREATED" /\ a.sql = NoSql
         /\ \A k \in AttemptNo : k # n => attempts'[k] = attempts[k]
    BY <1>2, <1>4, <1>5
  <1>11. ASSUME NEW s \in Session, NEW A, A = attempts, s.count = session.count, Entries(s, A, results)
         PROVE  Entries(s, attempts', results)
    <2>1. PICK A2 : A2 = attempts'
      OBVIOUS
    <2>2. \A k \in AttemptNo : k <= s.count => A2[k].key = A[k].key
      BY <1>4, <1>6, <1>10, <1>11, <2>1 DEF AttemptNo
    <2>3. Entries(s, A2, results)
      BY <1>11, <2>2, EntriesStay
    <2> QED
      BY <2>1, <2>3
  <1>12. Tidy'
    <2>1. Entries(session', attempts', results')
      BY <1>1, <1>2, <1>5, <1>11 DEF Tidy
    <2>2. ASSUME NEW k \in AttemptNo PROVE Named(k)'
      BY <1>1, <1>3, <1>4, <1>5, <1>10 DEF Tidy, Named, Recorded, RecordOf
    <2> QED
      BY <2>1, <2>2 DEF Tidy
  <1>13. Entries(q, attempts', results')
    <2>1. ASSUME NEW x \in FailedEvent
          PROVE  Entry(q, x, attempts', results') /\ (q.events[x].attempt # 0 => Recorded(q, x))
      <3>1. CASE x = j
        <4>1. q.events[j] = r /\ r.attempt = n /\ r.ref = 0 /\ n <= q.count /\ attempts'[n].key = j
          BY <1>4, <1>6, <1>8, <1>9, <1>10
        <4>2. Entry(q, j, attempts', results')
          BY <4>1 DEF Entry
        <4>3. Recorded(q, j)
          BY <1>8, <4>1 DEF Recorded, RecordOf
        <4> QED
          BY <3>1, <4>2, <4>3
      <3>2. CASE x # j
        <4>1. Entries(m, attempts', results')
          BY <1>2, <1>3, <1>4, <1>5, <1>6, <1>11
        <4>2. q.events[x] = m.events[x] /\ m.events[x] \in Record
          BY <1>2, <1>4, <1>9, <3>2 DEF Event, Session
        <4>3. m.events[x].attempt \in Nat
          BY <4>2, ServiceAssumption DEF Record
        <4> QED
          BY <1>4, <1>6, <1>9, <4>1, <4>2, <4>3 DEF Entries, Entry, Recorded, RecordOf
      <3> QED
        BY <3>1, <3>2
    <2> QED
      BY <2>1 DEF Entries
  <1>14. /\ call'[w].pc = "link" /\ Mem(w)' = q /\ Job(w)' = j /\ Att(w)' = a /\ ~call'[w].guarded
         /\ \A v \in Worker : v # w => call'[v] = call[v]
    BY <1>3, <1>4, <1>5, ContinueIs
  <1>15. Copied(w)' /\ Locked(w)' /\ Working(w)'
    BY <1>3, <1>5, <1>13, <1>14
       DEF Copied, Locked, Working, Owning, FailedLabel, Deciding, At
  <1>16. Making(w)'
    <2>1. ASSUME NEW x \in FailedEvent \ {j}
          PROVE  q.events[x].attempt = session.events[x].attempt /\ (Recorded(q, x) <=> Recorded(session, x))
      BY <1>3, <1>4, <1>9 DEF SameBook, Recorded, RecordOf, Event
    <2>2. q.count = session.count + 1 /\ a = [no |-> q.count, status |-> "CREATED", key |-> j, sql |-> NoSql]
          /\ q.events[j].attempt = a.no
      BY <1>4, <1>6, <1>8, <1>9
    <2>3. session' = session /\ Recorded(session, j) /\ session.events[j].attempt = 0
      BY <1>3, <1>4, <1>5
    <2> QED
      BY <1>14, <2>1, <2>2, <2>3 DEF Making, At, Recorded, RecordOf
  <1> QED
    BY <1>3, <1>4, <1>12, <1>14, <1>15, <1>16, MakesAlone DEF Fit

\* ... and linked to the record.
LEMMA LinkFits ==
  ASSUME Provenance, Ledger, SeparateFailures, Exclusive, NEW w \in Worker, LinkAttempt(w)
  PROVE  Ledger'
  <1>1. Tidy /\ Fit(w)
    BY DEF Ledger
  <1>2. session \in Session /\ Mem(w) \in Session
    BY Parts
  <1>3. /\ call[w].pc = "link" /\ Job(w) \in FailedEvent /\ w \in inside
        /\ Entries(Mem(w), attempts, results) /\ ~call[w].guarded /\ Making(w)
        /\ session.events[Job(w)].attempt = 0
    BY <1>1, Parts DEF LinkAttempt, At, Fit, Locked, Copied, Working, Making, Locking, Reloads,
           Owning,
                FailedLabel
  <1>4. PICK m, j, a : m = Mem(w) /\ j = Job(w) /\ a = Att(w)
    OBVIOUS
  <1>5. session' = m /\ Goto(w, "begin") /\ UNCHANGED <<attempts, results, inside, approved>>
    BY <1>4 DEF LinkAttempt, history, mutex
  <1>6. /\ m.count = session.count + 1 /\ a.no = m.count /\ a.key = j /\ a.sql = NoSql
        /\ m.events[j].attempt = a.no
        /\ \A x \in FailedEvent \ {j} : Recorded(m, x) <=> Recorded(session, x)
    BY <1>3, <1>4 DEF Making, At
  <1>7. a.no # 0
    BY <1>2, <1>6, ServiceAssumption DEF Session
  <1>8. Recorded(m, j)
    BY <1>3, <1>4, <1>6, <1>7 DEF Entries
  <1>9. Tidy'
    <2>1. ASSUME NEW n \in AttemptNo PROVE Named(n)'
      BY <1>1, <1>5, <1>6, <1>8 DEF Tidy, Named
    <2> QED
      BY <1>3, <1>4, <1>5, <2>1 DEF Tidy
  <1>10. /\ call'[w].pc = "begin" /\ Mem(w)' = m /\ Job(w)' = j /\ Att(w)' = a /\ ~call'[w].guarded
         /\ \A v \in Worker : v # w => call'[v] = call[v]
    <2>1. call'[w].guarded => call[w].guarded
      BY <1>5, GotoIs
    <2> QED
      BY <1>3, <1>4, <1>5, <2>1, GotoIs
  <1>11. Fit(w)'
    <2>1. Copied(w)'
      BY <1>3, <1>4, <1>5, <1>10 DEF Copied, SameBook
    <2> QED
      BY <1>3, <1>5, <1>6, <1>7, <1>10, <2>1
         DEF Fit, Locked, Working, Making, Owning, FailedLabel, Deciding, At
  <1> QED
    BY <1>3, <1>9, <1>10, <1>11, MakesAlone

\* A call that works on an attempt goes on with it.
LEMMA Proceeds ==
  ASSUME Provenance, Ledger, Steady, NEW w \in Worker, call[w].pc \in Owning,
         NEW l \in Owning, NEW m \in Session, NEW a, NEW k \in Session,
         call'[w].pc = l, Mem(w)' = m, Job(w)' = Job(w), Att(w)' = a, call'[w].kept = k,
         call'[w].guarded => (call[w].guarded \/ l = "run") /\ l \notin {"begin", "input", "previous"},
         \A v \in Worker : v # w => call'[v] = call[v],
         Entries(m, attempts, results), SameBook(m, session),
         a.no = Att(w).no, a.key = Att(w).key,
         a.sql # NoSql => <<Job(w), a.sql>> \in approved',
         l \in {"begin", "input", "run"} => a.sql = NoSql, l # "previous",
         l \in {"commit", "commit_session", "commit_done"} => a.status = "SQL_READY",
         l \in {"commit_session", "commit_done"} => Entries(k, attempts, results) /\ SameBook(k, session),
         l \in Deciding => call'[w].ret # NoResult,
         l = "finish" => results'[a.no] # NoResult,
         l \in Locking => w \in inside',
         inside \ {w} \subseteq inside'
  PROVE  Ledger'
  <1>1. Fit(w) /\ Job(w) \in FailedEvent /\ session \in Session
    BY Parts DEF Ledger, Owning
  <1>2. /\ Att(w).no # 0 /\ Att(w).key = Job(w) /\ session.events[Job(w)].attempt = Att(w).no
    BY <1>1 DEF Fit, Working
  <1>3. session'.events[Job(w)].attempt = session.events[Job(w)].attempt
    BY <1>1, SteadyCopies
  <1>4. Copied(w)'
    <2>1. /\ Entries(m, attempts', results') /\ SameBook(m, session')
          /\ l \in {"commit_session", "commit_done"} =>
               Entries(k, attempts', results') /\ SameBook(k, session')
      BY SteadyCopies
    <2> QED
      BY <2>1 DEF Copied
  <1>5. Working(w)'
    BY <1>2, <1>3 DEF Working, Owning, FailedLabel, At
  <1>6. Locked(w)' /\ Making(w)'
    BY DEF Locked, Making, Owning, FailedLabel, At
  <1> QED
    BY <1>4, <1>5, <1>6, OthersFit DEF Fit

\* What a call that works on an attempt has.
LEMMA OwnerHas ==
  ASSUME Provenance, Ledger, NEW w \in Worker, call[w].pc \in Owning
  PROVE  /\ Tidy /\ Fit(w) /\ Job(w) \in FailedEvent /\ Job(w) \in Event
         /\ session \in Session /\ Mem(w) \in Session /\ Att(w) \in Attempt /\ call[w].kept \in Session
         /\ attempts \in [AttemptNo -> Attempt]
         /\ Entries(Mem(w), attempts, results) /\ SameBook(Mem(w), session)
         /\ Att(w).no \in AttemptNo /\ Att(w).no # 0 /\ Att(w).key = Job(w)
         /\ session.events[Job(w)].attempt = Att(w).no /\ Mem(w).events[Job(w)].attempt = Att(w).no
         /\ attempts[Att(w).no].key = Job(w) /\ attempts[Att(w).no].no = Att(w).no
         /\ Recorded(session, Job(w)) /\ Recorded(Mem(w), Job(w))
         /\ Att(w).sql # NoSql => <<Job(w), Att(w).sql>> \in approved
  <1>1. /\ Tidy /\ Fit(w) /\ Job(w) \in FailedEvent /\ Job(w) \in Event
        /\ session \in Session /\ Mem(w) \in Session /\ Att(w) \in Attempt /\ call[w].kept \in Session
        /\ attempts \in [AttemptNo -> Attempt]
    BY Parts DEF Ledger, Owning, Event
  <1>2. Entries(Mem(w), attempts, results) /\ SameBook(Mem(w), session)
    BY <1>1 DEF Fit, Copied, Owning, FailedLabel, Reloads
  <1>3. PICK k : k = Mem(w).events[Job(w)].attempt
    OBVIOUS
  <1>4. /\ Att(w).no # 0 /\ Att(w).key = Job(w) /\ session.events[Job(w)].attempt = Att(w).no
        /\ Att(w).sql # NoSql => <<Job(w), Att(w).sql>> \in approved
    BY <1>1 DEF Fit, Working
  <1>5. k = Att(w).no
    BY <1>1, <1>2, <1>3, <1>4 DEF SameBook
  <1>6. /\ k \in AttemptNo /\ attempts[k].key = Job(w) /\ attempts[k].no = k
        /\ Recorded(session, Job(w)) /\ Recorded(Mem(w), Job(w))
    <2>1. PICK j, m : j = Job(w) /\ m = Mem(w)
      OBVIOUS
    <2>2. /\ j \in FailedEvent /\ m \in Session /\ SameBook(m, session) /\ Tidy
          /\ k = m.events[j].attempt /\ k # 0
      BY <1>1, <1>2, <1>3, <1>4, <1>5, <2>1
    <2>3. k \in AttemptNo
      BY <2>2, NamedAttempt
    <2>4. attempts[k].key = j
      <3>1. k = session.events[j].attempt
        BY <2>2 DEF SameBook
      <3> QED
        BY <2>2, <3>1 DEF Tidy, Entries, Entry
    <2>5. Recorded(session, j) /\ Recorded(m, j)
      BY <2>2, NamedAttempt
    <2>6. attempts[k].no = k
      BY <2>2, <2>3, <2>4 DEF Tidy, Named
    <2> QED
      BY <2>1, <2>3, <2>4, <2>5, <2>6
  <1> QED
    BY <1>1, <1>2, <1>3, <1>4, <1>5, <1>6

\* The run begins: the session is saved with a new status, the lock released.
LEMMA BeginFits ==
  ASSUME Provenance, Ledger, NEW w \in Worker, BeginRun(w)
  PROVE  Steady /\ Ledger'
  <1>1. call[w].pc = "begin" /\ call[w].pc \in Owning
    BY DEF BeginRun, At, Owning, FailedLabel
  <1>2. /\ Tidy /\ Fit(w) /\ Mem(w) \in Session /\ Att(w) \in Attempt /\ session \in Session
        /\ Entries(Mem(w), attempts, results) /\ SameBook(Mem(w), session)
        /\ Att(w).sql # NoSql => <<Job(w), Att(w).sql>> \in approved
    BY <1>1, OwnerHas
  <1>3. Att(w).sql = NoSql /\ ~call[w].guarded /\ w \in inside
    BY <1>1, <1>2 DEF Fit, Working, Locked, Locking
  <1>4. PICK q : q = [Mem(w) EXCEPT !.status = "RUNNING"]
    OBVIOUS
  <1>5. q \in Session /\ q.events = Mem(w).events /\ q.count = Mem(w).count
    BY <1>2, <1>4 DEF Session
  <1>6. SameBook(q, session) /\ Entries(q, attempts, results)
    BY <1>2, <1>5, BookEvents, BookChain
  <1>7. /\ session' = q /\ Continue(w, "input", q, Att(w), NoResult) /\ ReleaseLock(w)
        /\ UNCHANGED <<attempts, results, approved>>
    BY <1>4 DEF BeginRun, history
  <1>8. Steady
    BY <1>2, <1>6, <1>7, SessionSaved
  <1>9. /\ call'[w].pc = "input" /\ Mem(w)' = q /\ Job(w)' = Job(w) /\ Att(w)' = Att(w)
        /\ call'[w].kept = Kept(w, "input") /\ ~call'[w].guarded
        /\ \A v \in Worker : v # w => call'[v] = call[v]
    BY <1>3, <1>7, ContinueIs
  <1>10. Kept(w, "input") = NewSession /\ NewSession \in Session
    BY NewGood DEF Kept, GoodSession
  <1> QED
    <2>1. PICK l, a, k : l = "input" /\ a = Att(w) /\ k = NewSession
      OBVIOUS
    <2>2. /\ l \in Owning /\ l \notin Deciding /\ l \notin Locking
          /\ l \notin {"commit", "commit_session", "commit_done", "finish", "previous"}
      BY <2>1 DEF Owning, FailedLabel, Deciding, Locking
    <2> QED
      BY <1>1, <1>3, <1>5, <1>6, <1>7, <1>8, <1>9, <1>10, <2>1, <2>2, Proceeds DEF ReleaseLock


\* A call that works on an attempt goes on outside the second critical section.
LEMMA Carries ==
  ASSUME Provenance, Ledger, Steady, NEW w \in Worker, call[w].pc \in Owning,
         NEW l \in {"run", "stop", "human", "human_session", "commit", "discard", "persist", "finish"},
         NEW m \in Session, NEW a,
         call'[w].pc = l, Mem(w)' = m, Job(w)' = Job(w), Att(w)' = a,
         \A v \in Worker : v # w => call'[v] = call[v],
         Entries(m, attempts, results), SameBook(m, session),
         a.no = Att(w).no, a.key = Att(w).key,
         a.sql # NoSql => <<Job(w), a.sql>> \in approved',
         l = "run" => a.sql = NoSql,
         l = "commit" => a.status = "SQL_READY",
         l \in Deciding => call'[w].ret # NoResult,
         l = "finish" => results'[a.no] # NoResult,
         inside \ {w} \subseteq inside'
  PROVE  Ledger'
  <1>1. Fit(w) /\ Job(w) \in FailedEvent /\ session \in Session
    BY Parts DEF Ledger, Owning
  <1>2. /\ Att(w).no # 0 /\ Att(w).key = Job(w) /\ session.events[Job(w)].attempt = Att(w).no
    BY <1>1 DEF Fit, Working
  <1>3. session'.events[Job(w)].attempt = session.events[Job(w)].attempt
    BY <1>1, SteadyCopies
  <1>4. Copied(w)'
    <2>1. Entries(m, attempts', results') /\ SameBook(m, session')
      BY SteadyCopies
    <2> QED
      BY <2>1 DEF Copied
  <1>5. Working(w)'
    BY <1>2, <1>3 DEF Working, Owning, FailedLabel, At, Deciding
  <1>6. Locked(w)' /\ Making(w)'
    BY DEF Locked, Making, Locking, At
  <1> QED
    BY <1>4, <1>5, <1>6, OthersFit DEF Fit

\* The run, what it proposes, and the answers without SQL.
LEMMA RunFits ==
  ASSUME Provenance, Ledger, NEW w \in Worker, ServeRun(w)
  PROVE  Steady /\ Ledger'
  <1>1. /\ call[w].pc \in {"input", "previous", "run", "stop", "human", "human_session"}
        /\ call[w].pc \in Owning /\ inside' = inside
    BY DEF ServeRun, RejectInput, KeepPrevious, LoadPrevious, SavePrevious, AgentProposes,
           AgentStops, StopRun, AgentRaises,
           SaveHumanAttempt, SaveHumanSession, At, Owning, FailedLabel, mutex
  <1>2. /\ Tidy /\ Fit(w) /\ Mem(w) \in Session /\ Att(w) \in Attempt
        /\ attempts \in [AttemptNo -> Attempt] /\ Job(w) \in FailedEvent
    BY <1>1, OwnerHas
  <1>3. /\ Entries(Mem(w), attempts, results) /\ SameBook(Mem(w), session)
        /\ Att(w).no \in AttemptNo /\ Att(w).key = Job(w)
        /\ attempts[Att(w).no].key = Job(w) /\ attempts[Att(w).no].no = Att(w).no
        /\ Att(w).sql # NoSql => <<Job(w), Att(w).sql>> \in approved
    BY <1>1, OwnerHas
  <1>4. call[w].pc \in {"input", "previous", "run"} => Att(w).sql = NoSql
    BY <1>2 DEF Fit, Working
  <1>5. CASE RejectInput(w) \/ AgentRaises(w)
    <2>1. Goto(w, "human") \/ Rescue(w, Mem(w))
      BY <1>5 DEF RejectInput, AgentRaises
    <2>2. UNCHANGED files /\ approved' = approved
      BY <1>5 DEF RejectInput, AgentRaises, files, history
    <2>3. Steady
      BY <1>2, <2>2, FilesStay
    <2>4. /\ call'[w].pc = "human" /\ Mem(w)' = Mem(w) /\ Job(w)' = Job(w) /\ Att(w)' = Att(w)
          /\ \A v \in Worker : v # w => call'[v] = call[v]
      BY <2>1, GotoIs, RescueIs
    <2> QED
      <3>1. PICK l, a, m : l = "human" /\ a = Att(w) /\ m = Mem(w)
        OBVIOUS
      <3>2. l \notin Deciding
        BY <3>1 DEF Deciding
      <3> QED
        BY <1>1, <1>2, <1>3, <2>2, <2>3, <2>4, <3>1, <3>2, Carries
  <1>6. CASE KeepPrevious(w) \/ SavePrevious(w)
    <2>1. /\ call[w].pc \in {"input", "previous"} /\ Goto(w, "run")
          /\ UNCHANGED <<session, results, approved>>
      BY <1>6 DEF KeepPrevious, SavePrevious, At, files, history
    <2>2. /\ call'[w].pc = "run" /\ Mem(w)' = Mem(w) /\ Job(w)' = Job(w) /\ Att(w)' = Att(w)
          /\ \A v \in Worker : v # w => call'[v] = call[v]
      BY <2>1, GotoIs
    <2>3. Steady
      <3>1. CASE KeepPrevious(w)
        BY <1>2, <2>1, <3>1, FilesStay DEF KeepPrevious, files
      <3>2. CASE SavePrevious(w)
        <4>1. PICK k, p : k = Mem(w).sqlAttempt /\ p = call[w].prev
          OBVIOUS
        <4>2. attempts' = [attempts EXCEPT ![k] = p] /\ Marks(w)
          BY <1>2, <3>2, <4>1 DEF SavePrevious, Fit, Working
        <4>3. k # 0 /\ k \in 0 .. MaxAttempts
          BY <1>2, <4>1, <4>2 DEF Marks, Session
        <4>4. k \in AttemptNo /\ p \in Attempt
          BY <4>1, <4>3, ServiceAssumption DEF AttemptNo, Provenance, Calls, GoodCall, GoodAttempt
        <4>5. /\ p.key = attempts[k].key /\ p.status # "CREATED"
              /\ p.key \in FailedEvent => p.no = k /\ (p.sql # NoSql => <<p.key, p.sql>> \in approved)
          BY <4>1, <4>2 DEF Marks
        <4> QED
          BY <1>2, <2>1, <4>2, <4>4, <4>5, AttemptSaved
      <3> QED
        BY <1>6, <3>1, <3>2
    <2> QED
      <3>1. PICK l, a, m : l = "run" /\ a = Att(w) /\ m = Mem(w)
        OBVIOUS
      <3>2. l \notin Deciding
        BY <3>1 DEF Deciding
      <3> QED
        BY <1>1, <1>2, <1>3, <1>4, <2>1, <2>2, <2>3, <3>1, <3>2, Carries
  <1>12. CASE LoadPrevious(w)
    <2>1. /\ call[w].pc = "input" /\ FailsCandidate(w) /\ Goto(w, "previous")
          /\ UNCHANGED files /\ approved' = approved
      BY <1>12 DEF LoadPrevious, At, history
    <2>2. /\ call'[w].pc = "previous" /\ Mem(w)' = Mem(w) /\ Job(w)' = Job(w) /\ Att(w)' = Att(w)
          /\ call'[w].prev = Marking(w, "previous") /\ (call'[w].guarded => call[w].guarded)
          /\ \A v \in Worker : v # w => call'[v] = call[v]
      BY <2>1, GotoIs
    <2>3. Steady
      BY <1>2, <2>1, FilesStay
    <2>4. Marks(w)'
      <3>1. PICK k, p : k = Mem(w).sqlAttempt /\ p = Marking(w, "previous")
        OBVIOUS
      <3>2. k # 0 /\ k \in 0 .. MaxAttempts
        BY <1>2, <2>1, <3>1 DEF FailsCandidate, Session
      <3>3. k \in AttemptNo
        BY <3>2, ServiceAssumption DEF AttemptNo
      <3>4. p = WithStatus(attempts[k], "UPSTREAM_FAILED")
        BY <3>1 DEF Marking, Mem
      <3>5. /\ p.status = "UPSTREAM_FAILED" /\ p.key = attempts[k].key /\ p.no = attempts[k].no
            /\ p.sql = attempts[k].sql
        BY <1>2, <3>3, <3>4 DEF WithStatus, Attempt
      <3>6. attempts[k].key \in FailedEvent =>
              /\ attempts[k].no = k
              /\ attempts[k].sql # NoSql => <<attempts[k].key, attempts[k].sql>> \in approved
        BY <1>2, <3>3 DEF Tidy, Named
      <3>7. UNCHANGED <<attempts, approved>> /\ Mem(w)' = Mem(w) /\ call'[w].prev = p
        BY <2>1, <2>2, <3>1 DEF files
      <3> QED
        BY <3>1, <3>2, <3>5, <3>6, <3>7 DEF Marks
    <2>5. Working(w)'
      <3>1. ~call[w].guarded /\ Att(w).no # 0 /\ session.events[Job(w)].attempt = Att(w).no
        BY <1>1, <1>2, <2>1, OwnerHas DEF Fit, Working
      <3>2. UNCHANGED <<session, attempts, results, approved>>
        BY <2>1 DEF files
      <3>3. Att(w).sql = NoSql
        BY <1>4, <2>1
      <3> QED
        BY <1>3, <2>2, <2>4, <3>1, <3>2, <3>3 DEF Working, Owning, FailedLabel, Deciding, At
    <2>6. Copied(w)'
      BY <1>3, <2>1, <2>2 DEF Copied, files
    <2>7. Locked(w)' /\ Making(w)'
      BY <2>2 DEF Locked, Locking, Making, At
    <2> QED
      BY <1>1, <2>2, <2>3, <2>5, <2>6, <2>7, OthersFit DEF Fit
  <1>7. ASSUME NEW s \in Sql, AgentProposes(w, s) PROVE Steady /\ Ledger'
    <2>1. PICK l, a, m : /\ l = "commit" /\ m = Mem(w)
                         /\ a = [Att(w) EXCEPT !.status = "SQL_READY", !.sql = s]
      OBVIOUS
    <2>2. /\ Continue(w, l, m, a, NoResult)
          /\ UNCHANGED files /\ approved' = approved \cup {<<Job(w), s>>}
      BY <1>7, <2>1 DEF AgentProposes
    <2>3. /\ call'[w].pc = l /\ Mem(w)' = m /\ Job(w)' = Job(w) /\ Att(w)' = a
          /\ \A v \in Worker : v # w => call'[v] = call[v]
      BY <2>2, ContinueIs
    <2>4. a.no = Att(w).no /\ a.key = Att(w).key /\ a.status = "SQL_READY" /\ a.sql = s
      BY <1>2, <2>1 DEF Attempt
    <2>5. approved \subseteq approved' /\ <<Job(w), s>> \in approved'
      BY <2>2
    <2>6. Steady
      BY <1>2, <2>2, <2>5, FilesStay
    <2>7. /\ l \notin Deciding /\ l \notin {"run", "finish"} /\ m \in Session
          /\ a.sql # NoSql => <<Job(w), a.sql>> \in approved'
          /\ Entries(m, attempts, results) /\ SameBook(m, session)
      BY <1>2, <1>3, <2>1, <2>4, <2>5 DEF Deciding
    <2> QED
      BY <1>1, <2>1, <2>3, <2>4, <2>6, <2>7, Carries
  <1>8. ASSUME NEW l \in {"stop", "human_session"},
               NEW st \in {"HUMAN_REQUIRED", "VALIDATION_BLOCKED", "REFLECTION_BLOCKED"},
               NEW a, a = WithStatus(Att(w), st), NEW m \in Session, NEW r, r # NoResult,
               m.events = Mem(w).events, m.count = Mem(w).count,
               attempts' = [attempts EXCEPT ![a.no] = a], Continue(w, l, m, a, r),
               UNCHANGED <<session, results, approved>>
        PROVE  Steady /\ Ledger'
    <2>1. /\ a \in Attempt /\ a.no = Att(w).no /\ a.key = Att(w).key /\ a.sql = Att(w).sql
          /\ a.status = st /\ st # "CREATED"
      BY <1>2, <1>8 DEF WithStatus, Attempt, AttemptStatus
    <2>2. PICK n : n = a.no
      OBVIOUS
    <2>3. /\ n \in AttemptNo /\ attempts' = [attempts EXCEPT ![n] = a]
          /\ a.key = attempts[n].key /\ a.no = n /\ (a.sql # NoSql => <<a.key, a.sql>> \in approved)
      BY <1>3, <1>8, <2>1, <2>2
    <2>4. Steady
      BY <1>2, <1>8, <2>1, <2>3, AttemptSaved
    <2>5. /\ call'[w].pc = l /\ Mem(w)' = m /\ Job(w)' = Job(w) /\ Att(w)' = a /\ call'[w].ret = r
          /\ \A v \in Worker : v # w => call'[v] = call[v]
      BY <1>8, ContinueIs
    <2>6. Entries(m, attempts, results) /\ SameBook(m, session)
      BY <1>3, <1>8, BookEvents, BookChain
    <2> QED
      BY <1>1, <1>3, <1>8, <2>1, <2>4, <2>5, <2>6, Carries
  <1>9. ASSUME NEW st \in {"HUMAN_REQUIRED", "VALIDATION_BLOCKED", "REFLECTION_BLOCKED"},
               AgentStops(w, st)
        PROVE  Steady /\ Ledger'
    <2>1. PICK l, a, m, r : /\ l = "stop" /\ a = WithStatus(Att(w), st) /\ m = Mem(w)
                            /\ r = IF st = "HUMAN_REQUIRED" THEN Human ELSE Plain("NO_SQL")
      OBVIOUS
    <2>2. r # NoResult
      BY <2>1 DEF Human, NoResult, Plain
    <2>3. /\ attempts' = [attempts EXCEPT ![a.no] = a] /\ Continue(w, l, m, a, r)
          /\ UNCHANGED <<session, results, approved>>
      BY <1>9, <2>1 DEF AgentStops, history
    <2> QED
      BY <1>2, <1>8, <2>1, <2>2, <2>3
  <1>10. CASE SaveHumanAttempt(w)
    <2>1. PICK l, a, m : /\ l = "human_session" /\ a = WithStatus(Att(w), "HUMAN_REQUIRED")
                         /\ m = [Mem(w) EXCEPT !.status = "HUMAN_REQUIRED"]
      OBVIOUS
    <2>2. m \in Session /\ m.events = Mem(w).events /\ m.count = Mem(w).count
      BY <1>2, <2>1 DEF Session
    <2>3. /\ attempts' = [attempts EXCEPT ![a.no] = a] /\ Continue(w, l, m, a, Human)
          /\ UNCHANGED <<session, results, approved>> /\ Human # NoResult
      BY <1>10, <2>1 DEF SaveHumanAttempt, history, Human, NoResult, Plain
    <2> QED
      BY <1>8, <2>1, <2>2, <2>3
  <1>11. CASE StopRun(w) \/ SaveHumanSession(w)
    <2>1. PICK l \in {"human", "discard"} :
            /\ Goto(w, l) /\ session' = Mem(w) /\ UNCHANGED <<attempts, results, approved>>
            /\ call[w].pc \in {"stop", "human_session"}
      BY <1>11 DEF StopRun, SaveHumanSession, At, history
    <2>2. /\ call'[w].pc = l /\ Mem(w)' = Mem(w) /\ Job(w)' = Job(w) /\ Att(w)' = Att(w)
          /\ call'[w].ret = call[w].ret
          /\ \A v \in Worker : v # w => call'[v] = call[v]
      BY <2>1, GotoIs
    <2>3. call[w].ret # NoResult
      BY <1>2, <2>1 DEF Fit, Working, Deciding
    <2>4. PICK a, m : a = Att(w) /\ m = Mem(w)
      OBVIOUS
    <2>5. Steady
      BY <1>2, <1>3, <2>1, <2>4, SessionSaved
    <2> QED
      BY <1>1, <1>2, <1>3, <2>1, <2>2, <2>3, <2>4, <2>5, Carries
  <1> QED
    BY <1>5, <1>6, <1>7, <1>9, <1>10, <1>11, <1>12 DEF ServeRun

\* The committer saves the attempt, then the session, under the lock.
LEMMA CommitFits ==
  ASSUME Provenance, Ledger, NEW w \in Worker, ServeCommit(w)
  PROVE  Steady /\ Ledger'
  <1>1. call[w].pc \in {"commit", "commit_session", "commit_done"} /\ call[w].pc \in Owning
    BY DEF ServeCommit, CommitFails, CommitRefused, CommitAttempt, CommitSession, CommitDone, At,
           Owning, FailedLabel
  <1>2. /\ Tidy /\ Fit(w) /\ Mem(w) \in Session /\ Att(w) \in Attempt /\ session \in Session
        /\ call[w].kept \in Session /\ attempts \in [AttemptNo -> Attempt] /\ Job(w) \in FailedEvent
    BY <1>1, OwnerHas
  <1>3. /\ Entries(Mem(w), attempts, results) /\ SameBook(Mem(w), session)
        /\ Att(w).no \in AttemptNo /\ Att(w).key = Job(w)
        /\ attempts[Att(w).no].key = Job(w) /\ attempts[Att(w).no].no = Att(w).no
        /\ Att(w).sql # NoSql => <<Job(w), Att(w).sql>> \in approved
    BY <1>1, OwnerHas
  <1>4. Att(w).status = "SQL_READY"
    BY <1>1, <1>2 DEF Fit, Working
  <1>5. CASE CommitFails(w) \/ CommitRefused(w)
    <2>1. Rescue(w, Mem(w)) \/ Goto(w, "human")
      BY <1>5 DEF CommitFails, CommitRefused
    <2>2. UNCHANGED files /\ approved' = approved /\ inside \ {w} \subseteq inside'
      BY <1>5 DEF CommitFails, CommitRefused, files, history, TakeLock, ReleaseLock
    <2>3. Steady
      BY <1>2, <2>2, FilesStay
    <2>4. PICK l, a, m : l = "human" /\ a = Att(w) /\ m = Mem(w)
      OBVIOUS
    <2>5. /\ call'[w].pc = l /\ Mem(w)' = m /\ Job(w)' = Job(w) /\ Att(w)' = a
          /\ \A v \in Worker : v # w => call'[v] = call[v]
      BY <2>1, <2>4, GotoIs, RescueIs
    <2>6. l \notin Deciding
      BY <2>4 DEF Deciding
    <2> QED
      BY <1>1, <1>2, <1>3, <2>2, <2>3, <2>4, <2>5, <2>6, Carries
  <1>6. \A n \in AttemptNo : n = Att(w).no /\ attempts' = [attempts EXCEPT ![n] = Att(w)]
          /\ UNCHANGED <<session, results, approved>> => Steady
    <2> SUFFICES ASSUME NEW n \in AttemptNo, n = Att(w).no, NEW a, a = Att(w),
                        attempts' = [attempts EXCEPT ![n] = a], UNCHANGED <<session, results, approved>>
                 PROVE  Steady
      OBVIOUS
    <2>1. /\ a \in Attempt /\ a.key = attempts[n].key /\ a.no = n /\ a.status # "CREATED"
          /\ a.sql # NoSql => <<a.key, a.sql>> \in approved
      BY <1>2, <1>3, <1>4
    <2> QED
      BY <1>2, <2>1, AttemptSaved
  <1>7. CASE CommitAttempt(w)
    <2>1. PICK l, a, m, k, n, r :
            /\ l = "commit_session" /\ a = Att(w) /\ k = Mem(w) /\ n = a.no /\ r = SqlReady(a.sql)
            /\ m = [session EXCEPT !.sql = a.sql, !.sqlAttempt = n, !.status = "SQL_READY_PENDING_UPSTREAM"]
      OBVIOUS
    <2>2. /\ attempts' = [attempts EXCEPT ![n] = a] /\ Continue(w, l, m, a, r)
          /\ UNCHANGED <<session, results, approved>> /\ inside' = inside \cup {w}
      BY <1>7, <2>1 DEF CommitAttempt, history, TakeLock
    <2>3. Steady
      BY <1>3, <1>6, <2>1, <2>2
    <2>4. /\ call'[w].pc = l /\ Mem(w)' = m /\ Job(w)' = Job(w) /\ Att(w)' = a /\ call'[w].ret = r
          /\ call'[w].kept = k
          /\ \A v \in Worker : v # w => call'[v] = call[v]
      BY <2>1, <2>2, ContinueIs DEF Kept, Mem
    <2>5. n \in 0 .. MaxAttempts /\ a.sql \in Sql \cup {NoSql}
      BY <1>2, <2>1 DEF Attempt
    <2>6. m \in Session /\ m.events = session.events /\ m.count = session.count
      BY <1>2, <2>1, <2>5 DEF Session
    <2>7. SameBook(m, session) /\ Entries(m, attempts, results)
      BY <1>2, <2>6, BookEvents DEF Tidy
    <2>8. r # NoResult
      BY <2>1 DEF SqlReady, NoResult, Plain
    <2>9. /\ l \in Owning /\ l \notin {"begin", "input", "previous", "run", "finish"}
          /\ k \in Session /\ Entries(k, attempts, results) /\ SameBook(k, session)
          /\ a.sql # NoSql => <<Job(w), a.sql>> \in approved'
      BY <1>2, <1>3, <2>1, <2>2 DEF Owning, FailedLabel
    <2>10. call'[w].guarded => call[w].guarded \/ l = "run"
      BY <2>2, ContinueIs
    <2> QED
      BY <1>1, <1>4, <2>1, <2>2, <2>3, <2>4, <2>6, <2>7, <2>8, <2>9, <2>10, Proceeds
  <1>8. CASE CommitSession(w)
    <2>1. PICK l, a, m, k : l = "commit_done" /\ a = Att(w) /\ m = Mem(w) /\ k = call[w].kept
      OBVIOUS
    <2>2. /\ call[w].pc = "commit_session" /\ session' = m /\ Goto(w, l)
          /\ UNCHANGED <<attempts, results, approved, inside>>
      BY <1>8, <2>1 DEF CommitSession, At, history, mutex
    <2>3. /\ call'[w].pc = l /\ Mem(w)' = m /\ Job(w)' = Job(w) /\ Att(w)' = a
          /\ call'[w].ret = call[w].ret /\ call'[w].kept = k
          /\ \A v \in Worker : v # w => call'[v] = call[v]
      BY <2>1, <2>2, GotoIs DEF Kept
    <2>4. /\ call[w].ret # NoResult /\ w \in inside
          /\ Entries(k, attempts, results) /\ SameBook(k, session)
      BY <1>2, <2>1, <2>2 DEF Fit, Working, Copied, Locked, Locking, Deciding
    <2>5. Steady
      BY <1>2, <1>3, <2>1, <2>2, SessionSaved
    <2>6. /\ l \in Owning /\ l \notin {"begin", "input", "previous", "run", "finish"}
          /\ m \in Session /\ Entries(m, attempts, results) /\ SameBook(m, session) /\ k \in Session
          /\ a.sql # NoSql => <<Job(w), a.sql>> \in approved'
      BY <1>2, <1>3, <2>1, <2>2 DEF Owning, FailedLabel
    <2>7. call'[w].guarded => call[w].guarded \/ l = "run"
      BY <2>2, GotoIs
    <2> QED
      BY <1>1, <1>4, <2>1, <2>2, <2>3, <2>4, <2>5, <2>6, <2>7, Proceeds
  <1>9. CASE CommitDone(w)
    <2>1. PICK l, a, m, n : l = "discard" /\ a = Att(w) /\ m = Mem(w) /\ n = a.no
      OBVIOUS
    <2>2. /\ call[w].pc = "commit_done" /\ attempts' = [attempts EXCEPT ![n] = a] /\ Goto(w, l)
          /\ UNCHANGED <<session, results, approved>> /\ inside \ {w} \subseteq inside'
      BY <1>9, <2>1 DEF CommitDone, At, history, ReleaseLock
    <2>3. /\ call'[w].pc = l /\ Mem(w)' = m /\ Job(w)' = Job(w) /\ Att(w)' = a
          /\ call'[w].ret = call[w].ret
          /\ \A v \in Worker : v # w => call'[v] = call[v]
      BY <2>1, <2>2, GotoIs
    <2>4. call[w].ret # NoResult
      BY <1>2, <2>2 DEF Fit, Working, Deciding
    <2>5. Steady
      BY <1>3, <1>6, <2>1, <2>2
    <2>6. /\ m \in Session /\ Entries(m, attempts, results) /\ SameBook(m, session)
          /\ a.sql # NoSql => <<Job(w), a.sql>> \in approved'
      BY <1>2, <1>3, <2>1, <2>2
    <2> QED
      BY <1>1, <1>4, <2>1, <2>2, <2>3, <2>4, <2>5, <2>6, Carries
  <1> QED
    BY <1>5, <1>7, <1>8, <1>9 DEF ServeCommit

\* The finish of an event, in the copy of the call that has its result.
LEMMA FinishedCopy ==
  ASSUME Provenance, Ledger, NEW w \in Worker, At(w, "finish"),
         NEW q, q = FinishEvent(Mem(w), Job(w), "SUCCEEDED", Att(w).no, "NONE")
  PROVE  q \in Session /\ SameBook(q, session) /\ Entries(q, attempts, results)
  <1>1. call[w].pc = "finish" /\ call[w].pc \in Owning
    BY DEF At, Owning, FailedLabel
  <1>2. /\ Fit(w) /\ Mem(w) \in Session /\ Job(w) \in FailedEvent /\ Job(w) \in Event
        /\ Entries(Mem(w), attempts, results) /\ SameBook(Mem(w), session)
        /\ Mem(w).events[Job(w)].attempt = Att(w).no /\ Recorded(Mem(w), Job(w))
        /\ Att(w) \in Attempt
    BY <1>1, OwnerHas
  <1>3. results[Att(w).no] # NoResult
    BY <1>1, <1>2 DEF Fit, Working, At
  <1>4. PICK m, j, n : m = Mem(w) /\ j = Job(w) /\ n = Att(w).no
    OBVIOUS
  <1>5. n \in 0 .. MaxAttempts /\ n = m.events[j].attempt /\ results[n] # NoResult
    BY <1>2, <1>3, <1>4 DEF Attempt
  <1>6. FinishedAs(q, m, j, "SUCCEEDED", n)
    BY <1>2, <1>4, <1>5, FinishIs
  <1>7. SameBook(q, m) /\ Entries(q, attempts, results)
    BY <1>2, <1>4, <1>5, <1>6, BookFinish
  <1> QED
    BY <1>2, <1>4, <1>6, <1>7, BookChain DEF FinishedAs

\* `_persist_external_result`: discard, store, finish.
LEMMA ResultFits ==
  ASSUME Provenance, Ledger, NEW w \in Worker, ServeResult(w)
  PROVE  Steady /\ Ledger'
  <1>1. call[w].pc \in {"discard", "persist", "finish"} /\ call[w].pc \in Owning
    BY DEF ServeResult, DiscardActive, WriteResult, FinishFailed, At, Owning, FailedLabel
  <1>2. /\ Tidy /\ Fit(w) /\ Mem(w) \in Session /\ Att(w) \in Attempt /\ session \in Session
        /\ Job(w) \in FailedEvent
    BY <1>1, OwnerHas
  <1>3. /\ Entries(Mem(w), attempts, results) /\ SameBook(Mem(w), session)
        /\ Att(w).no \in AttemptNo /\ Att(w).key = Job(w) /\ Recorded(Mem(w), Job(w))
        /\ Att(w).sql # NoSql => <<Job(w), Att(w).sql>> \in approved
    BY <1>1, OwnerHas
  <1>4. call[w].pc \in {"discard", "persist"} => call[w].ret # NoResult
    BY <1>2 DEF Fit, Working, Deciding
  <1>5. CASE DiscardActive(w)
    <2>1. PICK l, a, m : l = "persist" /\ a = Att(w) /\ m = Mem(w)
      OBVIOUS
    <2>2. /\ call[w].pc = "discard" /\ Goto(w, l) /\ UNCHANGED files /\ UNCHANGED <<approved, inside>>
      BY <1>5, <2>1 DEF DiscardActive, At, history, mutex
    <2>3. /\ call'[w].pc = l /\ Mem(w)' = m /\ Job(w)' = Job(w) /\ Att(w)' = a
          /\ call'[w].ret = call[w].ret
          /\ \A v \in Worker : v # w => call'[v] = call[v]
      BY <2>1, <2>2, GotoIs
    <2>4. Steady
      BY <1>2, <2>2, FilesStay
    <2>5. /\ m \in Session /\ Entries(m, attempts, results) /\ SameBook(m, session)
          /\ a.sql # NoSql => <<Job(w), a.sql>> \in approved'
      BY <1>2, <1>3, <2>1, <2>2
    <2> QED
      BY <1>1, <1>4, <2>1, <2>2, <2>3, <2>4, <2>5, Carries
  <1>6. CASE WriteResult(w)
    <2>1. PICK l, a, m, n, r : /\ l = "finish" /\ a = Att(w) /\ m = Mem(w) /\ n = a.no
                               /\ r = Sanitized(call[w].ret)
      OBVIOUS
    <2>2. /\ call[w].pc = "persist" /\ Goto(w, l) /\ results' = [results EXCEPT ![n] = r]
          /\ UNCHANGED <<session, attempts, approved, inside>>
      BY <1>6, <2>1 DEF WriteResult, At, history, mutex
    <2>3. /\ call'[w].pc = l /\ Mem(w)' = m /\ Job(w)' = Job(w) /\ Att(w)' = a
          /\ \A v \in Worker : v # w => call'[v] = call[v]
      BY <2>1, <2>2, GotoIs
    <2>4. r # NoResult /\ results \in [AttemptNo -> Result] /\ n \in AttemptNo
      BY <1>3, <1>4, <2>1, <2>2, Parts, SanitizedIs
    <2>5. results'[n] = r /\ \A k \in AttemptNo : results[k] # NoResult => results'[k] # NoResult
      BY <2>2, <2>4
    <2>6. Entries(session', attempts', results')
      <3>1. PICK A, R, R2, s : A = attempts /\ R = results /\ R2 = results' /\ s = session
        OBVIOUS
      <3>2. s \in Session /\ Entries(s, A, R) /\ \A k \in AttemptNo : R[k] # NoResult => R2[k] # NoResult
        BY <1>2, <2>5, <3>1 DEF Tidy
      <3>3. Entries(s, A, R2)
        BY <3>2, EntriesStay
      <3> QED
        BY <2>2, <3>1, <3>3
    <2>7. Tidy'
      BY <1>2, <2>2, <2>6 DEF Tidy, Named
    <2>8. Steady
      BY <2>2, <2>5, <2>7 DEF Steady, SameBook
    <2>9. /\ m \in Session /\ Entries(m, attempts, results) /\ SameBook(m, session)
          /\ a.sql # NoSql => <<Job(w), a.sql>> \in approved'
          /\ l \notin Deciding
      BY <1>2, <1>3, <2>1, <2>2 DEF Deciding
    <2> QED
      BY <1>1, <2>1, <2>2, <2>3, <2>4, <2>5, <2>8, <2>9, Carries
  <1>7. CASE FinishFailed(w)
    <2>1. PICK q : q = FinishEvent(Mem(w), Job(w), "SUCCEEDED", Att(w).no, "NONE")
      OBVIOUS
    <2>2. /\ At(w, "finish") /\ UNCHANGED <<attempts, results, approved>> /\ Answer(w, call[w].ret)
          /\ session' = q
      BY <1>3, <1>7, <2>1 DEF FinishFailed, history
    <2>3. SameBook(q, session) /\ Entries(q, attempts, results)
      BY <2>1, <2>2, FinishedCopy
    <2>4. Steady
      BY <1>2, <2>2, <2>3, SessionSaved
    <2> QED
      BY <2>2, <2>4, Leaves
  <1> QED
    BY <1>5, <1>6, <1>7 DEF ServeResult

\* A call for a SUCCESS event goes on under the lock, or lets go of its copy.
LEMMA Confirms ==
  ASSUME Provenance, Ledger, Steady, NEW w \in Worker, ~call[w].guarded,
         NEW l \in {"match", "confirm"}, NEW m \in Session,
         call'[w].pc = l, Mem(w)' = m,
         call'[w].guarded => call[w].guarded \/ l = "run",
         \A v \in Worker : v # w => call'[v] = call[v],
         Entries(m, attempts', results'), SameBook(m, session'),
         w \in inside', inside \ {w} \subseteq inside'
  PROVE  Ledger'
  <1>1. Copied(w)'
    BY DEF Copied
  <1>2. Locked(w)' /\ Making(w)'
    BY DEF Locked, Making, At
  <1>3. ~call'[w].guarded
    OBVIOUS
  <1>4. Working(w)'
    BY <1>3 DEF Working, Owning, FailedLabel, Deciding, At
  <1> QED
    BY <1>1, <1>2, <1>4, OthersFit DEF Fit

\* A SUCCESS event, the memory write and its compensation included.
LEMMA SuccessFits ==
  ASSUME Provenance, Ledger, NEW w \in Worker, ServeSuccess(w)
  PROVE  Steady /\ Ledger'
  <1>1. Tidy /\ Fit(w) /\ session \in Session /\ Mem(w) \in Session /\ attempts \in [AttemptNo -> Attempt]
    BY Parts DEF Ledger
  <1>2. ~call[w].guarded
    <2>1. call[w].pc \in SuccessLabel \cup {"find"}
      BY DEF ServeSuccess, AckDuplicate, RecordSuccess, AckUnmatched, ConfirmAttempt,
             ConfirmSession,
             WriteMemory, MemoryDegraded, ReloadForFinish, ReloadForDegrade, LockAndLoad,
             FinishSuccess,
             FinishDegraded, DegradeTimeout, FindSuccess, At, SuccessLabel
    <2> QED
      BY <1>1, <2>1 DEF Fit, Working, Owning, FailedLabel, SuccessLabel
  <1>3. ASSUME call[w].pc \in {"find", "match", "confirm", "finish_success", "degrade"}
        PROVE  Entries(Mem(w), attempts, results) /\ SameBook(Mem(w), session) /\ w \in inside
    BY <1>1, <1>3 DEF Fit, Copied, Locked, Locking, Reloads
  <1>4. CASE AckDuplicate(w) \/ DegradeTimeout(w)
    <2>1. PICK r : UNCHANGED files /\ approved' = approved /\ Answer(w, r)
      BY <1>4 DEF AckDuplicate, DegradeTimeout, history, files
    <2> QED
      BY <1>1, <2>1, FilesStay, Leaves
  <1>5. CASE RecordSuccess(w)
    <2>1. /\ call[w].pc = "find" /\ Job(w) \in SuccessEvent /\ Job(w) \notin FailedEvent /\ Job(w) \in Event
          /\ UNCHANGED <<attempts, results, approved, inside>>
      BY <1>5, ServiceAssumption DEF RecordSuccess, FindSuccess, At, history, Event, mutex
    <2>2. PICK j, m, q : j = Job(w) /\ m = Mem(w) /\ q = PutRecord(m, j, Received)
      OBVIOUS
    <2>3. Received \in Record
      BY ServiceAssumption DEF Received, NoRecord, Record
    <2>4. /\ q \in Session /\ q.count = m.count
          /\ \A x \in Event \ {j} : q.events[x] = m.events[x]
      BY <1>1, <2>1, <2>2, <2>3, PutIs
    <2>5. \A x \in FailedEvent : q.events[x] = m.events[x]
      BY <2>1, <2>2, <2>4 DEF Event
    <2>6. SameBook(q, m)
      BY <2>4, <2>5 DEF SameBook, Recorded, RecordOf
    <2>7. Entries(m, attempts, results) /\ SameBook(m, session)
      BY <1>3, <2>1, <2>2
    <2>8. Entries(q, attempts, results)
      BY <2>4, <2>5, <2>7 DEF Entries, Entry, Recorded, RecordOf
    <2>9. SameBook(q, session)
      BY <2>6, <2>7, BookChain
    <2>10. PICK p : /\ Continue(w, "match", p, NoAttempt, NoResult)
                    /\ \/ session' = q /\ p = q
                       \/ session' = session /\ p = m
      BY <1>5, <2>2 DEF RecordSuccess
    <2>11. Steady
      <3>1. CASE session' = q
        BY <1>1, <2>1, <2>8, <2>9, <3>1, SessionSaved
      <3>2. CASE session' = session
        BY <1>1, <2>1, <3>2, FilesStay DEF files
      <3> QED
        BY <2>10, <3>1, <3>2
    <2>12. Entries(p, attempts', results') /\ SameBook(p, session') /\ p \in Session
      <3>1. SameBook(q, q)
        BY DEF SameBook
      <3> QED
        BY <1>1, <2>1, <2>2, <2>4, <2>7, <2>8, <2>10, <3>1
    <2>13. /\ call'[w].pc = "match" /\ Mem(w)' = p
           /\ call'[w].guarded => call[w].guarded \/ "match" = "run"
           /\ \A v \in Worker : v # w => call'[v] = call[v]
      BY <2>10, ContinueIs
    <2>14. w \in inside' /\ inside \ {w} \subseteq inside'
      BY <1>3, <2>1
    <2> QED
      BY <1>2, <2>11, <2>12, <2>13, <2>14, Confirms
  <1>6. CASE ConfirmAttempt(w)
    <2>1. PICK k, m : /\ k = Mem(w).sqlAttempt
                      /\ m = [Mem(w) EXCEPT !.status = "UPSTREAM_CONFIRMED_SUCCESS",
                                     !.confirmed = k, !.confirmedSql = Mem(w).sql]
      OBVIOUS
    <2>2. /\ call[w].pc = "match" /\ k # 0
          /\ attempts' = [attempts EXCEPT ![k] = WithStatus(attempts[k], "UPSTREAM_CONFIRMED_SUCCESS")]
          /\ UNCHANGED <<session, results, approved, inside>>
          /\ \E a : Continue(w, "confirm", m, a, NoResult)
      BY <1>6, <2>1 DEF ConfirmAttempt, Matches, At, history, mutex
    <2>3. k \in 0 .. MaxAttempts
      BY <1>1, <2>1 DEF Session
    <2>4. k \in AttemptNo
      BY <2>2, <2>3, ServiceAssumption DEF AttemptNo
    <2>5. "UPSTREAM_CONFIRMED_SUCCESS" \in Settled
      BY DEF Settled
    <2>6. Steady
      BY <1>1, <2>2, <2>4, <2>5, StatusSaved
    <2>7. m \in Session /\ m.events = Mem(w).events /\ m.count = Mem(w).count
      BY <1>1, <2>1, <2>3 DEF Session
    <2>8. Entries(m, attempts, results) /\ SameBook(m, session)
      BY <1>3, <2>2, <2>7, BookEvents, BookChain
    <2>9. Entries(m, attempts', results') /\ SameBook(m, session')
      BY <2>6, <2>7, <2>8, SteadyCopies
    <2>10. PICK a : Continue(w, "confirm", m, a, NoResult)
      BY <2>2
    <2>11. /\ call'[w].pc = "confirm" /\ Mem(w)' = m
           /\ call'[w].guarded => call[w].guarded \/ "confirm" = "run"
           /\ \A v \in Worker : v # w => call'[v] = call[v]
      BY <2>10, ContinueIs
    <2>12. w \in inside' /\ inside \ {w} \subseteq inside'
      BY <1>3, <2>2
    <2> QED
      BY <1>2, <2>6, <2>7, <2>9, <2>11, <2>12, Confirms
  <1>7. ASSUME NEW l \in Reloads, Goto(w, l), Steady, inside \ {w} \subseteq inside'
        PROVE  Steady /\ Ledger'
    <2>1. /\ call'[w].pc = l /\ (call'[w].guarded => call[w].guarded \/ l = "run")
          /\ \A v \in Worker : v # w => call'[v] = call[v]
      BY <1>7, GotoIs
    <2>2. ~call'[w].guarded
      BY <1>2, <1>7, <2>1 DEF Reloads
    <2> QED
      BY <1>7, <2>1, <2>2, Quits, OthersFit
  <1>8. CASE ConfirmSession(w)
    <2>1. /\ call[w].pc = "confirm" /\ session' = Mem(w) /\ UNCHANGED <<attempts, results, approved>>
          /\ Goto(w, "memory") /\ ReleaseLock(w)
      BY <1>8 DEF ConfirmSession, At, history
    <2>2. Steady
      BY <1>1, <1>3, <2>1, SessionSaved
    <2> QED
      BY <1>7, <2>1, <2>2 DEF Reloads, ReleaseLock
  <1>9. CASE WriteMemory(w) \/ MemoryDegraded(w)
    <2>1. /\ UNCHANGED files /\ approved' = approved
          /\ Goto(w, "finish_lock") \/ Goto(w, "degrade_lock")
      BY <1>9 DEF WriteMemory, MemoryDegraded, history, files
    <2>2. Steady
      BY <1>1, <2>1, FilesStay
    <2>3. inside \ {w} \subseteq inside'
      BY <1>9 DEF WriteMemory, MemoryDegraded, ReleaseLock, mutex
    <2> QED
      BY <1>7, <2>1, <2>2, <2>3 DEF Reloads
  <1>10. ASSUME NEW c \in {"NONE", "UNMATCHED", "DEGRADED"}, NEW q,
                call[w].pc \in {"match", "finish_success", "degrade"},
                q = FinishEvent(Mem(w), Job(w), "SUCCEEDED", 0, c),
                session' \in {q, session}, UNCHANGED <<attempts, results, approved>>, Answer(w, Ack)
         PROVE  Steady /\ Ledger'
    <2>1. PICK j, m : j = Job(w) /\ m = Mem(w)
      OBVIOUS
    <2>2. 0 \in 0 .. MaxAttempts /\ j \in Event /\ j \notin FailedEvent /\ m \in Session
      BY <1>1, <1>10, <2>1, Parts, ServiceAssumption DEF SuccessLabel, Event
    <2>3. FinishedAs(q, m, j, "SUCCEEDED", 0)
      BY <1>10, <2>1, <2>2, FinishIs
    <2>4. Entries(m, attempts, results) /\ SameBook(m, session)
      BY <1>3, <1>10, <2>1
    <2>5. SameBook(q, m) /\ Entries(q, attempts, results)
      BY <2>2, <2>3, <2>4, BookFinish
    <2>6. SameBook(q, session)
      BY <2>4, <2>5, BookChain
    <2>7. Steady
      <3>1. CASE session' = q
        BY <1>1, <1>10, <2>5, <2>6, <3>1, SessionSaved
      <3>2. CASE session' = session
        BY <1>1, <1>10, <3>2, FilesStay DEF files
      <3> QED
        BY <1>10, <3>1, <3>2
    <2> QED
      BY <1>10, <2>7, Leaves
  <1>11. CASE AckUnmatched(w)
    <2>1. PICK q : q = FinishEvent(Mem(w), Job(w), "SUCCEEDED", 0, "UNMATCHED")
      OBVIOUS
    <2> QED
      BY <1>10, <1>11, <2>1 DEF AckUnmatched, At, history
  <1>12. CASE FinishSuccess(w) \/ FinishDegraded(w)
    <2>1. PICK c \in {"NONE", "DEGRADED"} : SaveFinished(w, c) /\ call[w].pc \in {"finish_success", "degrade"}
      BY <1>12 DEF FinishSuccess, FinishDegraded, At
    <2>2. PICK q : q = FinishEvent(Mem(w), Job(w), "SUCCEEDED", 0, c)
      OBVIOUS
    <2> QED
      BY <1>10, <2>1, <2>2 DEF SaveFinished, history
  <1> QED
    BY <1>4, <1>5, <1>6, <1>8, <1>9, <1>11, <1>12, EnterFits DEF ServeSuccess

\* A file operation fails.
LEMMA ErrorFits ==
  ASSUME Provenance, Ledger, NEW w \in Worker, ErrorIsCaught(w) \/ ErrorIsRaised(w) \/ SuccessError(w)
  PROVE  Steady /\ Ledger'
  <1>1. UNCHANGED files /\ approved' = approved /\ Tidy /\ Fit(w)
    BY DEF Ledger, ErrorIsCaught, ErrorIsRaised, SuccessError, FileError
  <1>2. Steady
    BY <1>1, FilesStay
  <1>3. CASE ErrorIsCaught(w)
    <2>1. call[w].guarded /\ Rescue(w, HandlersCopy(w)) /\ ReleaseLock(w)
      BY <1>3 DEF ErrorIsCaught
    <2>2. call[w].pc \in Owning
      BY <1>1, <2>1 DEF Fit, Working
    <2>3. PICK l, a, m : l = "human" /\ a = Att(w) /\ m = HandlersCopy(w)
      OBVIOUS
    <2>4. /\ Mem(w) \in Session /\ call[w].kept \in Session /\ Att(w).key = Job(w)
          /\ Entries(Mem(w), attempts, results) /\ SameBook(Mem(w), session) /\ Recorded(Mem(w), Job(w))
          /\ Att(w).sql # NoSql => <<Job(w), Att(w).sql>> \in approved
      BY <2>2, OwnerHas
    <2>5. m \in Session /\ Entries(m, attempts, results) /\ SameBook(m, session)
      <3>1. CASE call[w].pc \in {"commit_session", "commit_done"}
        <4>1. m = call[w].kept
          BY <2>3, <3>1 DEF HandlersCopy, At
        <4> QED
          BY <1>1, <2>4, <3>1, <4>1 DEF Fit, Copied
      <3>2. CASE call[w].pc = "finish"
        <4>1. At(w, "finish") /\ m = FinishEvent(Mem(w), Job(w), "SUCCEEDED", Att(w).no, "NONE")
          BY <2>3, <2>4, <3>2 DEF HandlersCopy, At
        <4> QED
          BY <4>1, FinishedCopy
      <3>3. CASE call[w].pc \notin {"commit_session", "commit_done", "finish"}
        <4>1. m = Mem(w)
          BY <2>3, <3>3 DEF HandlersCopy, At
        <4> QED
          BY <2>4, <4>1
      <3> QED
        BY <3>1, <3>2, <3>3
    <2>6. /\ call'[w].pc = l /\ Mem(w)' = m /\ Job(w)' = Job(w) /\ Att(w)' = a
          /\ \A v \in Worker : v # w => call'[v] = call[v]
      BY <2>1, <2>3, RescueIs
    <2>7. l \notin Deciding /\ inside \ {w} \subseteq inside'
      BY <2>1, <2>3 DEF Deciding, ReleaseLock
    <2>8. a.sql # NoSql => <<Job(w), a.sql>> \in approved'
      BY <1>1, <2>3, <2>4
    <2> QED
      BY <1>2, <2>2, <2>3, <2>5, <2>6, <2>7, <2>8, Carries
  <1>4. CASE ErrorIsRaised(w)
    BY <1>2, <1>4, Leaves DEF ErrorIsRaised
  <1>5. CASE SuccessError(w)
    <2>1. CASE Goto(w, "degrade_lock") /\ ReleaseLock(w)
      <3>1. /\ call'[w].pc = "degrade_lock" /\ (call'[w].guarded => call[w].guarded)
            /\ \A v \in Worker : v # w => call'[v] = call[v]
        BY <2>1, GotoIs
      <3>2. ~call[w].guarded
        BY <1>5, Parts, ServiceAssumption DEF SuccessError
      <3> QED
        BY <1>2, <2>1, <3>1, <3>2, Quits, OthersFit DEF Reloads, ReleaseLock
    <2> QED
      BY <1>2, <1>5, <2>1, Leaves DEF SuccessError
  <1> QED
    BY <1>3, <1>4, <1>5

\* Steps outside the handlers.
LEMMA OuterFits ==
  ASSUME Provenance, Ledger,
         \/ \E w \in Worker, e \in Event : Submit(w, e)
         \/ \E p \in Process : Crash(p)
         \/ \E w \in Worker : FindStale(w) \/ RemoveStale(w)
         \/ UNCHANGED vars
  PROVE  Steady /\ Ledger'
  <1>1. UNCHANGED files /\ approved' = approved /\ Tidy
    BY DEF Ledger, Submit, Crash, FindStale, RemoveStale, vars, files, history
  <1>2. Steady
    BY <1>1, FilesStay
  <1>3. ASSUME NEW w \in Worker, NEW e \in Event, Submit(w, e) PROVE Steady /\ Ledger'
    <2>1. PICK c : c = [IdleCall EXCEPT !.pc = "lock", !.job = e]
      OBVIOUS
    <2>2. c.pc = "lock" /\ ~c.guarded
      BY <2>1 DEF IdleCall
    <2>3. call' = [call EXCEPT ![w] = c] /\ inside' = inside
      BY <1>3, <2>1 DEF Submit, mutex
    <2>4. call'[w] = c /\ \A v \in Worker : v # w => call'[v] = call[v]
      BY <2>3 DEF Provenance, Calls
    <2> QED
      BY <1>2, <2>2, <2>3, <2>4, Quits, OthersFit DEF Reloads
  <1>4. ASSUME NEW w \in Worker, call'[w] = call[w], w \in inside => w \in inside'
        PROVE  Fit(w)'
    <2>1. Fit(w) /\ UNCHANGED <<session, attempts, results, approved>>
      BY <1>1 DEF files, Ledger
    <2>2. Locked(w)' /\ Copied(w)'
      BY <1>4, <2>1 DEF Fit, Locked, Copied, Mem
    <2>3. Working(w)' /\ Making(w)'
      BY <1>4, <2>1 DEF Fit, Working, Making, Marks, Mem, Att, Job, At, Recorded, RecordOf
    <2> QED
      BY <2>2, <2>3 DEF Fit
  <1>5. Tidy'
    BY <1>2 DEF Steady
  <1>6. ASSUME NEW p \in Process, Crash(p) PROVE Steady /\ Ledger'
    <2>1. ASSUME NEW w \in Worker PROVE Fit(w)'
      <3>1. CASE ProcessOf[w] = p
        <4>1. call'[w] = IdleCall
          BY <1>6, <3>1 DEF Crash
        <4> QED
          BY <4>1, Quits DEF IdleCall, Reloads
      <3>2. CASE ProcessOf[w] # p
        <4>1. call'[w] = call[w] /\ (w \in inside => w \in inside')
          BY <1>6, <3>2 DEF Crash
        <4>2. call[w].pc \in Locking => w \in inside
          BY DEF Ledger, Fit, Locked
        <4> QED
          BY <1>4, <4>1, <4>2
      <3> QED
        BY <3>1, <3>2
    <2> QED
      BY <1>2, <1>5, <2>1 DEF Ledger
  <1>7. CASE \E w \in Worker : FindStale(w) \/ RemoveStale(w)
    <2>1. call' = call /\ inside' = inside
      BY <1>7 DEF FindStale, RemoveStale
    <2> QED
      BY <1>2, <1>4, <1>5, <2>1 DEF Ledger
  <1>8. CASE UNCHANGED vars
    BY <1>2, <1>4, <1>5, <1>8 DEF vars, mutex, Ledger
  <1> QED
    BY <1>3, <1>6, <1>7, <1>8

\* A task without files fits.
LEMMA LedgerInit == Init => Ledger
  <1> SUFFICES ASSUME Init PROVE Ledger
    OBVIOUS
  <1>1. Tidy
    BY ServiceAssumption DEF Init, Tidy, Named, Entries, Entry, NewSession, NoRecord, NoAttempt,
           Event, Recorded, RecordOf
  <1>2. ASSUME NEW w \in Worker PROVE Fit(w)
    <2>1. call[w].pc = "idle" /\ ~call[w].guarded
      BY DEF Init, IdleCall
    <2> QED
      BY <2>1 DEF Fit, Locked, Copied, Working, Making, Locking, Reloads, Owning, FailedLabel,
             Deciding, At
  <1> QED
    BY <1>1, <1>2 DEF Ledger

\* Every step keeps the ledger, and keeps the files steady but for those of
\* the call that records a new failure and makes its attempt.
LEMMA LedgerStep ==
  ASSUME Provenance, SeparateFailures, Exclusive, Ledger, [Next]_vars
  PROVE  /\ Ledger'
         /\ Steady \/ \E w \in Worker : RecordFailed(w) \/ CreateAttempt(w) \/ LinkAttempt(w)
  <1>1. ASSUME NEW w \in Worker, ServeNew(w)
        PROVE  /\ Ledger'
               /\ Steady \/ \E v \in Worker : RecordFailed(v) \/ CreateAttempt(v) \/ LinkAttempt(v)
    BY <1>1, RecordFits, CreateFits, LinkFits, BeginFits DEF ServeNew
  <1>2. ASSUME NEW w \in Worker, Serve(w), ~ServeNew(w) PROVE Steady /\ Ledger'
    BY <1>2, EnterFits, DuplicateFits, RunFits, CommitFits, ResultFits, SuccessFits, OuterFits
       DEF Serve
  <1>3. ASSUME NEW w \in Worker, ErrorIsCaught(w) \/ ErrorIsRaised(w) \/ SuccessError(w)
        PROVE  Steady /\ Ledger'
    BY <1>3, ErrorFits
  <1>4. ASSUME \/ \E w \in Worker, e \in Event : Submit(w, e)
               \/ \E p \in Process : Crash(p)
               \/ \E w \in Worker : FindStale(w) \/ RemoveStale(w)
               \/ UNCHANGED vars
        PROVE  Steady /\ Ledger'
    BY <1>4, OuterFits
  <1> QED
    BY <1>1, <1>2, <1>3, <1>4 DEF Next, Quiet

\* The attempts and their events stay in order while calls overlap, as long as
\* two failures are not handled at once and the lock excludes.
THEOREM LedgerStays == Spec /\ []SeparateFailures /\ []Exclusive => []Ledger
  <1>1. Provenance /\ SeparateFailures /\ Exclusive /\ Ledger /\ [Next]_vars => Ledger'
    BY LedgerStep
  <1> QED
    BY <1>1, LedgerInit, ProvenanceInvariant, PTL DEF Spec

-----------------------------------------------------------------------------
(* What the ledger promises *)

\* An event gets one attempt, whichever of its duplicates, retries and
\* recoveries run at the same time, in whatever processes, as long as the lock
\* excludes.
THEOREM OneAttemptPerEvent == Spec /\ []SeparateFailures /\ []Exclusive => NoSecondAttempt
  <1>1. ASSUME Provenance, SeparateFailures, Exclusive, Ledger, Next, NEW n \in AttemptNo,
               attempts'[n] # attempts[n], attempts'[n].status = "CREATED"
        PROVE  \A m \in AttemptNo : attempts[m].key # attempts'[n].key
    <2>1. ~Steady
      BY <1>1 DEF Steady
    <2>2. PICK w \in Worker : RecordFailed(w) \/ CreateAttempt(w) \/ LinkAttempt(w)
      BY <1>1, <2>1, LedgerStep
    <2>3. CreateAttempt(w)
      BY <1>1, <2>2 DEF RecordFailed, LinkAttempt
    <2>4. attempts' = [attempts EXCEPT ![Mem(w).count + 1] =
                         [no |-> Mem(w).count + 1, status |-> "CREATED", key |-> Job(w), sql |-> NoSql]]
          /\ At(w, "create")
      BY <2>3 DEF CreateAttempt
    <2>5. attempts'[n].key = Job(w)
      BY <1>1, <2>4 DEF Provenance, Disk
    <2> QED
      BY <1>1, <2>4, <2>5 DEF Ledger, Fit, Making
  <1>2. Provenance /\ SeparateFailures /\ Exclusive /\ Ledger /\ [Next]_vars =>
          [\A n \in AttemptNo :
             attempts'[n] # attempts[n] /\ attempts'[n].status = "CREATED"
               => \A m \in AttemptNo : attempts[m].key # attempts'[n].key]_vars
    BY <1>1
  <1> QED
    BY <1>2, LedgerStays, ProvenanceInvariant, PTL DEF Spec, NoSecondAttempt

\* A finished event points to a stored result of its own attempt, although
\* whole-session saves of other calls overwrite its record meanwhile, as long as
\* the lock excludes.
THEOREM FinishedWithOwnResult == Spec /\ []SeparateFailures /\ []Exclusive => []ResultBelongs
  <1>1. ASSUME Ledger PROVE ResultBelongs
    <2>1. ASSUME NEW e \in FailedEvent, session.events[e].ref # 0
          PROVE  attempts[session.events[e].ref].key = e /\ results[session.events[e].ref] # NoResult
      <3>1. Entry(session, e, attempts, results)
        BY <1>1 DEF Ledger, Tidy, Entries
      <3> QED
        BY <2>1, <3>1 DEF Entry
    <2> QED
      BY <2>1 DEF ResultBelongs
  <1> QED
    BY <1>1, LedgerStays, PTL

-----------------------------------------------------------------------------
(* Whose SQL is answered: the inductive invariant Licensed *)

\* A result that may be given to callers of event e.
Proper(e, r) == r.sql # NoSql => <<e, r.sql>> \in approved

\* Results are filed for attempts that the session counts, and are proper for
\* their events.
Filing ==
  \A n \in AttemptNo :
    /\ results[n] # NoResult => n <= session.count
    /\ Proper(attempts[n].key, results[n])

Licensed ==
  /\ Filing
  /\ \A e \in Event : \A r \in answers[e] : Proper(e, r)
  /\ \A w \in Worker : Proper(Job(w), call[w].ret)

\* What was approved stays so.
LEMMA StaysProper ==
  ASSUME approved \subseteq approved', NEW e, NEW r, Proper(e, r)
  PROVE  Proper(e, r)'
  BY DEF Proper

\* Answers without SQL are proper.
LEMMA PlainProper ==
  ASSUME NEW e, NEW r \in {NoResult, Human, Busy, Ack, Unreadable, Plain("NO_SQL")}
  PROVE  Proper(e, r) /\ Proper(e, r)'
  BY DEF Proper, NoResult, Human, Busy, Ack, Unreadable, Plain

\* A steady step that stores no result.
LEMMA FilingSteady ==
  ASSUME Provenance, Filing, Steady, UNCHANGED results
  PROVE  Filing'
  <1>1. session \in Session /\ session'.count = session.count /\ approved \subseteq approved'
        /\ \A n \in AttemptNo : attempts'[n].key = attempts[n].key
    BY SteadyCopies DEF Provenance, Disk, GoodSession, Steady
  <1>2. ASSUME NEW n \in AttemptNo
        PROVE  (results'[n] # NoResult => n <= session'.count) /\ Proper(attempts[n].key, results[n])'
    <2>1. PICK k, r : k = attempts[n].key /\ r = results[n]
      OBVIOUS
    <2>2. Proper(k, r)'
      BY <1>1, <2>1, StaysProper DEF Filing
    <2>3. Proper(attempts[n].key, results[n])'
      BY <1>1, <2>1, <2>2 DEF Proper
    <2> QED
      BY <1>1, <2>3 DEF Filing
  <1> QED
    BY <1>2 DEF Filing

\* A step of a call that is not answered.
LEMMA GoesOnProper ==
  ASSUME Provenance, Licensed, Filing', approved \subseteq approved', UNCHANGED answers, NEW w \in Worker,
         NEW j, j = Job(w), Job(w)' = j, NEW r, call'[w].ret = r, Proper(j, r)',
         \A v \in Worker : v # w => call'[v] = call[v]
  PROVE  Licensed'
  <1>1. ASSUME NEW v \in Worker PROVE Proper(Job(v), call[v].ret)'
    <2>1. CASE v = w
      BY <2>1 DEF Proper
    <2>2. CASE v # w
      <3>1. Proper(Job(v), call[v].ret) /\ call'[v] = call[v]
        BY <2>2 DEF Licensed
      <3> QED
        BY <3>1 DEF Proper, Job
    <2> QED
      BY <2>1, <2>2
  <1>2. ASSUME NEW e \in Event, NEW q \in answers[e] PROVE Proper(e, q)'
    BY <1>2, StaysProper DEF Licensed
  <1> QED
    BY <1>1, <1>2 DEF Licensed

\* A call is answered r.
LEMMA AnswersProper ==
  ASSUME Provenance, Licensed, Filing', approved \subseteq approved', NEW w \in Worker,
         NEW j, j = Job(w), NEW r, Proper(j, r)', Answer(w, r)
  PROVE  Licensed'
  <1>1. /\ call' = [call EXCEPT ![w] = IdleCall] /\ call \in [Worker -> Call]
        /\ answers' = [answers EXCEPT ![j] = @ \cup {r}] /\ answers \in [Event -> SUBSET Result]
    BY DEF Answer, Provenance, Calls, Answered, Job
  <1>2. ASSUME NEW v \in Worker PROVE Proper(Job(v), call[v].ret)'
    <2>1. CASE v = w
      BY <1>1, <2>1 DEF Proper, IdleCall, NoResult, Plain
    <2>2. CASE v # w
      <3>1. Proper(Job(v), call[v].ret) /\ call'[v] = call[v]
        BY <1>1, <2>2 DEF Licensed
      <3> QED
        BY <3>1 DEF Proper, Job
    <2> QED
      BY <2>1, <2>2
  <1>3. ASSUME NEW e \in Event, NEW q \in answers'[e] PROVE Proper(e, q)'
    <2>1. q \in answers[e] \/ (e = j /\ q = r)
      BY <1>1, <1>3
    <2>2. CASE q \in answers[e]
      BY <2>2, StaysProper DEF Licensed
    <2>3. CASE e = j /\ q = r
      BY <2>3
    <2> QED
      BY <2>1, <2>2, <2>3
  <1> QED
    BY <1>2, <1>3 DEF Licensed

\* A call goes on with the result it has, or with one without SQL.
LEMMA MovesProper ==
  ASSUME Provenance, Licensed, Filing', approved \subseteq approved', UNCHANGED answers, NEW w \in Worker,
         \/ \E l : Goto(w, l)
         \/ \E m : Rescue(w, m)
         \/ \E l, m, a, r : /\ r \in {NoResult, Human, Plain("NO_SQL"), call[w].ret}
                            /\ Continue(w, l, m, a, r)
  PROVE  Licensed'
  <1>1. PICK j, r : j = Job(w) /\ r = call'[w].ret
    OBVIOUS
  <1>2. Proper(j, call[w].ret)
    BY <1>1 DEF Licensed
  <1>3. PICK q : q = call[w].ret
    OBVIOUS
  <1>4. Proper(j, q)'
    BY <1>2, <1>3, StaysProper
  <1>5. Job(w)' = j /\ \A v \in Worker : v # w => call'[v] = call[v]
    BY <1>1, GotoIs, RescueIs, ContinueIs
  <1>6. r \in {NoResult, Human, Plain("NO_SQL"), q}
    <2>1. ASSUME NEW m, Rescue(w, m) PROVE call'[w].ret = call[w].ret
      BY <2>1 DEF Rescue, Provenance, Calls, Call
    <2> QED
      BY <1>1, <1>3, <2>1, GotoIs, ContinueIs
  <1>7. Proper(j, r)'
    BY <1>4, <1>6, PlainProper
  <1> QED
    BY <1>1, <1>5, <1>7, GoesOnProper

\* Duplicates are answered with what is stored for their event, or with the SQL
\* of its attempt.
LEMMA DuplicateLicensed ==
  ASSUME Provenance, Ledger, Licensed, NEW w \in Worker, ServeDuplicate(w)
  PROVE  Licensed'
  <1>1. Steady /\ UNCHANGED <<results, approved>> /\ Filing'
    <2>1. Steady
      BY DuplicateFits
    <2>2. UNCHANGED <<results, approved>>
      BY DEF ServeDuplicate, ReplayResult, AnswerInProgress, RecoverWithoutAttempt, RecoverEnded,
             ResumeAttempt, RecoverUnsafe, FinishUnsafe, files, history
    <2> QED
      BY <2>1, <2>2, FilingSteady DEF Licensed
  <1>2. approved \subseteq approved'
    BY <1>1
  <1>3. PICK j, m : j = Job(w) /\ m = Mem(w)
    OBVIOUS
  <1>4. ASSUME NEW r \in {Busy, Human}, Answer(w, r) PROVE Licensed'
    BY <1>1, <1>2, <1>3, <1>4, PlainProper, AnswersProper
  <1>5. ASSUME FindFailed(w)
        PROVE  /\ j \in FailedEvent /\ j \in Event /\ m \in Session
               /\ Entries(m, attempts, results) /\ SameBook(m, session) /\ Tidy
    BY <1>3, <1>5, Parts DEF FindFailed, At, Ledger, Fit, Copied, Reloads, Event
  <1>6. CASE ReplayResult(w)
    <2>1. PICK k, r : k = m.events[j].ref /\ r = results[k]
      OBVIOUS
    <2>2. FindFailed(w) /\ k # 0 /\ Answer(w, r)
      BY <1>3, <1>6, <2>1 DEF ReplayResult, Replayable, Own, RecordOf
    <2>3. m.events[j] \in Record
      BY <1>5, <2>2 DEF Session
    <2>4. k \in 0 .. MaxAttempts
      BY <2>1, <2>3 DEF Record
    <2>5. k \in AttemptNo
      BY <2>2, <2>4, ServiceAssumption DEF AttemptNo
    <2>6. attempts[k].key = j
      BY <1>5, <2>1, <2>2 DEF Entries, Entry
    <2>7. Proper(j, r)
      BY <2>1, <2>5, <2>6 DEF Licensed, Filing
    <2> QED
      BY <1>1, <1>2, <1>3, <2>2, <2>7, StaysProper, AnswersProper
  <1>7. CASE RecoverEnded(w)
    <2>1. PICK k : k = m.events[j].attempt
      OBVIOUS
    <2>2. /\ FindFailed(w) /\ k # 0 /\ UNCHANGED answers
          /\ \/ Continue(w, "discard", m, attempts[k], SqlReady(attempts[k].sql))
             \/ Continue(w, "discard", m, attempts[k], Human)
      BY <1>3, <1>7, <2>1 DEF RecoverEnded, Recovering, OnDisk, Own, RecordOf
    <2>3. CASE Continue(w, "discard", m, attempts[k], Human)
      BY <1>1, <1>2, <2>2, <2>3, MovesProper DEF Licensed
    <2>4. CASE Continue(w, "discard", m, attempts[k], SqlReady(attempts[k].sql))
      <3>1. PICK r : r = SqlReady(attempts[k].sql)
        OBVIOUS
      <3>2. attempts[k].sql # NoSql => <<j, attempts[k].sql>> \in approved
        BY <1>5, <2>1, <2>2, NamedAttempt
      <3>3. Proper(j, r)
        BY <3>1, <3>2 DEF Proper, SqlReady
      <3>4. call'[w].ret = r /\ Job(w)' = j /\ \A v \in Worker : v # w => call'[v] = call[v]
        BY <1>3, <2>4, <3>1, ContinueIs
      <3> QED
        BY <1>1, <1>2, <1>3, <2>2, <3>3, <3>4, StaysProper, GoesOnProper
    <2> QED
      BY <2>2, <2>3, <2>4
  <1>8. CASE ResumeAttempt(w) \/ RecoverUnsafe(w)
    <2>1. UNCHANGED answers
      BY <1>8 DEF ResumeAttempt, RecoverUnsafe
    <2>2. \/ \E l : Goto(w, l)
          \/ \E l, q, a, r : r \in {NoResult, Human, Plain("NO_SQL"), call[w].ret} /\ Continue(w, l, q, a, r)
      BY <1>8 DEF ResumeAttempt, RecoverUnsafe
    <2> QED
      BY <1>1, <1>2, <2>1, <2>2, MovesProper
  <1>9. CASE AnswerInProgress(w) \/ RecoverWithoutAttempt(w) \/ FinishUnsafe(w)
    BY <1>4, <1>9 DEF AnswerInProgress, RecoverWithoutAttempt, FinishUnsafe
  <1> QED
    BY <1>6, <1>7, <1>8, <1>9 DEF ServeDuplicate

\* A new attempt has a number under which no result is filed.
LEMMA NewLicensed ==
  ASSUME Provenance, Ledger, Licensed, NEW w \in Worker, ServeNew(w)
  PROVE  Licensed'
  <1>1. UNCHANGED <<results, approved, answers>>
    BY DEF ServeNew, RecordFailed, CreateAttempt, LinkAttempt, BeginRun, history
  <1>2. /\ session \in Session /\ Mem(w) \in Session /\ attempts \in [AttemptNo -> Attempt]
        /\ Fit(w) /\ \A n \in AttemptNo : n \in Nat
    BY Parts, ServiceAssumption DEF Ledger, AttemptNo
  <1>3. session.count \in Nat
    BY <1>2, ServiceAssumption DEF Session
  <1>4. Filing'
    <2>1. CASE RecordFailed(w)
      <3>1. Mem(w).count = session.count
        BY <1>2, <2>1 DEF RecordFailed, FindFailed, At, Fit, Copied, Reloads, SameBook
      <3>2. session'.count = Mem(w).count /\ attempts' = attempts
        BY <1>2, <2>1 DEF RecordFailed, PutRecord, Session
      <3> QED
        BY <1>1, <3>1, <3>2 DEF Filing, Licensed, Proper
    <2>2. CASE CreateAttempt(w)
      <3>1. PICK n, a : /\ n = Mem(w).count + 1
                        /\ a = [no |-> n, status |-> "CREATED", key |-> Job(w), sql |-> NoSql]
        OBVIOUS
      <3>2. /\ n \in AttemptNo /\ attempts' = [attempts EXCEPT ![n] = a] /\ session' = session
            /\ n = session.count + 1
        BY <1>2, <2>2, <3>1 DEF CreateAttempt, At, Fit, Copied, Reloads, SameBook
      <3>3. results[n] = NoResult
        BY <1>2, <1>3, <3>2 DEF Licensed, Filing
      <3>4. ASSUME NEW k \in AttemptNo
            PROVE  (results'[k] # NoResult => k <= session'.count) /\ Proper(attempts[k].key, results[k])'
        <4>1. CASE k = n
          BY <1>1, <3>2, <3>3, <4>1 DEF Licensed, Filing, Proper, NoResult, Plain
        <4>2. CASE k # n
          <5>1. attempts'[k] = attempts[k]
            BY <1>2, <3>2, <4>2
          <5> QED
            BY <1>1, <3>2, <5>1 DEF Licensed, Filing, Proper
        <4> QED
          BY <4>1, <4>2
      <3> QED
        BY <3>4 DEF Filing
    <2>3. CASE LinkAttempt(w)
      <3>1. Mem(w).count = session.count + 1
        BY <1>2, <2>3 DEF LinkAttempt, At, Fit, Making
      <3>2. session'.count = session.count + 1 /\ attempts' = attempts
        BY <2>3, <3>1 DEF LinkAttempt
      <3>3. ASSUME NEW k \in AttemptNo
            PROVE  (results'[k] # NoResult => k <= session'.count) /\ Proper(attempts[k].key, results[k])'
        <4>1. Proper(attempts[k].key, results[k])'
          BY <1>1, <3>2 DEF Licensed, Filing, Proper
        <4>2. results[k] # NoResult => k <= session.count
          BY DEF Licensed, Filing
        <4>3. results'[k] # NoResult => k <= session'.count
          BY <1>1, <1>2, <1>3, <3>2, <4>2
        <4> QED
          BY <4>1, <4>3
      <3> QED
        BY <3>3 DEF Filing
    <2>4. CASE BeginRun(w)
      BY <1>1, <2>4, BeginFits, FilingSteady DEF Licensed
    <2> QED
      BY <2>1, <2>2, <2>3, <2>4 DEF ServeNew
  <1>5. \/ \E l : Goto(w, l)
        \/ \E l, m, a, r : r \in {NoResult, Human, Plain("NO_SQL"), call[w].ret} /\ Continue(w, l, m, a, r)
    <2>1. CASE LinkAttempt(w)
      BY <2>1 DEF LinkAttempt
    <2>2. CASE RecordFailed(w) \/ CreateAttempt(w) \/ BeginRun(w)
      <3>1. \E l, m, a : Continue(w, l, m, a, NoResult)
        BY <2>2 DEF RecordFailed, CreateAttempt, BeginRun
      <3> QED
        BY <3>1
    <2> QED
      BY <2>1, <2>2 DEF ServeNew
  <1> QED
    BY <1>1, <1>4, <1>5, MovesProper

\* The run answers without SQL; the committer with the SQL of the attempt.
LEMMA RunLicensed ==
  ASSUME Provenance, Ledger, Licensed, NEW w \in Worker, ServeRun(w) \/ ServeCommit(w)
  PROVE  Licensed'
  <1>1. Steady
    BY RunFits, CommitFits
  <1>2. UNCHANGED <<results, answers>> /\ approved \subseteq approved'
    <2>1. CASE ServeRun(w)
      BY <2>1 DEF ServeRun, RejectInput, KeepPrevious, LoadPrevious, SavePrevious, AgentProposes,
             AgentStops, StopRun,
             AgentRaises,
                  SaveHumanAttempt, SaveHumanSession, files, history
    <2>2. CASE ServeCommit(w)
      BY <2>2 DEF ServeCommit, CommitFails, CommitRefused, CommitAttempt, CommitSession, CommitDone,
                  files, history
    <2> QED
      BY <2>1, <2>2
  <1>3. Filing'
    BY <1>1, <1>2, FilingSteady DEF Licensed
  <1>4. CASE CommitAttempt(w)
    <2>1. PICK j, m, a, r : j = Job(w) /\ a = Att(w) /\ r = SqlReady(a.sql) /\ Continue(w, "commit_session", m, a, r)
      BY <1>4 DEF CommitAttempt
    <2>2. call[w].pc \in Owning
      BY <1>4 DEF CommitAttempt, At, Owning, FailedLabel
    <2>3. a.sql # NoSql => <<j, a.sql>> \in approved
      BY <2>1, <2>2, OwnerHas
    <2>4. Proper(j, r)
      BY <2>1, <2>3 DEF Proper, SqlReady
    <2>5. call'[w].ret = r /\ Job(w)' = j /\ \A v \in Worker : v # w => call'[v] = call[v]
      BY <2>1, ContinueIs
    <2> QED
      BY <1>2, <1>3, <2>1, <2>4, <2>5, StaysProper, GoesOnProper
  <1>5. CASE ~CommitAttempt(w)
    <2>1. CASE \/ RejectInput(w) \/ KeepPrevious(w) \/ LoadPrevious(w) \/ SavePrevious(w) \/ StopRun(w) \/ SaveHumanSession(w)
               \/ CommitRefused(w) \/ CommitSession(w) \/ CommitDone(w)
      <3>1. \E l : Goto(w, l)
        BY <2>1 DEF RejectInput, KeepPrevious, LoadPrevious, SavePrevious, StopRun,
               SaveHumanSession, CommitRefused,
               CommitSession,
                    CommitDone
      <3> QED
        BY <1>2, <1>3, <3>1, MovesProper
    <2>2. CASE AgentRaises(w) \/ CommitFails(w)
      BY <1>2, <1>3, <2>2, MovesProper DEF AgentRaises, CommitFails
    <2>3. ASSUME \E l, m, a, r : r \in {NoResult, Human, Plain("NO_SQL")} /\ Continue(w, l, m, a, r)
          PROVE  Licensed'
      BY <1>2, <1>3, <2>3, MovesProper
    <2>4. ASSUME NEW s \in Sql, AgentProposes(w, s) PROVE Licensed'
      BY <2>3, <2>4 DEF AgentProposes
    <2>5. ASSUME NEW st, AgentStops(w, st) PROVE Licensed'
      <3>1. PICK m, a, r : /\ r = IF st = "HUMAN_REQUIRED" THEN Human ELSE Plain("NO_SQL")
                           /\ Continue(w, "stop", m, a, r)
        BY <2>5 DEF AgentStops
      <3> QED
        BY <2>3, <3>1
    <2>6. CASE SaveHumanAttempt(w)
      <3>1. PICK m, a : Continue(w, "human_session", m, a, Human)
        BY <2>6 DEF SaveHumanAttempt
      <3> QED
        BY <2>3, <3>1
    <2> QED
      BY <1>5, <2>1, <2>2, <2>4, <2>5, <2>6 DEF ServeRun, ServeCommit
  <1> QED
    BY <1>4, <1>5

\* The result of a call is stored, and then given to the caller.
LEMMA ResultLicensed ==
  ASSUME NothingRedacted, Provenance, Ledger, Licensed, NEW w \in Worker, ServeResult(w)
  PROVE  Licensed'
  <1>1. Steady /\ approved' = approved
    BY ResultFits DEF ServeResult, DiscardActive, WriteResult, FinishFailed, history
  <1>2. call[w].pc \in Owning
    BY DEF ServeResult, DiscardActive, WriteResult, FinishFailed, At, Owning, FailedLabel
  <1>3. approved \subseteq approved'
    BY <1>1
  <1>4. CASE DiscardActive(w)
    <2>1. UNCHANGED <<results, answers>> /\ Goto(w, "persist")
      BY <1>4 DEF DiscardActive, files
    <2> QED
      BY <1>1, <1>3, <2>1, FilingSteady, MovesProper DEF Licensed
  <1>5. CASE WriteResult(w)
    <2>1. PICK n, q, r : n = Att(w).no /\ q = call[w].ret /\ r = Sanitized(q)
      OBVIOUS
    <2>2. /\ results' = [results EXCEPT ![n] = r] /\ UNCHANGED <<session, attempts, answers>>
          /\ Goto(w, "finish")
      BY <1>5, <2>1 DEF WriteResult
    <2>3. /\ n \in AttemptNo /\ attempts[n].key = Job(w) /\ session.events[Job(w)].attempt = n /\ n # 0
          /\ Tidy /\ Job(w) \in FailedEvent
      BY <1>2, <2>1, OwnerHas
    <2>4. n <= session.count
      BY <2>3 DEF Tidy, Entries, Entry
    <2>5. q \in Result /\ results \in [AttemptNo -> Result]
      BY <2>1, Parts
    <2>6. r.sql = q.sql
      <3>1. CASE q.sql = NoSql
        BY <2>1, <3>1 DEF Sanitized
      <3>2. CASE q.sql # NoSql
        <4>1. q.sql \in Sql
          BY <2>5, <3>2 DEF Result
        <4>2. Redact[q.sql] = q.sql
          BY <4>1 DEF NothingRedacted
        <4> QED
          BY <2>1, <3>2, <4>2 DEF Sanitized, SqlReady
      <3> QED
        BY <3>1, <3>2
    <2>7. Proper(Job(w), r)
      BY <2>1, <2>6 DEF Licensed, Proper
    <2>8. ASSUME NEW k \in AttemptNo
          PROVE  (results'[k] # NoResult => k <= session'.count) /\ Proper(attempts[k].key, results[k])'
      <3>1. CASE k = n
        <4>1. results'[k] = r
          BY <2>2, <2>3, <2>5, <3>1
        <4> QED
          BY <1>1, <2>2, <2>3, <2>4, <2>7, <3>1, <4>1 DEF Proper
      <3>2. CASE k # n
        <4>1. results'[k] = results[k]
          BY <2>2, <2>5, <3>2
        <4> QED
          BY <1>1, <2>2, <4>1 DEF Licensed, Filing, Proper
      <3> QED
        BY <3>1, <3>2
    <2>9. Filing'
      BY <2>8 DEF Filing
    <2> QED
      BY <1>3, <2>2, <2>9, MovesProper
  <1>6. CASE FinishFailed(w)
    <2>1. PICK j, r : j = Job(w) /\ r = call[w].ret
      OBVIOUS
    <2>2. UNCHANGED results /\ Answer(w, r)
      BY <1>6, <2>1 DEF FinishFailed
    <2>3. Proper(j, r)
      BY <2>1 DEF Licensed
    <2> QED
      BY <1>1, <1>3, <2>1, <2>2, <2>3, FilingSteady, StaysProper, AnswersProper DEF Licensed
  <1> QED
    BY <1>4, <1>5, <1>6 DEF ServeResult

\* Callers that report a success, and those told to retry or to ask a human,
\* are given no SQL.
LEMMA RestLicensed ==
  ASSUME Provenance, Ledger, Licensed, NEW w \in Worker,
         \/ EnterSession(w) \/ LockTimeout(w) \/ ServeSuccess(w)
         \/ ErrorIsCaught(w) \/ ErrorIsRaised(w) \/ SuccessError(w)
  PROVE  Licensed'
  <1>1. Steady
    BY EnterFits, SuccessFits, ErrorFits
  <1>2. UNCHANGED <<results, approved>>
    <2>1. CASE EnterSession(w) \/ LockTimeout(w)
      BY <2>1 DEF EnterSession, LockTimeout, LockAndLoad, files, history
    <2>2. CASE ServeSuccess(w)
      BY <2>2 DEF ServeSuccess, AckDuplicate, RecordSuccess, AckUnmatched, ConfirmAttempt,
             ConfirmSession,
                  WriteMemory, MemoryDegraded, ReloadForFinish, ReloadForDegrade, LockAndLoad,
                  FinishSuccess, FinishDegraded, SaveFinished, DegradeTimeout, files, history
    <2>3. CASE ErrorIsCaught(w) \/ ErrorIsRaised(w) \/ SuccessError(w)
      BY <2>3 DEF ErrorIsCaught, ErrorIsRaised, SuccessError, FileError, files
    <2> QED
      BY <2>1, <2>2, <2>3
  <1>3. Filing' /\ approved \subseteq approved'
    BY <1>1, <1>2, FilingSteady DEF Licensed
  <1>4. ASSUME NEW r \in {Busy, Human, Ack, Unreadable}, Answer(w, r) PROVE Licensed'
    <2>1. PICK j : j = Job(w)
      OBVIOUS
    <2> QED
      BY <1>3, <1>4, <2>1, PlainProper, AnswersProper
  <1>5. ASSUME UNCHANGED answers,
               \/ \E l : Goto(w, l)
               \/ \E m : Rescue(w, m)
               \/ \E l, m, a, r : r \in {NoResult, call[w].ret} /\ Continue(w, l, m, a, r)
        PROVE  Licensed'
    BY <1>3, <1>5, MovesProper
  <1>6. CASE EnterSession(w)
    <2>1. UNCHANGED answers /\ Continue(w, "find", session, Att(w), call[w].ret)
      BY <1>6 DEF EnterSession, LockAndLoad
    <2> QED
      BY <1>5, <2>1
  <1>7. CASE LockTimeout(w)
    BY <1>4, <1>7 DEF LockTimeout
  <1>8. CASE ServeSuccess(w)
    <2>1. CASE AckDuplicate(w) \/ AckUnmatched(w) \/ FinishSuccess(w) \/ FinishDegraded(w) \/ DegradeTimeout(w)
      BY <1>4, <2>1 DEF AckDuplicate, AckUnmatched, FinishSuccess, FinishDegraded, SaveFinished,
             DegradeTimeout
    <2>2. CASE ConfirmSession(w) \/ WriteMemory(w) \/ MemoryDegraded(w)
      <3>1. UNCHANGED answers /\ \E l : Goto(w, l)
        BY <2>2 DEF ConfirmSession, WriteMemory, MemoryDegraded
      <3> QED
        BY <1>5, <3>1
    <2>3. CASE RecordSuccess(w) \/ ConfirmAttempt(w)
      <3>1. UNCHANGED answers /\ \E l, m, a : Continue(w, l, m, a, NoResult)
        BY <2>3 DEF RecordSuccess, ConfirmAttempt
      <3> QED
        BY <1>5, <3>1
    <2>4. CASE ReloadForFinish(w) \/ ReloadForDegrade(w)
      <3>1. UNCHANGED answers /\ \E l, m, a : Continue(w, l, m, a, call[w].ret)
        BY <2>4 DEF ReloadForFinish, ReloadForDegrade, LockAndLoad
      <3> QED
        BY <1>5, <3>1
    <2> QED
      BY <1>8, <2>1, <2>2, <2>3, <2>4 DEF ServeSuccess
  <1>9. CASE ErrorIsCaught(w) \/ ErrorIsRaised(w) \/ SuccessError(w)
    BY <1>4, <1>5, <1>9 DEF ErrorIsCaught, ErrorIsRaised, SuccessError
  <1> QED
    BY <1>6, <1>7, <1>8, <1>9

\* Steps outside the handlers answer nobody.
LEMMA OuterLicensed ==
  ASSUME Provenance, Ledger, Licensed,
         \/ \E w \in Worker, e \in Event : Submit(w, e)
         \/ \E p \in Process : Crash(p)
         \/ \E w \in Worker : FindStale(w) \/ RemoveStale(w)
         \/ UNCHANGED vars
  PROVE  Licensed'
  <1>1. Steady /\ UNCHANGED <<results, approved, answers>>
    BY OuterFits DEF Submit, Crash, FindStale, RemoveStale, vars, files, history
  <1>2. Filing'
    BY <1>1, FilingSteady DEF Licensed
  <1>3. ASSUME NEW w \in Worker
        PROVE  call'[w] = call[w] \/ call'[w].ret = NoResult
    <2>1. ASSUME NEW v \in Worker, NEW e \in Event, Submit(v, e)
          PROVE  call'[w] = call[w] \/ call'[w].ret = NoResult
      <3>1. PICK c : c = [IdleCall EXCEPT !.pc = "lock", !.job = e]
        OBVIOUS
      <3>2. c.ret = NoResult
        BY <3>1 DEF IdleCall
      <3>3. call' = [call EXCEPT ![v] = c]
        BY <2>1, <3>1 DEF Submit
      <3> QED
        BY <3>2, <3>3 DEF Provenance, Calls
    <2>2. ASSUME NEW p \in Process, Crash(p) PROVE call'[w] = call[w] \/ call'[w].ret = NoResult
      BY <2>2 DEF Crash, IdleCall
    <2> QED
      BY <2>1, <2>2 DEF FindStale, RemoveStale, vars
  <1>4. ASSUME NEW w \in Worker PROVE Proper(Job(w), call[w].ret)'
    <2>1. CASE call'[w] = call[w]
      BY <1>1, <2>1 DEF Licensed, Proper, Job
    <2>2. CASE call'[w].ret = NoResult
      BY <2>2 DEF Proper, NoResult, Plain
    <2> QED
      BY <1>3, <2>1, <2>2
  <1> QED
    BY <1>1, <1>2, <1>4 DEF Licensed, Proper

\* Callers are only given SQL that was approved for their event, as long as the
\* lock excludes.
THEOREM AnswersApproved ==
  ASSUME NothingRedacted PROVE Spec /\ []SeparateFailures /\ []Exclusive => []AnswerApproved
  <1>1. Init => Licensed
    BY DEF Init, Licensed, Filing, Proper, IdleCall, NoResult, Plain
  <1>2. Provenance /\ SeparateFailures /\ Exclusive /\ Ledger /\ Licensed /\ [Next]_vars => Licensed'
    <2> SUFFICES ASSUME Provenance, Ledger, Licensed, [Next]_vars PROVE Licensed'
      OBVIOUS
    <2>1. ASSUME NEW w \in Worker, Serve(w) PROVE Licensed'
      BY <2>1, DuplicateLicensed, NewLicensed, RunLicensed, ResultLicensed, RestLicensed,
         OuterLicensed DEF Serve
    <2> QED
      BY <2>1, RestLicensed, OuterLicensed DEF Next, Quiet
  <1>3. ASSUME Licensed PROVE AnswerApproved
    <2>1. ASSUME NEW e \in Event, NEW s \in Sql, SqlReady(s) \in answers[e] PROVE <<e, s>> \in approved
      <3>1. Proper(e, SqlReady(s)) /\ s # NoSql
        BY <1>3, <2>1, ServiceAssumption DEF Licensed
      <3> QED
        BY <3>1 DEF Proper, SqlReady
    <2> QED
      BY <2>1 DEF AnswerApproved
  <1> QED
    BY <1>1, <1>2, <1>3, LedgerStays, ProvenanceInvariant, PTL DEF Spec

-----------------------------------------------------------------------------
(* Events that are in progress: the invariant Served *)

\* Labels at which the event of a call may be active.
Serving == RunningLabels \cup {"discard"}

\* Call w works on event e of process p.
WorksOn(w, p, e) == ProcessOf[w] = p /\ Job(w) = e /\ call[w].pc \in Serving

Served ==
  faults = 0 => \A p \in Process, e \in Event :
                  e \in active[p] => \E w \in Worker : WorksOn(w, p, e)

\* A call that goes on with its event, or had none, leaves the active ones served.
LEMMA StaysServed ==
  ASSUME Served, NEW w \in Worker, \A v \in Worker : v # w => call'[v] = call[v],
         UNCHANGED <<active, faults>>,
         call[w].pc \in Serving => call'[w].pc \in Serving /\ Job(w)' = Job(w)
  PROVE  Served'
  <1>1. ASSUME faults = 0, NEW p \in Process, NEW e \in Event, e \in active[p]
        PROVE  \E v \in Worker : WorksOn(v, p, e)'
    <2>1. PICK v \in Worker : WorksOn(v, p, e)
      BY <1>1 DEF Served
    <2>2. WorksOn(v, p, e)'
      BY <2>1 DEF WorksOn, Job
    <2> QED
      BY <2>2
  <1> QED
    BY <1>1 DEF Served

\* The event of a call becomes active when its run begins.
LEMMA BeginServed ==
  ASSUME Provenance, Served, NEW w \in Worker, BeginRun(w)
  PROVE  Served'
  <1>1. /\ call[w].pc = "begin" /\ Continue(w, "input", session', Att(w), NoResult)
        /\ active' = [active EXCEPT ![ProcessOf[w]] = @ \cup {Job(w)}] /\ UNCHANGED faults
        /\ active \in [Process -> SUBSET Event]
    BY DEF BeginRun, At, history, Provenance, Rest
  <1>2. /\ call'[w].pc = "input" /\ Job(w)' = Job(w) /\ \A v \in Worker : v # w => call'[v] = call[v]
    BY <1>1, ContinueIs
  <1>3. ASSUME faults = 0, NEW p \in Process, NEW e \in Event, e \in active'[p]
        PROVE  \E v \in Worker : WorksOn(v, p, e)'
    <2>1. CASE e \in active[p]
      <3>1. PICK v \in Worker : WorksOn(v, p, e)
        BY <1>3, <2>1 DEF Served
      <3>2. v # w
        BY <1>1, <3>1 DEF WorksOn, Serving, RunningLabels
      <3> QED
        BY <1>2, <3>1, <3>2 DEF WorksOn, Job
    <2>2. CASE e \notin active[p]
      <3>1. p = ProcessOf[w] /\ e = Job(w)
        BY <1>1, <1>3, <2>2
      <3>2. WorksOn(w, p, e)'
        BY <1>2, <3>1 DEF WorksOn, Serving, RunningLabels
      <3> QED
        BY <3>2
    <2> QED
      BY <2>1, <2>2
  <1> QED
    BY <1>1, <1>3 DEF Served

\* It stops being so when the call is about to store its result.
LEMMA DiscardServed ==
  ASSUME Provenance, Ledger, Served, NEW w \in Worker, DiscardActive(w)
  PROVE  Served'
  <1>1. /\ call[w].pc = "discard" /\ Goto(w, "persist") /\ UNCHANGED faults
        /\ active' = [active EXCEPT ![ProcessOf[w]] = @ \ {Att(w).key}]
        /\ active \in [Process -> SUBSET Event]
    BY DEF DiscardActive, At, history, Provenance, Rest
  <1>2. \A v \in Worker : v # w => call'[v] = call[v]
    BY <1>1, GotoIs
  <1>3. Att(w).key = Job(w)
    BY <1>1, OwnerHas DEF Owning, FailedLabel
  <1>4. ASSUME faults = 0, NEW p \in Process, NEW e \in Event, e \in active'[p]
        PROVE  \E v \in Worker : WorksOn(v, p, e)'
    <2>1. e \in active[p] /\ ~(p = ProcessOf[w] /\ e = Job(w))
      BY <1>1, <1>3, <1>4
    <2>2. PICK v \in Worker : WorksOn(v, p, e)
      BY <1>4, <2>1 DEF Served
    <2>3. v # w
      BY <2>1, <2>2 DEF WorksOn
    <2> QED
      BY <1>2, <2>2, <2>3 DEF WorksOn, Job
  <1> QED
    BY <1>1, <1>4 DEF Served

\* The steps that run the agent and commit go on with the event.
LEMMA RunServed ==
  ASSUME Provenance, Served, NEW w \in Worker, ServeRun(w) \/ ServeCommit(w)
  PROVE  Served'
  <1>1. UNCHANGED <<active, faults>>
    BY DEF ServeRun, ServeCommit, RejectInput, KeepPrevious, LoadPrevious, SavePrevious,
           AgentProposes, AgentStops, StopRun,
           AgentRaises, SaveHumanAttempt, SaveHumanSession, CommitFails, CommitRefused,
           CommitAttempt,
           CommitSession, CommitDone, history
  <1>2. /\ call'[w].pc \in Serving /\ Job(w)' = Job(w)
        /\ \A v \in Worker : v # w => call'[v] = call[v]
    <2>1. \/ \E l \in Serving : Goto(w, l)
          \/ Rescue(w, Mem(w))
          \/ \E l \in Serving : \E m, a, r : Continue(w, l, m, a, r)
      <3>1. {"previous", "run", "stop", "human", "human_session", "commit", "commit_session", "commit_done", "discard"}
              \subseteq Serving
        BY DEF Serving, RunningLabels
      <3>2. ASSUME ServeRun(w)
            PROVE  \/ \E l \in Serving : Goto(w, l)
                   \/ Rescue(w, Mem(w))
                   \/ \E l \in Serving : \E m, a, r : Continue(w, l, m, a, r)
        BY <3>1, <3>2 DEF ServeRun, RejectInput, KeepPrevious, LoadPrevious, SavePrevious,
               AgentProposes, AgentStops, StopRun,
                          AgentRaises, SaveHumanAttempt, SaveHumanSession
      <3>3. ASSUME ServeCommit(w)
            PROVE  \/ \E l \in Serving : Goto(w, l)
                   \/ Rescue(w, Mem(w))
                   \/ \E l \in Serving : \E m, a, r : Continue(w, l, m, a, r)
        BY <3>1, <3>3 DEF ServeCommit, CommitFails, CommitRefused, CommitAttempt, CommitSession,
               CommitDone
      <3> QED
        BY <3>2, <3>3
    <2> QED
      BY <2>1, GotoIs, RescueIs, ContinueIs DEF Serving, RunningLabels
  <1> QED
    BY <1>1, <1>2, StaysServed

\* All other steps are of calls whose event is not active, or raise.
LEMMA RestServed ==
  ASSUME Provenance, Served, NEW w \in Worker,
         \/ EnterSession(w) \/ LockTimeout(w) \/ ServeDuplicate(w)
         \/ RecordFailed(w) \/ CreateAttempt(w) \/ LinkAttempt(w)
         \/ WriteResult(w) \/ FinishFailed(w) \/ ServeSuccess(w)
  PROVE  Served'
  <1>1. call[w].pc \notin Serving /\ UNCHANGED <<active, faults>>
    BY DEF EnterSession, LockAndLoad, LockTimeout, ServeDuplicate, ReplayResult, AnswerInProgress,
           RecoverWithoutAttempt, RecoverEnded, ResumeAttempt, RecoverUnsafe, FinishUnsafe,
           Recovering,
           FindFailed, RecordFailed, CreateAttempt, LinkAttempt, WriteResult, FinishFailed,
           ServeSuccess,
           AckDuplicate, RecordSuccess, AckUnmatched, ConfirmAttempt, ConfirmSession, WriteMemory,
           MemoryDegraded, ReloadForFinish, ReloadForDegrade, FinishSuccess, FinishDegraded,
           SaveFinished,
           DegradeTimeout, FindSuccess, At, Serving, RunningLabels, history
  <1>2. \A v \in Worker : v # w => call'[v] = call[v]
    <2>1. \/ \E l : Goto(w, l)
          \/ \E l, m, a, r : Continue(w, l, m, a, r)
          \/ \E r : Answer(w, r)
      <3>1. ASSUME ServeSuccess(w)
            PROVE  \/ \E l : Goto(w, l)
                   \/ \E l, m, a, r : Continue(w, l, m, a, r)
                   \/ \E r : Answer(w, r)
        BY <3>1 DEF ServeSuccess, AckDuplicate, RecordSuccess, AckUnmatched, ConfirmAttempt,
               ConfirmSession,
             WriteMemory, MemoryDegraded, ReloadForFinish, ReloadForDegrade, FinishSuccess,
             FinishDegraded,
             SaveFinished, DegradeTimeout, LockAndLoad
      <3>2. ASSUME ServeDuplicate(w)
            PROVE  \/ \E l : Goto(w, l)
                   \/ \E l, m, a, r : Continue(w, l, m, a, r)
                   \/ \E r : Answer(w, r)
        BY <3>2 DEF ServeDuplicate, ReplayResult, AnswerInProgress, RecoverWithoutAttempt,
               RecoverEnded,
             ResumeAttempt, RecoverUnsafe, FinishUnsafe
      <3>3. ASSUME ~ServeSuccess(w), ~ServeDuplicate(w)
            PROVE  \/ \E l : Goto(w, l)
                   \/ \E l, m, a, r : Continue(w, l, m, a, r)
                   \/ \E r : Answer(w, r)
        BY <3>3 DEF EnterSession, LockAndLoad, LockTimeout, RecordFailed, CreateAttempt,
               LinkAttempt,
                    WriteResult, FinishFailed
      <3> QED
        BY <3>1, <3>2, <3>3
    <2> QED
      BY <2>1, GotoIs, ContinueIs, AnswerIs
  <1> QED
    BY <1>1, <1>2, StaysServed

\* A call arrives, a process dies with all its calls, a lock is reclaimed.
LEMMA OuterServed ==
  ASSUME Provenance, Served,
         \/ \E w \in Worker, e \in Event : Submit(w, e)
         \/ \E p \in Process : Crash(p)
         \/ \E w \in Worker : FindStale(w) \/ RemoveStale(w)
         \/ UNCHANGED vars
  PROVE  Served'
  <1>1. ASSUME NEW w \in Worker, NEW e \in Event, Submit(w, e) PROVE Served'
    <2>1. /\ call[w].pc \notin Serving /\ UNCHANGED <<active, faults>>
          /\ \A v \in Worker : v # w => call'[v] = call[v]
      BY <1>1 DEF Submit, At, Serving, RunningLabels, Provenance, Calls
    <2> QED
      BY <2>1, StaysServed
  <1>2. ASSUME NEW p \in Process, Crash(p) PROVE Served'
    <2>1. /\ active' = [active EXCEPT ![p] = {}] /\ UNCHANGED faults
          /\ active \in [Process -> SUBSET Event]
          /\ \A v \in Worker : ProcessOf[v] # p => call'[v] = call[v]
      BY <1>2 DEF Crash, Provenance, Rest
    <2>2. ASSUME faults = 0, NEW q \in Process, NEW e \in Event, e \in active'[q]
          PROVE  \E v \in Worker : WorksOn(v, q, e)'
      <3>1. q # p /\ e \in active[q]
        BY <2>1, <2>2
      <3>2. PICK v \in Worker : WorksOn(v, q, e)
        BY <2>2, <3>1 DEF Served
      <3>3. WorksOn(v, q, e)'
        BY <2>1, <3>1, <3>2 DEF WorksOn, Job
      <3> QED
        BY <3>3
    <2> QED
      BY <2>1, <2>2 DEF Served
  <1>3. ASSUME UNCHANGED <<active, faults, call>> PROVE Served'
    BY <1>3 DEF Served, WorksOn, Job
  <1> QED
    BY <1>1, <1>2, <1>3 DEF FindStale, RemoveStale, vars, history

\* As long as no file operation failed, duplicates that are told to retry later
\* wait for a call that is under way in their process.
THEOREM ActiveIsWorkedOn ==
  Spec /\ []SeparateFailures /\ []Exclusive => [](faults = 0 => ActiveIsServed)
  <1>1. Init => Served
    BY DEF Init, Served
  <1>2. Provenance /\ Ledger /\ Served /\ [Next]_vars => Served'
    <2> SUFFICES ASSUME Provenance, Ledger, Served, [Next]_vars PROVE Served'
      OBVIOUS
    <2>1. ASSUME NEW w \in Worker, Serve(w) PROVE Served'
      BY <2>1, BeginServed, DiscardServed, RunServed, RestServed, OuterServed
         DEF Serve, ServeNew, ServeResult
    <2>2. ASSUME NEW w \in Worker, ErrorIsCaught(w) \/ ErrorIsRaised(w) \/ SuccessError(w) PROVE Served'
      <3>1. faults' = faults + 1 /\ faults \in Nat
        BY <2>2, ServiceAssumption DEF ErrorIsCaught, ErrorIsRaised, SuccessError, FileError,
               Provenance, Rest
      <3> QED
        BY <3>1 DEF Served
    <2> QED
      BY <2>1, <2>2, OuterServed DEF Next, Quiet
  <1>3. ASSUME Served PROVE faults = 0 => ActiveIsServed
    BY <1>3 DEF Served, ActiveIsServed, WorksOn
  <1> QED
    BY <1>1, <1>2, <1>3, LedgerStays, ProvenanceInvariant, PTL DEF Spec

-----------------------------------------------------------------------------
(* One run of an attempt: the invariant Running *)

\* All workers are threads of one process: the set of active events is theirs.
OneProcess == \A v, w \in Worker : ProcessOf[v] = ProcessOf[w]

\* The call runs the agent, or is about to, or has not answered since.
Runs(w) == call[w].pc \in RunningLabels \cup {"begin"} \/ call[w].guarded

\* Labels at which the outcome of a run is decided.
Decided == Deciding \cup {"finish"}

Saved(w) == attempts[Att(w).no].status # "CREATED"

\* When the outcome of a run is decided, its attempt is saved.
Sealed(w) == call[w].pc \in Decided => Saved(w)

\* An attempt that can be started again belongs to an active event.
Marked(w) == Runs(w) /\ ~At(w, "begin") => Job(w) \in active[ProcessOf[w]] \/ Saved(w)

Running ==
  /\ \A v, w \in Worker : Runs(v) /\ Runs(w) => v = w
  /\ \A w \in Worker : Sealed(w) /\ Marked(w)

\* What runs works on an attempt.
LEMMA RunsOwns ==
  ASSUME Ledger, NEW w \in Worker, Runs(w)
  PROVE  call[w].pc \in Owning
  BY DEF Ledger, Fit, Working, Runs, Owning, FailedLabel, RunningLabels

\* A steady step after which no other call runs that did not.
LEMMA OthersRun ==
  ASSUME Provenance, Ledger, Running, Steady, NEW w \in Worker,
         \A v \in Worker : v # w => call'[v] = call[v],
         Runs(w)' => \A v \in Worker : v # w => ~Runs(v),
         Sealed(w)', Marked(w)',
         \A v \in Worker : v # w /\ Runs(v) /\ Job(v) \in active[ProcessOf[v]]
                             => Job(v) \in active'[ProcessOf[v]] \/ Saved(v)
  PROVE  Running'
  <1>1. ASSUME NEW v \in Worker, v # w
        PROVE  (Runs(v)' <=> Runs(v)) /\ Sealed(v)' /\ Marked(v)'
    <2>1. call'[v] = call[v]
      BY <1>1
    <2>2. Runs(v)' <=> Runs(v)
      BY <2>1 DEF Runs
    <2>3. ASSUME call[v].pc \in Owning, Saved(v) PROVE Saved(v)'
      <3>1. Att(v).no \in AttemptNo
        BY <2>3, OwnerHas
      <3> QED
        BY <2>1, <2>3, <3>1 DEF Saved, Att, Steady
    <2>4. Sealed(v)'
      <3>1. Sealed(v)
        BY DEF Running
      <3> QED
        BY <2>1, <2>3, <3>1 DEF Sealed, Decided, Deciding, Owning, FailedLabel
    <2>5. Marked(v)'
      <3>1. Marked(v)
        BY DEF Running
      <3>2. CASE Runs(v)
        BY <1>1, <2>1, <2>2, <2>3, <3>1, <3>2, RunsOwns DEF Marked, At, Job
      <3>3. CASE ~Runs(v)
        BY <2>2, <3>3 DEF Marked
      <3> QED
        BY <3>2, <3>3
    <2> QED
      BY <2>2, <2>4, <2>5
  <1> QED
    BY <1>1 DEF Running

\* A call that holds no attempt afterwards.
LEMMA LetsGo ==
  ASSUME Provenance, Ledger, Ledger', Running, Steady, NEW w \in Worker,
         \A v \in Worker : v # w => call'[v] = call[v], call'[w].pc \notin Owning,
         \A p \in Process : active[p] \subseteq active'[p]
  PROVE  Running'
  <1>1. ~Runs(w)' /\ Sealed(w)' /\ Marked(w)'
    BY DEF Ledger, Fit, Working, Runs, Sealed, Decided, Deciding, Marked, Owning, FailedLabel,
           RunningLabels
  <1>2. \A v \in Worker : active[ProcessOf[v]] \subseteq active'[ProcessOf[v]]
    BY ServiceAssumption
  <1> QED
    BY <1>1, <1>2, OthersRun

\* A call that goes on with its attempt.
LEMMA RunsOn ==
  ASSUME Provenance, Ledger, Running, Steady, NEW w \in Worker, call[w].pc \in Owning \ {"begin"},
         \A v \in Worker : v # w => call'[v] = call[v], UNCHANGED active,
         Runs(w)' => Runs(w), Job(w)' = Job(w), Att(w)'.no = Att(w).no, ~At(w, "begin")',
         call'[w].pc \in Decided => Saved(w) \/ attempts'[Att(w).no].status # "CREATED"
  PROVE  Running'
  <1>1. Att(w).no \in AttemptNo
    BY OwnerHas
  <1>2. Saved(w) => Saved(w)'
    BY <1>1 DEF Saved, Steady
  <1>3. Sealed(w)'
    BY <1>2 DEF Sealed, Decided, Deciding, Saved
  <1>4. Marked(w)'
    <2>1. Marked(w)
      BY DEF Running
    <2> QED
      BY <1>2, <2>1 DEF Marked, At
  <1>5. Runs(w)' => \A v \in Worker : v # w => ~Runs(v)
    BY DEF Running
  <1> QED
    BY <1>3, <1>4, <1>5, OthersRun

\* A duplicate only starts an attempt again when no call of the process runs it.
LEMMA ResumesAlone ==
  ASSUME OneProcess, Provenance, SeparateFailures, Exclusive, Ledger, Running, NEW w \in Worker,
         ResumeAttempt(w), NEW v \in Worker, v # w
  PROVE  ~Runs(v)
  <1> SUFFICES ASSUME Runs(v) PROVE FALSE
    OBVIOUS
  <1>1. PICK j, m : j = Job(w) /\ m = Mem(w)
    OBVIOUS
  <1>2. /\ call[w].pc = "find" /\ j \in FailedEvent /\ j \notin active[ProcessOf[w]]
        /\ attempts[m.events[j].attempt].status = "CREATED"
    BY <1>1 DEF ResumeAttempt, Recovering, FindFailed, InProgress, OnDisk, Own, RecordOf, At
  <1>3. w \in inside /\ SameBook(m, session)
    BY <1>1, <1>2 DEF Ledger, Fit, Locked, Locking, Copied, Reloads
  <1>4. call[v].pc \in Owning
    BY RunsOwns
  <1>5. Job(v) = j
    BY <1>1, <1>2, <1>4, OwnerHas DEF SeparateFailures
  <1>6. Att(v).no = m.events[j].attempt
    BY <1>2, <1>3, <1>4, <1>5, OwnerHas DEF SameBook
  <1>7. ~At(v, "begin")
    BY <1>3 DEF Ledger, Fit, Locked, Locking, At, Exclusive
  <1>8. j \in active[ProcessOf[v]] \/ attempts[Att(v).no].status # "CREATED"
    BY <1>5, <1>7 DEF Running, Marked, Saved
  <1> QED
    BY <1>2, <1>6, <1>8 DEF OneProcess

\* Duplicates are answered, or go on with an attempt that is saved or not run.
LEMMA DuplicateRuns ==
  ASSUME OneProcess, Provenance, SeparateFailures, Exclusive, Ledger, Running, NEW w \in Worker,
         ServeDuplicate(w)
  PROVE  Running'
  <1>1. Steady /\ Ledger' /\ UNCHANGED active /\ Fit(w)
    BY DuplicateFits DEF ServeDuplicate, ReplayResult, AnswerInProgress, RecoverWithoutAttempt,
           RecoverEnded,
                         ResumeAttempt, RecoverUnsafe, FinishUnsafe, Ledger
  <1>2. CASE ReplayResult(w) \/ AnswerInProgress(w) \/ RecoverWithoutAttempt(w) \/ FinishUnsafe(w)
    <2>1. \E r : Answer(w, r)
      BY <1>2 DEF ReplayResult, AnswerInProgress, RecoverWithoutAttempt, FinishUnsafe
    <2>2. call'[w].pc \notin Owning /\ \A v \in Worker : v # w => call'[v] = call[v]
      BY <2>1, AnswerIs DEF Owning, FailedLabel
    <2> QED
      BY <1>1, <2>2, LetsGo
  <1>3. CASE RecoverUnsafe(w)
    <2>1. call'[w].pc \notin Owning /\ \A v \in Worker : v # w => call'[v] = call[v]
      BY <1>3, GotoIs DEF RecoverUnsafe, Owning
    <2> QED
      BY <1>1, <2>1, LetsGo
  <1>4. CASE RecoverEnded(w)
    <2>1. PICK a, r : /\ a = OnDisk(w) /\ a.status # "CREATED" /\ Own(w).attempt # 0
                      /\ Continue(w, "discard", Mem(w), a, r) /\ UNCHANGED attempts
                      /\ call[w].pc = "find" /\ Job(w) \in FailedEvent
      BY <1>4 DEF RecoverEnded, Recovering, FindFailed, files, At
    <2>2. PICK j, m, k : j = Job(w) /\ m = Mem(w) /\ k = m.events[j].attempt
      OBVIOUS
    <2>3. /\ SameBook(m, session) /\ Entries(m, attempts, results) /\ m \in Session
          /\ j \in FailedEvent /\ k # 0 /\ a = attempts[k]
          /\ k = m.events[j].attempt /\ Tidy /\ ~call[w].guarded
      BY <1>1, <2>1, <2>2, Parts
         DEF Ledger, Fit, Copied, Working, Reloads, Owning, FailedLabel, OnDisk, Own, RecordOf
    <2>4. k \in AttemptNo
      BY <2>3, NamedAttempt
    <2>5. attempts[k].key = j
      BY <2>3 DEF Entries, Entry
    <2>6. a.no = k
      BY <2>3, <2>4, <2>5 DEF Tidy, Named
    <2>7. /\ call'[w].pc = "discard" /\ Att(w)' = a /\ ~call'[w].guarded
          /\ \A v \in Worker : v # w => call'[v] = call[v]
      BY <2>1, <2>3, ContinueIs
    <2>8. Saved(w)' /\ ~Runs(w)'
      BY <2>1, <2>3, <2>6, <2>7 DEF Saved, Runs, RunningLabels
    <2> QED
      BY <1>1, <2>7, <2>8, OthersRun DEF Sealed, Decided, Deciding, Marked
  <1>5. CASE ResumeAttempt(w)
    <2>1. /\ call'[w].pc = "begin" /\ \A v \in Worker : v # w => call'[v] = call[v]
      BY <1>5, ContinueIs DEF ResumeAttempt
    <2>2. \A v \in Worker : v # w => ~Runs(v)
      BY <1>5, ResumesAlone
    <2>3. Sealed(w)' /\ Marked(w)'
      BY <2>1 DEF Sealed, Decided, Deciding, Marked, At
    <2> QED
      BY <1>1, <2>1, <2>2, <2>3, OthersRun
  <1> QED
    BY <1>2, <1>3, <1>4, <1>5 DEF ServeDuplicate

\* A new failure is given its attempt while nothing runs.
LEMMA NewRuns ==
  ASSUME Provenance, SeparateFailures, Exclusive, Ledger, Running, NEW w \in Worker, ServeNew(w)
  PROVE  Running'
  <1>1. CASE RecordFailed(w)
    <2>1. /\ call'[w].pc = "create" /\ call[w].pc = "find" /\ UNCHANGED <<attempts, active>>
          /\ call'[w].guarded => call[w].guarded
          /\ \A v \in Worker : v # w => call'[v] = call[v]
      BY <1>1, ContinueIs DEF RecordFailed, FindFailed, At
    <2>2. ~call[w].guarded
      BY <2>1 DEF Ledger, Fit, Working, Owning, FailedLabel
    <2>3. ~Runs(w)' /\ Sealed(w)' /\ Marked(w)'
      BY <2>1, <2>2 DEF Runs, RunningLabels, Sealed, Decided, Deciding, Marked
    <2>4. ASSUME NEW v \in Worker, v # w
          PROVE  (Runs(v)' <=> Runs(v)) /\ (Saved(v)' <=> Saved(v)) /\ call'[v] = call[v] /\ Job(v)' = Job(v)
      BY <2>1, <2>4 DEF Runs, Saved, Att, Job
    <2>5. ASSUME NEW v \in Worker, v # w PROVE Sealed(v)' /\ Marked(v)'
      <3>1. Sealed(v) /\ Marked(v)
        BY DEF Running
      <3> QED
        BY <2>1, <2>4, <2>5, <3>1 DEF Sealed, Decided, Deciding, Marked, At
    <2> QED
      BY <2>3, <2>4, <2>5 DEF Running
  <1>2. CASE CreateAttempt(w) \/ LinkAttempt(w)
    <2>1. call[w].pc \in {"create", "link"} /\ call'[w].pc \in {"link", "begin"}
          /\ \A v \in Worker : v # w => call'[v] = call[v]
      BY <1>2, ContinueIs, GotoIs DEF CreateAttempt, LinkAttempt, At
    <2>2. w \in inside /\ session.events[Job(w)].attempt = 0 /\ Job(w) \in FailedEvent
      BY <2>1, Parts DEF Ledger, Fit, Locked, Locking, Making, FailedLabel
    <2>3. \A v \in Worker : v # w => call[v].pc \in Reloads /\ ~call[v].guarded
      BY <2>2, NoOther
    <2>4. \A v \in Worker : v # w => ~Runs(v)' /\ Sealed(v)' /\ Marked(v)'
      BY <2>1, <2>3 DEF Runs, Sealed, Decided, Deciding, Marked, Reloads, RunningLabels
    <2>5. Sealed(w)' /\ ~call'[w].guarded
      <3>1. ~call[w].guarded
        BY <2>1 DEF Ledger, Fit, Working, Owning, FailedLabel
      <3> QED
        BY <1>2, <2>1, <3>1, ContinueIs, GotoIs DEF Sealed, Decided, Deciding, CreateAttempt,
               LinkAttempt
    <2>6. Marked(w)'
      BY <2>1, <2>5 DEF Marked, Runs, RunningLabels, At
    <2> QED
      BY <2>4, <2>5, <2>6 DEF Running
  <1>3. CASE BeginRun(w)
    <2>1. /\ call[w].pc = "begin" /\ Continue(w, "input", session', Att(w), NoResult)
          /\ active' = [active EXCEPT ![ProcessOf[w]] = @ \cup {Job(w)}]
          /\ active \in [Process -> SUBSET Event] /\ ProcessOf[w] \in Process
      BY <1>3, ServiceAssumption DEF BeginRun, At, Provenance, Rest
    <2>2. /\ call'[w].pc = "input" /\ Job(w)' = Job(w) /\ \A v \in Worker : v # w => call'[v] = call[v]
      BY <2>1, ContinueIs
    <2>3. Steady
      BY <1>3, BeginFits
    <2>4. Sealed(w)' /\ Marked(w)'
      BY <2>1, <2>2 DEF Sealed, Decided, Deciding, Marked
    <2>5. \A v \in Worker : v # w => ~Runs(v)
      BY <2>1 DEF Running, Runs
    <2>6. \A v \in Worker : active[ProcessOf[v]] \subseteq active'[ProcessOf[v]]
      BY <2>1, ServiceAssumption
    <2> QED
      BY <2>2, <2>3, <2>4, <2>5, <2>6, OthersRun
  <1> QED
    BY <1>1, <1>2, <1>3 DEF ServeNew

\* The steps of the run save an attempt before its outcome is decided.
LEMMA RunRuns ==
  ASSUME Provenance, Ledger, Running, NEW w \in Worker, ServeRun(w)
  PROVE  Running'
  <1>1. Steady /\ UNCHANGED active /\ call[w].pc \in Owning \ {"begin"} /\ Sealed(w)
    BY RunFits DEF ServeRun, RejectInput, KeepPrevious, LoadPrevious, SavePrevious, AgentProposes,
           AgentStops, StopRun,
           AgentRaises,
                   SaveHumanAttempt, SaveHumanSession, history, At, Owning, FailedLabel, Running
  <1>2. Att(w).no \in AttemptNo /\ Att(w) \in Attempt /\ attempts \in [AttemptNo -> Attempt]
        /\ Runs(w)
    <2>1. Runs(w)
      BY DEF ServeRun, RejectInput, KeepPrevious, LoadPrevious, SavePrevious, AgentProposes,
             AgentStops, StopRun, AgentRaises,
             SaveHumanAttempt, SaveHumanSession, At, Runs, RunningLabels
    <2> QED
      BY <1>1, <2>1, OwnerHas
  <1>3. ASSUME \E l \in {"human", "previous", "run"} : Goto(w, l) PROVE Running'
    <2>1. /\ call'[w].pc \in {"human", "previous", "run"} /\ Job(w)' = Job(w) /\ Att(w)' = Att(w)
          /\ \A v \in Worker : v # w => call'[v] = call[v]
      BY <1>3, GotoIs
    <2> QED
      BY <1>1, <1>2, <2>1, RunsOn DEF At, Decided, Deciding
  <1>4. ASSUME AgentRaises(w) PROVE Running'
    <2>1. /\ call'[w].pc = "human" /\ Job(w)' = Job(w) /\ Att(w)' = Att(w)
          /\ \A v \in Worker : v # w => call'[v] = call[v]
      BY <1>4, RescueIs DEF AgentRaises
    <2> QED
      BY <1>1, <1>2, <2>1, RunsOn DEF At, Decided, Deciding
  <1>5. ASSUME NEW s \in Sql, AgentProposes(w, s) PROVE Running'
    <2>1. PICK a : a = [Att(w) EXCEPT !.status = "SQL_READY", !.sql = s]
      OBVIOUS
    <2>2. a.no = Att(w).no
      BY <1>2, <2>1 DEF Attempt
    <2>3. /\ call'[w].pc = "commit" /\ Job(w)' = Job(w) /\ Att(w)' = a
          /\ \A v \in Worker : v # w => call'[v] = call[v]
      BY <1>5, <2>1, ContinueIs DEF AgentProposes
    <2> QED
      BY <1>1, <1>2, <2>2, <2>3, RunsOn DEF At, Decided, Deciding
  <1>6. ASSUME NEW st \in AttemptStatus \ {"CREATED"}, NEW l \in {"stop", "human_session"},
               NEW m, NEW r, attempts' = [attempts EXCEPT ![Att(w).no] = WithStatus(Att(w), st)],
               Continue(w, l, m, WithStatus(Att(w), st), r)
        PROVE  Running'
    <2>1. PICK a : a = WithStatus(Att(w), st)
      OBVIOUS
    <2>2. a.no = Att(w).no /\ a.status = st
      BY <1>2, <2>1 DEF Attempt, WithStatus
    <2>3. /\ call'[w].pc = l /\ Job(w)' = Job(w) /\ Att(w)' = a
          /\ \A v \in Worker : v # w => call'[v] = call[v]
      BY <1>6, <2>1, ContinueIs
    <2>4. attempts'[Att(w).no].status # "CREATED"
      BY <1>2, <1>6, <2>1, <2>2
    <2> QED
      BY <1>1, <1>2, <2>2, <2>3, <2>4, RunsOn DEF At, Decided, Deciding
  <1>7. ASSUME StopRun(w) \/ SaveHumanSession(w) PROVE Running'
    <2>1. \E l \in {"human", "discard"} : Goto(w, l)
      BY <1>7 DEF StopRun, SaveHumanSession
    <2>2. /\ call'[w].pc \in {"human", "discard"} /\ Job(w)' = Job(w) /\ Att(w)' = Att(w)
          /\ \A v \in Worker : v # w => call'[v] = call[v]
      BY <2>1, GotoIs
    <2>3. Saved(w)
      BY <1>1, <1>7 DEF StopRun, SaveHumanSession, At, Sealed, Decided, Deciding
    <2> QED
      BY <1>1, <1>2, <2>2, <2>3, RunsOn DEF At, Decided, Deciding
  <1>8. ASSUME NEW st \in {"HUMAN_REQUIRED", "VALIDATION_BLOCKED", "REFLECTION_BLOCKED"},
               AgentStops(w, st)
        PROVE  Running'
    <2>1. PICK a : a = WithStatus(Att(w), st)
      OBVIOUS
    <2>2. a.no = Att(w).no
      BY <1>2, <2>1 DEF Attempt, WithStatus
    <2>3. /\ attempts' = [attempts EXCEPT ![Att(w).no] = a]
          /\ \E r : Continue(w, "stop", Mem(w), a, r)
      BY <1>8, <2>1, <2>2 DEF AgentStops
    <2> QED
      BY <1>6, <2>1, <2>3 DEF AttemptStatus
  <1>9. ASSUME SaveHumanAttempt(w) PROVE Running'
    <2>1. PICK a : a = WithStatus(Att(w), "HUMAN_REQUIRED")
      OBVIOUS
    <2>2. a.no = Att(w).no
      BY <1>2, <2>1 DEF Attempt, WithStatus
    <2>3. /\ attempts' = [attempts EXCEPT ![Att(w).no] = a]
          /\ \E m, r : Continue(w, "human_session", m, a, r)
      BY <1>9, <2>1, <2>2 DEF SaveHumanAttempt
    <2> QED
      BY <1>6, <2>1, <2>3 DEF AttemptStatus
  <1> QED
    BY <1>3, <1>4, <1>5, <1>7, <1>8, <1>9 DEF ServeRun, RejectInput, KeepPrevious, LoadPrevious,
           SavePrevious

\* A commit saves the attempt first.
LEMMA CommitRuns ==
  ASSUME Provenance, Ledger, Running, NEW w \in Worker, ServeCommit(w)
  PROVE  Running'
  <1>1. /\ Steady /\ UNCHANGED active /\ call[w].pc \in {"commit", "commit_session", "commit_done"}
        /\ Sealed(w)
    BY CommitFits DEF ServeCommit, CommitFails, CommitRefused, CommitAttempt, CommitSession,
           CommitDone,
                      history, At, Running
  <1>2. call[w].pc \in Owning \ {"begin"} /\ Runs(w)
    BY <1>1 DEF Owning, FailedLabel, Runs, RunningLabels
  <1>3. Att(w).no \in AttemptNo /\ attempts \in [AttemptNo -> Attempt] /\ Att(w).status = "SQL_READY"
    BY <1>1, <1>2, OwnerHas DEF Fit, Working
  <1>4. CASE CommitFails(w) \/ CommitRefused(w)
    <2>1. /\ call'[w].pc = "human" /\ Job(w)' = Job(w) /\ Att(w)' = Att(w)
          /\ \A v \in Worker : v # w => call'[v] = call[v]
      BY <1>4, GotoIs, RescueIs DEF CommitFails, CommitRefused
    <2> QED
      BY <1>1, <1>2, <2>1, RunsOn DEF At, Decided, Deciding
  <1>5. CASE CommitAttempt(w)
    <2>1. PICK a : a = Att(w)
      OBVIOUS
    <2>2. /\ attempts' = [attempts EXCEPT ![a.no] = a]
          /\ \E m, r : Continue(w, "commit_session", m, a, r)
      BY <1>5, <2>1 DEF CommitAttempt
    <2>3. /\ call'[w].pc = "commit_session" /\ Job(w)' = Job(w) /\ Att(w)' = a
          /\ \A v \in Worker : v # w => call'[v] = call[v]
      BY <2>2, ContinueIs
    <2>4. attempts'[a.no].status # "CREATED"
      BY <1>3, <2>1, <2>2
    <2> QED
      BY <1>1, <1>2, <2>1, <2>3, <2>4, RunsOn DEF At, Decided, Deciding
  <1>6. CASE CommitSession(w) \/ CommitDone(w)
    <2>1. /\ call'[w].pc \in {"commit_done", "discard"} /\ Job(w)' = Job(w) /\ Att(w)' = Att(w)
          /\ \A v \in Worker : v # w => call'[v] = call[v]
      BY <1>6, GotoIs DEF CommitSession, CommitDone
    <2>2. Saved(w)
      BY <1>1, <1>6 DEF CommitSession, CommitDone, At, Sealed, Decided, Deciding
    <2> QED
      BY <1>1, <1>2, <2>1, <2>2, RunsOn DEF At, Decided, Deciding
  <1> QED
    BY <1>4, <1>5, <1>6 DEF ServeCommit

\* An event stops being active once its attempt is saved.
LEMMA ResultRuns ==
  ASSUME Provenance, Ledger, SeparateFailures, Running, NEW w \in Worker, ServeResult(w)
  PROVE  Running'
  <1>1. Steady /\ Ledger' /\ call[w].pc \in {"discard", "persist", "finish"}
    BY ResultFits DEF ServeResult, DiscardActive, WriteResult, FinishFailed, At
  <1>2. call[w].pc \in Owning \ {"begin"} /\ Saved(w)
    BY <1>1 DEF Owning, FailedLabel, Running, Sealed, Decided, Deciding
  <1>3. CASE DiscardActive(w)
    <2>1. /\ call'[w].pc = "persist" /\ Job(w)' = Job(w) /\ Att(w)' = Att(w)
          /\ call'[w].guarded => call[w].guarded
          /\ \A v \in Worker : v # w => call'[v] = call[v]
      BY <1>3, GotoIs DEF DiscardActive
    <2>2. Saved(w)'
      <3>1. Att(w).no \in AttemptNo
        BY <1>2, OwnerHas
      <3> QED
        BY <1>1, <1>2, <2>1, <3>1 DEF Steady, Saved
    <2>3. Runs(w)' => Runs(w)
      BY <2>1 DEF Runs, RunningLabels
    <2>4. ASSUME NEW v \in Worker, v # w, Runs(v), Job(v) \in active[ProcessOf[v]]
          PROVE  Saved(v)
      <3>1. call[v].pc \in Owning
        BY <2>4, RunsOwns
      <3>2. Job(v) = Job(w)
        BY <1>2, <3>1, OwnerHas DEF SeparateFailures
      <3>3. Att(v).no = Att(w).no
        BY <1>2, <3>1, <3>2, OwnerHas
      <3> QED
        BY <1>2, <3>3 DEF Saved
    <2>5. Runs(w)' => \A v \in Worker : v # w => ~Runs(v)
      BY <2>3 DEF Running
    <2>6. Sealed(w)' /\ Marked(w)'
      BY <2>2 DEF Sealed, Decided, Deciding, Marked
    <2> QED
      BY <1>1, <2>1, <2>4, <2>5, <2>6, OthersRun
  <1>4. CASE WriteResult(w)
    <2>1. /\ call'[w].pc = "finish" /\ Job(w)' = Job(w) /\ Att(w)' = Att(w) /\ UNCHANGED active
          /\ call'[w].guarded => call[w].guarded
          /\ \A v \in Worker : v # w => call'[v] = call[v]
      BY <1>4, GotoIs DEF WriteResult
    <2>2. Runs(w)' => Runs(w)
      BY <2>1 DEF Runs, RunningLabels
    <2> QED
      BY <1>1, <1>2, <2>1, <2>2, RunsOn DEF At, Decided, Deciding
  <1>5. CASE FinishFailed(w)
    <2>1. /\ call'[w].pc \notin Owning /\ UNCHANGED active
          /\ \A v \in Worker : v # w => call'[v] = call[v]
      BY <1>5, AnswerIs DEF FinishFailed, Owning, FailedLabel
    <2> QED
      BY <1>1, <2>1, LetsGo
  <1> QED
    BY <1>3, <1>4, <1>5 DEF ServeResult

\* Entering, SUCCESS events and errors leave a call without an attempt, or
\* with the one it ran.
LEMMA RestRuns ==
  ASSUME Provenance, SeparateFailures, Exclusive, Ledger, Running, NEW w \in Worker,
         \/ EnterSession(w) \/ LockTimeout(w) \/ ServeSuccess(w)
         \/ ErrorIsCaught(w) \/ ErrorIsRaised(w) \/ SuccessError(w)
  PROVE  Running'
  <1>1. Steady /\ Ledger'
    BY EnterFits, SuccessFits, ErrorFits
  <1>2. CASE ErrorIsCaught(w)
    <2>1. /\ call'[w].pc = "human" /\ Job(w)' = Job(w) /\ Att(w)' = Att(w) /\ UNCHANGED active
          /\ call[w].guarded /\ \A v \in Worker : v # w => call'[v] = call[v]
      BY <1>2, RescueIs DEF ErrorIsCaught
    <2>2. Runs(w) /\ call[w].pc \in Owning \ {"begin"}
      BY <2>1 DEF Ledger, Fit, Working, Runs
    <2> QED
      BY <1>1, <2>1, <2>2, RunsOn DEF At, Decided, Deciding
  <1>3. CASE ErrorIsRaised(w)
    <2>1. /\ call'[w].pc \notin Owning /\ \A v \in Worker : v # w => call'[v] = call[v]
          /\ active \in [Process -> SUBSET Event]
      BY <1>3, AnswerIs DEF ErrorIsRaised, Owning, FailedLabel, Provenance, Rest
    <2>2. \A p \in Process : active[p] \subseteq active'[p]
      BY <1>3, <2>1 DEF ErrorIsRaised
    <2> QED
      BY <1>1, <2>1, <2>2, LetsGo
  <1>4. CASE SuccessError(w)
    <2>1. /\ call'[w].pc \notin Owning /\ UNCHANGED active
          /\ \A v \in Worker : v # w => call'[v] = call[v]
      BY <1>4, AnswerIs, GotoIs DEF SuccessError, Owning, FailedLabel
    <2> QED
      BY <1>1, <2>1, LetsGo
  <1>5. CASE EnterSession(w) \/ LockTimeout(w) \/ ServeSuccess(w)
    <2>1. UNCHANGED active
      BY <1>5 DEF EnterSession, LockAndLoad, LockTimeout, ServeSuccess, AckDuplicate, RecordSuccess,
             AckUnmatched, ConfirmAttempt, ConfirmSession, WriteMemory, MemoryDegraded,
             ReloadForFinish,
             ReloadForDegrade, FinishSuccess, FinishDegraded, SaveFinished, DegradeTimeout
    <2>2. \/ \E l \in Label \ Owning : Goto(w, l)
          \/ \E l \in Label \ Owning : \E m, a, r : Continue(w, l, m, a, r)
          \/ \E r : Answer(w, r)
      <3>1. {"find", "match", "confirm", "memory", "finish_lock", "degrade_lock", "finish_success", "degrade"}
              \subseteq Label \ Owning
        BY DEF Label, Owning, FailedLabel
      <3> QED
        BY <1>5, <3>1 DEF EnterSession, LockAndLoad, LockTimeout, ServeSuccess, AckDuplicate,
               RecordSuccess,
             AckUnmatched, ConfirmAttempt, ConfirmSession, WriteMemory, MemoryDegraded,
             ReloadForFinish,
             ReloadForDegrade, FinishSuccess, FinishDegraded, SaveFinished, DegradeTimeout
    <2>3. call'[w].pc \notin Owning /\ \A v \in Worker : v # w => call'[v] = call[v]
      BY <2>2, GotoIs, ContinueIs, AnswerIs DEF Owning, FailedLabel
    <2> QED
      BY <1>1, <2>1, <2>3, LetsGo
  <1> QED
    BY <1>2, <1>3, <1>4, <1>5

\* A call arrives, the process dies with all its calls, a lock is reclaimed.
LEMMA OuterRuns ==
  ASSUME OneProcess, Provenance, SeparateFailures, Exclusive, Ledger, Running,
         \/ \E w \in Worker, e \in Event : Submit(w, e)
         \/ \E p \in Process : Crash(p)
         \/ \E w \in Worker : FindStale(w) \/ RemoveStale(w)
         \/ UNCHANGED vars
  PROVE  Running'
  <1>1. Steady /\ Ledger'
    BY OuterFits
  <1>2. ASSUME NEW w \in Worker, NEW e \in Event, Submit(w, e) PROVE Running'
    <2>1. /\ call'[w].pc \notin Owning /\ UNCHANGED active
          /\ \A v \in Worker : v # w => call'[v] = call[v]
      <3>1. PICK c : c = [IdleCall EXCEPT !.pc = "lock", !.job = e]
        OBVIOUS
      <3>2. c.pc = "lock"
        BY <3>1 DEF IdleCall
      <3> QED
        BY <1>2, <3>1, <3>2 DEF Submit, Provenance, Calls, Owning, FailedLabel
    <2> QED
      BY <1>1, <2>1, LetsGo
  <1>3. ASSUME NEW p \in Process, Crash(p) PROVE Running'
    <2>1. \A w \in Worker : ProcessOf[w] = p
      BY <1>3 DEF Crash, OneProcess
    <2>2. \A w \in Worker : call'[w] = IdleCall
      BY <1>3, <2>1 DEF Crash
    <2> QED
      BY <2>2 DEF Running, Runs, Sealed, Decided, Deciding, Marked, RunningLabels, IdleCall
  <1>4. ASSUME UNCHANGED <<attempts, active, call>> PROVE Running'
    BY <1>4 DEF Running, Runs, Sealed, Decided, Deciding, Marked, Saved, Att, Job, At
  <1> QED
    BY <1>2, <1>3, <1>4 DEF FindStale, RemoveStale, vars, files

\* In one process a second run of an attempt never starts, and an attempt is saved
\* before its event stops being active.
LEMMA RunningStays ==
  ASSUME OneProcess PROVE Spec /\ []SeparateFailures /\ []Exclusive => []Running
  <1>1. Init => Running
    BY DEF Init, Running, Runs, Sealed, Decided, Deciding, Marked, RunningLabels, IdleCall
  <1>2. Provenance /\ SeparateFailures /\ Exclusive /\ Ledger /\ Running /\ [Next]_vars => Running'
    <2> SUFFICES ASSUME Provenance, SeparateFailures, Exclusive, Ledger, Running, [Next]_vars PROVE Running'
      OBVIOUS
    <2>1. ASSUME NEW w \in Worker, Serve(w) PROVE Running'
      BY <2>1, DuplicateRuns, NewRuns, RunRuns, CommitRuns, ResultRuns, RestRuns, OuterRuns
         DEF Serve
    <2> QED
      BY <2>1, RestRuns, OuterRuns DEF Next, Quiet
  <1> QED
    BY <1>1, <1>2, LedgerStays, ProvenanceInvariant, PTL DEF Spec

\* In one process no two calls run the same attempt, however often its event is
\* reported while it runs, and although the set of active events forgets it
\* before its result is stored, as long as the lock excludes.
THEOREM OneRunAtATime ==
  ASSUME OneProcess PROVE Spec /\ []SeparateFailures /\ []Exclusive => []SingleRunner
  <1>1. Running => SingleRunner
    BY DEF Running, Runs, SingleRunner
  <1> QED
    BY <1>1, RunningStays, PTL

-----------------------------------------------------------------------------
(* The candidate while duplicates overlap in one process: the invariant Offering *)

\* Two copies have the same candidate.
SameOffer(s, t) == s.sql = t.sql /\ s.sqlAttempt = t.sqlAttempt /\ s.count = t.count

\* Only an attempt the session counts proposes SQL.
Counted ==
  \A n \in AttemptNo :
    attempts[n].sql # NoSql => n <= session.count /\ attempts[n].key \in FailedEvent

\* The attempt on file proposes nothing the call that runs it does not know of.
Abreast(n, s) == n \in AttemptNo /\ attempts[n].sql \in {NoSql, s}

\* Every copy that a call may save has the SQL of an attempt as its candidate.
Offered(w) ==
  /\ call[w].pc \notin Reloads => Candidate(Mem(w), attempts)
  /\ call[w].pc \in {"commit_session", "commit_done"} => Candidate(call[w].kept, attempts)
  /\ Runs(w) => Abreast(Att(w).no, Att(w).sql)
  /\ At(w, "previous") => call[w].prev.sql = Mem(w).sql

Offering == Candidate(session, attempts) /\ Counted /\ \A w \in Worker : Offered(w)

\* No attempt loses or changes the SQL it proposes.
Proposed == \A n \in AttemptNo : attempts[n].sql # NoSql => attempts'[n].sql = attempts[n].sql

\* A copy keeps a good candidate while attempts keep their SQL.
LEMMA CandidateStays ==
  ASSUME NEW A, NEW A2, NEW s \in Session, NEW t, Candidate(s, A), SameOffer(t, s),
         \A n \in AttemptNo : A[n].sql # NoSql => A2[n].sql = A[n].sql
  PROVE  Candidate(t, A2)
  <1>1. s.sqlAttempt \in 0 .. MaxAttempts
    BY DEF Session
  <1> QED
    BY <1>1, ServiceAssumption DEF Candidate, SameOffer, AttemptNo

\* Replacing a record leaves the candidate.
LEMMA PutOffers ==
  ASSUME NEW m \in Session, NEW e, NEW r
  PROVE  /\ SameOffer(PutRecord(m, e, r), m)
         /\ \A st, ref, error : SameOffer(FinishEvent(m, e, st, ref, error), m)
  BY DEF SameOffer, PutRecord, FinishEvent, Session

\* A step of one call that keeps what attempts propose keeps the other calls.
LEMMA OthersOffer ==
  ASSUME Provenance, Ledger, Running, Offering, Proposed, NEW w \in Worker,
         \A v \in Worker : v # w => call'[v] = call[v],
         \A n \in AttemptNo :
           attempts'[n].sql \notin {attempts[n].sql, NoSql} => Runs(w),
         Candidate(session', attempts'), Counted', Offered(w)'
  PROVE  Offering'
  <1>1. PICK A, A2 : A = attempts /\ A2 = attempts'
    OBVIOUS
  <1>2. ASSUME NEW v \in Worker, v # w PROVE Offered(v)'
    <2>1. PICK m, k, a : m = Mem(v) /\ k = call[v].kept /\ a = Att(v)
      OBVIOUS
    <2>2. /\ call'[v] = call[v] /\ Mem(v)' = m /\ call'[v].kept = k /\ Att(v)' = a
          /\ m \in Session /\ k \in Session
      BY <1>2, <2>1, Parts DEF Mem, Att
    <2>3. /\ call[v].pc \notin Reloads => Candidate(m, A)
          /\ call[v].pc \in {"commit_session", "commit_done"} => Candidate(k, A)
          /\ Runs(v) => Abreast(a.no, a.sql)
      BY <1>1, <2>1 DEF Offering, Offered
    <2>4. /\ Candidate(m, A) => Candidate(m, A2)
          /\ Candidate(k, A) => Candidate(k, A2)
      BY <1>1, <2>2, CandidateStays DEF SameOffer, Proposed
    <2>5. ASSUME Runs(v) PROVE Abreast(a.no, a.sql)'
      <3>1. ~Runs(w)
        BY <1>2, <2>5 DEF Running
      <3>2. a.no \in AttemptNo /\ attempts[a.no].sql \in {NoSql, a.sql}
        BY <2>3, <2>5 DEF Abreast
      <3> QED
        BY <2>2, <3>1, <3>2 DEF Abreast
    <2>6. Runs(v)' => Runs(v)
      BY <2>2 DEF Runs
    <2>7. (Runs(v) => Abreast(Att(v).no, Att(v).sql))'
      BY <2>2, <2>5, <2>6 DEF Abreast
    <2>8. (At(v, "previous") => call[v].prev.sql = Mem(v).sql)'
      BY <2>2 DEF Offering, Offered, At, Mem
    <2> QED
      BY <1>1, <2>2, <2>3, <2>4, <2>7, <2>8 DEF Offered
  <1> QED
    BY <1>2 DEF Offering

\* A step that leaves what attempts propose, and saves or takes a copy that is there.
LEMMA CarriesOffer ==
  ASSUME Provenance, Ledger, Running, Offering, NEW w \in Worker,
         \A v \in Worker : v # w => call'[v] = call[v],
         \A n \in AttemptNo :
           attempts'[n].sql = attempts[n].sql /\ attempts'[n].key = attempts[n].key,
         \/ UNCHANGED session
         \/ call[w].pc \notin Reloads \cup {"link"} /\ SameOffer(session', Mem(w)),
         \/ call'[w].pc \in Reloads
         \/ SameOffer(Mem(w)', session)
         \/ call[w].pc \notin Reloads /\ SameOffer(Mem(w)', Mem(w))
         \/ call[w].pc \in {"commit_session", "commit_done"} /\ SameOffer(Mem(w)', call[w].kept),
         call'[w].pc \in {"commit_session", "commit_done"} =>
           call[w].pc \in {"commit_session", "commit_done"} /\ call'[w].kept = call[w].kept,
         Runs(w)' => \/ Runs(w) /\ Att(w)' = Att(w)
                     \/ Abreast(Att(w)'.no, Att(w)'.sql),
         call'[w].pc = "previous" => call'[w].prev.sql = Mem(w)'.sql
  PROVE  Offering'
  <1>1. PICK A, A2, s, m, k :
          A = attempts /\ A2 = attempts' /\ s = session /\ m = Mem(w) /\ k = call[w].kept
    OBVIOUS
  <1>2. s \in Session /\ m \in Session /\ k \in Session /\ Fit(w)
    BY <1>1, Parts DEF Ledger
  <1>3. /\ Candidate(s, A) /\ Counted /\ Offered(w)
        /\ call[w].pc \notin Reloads => Candidate(m, A)
        /\ call[w].pc \in {"commit_session", "commit_done"} => Candidate(k, A)
    BY <1>1 DEF Offering, Offered
  <1>4. \A n \in AttemptNo : A2[n].sql = A[n].sql
    BY <1>1
  <1>5. ASSUME NEW c \in Session, Candidate(c, A), NEW d, SameOffer(d, c) PROVE Candidate(d, A2)
    BY <1>4, <1>5, CandidateStays
  <1>6. Candidate(session', attempts') /\ session'.count = session.count
    <2>1. CASE UNCHANGED session
      BY <1>1, <1>2, <1>3, <1>5, <2>1 DEF SameOffer
    <2>2. CASE call[w].pc \notin Reloads \cup {"link"} /\ SameOffer(session', Mem(w))
      <3>1. m.count = s.count
        BY <1>1, <1>2, <2>2 DEF Fit, Copied, SameBook
      <3>2. Candidate(session', A2)
        BY <1>1, <1>2, <1>3, <1>5, <2>2
      <3> QED
        BY <1>1, <2>2, <3>1, <3>2 DEF SameOffer
    <2> QED
      BY <2>1, <2>2
  <1>7. Counted'
    BY <1>3, <1>6 DEF Counted
  <1>8. call'[w].pc \notin Reloads => Candidate(Mem(w)', attempts')
    BY <1>1, <1>2, <1>3, <1>5
  <1>9. call'[w].pc \in {"commit_session", "commit_done"} => Candidate(call'[w].kept, attempts')
    BY <1>1, <1>2, <1>3, <1>5 DEF SameOffer
  <1>10. Runs(w)' => Abreast(Att(w).no, Att(w).sql)'
    <2>1. Runs(w) => Abreast(Att(w).no, Att(w).sql)
      BY <1>3 DEF Offered
    <2>2. ASSUME NEW n, NEW q, Abreast(n, q) PROVE Abreast(n, q)'
      BY <2>2 DEF Abreast
    <2>3. PICK a : a = Att(w)'
      OBVIOUS
    <2>4. Runs(w)' => Abreast(a.no, a.sql)
      BY <2>1, <2>3
    <2>5. Runs(w)' => Abreast(a.no, a.sql)'
      BY <2>2, <2>4
    <2> QED
      BY <2>3, <2>5 DEF Abreast
  <1>11. Offered(w)'
    BY <1>8, <1>9, <1>10 DEF Offered, At
  <1>12. Proposed /\ \A n \in AttemptNo : attempts'[n].sql \in {attempts[n].sql, NoSql}
    BY DEF Proposed
  <1> QED
    BY <1>6, <1>7, <1>11, <1>12, OthersOffer

\* A call that is answered.
LEMMA AnswersOffer ==
  ASSUME Provenance, Ledger, Running, Offering, NEW w \in Worker, NEW r, Answer(w, r),
         UNCHANGED attempts,
         \/ UNCHANGED session
         \/ call[w].pc \notin Reloads \cup {"link"} /\ SameOffer(session', Mem(w))
  PROVE  Offering'
  <1>1. /\ call'[w].pc = "idle" /\ ~call'[w].guarded
        /\ \A v \in Worker : v # w => call'[v] = call[v]
    BY AnswerIs
  <1>2. ~Runs(w)' /\ call'[w].pc \in Reloads /\ call'[w].pc \notin {"commit_session", "commit_done"}
    BY <1>1 DEF Runs, RunningLabels, Reloads
  <1> QED
    BY <1>1, <1>2, CarriesOffer

\* A call keeps its place and its copies, or moves on with them.
LEMMA GoesOffer ==
  ASSUME Provenance, Ledger, Running, Offering, NEW w \in Worker, NEW l, Goto(w, l),
         call[w].pc \notin Reloads \cup {"link"},
         \A n \in AttemptNo :
           attempts'[n].sql = attempts[n].sql /\ attempts'[n].key = attempts[n].key,
         UNCHANGED session \/ session' = Mem(w),
         l \notin {"previous", "commit_session"},
         l = "commit_done" => call[w].pc = "commit_session",
         l \in RunningLabels \cup {"begin"} => Runs(w)
  PROVE  Offering'
  <1>1. /\ call'[w].pc = l /\ Mem(w)' = Mem(w) /\ Att(w)' = Att(w)
        /\ call'[w].guarded => call[w].guarded \/ l = "run"
        /\ call'[w].kept = Kept(w, l) /\ \A v \in Worker : v # w => call'[v] = call[v]
    BY GotoIs
  <1>2. Runs(w)' => Runs(w)
    BY <1>1 DEF Runs, RunningLabels
  <1>3. l = "commit_done" => call'[w].kept = call[w].kept
    BY <1>1 DEF Kept
  <1>4. SameOffer(Mem(w)', Mem(w)) /\ (UNCHANGED session \/ SameOffer(session', Mem(w)))
    BY <1>1 DEF SameOffer
  <1> QED
    BY <1>1, <1>2, <1>3, <1>4, CarriesOffer

\* Duplicates start an attempt again as it is on file, or leave it.
LEMMA DuplicateOffers ==
  ASSUME Provenance, Ledger, Running, Offering, NEW w \in Worker, ServeDuplicate(w)
  PROVE  Offering'
  <1>1. /\ call[w].pc \in {"find", "unsafe"} /\ Mem(w) \in Session /\ Fit(w)
        /\ attempts \in [AttemptNo -> Attempt] /\ ~call[w].guarded
        /\ At(w, "find") => Job(w) \in FailedEvent
    <2>1. call[w].pc \in {"find", "unsafe"} /\ (At(w, "find") => Job(w) \in FailedEvent)
      BY DEF ServeDuplicate, ReplayResult, AnswerInProgress, RecoverWithoutAttempt, RecoverEnded,
             ResumeAttempt, RecoverUnsafe, FinishUnsafe, Recovering, FindFailed, At
    <2> QED
      BY <2>1, Parts DEF Ledger, Fit, Working, Owning, FailedLabel
  <1>2. CASE ReplayResult(w) \/ AnswerInProgress(w) \/ RecoverWithoutAttempt(w) \/ FinishUnsafe(w)
    <2>1. \E r : Answer(w, r)
      BY <1>2 DEF ReplayResult, AnswerInProgress, RecoverWithoutAttempt, FinishUnsafe
    <2>2. UNCHANGED attempts /\ (UNCHANGED session \/ SameOffer(session', Mem(w)))
      BY <1>1, <1>2, PutOffers
         DEF ReplayResult, AnswerInProgress, RecoverWithoutAttempt, FinishUnsafe, files
    <2> QED
      BY <1>1, <2>1, <2>2, AnswersOffer DEF Reloads
  <1>3. PICK k : k = Own(w).attempt
    OBVIOUS
  <1>4. ASSUME Recovering(w), k # 0 PROVE k \in AttemptNo /\ attempts[k].no = k
    <2>1. PICK m, e : m = Mem(w) /\ e = Job(w)
      OBVIOUS
    <2>2. /\ m \in Session /\ SameBook(m, session) /\ Entries(m, attempts, results) /\ Tidy
          /\ e \in FailedEvent /\ k = m.events[e].attempt /\ k # 0
      BY <1>1, <1>3, <1>4, <2>1
         DEF Recovering, FindFailed, At, Ledger, Fit, Copied, Reloads, Own, RecordOf
    <2>3. k \in AttemptNo
      BY <2>2, NamedAttempt
    <2>4. attempts[k].key = e
      BY <2>2 DEF Entries, Entry
    <2> QED
      BY <2>2, <2>3, <2>4 DEF Tidy, Named
  <1>5. CASE RecoverEnded(w) \/ ResumeAttempt(w)
    <2>1. PICK l, r : /\ l \in {"discard", "begin"} /\ Continue(w, l, Mem(w), attempts[k], r)
                      /\ UNCHANGED <<session, attempts>> /\ Recovering(w) /\ k # 0
      BY <1>3, <1>5 DEF RecoverEnded, ResumeAttempt, OnDisk, files
    <2>2. k \in AttemptNo /\ attempts[k].no = k
      BY <1>4, <2>1
    <2>3. PICK a : a = attempts[k]
      OBVIOUS
    <2>4. /\ call'[w].pc = l /\ Mem(w)' = Mem(w) /\ Att(w)' = a
          /\ \A v \in Worker : v # w => call'[v] = call[v]
      BY <2>1, <2>3, ContinueIs
    <2>5. Abreast(Att(w)'.no, Att(w)'.sql)
      BY <2>2, <2>3, <2>4 DEF Abreast
    <2>6. /\ call[w].pc \notin Reloads /\ SameOffer(Mem(w)', Mem(w))
          /\ call'[w].pc \notin {"commit_session", "commit_done"}
      BY <1>1, <2>1, <2>4 DEF Reloads, SameOffer
    <2> QED
      BY <2>1, <2>4, <2>5, <2>6, CarriesOffer
  <1>6. CASE RecoverUnsafe(w)
    <2>1. /\ Recovering(w) /\ k # 0 /\ Goto(w, "unsafe") /\ UNCHANGED session
          /\ attempts' = [attempts EXCEPT ![k] = WithStatus(@, "HUMAN_REQUIRED")]
      BY <1>3, <1>6 DEF RecoverUnsafe
    <2>2. k \in AttemptNo
      BY <1>4, <2>1
    <2>3. \A n \in AttemptNo : attempts'[n].sql = attempts[n].sql /\ attempts'[n].key = attempts[n].key
      BY <1>1, <2>1, <2>2 DEF WithStatus, Attempt
    <2> QED
      BY <1>1, <2>1, <2>3, GoesOffer DEF RunningLabels, Reloads
  <1> QED
    BY <1>2, <1>5, <1>6 DEF ServeDuplicate

\* A new attempt proposes nothing yet, and nothing is on file under its number.
LEMMA NewOffers ==
  ASSUME Provenance, Ledger, Running, Offering, NEW w \in Worker, ServeNew(w)
  PROVE  Offering'
  <1>1. /\ call[w].pc \in {"find", "create", "link", "begin"} /\ Mem(w) \in Session /\ Fit(w)
        /\ session \in Session /\ Att(w) \in Attempt /\ Job(w) \in FailedEvent
        /\ attempts \in [AttemptNo -> Attempt] /\ ~call[w].guarded
    <2>1. call[w].pc \in {"find", "create", "link", "begin"} /\ (At(w, "find") => Job(w) \in FailedEvent)
      BY DEF ServeNew, RecordFailed, CreateAttempt, LinkAttempt, BeginRun, FindFailed, At
    <2> QED
      BY <2>1, Parts DEF Ledger, Fit, Working, Owning, FailedLabel, At
  <1>2. PICK m : m = Mem(w)
    OBVIOUS
  <1>3. Candidate(m, attempts) /\ Counted /\ call[w].pc \notin Reloads
    BY <1>1, <1>2 DEF Offering, Offered, Reloads
  <1>4. CASE RecordFailed(w)
    <2>1. PICK q : q = session'
      OBVIOUS
    <2>2. Continue(w, "create", q, NoAttempt, NoResult) /\ UNCHANGED attempts /\ At(w, "find")
      BY <1>4, <2>1 DEF RecordFailed, FindFailed
    <2>3. /\ call'[w].pc = "create" /\ Mem(w)' = q /\ (call'[w].guarded => call[w].guarded)
          /\ \A v \in Worker : v # w => call'[v] = call[v]
      BY <2>2, ContinueIs
    <2>4. SameOffer(session', Mem(w)) /\ SameOffer(Mem(w)', Mem(w))
      BY <1>1, <1>4, <2>1, <2>3, PutOffers DEF RecordFailed
    <2>5. ~Runs(w)'
      BY <1>1, <2>3 DEF Runs, RunningLabels
    <2> QED
      BY <1>1, <1>3, <2>2, <2>3, <2>4, <2>5, CarriesOffer DEF At
  <1>5. CASE CreateAttempt(w)
    <2>1. PICK n, a, r : /\ n = m.count + 1 /\ n \in AttemptNo
                         /\ a = [no |-> n, status |-> "CREATED", key |-> Job(w), sql |-> NoSql]
                         /\ r = [Own(w) EXCEPT !.status = "PROCESSING", !.attempt = n]
      BY <1>2, <1>5 DEF CreateAttempt
    <2>2. PICK q : q = [PutRecord(m, Job(w), r) EXCEPT !.count = n]
      OBVIOUS
    <2>3. /\ At(w, "create") /\ attempts' = [attempts EXCEPT ![n] = a] /\ UNCHANGED session
          /\ Continue(w, "link", q, a, NoResult)
      BY <1>2, <1>5, <2>1, <2>2 DEF CreateAttempt
    <2>4. /\ call'[w].pc = "link" /\ Mem(w)' = q /\ (call'[w].guarded => call[w].guarded)
          /\ \A v \in Worker : v # w => call'[v] = call[v]
      BY <2>3, ContinueIs
    <2>5. m.count = session.count /\ session.count \in Nat
      BY <1>1, <1>2, <2>3, ServiceAssumption DEF Fit, Copied, SameBook, Reloads, At, Session
    <2>6. attempts[n].sql = NoSql
      BY <1>3, <2>1, <2>5 DEF Counted
    <2>7. attempts'[n].sql = NoSql /\ \A x \in AttemptNo : x # n => attempts'[x] = attempts[x]
      BY <1>1, <2>1, <2>3
    <2>8. Proposed /\ \A x \in AttemptNo : attempts'[x].sql \in {attempts[x].sql, NoSql}
      BY <2>6, <2>7 DEF Proposed
    <2>9. Counted'
      BY <1>3, <2>3, <2>7 DEF Counted
    <2>10. PICK A, A2, s : A = attempts /\ A2 = attempts' /\ s = session
      OBVIOUS
    <2>11. Candidate(m, A2) /\ Candidate(s, A2)
      BY <1>1, <1>2, <1>3, <2>8, <2>10, CandidateStays DEF Offering, Proposed, SameOffer
    <2>12. Candidate(q, A2)
      <3>1. q.sql = m.sql /\ q.sqlAttempt = m.sqlAttempt /\ q.count = m.count + 1
        BY <1>1, <1>2, <2>1, <2>2 DEF PutRecord, Session
      <3>2. m.sqlAttempt \in Nat /\ m.count \in Nat
        BY <1>1, <1>2, ServiceAssumption DEF Session
      <3> QED
        BY <2>11, <3>1, <3>2 DEF Candidate
    <2>13. Offered(w)'
      BY <1>1, <2>4, <2>10, <2>12 DEF Offered, Runs, RunningLabels, At
    <2> QED
      BY <2>3, <2>4, <2>8, <2>9, <2>10, <2>11, <2>13, OthersOffer
  <1>6. CASE LinkAttempt(w)
    <2>1. At(w, "link") /\ Goto(w, "begin") /\ session' = m /\ UNCHANGED attempts
      BY <1>2, <1>6 DEF LinkAttempt
    <2>2. /\ call'[w].pc = "begin" /\ Mem(w)' = m /\ Att(w)' = Att(w)
          /\ \A v \in Worker : v # w => call'[v] = call[v]
      BY <1>2, <2>1, GotoIs
    <2>3. /\ m.count = session.count + 1 /\ Att(w).no = m.count
          /\ session.count \in Nat /\ m.count \in 0 .. MaxAttempts
      BY <1>1, <1>2, <2>1, ServiceAssumption DEF Fit, Making, At, Session
    <2>4. Counted'
      <3>1. \A n \in AttemptNo : n \in Nat
        BY DEF AttemptNo
      <3> QED
        BY <1>3, <2>1, <2>3, <3>1 DEF Counted
    <2>5. Att(w).no \in AttemptNo /\ Abreast(Att(w).no, Att(w).sql)
      BY <1>3, <2>3, ServiceAssumption DEF AttemptNo, Counted, Abreast
    <2>6. Candidate(session', attempts') /\ Offered(w)'
      BY <1>3, <2>1, <2>2, <2>5 DEF Offered, Abreast, At
    <2>7. Proposed
      BY <2>1 DEF Proposed
    <2> QED
      BY <2>1, <2>2, <2>4, <2>6, <2>7, OthersOffer
  <1>7. CASE BeginRun(w)
    <2>1. PICK q : q = session'
      OBVIOUS
    <2>2. Continue(w, "input", q, Att(w), NoResult) /\ UNCHANGED attempts /\ At(w, "begin")
      BY <1>7, <2>1 DEF BeginRun
    <2>3. /\ call'[w].pc = "input" /\ Mem(w)' = q /\ Att(w)' = Att(w)
          /\ \A v \in Worker : v # w => call'[v] = call[v]
      BY <2>2, ContinueIs
    <2>4. SameOffer(session', Mem(w)) /\ SameOffer(Mem(w)', Mem(w))
      BY <1>1, <1>7, <2>1, <2>3 DEF BeginRun, SameOffer, Session
    <2>5. Runs(w)
      BY <2>2 DEF Runs, At
    <2> QED
      BY <1>1, <1>3, <2>2, <2>3, <2>4, <2>5, CarriesOffer DEF At
  <1> QED
    BY <1>4, <1>5, <1>6, <1>7 DEF ServeNew

\* The except clauses keep a copy the call has.
LEMMA RescueOffers ==
  ASSUME Provenance, Ledger, Running, Offering, NEW w \in Worker, NEW m, Rescue(w, m), Runs(w),
         UNCHANGED <<session, attempts>>,
         \/ SameOffer(m, Mem(w)) \/ m = Mem(w)
         \/ call[w].pc \in {"commit_session", "commit_done"} /\ m = call[w].kept
  PROVE  Offering'
  <1>1. /\ call'[w].pc = "human" /\ Mem(w)' = m /\ Att(w)' = Att(w)
        /\ \A v \in Worker : v # w => call'[v] = call[v]
    BY RescueIs
  <1>2. call[w].pc \notin Reloads
    BY RunsOwns DEF Owning, FailedLabel, Reloads
  <1>3. \/ SameOffer(Mem(w)', Mem(w))
        \/ call[w].pc \in {"commit_session", "commit_done"} /\ SameOffer(Mem(w)', call[w].kept)
    BY <1>1 DEF SameOffer
  <1> QED
    BY <1>1, <1>2, <1>3, CarriesOffer

\* A call that runs saves its attempt with the SQL it knows of.
LEMMA RunnerSaves ==
  ASSUME Provenance, Ledger, Offering, NEW w \in Worker, Runs(w), NEW a \in Attempt,
         a.sql = Att(w).sql, a.key = Att(w).key,
         attempts' = [attempts EXCEPT ![Att(w).no] = a], UNCHANGED session
  PROVE  /\ Proposed /\ Counted' /\ Att(w).no \in AttemptNo /\ attempts'[Att(w).no] = a
         /\ Candidate(session', attempts')
         /\ \A t : SameOffer(t, Mem(w)) => Candidate(t, attempts')
         /\ call[w].pc = "commit_session" => Candidate(call[w].kept, attempts')
  <1>1. PICK n, m, k : n = Att(w).no /\ m = Mem(w) /\ k = call[w].kept
    OBVIOUS
  <1>2. /\ call[w].pc \in Owning /\ Tidy /\ Job(w) \in FailedEvent /\ a.key = Job(w)
        /\ session \in Session /\ m \in Session /\ k \in Session
        /\ attempts \in [AttemptNo -> Attempt] /\ n \in AttemptNo /\ n # 0
        /\ session.events[Job(w)].attempt = n
    BY <1>1, RunsOwns, OwnerHas
  <1>3. n <= session.count
    BY <1>2 DEF Tidy, Entries, Entry
  <1>4. attempts[n].sql \in {NoSql, a.sql}
    BY <1>1 DEF Offering, Offered, Abreast
  <1>5. attempts'[n] = a /\ \A x \in AttemptNo : x # n => attempts'[x] = attempts[x]
    BY <1>1, <1>2
  <1>6. Proposed
    BY <1>4, <1>5 DEF Proposed
  <1>7. Counted'
    BY <1>2, <1>3, <1>5 DEF Offering, Counted
  <1>8. PICK A, A2, s : A = attempts /\ A2 = attempts' /\ s = session
    OBVIOUS
  <1>9. /\ Candidate(s, A) /\ Candidate(m, A)
        /\ call[w].pc = "commit_session" => Candidate(k, A)
    BY <1>1, <1>2, <1>8 DEF Offering, Offered, Owning, FailedLabel, Reloads
  <1>10. ASSUME NEW c \in Session, Candidate(c, A), NEW t, SameOffer(t, c) PROVE Candidate(t, A2)
    <2>1. \A x \in AttemptNo : A[x].sql # NoSql => A2[x].sql = A[x].sql
      BY <1>6, <1>8 DEF Proposed
    <2> QED
      BY <1>10, <2>1, CandidateStays
  <1>11. SameOffer(s, s) /\ SameOffer(k, k)
    BY DEF SameOffer
  <1>12. Candidate(s, A2) /\ \A t : SameOffer(t, m) => Candidate(t, A2)
    BY <1>2, <1>8, <1>9, <1>10, <1>11
  <1>13. call[w].pc = "commit_session" => Candidate(k, A2)
    BY <1>2, <1>9, <1>10, <1>11
  <1> QED
    BY <1>1, <1>2, <1>5, <1>6, <1>7, <1>8, <1>12, <1>13

\* A call that runs saves its attempt and keeps its copy of the session.
LEMMA SavesOffer ==
  ASSUME Provenance, Ledger, Running, Offering, NEW w \in Worker, Runs(w), NEW a \in Attempt,
         a.sql = Att(w).sql, a.key = Att(w).key, a.no = Att(w).no,
         attempts' = [attempts EXCEPT ![Att(w).no] = a], UNCHANGED session,
         NEW l, NEW m, NEW r, Continue(w, l, m, a, r), SameOffer(m, Mem(w)),
         l \notin {"previous", "commit_session", "commit_done"}
  PROVE  Offering'
  <1>1. /\ call'[w].pc = l /\ Mem(w)' = m /\ Att(w)' = a
        /\ \A v \in Worker : v # w => call'[v] = call[v]
    BY ContinueIs
  <1>2. /\ Proposed /\ Counted' /\ Candidate(session', attempts') /\ Candidate(m, attempts')
        /\ a.no \in AttemptNo /\ attempts'[a.no] = a
    BY RunnerSaves
  <1>3. Offered(w)'
    BY <1>1, <1>2 DEF Offered, Abreast, At
  <1> QED
    BY <1>1, <1>2, <1>3, OthersOffer

\* The run proposes SQL its attempt did not have, or ends without.
LEMMA RunOffers ==
  ASSUME Provenance, Ledger, Running, Offering, NEW w \in Worker, ServeRun(w)
  PROVE  Offering'
  <1>1. Runs(w) /\ call[w].pc \notin Reloads \cup {"link"}
    BY DEF ServeRun, RejectInput, KeepPrevious, LoadPrevious, SavePrevious, AgentProposes,
           AgentStops, StopRun, AgentRaises,
           SaveHumanAttempt, SaveHumanSession, At, Runs, RunningLabels, Reloads
  <1>2. /\ Fit(w) /\ Att(w) \in Attempt /\ Mem(w) \in Session /\ attempts \in [AttemptNo -> Attempt]
        /\ call[w].pc \in Owning /\ Att(w).no \in AttemptNo
    BY <1>1, RunsOwns, OwnerHas
  <1>3. ASSUME UNCHANGED attempts, UNCHANGED session \/ session' = Mem(w),
               \E l \in {"human", "run", "discard"} : Goto(w, l)
        PROVE  Offering'
    BY <1>1, <1>3, GoesOffer
  <1>4. CASE RejectInput(w) \/ StopRun(w) \/ SaveHumanSession(w)
    BY <1>3, <1>4 DEF RejectInput, StopRun, SaveHumanSession, files
  <1>5. CASE KeepPrevious(w)
    BY <1>3, <1>5 DEF KeepPrevious, files
  <1>11. CASE LoadPrevious(w)
    <2>1. /\ call[w].pc = "input" /\ FailsCandidate(w) /\ Goto(w, "previous")
          /\ UNCHANGED <<session, attempts>>
      BY <1>11 DEF LoadPrevious, At, files
    <2>2. /\ call'[w].pc = "previous" /\ Mem(w)' = Mem(w) /\ Att(w)' = Att(w)
          /\ call'[w].prev = Marking(w, "previous")
          /\ \A v \in Worker : v # w => call'[v] = call[v]
      BY <2>1, GotoIs
    <2>3. call'[w].prev.sql = Mem(w).sql
      <3>1. PICK n : n = Mem(w).sqlAttempt
        OBVIOUS
      <3>2. n \in AttemptNo
        BY <1>2, <2>1, <3>1, ServiceAssumption DEF FailsCandidate, Session, AttemptNo
      <3>3. call'[w].prev = WithStatus(attempts[n], "UPSTREAM_FAILED")
        BY <2>2, <3>1 DEF Marking, Mem
      <3>4. Candidate(Mem(w), attempts) /\ n # 0
        BY <1>1, <2>1, <3>1 DEF Offering, Offered, FailsCandidate
      <3> QED
        BY <1>2, <3>1, <3>2, <3>3, <3>4 DEF WithStatus, Attempt, Candidate
    <2>4. call'[w].pc = "previous" => call'[w].prev.sql = Mem(w)'.sql
      BY <2>2, <2>3
    <2>5. SameOffer(Mem(w)', Mem(w)) /\ call[w].pc \notin Reloads
          /\ call'[w].pc \notin {"commit_session", "commit_done"}
      BY <1>1, <2>2 DEF SameOffer
    <2> QED
      BY <1>1, <2>1, <2>2, <2>4, <2>5, CarriesOffer
  <1>12. CASE SavePrevious(w)
    <2>1. PICK n, p : n = Mem(w).sqlAttempt /\ p = call[w].prev
      OBVIOUS
    <2>2. /\ Goto(w, "run") /\ UNCHANGED session /\ attempts' = [attempts EXCEPT ![n] = p]
          /\ Marks(w) /\ p.sql = Mem(w).sql
      BY <1>2, <1>12, <2>1 DEF SavePrevious, Fit, Working, Offering, Offered
    <2>3. n # 0 /\ n \in AttemptNo
      BY <1>2, <2>1, <2>2, ServiceAssumption DEF Marks, Session, AttemptNo
    <2>4. p.key = attempts[n].key /\ p.sql = attempts[n].sql
      <3>1. Candidate(Mem(w), attempts)
        BY <1>1 DEF Offering, Offered
      <3> QED
        BY <2>1, <2>2, <2>3, <3>1 DEF Marks, Candidate
    <2>5. \A x \in AttemptNo : attempts'[x].sql = attempts[x].sql /\ attempts'[x].key = attempts[x].key
      BY <1>2, <2>2, <2>3, <2>4
    <2> QED
      BY <1>1, <2>2, <2>5, GoesOffer
  <1>6. ASSUME NEW s \in Sql, AgentProposes(w, s) PROVE Offering'
    <2>1. PICK a : a = [Att(w) EXCEPT !.status = "SQL_READY", !.sql = s]
      OBVIOUS
    <2>2. At(w, "run") /\ Continue(w, "commit", Mem(w), a, NoResult) /\ UNCHANGED <<session, attempts>>
      BY <1>6, <2>1 DEF AgentProposes, files
    <2>3. /\ call'[w].pc = "commit" /\ Mem(w)' = Mem(w) /\ Att(w)' = a
          /\ \A v \in Worker : v # w => call'[v] = call[v]
      BY <2>2, ContinueIs
    <2>4. a.no = Att(w).no /\ Att(w).sql = NoSql
      BY <1>2, <2>1, <2>2 DEF Fit, Working, At, Attempt
    <2>5. Abreast(Att(w).no, Att(w).sql)
      BY <1>1 DEF Offering, Offered
    <2>6. Abreast(Att(w)'.no, Att(w)'.sql)
      BY <2>3, <2>4, <2>5 DEF Abreast
    <2>7. SameOffer(Mem(w)', Mem(w)) /\ call'[w].pc \notin {"commit_session", "commit_done"}
      BY <2>3 DEF SameOffer
    <2> QED
      BY <1>1, <2>2, <2>3, <2>6, <2>7, CarriesOffer
  <1>7. ASSUME NEW st \in AttemptStatus, NEW l \in {"stop", "human_session"}, NEW m, NEW r,
               SameOffer(m, Mem(w)), UNCHANGED session,
               attempts' = [attempts EXCEPT ![WithStatus(Att(w), st).no] = WithStatus(Att(w), st)],
               Continue(w, l, m, WithStatus(Att(w), st), r)
        PROVE  Offering'
    <2>1. PICK a : a = WithStatus(Att(w), st)
      OBVIOUS
    <2>2. a \in Attempt /\ a.sql = Att(w).sql /\ a.key = Att(w).key /\ a.no = Att(w).no
      BY <1>2, <2>1 DEF WithStatus, Attempt
    <2>3. attempts' = [attempts EXCEPT ![Att(w).no] = a] /\ Continue(w, l, m, a, r)
      BY <1>7, <2>1, <2>2
    <2> QED
      BY <1>1, <1>7, <2>2, <2>3, SavesOffer
  <1>8. ASSUME NEW st \in {"HUMAN_REQUIRED", "VALIDATION_BLOCKED", "REFLECTION_BLOCKED"},
               AgentStops(w, st)
        PROVE  Offering'
    <2>1. st \in AttemptStatus /\ SameOffer(Mem(w), Mem(w))
      BY DEF AttemptStatus, SameOffer
    <2>2. /\ UNCHANGED session /\ \E r : Continue(w, "stop", Mem(w), WithStatus(Att(w), st), r)
          /\ attempts' = [attempts EXCEPT ![WithStatus(Att(w), st).no] = WithStatus(Att(w), st)]
      BY <1>8 DEF AgentStops
    <2> QED
      BY <1>7, <2>1, <2>2
  <1>9. CASE SaveHumanAttempt(w)
    <2>1. PICK st, m : st = "HUMAN_REQUIRED" /\ m = [Mem(w) EXCEPT !.status = "HUMAN_REQUIRED"]
      OBVIOUS
    <2>2. st \in AttemptStatus /\ SameOffer(m, Mem(w))
      BY <1>2, <2>1 DEF AttemptStatus, SameOffer, Session
    <2>3. /\ UNCHANGED session /\ \E r : Continue(w, "human_session", m, WithStatus(Att(w), st), r)
          /\ attempts' = [attempts EXCEPT ![WithStatus(Att(w), st).no] = WithStatus(Att(w), st)]
      BY <1>9, <2>1 DEF SaveHumanAttempt
    <2> QED
      BY <1>7, <2>2, <2>3
  <1>10. CASE AgentRaises(w)
    BY <1>1, <1>10, RescueOffers DEF AgentRaises, files
  <1> QED
    BY <1>4, <1>5, <1>6, <1>8, <1>9, <1>10, <1>11, <1>12 DEF ServeRun

\* A commit saves the attempt before the session names it as its candidate.
LEMMA CommitOffers ==
  ASSUME Provenance, Ledger, Running, Offering, NEW w \in Worker, ServeCommit(w)
  PROVE  Offering'
  <1>1. /\ call[w].pc \in {"commit", "commit_session", "commit_done"} /\ Runs(w)
        /\ call[w].pc \notin Reloads \cup {"link"} /\ call[w].pc \in Owning
    BY DEF ServeCommit, CommitFails, CommitRefused, CommitAttempt, CommitSession, CommitDone, At,
           Runs, RunningLabels, Reloads, Owning, FailedLabel
  <1>2. Att(w) \in Attempt /\ session \in Session /\ Mem(w) \in Session
    BY <1>1, OwnerHas
  <1>3. CASE CommitFails(w)
    BY <1>1, <1>3, RescueOffers DEF CommitFails, files
  <1>4. CASE CommitRefused(w)
    BY <1>1, <1>4, GoesOffer DEF CommitRefused, files
  <1>5. CASE CommitSession(w)
    BY <1>1, <1>5, GoesOffer DEF CommitSession, At
  <1>6. CASE CommitDone(w)
    <2>1. PICK a, m, r : a = Att(w) /\ m = Mem(w) /\ r = call[w].ret
      OBVIOUS
    <2>2. /\ attempts' = [attempts EXCEPT ![a.no] = a] /\ UNCHANGED session
          /\ Continue(w, "discard", m, a, r)
      BY <1>6, <2>1 DEF CommitDone, Goto, Mem, Att
    <2>3. /\ SameOffer(m, Mem(w)) /\ a \in Attempt
          /\ a.sql = Att(w).sql /\ a.key = Att(w).key /\ a.no = Att(w).no
      BY <1>2, <2>1 DEF SameOffer
    <2>4. attempts' = [attempts EXCEPT ![Att(w).no] = a]
      BY <2>1, <2>2
    <2>5. PICK l : l = "discard"
      OBVIOUS
    <2>6. /\ l \notin {"previous", "commit_session", "commit_done"}
          /\ Continue(w, l, m, a, r) /\ UNCHANGED session
      BY <2>2, <2>5
    <2> QED
      BY <1>1, <2>3, <2>4, <2>6, SavesOffer
  <1>7. CASE CommitAttempt(w)
    <2>1. PICK a, m : /\ a = Att(w)
                      /\ m = [session EXCEPT !.sql = a.sql, !.sqlAttempt = a.no,
                                             !.status = "SQL_READY_PENDING_UPSTREAM"]
      OBVIOUS
    <2>2. /\ At(w, "commit") /\ NewestAttempt(w) /\ UNCHANGED session
          /\ attempts' = [attempts EXCEPT ![a.no] = a]
          /\ Continue(w, "commit_session", m, a, SqlReady(a.sql))
      BY <1>7, <2>1 DEF CommitAttempt
    <2>3. /\ call'[w].pc = "commit_session" /\ Mem(w)' = m /\ Att(w)' = a
          /\ call'[w].kept = Mem(w) /\ \A v \in Worker : v # w => call'[v] = call[v]
      <3>1. Kept(w, "commit_session") = Mem(w)
        BY DEF Kept, Mem
      <3> QED
        BY <2>2, <3>1, ContinueIs
    <2>4. /\ Proposed /\ Counted' /\ Candidate(session', attempts')
          /\ Candidate(Mem(w), attempts') /\ a.no \in AttemptNo /\ attempts'[a.no] = a
      <3>1. SameOffer(Mem(w), Mem(w))
        BY DEF SameOffer
      <3> QED
        BY <1>1, <1>2, <2>1, <2>2, <3>1, RunnerSaves
    <2>5. Candidate(m, attempts')
      <3>1. a.sql # NoSql /\ session.count = a.no
        BY <2>1, <2>2 DEF Provenance, Calls, GoodCall, At, Att, NewestAttempt
      <3>2. m.sql = a.sql /\ m.sqlAttempt = a.no /\ m.count = a.no
        BY <1>2, <2>1, <3>1 DEF Session
      <3>3. a.no <= a.no
        BY <2>4 DEF AttemptNo
      <3> QED
        BY <2>4, <3>1, <3>2, <3>3 DEF Candidate
    <2>6. Offered(w)'
      BY <2>3, <2>4, <2>5 DEF Offered, Abreast, At
    <2>7. \A n \in AttemptNo : attempts'[n].sql \notin {attempts[n].sql, NoSql} => Runs(w)
      BY <1>1
    <2> QED
      BY <2>3, <2>4, <2>6, <2>7, OthersOffer
  <1> QED
    BY <1>3, <1>4, <1>5, <1>6, <1>7 DEF ServeCommit

\* Storing the result and finishing the event leave the candidate.
LEMMA ResultOffers ==
  ASSUME Provenance, Ledger, Running, Offering, NEW w \in Worker, ServeResult(w)
  PROVE  Offering'
  <1>1. call[w].pc \notin Reloads \cup {"link"} /\ Mem(w) \in Session
    BY Parts DEF ServeResult, DiscardActive, WriteResult, FinishFailed, At, Reloads
  <1>2. CASE DiscardActive(w) \/ WriteResult(w)
    <2>1. \E l \in {"persist", "finish"} : Goto(w, l)
      BY <1>2 DEF DiscardActive, WriteResult
    <2>2. UNCHANGED <<session, attempts>>
      BY <1>2 DEF DiscardActive, WriteResult, files
    <2> QED
      BY <1>1, <2>1, <2>2, GoesOffer DEF RunningLabels
  <1>3. CASE FinishFailed(w)
    <2>1. UNCHANGED attempts /\ Answer(w, call[w].ret)
      BY <1>3 DEF FinishFailed
    <2>2. SameOffer(session', Mem(w))
      BY <1>1, <1>3, PutOffers DEF FinishFailed, SameOffer
    <2> QED
      BY <1>1, <2>1, <2>2, AnswersOffer
  <1> QED
    BY <1>2, <1>3 DEF ServeResult

\* SUCCESS events and entering a session.
LEMMA SuccessOffers ==
  ASSUME Provenance, Ledger, Running, Offering, NEW w \in Worker,
         EnterSession(w) \/ LockTimeout(w) \/ ServeSuccess(w)
  PROVE  Offering'
  <1>1. /\ Mem(w) \in Session /\ attempts \in [AttemptNo -> Attempt]
        /\ call[w].pc \notin Owning /\ ~call[w].guarded
    <2>1. call[w].pc \notin Owning
      BY DEF EnterSession, LockAndLoad, LockTimeout, ServeSuccess, AckDuplicate, RecordSuccess,
             FindSuccess, AckUnmatched, ConfirmAttempt, ConfirmSession, WriteMemory, MemoryDegraded,
             ReloadForFinish, ReloadForDegrade, FinishSuccess, FinishDegraded, DegradeTimeout, At,
             Owning, FailedLabel
    <2> QED
      BY <2>1, Parts DEF Ledger, Fit, Working
  <1>2. ASSUME NEW l \in {"memory", "finish_lock", "degrade_lock"}, Goto(w, l), UNCHANGED attempts,
               \/ UNCHANGED session
               \/ session' = Mem(w) /\ call[w].pc \notin Reloads \cup {"link"}
        PROVE  Offering'
    <2>1. /\ call'[w].pc = l /\ (call'[w].guarded => call[w].guarded)
          /\ \A v \in Worker : v # w => call'[v] = call[v]
      BY <1>2, GotoIs
    <2>2. ~Runs(w)' /\ call'[w].pc \in Reloads /\ call'[w].pc \notin {"commit_session", "commit_done"}
      BY <1>1, <2>1 DEF Runs, RunningLabels, Reloads
    <2>3. session' = Mem(w) => SameOffer(session', Mem(w))
      BY DEF SameOffer
    <2>4. \/ UNCHANGED session
          \/ call[w].pc \notin Reloads \cup {"link"} /\ SameOffer(session', Mem(w))
      BY <1>2, <2>3
    <2> QED
      BY <1>2, <2>1, <2>2, <2>4, CarriesOffer
  <1>3. CASE ConfirmSession(w) \/ WriteMemory(w) \/ MemoryDegraded(w)
    BY <1>2, <1>3 DEF ConfirmSession, WriteMemory, MemoryDegraded, files, At, Reloads
  <1>4. ASSUME NEW l \in {"find", "finish_success", "degrade"}, NEW from, LockAndLoad(w, from, l)
        PROVE  Offering'
    <2>1. /\ call'[w].pc = l /\ Mem(w)' = session /\ (call'[w].guarded => call[w].guarded)
          /\ \A v \in Worker : v # w => call'[v] = call[v]
      BY <1>4, ContinueIs DEF LockAndLoad
    <2>2. ~Runs(w)' /\ call'[w].pc \notin {"commit_session", "commit_done"}
      BY <1>1, <2>1 DEF Runs, RunningLabels
    <2>3. UNCHANGED <<session, attempts>> /\ SameOffer(Mem(w)', session)
      BY <1>4, <2>1 DEF LockAndLoad, files, SameOffer
    <2> QED
      BY <2>1, <2>2, <2>3, CarriesOffer
  <1>5. CASE EnterSession(w) \/ ReloadForFinish(w) \/ ReloadForDegrade(w)
    BY <1>4, <1>5 DEF EnterSession, ReloadForFinish, ReloadForDegrade
  <1>6. CASE \/ LockTimeout(w) \/ AckDuplicate(w) \/ AckUnmatched(w) \/ FinishSuccess(w)
             \/ FinishDegraded(w) \/ DegradeTimeout(w)
    <2>1. UNCHANGED attempts /\ \E r : Answer(w, r)
      BY <1>6 DEF LockTimeout, AckDuplicate, AckUnmatched, FinishSuccess, FinishDegraded,
             SaveFinished, DegradeTimeout, files
    <2>2. \/ UNCHANGED session
          \/ call[w].pc \notin Reloads \cup {"link"} /\ SameOffer(session', Mem(w))
      BY <1>1, <1>6, PutOffers DEF LockTimeout, AckDuplicate, AckUnmatched, FinishSuccess,
             FinishDegraded, SaveFinished, DegradeTimeout, files, At, Reloads
    <2> QED
      BY <2>1, <2>2, AnswersOffer
  <1>7. ASSUME NEW l \in {"match", "confirm"}, NEW m, NEW a, Continue(w, l, m, a, NoResult),
               SameOffer(m, Mem(w)), call[w].pc \notin Reloads \cup {"link"},
               UNCHANGED session \/ SameOffer(session', Mem(w)),
               \A n \in AttemptNo :
                 attempts'[n].sql = attempts[n].sql /\ attempts'[n].key = attempts[n].key
        PROVE  Offering'
    <2>1. /\ call'[w].pc = l /\ Mem(w)' = m /\ (call'[w].guarded => call[w].guarded)
          /\ \A v \in Worker : v # w => call'[v] = call[v]
      BY <1>7, ContinueIs
    <2>2. ~Runs(w)' /\ call'[w].pc \notin {"commit_session", "commit_done"}
      BY <1>1, <2>1 DEF Runs, RunningLabels
    <2> QED
      BY <1>7, <2>1, <2>2, CarriesOffer
  <1>8. CASE RecordSuccess(w)
    <2>1. PICK m : m = IF Recorded(Mem(w), Job(w)) THEN Mem(w) ELSE session'
      OBVIOUS
    <2>2. Continue(w, "match", m, NoAttempt, NoResult) /\ UNCHANGED attempts /\ At(w, "find")
      BY <1>8, <2>1 DEF RecordSuccess, FindSuccess
    <2>3. SameOffer(m, Mem(w)) /\ (UNCHANGED session \/ SameOffer(session', Mem(w)))
      BY <1>1, <1>8, <2>1, PutOffers DEF RecordSuccess, SameOffer
    <2> QED
      BY <1>7, <2>2, <2>3 DEF At, Reloads
  <1>9. CASE ConfirmAttempt(w)
    <2>1. PICK n, a : n = Mem(w).sqlAttempt /\ a = WithStatus(attempts[n], "UPSTREAM_CONFIRMED_SUCCESS")
      OBVIOUS
    <2>2. PICK m : m = [Mem(w) EXCEPT !.status = "UPSTREAM_CONFIRMED_SUCCESS",
                                      !.confirmed = n, !.confirmedSql = Mem(w).sql]
      OBVIOUS
    <2>3. /\ Continue(w, "confirm", m, a, NoResult) /\ UNCHANGED session /\ At(w, "match")
          /\ attempts' = [attempts EXCEPT ![n] = a] /\ n # 0
      BY <1>9, <2>1, <2>2 DEF ConfirmAttempt, Matches
    <2>4. n \in AttemptNo
      BY <1>1, <2>1, <2>3, ServiceAssumption DEF Session, AttemptNo
    <2>5. \A x \in AttemptNo : attempts'[x].sql = attempts[x].sql /\ attempts'[x].key = attempts[x].key
      BY <1>1, <2>1, <2>3, <2>4 DEF WithStatus, Attempt
    <2>6. SameOffer(m, Mem(w))
      BY <1>1, <2>2 DEF SameOffer, Session
    <2> QED
      BY <1>7, <2>3, <2>5, <2>6 DEF At, Reloads
  <1> QED
    BY <1>3, <1>5, <1>6, <1>8, <1>9 DEF ServeSuccess

\* An error is answered, or leaves the call with a copy it had.
LEMMA ErrorOffers ==
  ASSUME Provenance, Ledger, Running, Offering, NEW w \in Worker,
         ErrorIsCaught(w) \/ ErrorIsRaised(w) \/ SuccessError(w)
  PROVE  Offering'
  <1>1. UNCHANGED <<session, attempts>> /\ Mem(w) \in Session /\ Fit(w)
    BY Parts DEF ErrorIsCaught, ErrorIsRaised, SuccessError, FileError, files, Ledger
  <1>2. CASE ErrorIsCaught(w)
    <2>1. PICK m : m = HandlersCopy(w)
      OBVIOUS
    <2>2. Rescue(w, m) /\ Runs(w)
      BY <1>2, <2>1 DEF ErrorIsCaught, Runs
    <2>3. \/ SameOffer(m, Mem(w)) \/ m = Mem(w)
          \/ call[w].pc \in {"commit_session", "commit_done"} /\ m = call[w].kept
      BY <1>1, <2>1, PutOffers DEF HandlersCopy, At
    <2> QED
      BY <1>1, <2>2, <2>3, RescueOffers
  <1>3. CASE \E r : Answer(w, r)
    BY <1>1, <1>3, AnswersOffer
  <1>4. ASSUME SuccessError(w), Goto(w, "degrade_lock"), call[w].pc \in {"finish_lock", "finish_success"}
        PROVE  Offering'
    <2>1. /\ call'[w].pc = "degrade_lock" /\ (call'[w].guarded => call[w].guarded)
          /\ \A v \in Worker : v # w => call'[v] = call[v]
      BY <1>4, GotoIs
    <2>2. ~call[w].guarded
      BY <1>1, <1>4 DEF Fit, Working, Owning, FailedLabel
    <2>3. ~Runs(w)' /\ call'[w].pc \in Reloads /\ call'[w].pc \notin {"commit_session", "commit_done"}
      BY <2>1, <2>2 DEF Runs, RunningLabels, Reloads
    <2> QED
      BY <1>1, <2>1, <2>3, CarriesOffer
  <1> QED
    BY <1>2, <1>3, <1>4 DEF ErrorIsRaised, SuccessError

\* A call arrives, the process dies, a stale lock is removed.
LEMMA OuterOffers ==
  ASSUME Provenance, Ledger, Running, Offering,
         \/ \E w \in Worker, e \in Event : Submit(w, e)
         \/ \E p \in Process : Crash(p)
         \/ \E w \in Worker : FindStale(w) \/ RemoveStale(w)
         \/ UNCHANGED vars
  PROVE  Offering'
  <1>1. UNCHANGED <<session, attempts>>
    BY DEF Submit, Crash, FindStale, RemoveStale, vars, files
  <1>2. Candidate(session', attempts') /\ Counted'
    BY <1>1 DEF Offering, Counted
  <1>3. ASSUME NEW w \in Worker,
               call'[w] = call[w] \/ (call'[w].pc \in {"idle", "lock"} /\ ~call'[w].guarded)
        PROVE  Offered(w)'
    <2>1. CASE call'[w] = call[w]
      <3>1. Offered(w)
        BY DEF Offering
      <3> QED
        BY <1>1, <2>1, <3>1 DEF Offered, Runs, Mem, Att, Abreast, At
    <2>2. CASE call'[w].pc \in {"idle", "lock"} /\ ~call'[w].guarded
      BY <2>2 DEF Offered, Runs, RunningLabels, Reloads, At
    <2> QED
      BY <1>3, <2>1, <2>2
  <1>4. ASSUME NEW w \in Worker, NEW e \in Event, Submit(w, e) PROVE Offering'
    <2>1. PICK c : c = [IdleCall EXCEPT !.pc = "lock", !.job = e]
      OBVIOUS
    <2>2. c.pc = "lock" /\ ~c.guarded
      BY <2>1 DEF IdleCall
    <2>3. \A v \in Worker : call'[v] = IF v = w THEN c ELSE call[v]
      BY <1>4, <2>1 DEF Submit, Provenance, Calls
    <2> QED
      BY <1>2, <1>3, <2>2, <2>3 DEF Offering
  <1>5. ASSUME NEW p \in Process, Crash(p) PROVE Offering'
    <2>1. \A v \in Worker : call'[v] \in {call[v], IdleCall}
      BY <1>5 DEF Crash
    <2>2. IdleCall.pc = "idle" /\ ~IdleCall.guarded
      BY DEF IdleCall
    <2> QED
      BY <1>2, <1>3, <2>1, <2>2 DEF Offering
  <1>6. CASE UNCHANGED call
    BY <1>2, <1>3, <1>6 DEF Offering
  <1> QED
    BY <1>4, <1>5, <1>6 DEF FindStale, RemoveStale, vars

\* However often an event is reported while it runs, and whatever file operation
\* fails between two writes, in one process the session's candidate is the SQL its
\* attempt proposes: no call saves an older copy over either of them, as long as
\* the lock excludes.
THEOREM CandidateStaysProposed ==
  ASSUME OneProcess PROVE Spec /\ []SeparateFailures /\ []Exclusive => []CandidateFromAttempt
  <1>1. Init => Offering
    <2> SUFFICES ASSUME Init PROVE Offering
      OBVIOUS
    <2>1. Candidate(session, attempts) /\ Counted
      BY DEF Init, NewSession, Candidate, Counted, NoAttempt
    <2>2. \A w \in Worker : call[w] = IdleCall
      BY DEF Init
    <2> QED
      BY <2>1, <2>2 DEF Offering, Offered, Runs, RunningLabels, Reloads, At, IdleCall
  <1>2. Provenance /\ Ledger /\ Running /\ Offering /\ [Next]_vars => Offering'
    <2> SUFFICES ASSUME Provenance, Ledger, Running, Offering, [Next]_vars PROVE Offering'
      OBVIOUS
    <2>1. ASSUME NEW w \in Worker, Serve(w) PROVE Offering'
      BY <2>1, DuplicateOffers, NewOffers, RunOffers, CommitOffers, ResultOffers, SuccessOffers,
         OuterOffers DEF Serve
    <2> QED
      BY <2>1, ErrorOffers, OuterOffers DEF Next, Quiet
  <1>3. Provenance /\ Ledger /\ Offering => CandidateFromAttempt
    <2> SUFFICES ASSUME Provenance, Ledger, Offering, session.sqlAttempt # 0
                 PROVE  /\ attempts[session.sqlAttempt].sql = session.sql
                        /\ <<attempts[session.sqlAttempt].key, session.sql>> \in approved
                        /\ session.sqlAttempt <= session.count
      BY DEF CandidateFromAttempt
    <2>1. PICK n : n = session.sqlAttempt
      OBVIOUS
    <2>2. n <= session.count /\ session.sql # NoSql /\ attempts[n].sql = session.sql
      BY <2>1 DEF Offering, Candidate
    <2>3. n \in AttemptNo
      BY <2>1, ServiceAssumption DEF Provenance, Disk, GoodSession, Session, AttemptNo
    <2>4. attempts[n].key \in FailedEvent /\ Named(n)
      BY <2>2, <2>3 DEF Offering, Counted, Ledger, Tidy
    <2>5. <<attempts[n].key, session.sql>> \in approved
      BY <2>2, <2>4 DEF Named
    <2> QED
      BY <2>1, <2>2, <2>5
  <1> QED
    BY <1>1, <1>2, <1>3, LedgerStays, RunningStays, ProvenanceInvariant, PTL DEF Spec

-----------------------------------------------------------------------------
(* The records implement TaskLedger *)

\* The state of the ledger.
ledger == <<session.count, [e \in FailedEvent |-> session.events[e].attempt],
            {n \in AttemptNo : results[n] # NoResult}>>

\* A step that neither links an attempt nor files the first result of one.
Stutters ==
  /\ session'.count = session.count
  /\ \A e \in FailedEvent : session'.events[e].attempt = session.events[e].attempt
  /\ \A n \in AttemptNo : results'[n] # NoResult <=> results[n] # NoResult

LEMMA StutterStays == ASSUME Stutters PROVE UNCHANGED ledger
  BY DEF Stutters, ledger

\* LinkAttempt opens the attempt in the ledger.
LEMMA LinkOpens ==
  ASSUME Provenance, Ledger, NEW w \in Worker, LinkAttempt(w)
  PROVE  \E e \in FailedEvent : Log!Open(e)
  <1>1. PICK m, j : m = Mem(w) /\ j = Job(w)
    OBVIOUS
  <1>2. /\ session' = m /\ UNCHANGED results /\ call[w].pc = "link" /\ j \in FailedEvent
        /\ Making(w)
    BY <1>1, Parts DEF LinkAttempt, At, Ledger, Fit, FailedLabel
  <1>3. /\ session.events[j].attempt = 0
        /\ m.count = session.count + 1 /\ m.events[j].attempt = session.count + 1
        /\ \A x \in FailedEvent \ {j} : m.events[x].attempt = session.events[x].attempt
    BY <1>1, <1>2 DEF Making, At
  <1>4. Log!Open(j)
    BY <1>2, <1>3 DEF Log!Open
  <1> QED
    BY <1>2, <1>4

\* WriteResult files a result for the attempt of the event it works for.
LEMMA WriteFiles ==
  ASSUME Provenance, Ledger, NEW w \in Worker, WriteResult(w)
  PROVE  (\E e \in FailedEvent : Log!File(e)) \/ Stutters
  <1>1. PICK n, j, r : n = Att(w).no /\ j = Job(w) /\ r = Sanitized(call[w].ret)
    OBVIOUS
  <1>2. /\ call[w].pc = "persist" /\ call[w].pc \in Owning
        /\ results' = [results EXCEPT ![n] = r] /\ UNCHANGED session
    BY <1>1 DEF WriteResult, At, Owning, FailedLabel
  <1>3. n \in AttemptNo /\ n # 0 /\ j \in FailedEvent /\ session.events[j].attempt = n /\ Fit(w)
    BY <1>1, <1>2, OwnerHas
  <1>4. r # NoResult /\ results \in [AttemptNo -> Result]
    BY <1>1, <1>2, <1>3, Parts, SanitizedIs DEF Fit, Working, Deciding
  <1>5. results'[n] # NoResult /\ \A k \in AttemptNo : k # n => results'[k] = results[k]
    BY <1>2, <1>3, <1>4
  <1>6. CASE results[n] # NoResult
    BY <1>2, <1>5, <1>6 DEF Stutters
  <1>7. CASE results[n] = NoResult
    <2>1. {k \in AttemptNo : results'[k] # NoResult} = {k \in AttemptNo : results[k] # NoResult} \cup {n}
      BY <1>3, <1>5
    <2>2. n \notin {k \in AttemptNo : results[k] # NoResult} \cup {0}
      BY <1>3, <1>7
    <2>3. Log!File(j)
      BY <1>2, <1>3, <2>1, <2>2 DEF Log!File
    <2> QED
      BY <1>3, <2>3
  <1> QED
    BY <1>6, <1>7

\* RecordFailed puts a record without an attempt where there was none.
LEMMA RecordStutters ==
  ASSUME Provenance, Ledger, NEW w \in Worker, RecordFailed(w)
  PROVE  Stutters
  <1>1. PICK m, j, q : m = Mem(w) /\ j = Job(w) /\ q = PutRecord(m, j, Received)
    OBVIOUS
  <1>2. /\ call[w].pc = "find" /\ j \in FailedEvent /\ ~Recorded(m, j)
        /\ session' = q /\ UNCHANGED results /\ m \in Session /\ Fit(w)
    BY <1>1, Parts DEF RecordFailed, FindFailed, At, Ledger
  <1>3. Entries(m, attempts, results) /\ SameBook(m, session)
    BY <1>1, <1>2 DEF Fit, Copied, Reloads
  <1>4. Received \in Record /\ Received.attempt = 0
    BY ServiceAssumption DEF Received, NoRecord, Record
  <1>5. q.count = m.count /\ q.events[j] = Received /\ \A x \in Event \ {j} : q.events[x] = m.events[x]
    BY <1>1, <1>2, <1>4, PutIs DEF Event
  <1>6. m.events[j].attempt = 0
    BY <1>2, <1>3 DEF Entries
  <1>7. \A x \in FailedEvent : q.events[x].attempt = m.events[x].attempt
    BY <1>4, <1>5, <1>6 DEF Event
  <1> QED
    BY <1>2, <1>3, <1>5, <1>7 DEF SameBook, Stutters

\* No other step writes a result.
LEMMA ResultsStay ==
  ASSUME [Next]_vars, \A w \in Worker : ~WriteResult(w)
  PROVE  UNCHANGED results
  <1>1. ASSUME NEW w \in Worker, Serve(w) PROVE UNCHANGED results
    <2>1. CASE EnterSession(w) \/ LockTimeout(w) \/ ServeDuplicate(w) \/ ServeNew(w)
      BY <2>1 DEF EnterSession, LockAndLoad, LockTimeout, ServeDuplicate, ReplayResult,
             AnswerInProgress, RecoverWithoutAttempt, RecoverEnded, ResumeAttempt, RecoverUnsafe,
             FinishUnsafe, ServeNew, RecordFailed, CreateAttempt, LinkAttempt, BeginRun, files
    <2>2. CASE ServeRun(w) \/ ServeCommit(w) \/ ServeResult(w)
      BY <2>2 DEF ServeRun, RejectInput, KeepPrevious, LoadPrevious, SavePrevious, AgentProposes,
             AgentStops, StopRun,
             AgentRaises, SaveHumanAttempt, SaveHumanSession, ServeCommit, CommitFails,
             CommitRefused, CommitAttempt, CommitSession, CommitDone, ServeResult, DiscardActive,
             FinishFailed, files
    <2>3. CASE ServeSuccess(w)
      BY <2>3 DEF ServeSuccess, AckDuplicate, RecordSuccess, AckUnmatched, ConfirmAttempt,
             ConfirmSession, WriteMemory, MemoryDegraded, ReloadForFinish, ReloadForDegrade,
             LockAndLoad, FinishSuccess, FinishDegraded, SaveFinished, DegradeTimeout, files
    <2>4. CASE FindStale(w) \/ RemoveStale(w)
      BY <2>4 DEF FindStale, RemoveStale, files
    <2> QED
      BY <1>1, <2>1, <2>2, <2>3, <2>4 DEF Serve
  <1> QED
    BY <1>1 DEF Next, ErrorIsCaught, ErrorIsRaised, SuccessError, FileError, Submit, Crash,
           Quiet, vars, files

\* As long as two failures are not handled at once and the lock excludes,
\* the records implement the ledger: an attempt number is given out once
\* and to one failure, a result is filed for the attempt of a failure, and no
\* save of an older session takes any of it back.
THEOREM RecordsAreALedger == Spec /\ []SeparateFailures /\ []Exclusive => LogSpec
  <1>1. Init => Log!Init
    <2> SUFFICES ASSUME Init PROVE Log!Init
      OBVIOUS
    <2>1. session.count = 0 /\ \A e \in FailedEvent : session.events[e].attempt = 0
      BY DEF Init, NewSession, NoRecord, Event
    <2>2. {n \in AttemptNo : results[n] # NoResult} = {}
      BY DEF Init
    <2> QED
      BY <2>1, <2>2 DEF Log!Init
  <1>2. Provenance /\ SeparateFailures /\ Exclusive /\ Ledger /\ [Next]_vars => [Log!Next]_ledger
    <2> SUFFICES ASSUME Provenance, SeparateFailures, Exclusive, Ledger, [Next]_vars
                 PROVE  Log!Next \/ Stutters
      BY StutterStays
    <2>1. ASSUME NEW w \in Worker, WriteResult(w) PROVE Log!Next \/ Stutters
      BY <2>1, WriteFiles DEF Log!Next
    <2>2. ASSUME NEW w \in Worker, LinkAttempt(w) PROVE Log!Next
      BY <2>2, LinkOpens DEF Log!Next
    <2>3. ASSUME UNCHANGED results, Steady PROVE Stutters
      BY <2>3, SteadyCopies DEF Stutters, Provenance, Disk, GoodSession
    <2>4. ASSUME NEW w \in Worker, RecordFailed(w) \/ CreateAttempt(w) PROVE Stutters
      BY <2>4, RecordStutters DEF CreateAttempt, Stutters
    <2> QED
      BY <2>1, <2>2, <2>3, <2>4, LedgerStep, ResultsStay
  <1> QED
    BY <1>1, <1>2, LedgerStays, ProvenanceInvariant, PTL DEF Spec, LogSpec, Log!Spec, ledger
=============================================================================
