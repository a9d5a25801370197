# A TLA+ model of the SQL Self-Healing Agent

The program (`src/sql_self_healing_agent/`) receives FAILED and SUCCESS events
of an upstream scheduler, repairs the SQL of a failed task with an agent, and
answers with a candidate (`SQL_READY`), a refusal or an acknowledgement. It
never runs SQL itself. Everything it knows of a task is in files under the
session directory, so that what makes it hard is not the repair of a text but
the order in which files are written, read and overwritten by overlapping
calls, duplicates, deaths and recoveries, and the bookkeeping of an agent loop
whose actions are chosen by an LLM.

Paths in this document are relative to `src/sql_self_healing_agent/`;
`README.md` with a line number is the repository's own.

## 1. Inventory

| Component | State | Operations | Hard behaviour | What makes it correct |
|---|---|---|---|---|
| Session lock (`session/session_lock.py`) | lock file, its mtime, a deadline per waiter | create exclusively, stat, unlink if stale, poll, release | stat and unlink are two steps; a holder may die or be slow | one holder; waiters end; a dead holder's file goes away |
| Service (`orchestrator/repair_agent_service.py`) | `_active_event_keys` in memory, session copies of calls | `handle_upstream_event` for FAILED and SUCCESS, `_recover_failed_event`, `_persist_external_result` | two critical sections with a long unlocked run between them; whole-session saves from old copies; recovery | one attempt per event; equal answers; only approved SQL |
| Store and records (`session/session_store.py`, `session_models.py`) | `session.json`, `attempts/*.json` | create and finish event records, create attempts, save | every save is atomic, a sequence of saves is not | records point to their own results |
| Committer (`agent/gates/candidate_committer.py`) | none | check candidate, hash, artifact; save attempt, then session | a death between the two saves | delivered = current candidate |
| Gates (`agent/gates/`) | `last_result`, `gate_feedback` | static, semantic, output contract, aggregation, one regeneration | a second round with a second candidate | what is accepted was judged, and judged sound |
| Agent runner (`agent/runner/agent_runner.py`) | `AgentRunState`, plan, observations | one loop iteration per action, eight limits | limits raised on different paths | ends; keeps limits |
| Main agents (`agentic_failed_event_processor.py`, `llm_main_agent.py`) | `_initialized`, plan | choose the next action; plan, one repair, fallback | plans written by an LLM | never refused by the runner |
| Plan updater, validator, progress (`agent/planning/`) | the plan | validate a revision, credit an observation, next step | validated twice, against different plans | stays a plan |
| Action executor, tools (`agent/tools/`) | workspace | six tools, sub-agent | missing objects, forbidden inputs | a failed call is an observation |
| Sub-agent (`agent/runner/subagent_runner.py`) | its own budget | restricted loop | off-by-one budget; statuses nobody else knows | advises only |
| Context manager (`agent/context/`) | snapshots, two compaction counters | trim, compact, restore | a compaction is an operation with an LLM call inside | a failed summary is no failure |
| Memory (`memory/`) | experience files, keyword index | write once per attempt, rebuild index, retrieve, consolidate | no lock: listing and reading race with writing and unlinking | one experience per attempt, nothing lost, exact index |
| LLM client, adapter, hooks, retries (`llm/`, `agent/llm/`, `agent/hooks/`) | counters, a timeout on a shared client | call, retry by error class, run hooks, nest operations | nested retries; refusals inside operations; overlapping runs | every operation ends in the trace, calls bounded and counted, timeout restored |
| Artifacts, sanitizer (`artifacts/`, `core/persistence_sanitizer.py`) | artifact files | save sanitized, load checked | the stored result is an answer, and is sanitized | replay equals answer |
| Diagnostics (`diagnostics/`) | none | classify by rule, ask the LLM, fuse | an LLM that is sure and wrong | an error is repairable only if somebody entitled to says so |
| Metadata provider (`metadata/`) | a JSON file | columns of the tables of the failed SQL | order and duplicates of columns | does not choose the repair |
| Repair planner, generator (`repair/repair_planner.py`, `sql_generator.py`) | none | plan one action, apply it, take or overrule the LLM's text, compare texts | three notions of "same SQL" | delivered = planned change of one word |
| Validator, evaluator (`repair/`) | none | findings from a diff, verdicts | judge the same candidate by other rules than the generator | neither too lax nor in the way |
| Trace, CLI, mock upstream | trace file; rounds | append; parse; run scenario | none that anything reads | - |

How they interact: the service takes the lock, loads the session, records the
event, creates an attempt and releases the lock; the processor runs the agent
with a fresh context; the runner hands a proposed candidate to the gates; the
service takes the lock again, lets the committer save attempt and session, and
afterwards - without the lock - stores `external_result.json` and finishes the
event. A SUCCESS event is matched with the session's current candidate,
confirms attempt and session under the lock, writes memory without it, and
takes the lock again to finish the event.

All hazards, with lines, are in `PROJECT.json`, each with the properties that
would catch it, or the reason why none does: most of those are faults the code
has, which section 3 lists with the property TLC finds violated.

## 2. Modules

| Module | Models |
|---|---|
| `SessionMutex` | what the session lock promises: it is taken only while it is free, and given up only by who is inside |
| `SessionLock` | `SessionLock.__enter__`, `_remove_if_stale`, `__exit__`, deaths, the clock; shown to implement `SessionMutex` while nobody dies or is slow inside |
| `SessionLockProofs` | theorems about `SessionLock` |
| `RepairService` | the service, store and committer of one task, every file write a step |
| `TaskLedger` | what the files of a task promise: an attempt per failure, results of attempts, nothing taken back |
| `MCRepairService` | its instances |
| `RepairServiceProofs` | where delivered, committed and learned SQL comes from |
| `RepairSessionProofs` | records, results and answers of one session, for calls that do not overlap |
| `RepairOverlapProofs` | when the session lock excludes; attempts, results, candidate and answers for calls that do overlap, if two failures are not handled at once and the lock excludes; the refinement of `TaskLedger` |
| `CandidateGates` | gates, aggregation, and the risk and consistency rules behind them, as operators on evidence |
| `AgentRun` | one agent run: runner, main agents, plan, tools, gates with one regeneration |
| `MCAgentRun` | its instances: plans, evidence |
| `AgentRunProofs` | what a run delivers, its plan, its limits, and what its agents rely on, for any main agent |
| `AgentCalls` | the operations of a run that involve an LLM: hooks, retries, adapter, shared client, compaction, sub-agent loop |
| `AgentCallsProofs` | operations end, calls are bounded and counted, the timeout is kept |
| `ExperienceStore` | the memory directory: writers, retrievals and consolidations, file by file |
| `MCExperienceStore` | its instance |
| `ExperienceStoreProofs` | what the directory keeps, who can raise, when the index is exact |
| `RepairText` | what happens to the text: diagnosis, plan, generation, diff, validation, gates |
| `MCRepairText` | its vocabulary |
| `RepairTextProofs` | what a delivered SQL is, and that the checks accept the generator's own repair |

`AgentRun` EXTENDS `CandidateGates`. `RepairService` uses the other two at their
interface: of `SessionLock` it keeps the file, who is inside and the two steps of
the stale check, and leaves the clock out; of the run it keeps a choice among its
outcomes, each candidate entered in `approved`. `AgentRunProofs` justifies the latter: what a run offers was
accepted by the gates. `RepairOverlapProofs` EXTENDS `RepairSessionProofs`,
which EXTENDS `RepairServiceProofs`. `RepairText` instantiates `CandidateGates` and feeds it
the findings and verdicts it computes itself, where `AgentRun` lets them be
anything. `AgentRun` and `AgentCalls` look at the same loop from two sides: the
first keeps what is chosen and leaves the calls out, the second keeps the calls
and leaves the choices open. `ExperienceStore` takes the memory write that is
one step of `RepairService` apart.

### SessionLock

One action per file operation: `Create` (`O_CREAT|O_EXCL`), `CreateFails`,
`Stat`, `UnlinkStale`, `GiveUp`, `Poll`, `Exit`. `file` names the caller whose
file is on disk, `age` its mtime's age, `left` and `held` a waiter's and a
holder's time. `Tick` is time; ages saturate above `StaleAfter`, so time needs
no bound. `HoldersPrompt` says whether a holder may outlive `StaleAfter`.

`SessionMutex` keeps apart that the lock is taken and that somebody is inside.
Mapped to it, the lock is taken while the file is there, and those are inside whose
`__enter__` returned (`Holds`), whoever's file it is. So an unlink by a caller that
is not inside, or of a file that another one created, is no step of `SessionMutex`.

### RepairService

A call is a record `call[w]`: a label (which write comes next), the event, the
session copy `mem` and attempt copy `att` the Python call holds in variables,
and the result `ret` it is about to store. `session`, `attempts` and `results`
are the files. Since `save_session` writes the whole copy, lost updates are in
the model as they are in the code. `Crash(p)` kills a process between any two
writes; its calls are gone, its lock file is an orphan, its active keys empty.

`lock` is the lock file (who created it, `Free`, or `Orphan`), `inside` the calls
whose `__enter__` returned with the lock, `look[w]` what a waiting call knows of the
file. `FindStale` and `RemoveStale` are the stat and the unlink of
`_remove_if_stale`: the second removes the file that is there by then. Without a
clock, a waiting call may find an orphaned file stale at any time and a live
holder's never: a critical section is faster than 60 s. `ReleaseLock` unlinks by
path too, so that after a raced removal a call may release the lock of another.

| Actions | Code |
|---|---|
| `EnterSession`, `FindStale`, `RemoveStale`, `LockTimeout` | `lock_for_task`, `_remove_if_stale`, `load_or_create_for_event` |
| `ReplayResult`, `AnswerInProgress`, `Recover*`, `ResumeAttempt`, `FinishUnsafe` | lines 104-200 |
| `RecordFailed`, `CreateAttempt`, `LinkAttempt`, `BeginRun` | 201-209, `create_attempt` |
| `RejectInput`, `KeepPrevious`, `LoadPrevious`, `SavePrevious`, `AgentProposes`, `AgentStops`, `StopRun`, `AgentRaises`, `SaveHuman*` | 213-273, `_human` |
| `CommitFails`, `CommitRefused`, `CommitAttempt`, `CommitSession`, `CommitDone` | 274-295, the committer |
| `DiscardActive`, `WriteResult`, `FinishFailed` | `_persist_external_result` |
| `AckDuplicate` ... `DegradeTimeout` | `_handle_success_event`, 323-398 |
| `ErrorIsCaught`, `ErrorIsRaised`, `SuccessError` | an `OSError` of the read or write the call is at: lines 221-295, those before 221, and 84-95, 376-398 |

A file error leaves the file as it was (`write_json_atomic` replaces whole
files) and the lock released. What it does not undo is memory: the event that
became active, the record `finish_event` changed. `guarded` says whether the
call is in the try block of the run, `kept` is the session copy that its except
clause still has while a commit works on a newer one, `prev` the previous attempt
between its load and its save, which are outside the lock. `reported` is history:
the events the upstream has sent, so that an experience counts as confirmed only
by a SUCCESS that has come.

Abstractions. A session that does not exist is a new one. Stage references of
an attempt are only saved together with a terminal status, so a `CREATED`
attempt on disk never has any. The refusals that ask the caller to retry are
one answer, `BUSY`, which consistency of answers does not count. Trace events,
`last_external_result_ref`, `agent_terminal_status`, the disabled agent and
unsupported statuses are left out. The upstream reports only on SQL it started
with or was given (as `mock_external_system/mock_upstream_event_runner.py:27-61`
does). `WriteResult` stores what `PersistenceSanitizer` leaves of a result,
`Sanitized`: the constant `Redact` says what becomes of each SQL.

### CandidateGates and AgentRun

Validation and reflection are modelled by what they found (`Finding`,
`Verdict`), and the gates by what they decide from it. `Deliverable` says what
evidence a delivered candidate must have, independently of the gates' code.
In `AgentRun` an iteration of the loop is one step, since the run is
sequential; the clock is a choice at the top of the loop, where the code reads
it. Choices of the main agent are a set: `Deterministic` for
`DeterministicMainAgent`, `LlmChoices` for `LLMMainAgent`, `AnyChoices` for any
implementation of the `MainAgent` protocol (`agent_runner.py:18`). A plan is a
sequence of steps with dependencies; `Credit` is `apply_observation`. A
sub-agent calls the parent's tools with the parent's context
(`SubAgentFills`), so it may fill the parent's workspace, also when it fails or
ends the run.

Left out: the phase (it stays `INIT`, so `TOOL_PHASE_FORBIDDEN` cannot happen),
a block by the budget hook (the runner's own limits are reached first, which is
`RefusedOnlyWhenLate` of `AgentCalls`), context snapshots, the observation of a
proposal (nothing reads it).

### AgentCalls

A run is one thread. `stack` holds its unfinished operations, so that an LLM
call inside a compaction, a tool or a sub-agent is a record above another.
`Start` is `HookManager.execute_operation` up to the operation itself (which
hooks apply, which of them blocks, which must run afterwards), `Finish` its
`finally`; `Retries` and `Again` are `LLMRetryHook`. `SetTimeout`, `Request` and
`Reply` are `LLMAdapter._generate` with the provider's answer as a choice of
five outcomes. `pc` follows `AgentRunner.run`, `LLMMainAgent.next_action`, the
gate adapter's regeneration and the service's reflection; `Exceeded`, `SubAsks`,
`SubAnswered`, `SubStops` are `SubAgentRunner.run`. Other runs exist only as far
as they touch this one: `OtherSets` and `OtherRestores` change the timeout of the
client that the service shares among runs. `open`, `tally` and `clashed` are
history.

### ExperienceStore

A file is the logical keys it names and its kind (its keywords together with
the shape of its modification: what the consolidator compares). `disk[i]` may
also be `Torn`, which is what `write_text` shows before it has written;
`write_text_atomic` never shows it. Listing a directory, reading each file,
saving, unlinking, truncating and rewriting are steps; a name is never reused
(`used`), and a new one may sort anywhere. A thread may die at each step, and a
SUCCESS event whose `FinishEvent` did not happen may be sent again. `learned`,
`raced` and `lost` are history: keys a write has returned for, keys whose write
overlapped another write of the same key or a consolidation, keys a
consolidator held only in memory when it died.

### RepairText

A text is a statement kind, one selected word, one WHERE word and whether
sqlglot can parse it; a word is a name, its case and what was put into it. The
names are the entity of the error, longer identifiers that contain it, literals
that quote it and other columns: what the regular expressions of `_replace_action`
tell apart. The actions are `Diagnose` (`RuleClassifier`, `LLMDiagnoser`,
`DiagnosisFusion`), `Plan`, `Generate`, `Invalid` (the static gate), `Judge`,
`Regenerate`, `JudgeAgain`. The LLM may answer any diagnosis, any of the texts
of `Written`, any fragment on the entity, any verdict.

Left out: keywords and fingerprints, the confidence of a plan, referenced
experiences (all decide nothing), error types beyond those the planner tells
apart, fragments on other words, similarity of names (the constant `Score`).

## 3. Runs

Passing runs:

| Run | Instance | Shows |
|---|---|---|
| `SessionLock_prompt` | 3 callers, nobody dies or is slow | mutual exclusion, a holder's file stays its own, refinement of `SessionMutex`: only who is inside gives the lock up |
| `SessionLock_crash` | 2 callers, up to two deaths, slow holders | an orphaned file is reclaimed, waiters end |
| `RepairService_restart` | 1 thread, 3 FAILED events (one without evidence), 1 SUCCESS, 5 calls, 2 deaths, 1 file error | answers, attempts and candidates survive deaths between any two writes, and an error in any of them |
| `RepairService_duplicates` | 3 threads of a process, 1 FAILED event and its SUCCESS, 4 calls | one runner; active events are worked on; every call returns; refinement of `TaskLedger` (one attempt, nothing recorded is taken back), though calls save whole sessions over each other |
| `RepairService_overlap` | 2 threads, 2 FAILED events, 1 SUCCESS, 4 calls, 1 death, symmetry | only approved SQL is answered, only confirmed SQL learned, in spite of lost updates and of raced removals of the lock file |
| `AgentRun_default` | deterministic agent, default limits, all evidence in both rounds | limits are kept, and never stop a run whose calls succeed; nothing is formal but what is delivered |
| `AgentRun_any` | the LLM agent and any other, small plans, reduced limits, medium risk allowed | the run ends, the plan stays a plan, delivery is sound and committable, the LLM agent is never refused |
| `ExperienceStore` | 2 writers, 1 reader, 1 consolidation, 3 keys of one kind (one already there), 2 writes, 1 death, symmetry | an attempt is learned once and stays learned, only the consolidator makes others raise, a call that meets no other leaves an exact index |
| `AgentCalls` | retries as in the code, 2 compactions, 3 steps, 2 tool calls, 1 sub-agent of 3 steps, 1 timed call of another run | operations end in the trace in order, calls are bounded and counted, the timeout is put back, the run ends |
| `RepairText` | an entity in both cases, a longer name, a quoting literal in both cases, 3 columns, 7 column lists, every failed SQL and every answer of two such words | what is delivered is the planned change of one word and grounded in the metadata; the checks pass the generator's own repair |

Runs that TLC must find violated, each a disagreement between the code and what
the repository says of it (quoted in `PROJECT.json`, "findings"):

| Run | Property | What happens |
|---|---|---|
| `RepairService_lost_update` | `NoSecondAttempt` | a save outside the lock overwrites the record of another event, whose duplicate gets a second attempt |
| `RepairService_degraded` | `SuccessCompensated` | a failed memory write is never completed by a duplicate |

Three of the properties say under which condition they hold, because without it
the code does not keep them; the condition is a history variable:

- `OneExperiencePerKey` except for `raced` keys. Writing is idempotent per
  attempt (README.md:58) only one call at a time: the service gives the session
  lock back before it writes memory (`repair_agent_service.py:357-365`), and the
  writer looks first and writes later.
- `FinishedForever` while no file operation has failed (`faults = 0`).
- `TimeoutsKept` unless `clashed`. The adapter stores the client's timeout,
  changes it and restores it. When calls of two runs overlap, a call may use the
  timeout of another, and the one that restores last may leave a short timeout
  on the client for good.

The same models show more, by changing a constant of a run:

- `MutualExclusion`, `HolderKeepsFile` and `MutexSpec` fail with one death and
  prompt holders (two callers, `MaxCrashes = 1` in `SessionLock_prompt`): two
  waiters see the same stale file, and the second unlinks the lock the first has
  just created, against README.md:7. They fail without a death, too, with a slow
  holder (`HoldersPrompt = FALSE`): its file is removed as stale while it works, and
  its `__exit__` removes the file of whoever came in.
- `NoSecondAttempt` fails in the same way with a death and a second worker of the
  same process (one FAILED event, four calls), against README.md:140: two
  deliveries of one event race for the file a death left, are inside together, and
  create an attempt each. `LogSpec`, `SingleRunner` and `CandidateFromAttempt` fail
  there too; `ResultBelongs` and `AnswerApproved` hold there, though nothing is
  proved of them in that case.
- `DeliveredIsCandidate` (defined in `RepairService`) fails with a death in
  `RepairService_restart`: between `save_attempt` and `save_session`, after which
  the recovery answers `SQL_READY` for SQL that is not the session's candidate,
  against README.md:23.
- `NeverRaises` fails with `Redact <- RedactsPassword`: the sanitizer swallows
  the quote that ends a JSON string, and every duplicate ends in an exception,
  against README.md:41. `OnlyApprovedSql` fails with a `Redact` that maps an SQL
  to another (an e-mail address in a literal): the duplicate is answered the
  redacted text.
- `LogSpec` fails on the instance of `RepairService_lost_update`: the save of an
  older copy takes the attempt of another event off the session again, so that
  its number is given out twice (`session_store.py:136`).
- `DuplicatesAgree` fails with a second worker in `RepairService_restart`, also
  without deaths: an event leaves `_active_event_keys` before it is finished
  (`repair_agent_service.py:167`), and a duplicate in between recovers it, against
  README.md:41.
- `ActiveIsServed` fails with one file error (`MaxFaults = 1` in
  `RepairService_duplicates`). An event becomes active at
  `repair_agent_service.py:206`, and the saves and loads of lines 209-220 are
  outside the try block: when one fails, the caller gets the exception, the event
  stays active, and every duplicate is told "该事件正在处理中，请稍后重试。" (line
  195) although nobody works on it, until the process ends, against README.md:59.
- `FinishedForever` without its condition fails with one file error in
  `RepairService_restart`: `finish_event` marks the record finished in memory
  before it saves it (`session_store.py:123`), and when that fails, `_human`
  saves this record and replaces the stored result after it. It also fails
  without any error when duplicates overlap, in the scenario of
  `DuplicatesAgree`: the call that recovers the event stores its own result.
  `NeverRaises` fails with any error that `ErrorIsRaised` stands for.
- `CandidateFromAttempt` fails with a second worker of another process in
  `RepairService_restart`: both calls run the event, and the one that lags saves
  its older copy of the attempt, without SQL, over the one that was committed.
  In one process it fails with two FAILED events, by the lost update.
- `SingleRunner` fails when the workers of `RepairService_duplicates` belong to
  two processes: which events run is only known in memory (line 58). It also
  fails with a second FAILED event there, whose save loses the first one's
  record.
- `cand.feedback` is empty when the static gate rejects the second candidate:
  the adapter clears `gate_feedback` (`agentic_failed_event_processor.py:325`)
  and nothing fills it again, so `repair_agent_service.py:254` records
  `REFLECTION_BLOCKED`.
- A sub-agent that answers `BUDGET_EXCEEDED`, `HUMAN_REQUIRED` or
  `NEED_MORE_CONTEXT` ends the run (`CallRaises`): its status is none an
  `Observation` may have.
- `LearnedKept` and `OneExperiencePerKey` without `lost` and `raced` fail in a
  consolidation that dies between unlinking the merged files and rewriting the
  canonical one (`memory_consolidator.py:52-63`), and in one that overlaps a
  write. A rebuild that overlaps it leaves an index that names missing files.
  README.md:50 says consolidation was removed; `cli.py:65,96` still offers it.

What the actions record of the code, where no property is at stake:

- The budget hook refuses nothing but LLM calls after the wall clock has run out
  (`RefusedOnlyWhenLate`): the last compaction's and `post_reflect`'s. The latter
  does not expect a `HookBlockedError`, which is no `LLMClientError`, and ends
  the event as an internal error. The clock is read at the top of the loop only.
- A compaction may call the provider 16 times, as its four tries each retry the
  call inside. `llm_call_count` counts operations, the refused ones included, and
  not provider calls (README.md:53).
- `AgentConfig.sub_agent_limits` is read nowhere; a worker's call has the client's
  own timeout and not the sub-agent's 30 s; the client's `TimeoutError` branch
  cannot be reached.
- `ADD_CAST` replaces plain text, so that an entity that is only part of a longer
  identifier is cast inside it (`sql_generator.py:120`), against the "identifier"
  of `repair_planner.py:11` and `prompt_templates.py:8`. In WHERE the result does
  not parse, and is still delivered if medium risk is allowed.
- `COLUMN_NOT_FOUND` for a column that is in the metadata plans its replacement
  by itself. SQL that cannot be parsed is compared ignoring case, literals
  included. `cannot_generate_safely` is not read when a text came with it, and
  a fragment that applies overrules `generated = false`.
- The LLM may call a `PERMISSION_ERROR` repairable; the planner acts on two error
  types only, so nothing comes of it (`DeliveredIsGrounded`).

Bounds, and why they are enough. `MaxCalls` 4-5 with 2-3 events gives every
event a duplicate, a duplicate during its run and one after a death; a new
failure of the delivered candidate (`f2` reports on `s1`) needs three calls.
Two deaths allow a death during the recovery from the first; one file error may
meet any read or write, also of a recovery. Three threads are one runner, one
duplicate and one that overlaps both. Attempt numbers are bounded by
`MaxAttempts`, which is at least the number of attempts these calls can create, except in `duplicates`, where a second attempt is already the
violation. In the lock, `StaleAfter` and `Timeout` of a few ticks are enough for a
waiter to see a file before, at and after its stale age. In `AgentRun`, the
default limits are used where the agent is deterministic; elsewhere plan
revisions, sub-agent calls, idle steps and remembered observations are cut to
1 or 2, and steps and tool calls to 8, so that every limit can be the one that
is reached, and the evidence is cut to the decisions the gates tell apart.

In `ExperienceStore` two writes and a known experience make a group of two or
three files to merge; the writes may be of one key (repeated, or racing) or of
two; one kind makes every two files equivalent, which is the only case in which
the consolidator does anything. The death can hit any of them. In `AgentCalls`
the retry limits are the code's; three steps are a planning step, an action
and a step at the limit; a sub-agent of three steps reaches each of its limits;
one timed call of another run meets each phase of a call of this one. In
`RepairText` two words are the least in which an entity can occur once, twice,
in a literal and inside a longer name; the column lists have no, one, several,
tied, equal-named and untyped columns. What the small instances leave out - more
threads, several processes, more events, calls, deaths and file errors, larger
limits and directories - the theorems of section 5 cover for the properties they
prove.

## 4. Fairness

`SessionLock`: weak fairness of every caller's own step (a thread that runs
keeps running) and of time. The code polls, so nothing is assumed of lock
acquisition. `OrphanReclaimed` additionally assumes that somebody keeps trying
(`RetrySpec`): nobody reclaims a file nobody asks for.

`RepairService`: weak fairness of each worker, the two steps of its stale check
included. Nothing is assumed of the lock: a worker that waits for it may time out,
and `EnterEnds` of `SessionLock_crash` shows that it does. Weak fairness of the agent run is
justified by `RunEnds` and by the timeouts of the LLM client.

`AgentRun`: weak fairness of the loop: every call it makes has a timeout or is
local. Termination itself (`RunEnds`) is not assumed but follows from the
counters.

`AgentCalls`: weak fairness of the run's own thread, that is: the provider
answers or the client times out (`llm_client.py:81-108`). Nothing is assumed of
other runs. `ExperienceStore` and `RepairText` state no liveness.

## 5. Proofs

All proofs are checked by TLAPS for every value of the constants.

`SessionLockProofs`. `TypeCorrect` is unconditional. `Exclusion`, `FileKept`
and `Refinement` assume `Benign`: no caller dies inside the lock and none
holds it longer than `StaleAfter`. The inductive invariant is `LockInv`: the
file belongs to the only holder, is as old as its holder's time, and nobody is
between stat and unlink. `Refinement` needs all of it. A stale check may not
unlink at all, since the lock would be given up by who is not inside, and an
`__exit__` has to unlink the file of its own caller, since the lock would be free
with another one inside. Without `Benign` all three are false, as section 3 says,
with a death as well as with a slow holder.

`RepairServiceProofs`. The invariant is `Provenance`: every session copy,
attempt and result, on disk, in the memory of a call or in an answer, carries
only SQL of `approved`, and confirmed SQL that a SUCCESS reported. It holds of
copies as well as of files, so overwriting a file by an old copy cannot break
it: this is why lost updates, reused attempt numbers and torn commits cannot
make the service invent SQL. From it follow `TypeCorrect`,
`LearnedFromSuccess` and `OnlyHanded` (answered SQL was approved or is a
sanitized form of approved SQL); `OnlyApproved` assumes `NothingRedacted`, and
it is needed, as section 3 says. File errors are steps of the proof too
(`ErrorStep`). The steps are grouped by part of
the handler, one lemma each, on top of lemmas about the record operators.

`RepairServiceProofs` needs no hypothesis about who calls when. What a session
promises beyond that is lost when two failures of a task are handled at once
(`RepairService_lost_update`), so each of the following theorems names what it
excludes, as a temporal hypothesis, and no more.

`RepairOverlapProofs` assumes two things. `[]SeparateFailures`: FAILED calls that
are under way at once report the same event. `[]Exclusive`: no two calls are inside
the lock. Duplicates of that event, SUCCESS events, recoveries and file errors may
come between any two writes, in any number of threads and processes. Deaths may
too, as far as the second hypothesis allows them, and two theorems say how far that
is. `ExclusiveUntilDeath`: while nobody has died it holds, without a hypothesis.
`ExclusionHolds`: after deaths it holds as long as no removal of a stale file is
raced (`Unraced`: the file a caller is about to unlink is the orphan it found, or
another). After a raced removal the theorems of the ledger do not hold (section 3
names those TLC finds violated). The invariant of these two is `LockKept`: whoever is
inside created the file that is there.

The invariant of the others is `Ledger`. The first thing one
would try, that the copy a call holds is the file, is false: a SUCCESS call and
a duplicate save whole sessions over each other. What survives is the *book* of a
copy: how many attempts it counts, which events it has a record of, and which
attempt each record names (`SameBook`); status, reference and candidate may be
old. `Tidy` says that the records on file point to attempts and results of their
own events, `Copied` that every copy in memory has the book of the file, `Locked`
who is inside the lock, `Working` that a call that works on an attempt has the one of
its event, `Making` that a call that creates one does so for an event that has
none. Every step is either `Steady` - it keeps the book, lets no attempt become
`CREATED` again and removes no result - or one of the three steps of a call that
makes an attempt, during which nobody else holds a copy (`NoOther`). So the
proof has a lemma for each part of the handler about its own call, and one,
`OthersFit`, about all other calls. From `Ledger` follow `OneAttemptPerEvent`
and `FinishedWithOwnResult`, and the refinement `RecordsAreALedger`: linking an
attempt is `Open` of `TaskLedger`, the first result of an attempt is `File`, and
every other step, deaths and file errors included, is a stutter (`Stutters`).
There the abstract state is `attempt_ids`, the attempt each record names, and
which results are on file. Four more invariants stand on `Ledger`:

- `Licensed`: stored results, results in the memory of a call and answers carry
  only SQL approved for the event they are for. `AnswersApproved` needs
  `NothingRedacted` besides: the answer read back from a file is what the
  sanitizer left of it.
- `Served`: while no file operation has failed, whoever finds its event active
  finds a call at a label between `input` and `discard`. `ActiveIsWorkedOn` has
  the same condition; section 3 says what a file error does.
- `Running`: at most one call runs; what it runs is active or its attempt is no
  longer `CREATED` (`Marked`), and the latter holds from the moment its outcome
  is decided (`Sealed`), before the event stops being active. `OneRunAtATime`
  assumes in addition that all threads are of one process.
- `Offering`: the candidate of every copy that may still be saved is the SQL of
  the attempt it names (`Offered`), the attempt on file of the running call
  proposes nothing the call does not know (`Proposed`, `Abreast`), and no step
  takes from an attempt the SQL it proposes (`CandidateStays`). It rests on
  `Running`, since a second runner could overwrite the attempt the first has
  committed; so `CandidateStaysProposed` assumes one process too.

`RepairSessionProofs` assumes `[]OneCall`: a call begins when the previous one
has ended or died. Then the copy a call holds is the file but for its own
record (`Current`), and three properties hold that overlapping calls break
(section 3): `FinishedStays`, `AnswersAgree`, `CandidateIsProposed`. `Orderly`
(`Filed` for the files, `Works` for each call) is the invariant of the first and
the last. The answers need `Consistent`: an answer that was given is the stored
result of its event, or HUMAN_REQUIRED and the attempt can never become SQL
again (`Given`); a call on an event that was answered can only answer
HUMAN_REQUIRED once more (`Repeats`). `AnswersAgree` assumes `NothingRedacted`.
`Candidate` ties the session's candidate to an attempt that may be overwritten by
nobody else. Calls of several processes break `CandidateFromAttempt`, and so do
two FAILED events whose calls overlap (section 3). `CandidateIsProposed` and
`CandidateStaysProposed` exclude these in two ways, and neither implies the
other: the first allows any number of processes, the second calls that overlap.

TLC checked these invariants, most on instances larger than the runs: `Orderly`
and `Consistent` on `RepairService_restart` and on two workers of two processes
under `OneCall`; `Ledger`, `Licensed` and `Served` with `SeparateFailures` and
`Exclusive` as state constraints, with two FAILED events, a SUCCESS, a death and a
file error, for two workers of one process (four calls) and of two (three calls),
and for three workers of one process with one FAILED event; `Running` and
`Offering` likewise, with workers of one process.

`AgentRunProofs`, on what is delivered. `StaticIsSound` and `SemanticIsSound`
say what a gate that lets a candidate pass has seen; `GatesAreSound` that an
accepted result means `Deliverable` evidence. The invariant `RunInv` adds, for
each place of the run, how draft, artifact, formal SQL, gate result and history
relate; from it `OnlySoundIsDelivered`, `CommitterAccepts` and
`RejectedIsNotFormal`, for any agent, plans, limits and evidence.

`AgentRunProofs`, on plan and limits. `MainInv` has a conjunct per concern:
`Counted` (the counters at each place of an iteration: the type invariant is not
inductive, since it says nothing of a counter that was already looked at),
`Past` (the observations, one more than are kept until they are trimmed),
`Planned` (the plan passes `_validate_structure`), `Drafted` and `Placed` (the
candidate at each place), `Trusted` (an LLM agent that is not yet ready has used
no revision). From it `RunTypeCorrect`, `PlansStaySound` - `Credit` and the
revisions of an LLM keep a plan a plan, assuming `PlansAssumption`, that what the
LLM's answer is parsed into has the shape of a plan - and `LlmIsTrusted`.
`DeterministicHasRoom` rests on `Unhindered`, which follows the deterministic
agent through its fixed order of tools and counts what it has used before each.
It assumes `RoomForAll` (`MaxSteps >= 8`, `MaxTools >= 7`, `MaxSubs >= 2`). The
defaults of the code satisfy it, and each bound is the least: TLC violates
`LimitsLeaveRoom` with 7/7/2, 8/6/2 and 8/7/1.

`AgentCallsProofs` holds for any limits, hooks' decisions and provider. `CallsInv`
adds to the types: `Nested` (an LLM call inside another operation, and which
answers may be waiting where), `Hooked` (every operation under way passed the
trace and budget hooks, so each has its end traced), `Room` and `RoomInside`
(what the limits read at the top of the loop still leave at each place),
`Tallied` (provider calls against ended LLM calls, in units of the retries one of
them may use, and against `llm_call_count`) and `Clocked` (who has changed the
client's timeout, and from what, unless `clashed`). `CallsBounded` is not
inductive: it bounds a sum whose parts `Tallied` tracks; `RoundsBounded` turns one
into the other. From it `EndsAreTraced`, `RefusalsAreForTheClock`,
`TimeoutsAreKept`, `CallsAreBounded`, `CallsReachTheCount`.

`ExperienceStoreProofs` holds for any number of threads, keys and files. `Whole`
(types, roles, identifiers that were given out, groups being merged) gives
`StoreTypeCorrect`, which no run checks because TLC would enumerate its sets.
`NothingRaises` is the invariant `Untidied`: before a consolidation begins, no
file is torn, and what an index or a listing names is there. `LoneCallsIndex` is
`Lone`: while a call meets no other that writes, what it has read of the files is
what they are. Two theorems assume `[]OneAtATime`, consolidations that do not
overlap each other; both properties fail with two consolidators. `Stock` is their
invariant: a write whose key is not `raced` meets neither a consolidation nor
another write of the key (`RacesSeen`) and has still to search every file that
names it (`Found`); the files of a group being merged name the keys it carries
over, and no other file does (`Moved`); what is not `lost` is on file or carried
by a consolidator (`AllKept`). They are `LearnedOnce` and `NothingIsForgotten`.

`RepairTextProofs` holds for any vocabulary, similarity of names, metadata,
failed SQL and answer of a model. `BestExists` shows that every list of columns
has a most similar one, the first of equals (by the well-foundedness of the
natural numbers, since `Best` is a choice); `PlanIsGrounded` what a plan may
then put in; `MatchIsThePlan` that a text `candidate_matches_plan` accepts is
the planned change of one word; `OwnIsClean` and `OwnAccepted` that neither the
diff nor a gate objects to what the generator makes of its own plan. `TextInv`
adds to the types where plan and candidate come from. The proof settled how far
`DeliveredIsThePlan` goes: a candidate that sqlglot cannot parse is compared as
lowered text, so there the case of a literal may change too.

Every safety invariant and action property that a passing run checks is stated
by a theorem, under the hypotheses named above; the runs check them on their
instances without these hypotheses. Only model-checked: liveness (`CallsReturn`,
`RunEnds` of `AgentRun` and of `AgentCalls`, `EnterEnds`, `OrphanReclaimed`),
which is out of the prover's reach. Neither proved nor checked by a run are
`DeliveredIsCandidate` and `NeverRaises`, which are false.

## 6. Not modelled

Command line and trace: pure I/O that nothing reads. The package
`sql_self_healing_agent.logs` is imported by the code but not in the repository;
a log that is read, missing or unreadable is a choice in `AgentRun`. Prompts,
and the context views and snapshots that only end in prompts. Extraction of
table names, similarity of names, regular expressions and sqlglot themselves:
`RepairText` has what their results tell apart. README.md:43,47 promise an
oscillation check before planning; nothing appends to `diagnosis_history` and
the planner is never given a `post_reflection_result` (`evaluator.py:93`,
`repair_planner.py:21-25` are dead), so there is no state to model. A FAILED
report for SQL whose SUCCESS was confirmed overwrites the attempt's status
(`repair_agent_service.py:218`); no document says which should win.

## 7. Plan

1. Done: `SessionMutex`, `SessionLock`, `RepairService`, `CandidateGates`,
   `AgentRun`, their runs and proofs; `ExperienceStore`, `AgentCalls` (with the
   sub-agent and the compaction) and `RepairText` and their runs.
2. Done: proofs about every component that is modelled, with a theorem for each
   safety property of a passing run.
3. A weaker hypothesis for `FinishedStays`: SUCCESS events that do not overlap a
   FAILED one.
4. `RepairService`: a second task - task identifiers are sanitized in two ways
   (`session_store.py:22`, `session_lock.py:29`), so that two tasks may share a
   session directory and not its lock - and the mock upstream's rounds.
5. Answers in `TaskLedger` (one result per failure, which every duplicate is
   given), for calls that do not overlap; it has attempts and results now.
6. Context views and snapshots, if anything but a prompt comes to depend on them.
