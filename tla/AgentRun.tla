--------------------------------- MODULE AgentRun ---------------------------------
(***************************************************************************)
(* One run of the repair agent for one FAILED event: the loop of           *)
(* AgentRunner over a main agent, the tools of AgenticActionExecutor, the  *)
(* execution plan, and OnlineGateAdapter with its single regeneration.     *)
(*                                                                         *)
(* The run is sequential: an iteration of the loop is one action, and so   *)
(* is every visit to the gates.  What varies is what the LLM, the tools,   *)
(* the wall clock and the gates' evidence answer.                          *)
(***************************************************************************)
EXTENDS CandidateGates, Sequences, FiniteSets

CONSTANTS
  Agents,        \* which main agents may run
  Plans,         \* the plans an LLM may answer with
  Summaries,     \* the summaries a sub-agent may return
  Findings, Verdicts,   \* what validation and reflection may say
  NoStep,        \* current_step_id of a plan without a current step
  MaxSteps, MaxTools, MaxSubs, MaxRevisions, MaxIdle, MaxRounds,   \* AgentRunLimits
  MaxSeen        \* max_recent_observations

ASSUME AgentRunAssumption ==
  /\ Findings \subseteq Finding /\ Verdicts \subseteq Verdict
  /\ Agents \subseteq {"deterministic", "llm", "any"}
  /\ {MaxSteps, MaxTools, MaxSubs, MaxRevisions, MaxIdle, MaxRounds, MaxSeen} \subseteq Nat \ {0}

VARIABLES
  pc,         \* where the run is
  run,        \* AgentRunState
  outcome,    \* AgentRunResult.status and stop_reason
  main,       \* the main agent of the run, and LLMMainAgent._initialized
  plan,       \* context.execution_plan
  seen,       \* context.recent_observations
  keys,       \* keys of context.workspace with a value
  unknown,    \* the diagnosis says UNKNOWN
  product,    \* SQL of context.workspace["candidate_sql"] if it is AVAILABLE
  cand,       \* context.candidate; ref: the SQL its artifact was saved from
  last,       \* gate_runner.last_result
  generated,  \* history: what the SQL generator answered
  judged,     \* history: Deliverable of the evidence the last gates saw
  failures    \* history: a call failed, an action was refused or time ran out

vars == <<pc, run, outcome, main, plan, seen, keys, unknown, product, cand, last,
          generated, judged, failures>>

workVars == <<keys, unknown, product, generated>>
gateVars == <<last, judged>>

\* No gate has run yet.
NoResult == Result("none", "NONE", "LOW", NoSql)

-----------------------------------------------------------------------------
(* Tools: a tool is named by the workspace key it fills *)

ToolNames == [log_digest        |-> "ReadLogTool",
              diagnosis         |-> "DiagnoseTool",
              metadata_snapshot |-> "MetadataQueryTool",
              memory_retrieval  |-> "MemoryRetrieveTool",
              repair_plan       |-> "BuildRepairPlanTool",
              candidate_sql     |-> "GenerateCandidateTool"]

Key == DOMAIN ToolNames

\* The objects a handler reads; a missing one is a KeyError, a failed call.
Needs(k) ==
  CASE k = "diagnosis"        -> {"log_digest"}
    [] k = "memory_retrieval" -> {"diagnosis"}
    [] k = "repair_plan"      -> {"log_digest", "diagnosis", "metadata_snapshot", "memory_retrieval"}
    [] k = "candidate_sql"    -> {"repair_plan"}
    [] k \in {"log_digest", "metadata_snapshot"} -> {}

\* The registered tools that a sub-agent's task allows.
AllowedTools == {{"log_digest", "metadata_snapshot"}, {"metadata_snapshot", "memory_retrieval"}}

\* What a plan step or an action asks for.  "bad_input" is a registered tool
\* with an input its schema forbids.
Request == Key \cup {"unregistered", "bad_input", "sub_agent"}

-----------------------------------------------------------------------------
(* Execution plans *)

\* What ExecutionPlan accepts: steps in order.
IsPlan(p) ==
  /\ p = [steps |-> p.steps, cur |-> p.cur]
  /\ Len(p.steps) \in Nat /\ p.steps = [i \in 1..Len(p.steps) |-> p.steps[i]]
  /\ \A i \in DOMAIN p.steps :
        LET step == p.steps[i]
        IN  step = [id |-> step.id, does |-> step.does, deps |-> step.deps, st |-> step.st]

ASSUME PlansAssumption == \A p \in Plans : IsPlan(p)

StepIds(p) == {p.steps[i].id : i \in DOMAIN p.steps}

StepOf(p, id) == p.steps[CHOOSE i \in DOMAIN p.steps : p.steps[i].id = id]

\* _validate_structure.  There is a cycle if some steps all wait for one of
\* themselves.
ValidStructure(p) ==
  /\ p.steps # <<>>
  /\ \A i, j \in DOMAIN p.steps : p.steps[i].id = p.steps[j].id => i = j
  /\ \A i \in DOMAIN p.steps : p.steps[i].deps \subseteq StepIds(p)
  /\ \A S \in (SUBSET StepIds(p)) \ {{}} : \E id \in S : StepOf(p, id).deps \cap S = {}
  /\ p.cur \in StepIds(p) \cup {NoStep}

AllowedTransitions ==
  [PENDING     |-> {"PENDING", "IN_PROGRESS", "SKIPPED"},
   IN_PROGRESS |-> {"IN_PROGRESS", "COMPLETED", "BLOCKED", "SKIPPED"},
   BLOCKED     |-> {"BLOCKED", "IN_PROGRESS"},
   COMPLETED   |-> {"COMPLETED"},
   SKIPPED     |-> {"SKIPPED"}]

ValidTransition(old, new) ==
  /\ ValidStructure(new)
  /\ \A id \in StepIds(old) :
        id \in StepIds(new) /\ StepOf(new, id).st \in AllowedTransitions[StepOf(old, id).st]

\* The plan a run starts with; build_repair_plan is not one of its steps.
InitialPlan ==
  LET step(id, does, deps) == [id |-> id, does |-> does, deps |-> deps, st |-> "PENDING"]
  IN  [steps |-> <<step("read_log", "log_digest", {}),
                   step("diagnose", "diagnosis", {"read_log"}),
                   step("query_metadata", "metadata_snapshot", {"diagnose"}),
                   step("retrieve_memory", "memory_retrieval", {"diagnose"}),
                   step("generate_candidate", "candidate_sql",
                        {"diagnose", "query_metadata", "retrieve_memory"})>>,
       cur |-> "read_log"]

Eligible(p, i) ==
  /\ p.steps[i].st = "PENDING"
  /\ \A d \in p.steps[i].deps : StepOf(p, d).st \in {"COMPLETED", "SKIPPED"}

FirstEligible(p) ==
  LET eligible == {i \in DOMAIN p.steps : Eligible(p, i)}
  IN  IF eligible = {} THEN NoStep
      ELSE p.steps[CHOOSE i \in eligible : \A j \in eligible : i <= j].id

\* apply_observation: the outcome is credited to the step that was current,
\* whatever the action asked for.
Credit(p, status) ==
  IF p.cur \notin StepIds(p) THEN p
  ELSE LET credited == [p EXCEPT !.steps = [i \in DOMAIN p.steps |->
                          IF p.steps[i].id = p.cur
                          THEN [p.steps[i] EXCEPT !.st = IF status = "SUCCEEDED" THEN "COMPLETED"
                                                         ELSE "BLOCKED"]
                          ELSE p.steps[i]]]
       IN  [credited EXCEPT !.cur = FirstEligible(credited)]

-----------------------------------------------------------------------------
(* Observations *)

Observed(kind, status, about, n, made) ==
  [kind |-> kind, status |-> status, about |-> about, n |-> n, made |-> made]

\* deterministic_trim: of several observations with the same action, status and
\* summary the newest stays, and of those the newest MaxSeen.
Trim(s) ==
  LET alike(a, b) == a.kind = b.kind /\ a.status = b.status /\ a.about = b.about /\ a.n = b.n
      newest == {i \in DOMAIN s : \A j \in DOMAIN s : j > i => ~alike(s[i], s[j])}
      kept == {i \in newest : Cardinality({j \in newest : j >= i}) <= MaxSeen}
      nth(n) == CHOOSE i \in kept : Cardinality({j \in kept : j <= i}) = n
  IN  [n \in 1..Cardinality(kept) |-> s[nth(n)]]

MadeProgress(o, s) ==
  \A i \in DOMAIN s : <<s[i].kind, s[i].about, s[i].made>> # <<o.kind, o.about, o.made>>

-----------------------------------------------------------------------------
(* Main agents *)

\* Mutant of Deterministic: the sub-agent is asked again while the diagnosis
\* stays UNKNOWN.
DeterministicAsksAgain ==
  IF "log_digest" \notin keys THEN [type |-> "CALL", what |-> "log_digest"]
  ELSE IF "diagnosis" \notin keys THEN [type |-> "CALL", what |-> "diagnosis"]
  ELSE IF unknown THEN [type |-> "CALL", what |-> "sub_agent"]
  ELSE IF "metadata_snapshot" \notin keys THEN [type |-> "CALL", what |-> "metadata_snapshot"]
  ELSE IF "memory_retrieval" \notin keys THEN [type |-> "CALL", what |-> "memory_retrieval"]
  ELSE IF "repair_plan" \notin keys THEN [type |-> "CALL", what |-> "repair_plan"]
  ELSE IF "candidate_sql" \notin keys THEN [type |-> "CALL", what |-> "candidate_sql"]
  ELSE IF product = NoSql THEN [type |-> "RETURN_HUMAN_REQUIRED"]
  ELSE [type |-> "PROPOSE", sql |-> product]

\* DeterministicMainAgent: the first evidence that is missing.
Deterministic ==
  IF "log_digest" \notin keys THEN [type |-> "CALL", what |-> "log_digest"]
  ELSE IF "diagnosis" \notin keys THEN [type |-> "CALL", what |-> "diagnosis"]
  ELSE IF unknown /\ run.subs = 0 THEN [type |-> "CALL", what |-> "sub_agent"]
  ELSE IF "metadata_snapshot" \notin keys THEN [type |-> "CALL", what |-> "metadata_snapshot"]
  ELSE IF "memory_retrieval" \notin keys THEN [type |-> "CALL", what |-> "memory_retrieval"]
  ELSE IF "repair_plan" \notin keys THEN [type |-> "CALL", what |-> "repair_plan"]
  ELSE IF "candidate_sql" \notin keys THEN [type |-> "CALL", what |-> "candidate_sql"]
  ELSE IF product = NoSql THEN [type |-> "RETURN_HUMAN_REQUIRED"]
  ELSE [type |-> "PROPOSE", sql |-> product]

\* _step_action, or what the fallback chooses.
FollowPlan ==
  IF plan.cur \in StepIds(plan) /\ StepOf(plan, plan.cur).does \in Request
  THEN [type |-> "CALL", what |-> StepOf(plan, plan.cur).does]
  ELSE Deterministic

\* Mutant of LlmChoices: a revision is validated as if it were a first plan.
LlmRevisesFreely ==
  {FollowPlan}
    \cup {[type |-> "UPDATE_PLAN", plan |-> p] : p \in {q \in Plans : ValidStructure(q)}}
    \cup (IF product # NoSql THEN {[type |-> "PROPOSE", sql |-> product]} ELSE {})

\* LLMMainAgent.  A plan that stays invalid after one repair, and an answer
\* that cannot be had, fall back; the agent cannot write SQL itself.
LlmChoices ==
  IF ~main.ready
  THEN {[type |-> "UPDATE_PLAN", plan |-> p] : p \in {q \in Plans : ValidStructure(q)}}
         \cup {Deterministic}
  ELSE {FollowPlan} \cup
       (IF seen = <<>> THEN {} ELSE
          {[type |-> "UPDATE_PLAN", plan |-> p] : p \in {q \in Plans : ValidTransition(plan, q)}}
            \cup {[type |-> "RETURN_HUMAN_REQUIRED"]}
            \cup (IF product # NoSql THEN {[type |-> "PROPOSE", sql |-> product]} ELSE {}))

\* Any implementation of the MainAgent protocol.
AnyChoices ==
  {[type |-> "CALL", what |-> r] : r \in Request}
    \cup {[type |-> "UPDATE_PLAN", plan |-> p] : p \in Plans}
    \cup {[type |-> "PROPOSE", sql |-> s] : s \in Sql}
    \cup {[type |-> t] : t \in {"RETURN_NO_SQL", "RETURN_HUMAN_REQUIRED", "INVALID"}}

Choices ==
  CASE main.agent = "deterministic" -> {Deterministic}
    [] main.agent = "llm"           -> LlmChoices
    [] main.agent = "any"           -> AnyChoices

-----------------------------------------------------------------------------
(* Limits *)

StopReasons == <<"MAX_STEPS", "MAX_TOOL_CALLS", "MAX_SUB_AGENT_CALLS", "MAX_WALL_TIME",
                 "MAX_PLAN_REVISIONS", "MAX_GATE_REPAIR_ROUNDS", "NO_PROGRESS">>

\* Mutant of Reached: one tool call too many.
ReachedOneLate(late) ==
  <<run.steps >= MaxSteps, run.tools > MaxTools, run.subs >= MaxSubs, late,
    run.revisions >= MaxRevisions, run.rounds > MaxRounds, run.idle >= MaxIdle>>

Reached(late) ==
  <<run.steps >= MaxSteps, run.tools >= MaxTools, run.subs >= MaxSubs, late,
    run.revisions >= MaxRevisions, run.rounds > MaxRounds, run.idle >= MaxIdle>>

\* _stop_reason: the first limit that is reached.
StopReason(late) ==
  LET reached == {i \in DOMAIN StopReasons : Reached(late)[i]}
  IN  IF reached = {} THEN "NONE"
      ELSE StopReasons[CHOOSE i \in reached : \A j \in reached : i <= j]

-----------------------------------------------------------------------------
Init ==
  /\ pc = "loop"
  /\ run = [steps |-> 0, tools |-> 0, subs |-> 0, revisions |-> 0, rounds |-> 0, idle |-> 0]
  /\ outcome = [status |-> "RUNNING", stop |-> "NONE"]
  /\ main \in [agent : Agents, ready : {FALSE}]
  /\ plan = InitialPlan
  /\ seen = <<>>
  /\ keys = {} /\ unknown = FALSE /\ product = NoSql
  /\ cand = [draft |-> NoSql, ref |-> NoSql, formal |-> NoSql, status |-> "NONE", feedback |-> "none"]
  /\ last = NoResult
  /\ generated = {} /\ judged = FALSE /\ failures = FALSE

Finish(status, stop) == pc' = "done" /\ outcome' = [status |-> status, stop |-> stop]

\* An iteration that is not stopped and in which the agent chooses a.
Turn(a) ==
  /\ pc = "loop"
  /\ StopReason(FALSE) = "NONE"
  /\ a \in Choices
  /\ main' = [main EXCEPT !.ready = @ \/ main.agent = "llm"]

\* A limit is reached; the wall clock may reach its own at any iteration.
Stop ==
  /\ pc = "loop"
  /\ \E late \in BOOLEAN :
        /\ StopReason(late) # "NONE"
        /\ Finish("HUMAN_REQUIRED", StopReason(late))
        /\ failures' = (failures \/ late)
  /\ UNCHANGED <<run, main, plan, seen, cand, workVars, gateVars>>

Return(type, status) ==
  /\ Turn([type |-> type])
  /\ Finish(status, "NONE")
  /\ run' = [run EXCEPT !.steps = @ + 1]
  /\ UNCHANGED <<plan, seen, cand, workVars, gateVars, failures>>

InvalidAction ==
  /\ Turn([type |-> "INVALID"])
  /\ Finish("HUMAN_REQUIRED", "INVALID_AGENT_ACTION")
  /\ failures' = TRUE
  /\ UNCHANGED <<run, plan, seen, cand, workVars, gateVars>>

\* Mutant of UpdatePlan: the first plan is taken as it comes.
UpdatePlanTrustsFirst(p) ==
  /\ Turn([type |-> "UPDATE_PLAN", plan |-> p])
  /\ run.revisions = 0 \/ ValidTransition(plan, p)
  /\ plan' = p
  /\ seen' = Append(Trim(seen), Observed("UPDATE_PLAN", "SUCCEEDED", "plan", run.revisions + 1, {}))
  /\ run' = [run EXCEPT !.steps = @ + 1, !.revisions = @ + 1, !.idle = 0]
  /\ UNCHANGED <<pc, outcome, cand, workVars, gateVars, failures>>

UpdatePlan(p) ==
  LET valid == IF run.revisions = 0 THEN ValidStructure(p) ELSE ValidTransition(plan, p)
      note(status, n) == Observed("UPDATE_PLAN", status, "plan", n, {})
  IN  /\ Turn([type |-> "UPDATE_PLAN", plan |-> p])
      /\ IF valid
         THEN /\ plan' = p
              /\ seen' = Append(Trim(seen), note("SUCCEEDED", run.revisions + 1))
              /\ run' = [run EXCEPT !.steps = @ + 1, !.revisions = @ + 1, !.idle = 0]
              /\ UNCHANGED failures
         ELSE /\ seen' = Append(Trim(seen), note("BLOCKED", 0))
              /\ run' = [run EXCEPT !.steps = @ + 1, !.idle = @ + 1]
              /\ failures' = TRUE
              /\ UNCHANGED plan
      /\ UNCHANGED <<pc, outcome, cand, workVars, gateVars>>

\* Mutant of AfterCall: the counters are kept in a copy of the run's state.
AfterCallUncounted(o, tools, subs) ==
  /\ seen' = Append(Trim(seen), o)
  /\ plan' = Credit(plan, o.status)
  /\ failures' = (failures \/ o.status # "SUCCEEDED")
  /\ UNCHANGED <<pc, outcome, run, gateVars>>

\* What follows every observation of a call: progress, the plan's step and the
\* budget the call counts against.
AfterCall(o, tools, subs) ==
  LET before == Trim(seen)
  IN  /\ seen' = Append(before, o)
      /\ plan' = Credit(plan, o.status)
      /\ run' = [run EXCEPT !.steps = @ + 1, !.tools = @ + tools, !.subs = @ + subs,
                             !.idle = IF MadeProgress(o, before) THEN 0 ELSE @ + 1]
      /\ failures' = (failures \/ o.status # "SUCCEEDED")
      /\ UNCHANGED <<pc, outcome, gateVars>>

\* A handler fills its key.
ToolSucceeds(k) ==
  /\ Turn([type |-> "CALL", what |-> k])
  /\ Needs(k) \subseteq keys
  /\ keys' = keys \cup {k}
  /\ IF k = "diagnosis" THEN unknown' \in BOOLEAN ELSE UNCHANGED unknown
  /\ IF k = "candidate_sql"
     THEN \E s \in Sql \cup {NoSql} :
            /\ product' = s
            /\ cand' = IF s = NoSql THEN cand ELSE [cand EXCEPT !.ref = s]
            /\ generated' = generated \cup ({s} \ {NoSql})
     ELSE UNCHANGED <<product, cand, generated>>
  /\ AfterCall(Observed("TOOL_CALL", "SUCCEEDED", k, 0, keys'), 1, 0)

\* A handler raises, or the tool is not one of TOOL_NAMES.
ToolFails(r) ==
  /\ Turn([type |-> "CALL", what |-> r])
  /\ AfterCall(IF r = "unregistered"
               THEN Observed("TOOL_CALL", "BLOCKED", "unregistered internal action", 0, {})
               ELSE Observed("TOOL_CALL", "FAILED", ToolNames[r], 0, keys), 1, 0)
  /\ UNCHANGED <<cand, workVars>>

\* What the sub-agent's tools fill in: they are the parent's tools, called with
\* the parent's context.
SubAgentFills ==
  {{}} \cup {K \in UNION {SUBSET T : T \in AllowedTools} :
             main.agent # "deterministic" /\ \A k \in K : Needs(k) \subseteq keys}

\* Without an LLM the worker always succeeds, and calls no tool.
SubAgent ==
  /\ Turn([type |-> "CALL", what |-> "sub_agent"])
  /\ \E status \in {"SUCCEEDED"} \cup (IF main.agent = "deterministic" THEN {} ELSE {"FAILED"}), summary \in Summaries :
        AfterCall(Observed("RUN_SUB_AGENT", status, summary, 0, {"subagent_diagnosis"}), 0, 1)
  /\ \E K \in SubAgentFills : keys' = keys \cup K
  /\ UNCHANGED <<cand, unknown, product, generated>>

\* INVALID_INPUT of a tool, and a sub-agent's BUDGET_EXCEEDED, HUMAN_REQUIRED
\* and NEED_MORE_CONTEXT, are no status an Observation may have.
CallRaises(r) ==
  /\ main.agent # "deterministic"
  /\ Turn([type |-> "CALL", what |-> r])
  /\ Finish("FAILED", "AGENT_RUNTIME_ERROR")
  /\ run' = [run EXCEPT !.steps = @ + 1]
  /\ failures' = TRUE
  /\ \E K \in IF r = "sub_agent" THEN SubAgentFills ELSE {{}} : keys' = keys \cup K
  /\ UNCHANGED <<plan, seen, cand, unknown, product, generated, gateVars>>

\* Mutant of Propose: the SQL of the action is gated instead of the workspace's.
ProposeActionSql(s) ==
  /\ Turn([type |-> "PROPOSE", sql |-> s])
  /\ run' = [run EXCEPT !.steps = @ + 1]
  /\ product # NoSql
  /\ pc' = "gate"
  /\ cand' = [cand EXCEPT !.draft = s, !.status = "DRAFT"]
  /\ UNCHANGED <<outcome, plan, seen, workVars, gateVars, failures>>

\* Only the workspace's own candidate reaches the gates.
Propose(s) ==
  /\ Turn([type |-> "PROPOSE", sql |-> s])
  /\ run' = [run EXCEPT !.steps = @ + 1]
  /\ IF product = s /\ cand.ref = product
     THEN /\ pc' = "gate"
          /\ cand' = [cand EXCEPT !.draft = product, !.status = "DRAFT"]
          /\ UNCHANGED <<outcome, failures>>
     ELSE /\ Finish("HUMAN_REQUIRED", "NO_CANDIDATE_ARTIFACT")
          /\ failures' = TRUE
          /\ UNCHANGED cand
  /\ UNCHANGED <<plan, seen, workVars, gateVars>>

-----------------------------------------------------------------------------
(* OnlineGateAdapter *)

Rejection(r) == IF r.decision = "HUMAN_REQUIRED" THEN "HUMAN_REQUIRED" ELSE "NO_SQL"

\* Mutant of FirstGates: the draft is made formal before the decision.
FirstGatesFormalEarly(f, v) ==
  LET r == RunRequest(f, v, cand.draft)
  IN  /\ pc = "gate"
      /\ last' = r /\ judged' = Deliverable(f, v)
      /\ cand' = [cand EXCEPT !.formal = cand.draft,
                             !.status = IF Accepted(r) THEN "READY" ELSE "GATE_REJECTED"]
      /\ outcome' = [status |-> IF Accepted(r) THEN "CANDIDATE_READY" ELSE Rejection(r),
                     stop |-> "NONE"]
      /\ pc' = IF r.regenerate /\ run.rounds < 1 THEN "regenerate" ELSE "done"
      /\ UNCHANGED <<run, main, plan, seen, workVars, failures>>

\* candidate_gate_v1
FirstGates(f, v) ==
  LET r == RunRequest(f, v, cand.draft)
  IN  /\ pc = "gate"
      /\ last' = r /\ judged' = Deliverable(f, v)
      /\ cand' = IF Accepted(r)
                 THEN [cand EXCEPT !.formal = cand.draft, !.status = "READY"]
                 ELSE [cand EXCEPT !.status = "GATE_REJECTED", !.feedback = r.gate]
      /\ outcome' = [status |-> IF Accepted(r) THEN "CANDIDATE_READY" ELSE Rejection(r),
                     stop |-> "NONE"]
      /\ pc' = IF r.regenerate /\ run.rounds < 1 THEN "regenerate" ELSE "done"
      /\ UNCHANGED <<run, main, plan, seen, workVars, failures>>

\* Mutant of Regenerate: the artifact reference still names the first candidate.
RegenerateKeepsRef ==
  /\ pc = "regenerate"
  /\ \E s \in Sql : cand' = [cand EXCEPT !.draft = s] /\ generated' = generated \cup {s}
  /\ pc' = "repair"
  /\ UNCHANGED <<outcome, run, main, plan, seen, keys, unknown, product, gateVars, failures>>

\* The generator writes the candidate anew; without one the first answer stands.
Regenerate ==
  /\ pc = "regenerate"
  /\ \/ \E s \in Sql :
           /\ cand' = [cand EXCEPT !.draft = s, !.ref = s, !.feedback = "none"]
           /\ generated' = generated \cup {s}
           /\ pc' = "repair"
           /\ UNCHANGED outcome
     \/ pc' = "done" /\ UNCHANGED <<outcome, cand, generated>>
     \/ Finish("RAISED", "NONE") /\ UNCHANGED <<cand, generated>>
  /\ UNCHANGED <<run, main, plan, seen, keys, unknown, product, gateVars, failures>>

\* Mutant of RepairGates: the gates see the request of the first candidate.
RepairGatesOldRequest(f, v) ==
  LET r == RunRequest(f, v, product)
      accepted == r.decision = "PASS"
  IN  /\ pc = "repair"
      /\ last' = r /\ judged' = Deliverable(f, v)
      /\ run' = [run EXCEPT !.rounds = @ + 1]
      /\ cand' = IF accepted THEN [cand EXCEPT !.formal = cand.draft, !.status = "READY"]
                 ELSE [cand EXCEPT !.status = "GATE_REJECTED"]
      /\ outcome' = [status |-> IF accepted THEN "CANDIDATE_READY" ELSE Rejection(r),
                     stop |-> "NONE"]
      /\ pc' = "done"
      /\ UNCHANGED <<main, plan, seen, workVars, failures>>

\* candidate_gate_v2: every gate again, and only PASS is accepted.
RepairGates(f, v) ==
  LET r == RunRequest(f, v, cand.draft)
      accepted == r.decision = "PASS"
  IN  /\ pc = "repair"
      /\ last' = r /\ judged' = Deliverable(f, v)
      /\ run' = [run EXCEPT !.rounds = @ + 1]
      /\ cand' = IF accepted THEN [cand EXCEPT !.formal = cand.draft, !.status = "READY"]
                 ELSE [cand EXCEPT !.status = "GATE_REJECTED"]
      /\ outcome' = [status |-> IF accepted THEN "CANDIDATE_READY" ELSE Rejection(r),
                     stop |-> "NONE"]
      /\ pc' = "done"
      /\ UNCHANGED <<main, plan, seen, workVars, failures>>

Next ==
  \/ Stop
  \/ Return("RETURN_NO_SQL", "NO_SQL")
  \/ Return("RETURN_HUMAN_REQUIRED", "HUMAN_REQUIRED")
  \/ InvalidAction
  \/ \E p \in Plans : UpdatePlan(p)
  \/ \E k \in Key : ToolSucceeds(k)
  \/ \E r \in Key \cup {"unregistered"} : ToolFails(r)
  \/ SubAgent
  \/ \E r \in {"bad_input", "sub_agent"} : CallRaises(r)
  \/ \E s \in Sql : Propose(s)
  \/ \E f \in Findings, v \in Verdicts : FirstGates(f, v) \/ RepairGates(f, v)
  \/ Regenerate

Spec == Init /\ [][Next]_vars

\* Every call the run makes comes back: the LLM, the tools and the gates all
\* have timeouts or are local.
FairSpec == Spec /\ WF_vars(Next)

-----------------------------------------------------------------------------
(* Properties *)

TypeOK ==
  /\ pc \in {"loop", "gate", "regenerate", "repair", "done"}
  /\ run \in [steps : 0..MaxSteps, tools : 0..MaxTools, subs : 0..MaxSubs,
              revisions : 0..MaxRevisions, rounds : 0..1, idle : 0..MaxIdle]
  /\ outcome.status \in {"RUNNING", "CANDIDATE_READY", "NO_SQL", "HUMAN_REQUIRED", "FAILED", "RAISED"}
  /\ main \in [agent : Agents, ready : BOOLEAN] /\ unknown \in BOOLEAN /\ judged \in BOOLEAN /\ failures \in BOOLEAN
  /\ keys \subseteq Key
  /\ product \in Sql \cup {NoSql} /\ generated \subseteq Sql
  /\ Len(seen) <= MaxSeen + 1
  /\ cand \in [draft : Sql \cup {NoSql}, ref : Sql \cup {NoSql}, formal : Sql \cup {NoSql},
               status : {"NONE", "DRAFT", "GATE_REJECTED", "READY"},
               feedback : {"none", "Static", "Semantic", "GateRunner"}]
  /\ last = NoResult \/ last \in GateResult

Delivered == pc = "done" /\ outcome.status = "CANDIDATE_READY"

\* A run offers a candidate only if the generator wrote it and the gates, the
\* last time they ran, saw that very SQL with nothing against it: however the
\* agent chose its actions, and also after the regeneration.
DeliveredIsSound ==
  Delivered => judged /\ last.sql = cand.formal /\ cand.formal \in generated

\* What the committer checks of a candidate, hash against the last gate result
\* included, never fails for a run that says CANDIDATE_READY; the committer
\* does not read the artifact, yet the artifact was saved from the committed SQL.
DeliveredIsCommittable ==
  Delivered =>
    /\ cand.status = "READY" /\ cand.formal # NoSql
    /\ last.decision \in {"PASS", "PASS_WITH_WARNING"} /\ last.sql = cand.formal
    /\ cand.ref = cand.formal

\* A run that ends in any other way leaves no formal SQL and no READY status
\* behind, whatever its first gates had said.
OnlyDeliveredIsFormal ==
  pc = "done" /\ ~Delivered => cand.formal = NoSql /\ cand.status # "READY"

\* The plan the run works on stays a plan: distinct steps, known dependencies,
\* no cycle, a current step that exists.  Plans come from an LLM and are
\* credited one call at a time.
PlanStaysSound == ValidStructure(plan)

\* The deterministic agent does not run into a limit unless something failed:
\* the default limits leave room for every tool, one sub-agent and the proposal.
LimitsLeaveRoom ==
  main.agent = "deterministic" /\ outcome.stop # "NONE" => failures

\* The agent that asks an LLM validates a plan by what it remembers (has it
\* planned before), the runner by the revisions it counted: the runner never
\* refuses a plan, a proposal or an action the LLM agent let through, not even
\* after its first plan was replaced by the fallback.
LlmIsNeverRefused ==
  main.agent = "llm" =>
    /\ \A i \in DOMAIN seen : seen[i].kind = "UPDATE_PLAN" => seen[i].status = "SUCCEEDED"
    /\ outcome.stop \notin {"NO_CANDIDATE_ARTIFACT", "INVALID_AGENT_ACTION"}

\* The loop ends, whatever the agent, the plans and the tools do.
RunEnds == <>(pc = "done")
=============================================================================
