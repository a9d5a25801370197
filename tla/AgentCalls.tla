-------------------------------- MODULE AgentCalls --------------------------------
(***************************************************************************)
(* The operations one agent run makes with an LLM: HookManager with its    *)
(* hooks, LLMRetryHook, LLMAdapter over a client that the runs of a        *)
(* service share, context compaction, the calls of LLMMainAgent, of the    *)
(* tools, of the gates and of the sub-agent's loop.                        *)
(*                                                                         *)
(* A run is one thread, and stack holds its operations, innermost last.    *)
(* What it chooses is left open (AgentRun models the choices); what the    *)
(* provider answers too.  Of the other runs only their calls with a        *)
(* timeout of their own are modelled: they reach this run through the      *)
(* client and through nothing else.                                        *)
(***************************************************************************)
EXTENDS Naturals, Sequences

CONSTANTS
  SchemaRetries, TransientRetries,     \* LLMRetryHook
  MaxCompactions,                      \* CompactionLimits and CompactionBudget
  MaxSteps, MaxTools, MaxSubs,         \* AgentRunLimits
  SubSteps, SubTools, SubContexts,     \* SubAgentLimits
  OtherCalls                           \* bound: timed calls of other runs

ASSUME AgentCallsAssumption ==
  /\ {SchemaRetries, TransientRetries, MaxCompactions, SubTools, SubContexts, OtherCalls} \subseteq Nat
  /\ {MaxSteps, MaxTools, MaxSubs, SubSteps} \subseteq Nat \ {0}

VARIABLES
  pc,        \* what the run does, or waits for
  stack,     \* its unfinished operations
  answer,    \* how the operation ended that the run or the enclosing one waits for
  run,       \* AgentRunState, the two compaction counters, LLMMainAgent._initialized
  client,    \* client.timeout_seconds: whose value it has
  saved,     \* what _generate will put back, for this run and for the other ones
  others,    \* timed calls of other runs so far
  open,      \* history: operations whose start is in the trace, but not their end
  tally,     \* history: provider calls, and what llm_call_count gained, since the outermost operation began
  clashed    \* history: a call met a timed call of another run

vars == <<pc, stack, answer, run, client, saved, others, open, tally, clashed>>
clientVars == <<client, saved, others, clashed>>

Outcome == {"ok", "schema", "transient", "fatal", "blocked"}

\* SubAgentResult.status
SubStatus == {"SUCCEEDED", "NEED_MORE_CONTEXT", "FAILED", "BUDGET_EXCEEDED", "HUMAN_REQUIRED"}

\* The timeout a call asks for; the others take the client's own.
Wanted(purpose) == IF purpose \in {"plan", "repair"} THEN "planning"
                   ELSE IF purpose = "summary" THEN "summary" ELSE "own"

-----------------------------------------------------------------------------
(* HookManager.execute_operation *)

HookOrder == <<"Trace", "Budget", "Safety", "Compression", "Retry">>

Applies(hook, kind) ==
  CASE hook \in {"Trace", "Budget", "Safety"} -> TRUE
    [] hook = "Compression" -> kind \in {"LLM_CALL", "SUB_AGENT_RUN"}
    [] hook = "Retry" -> kind \in {"LLM_CALL", "GATE_RUN", "CONTEXT_COMPACTION", "SUB_AGENT_RUN"}

\* Mutant of OverBudget: the wall clock is not looked at.
OverBudgetIgnoresClock(kind) ==
  CASE kind = "CONTEXT_COMPACTION" -> run.summaries >= MaxCompactions
    [] kind = "TOOL_CALL"          -> run.tools >= MaxTools
    [] kind = "SUB_AGENT_RUN"      -> run.subs >= MaxSubs
    [] kind \in {"LLM_CALL", "GATE_RUN"} -> FALSE

\* BudgetHook.before.  A second round of the gates is still within its limit.
OverBudget(kind) ==
  CASE kind = "CONTEXT_COMPACTION" -> run.summaries >= MaxCompactions
    [] kind = "TOOL_CALL"          -> run.tools >= MaxTools
    [] kind = "SUB_AGENT_RUN"      -> run.subs >= MaxSubs
    [] kind = "LLM_CALL"           -> run.late
    [] kind = "GATE_RUN"           -> FALSE

CallerOf(kind) ==
  CASE kind \in {"LLM_CALL", "TOOL_CALL", "SUB_AGENT_RUN"} -> "MAIN_AGENT"
    [] kind = "GATE_RUN"                                   -> "GATE_RUNNER"
    [] kind = "CONTEXT_COMPACTION"                         -> "CONTEXT_MANAGER"

\* SafetyHook.before; attempt and summaries are always in order.
Forbidden(kind) ==
  \/ kind = "SUB_AGENT_RUN" /\ CallerOf(kind) # "MAIN_AGENT"
  \/ kind = "GATE_RUN" /\ CallerOf(kind) # "GATE_RUNNER"
  \/ kind = "CONTEXT_COMPACTION" /\ CallerOf(kind) # "CONTEXT_MANAGER"

Blocks(hook, kind) ==
  \/ hook = "Budget" /\ OverBudget(kind)
  \/ hook = "Safety" /\ Forbidden(kind)

\* The hooks that run before the operation: a hook that blocks is the last.
Executed(kind) ==
  {HookOrder[i] : i \in {j \in DOMAIN HookOrder :
     Applies(HookOrder[j], kind) /\ \A k \in 1..(j - 1) : ~Blocks(HookOrder[k], kind)}}

Refused(kind) == \E hook \in Executed(kind) : Blocks(hook, kind)

\* Mutant of Counted: only calls that succeed are counted.
CountedIfOk(op, result) ==
  IF op.kind = "LLM_CALL" /\ "Budget" \in op.hooks /\ result = "ok" THEN 1 ELSE 0

\* BudgetHook.after adds to llm_call_count.
Counted(op, result) == IF op.kind = "LLM_CALL" /\ "Budget" \in op.hooks THEN 1 ELSE 0

Operation(kind, purpose) ==
  [kind |-> kind, purpose |-> purpose, hooks |-> Executed(kind), state |-> "ready",
   schema |-> 0, transient |-> 0, used |-> "none", steps |-> 0, tools |-> 0, contexts |-> 0]

Top == stack[Len(stack)]
Below == SubSeq(stack, 1, Len(stack) - 1)
Is(kind) == stack # <<>> /\ Top.kind = kind
Replace(op) == stack' = Append(Below, op)

\* An operation starts inside the ones below, or is refused: then the hooks that
\* ran before it run after it all the same.
Start(kind, purpose, below) ==
  LET op == Operation(kind, purpose)
      before == IF below = <<>> THEN [calls |-> 0, counted |-> 0] ELSE tally
  IN  /\ answer = "none"
      /\ IF Refused(kind)
         THEN /\ stack' = below /\ answer' = "blocked"
              /\ tally' = [before EXCEPT !.counted = @ + Counted(op, "blocked")]
              /\ UNCHANGED open
         ELSE /\ stack' = Append(below, op)
              /\ open' = Append(open, kind)
              /\ tally' = before
              /\ UNCHANGED answer

\* Mutant of Finish: the hooks run only after a success.
FinishOnlyOk(result) ==
  /\ stack' = Below /\ answer' = result
  /\ IF result \in Outcome \ {"ok"} THEN UNCHANGED <<open, tally, run>>
     ELSE /\ open' = SubSeq(open, 1, Len(open) - 1)
          /\ tally' = [tally EXCEPT !.counted = @ + Counted(Top, result)]
          /\ run' = [run EXCEPT !.summaries = IF Top.kind = "CONTEXT_COMPACTION" THEN @ + 1 ELSE @]

\* It ends, with a result or an exception: the hooks that ran before it run again.
Finish(result) ==
  /\ stack' = Below /\ answer' = result
  /\ open' = IF "Trace" \in Top.hooks THEN SubSeq(open, 1, Len(open) - 1) ELSE open
  /\ tally' = [tally EXCEPT !.counted = @ + Counted(Top, result)]
  /\ run' = [run EXCEPT !.summaries = IF Top.kind = "CONTEXT_COMPACTION" /\ result = "ok" THEN @ + 1 ELSE @]

-----------------------------------------------------------------------------
(* LLMRetryHook.run, for an LLM call and for a compaction *)

\* Mutant of Retries: one attempt too many.
RetriesOneMore(op, error) ==
  \/ error = "schema" /\ op.schema < SchemaRetries
  \/ error = "transient" /\ op.transient <= TransientRetries

Retries(op, error) ==
  \/ error = "schema" /\ op.schema < SchemaRetries
  \/ error = "transient" /\ op.transient < TransientRetries

Again(op, error) ==
  IF error = "schema" THEN [op EXCEPT !.schema = @ + 1, !.state = "ready", !.used = "none"]
                      ELSE [op EXCEPT !.transient = @ + 1, !.state = "ready", !.used = "none"]

-----------------------------------------------------------------------------
(* LLMAdapter._generate *)

Timed(who) == saved[who] # "none"

\* A call with a timeout of its own first changes the client's.
SetTimeout ==
  /\ Is("LLM_CALL") /\ Top.state = "ready" /\ Wanted(Top.purpose) # "own"
  /\ saved' = [saved EXCEPT !["run"] = client]
  /\ client' = Wanted(Top.purpose)
  /\ clashed' = (clashed \/ Timed("other"))
  /\ Replace([Top EXCEPT !.state = "set"])
  /\ UNCHANGED <<pc, answer, run, others, open, tally>>

\* The request goes out with the timeout the client has now.
Request ==
  /\ Is("LLM_CALL") /\ Top.state = IF Wanted(Top.purpose) = "own" THEN "ready" ELSE "set"
  /\ Replace([Top EXCEPT !.state = "calling", !.used = client])
  /\ tally' = [tally EXCEPT !.calls = @ + 1]
  /\ clashed' = (clashed \/ Timed("other"))
  /\ UNCHANGED <<pc, answer, run, client, saved, others, open>>

\* Mutant of Restored: not in a finally.
RestoredIfOk(result) ==
  IF Timed("run") /\ result = "ok" THEN saved["run"] ELSE client

Restored(result) == IF Timed("run") THEN saved["run"] ELSE client

\* The provider answers; TIMEOUT and SERVICE_ERROR are retried like
\* TRANSIENT_ERROR, AUTH_ERROR and INVALID_REQUEST are not.
Reply ==
  /\ Is("LLM_CALL") /\ Top.state = "calling"
  /\ \E result \in {"ok", "schema", "transient", "fatal"} :
       /\ client' = Restored(result)
       /\ IF Retries(Top, result)
          THEN Replace(Again(Top, result)) /\ UNCHANGED <<answer, run, open, tally>>
          ELSE Finish(result)
  /\ saved' = [saved EXCEPT !["run"] = "none"]
  /\ UNCHANGED <<pc, others, clashed>>

\* The same two steps in another run.
OtherSets ==
  /\ ~Timed("other") /\ others < OtherCalls
  /\ others' = others + 1
  /\ saved' = [saved EXCEPT !["other"] = client]
  /\ client' \in {"planning", "summary"}
  /\ clashed' = (clashed \/ (Is("LLM_CALL") /\ Top.state \in {"set", "calling"}))
  /\ UNCHANGED <<pc, stack, answer, run, open, tally>>

OtherRestores ==
  /\ Timed("other")
  /\ client' = saved["other"]
  /\ saved' = [saved EXCEPT !["other"] = "none"]
  /\ UNCHANGED <<pc, stack, answer, run, others, open, tally, clashed>>

-----------------------------------------------------------------------------
(* ContextManager.compact_if_needed: before the loop, in every iteration, after it *)

AfterCompaction == CASE pc = "begin"   -> "loop"
                     [] pc = "compact" -> IF run.ready THEN "decision" ELSE "plan"
                     [] pc = "final"   -> "reflect"

Compacting == pc \in {"begin", "compact", "final"} /\ stack = <<>>

\* Trimming was enough, or no summary may be asked for any more.
TrimOnly ==
  /\ Compacting /\ answer = "none"
  /\ pc' = AfterCompaction
  /\ UNCHANGED <<stack, answer, run, open, tally, clientVars>>

Summarize ==
  /\ Compacting
  /\ run.compactions < MaxCompactions
  /\ run' = [run EXCEPT !.compactions = @ + 1]
  /\ Start("CONTEXT_COMPACTION", "summary", <<>>)
  /\ UNCHANGED <<pc, clientVars>>

\* The compaction asks the adapter, whose call is an operation of its own with
\* retries of its own; what it raises may be retried here again.
AskSummary ==
  /\ Is("CONTEXT_COMPACTION") /\ answer = "none"
  /\ Start("LLM_CALL", "summary", stack)
  /\ UNCHANGED <<pc, run, clientVars>>

SummaryAnswered ==
  /\ Is("CONTEXT_COMPACTION") /\ answer # "none"
  /\ IF Retries(Top, answer)
     THEN Replace(Again(Top, answer)) /\ answer' = "none" /\ UNCHANGED <<run, open, tally>>
     ELSE Finish(answer)
  /\ UNCHANGED <<pc, clientVars>>

\* A failed summary is no failure: the trimmed context is used.
Compacted ==
  /\ Compacting /\ answer # "none"
  /\ answer' = "none" /\ pc' = AfterCompaction
  /\ UNCHANGED <<stack, run, open, tally, clientVars>>

-----------------------------------------------------------------------------
(* AgentRunner.run and LLMMainAgent.next_action *)

\* The clock is read here only; the other limits are those of AgentRun.
Loop ==
  /\ pc = "loop"
  /\ \E late \in BOOLEAN :
       /\ run' = [run EXCEPT !.late = late]
       /\ pc' \in IF late \/ run.steps >= MaxSteps \/ run.tools >= MaxTools \/ run.subs >= MaxSubs
                  THEN {"final"} ELSE {"compact", "final"}
  /\ UNCHANGED <<stack, answer, open, tally, clientVars>>

Asking == pc \in {"plan", "repair", "decision", "regenerate", "reflect"} /\ stack = <<>>

Ask ==
  /\ Asking
  /\ Start("LLM_CALL", pc, <<>>)
  /\ UNCHANGED <<pc, run, clientVars>>

\* A valid plan becomes the action UPDATE_PLAN.
PlanTaken ==
  /\ pc \in {"plan", "repair"} /\ stack = <<>> /\ answer = "ok"
  /\ answer' = "none" /\ pc' = "loop"
  /\ run' = [run EXCEPT !.ready = TRUE, !.steps = @ + 1]
  /\ UNCHANGED <<stack, open, tally, clientVars>>

\* Mutant of PlanRejected: asked until there is a valid plan.
PlanRejectedAsksOn ==
  /\ pc \in {"plan", "repair"} /\ stack = <<>> /\ answer # "none"
  /\ answer' = "none"
  /\ pc' = IF pc = "plan" THEN "repair" ELSE "plan"
  /\ run' = [run EXCEPT !.ready = (pc = "repair") \/ @]
  /\ UNCHANGED <<stack, open, tally, clientVars>>

\* No plan, or an invalid one: one repair, then the fallback or the old plan.
PlanRejected ==
  /\ pc \in {"plan", "repair"} /\ stack = <<>> /\ answer # "none"
  /\ answer' = "none"
  /\ pc' = IF pc = "plan" THEN "repair" ELSE "act"
  /\ run' = [run EXCEPT !.ready = (pc = "repair") \/ @]
  /\ UNCHANGED <<stack, open, tally, clientVars>>

\* RETURN_HUMAN_REQUIRED ends the run; any failure means CONTINUE_PLAN.
Decided ==
  /\ pc = "decision" /\ stack = <<>> /\ answer # "none"
  /\ answer' = "none"
  /\ \/ pc' = "act" /\ UNCHANGED run
     \/ answer = "ok" /\ pc' = "plan" /\ UNCHANGED run
     \/ answer = "ok" /\ pc' = "final" /\ run' = [run EXCEPT !.steps = @ + 1]
  /\ UNCHANGED <<stack, open, tally, clientVars>>

\* The action: a tool, a sub-agent, the proposal, or none.
Act ==
  /\ pc = "act"
  /\ run' = [run EXCEPT !.steps = @ + 1]
  /\ \/ pc' = "tool" /\ Start("TOOL_CALL", "tool", <<>>)
     \/ pc' = "sub" /\ Start("SUB_AGENT_RUN", "sub", <<>>)
     \/ pc' = "gate" /\ Start("GATE_RUN", "v1", <<>>)
     \/ pc' = "final" /\ UNCHANGED <<stack, answer, open, tally>>
  /\ UNCHANGED clientVars

-----------------------------------------------------------------------------
(* Tools and gates: at most one LLM call, whose failure they absorb *)

Body ==
  /\ stack # <<>> /\ Top.kind \in {"TOOL_CALL", "GATE_RUN"} /\ answer = "none" /\ Top.state = "ready"
  /\ \/ Finish("ok")
     \/ Start("LLM_CALL", "body", Append(Below, [Top EXCEPT !.state = "asked"])) /\ UNCHANGED run
  /\ UNCHANGED <<pc, clientVars>>

BodyAnswered ==
  /\ stack # <<>> /\ Top.kind \in {"TOOL_CALL", "GATE_RUN"} /\ Top.state = "asked" /\ answer # "none"
  /\ Finish("ok")
  /\ UNCHANGED <<pc, clientVars>>

\* An operation that was refused is an exception: of the executor, which ends
\* the run, or of the gates, which leaves it.
Acted ==
  /\ pc \in {"tool", "sub", "gate", "gate2"} /\ stack = <<>> /\ answer # "none"
  /\ answer' = "none"
  /\ IF answer = "blocked" THEN pc' = IF pc \in {"tool", "sub"} THEN "final" ELSE "raised"
     ELSE CASE pc = "tool"  -> pc' = "loop"
            [] pc = "sub"   -> pc' = IF answer \in {"SUCCEEDED", "FAILED"} THEN "loop" ELSE "final"
            [] pc = "gate"  -> pc' \in {"final", "regenerate"}
            [] pc = "gate2" -> pc' = "final"
  /\ run' = [run EXCEPT !.tools = IF pc' = "loop" /\ pc = "tool" THEN @ + 1 ELSE @,
                         !.subs  = IF pc' = "loop" /\ pc = "sub" THEN @ + 1 ELSE @]
  /\ UNCHANGED <<stack, open, tally, clientVars>>

\* A candidate regenerated on demand goes through the gates again.
Regenerated ==
  /\ pc = "regenerate" /\ stack = <<>> /\ answer # "none"
  /\ answer' = "none"
  /\ pc' \in CASE answer = "ok" -> {"second", "final"}
               [] answer = "blocked" -> {"raised"}
               [] answer \notin {"ok", "blocked"} -> {"final"}
  /\ UNCHANGED <<stack, run, open, tally, clientVars>>

SecondGates ==
  /\ pc = "second"
  /\ pc' = "gate2"
  /\ Start("GATE_RUN", "v2", <<>>)
  /\ UNCHANGED <<run, clientVars>>

-----------------------------------------------------------------------------
(* SubAgentRunner.run *)

SubTurn == Is("SUB_AGENT_RUN") /\ answer = "none"

Exceeded(op) ==
  op.steps >= SubSteps \/ op.tools > SubTools \/ op.contexts > SubContexts

\* The request is refused, or the loop ends for its limits or its clock.
SubStops ==
  /\ SubTurn
  /\ \/ Top.steps = 0 /\ \E status \in {"FAILED", "HUMAN_REQUIRED"} : Finish(status)
     \/ Finish("BUDGET_EXCEEDED")
  /\ UNCHANGED <<pc, clientVars>>

\* One step asks the worker once.
SubAsks ==
  /\ SubTurn /\ ~Exceeded(Top)
  /\ Start("LLM_CALL", "worker", Append(Below, [Top EXCEPT !.steps = @ + 1]))
  /\ UNCHANGED <<pc, run, clientVars>>

\* The worker's answer: a result, a tool that works or fails, more context, or
\* RETURN_RESULT without one, which is passed over.
SubAnswered ==
  /\ Is("SUB_AGENT_RUN") /\ answer # "none"
  /\ LET more == [Top EXCEPT !.contexts = @ + 1]
         used == [Top EXCEPT !.tools = @ + 1]
         next(op) == Replace(op) /\ answer' = "none" /\ UNCHANGED <<run, open, tally>>
     IN  IF answer # "ok" THEN Finish("FAILED")
         ELSE \/ \E status \in SubStatus : Finish(status)
              \/ ~Exceeded(more) /\ next(more)
              \/ next(used)
              \/ next(Top)
  /\ UNCHANGED <<pc, clientVars>>

-----------------------------------------------------------------------------
(* repair_agent_service.py, after the run *)

\* There is no previous attempt to reflect on.
NoReflection ==
  /\ pc = "reflect" /\ stack = <<>> /\ answer = "none"
  /\ pc' = "ended"
  /\ UNCHANGED <<stack, answer, run, open, tally, clientVars>>

\* post_reflect absorbs a failed call, but not one that was refused.
Reflected ==
  /\ pc = "reflect" /\ stack = <<>> /\ answer # "none"
  /\ answer' = "none"
  /\ pc' = IF answer = "blocked" THEN "raised" ELSE "ended"
  /\ UNCHANGED <<stack, run, open, tally, clientVars>>
-----------------------------------------------------------------------------
Init ==
  /\ pc = "begin" /\ stack = <<>> /\ answer = "none"
  /\ run = [steps |-> 0, tools |-> 0, subs |-> 0, compactions |-> 0, summaries |-> 0,
            ready |-> FALSE, late |-> FALSE]
  /\ client = "own" /\ saved = [run |-> "none", other |-> "none"]
  /\ others = 0 /\ open = <<>> /\ tally = [calls |-> 0, counted |-> 0] /\ clashed = FALSE

RunNext ==
  \/ TrimOnly \/ Summarize \/ AskSummary \/ SummaryAnswered \/ Compacted
  \/ Loop \/ Ask \/ PlanTaken \/ PlanRejected \/ Decided
  \/ Act \/ Body \/ BodyAnswered \/ Acted \/ Regenerated \/ SecondGates
  \/ SubStops \/ SubAsks \/ SubAnswered
  \/ SetTimeout \/ Request \/ Reply
  \/ NoReflection \/ Reflected

Next == RunNext \/ OtherSets \/ OtherRestores

Spec == Init /\ [][Next]_vars

\* The thread of the run goes on: the provider answers or times out.
FairSpec == Spec /\ WF_vars(RunNext)

-----------------------------------------------------------------------------
(* Properties *)

\* What one call, and one outermost operation, may ask of the provider at most.
PerCall == 1 + SchemaRetries + TransientRetries

MostCalls(kind) ==
  CASE kind = "LLM_CALL" -> PerCall
    [] kind \in {"TOOL_CALL", "GATE_RUN"} -> PerCall
    [] kind = "CONTEXT_COMPACTION" -> PerCall * PerCall
    [] kind = "SUB_AGENT_RUN" -> SubSteps * PerCall

Operations == [
  kind : {"LLM_CALL", "TOOL_CALL", "SUB_AGENT_RUN", "GATE_RUN", "CONTEXT_COMPACTION"},
  purpose : {"plan", "repair", "decision", "regenerate", "reflect", "summary", "body", "worker",
             "tool", "sub", "v1", "v2"},
  hooks : SUBSET {"Trace", "Budget", "Safety", "Compression", "Retry"},
  state : {"ready", "set", "calling", "asked"}, used : {"none", "own", "planning", "summary"},
  schema : 0..SchemaRetries, transient : 0..TransientRetries,
  steps : 0..SubSteps, tools : 0..SubTools + 1, contexts : 0..SubContexts]

TypeOK ==
  /\ pc \in {"begin", "loop", "compact", "plan", "repair", "decision", "act", "tool", "sub", "gate",
            "regenerate", "second", "gate2", "final", "reflect", "ended", "raised"}
  /\ answer \in {"none"} \cup Outcome \cup SubStatus
  /\ stack \in Seq(Operations) /\ Len(stack) <= 2
  /\ run \in [steps : 0..MaxSteps, tools : 0..MaxTools, subs : 0..MaxSubs,
              compactions : 0..MaxCompactions, summaries : 0..MaxCompactions,
              ready : BOOLEAN, late : BOOLEAN]
  /\ client \in {"own", "planning", "summary"}
  /\ saved \in [{"run", "other"} -> {"none", "own", "planning", "summary"}]
  /\ others \in 0..OtherCalls /\ clashed \in BOOLEAN
  /\ tally \in [calls : Nat, counted : Nat]

\* README.md: an operation that is blocked or fails ends in the trace too.  The
\* operations whose end is missing are those the run is in, innermost last.
EveryEndIsTraced == open = [i \in DOMAIN stack |-> stack[i].kind]

\* Retries nest, but not further than this: a compaction retries a call that has
\* retried already, and a sub-agent repeats calls for as many steps as it has.
CallsBounded ==
  stack # <<>> => tally.calls <= MostCalls(stack[1].kind)

\* llm_call_count follows the provider: every call belongs to an operation that
\* is or will be counted, whether it succeeds or not.
CallsAreCounted ==
  tally.calls <= PerCall * (tally.counted + IF Is("LLM_CALL") THEN 1 ELSE 0)

\* The hooks repeat limits that others keep as well: the only operation they
\* refuse is an LLM call after the clock has stopped the run.  From then on no
\* call goes out, not for the last compaction nor for the reflection.
RefusedOnlyWhenLate ==
  /\ answer = "blocked" => run.late
  /\ run.late => ~Is("LLM_CALL")

\* A call goes out with the timeout of its purpose, and the client's own is back
\* once it is over, however it ended.  Calls of two runs that overlap void this:
\* both change one client, and what the later one restores may stay for good.
TimeoutsKept ==
  ~clashed =>
    /\ ~Timed("run") /\ ~Timed("other") => client = "own"
    /\ Is("LLM_CALL") /\ Top.state = "calling" => Top.used = Wanted(Top.purpose)

\* Whatever the provider answers, the run comes to its end.
RunEnds == <>(pc \in {"ended", "raised"})
=============================================================================
