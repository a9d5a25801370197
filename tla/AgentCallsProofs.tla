---------------------------- MODULE AgentCallsProofs ----------------------------
(***************************************************************************)
(* The operations of an agent run, for any number of retries, compactions, *)
(* steps, tools and sub-agents, whatever the provider answers and whatever *)
(* other runs do to the client.                                            *)
(***************************************************************************)
EXTENDS AgentCalls, SequenceTheorems, TLAPS

Asks == {"plan", "repair", "decision", "regenerate", "reflect"}
Compacts == {"begin", "compact", "final"}

\* What the run may be waiting for at p.
Belongs(p, kind) ==
  \/ p \in Compacts /\ kind = "CONTEXT_COMPACTION"
  \/ p \in Asks /\ kind = "LLM_CALL"
  \/ p = "tool" /\ kind = "TOOL_CALL"
  \/ p = "sub" /\ kind = "SUB_AGENT_RUN"
  \/ p \in {"gate", "gate2"} /\ kind = "GATE_RUN"

\* How operations nest, and in which of them an answer may be waiting.
Nested ==
  /\ stack # <<>> => Belongs(pc, stack[1].kind) /\ answer \in {"none"} \cup Outcome
  /\ Len(stack) = 2 => stack[1].kind # "LLM_CALL" /\ stack[2].kind = "LLM_CALL"
  /\ Is("LLM_CALL") => answer = "none" /\ Top.state # "asked"
  /\ stack # <<>> /\ stack[1].kind \in {"TOOL_CALL", "GATE_RUN"} =>
       \/ stack[1].state = "ready" /\ Len(stack) = 1 /\ answer = "none"
       \/ stack[1].state = "asked" /\ (Len(stack) = 2 \/ answer # "none")
  /\ pc \in {"loop", "act", "second", "ended", "raised"} => answer = "none"

\* Every operation under way passed the trace and the budget hook.
Hooked == \A i \in 1..Len(stack) : {"Trace", "Budget"} \subseteq stack[i].hooks

\* What the limits of the run leave at pc, and for the operation under way.
Room ==
  /\ pc \in {"compact", "plan", "repair", "decision", "act"} =>
       run.steps < MaxSteps /\ run.tools < MaxTools /\ run.subs < MaxSubs
  /\ pc = "tool" => run.tools < MaxTools
  /\ pc = "sub" => run.subs < MaxSubs
  /\ run.summaries <= run.compactions

RoomInside ==
  /\ stack # <<>> /\ stack[1].kind = "CONTEXT_COMPACTION" => run.summaries < run.compactions
  /\ stack # <<>> /\ stack[1].kind = "SUB_AGENT_RUN" /\ (Len(stack) = 2 \/ answer # "none") =>
       stack[1].steps > 0 /\ stack[1].tools <= SubTools

\* The provider calls of an LLM call so far.
Made(op) == op.schema + op.transient + IF op.state = "calling" THEN 1 ELSE 0

Current == IF Is("LLM_CALL") THEN Made(Top) ELSE 0

\* The LLM calls inside the outermost operation that have ended.
Rounds ==
  LET op == stack[1] IN
  CASE op.kind = "LLM_CALL" -> 0
    [] op.kind = "CONTEXT_COMPACTION" ->
         op.schema + op.transient + IF Len(stack) = 1 /\ answer # "none" THEN 1 ELSE 0
    [] op.kind \in {"TOOL_CALL", "GATE_RUN"} ->
         IF Len(stack) = 1 /\ op.state = "asked" THEN 1 ELSE 0
    [] op.kind = "SUB_AGENT_RUN" -> IF Len(stack) = 2 THEN op.steps - 1 ELSE op.steps

Tallied ==
  /\ stack # <<>> => tally.calls <= PerCall * Rounds + Current
  /\ tally.calls <= PerCall * tally.counted + Current

\* Who has changed the client's timeout, and from what.
InFlight == Is("LLM_CALL") /\ Top.state \in {"set", "calling"}

Clocked ==
  /\ Timed("run") <=> InFlight /\ Wanted(Top.purpose) # "own"
  /\ ~clashed =>
       /\ ~(InFlight /\ Timed("other"))
       /\ Timed("run") => saved["run"] = "own" /\ client = Wanted(Top.purpose)
       /\ Timed("other") => saved["other"] = "own"
       /\ ~Timed("run") /\ ~Timed("other") => client = "own"
       /\ Is("LLM_CALL") /\ Top.state = "calling" => Top.used = Wanted(Top.purpose)

CallsInv ==
  TypeOK /\ Nested /\ Hooked /\ Room /\ RoomInside /\ Tallied /\ Clocked /\ EveryEndIsTraced /\ RefusedOnlyWhenLate

-----------------------------------------------------------------------------
(* The operators of the model *)

Kinds == {"LLM_CALL", "TOOL_CALL", "SUB_AGENT_RUN", "GATE_RUN", "CONTEXT_COMPACTION"}
Purposes == {"plan", "repair", "decision", "regenerate", "reflect", "summary", "body", "worker",
             "tool", "sub", "v1", "v2"}

\* The trace hook is the first and blocks nothing, so that it and the budget
\* hook see every operation.
LEMMA HooksExecuted ==
  ASSUME NEW kind \in Kinds
  PROVE  /\ Executed(kind) \subseteq {"Trace", "Budget", "Safety", "Compression", "Retry"}
         /\ {"Trace", "Budget"} \subseteq Executed(kind)
<1>1. DOMAIN HookOrder = 1..5
  BY DEF HookOrder
<1>2. /\ HookOrder[1] = "Trace" /\ HookOrder[2] = "Budget" /\ HookOrder[3] = "Safety"
      /\ HookOrder[4] = "Compression" /\ HookOrder[5] = "Retry"
  BY DEF HookOrder
<1>3. Executed(kind) \subseteq {"Trace", "Budget", "Safety", "Compression", "Retry"}
  BY <1>1, <1>2 DEF Executed
<1> HIDE DEF HookOrder
<1>4. "Trace" \in Executed(kind)
  <2>1. Applies("Trace", kind)
    BY Zenon DEF Applies
  <2>2. \A k \in 1..(1 - 1) : ~Blocks(HookOrder[k], kind)
    OBVIOUS
  <2> QED
    BY <1>1, <1>2, <2>1, <2>2 DEF Executed
<1>5. "Budget" \in Executed(kind)
  <2>1. \A k \in 1..(2 - 1) : ~Blocks(HookOrder[k], kind)
    BY <1>2 DEF Blocks
  <2>2. Applies("Budget", kind)
    BY Zenon DEF Applies
  <2> QED
    BY <1>1, <1>2, <2>1, <2>2 DEF Executed
<1> QED
  BY <1>3, <1>4, <1>5

\* An operation is refused for its budget and for nothing else.
LEMMA RefusedForBudget ==
  ASSUME NEW kind \in Kinds
  PROVE  Refused(kind) <=> OverBudget(kind)
<1>1. ~Forbidden(kind)
  BY DEF Forbidden, CallerOf, Kinds
<1> QED
  BY <1>1, HooksExecuted DEF Refused, Blocks

\* A new operation is typed, went through the hooks and has asked for nothing.
LEMMA NewOperation ==
  ASSUME NEW kind \in Kinds, NEW purpose \in Purposes
  PROVE  LET op == Operation(kind, purpose)
         IN  /\ op \in Operations
             /\ op.kind = kind /\ op.purpose = purpose /\ op.state = "ready"
             /\ {"Trace", "Budget"} \subseteq op.hooks
             /\ op.schema = 0 /\ op.transient = 0 /\ op.steps = 0 /\ op.tools = 0 /\ op.contexts = 0
             /\ \A result : Counted(op, result) = IF kind = "LLM_CALL" THEN 1 ELSE 0
<1>1. {SchemaRetries, TransientRetries, SubSteps, SubTools, SubContexts} \subseteq Nat
  BY AgentCallsAssumption
<1> QED
  BY <1>1, HooksExecuted DEF Operation, Operations, Kinds, Purposes, Counted

\* A stack of one or two operations: the innermost, and what is below it.
LEMMA ShortStack ==
  ASSUME NEW S, NEW s \in Seq(S), s # <<>>, Len(s) <= 2
  PROVE  LET below == SubSeq(s, 1, Len(s) - 1)
         IN  /\ Len(s) \in {1, 2}
             /\ \A i \in 1..Len(s) : s[i] \in S
             /\ below \in Seq(S) /\ Len(below) = Len(s) - 1
             /\ \A i \in 1..Len(below) : below[i] = s[i]
<1>1. Len(s) \in Nat \ {0}
  BY EmptySeq
<1>2. Len(s) = 1 \/ Len(s) = 2
  <2>1. \A n \in Nat \ {0} : n <= 2 => n = 1 \/ n = 2
    OBVIOUS
  <2> QED
    BY <1>1, <2>1
<1>3. \A i \in 1..Len(s) : s[i] \in S
  BY ElementOfSeq
<1>4. CASE Len(s) = 1
  BY <1>3, <1>4
<1>5. CASE Len(s) = 2
  BY <1>3, <1>5
<1> QED
  BY <1>2, <1>3, <1>4, <1>5

\* A stack that is not empty is its top operation on top of the ones below it.
LEMMA StackSplit ==
  ASSUME TypeOK, stack # <<>>
  PROVE  /\ Len(stack) \in {1, 2}
         /\ Top \in Operations /\ Top = stack[Len(stack)]
         /\ Below \in Seq(Operations) /\ Len(Below) = Len(stack) - 1
         /\ \A i \in 1..Len(Below) : Below[i] = stack[i]
         /\ \A i \in 1..Len(stack) : stack[i] \in Operations
<1>1. stack \in Seq(Operations) /\ Len(stack) <= 2
  BY DEF TypeOK
<1>2. /\ Len(stack) \in {1, 2}
      /\ \A i \in 1..Len(stack) : stack[i] \in Operations
      /\ Below \in Seq(Operations) /\ Len(Below) = Len(stack) - 1
      /\ \A i \in 1..Len(Below) : Below[i] = stack[i]
  BY <1>1, ShortStack DEF Below
<1> QED
  BY <1>2 DEF Top

\* What a call costs at most is a positive number, and a call in progress has
\* not cost more than that.
LEMMA Costs ==
  /\ PerCall \in Nat \ {0}
  /\ \A n \in Nat : PerCall * n \in Nat /\ PerCall * (n + 1) = PerCall * n + PerCall
  /\ \A m, n \in Nat : m <= n => PerCall * m <= PerCall * n
  /\ \A op \in Operations : Made(op) \in Nat /\ Made(op) <= PerCall
<1>1. SchemaRetries \in Nat /\ TransientRetries \in Nat
  BY AgentCallsAssumption
<1>2. PerCall \in Nat \ {0}
  BY <1>1 DEF PerCall
<1>3. ASSUME NEW op \in Operations PROVE Made(op) \in Nat /\ Made(op) <= PerCall
  BY <1>1 DEF Operations, Made, PerCall
<1>4. \A p, n \in Nat : p * n \in Nat /\ p * (n + 1) = p * n + p
  OBVIOUS
<1>5. \A p, m, n \in Nat : m <= n => p * m <= p * n
  OBVIOUS
<1> QED
  BY <1>2, <1>3, <1>4, <1>5

-----------------------------------------------------------------------------
(* Stacks *)

\* What a sequence is after an element was appended, entry by entry.
LEMMA Pushed ==
  ASSUME NEW S, NEW s \in Seq(S), NEW op \in S, NEW t, t = Append(s, op)
  PROVE  /\ t \in Seq(S) /\ t # <<>> /\ Len(t) = Len(s) + 1
         /\ \A i \in 1..Len(s) : t[i] = s[i]
         /\ t[Len(t)] = op
BY AppendProperties

\* The kinds of the operations of a stack.
KindsOf(s) == [i \in DOMAIN s |-> s[i].kind]

\* The kinds of a stack are the kinds of its operations, entry by entry.
LEMMA KindsSeq ==
  ASSUME NEW s \in Seq(Operations)
  PROVE  /\ KindsOf(s) \in Seq(Kinds) /\ Len(KindsOf(s)) = Len(s)
         /\ \A i \in 1..Len(s) : KindsOf(s)[i] = s[i].kind
<1>1. Len(s) \in Nat /\ DOMAIN s = 1..Len(s) /\ \A i \in 1..Len(s) : s[i] \in Operations
  BY LenProperties, ElementOfSeq
<1>2. KindsOf(s) \in [1..Len(s) -> Kinds]
  BY <1>1 DEF KindsOf, Operations, Kinds
<1>3. KindsOf(s) \in Seq(Kinds) /\ Len(KindsOf(s)) = Len(s)
  BY <1>1, <1>2
<1> QED
  BY <1>1, <1>3 DEF KindsOf

\* Starting an operation (`HookManager.execute_operation`) adds its kind on top.
LEMMA KindsPushed ==
  ASSUME NEW s \in Seq(Operations), NEW op \in Operations
  PROVE  KindsOf(Append(s, op)) = Append(KindsOf(s), op.kind)
<1> DEFINE t == Append(s, op)
           k == Append(KindsOf(s), op.kind)
<1>1. op.kind \in Kinds
  BY DEF Operations, Kinds
<1>2. /\ t \in Seq(Operations) /\ Len(t) = Len(s) + 1
      /\ \A i \in 1..Len(s) : t[i] = s[i]
      /\ t[Len(s) + 1] = op
  BY AppendProperties
<1>3. /\ k \in Seq(Kinds) /\ Len(k) = Len(s) + 1
      /\ \A i \in 1..Len(s) : k[i] = s[i].kind
      /\ k[Len(s) + 1] = op.kind
  BY <1>1, KindsSeq, AppendProperties
<1>4. /\ KindsOf(t) \in Seq(Kinds) /\ Len(KindsOf(t)) = Len(s) + 1
      /\ \A i \in 1..Len(s) + 1 : KindsOf(t)[i] = t[i].kind
  BY <1>2, KindsSeq
<1>5. \A i \in 1..Len(s) + 1 : KindsOf(t)[i] = k[i]
  <2> TAKE i \in 1..Len(s) + 1
  <2>1. Len(s) \in Nat
    BY LenProperties
  <2>2. i \in 1..Len(s) \/ i = Len(s) + 1
    BY <2>1
  <2> QED
    BY <1>2, <1>3, <1>4, <2>2
<1> QED
  BY <1>3, <1>4, <1>5, SeqEqual

\* Ending the top operation takes its kind off.
LEMMA KindsPopped ==
  ASSUME NEW s \in Seq(Operations), Len(s) > 0
  PROVE  KindsOf(SubSeq(s, 1, Len(s) - 1)) = SubSeq(KindsOf(s), 1, Len(KindsOf(s)) - 1)
<1> DEFINE n == Len(s) - 1
           t == SubSeq(s, 1, n)
           k == SubSeq(KindsOf(s), 1, n)
<1>1. n \in Nat /\ Len(s) = n + 1
  BY LenProperties
<1>2. /\ KindsOf(s) \in Seq(Kinds) /\ Len(KindsOf(s)) = Len(s)
      /\ \A i \in 1..n : KindsOf(s)[i] = s[i].kind
  BY <1>1, KindsSeq
<1>3. t \in Seq(Operations) /\ Len(t) = n /\ \A i \in 1..n : t[i] = s[i]
  BY <1>1
<1>4. k \in Seq(Kinds) /\ Len(k) = n /\ \A i \in 1..n : k[i] = KindsOf(s)[i]
  BY <1>1, <1>2
<1>5. KindsOf(t) \in Seq(Kinds) /\ Len(KindsOf(t)) = n /\ \A i \in 1..n : KindsOf(t)[i] = t[i].kind
  BY <1>3, KindsSeq
<1>6. KindsOf(t) = k
  BY <1>2, <1>3, <1>4, <1>5, SeqEqual
<1> QED
  BY <1>2, <1>6

\* Changing the top operation, but not its kind, changes no kinds.
LEMMA KindsReplaced ==
  ASSUME NEW s \in Seq(Operations), Len(s) > 0, NEW op \in Operations, op.kind = s[Len(s)].kind
  PROVE  KindsOf(Append(SubSeq(s, 1, Len(s) - 1), op)) = KindsOf(s)
<1> DEFINE n == Len(s) - 1
           u == SubSeq(s, 1, n)
           t == Append(u, op)
<1>1. n \in Nat /\ Len(s) = n + 1
  BY LenProperties
<1>2. u \in Seq(Operations) /\ Len(u) = n /\ \A i \in 1..n : u[i] = s[i]
  BY <1>1
<1> HIDE DEF u, n
<1>3. t \in Seq(Operations) /\ Len(t) = n + 1 /\ t[n + 1] = op /\ \A i \in 1..n : t[i] = s[i]
  BY <1>1, <1>2, AppendProperties
<1>4. KindsOf(t) \in Seq(Kinds) /\ Len(KindsOf(t)) = n + 1
      /\ \A i \in 1..n + 1 : KindsOf(t)[i] = t[i].kind
  BY <1>3, KindsSeq
<1>5. KindsOf(s) \in Seq(Kinds) /\ Len(KindsOf(s)) = n + 1
      /\ \A i \in 1..n + 1 : KindsOf(s)[i] = s[i].kind
  BY <1>1, KindsSeq
<1>6. \A i \in 1..n + 1 : t[i].kind = s[i].kind
  <2> TAKE i \in 1..n + 1
  <2>1. i \in 1..n \/ i = n + 1
    BY <1>1
  <2>2. CASE i \in 1..n
    BY <1>3, <2>2
  <2>3. CASE i = n + 1
    BY <1>1, <1>3, <2>3
  <2> QED
    BY <2>1, <2>2, <2>3
<1>7. KindsOf(t) = KindsOf(s)
  BY <1>4, <1>5, <1>6, SeqEqual
<1> QED
  BY <1>7 DEF n, u

-----------------------------------------------------------------------------
(* Steps by what they do to the stack *)

\* Types of what is not the stack, the answer and the tally.
TypedRest ==
  /\ pc \in {"begin", "loop", "compact", "plan", "repair", "decision", "act", "tool", "sub", "gate",
            "regenerate", "second", "gate2", "final", "reflect", "ended", "raised"}
  /\ run \in [steps : 0..MaxSteps, tools : 0..MaxTools, subs : 0..MaxSubs,
              compactions : 0..MaxCompactions, summaries : 0..MaxCompactions,
              ready : BOOLEAN, late : BOOLEAN]

\* Steps between the operations.
LEMMA IdleStep ==
  ASSUME CallsInv, TypedRest', Room', stack = <<>>, stack' = <<>>, answer' = "none",
         UNCHANGED <<open, tally, clientVars>>
  PROVE  CallsInv'
<1>1. Len(<<>>) = 0 /\ <<>> \in Seq(Operations)
  OBVIOUS
<1>2. TypeOK'
  BY <1>1 DEF CallsInv, TypeOK, TypedRest, clientVars
<1>3. Nested' /\ Hooked' /\ RoomInside' /\ RefusedOnlyWhenLate'
  BY <1>1 DEF Nested, Hooked, RoomInside, RefusedOnlyWhenLate, Is
<1>4. Tallied'
  BY DEF CallsInv, Tallied, Current, Is
<1>5. Clocked'
  BY DEF CallsInv, Clocked, InFlight, Is, clientVars, Timed
<1>6. EveryEndIsTraced'
  BY DEF CallsInv, EveryEndIsTraced
<1> QED
  BY <1>2, <1>3, <1>4, <1>5, <1>6 DEF CallsInv

\* The run begins an operation, or is refused one.
LEMMA OuterStart ==
  ASSUME CallsInv, TypedRest', Room', stack = <<>>, run'.late = run.late, UNCHANGED clientVars,
         NEW kind \in Kinds, NEW purpose \in Purposes, Start(kind, purpose, <<>>),
         Belongs(pc', kind), OverBudget(kind) => run.late,
         kind = "CONTEXT_COMPACTION" => run'.summaries < run'.compactions
  PROVE  CallsInv'
<1> DEFINE op == Operation(kind, purpose)
<1>1. /\ op \in Operations
      /\ op.kind = kind /\ op.purpose = purpose /\ op.state = "ready"
      /\ {"Trace", "Budget"} \subseteq op.hooks
      /\ op.schema = 0 /\ op.transient = 0 /\ op.steps = 0
      /\ Counted(op, "blocked") = IF kind = "LLM_CALL" THEN 1 ELSE 0
  BY NewOperation
<1>2. Len(<<>>) = 0 /\ <<>> \in Seq(Operations) /\ KindsOf(<<>>) = <<>>
  BY DEF KindsOf
<1>3. PerCall \in Nat /\ \A n \in Nat : PerCall * n \in Nat
  BY Costs
<1>4. CASE Refused(kind)
  <2>1. /\ stack' = <<>> /\ answer' = "blocked" /\ UNCHANGED open
        /\ tally' = [calls |-> 0, counted |-> 0 + Counted(op, "blocked")]
    BY <1>4 DEF Start
  <2>2. run.late
    BY <1>4, RefusedForBudget
  <2>3. TypeOK'
    BY <1>1, <1>2, <2>1 DEF CallsInv, TypeOK, TypedRest, clientVars, Outcome
  <2>4. Nested' /\ Hooked' /\ RoomInside' /\ RefusedOnlyWhenLate'
    BY <1>2, <2>1, <2>2 DEF Nested, Hooked, RoomInside, RefusedOnlyWhenLate, Is, Belongs, Asks,
           Compacts
  <2>5. Tallied'
    BY <1>1, <1>3, <2>1 DEF Tallied, Current, Is
  <2>6. Clocked'
    BY <2>1 DEF CallsInv, Clocked, InFlight, Is, clientVars, Timed
  <2>7. EveryEndIsTraced'
    BY <2>1 DEF CallsInv, EveryEndIsTraced
  <2> QED
    BY <2>3, <2>4, <2>5, <2>6, <2>7 DEF CallsInv
<1>5. CASE ~Refused(kind)
  <2>1. /\ answer = "none" /\ answer' = "none"
        /\ stack' = Append(<<>>, op) /\ open' = Append(open, kind)
        /\ tally' = [calls |-> 0, counted |-> 0]
    BY <1>5 DEF Start
  <2>2. kind = "LLM_CALL" => ~run.late
    BY <1>5, RefusedForBudget DEF OverBudget
  <2> HIDE DEF op
  <2>3. /\ stack' \in Seq(Operations) /\ stack' # <<>> /\ Len(stack') = 1
        /\ Top' = op /\ stack'[1] = op
    <3>1. stack' \in Seq(Operations) /\ stack' # <<>> /\ Len(stack') = 0 + 1
          /\ stack'[Len(stack')] = op
      BY <1>1, <1>2, <2>1, Pushed
    <3> QED
      BY <3>1 DEF Top
  <2>4. TypeOK'
    BY <2>1, <2>3 DEF CallsInv, TypeOK, TypedRest, clientVars
  <2>5. Nested'
    BY <1>1, <2>1, <2>3 DEF Nested, Is, Belongs, Asks, Compacts
  <2>6. Hooked'
    BY <1>1, <2>3 DEF Hooked
  <2>7. RoomInside' /\ RefusedOnlyWhenLate'
    BY <1>1, <2>1, <2>2, <2>3 DEF RoomInside, RefusedOnlyWhenLate, Is
  <2>8. Tallied'
    <3>1. Current' \in Nat
      BY <1>1, <2>3, Costs DEF Current
    <3>2. Rounds' \in Nat
      BY <1>1, <2>1, <2>3 DEF Rounds, Kinds
    <3>3. PerCall * Rounds' \in Nat /\ PerCall * 0 \in Nat
      BY <1>3, <3>2
    <3> QED
      BY <2>1, <3>1, <3>3 DEF Tallied
  <2>9. Clocked'
    BY <1>1, <2>3 DEF CallsInv, Clocked, InFlight, Is, clientVars, Timed
  <2>10. EveryEndIsTraced'
    <3>1. open = KindsOf(<<>>)
      BY DEF CallsInv, EveryEndIsTraced, KindsOf
    <3>2. open' = KindsOf(stack')
      BY <1>1, <1>2, <2>1, <3>1, KindsPushed
    <3> QED
      BY <3>2 DEF EveryEndIsTraced, KindsOf
  <2> QED
    BY <2>4, <2>5, <2>6, <2>7, <2>8, <2>9, <2>10 DEF CallsInv
<1> QED
  BY <1>4, <1>5

\* The two shapes of a stack that is not empty.
LEMMA OneOrTwo ==
  ASSUME CallsInv, stack # <<>>
  PROVE  /\ \/ Len(stack) = 1 /\ Top = stack[1] /\ Below = <<>>
            \/ Len(stack) = 2 /\ Top = stack[2] /\ Top.kind = "LLM_CALL" /\ stack[1].kind # "LLM_CALL"
               /\ answer = "none"
         /\ \A i \in 1..Len(stack) : stack[i] \in Operations /\ {"Trace", "Budget"} \subseteq stack[i].hooks
         /\ Below \in Seq(Operations) /\ Len(Below) = Len(stack) - 1
         /\ \A i \in 1..Len(Below) : Below[i] = stack[i]
         /\ stack \in Seq(Operations)
<1>1. TypeOK /\ Nested /\ Hooked
  BY DEF CallsInv
<1>2. /\ Len(stack) = 1 \/ Len(stack) = 2
      /\ Top \in Operations /\ Top = stack[Len(stack)]
      /\ Below \in Seq(Operations) /\ Len(Below) = Len(stack) - 1
      /\ \A i \in 1..Len(Below) : Below[i] = stack[i]
      /\ \A i \in 1..Len(stack) : stack[i] \in Operations
  BY <1>1, StackSplit
<1>3. stack \in Seq(Operations)
  BY <1>1 DEF TypeOK
<1>4. Len(stack) = 1 => Below = <<>>
  BY DEF Below
<1>5. Len(stack) = 2 => Top.kind = "LLM_CALL" /\ stack[1].kind # "LLM_CALL" /\ answer = "none"
  BY <1>1, <1>2 DEF Nested, Is
<1> QED
  BY <1>1, <1>2, <1>3, <1>4, <1>5 DEF Hooked

\* An operation asks for an LLM call, which begins or is refused.
LEMMA InnerStart ==
  ASSUME CallsInv, Len(stack) = 1, stack # <<>>, UNCHANGED <<pc, run, clientVars>>,
         NEW op \in Operations, op.kind = stack[1].kind, op.kind # "LLM_CALL",
         {"Trace", "Budget"} \subseteq op.hooks,
         op.schema = stack[1].schema, op.transient = stack[1].transient,
         op.kind \in {"TOOL_CALL", "GATE_RUN"} => op.state = "asked",
         op.kind = "SUB_AGENT_RUN" => op.steps = stack[1].steps + 1 /\ op.tools <= SubTools,
         NEW below, below = Append(Below, op),
         NEW purpose \in Purposes, Start("LLM_CALL", purpose, below)
  PROVE  CallsInv'
<1> DEFINE llm == Operation("LLM_CALL", purpose)
<1>1. /\ llm \in Operations
      /\ llm.kind = "LLM_CALL" /\ llm.state = "ready"
      /\ {"Trace", "Budget"} \subseteq llm.hooks
      /\ llm.schema = 0 /\ llm.transient = 0
      /\ Counted(llm, "blocked") = 1
  BY NewOperation DEF Kinds
<1> HIDE DEF llm
<1>2. /\ Top = stack[1] /\ stack[1] \in Operations /\ Below = <<>> /\ Below \in Seq(Operations)
      /\ Len(Below) = 0 /\ stack \in Seq(Operations)
  BY OneOrTwo
<1>3. below \in Seq(Operations) /\ below # <<>> /\ Len(below) = 1 /\ below[1] = op
  <2>1. below \in Seq(Operations) /\ below # <<>> /\ Len(below) = 0 + 1 /\ below[Len(below)] = op
    BY <1>2, Pushed
  <2> QED
    BY <2>1
<1>4. PerCall \in Nat /\ \A n \in Nat : PerCall * n \in Nat /\ PerCall * (n + 1) = PerCall * n + PerCall
  BY Costs
<1>5. answer = "none" /\ TypedRest' /\ Room' /\ tally \in [calls : Nat, counted : Nat]
  BY DEF Start, CallsInv, TypeOK, TypedRest, Room
<1>6. /\ stack[1].schema \in Nat /\ stack[1].transient \in Nat /\ stack[1].steps \in Nat /\ op.steps \in Nat
      /\ stack[1].kind \in Kinds /\ Made(llm) = 0
  <2>1. /\ stack[1].schema \in 0..SchemaRetries /\ stack[1].transient \in 0..TransientRetries
        /\ stack[1].steps \in 0..SubSteps /\ stack[1].kind \in Kinds
    BY <1>2 DEF Operations, Kinds
  <2>2. op.steps \in 0..SubSteps
    BY DEF Operations
  <2>3. Made(llm) = 0
    BY <1>1 DEF Made
  <2> QED
    BY <2>1, <2>2, <2>3
<1>7. Rounds \in Nat /\ tally.calls <= PerCall * Rounds /\ tally.calls <= PerCall * tally.counted
  <2>1. ~Is("LLM_CALL")
    BY <1>2 DEF Is
  <2>2. Current = 0
    BY <2>1 DEF Current
  <2>3. Rounds \in Nat
    BY <1>5, <1>6 DEF Rounds, Kinds
  <2> QED
    BY <1>4, <1>5, <2>2, <2>3 DEF CallsInv, Tallied
<1>8. stack[1].kind \in {"TOOL_CALL", "GATE_RUN"} => stack[1].state = "ready"
  BY <1>5 DEF CallsInv, Nested
<1>9. KindsOf(below) = KindsOf(stack)
  BY <1>2, KindsReplaced DEF Below
<1>10. open = KindsOf(stack)
  BY DEF CallsInv, EveryEndIsTraced, KindsOf
<1>11. CASE Refused("LLM_CALL")
  <2>1. /\ stack' = below /\ answer' = "blocked" /\ UNCHANGED open
        /\ tally' = [tally EXCEPT !.counted = @ + 1]
    BY <1>1, <1>3, <1>11 DEF Start, llm
  <2>2. run.late
    BY <1>11, RefusedForBudget DEF OverBudget, Kinds
  <2>3. TypeOK'
    BY <1>3, <1>5, <2>1 DEF CallsInv, TypeOK, TypedRest, clientVars, Outcome
  <2>4. Top' = op
    BY <1>3, <2>1 DEF Top
  <2>5. Nested'
    BY <1>2, <1>3, <1>5, <2>1, <2>4 DEF CallsInv, Nested, Is, Outcome, Belongs, Asks, Compacts
  <2>6. Hooked' /\ RoomInside' /\ RefusedOnlyWhenLate'
    BY <1>3, <1>6, <2>1, <2>2, <2>4 DEF CallsInv, Hooked, RoomInside, RefusedOnlyWhenLate, Is
  <2>7. Rounds' = Rounds + 1
    BY <1>3, <1>5, <1>6, <1>8, <2>1 DEF Rounds, Kinds
  <2>8. Tallied'
    <3>1. Current' = 0
      BY <2>4 DEF Current, Is
    <3>2. tally'.calls = tally.calls /\ tally'.counted = tally.counted + 1
      BY <1>5, <2>1
    <3> QED
      BY <1>4, <1>5, <1>7, <2>7, <3>1, <3>2 DEF Tallied
  <2>9. Clocked'
    BY <1>2, <2>4 DEF CallsInv, Clocked, InFlight, Is, clientVars, Timed
  <2>10. EveryEndIsTraced'
    BY <1>9, <1>10, <2>1 DEF EveryEndIsTraced, KindsOf
  <2> QED
    BY <1>5, <2>3, <2>5, <2>6, <2>8, <2>9, <2>10 DEF CallsInv
<1>12. CASE ~Refused("LLM_CALL")
  <2>1. /\ stack' = Append(below, llm) /\ answer' = "none" /\ open' = Append(open, "LLM_CALL")
        /\ tally' = tally
    BY <1>3, <1>5, <1>12 DEF Start, llm
  <2>2. ~run.late
    BY <1>12, RefusedForBudget DEF OverBudget, Kinds
  <2>3. /\ stack' \in Seq(Operations) /\ stack' # <<>> /\ Len(stack') = 2
        /\ stack'[1] = op /\ stack'[2] = llm
    <3>1. /\ stack' \in Seq(Operations) /\ stack' # <<>> /\ Len(stack') = Len(below) + 1
          /\ \A i \in 1..Len(below) : stack'[i] = below[i]
          /\ stack'[Len(stack')] = llm
      BY <1>1, <1>3, <2>1, Pushed
    <3> QED
      BY <1>3, <3>1
  <2>4. Top' = llm
    BY <2>3 DEF Top
  <2>5. TypeOK'
    BY <1>5, <2>1, <2>3 DEF CallsInv, TypeOK, TypedRest, clientVars
  <2>6. Nested'
    BY <1>1, <1>2, <1>5, <2>1, <2>3, <2>4 DEF CallsInv, Nested, Is, Belongs, Asks, Compacts
  <2>7. Hooked'
    BY <1>1, <2>3 DEF Hooked
  <2>8. RoomInside' /\ RefusedOnlyWhenLate'
    BY <1>6, <2>1, <2>2, <2>3 DEF CallsInv, RoomInside, RefusedOnlyWhenLate
  <2>9. Rounds' = Rounds
    <3>1. CASE op.kind \in {"LLM_CALL", "CONTEXT_COMPACTION"}
      BY <1>5, <1>6, <2>1, <2>3, <3>1 DEF Rounds
    <3>2. CASE op.kind \in {"TOOL_CALL", "GATE_RUN"}
      BY <1>8, <2>3, <3>2 DEF Rounds
    <3>3. CASE op.kind = "SUB_AGENT_RUN"
      BY <1>6, <2>3, <3>3 DEF Rounds
    <3> QED
      BY <1>6, <3>1, <3>2, <3>3 DEF Kinds
  <2>10. Tallied'
    <3>1. Current' = 0
      BY <1>6, <2>4 DEF Current
    <3>2. tally'.calls = tally.calls /\ tally'.counted = tally.counted
      BY <2>1
    <3>3. PerCall * Rounds \in Nat /\ PerCall * tally.counted \in Nat
      BY <1>4, <1>5, <1>7
    <3> QED
      BY <1>7, <2>9, <3>1, <3>2, <3>3 DEF Tallied
  <2>11. Clocked'
    BY <1>1, <1>2, <2>4 DEF CallsInv, Clocked, InFlight, Is, clientVars, Timed
  <2>12. EveryEndIsTraced'
    <3>1. open' = KindsOf(stack')
      BY <1>1, <1>3, <1>9, <1>10, <2>1, KindsPushed
    <3> QED
      BY <3>1 DEF EveryEndIsTraced, KindsOf
  <2> QED
    BY <1>5, <2>5, <2>6, <2>7, <2>8, <2>10, <2>11, <2>12 DEF CallsInv
<1> QED
  BY <1>11, <1>12

\* Types of what other runs change too.
ClientTyped ==
  /\ client \in {"own", "planning", "summary"}
  /\ saved \in [{"run", "other"} -> {"none", "own", "planning", "summary"}]
  /\ others \in 0..OtherCalls /\ clashed \in BOOLEAN

\* An LLM call inside another operation ends.
LEMMA InnerFinish ==
  ASSUME CallsInv, Len(stack) = 2, stack # <<>>, UNCHANGED pc, ClientTyped', Clocked',
         NEW result \in Outcome, result # "blocked", Finish(result)
  PROVE  CallsInv'
<1> DEFINE op == stack[1]
<1>1. /\ Top = stack[2] /\ Top.kind = "LLM_CALL" /\ op.kind # "LLM_CALL" /\ answer = "none"
      /\ op \in Operations /\ Top \in Operations
      /\ {"Trace", "Budget"} \subseteq Top.hooks /\ {"Trace", "Budget"} \subseteq op.hooks
      /\ Below \in Seq(Operations) /\ Len(Below) = 1 /\ Below[1] = op /\ stack \in Seq(Operations)
  <2>1. 1 \in 1..Len(stack) /\ 2 \in 1..Len(stack) /\ 1 \in 1..(Len(stack) - 1)
    OBVIOUS
  <2>2. /\ Top = stack[2] /\ Top.kind = "LLM_CALL" /\ op.kind # "LLM_CALL" /\ answer = "none"
    BY OneOrTwo
  <2>3. /\ op \in Operations /\ stack[2] \in Operations
        /\ {"Trace", "Budget"} \subseteq stack[2].hooks /\ {"Trace", "Budget"} \subseteq op.hooks
    BY <2>1, OneOrTwo
  <2>4. Below \in Seq(Operations) /\ Len(Below) = Len(stack) - 1 /\ stack \in Seq(Operations)
    BY OneOrTwo
  <2>5. Below[1] = op
    BY <2>1, <2>4, OneOrTwo
  <2> QED
    BY <2>2, <2>3, <2>4, <2>5
<1>2. stack' = Below /\ answer' = result
  BY DEF Finish
<1>3. open' = SubSeq(open, 1, Len(open) - 1)
  BY <1>1 DEF Finish
<1>4. run' = run /\ tally \in [calls : Nat, counted : Nat] /\ TypedRest
  BY <1>1 DEF Finish, CallsInv, TypeOK, TypedRest
<1>5. /\ tally' \in [calls : Nat, counted : Nat]
      /\ tally'.calls = tally.calls /\ tally'.counted = tally.counted + 1
  BY <1>1, <1>4 DEF Finish, Counted
<1>6. stack' # <<>> /\ Top' = op /\ stack'[1] = op /\ Len(stack') = 1
  BY <1>1, <1>2 DEF Top
<1>7. TypeOK'
  <2>1. stack' \in Seq(Operations) /\ Len(stack') <= 2
    <3>1. PICK b : b = Below
      OBVIOUS
    <3>2. b \in Seq(Operations) /\ Len(b) = 1 /\ stack' = b
      BY <1>1, <1>2, <3>1
    <3> QED
      BY <3>2
  <2>2. TypedRest'
    BY <1>4 DEF TypedRest
  <2> QED
    BY <1>2, <1>5, <2>1, <2>2 DEF TypeOK, TypedRest, ClientTyped
<1>8. op.kind \in {"TOOL_CALL", "GATE_RUN"} => op.state = "asked"
  BY DEF CallsInv, Nested
<1>9. Nested'
  <2>1. Belongs(pc, op.kind)
    BY DEF CallsInv, Nested
  <2>2. result # "none"
    BY DEF Outcome
  <2> QED
    BY <1>1, <1>2, <1>6, <1>8, <2>1, <2>2 DEF Nested, Is, Belongs, Asks, Compacts
<1>10. Hooked'
  BY <1>1, <1>6 DEF Hooked
<1>11. Room' /\ RoomInside' /\ RefusedOnlyWhenLate'
  BY <1>1, <1>2, <1>4, <1>6 DEF CallsInv, Room, RoomInside, RefusedOnlyWhenLate, Is
<1>12. Rounds \in Nat /\ Rounds' = Rounds + 1
  <2>1. op.schema \in Nat /\ op.transient \in Nat /\ op.steps \in Nat /\ op.kind \in Kinds
    <3>1. /\ op.schema \in 0..SchemaRetries /\ op.transient \in 0..TransientRetries
          /\ op.steps \in 0..SubSteps /\ op.kind \in Kinds
      BY <1>1 DEF Operations, Kinds
    <3> QED
      BY <3>1
  <2>2. op.kind = "SUB_AGENT_RUN" => op.steps > 0
    BY DEF CallsInv, RoomInside
  <2>3. result # "none"
    BY DEF Outcome
  <2> HIDE DEF op
  <2>4. CASE op.kind = "CONTEXT_COMPACTION"
    BY <1>1, <1>2, <1>6, <2>1, <2>3, <2>4 DEF Rounds, op
  <2>5. CASE op.kind \in {"TOOL_CALL", "GATE_RUN"}
    BY <1>1, <1>6, <1>8, <2>5 DEF Rounds, op
  <2>6. CASE op.kind = "SUB_AGENT_RUN"
    BY <1>1, <1>6, <2>1, <2>2, <2>6 DEF Rounds, op
  <2> QED
    BY <1>1, <2>1, <2>4, <2>5, <2>6 DEF Kinds
<1>13. Tallied'
  <2>1. Current' = 0
    BY <1>1, <1>6 DEF Current, Is
  <2>2. Current = Made(Top)
    BY <1>1 DEF Current, Is
  <2>3. Current \in Nat /\ Current <= PerCall
    BY <1>1, <2>2, Costs
  <2>4. /\ PerCall \in Nat /\ PerCall * Rounds \in Nat /\ PerCall * tally.counted \in Nat
        /\ PerCall * (Rounds + 1) = PerCall * Rounds + PerCall
        /\ PerCall * (tally.counted + 1) = PerCall * tally.counted + PerCall
    BY <1>4, <1>12, Costs
  <2>5. /\ tally.calls <= PerCall * Rounds + Current
        /\ tally.calls <= PerCall * tally.counted + Current
    BY DEF CallsInv, Tallied
  <2>6. /\ tally'.calls <= PerCall * Rounds' + 0
        /\ tally'.calls <= PerCall * tally'.counted + 0
    BY <1>4, <1>5, <1>12, <2>3, <2>4, <2>5
  <2> QED
    BY <2>1, <2>6 DEF Tallied
<1>14. EveryEndIsTraced'
  <2>1. open = KindsOf(stack)
    BY DEF CallsInv, EveryEndIsTraced, KindsOf
  <2>2. KindsOf(SubSeq(stack, 1, Len(stack) - 1)) = SubSeq(KindsOf(stack), 1, Len(KindsOf(stack)) - 1)
    <3>1. Len(stack) > 0
      OBVIOUS
    <3> QED
      BY <1>1, <3>1, KindsPopped, Zenon
  <2>3. open' = KindsOf(stack')
    BY <1>2, <1>3, <2>1, <2>2 DEF Below, Finish
  <2> QED
    BY <2>3 DEF EveryEndIsTraced, KindsOf
<1> QED
  BY <1>7, <1>9, <1>10, <1>11, <1>13, <1>14 DEF CallsInv

\* The outermost operation ends, and the run gets its answer.
LEMMA OuterFinish ==
  ASSUME CallsInv, Len(stack) = 1, stack # <<>>, UNCHANGED pc, ClientTyped', Clocked',
         NEW result \in Outcome \cup SubStatus, result = "blocked" => run.late, Finish(result)
  PROVE  CallsInv'
<1> DEFINE op == stack[1]
<1>1. /\ Top = op /\ Below = <<>> /\ op \in Operations /\ {"Trace", "Budget"} \subseteq op.hooks
      /\ stack \in Seq(Operations)
  BY OneOrTwo
<1>2. stack' = <<>> /\ answer' = result
  BY <1>1 DEF Finish
<1>3. open' = SubSeq(open, 1, Len(open) - 1)
  BY <1>1 DEF Finish
<1>4. tally \in [calls : Nat, counted : Nat] /\ TypedRest /\ MaxCompactions \in Nat
  BY AgentCallsAssumption DEF CallsInv, TypeOK, TypedRest
<1>5. /\ tally' \in [calls : Nat, counted : Nat]
      /\ tally'.calls = tally.calls
      /\ tally'.counted = tally.counted + IF op.kind = "LLM_CALL" THEN 1 ELSE 0
  BY <1>1, <1>4 DEF Finish, Counted
<1>6. TypedRest' /\ Room' /\ run'.late = run.late
  <2> DEFINE ended == IF op.kind = "CONTEXT_COMPACTION" /\ result = "ok" THEN run.summaries + 1 ELSE run.summaries
  <2>1. run' = [run EXCEPT !.summaries = ended]
    BY <1>1 DEF Finish
  <2>2. ended <= run.compactions /\ ended \in Nat
    BY <1>4 DEF CallsInv, Room, RoomInside, TypedRest
  <2> HIDE DEF ended
  <2>3. ended \in 0..MaxCompactions
    BY <1>4, <2>2 DEF TypedRest
  <2>4. TypedRest'
    BY <1>4, <2>1, <2>3 DEF TypedRest
  <2>5. Room' /\ run'.late = run.late
    BY <1>4, <2>1, <2>2 DEF CallsInv, Room, TypedRest
  <2> QED
    BY <2>4, <2>5
<1>7. TypeOK'
  <2>1. <<>> \in Seq(Operations) /\ Len(<<>>) = 0
    OBVIOUS
  <2> QED
    BY <1>2, <1>5, <1>6, <2>1 DEF TypeOK, TypedRest, ClientTyped
<1>8. Nested' /\ Hooked' /\ RoomInside' /\ RefusedOnlyWhenLate'
  <2>1. Len(<<>>) = 0
    OBVIOUS
  <2>2. Belongs(pc, op.kind)
    BY DEF CallsInv, Nested
  <2> QED
    BY <1>2, <1>6, <2>1, <2>2 DEF Nested, Hooked, RoomInside, RefusedOnlyWhenLate, Is, Belongs,
           Asks, Compacts
<1>9. Tallied'
  <2>1. Current' = 0
    BY <1>2 DEF Current, Is
  <2>2. Current = IF op.kind = "LLM_CALL" THEN Made(op) ELSE 0
    BY <1>1 DEF Current, Is
  <2>3. Made(op) \in Nat /\ Made(op) <= PerCall
    BY <1>1, Costs
  <2>4. /\ PerCall \in Nat /\ PerCall * tally.counted \in Nat
        /\ PerCall * (tally.counted + 1) = PerCall * tally.counted + PerCall
    BY <1>4, Costs
  <2>5. tally.calls <= PerCall * tally.counted + Current
    BY DEF CallsInv, Tallied
  <2>6. tally'.calls <= PerCall * tally'.counted
    BY <1>4, <1>5, <2>2, <2>3, <2>4, <2>5
  <2>7. PerCall * tally'.counted \in Nat
    BY <1>5, Costs
  <2> QED
    BY <1>2, <2>1, <2>6, <2>7 DEF Tallied
<1>10. EveryEndIsTraced'
  <2>1. open = KindsOf(stack)
    BY DEF CallsInv, EveryEndIsTraced, KindsOf
  <2>2. KindsOf(SubSeq(stack, 1, Len(stack) - 1)) = SubSeq(KindsOf(stack), 1, Len(KindsOf(stack)) - 1)
    <3>1. Len(stack) > 0
      OBVIOUS
    <3> QED
      BY <1>1, <3>1, KindsPopped, Zenon
  <2>3. open' = KindsOf(stack')
    BY <1>2, <1>3, <2>1, <2>2 DEF Below, Finish
  <2> QED
    BY <2>3 DEF EveryEndIsTraced, KindsOf
<1> QED
  BY <1>6, <1>7, <1>8, <1>9, <1>10 DEF CallsInv

\* What replacing the innermost operation leaves alone.
LEMMA Replaced ==
  ASSUME CallsInv, stack # <<>>, NEW op \in Operations, op.kind = Top.kind, op.hooks = Top.hooks,
         Replace(op), UNCHANGED open
  PROVE  /\ stack' \in Seq(Operations) /\ stack' # <<>> /\ Len(stack') = Len(stack) /\ Top' = op
         /\ Len(stack) = 1 => stack'[1] = op
         /\ Len(stack) = 2 => stack'[1] = stack[1] /\ stack'[2] = op
         /\ Hooked' /\ EveryEndIsTraced'
<1>1. /\ Len(stack) = 1 \/ Len(stack) = 2
      /\ Below \in Seq(Operations) /\ Len(Below) = Len(stack) - 1 /\ stack \in Seq(Operations)
      /\ \A i \in 1..Len(Below) : Below[i] = stack[i]
      /\ \A i \in 1..Len(stack) : {"Trace", "Budget"} \subseteq stack[i].hooks
  BY OneOrTwo
<1>2. Top = stack[Len(stack)]
  BY DEF Top
<1>3. /\ stack' \in Seq(Operations) /\ stack' # <<>> /\ Len(stack') = Len(Below) + 1
      /\ \A i \in 1..Len(Below) : stack'[i] = Below[i]
      /\ stack'[Len(stack')] = op
  BY <1>1, Pushed DEF Replace
<1>4. Len(stack') = Len(stack)
  BY <1>1, <1>3
<1>5. Top' = op
  BY <1>3 DEF Top
<1>6. Len(stack) = 1 => stack'[1] = op
  BY <1>3, <1>4
<1>7. Len(stack) = 2 => stack'[1] = stack[1] /\ stack'[2] = op
  BY <1>1, <1>3, <1>4
<1>8. Hooked'
  <2>1. {"Trace", "Budget"} \subseteq op.hooks
    BY <1>1, <1>2
  <2>2. CASE Len(stack) = 1
    BY <1>4, <1>6, <2>1, <2>2 DEF Hooked
  <2>3. CASE Len(stack) = 2
    BY <1>1, <1>4, <1>7, <2>1, <2>3 DEF Hooked
  <2> QED
    BY <1>1, <2>2, <2>3
<1>9. EveryEndIsTraced'
  <2>1. open = KindsOf(stack)
    BY DEF CallsInv, EveryEndIsTraced, KindsOf
  <2>2. Len(stack) > 0
    BY <1>1
  <2>3. KindsOf(Append(SubSeq(stack, 1, Len(stack) - 1), op)) = KindsOf(stack)
    BY <1>1, <1>2, <2>2, KindsReplaced
  <2>4. open' = KindsOf(stack')
    BY <2>1, <2>3 DEF Replace, Below
  <2> QED
    BY <2>4 DEF EveryEndIsTraced, KindsOf
<1> QED
  BY <1>3, <1>4, <1>5, <1>6, <1>7, <1>8, <1>9

\* A step of an LLM call in progress.
LEMMA LlmStep ==
  ASSUME CallsInv, Is("LLM_CALL"), NEW op \in Operations, op.kind = "LLM_CALL", op.state # "asked",
         op.hooks = Top.hooks, Replace(op), UNCHANGED <<pc, answer, run, open>>, ClientTyped', Clocked',
         tally' \in [calls : Nat, counted : Nat], tally'.counted = tally.counted,
         tally'.calls + Made(Top) = tally.calls + Made(op)
  PROVE  CallsInv'
<1>1. stack # <<>> /\ Top.kind = "LLM_CALL"
  BY DEF Is
<1>2. /\ stack' \in Seq(Operations) /\ stack' # <<>> /\ Len(stack') = Len(stack) /\ Top' = op
      /\ Len(stack) = 1 => stack'[1] = op
      /\ Len(stack) = 2 => stack'[1] = stack[1] /\ stack'[2] = op
      /\ Hooked' /\ EveryEndIsTraced'
  BY <1>1, Replaced
<1>3. /\ \/ Len(stack) = 1 /\ Top = stack[1]
         \/ Len(stack) = 2 /\ stack[1].kind # "LLM_CALL"
      /\ answer = "none"
  BY <1>1, OneOrTwo DEF CallsInv, Nested, Is
<1>4. stack[1] \in Operations /\ Top \in Operations
  BY <1>1, StackSplit DEF CallsInv
<1>5. TypeOK'
  BY <1>2 DEF CallsInv, TypeOK, ClientTyped
<1>6. Nested'
  BY <1>1, <1>2, <1>3 DEF CallsInv, Nested, Is
<1>7. Room' /\ RoomInside' /\ RefusedOnlyWhenLate'
  <2>1. ~run.late
    BY DEF CallsInv, RefusedOnlyWhenLate
  <2> QED
    BY <1>1, <1>2, <1>3, <2>1 DEF CallsInv, Room, RoomInside, RefusedOnlyWhenLate
<1>8. Rounds' = Rounds /\ Rounds \in Nat
  <2>1. CASE Len(stack) = 1
    BY <1>1, <1>2, <1>3, <2>1 DEF Rounds
  <2>2. CASE Len(stack) = 2
    <3>1. Rounds' = Rounds
      BY <1>2, <1>3, <2>2 DEF Rounds
    <3>2. /\ stack[1].schema \in 0..SchemaRetries /\ stack[1].transient \in 0..TransientRetries
          /\ stack[1].steps \in 0..SubSteps /\ stack[1].kind \in Kinds
      BY <1>4 DEF Operations, Kinds
    <3>3. stack[1].kind = "SUB_AGENT_RUN" => stack[1].steps > 0
      BY <2>2, <1>1 DEF CallsInv, RoomInside
    <3>4. Rounds \in Nat
      BY <1>3, <2>2, <3>2, <3>3 DEF Rounds, Kinds
    <3> QED
      BY <3>1, <3>4
  <2> QED
    BY <1>3, <2>1, <2>2
<1>9. Tallied'
  <2>1. Current = Made(Top) /\ Current' = Made(op)
    BY <1>2 DEF Current, Is, Made
  <2>2. Made(Top) \in Nat /\ Made(op) \in Nat
    BY <1>4, Costs
  <2>3. tally \in [calls : Nat, counted : Nat]
    BY DEF CallsInv, TypeOK
  <2>4. PerCall * Rounds \in Nat /\ PerCall * tally.counted \in Nat
    BY <1>8, <2>3, Costs
  <2>5. tally.calls <= PerCall * Rounds + Made(Top) /\ tally.calls <= PerCall * tally.counted + Made(Top)
    BY <1>1, <2>1 DEF CallsInv, Tallied
  <2>6. tally'.calls <= PerCall * Rounds + Made(op) /\ tally'.calls <= PerCall * tally.counted + Made(op)
    BY <2>2, <2>3, <2>4, <2>5
  <2> QED
    BY <1>8, <2>1, <2>6 DEF Tallied
<1> QED
  BY <1>2, <1>5, <1>6, <1>7, <1>9 DEF CallsInv

\* The outermost operation takes the answer of the call it made, and goes on.
LEMMA OuterGoesOn ==
  ASSUME CallsInv, stack # <<>>, Top.kind \in {"CONTEXT_COMPACTION", "SUB_AGENT_RUN"},
         answer # "none", answer' = "none",
         NEW op \in Operations, op.kind = Top.kind, op.hooks = Top.hooks, Replace(op),
         op.kind = "CONTEXT_COMPACTION" => op.schema + op.transient = Top.schema + Top.transient + 1,
         op.kind = "SUB_AGENT_RUN" => op.steps = Top.steps,
         UNCHANGED <<pc, run, open, tally, clientVars>>
  PROVE  CallsInv'
<1>1. /\ stack' \in Seq(Operations) /\ stack' # <<>> /\ Len(stack') = Len(stack) /\ Top' = op
      /\ Len(stack) = 1 => stack'[1] = op
      /\ Hooked' /\ EveryEndIsTraced'
  BY Replaced
<1>2. Len(stack) = 1 /\ Top = stack[1] /\ Top \in Operations
  BY OneOrTwo
<1>3. TypeOK'
  BY <1>1 DEF CallsInv, TypeOK, clientVars
<1>4. Nested' /\ Room' /\ RoomInside' /\ RefusedOnlyWhenLate'
  BY <1>1, <1>2 DEF CallsInv, Nested, Room, RoomInside, RefusedOnlyWhenLate, Is
<1>5. Rounds' = Rounds /\ Rounds \in Nat
  <2>1. /\ Top.schema \in 0..SchemaRetries /\ Top.transient \in 0..TransientRetries
        /\ Top.steps \in 0..SubSteps
    BY <1>2 DEF Operations
  <2>2. /\ op.schema \in 0..SchemaRetries /\ op.transient \in 0..TransientRetries
    BY DEF Operations
  <2>3. CASE op.kind = "CONTEXT_COMPACTION"
    BY <1>1, <1>2, <2>1, <2>2, <2>3 DEF Rounds
  <2>4. CASE op.kind = "SUB_AGENT_RUN"
    BY <1>1, <1>2, <2>1, <2>4 DEF Rounds
  <2> QED
    BY <2>3, <2>4
<1>6. Tallied'
  <2>1. Current = 0 /\ Current' = 0
    BY <1>1 DEF Current, Is
  <2>2. tally'.calls = tally.calls /\ tally'.counted = tally.counted
    OBVIOUS
  <2> QED
    BY <1>5, <2>1, <2>2 DEF CallsInv, Tallied
<1>7. Clocked'
  BY <1>1 DEF CallsInv, Clocked, InFlight, Is, clientVars, Timed
<1> QED
  BY <1>1, <1>3, <1>4, <1>6, <1>7 DEF CallsInv

\* The client is as it was, and no call is in flight.
LEMMA ClientUntouched ==
  ASSUME CallsInv, UNCHANGED clientVars, ~Is("LLM_CALL"), ~Is("LLM_CALL")'
  PROVE  ClientTyped' /\ Clocked'
<1>1. ClientTyped'
  BY DEF CallsInv, TypeOK, ClientTyped, clientVars
<1>2. Clocked'
  BY DEF CallsInv, Clocked, InFlight, Is, clientVars, Timed
<1> QED
  BY <1>1, <1>2

\* An operation that makes no provider call itself ends.
LEMMA QuietFinish ==
  ASSUME CallsInv, stack # <<>>, Top.kind # "LLM_CALL", UNCHANGED <<pc, clientVars>>,
         NEW result \in Outcome \cup SubStatus, result = "blocked" => run.late, Finish(result)
  PROVE  CallsInv'
<1>1. Len(stack) = 1 /\ Below = <<>>
  BY OneOrTwo
<1>2. stack' = <<>>
  BY <1>1 DEF Finish
<1>3. ~Is("LLM_CALL") /\ ~Is("LLM_CALL")'
  BY <1>2 DEF Is
<1>4. ClientTyped' /\ Clocked'
  BY <1>3, ClientUntouched
<1> QED
  BY <1>1, <1>4, OuterFinish

\* Where the run must be between two operations.
LEMMA Between ==
  ASSUME CallsInv, pc \in {"loop", "act", "second", "ended", "raised"}
  PROVE  stack = <<>> /\ answer = "none"
BY DEF CallsInv, Nested, Belongs, Asks, Compacts

-----------------------------------------------------------------------------
(* The steps of the run outside its operations *)

\* Where the run goes after a compaction, summarized or not, still leaves the calls it may make.
LEMMA AfterCompactionStep ==
  ASSUME CallsInv, Compacting, pc' = AfterCompaction, UNCHANGED run
  PROVE  TypedRest' /\ Room'
<1>1. TypedRest /\ Room
  BY DEF CallsInv, TypeOK, TypedRest
<1>2. CASE pc = "begin"
  <2>1. pc' = "loop"
    BY <1>2 DEF AfterCompaction
  <2> QED
    BY <1>1, <2>1 DEF TypedRest, Room
<1>3. CASE pc = "compact"
  <2>1. pc' \in {"decision", "plan"}
    BY <1>3 DEF AfterCompaction
  <2> QED
    BY <1>1, <1>3, <2>1 DEF TypedRest, Room
<1>4. CASE pc = "final"
  <2>1. pc' = "reflect"
    BY <1>4 DEF AfterCompaction
  <2> QED
    BY <1>1, <2>1 DEF TypedRest, Room
<1> QED
  BY <1>2, <1>3, <1>4 DEF Compacting

\* The steps before the loop that trim or summarize (`context_manager.py`) preserve the invariant.
LEMMA CompactionSteps ==
  ASSUME CallsInv, TrimOnly \/ Summarize \/ Compacted
  PROVE  CallsInv'
<1>1. TypedRest /\ Room /\ MaxCompactions \in Nat
  BY AgentCallsAssumption DEF CallsInv, TypeOK, TypedRest
<1>2. CASE TrimOnly
  BY <1>2, AfterCompactionStep, IdleStep DEF TrimOnly, Compacting
<1>3. CASE Summarize
  <2>1. run' = [run EXCEPT !.compactions = run.compactions + 1] /\ run.compactions < MaxCompactions
    BY <1>3 DEF Summarize
  <2>2. TypedRest' /\ Room' /\ run'.late = run.late /\ run'.summaries < run'.compactions
    BY <1>1, <1>3, <2>1 DEF Summarize, TypedRest, Room
  <2>3. ~OverBudget("CONTEXT_COMPACTION")
    BY <1>1, <2>1 DEF OverBudget, TypedRest, Room
  <2>4. Belongs(pc', "CONTEXT_COMPACTION")
    BY <1>3 DEF Summarize, Compacting, Belongs, Compacts
  <2>5. "CONTEXT_COMPACTION" \in Kinds /\ "summary" \in Purposes
    BY DEF Kinds, Purposes
  <2> QED
    BY <1>3, <2>2, <2>3, <2>4, <2>5, OuterStart DEF Summarize, Compacting
<1>4. CASE Compacted
  BY <1>4, AfterCompactionStep, IdleStep DEF Compacted, Compacting
<1> QED
  BY <1>2, <1>3, <1>4

\* The top of the loop and the calls for a plan and an action preserve the invariant.
LEMMA PlanningSteps ==
  ASSUME CallsInv, Loop \/ Ask \/ PlanTaken \/ PlanRejected \/ Decided
  PROVE  CallsInv'
<1>1. TypedRest /\ Room /\ {MaxSteps, MaxTools, MaxSubs} \subseteq Nat
  BY AgentCallsAssumption DEF CallsInv, TypeOK, TypedRest
<1>2. CASE Loop
  <2>1. PICK late \in BOOLEAN :
          /\ run' = [run EXCEPT !.late = late]
          /\ pc' \in IF late \/ run.steps >= MaxSteps \/ run.tools >= MaxTools \/ run.subs >= MaxSubs
                     THEN {"final"} ELSE {"compact", "final"}
    BY <1>2 DEF Loop
  <2>2. TypedRest' /\ Room'
    BY <1>1, <2>1 DEF TypedRest, Room
  <2>3. stack = <<>> /\ answer = "none"
    BY <1>2, Between DEF Loop
  <2> QED
    BY <1>2, <2>2, <2>3, IdleStep DEF Loop
<1>3. CASE Ask
  <2>1. TypedRest' /\ Room'
    BY <1>1, <1>3 DEF Ask, TypedRest, Room
  <2>2. Belongs(pc', "LLM_CALL") /\ pc \in Purposes
    BY <1>3 DEF Ask, Asking, Belongs, Asks, Purposes
  <2>3. OverBudget("LLM_CALL") => run.late
    BY DEF OverBudget
  <2>4. "LLM_CALL" \in Kinds
    BY DEF Kinds
  <2> QED
    BY <1>3, <2>1, <2>2, <2>3, <2>4, OuterStart DEF Ask, Asking
<1>4. CASE PlanTaken
  <2>1. TypedRest' /\ Room'
    <3>1. run.steps < MaxSteps /\ run.steps \in 0..MaxSteps /\ MaxSteps \in Nat
      BY <1>1, <1>4 DEF PlanTaken, Room, TypedRest
    <3>2. run.steps + 1 \in 0..MaxSteps
      BY <3>1
    <3>3. run' = [run EXCEPT !.ready = TRUE, !.steps = run.steps + 1] /\ pc' = "loop"
      BY <1>4 DEF PlanTaken
    <3>4. TypedRest'
      BY <1>1, <3>2, <3>3 DEF TypedRest
    <3>5. run'.summaries = run.summaries /\ run'.compactions = run.compactions
      BY <1>1, <3>3 DEF TypedRest
    <3> QED
      BY <1>1, <3>3, <3>4, <3>5 DEF Room
  <2> QED
    BY <1>4, <2>1, IdleStep DEF PlanTaken
<1>5. CASE PlanRejected
  <2>1. TypedRest' /\ Room'
    BY <1>1, <1>5 DEF PlanRejected, TypedRest, Room
  <2> QED
    BY <1>5, <2>1, IdleStep DEF PlanRejected
<1>6. CASE Decided
  <2>1. TypedRest' /\ Room'
    BY <1>1, <1>6 DEF Decided, TypedRest, Room
  <2> QED
    BY <1>6, <2>1, IdleStep DEF Decided
<1> QED
  BY <1>2, <1>3, <1>4, <1>5, <1>6

\* Executing an action, the second round of the gates and `post_reflect` preserve it.
LEMMA ActingSteps ==
  ASSUME CallsInv, Act \/ Acted \/ Regenerated \/ SecondGates \/ NoReflection \/ Reflected
  PROVE  CallsInv'
<1>1. TypedRest /\ Room /\ {MaxSteps, MaxTools, MaxSubs} \subseteq Nat
  BY AgentCallsAssumption DEF CallsInv, TypeOK, TypedRest
<1>2. CASE Act
  <2>1. stack = <<>> /\ answer = "none"
    BY <1>2, Between DEF Act
  <2>2. /\ run.steps < MaxSteps /\ run.tools < MaxTools /\ run.subs < MaxSubs
        /\ run' = [run EXCEPT !.steps = run.steps + 1]
    BY <1>1, <1>2 DEF Act, Room
  <2>3. pc' \in {"tool", "sub", "gate", "final"}
    BY <1>2 DEF Act
  <2>4. TypedRest' /\ Room' /\ run'.late = run.late
    BY <1>1, <2>2, <2>3 DEF TypedRest, Room
  <2>5. ~OverBudget("TOOL_CALL") /\ ~OverBudget("SUB_AGENT_RUN") /\ ~OverBudget("GATE_RUN")
    BY <1>1, <2>2 DEF OverBudget, TypedRest
  <2>6. /\ {"TOOL_CALL", "SUB_AGENT_RUN", "GATE_RUN"} \subseteq Kinds
        /\ {"tool", "sub", "v1"} \subseteq Purposes
    BY DEF Kinds, Purposes
  <2>7. CASE pc' = "tool" /\ Start("TOOL_CALL", "tool", <<>>)
    <3>1. Belongs(pc', "TOOL_CALL")
      BY <2>7 DEF Belongs
    <3> QED
      BY <1>2, <2>1, <2>4, <2>5, <2>6, <2>7, <3>1, OuterStart DEF Act
  <2>8. CASE pc' = "sub" /\ Start("SUB_AGENT_RUN", "sub", <<>>)
    <3>1. Belongs(pc', "SUB_AGENT_RUN")
      BY <2>8 DEF Belongs
    <3> QED
      BY <1>2, <2>1, <2>4, <2>5, <2>6, <2>8, <3>1, OuterStart DEF Act
  <2>9. CASE pc' = "gate" /\ Start("GATE_RUN", "v1", <<>>)
    <3>1. Belongs(pc', "GATE_RUN")
      BY <2>9 DEF Belongs
    <3> QED
      BY <1>2, <2>1, <2>4, <2>5, <2>6, <2>9, <3>1, OuterStart DEF Act
  <2>10. CASE UNCHANGED <<stack, answer, open, tally>>
    BY <1>2, <2>1, <2>4, <2>10, IdleStep DEF Act
  <2> QED
    BY <1>2, <2>7, <2>8, <2>9, <2>10 DEF Act
<1>3. CASE Acted
  <2>1. pc' \in {"loop", "final", "regenerate", "raised"} /\ (pc' = "loop" => pc \in {"tool", "sub"})
    BY <1>3 DEF Acted
  <2>2. run' = [run EXCEPT !.tools = IF pc' = "loop" /\ pc = "tool" THEN run.tools + 1 ELSE run.tools,
                           !.subs  = IF pc' = "loop" /\ pc = "sub" THEN run.subs + 1 ELSE run.subs]
    BY <1>3 DEF Acted
  <2>3. TypedRest' /\ Room'
    <3> DEFINE tools == IF pc' = "loop" /\ pc = "tool" THEN run.tools + 1 ELSE run.tools
               subs == IF pc' = "loop" /\ pc = "sub" THEN run.subs + 1 ELSE run.subs
    <3>1. tools \in 0..MaxTools
      BY <1>1 DEF TypedRest, Room
    <3>2. subs \in 0..MaxSubs
      BY <1>1 DEF TypedRest, Room
    <3>3. run' = [run EXCEPT !.tools = tools, !.subs = subs]
      BY <2>2
    <3> HIDE DEF tools, subs
    <3>4. TypedRest'
      BY <1>1, <2>1, <3>1, <3>2, <3>3 DEF TypedRest
    <3>5. run'.summaries = run.summaries /\ run'.compactions = run.compactions
      BY <1>1, <3>3 DEF TypedRest
    <3> QED
      BY <1>1, <2>1, <3>4, <3>5 DEF Room
  <2> QED
    BY <1>3, <2>3, IdleStep DEF Acted
<1>4. CASE Regenerated
  <2>1. pc' \in {"second", "final", "raised"}
    BY <1>4 DEF Regenerated
  <2>2. TypedRest' /\ Room'
    BY <1>1, <1>4, <2>1 DEF Regenerated, TypedRest, Room
  <2> QED
    BY <1>4, <2>2, IdleStep DEF Regenerated
<1>5. CASE SecondGates
  <2>1. stack = <<>> /\ answer = "none"
    BY <1>5, Between DEF SecondGates
  <2>2. TypedRest' /\ Room' /\ run'.late = run.late
    BY <1>1, <1>5 DEF SecondGates, TypedRest, Room
  <2>3. ~OverBudget("GATE_RUN")
    BY DEF OverBudget
  <2>4. Belongs(pc', "GATE_RUN") /\ "GATE_RUN" \in Kinds /\ "v2" \in Purposes
    BY <1>5 DEF SecondGates, Belongs, Kinds, Purposes
  <2> QED
    BY <1>5, <2>1, <2>2, <2>3, <2>4, OuterStart DEF SecondGates
<1>6. CASE NoReflection
  <2>1. TypedRest' /\ Room'
    BY <1>1, <1>6 DEF NoReflection, TypedRest, Room
  <2> QED
    BY <1>6, <2>1, IdleStep DEF NoReflection
<1>7. CASE Reflected
  <2>1. TypedRest' /\ Room'
    BY <1>1, <1>7 DEF Reflected, TypedRest, Room
  <2> QED
    BY <1>7, <2>1, IdleStep DEF Reflected
<1> QED
  BY <1>2, <1>3, <1>4, <1>5, <1>6, <1>7

-----------------------------------------------------------------------------
(* The steps inside its operations *)

\* An operation alone on the stack may be written as one that replaces itself.
LEMMA Alone ==
  ASSUME CallsInv, stack # <<>>, Top.kind # "LLM_CALL"
  PROVE  /\ Len(stack) = 1 /\ Top = stack[1] /\ Below = <<>> /\ stack = Append(Below, Top)
         /\ Top \in Operations /\ {"Trace", "Budget"} \subseteq Top.hooks
<1>1. /\ Len(stack) = 1 /\ Top = stack[1] /\ Below = <<>> /\ stack \in Seq(Operations)
      /\ \A i \in 1..Len(stack) : stack[i] \in Operations /\ {"Trace", "Budget"} \subseteq stack[i].hooks
  BY OneOrTwo
<1>2. /\ Append(<<>>, Top) \in Seq(Operations) /\ Len(Append(<<>>, Top)) = 1
      /\ Append(<<>>, Top)[1] = Top
  BY <1>1
<1>3. stack = Append(<<>>, Top)
  BY <1>1, <1>2, SeqEqual
<1> QED
  BY <1>1, <1>3

\* A retry leaves its trace in one counter, within the limit, and the operation
\* is as it was before its first attempt.
LEMMA TriesAgain ==
  ASSUME NEW top \in Operations, NEW error, Retries(top, error)
  PROVE  LET op == Again(top, error)
         IN  /\ op \in Operations /\ op.kind = top.kind /\ op.hooks = top.hooks
             /\ op.state = "ready"
             /\ op.schema + op.transient = top.schema + top.transient + 1
<1> DEFINE op == Again(top, error)
<1>1. /\ top.schema \in 0..SchemaRetries /\ top.transient \in 0..TransientRetries
      /\ SchemaRetries \in Nat /\ TransientRetries \in Nat
  BY AgentCallsAssumption DEF Operations
<1>2. top = [kind |-> top.kind, purpose |-> top.purpose, hooks |-> top.hooks, state |-> top.state,
             used |-> top.used, schema |-> top.schema, transient |-> top.transient,
             steps |-> top.steps, tools |-> top.tools, contexts |-> top.contexts]
  BY DEF Operations
<1>3. CASE error = "schema"
  <2> DEFINE n == top.schema + 1
  <2>1. n \in 0..SchemaRetries
    BY <1>1, <1>3 DEF Retries
  <2>2. op = [top EXCEPT !.schema = n, !.state = "ready", !.used = "none"]
    BY <1>3 DEF Again
  <2> HIDE DEF n, op
  <2>3. op = [kind |-> top.kind, purpose |-> top.purpose, hooks |-> top.hooks, state |-> "ready",
              used |-> "none", schema |-> n, transient |-> top.transient,
              steps |-> top.steps, tools |-> top.tools, contexts |-> top.contexts]
    BY <1>2, <2>2
  <2>4. op \in Operations
    BY <2>1, <2>3 DEF Operations
  <2>5. op.schema + op.transient = top.schema + top.transient + 1
    BY <1>1, <2>3 DEF n
  <2> QED
    BY <2>3, <2>4, <2>5 DEF op
<1>4. CASE error # "schema"
  <2> DEFINE n == top.transient + 1
  <2>1. n \in 0..TransientRetries
    BY <1>1, <1>4 DEF Retries
  <2>2. op = [top EXCEPT !.transient = n, !.state = "ready", !.used = "none"]
    BY <1>4 DEF Again
  <2> HIDE DEF n, op
  <2>3. op = [kind |-> top.kind, purpose |-> top.purpose, hooks |-> top.hooks, state |-> "ready",
              used |-> "none", schema |-> top.schema, transient |-> n,
              steps |-> top.steps, tools |-> top.tools, contexts |-> top.contexts]
    BY <1>2, <2>2
  <2>4. op \in Operations
    BY <2>1, <2>3 DEF Operations
  <2>5. op.schema + op.transient = top.schema + top.transient + 1
    BY <1>1, <2>3 DEF n
  <2> QED
    BY <2>3, <2>4, <2>5 DEF op
<1> QED
  BY <1>3, <1>4

\* The LLM call inside a compaction preserves the invariant.
LEMMA SummarySteps ==
  ASSUME CallsInv, AskSummary \/ SummaryAnswered
  PROVE  CallsInv'
<1>1. stack # <<>> /\ Top.kind = "CONTEXT_COMPACTION"
  BY DEF AskSummary, SummaryAnswered, Is
<1>2. /\ Len(stack) = 1 /\ Top = stack[1] /\ stack = Append(Below, Top)
      /\ Top \in Operations /\ {"Trace", "Budget"} \subseteq Top.hooks
  BY <1>1, Alone
<1>3. CASE AskSummary
  <2>1. Start("LLM_CALL", "summary", stack) /\ UNCHANGED <<pc, run, clientVars>>
    BY <1>3 DEF AskSummary
  <2>2. "summary" \in Purposes
    BY DEF Purposes
  <2> QED
    BY <1>1, <1>2, <2>1, <2>2, InnerStart
<1>4. CASE SummaryAnswered
  <2>1. answer \in Outcome /\ answer # "none" /\ UNCHANGED <<pc, clientVars>>
    BY <1>1, <1>4 DEF SummaryAnswered, CallsInv, Nested
  <2>2. CASE Retries(Top, answer)
    <3>1. Replace(Again(Top, answer)) /\ answer' = "none" /\ UNCHANGED <<run, open, tally>>
      BY <1>4, <2>2 DEF SummaryAnswered
    <3>2. LET op == Again(Top, answer)
          IN  /\ op \in Operations /\ op.kind = Top.kind /\ op.hooks = Top.hooks
              /\ op.schema + op.transient = Top.schema + Top.transient + 1
      BY <1>2, <2>2, TriesAgain
    <3> QED
      BY <1>1, <2>1, <3>1, <3>2, OuterGoesOn
  <2>3. CASE ~Retries(Top, answer)
    <3>1. Finish(answer)
      BY <1>4, <2>3 DEF SummaryAnswered
    <3>2. answer = "blocked" => run.late
      BY DEF CallsInv, RefusedOnlyWhenLate
    <3> QED
      BY <1>1, <2>1, <3>1, <3>2, QuietFinish
  <2> QED
    BY <2>2, <2>3
<1> QED
  BY <1>3, <1>4

\* The LLM call inside a tool preserves the invariant.
LEMMA BodySteps ==
  ASSUME CallsInv, Body \/ BodyAnswered
  PROVE  CallsInv'
<1>1. stack # <<>> /\ Top.kind \in {"TOOL_CALL", "GATE_RUN"} /\ UNCHANGED <<pc, clientVars>>
  BY DEF Body, BodyAnswered
<1>2. /\ Len(stack) = 1 /\ Top = stack[1]
      /\ Top \in Operations /\ {"Trace", "Budget"} \subseteq Top.hooks
  BY <1>1, Alone
<1>3. ASSUME Finish("ok") PROVE CallsInv'
  <2>1. "ok" \in Outcome \cup SubStatus
    BY DEF Outcome
  <2> QED
    BY <1>1, <1>3, <2>1, QuietFinish
<1>4. ASSUME Start("LLM_CALL", "body", Append(Below, [Top EXCEPT !.state = "asked"])), UNCHANGED run
      PROVE  CallsInv'
  <2> DEFINE op == [Top EXCEPT !.state = "asked"]
  <2>1. op \in Operations /\ op.kind = Top.kind /\ op.hooks = Top.hooks /\ op.state = "asked"
        /\ op.schema = Top.schema /\ op.transient = Top.transient
    BY <1>2 DEF Operations
  <2>2. "body" \in Purposes
    BY DEF Purposes
  <2>3. Start("LLM_CALL", "body", Append(Below, op))
    BY <1>4
  <2> HIDE DEF op
  <2> QED
    BY <1>1, <1>2, <1>4, <2>1, <2>2, <2>3, InnerStart
<1> QED
  BY <1>3, <1>4 DEF Body, BodyAnswered

\* The loop of a sub-agent (`subagent_runner.py`) preserves the invariant.
LEMMA WorkerSteps ==
  ASSUME CallsInv, SubStops \/ SubAsks \/ SubAnswered
  PROVE  CallsInv'
<1>1. stack # <<>> /\ Top.kind = "SUB_AGENT_RUN" /\ UNCHANGED <<pc, clientVars>>
  BY DEF SubStops, SubAsks, SubAnswered, SubTurn, Is
<1>2. /\ Len(stack) = 1 /\ Top = stack[1]
      /\ Top \in Operations /\ {"Trace", "Budget"} \subseteq Top.hooks
  BY <1>1, Alone
<1>3. /\ Top.steps \in 0..SubSteps /\ Top.tools \in 0..SubTools + 1 /\ Top.contexts \in 0..SubContexts
      /\ SubSteps \in Nat /\ SubTools \in Nat /\ SubContexts \in Nat
  BY <1>2, AgentCallsAssumption DEF Operations
<1>4. ASSUME NEW status \in SubStatus, Finish(status) PROVE CallsInv'
  BY <1>1, <1>4, QuietFinish DEF SubStatus
<1>5. CASE SubStops
  BY <1>4, <1>5 DEF SubStops, SubStatus
<1>6. CASE SubAsks
  <2> DEFINE op == [Top EXCEPT !.steps = @ + 1]
  <2>1. Top.steps + 1 \in 0..SubSteps /\ Top.tools <= SubTools
    BY <1>3, <1>6 DEF SubAsks, Exceeded
  <2>2. op \in Operations /\ op.kind = Top.kind /\ op.hooks = Top.hooks
        /\ op.schema = Top.schema /\ op.transient = Top.transient
        /\ op.steps = Top.steps + 1 /\ op.tools = Top.tools
    BY <1>2, <2>1 DEF Operations
  <2>3. Start("LLM_CALL", "worker", Append(Below, op)) /\ UNCHANGED run /\ "worker" \in Purposes
    BY <1>6 DEF SubAsks, Purposes
  <2> HIDE DEF op
  <2> QED
    BY <1>1, <1>2, <2>1, <2>2, <2>3, InnerStart
<1>7. CASE SubAnswered
  <2> DEFINE next(op) == Replace(op) /\ answer' = "none" /\ UNCHANGED <<run, open, tally>>
  <2>1. answer # "none"
    BY <1>7 DEF SubAnswered
  <2>2. Top.tools <= SubTools
    BY <1>1, <1>2, <2>1 DEF CallsInv, RoomInside
  <2>3. ASSUME NEW op \in Operations, next(op), op.kind = Top.kind, op.hooks = Top.hooks, op.steps = Top.steps
        PROVE  CallsInv'
    BY <1>1, <2>1, <2>3, OuterGoesOn
  <2>4. CASE ~Exceeded([Top EXCEPT !.contexts = @ + 1]) /\ next([Top EXCEPT !.contexts = @ + 1])
    <3> DEFINE op == [Top EXCEPT !.contexts = @ + 1]
    <3>1. op.contexts = Top.contexts + 1
      BY <1>2 DEF Operations
    <3>2. Top.contexts + 1 \in 0..SubContexts
      BY <1>3, <2>4, <3>1 DEF Exceeded
    <3>3. op \in Operations /\ op.kind = Top.kind /\ op.hooks = Top.hooks /\ op.steps = Top.steps
      BY <1>2, <3>2 DEF Operations
    <3> QED
      BY <2>3, <2>4, <3>3
  <2>5. CASE next([Top EXCEPT !.tools = @ + 1])
    <3> DEFINE op == [Top EXCEPT !.tools = @ + 1]
    <3>1. Top.tools + 1 \in 0..SubTools + 1
      BY <1>3, <2>2
    <3>2. op \in Operations /\ op.kind = Top.kind /\ op.hooks = Top.hooks /\ op.steps = Top.steps
      BY <1>2, <3>1 DEF Operations
    <3> QED
      BY <2>3, <2>5, <3>2
  <2>6. CASE next(Top)
    BY <1>2, <2>3, <2>6
  <2>7. CASE Finish("FAILED")
    BY <1>4, <2>7 DEF SubStatus
  <2> QED
    BY <1>4, <1>7, <2>4, <2>5, <2>6, <2>7 DEF SubAnswered
<1> QED
  BY <1>5, <1>6, <1>7

-----------------------------------------------------------------------------
(* The steps of an LLM call, and those of other runs on the same client *)

\* The adapter stores and changes the timeout of the shared client.
LEMMA SetTimeoutStep ==
  ASSUME CallsInv, SetTimeout
  PROVE  CallsInv'
<1> DEFINE op == [Top EXCEPT !.state = "set"]
<1>1. /\ Is("LLM_CALL") /\ stack # <<>> /\ Top.kind = "LLM_CALL" /\ Top.state = "ready"
      /\ Wanted(Top.purpose) # "own" /\ Replace(op)
      /\ saved' = [saved EXCEPT !["run"] = client] /\ client' = Wanted(Top.purpose)
      /\ clashed' = (clashed \/ Timed("other"))
      /\ UNCHANGED <<pc, answer, run, others, open, tally>>
  BY DEF SetTimeout, Is
<1>2. Top \in Operations /\ TypeOK /\ Clocked
  BY <1>1, StackSplit DEF CallsInv
<1>3. /\ op \in Operations /\ op.kind = Top.kind /\ op.hooks = Top.hooks /\ op.state = "set"
      /\ op.purpose = Top.purpose /\ op.schema = Top.schema /\ op.transient = Top.transient
  BY <1>2 DEF Operations
<1> HIDE DEF op
<1>4. Made(op) = Made(Top)
  BY <1>1, <1>3 DEF Made
<1>5. ClientTyped'
  BY <1>1, <1>2 DEF TypeOK, ClientTyped, Wanted, Timed
<1>6. Is("LLM_CALL")' /\ Top' = op
  BY <1>1, <1>3, Replaced DEF Is
<1>7. Clocked'
  <2>1. ~InFlight /\ ~Timed("run")
    BY <1>1, <1>2 DEF InFlight, Clocked
  <2>2. saved'["run"] = client /\ saved'["other"] = saved["other"] /\ client # "none"
    BY <1>1, <1>2 DEF TypeOK
  <2>3. InFlight' /\ Timed("run")' /\ Timed("other")' = Timed("other")
    BY <1>3, <1>6, <2>2 DEF InFlight, Timed
  <2> QED
    BY <1>1, <1>2, <1>3, <1>6, <2>1, <2>2, <2>3 DEF Clocked
<1>8. /\ tally \in [calls : Nat, counted : Nat] /\ Made(Top) \in Nat
  BY <1>2, Costs DEF TypeOK
<1> QED
  BY <1>1, <1>3, <1>4, <1>5, <1>7, <1>8, LlmStep

\* The adapter sends a request, one more of the calls that are counted.
LEMMA RequestStep ==
  ASSUME CallsInv, Request
  PROVE  CallsInv'
<1> DEFINE op == [Top EXCEPT !.state = "calling", !.used = client]
<1>1. /\ Is("LLM_CALL") /\ stack # <<>> /\ Top.kind = "LLM_CALL"
      /\ Top.state = IF Wanted(Top.purpose) = "own" THEN "ready" ELSE "set"
      /\ Replace(op)
      /\ tally' = [tally EXCEPT !.calls = tally.calls + 1]
      /\ clashed' = (clashed \/ Timed("other"))
      /\ UNCHANGED <<pc, answer, run, client, saved, others, open>>
  BY DEF Request, Is
<1>2. Top \in Operations /\ TypeOK /\ Clocked
  BY <1>1, StackSplit DEF CallsInv
<1>3. /\ op \in Operations /\ op.kind = Top.kind /\ op.hooks = Top.hooks
      /\ op.state = "calling" /\ op.used = client
      /\ op.purpose = Top.purpose /\ op.schema = Top.schema /\ op.transient = Top.transient
  BY <1>2 DEF Operations, TypeOK
<1> HIDE DEF op
<1>4. Made(op) = Made(Top) + 1 /\ Made(Top) \in Nat
  <2>1. PICK n, m : n = Top.schema /\ m = Top.transient
    OBVIOUS
  <2>2. n \in Nat /\ m \in Nat
    BY <1>2, <2>1, AgentCallsAssumption DEF Operations
  <2>3. Top.state # "calling"
    BY <1>1
  <2>4. Made(Top) = n + m + 0
    BY <2>1, <2>3 DEF Made
  <2>5. Made(op) = n + m + 1
    BY <1>3, <2>1 DEF Made
  <2> QED
    BY <2>2, <2>4, <2>5
<1>5. ClientTyped'
  BY <1>1, <1>2 DEF TypeOK, ClientTyped, Timed
<1>6. Is("LLM_CALL")' /\ Top' = op
  BY <1>1, <1>3, Replaced DEF Is
<1>7. Clocked'
  <2>1. InFlight' /\ (InFlight <=> Wanted(Top.purpose) # "own")
    BY <1>1, <1>3, <1>6 DEF InFlight
  <2>2. Timed("run")' = Timed("run") /\ Timed("other")' = Timed("other")
    BY <1>1 DEF Timed
  <2> QED
    BY <1>1, <1>2, <1>3, <1>6, <2>1, <2>2 DEF Clocked
<1>8. /\ tally' \in [calls : Nat, counted : Nat] /\ tally'.counted = tally.counted
      /\ tally'.calls = tally.calls + 1 /\ tally.calls \in Nat
  BY <1>1, <1>2 DEF TypeOK
<1>9. tally'.calls + Made(Top) = tally.calls + Made(op)
  BY <1>4, <1>8
<1> QED
  BY <1>1, <1>3, <1>5, <1>7, <1>8, <1>9, LlmStep

\* The provider answers, fails or is too late; the adapter restores the timeout.
LEMMA ReplyStep ==
  ASSUME CallsInv, Reply
  PROVE  CallsInv'
<1>1. PICK result \in {"ok", "schema", "transient", "fatal"} :
        /\ client' = Restored(result)
        /\ IF Retries(Top, result)
           THEN Replace(Again(Top, result)) /\ UNCHANGED <<answer, run, open, tally>>
           ELSE Finish(result)
  BY DEF Reply
<1>2. /\ Is("LLM_CALL") /\ stack # <<>> /\ Top.kind = "LLM_CALL" /\ Top.state = "calling"
      /\ saved' = [saved EXCEPT !["run"] = "none"] /\ UNCHANGED <<pc, others, clashed>>
  BY DEF Reply, Is
<1>3. Top \in Operations /\ TypeOK /\ Clocked
  BY <1>2, StackSplit DEF CallsInv
<1>4. ClientTyped'
  BY <1>1, <1>2, <1>3 DEF TypeOK, ClientTyped, Restored, Timed
<1>5. ASSUME ~InFlight' PROVE Clocked'
  <2>1. saved'["run"] = "none" /\ saved'["other"] = saved["other"]
    BY <1>2, <1>3 DEF TypeOK
  <2>2. InFlight
    BY <1>2 DEF InFlight
  <2>3. ~Timed("run")' /\ (Timed("other")' <=> Timed("other"))
    BY <2>1 DEF Timed
  <2>4. ~clashed' => client' = "own"
    BY <1>1, <1>2, <1>3, <2>2 DEF Clocked, Restored
  <2>5. ~(Is("LLM_CALL") /\ Top.state = "calling")'
    BY <1>5 DEF InFlight
  <2> QED
    BY <1>2, <1>3, <1>5, <2>1, <2>2, <2>3, <2>4, <2>5 DEF Clocked
<1>6. CASE Retries(Top, result)
  <2> DEFINE op == Again(Top, result)
  <2>1. /\ op \in Operations /\ op.kind = Top.kind /\ op.hooks = Top.hooks /\ op.state = "ready"
        /\ op.schema + op.transient = Top.schema + Top.transient + 1
    BY <1>3, <1>6, TriesAgain
  <2> HIDE DEF op
  <2>2. Replace(op) /\ UNCHANGED <<answer, run, open, tally>>
    BY <1>1, <1>6 DEF op
  <2>3. Top' = op
    BY <1>2, <2>1, <2>2, Replaced
  <2>4. Clocked'
    BY <1>5, <2>1, <2>3 DEF InFlight
  <2>5. Made(op) = Made(Top)
    <3>1. Top.schema \in 0..SchemaRetries /\ Top.transient \in 0..TransientRetries
      BY <1>3 DEF Operations
    <3>2. op.schema \in 0..SchemaRetries /\ op.transient \in 0..TransientRetries
      BY <2>1 DEF Operations
    <3>3. SchemaRetries \in Nat /\ TransientRetries \in Nat
      BY AgentCallsAssumption
    <3>4. Made(op) = op.schema + op.transient + 0 /\ Made(Top) = Top.schema + Top.transient + 1
      BY <1>2, <2>1 DEF Made
    <3> QED
      BY <2>1, <3>1, <3>2, <3>3, <3>4
  <2>6. tally' \in [calls : Nat, counted : Nat] /\ tally'.counted = tally.counted
        /\ tally'.calls = tally.calls
    BY <1>3, <2>2 DEF TypeOK
  <2> QED
    BY <1>2, <1>4, <2>1, <2>2, <2>4, <2>5, <2>6, LlmStep
<1>7. CASE ~Retries(Top, result)
  <2>1. Finish(result) /\ result \in Outcome /\ result # "blocked"
    BY <1>1, <1>7 DEF Outcome
  <2>2. CASE Len(stack) = 1
    <3>1. stack' = <<>>
      BY <1>2, <2>1, <2>2, OneOrTwo DEF Finish
    <3>2. Clocked'
      BY <1>5, <3>1 DEF InFlight, Is
    <3> QED
      BY <1>2, <1>4, <2>1, <2>2, <3>2, OuterFinish
  <2>3. CASE Len(stack) = 2
    <3>1. stack' = Below /\ Len(Below) = 1 /\ Below[1] = stack[1] /\ stack[1].kind # "LLM_CALL"
      <4>1. Len(Below) = Len(stack) - 1 /\ \A i \in 1..Len(Below) : Below[i] = stack[i]
        BY <1>2, OneOrTwo
      <4>2. stack[1].kind # "LLM_CALL"
        BY <2>3 DEF CallsInv, Nested
      <4> QED
        BY <2>1, <2>3, <4>1, <4>2 DEF Finish
    <3>2. ~Is("LLM_CALL")'
      BY <3>1 DEF Is, Top
    <3>3. Clocked'
      BY <1>5, <3>2 DEF InFlight
    <3> QED
      BY <1>2, <1>4, <2>1, <2>3, <3>3, InnerFinish
  <2> QED
    BY <1>2, <2>2, <2>3, OneOrTwo
<1> QED
  BY <1>6, <1>7

\* Other runs change and restore the timeout of the same client.
LEMMA OtherSteps ==
  ASSUME CallsInv, OtherSets \/ OtherRestores
  PROVE  CallsInv'
<1>1. UNCHANGED <<pc, stack, answer, run, open, tally>>
  BY DEF OtherSets, OtherRestores
<1>2. TypeOK /\ Clocked /\ OtherCalls \in Nat
  BY AgentCallsAssumption DEF CallsInv
<1>3. /\ Nested' /\ Hooked' /\ Room' /\ RoomInside' /\ Tallied' /\ EveryEndIsTraced' /\ RefusedOnlyWhenLate'
      /\ (InFlight' <=> InFlight) /\ (Is("LLM_CALL")' <=> Is("LLM_CALL")) /\ Top' = Top
  <2>1. /\ Top' = Top /\ (Is("LLM_CALL")' <=> Is("LLM_CALL")) /\ (InFlight' <=> InFlight)
        /\ Rounds' = Rounds /\ Current' = Current
    BY <1>1 DEF Is, Top, Current, Rounds, InFlight
  <2>2. Nested' /\ Hooked'
    BY <1>1, <2>1 DEF CallsInv, Nested, Hooked, Is, Top
  <2>3. Room' /\ RoomInside' /\ RefusedOnlyWhenLate'
    BY <1>1, <2>1 DEF CallsInv, Room, RoomInside, RefusedOnlyWhenLate, Is, Top
  <2>4. Tallied' /\ EveryEndIsTraced'
    BY <1>1, <2>1 DEF CallsInv, Tallied, EveryEndIsTraced
  <2> QED
    BY <2>1, <2>2, <2>3, <2>4
<1>4. CASE OtherSets
  <2>1. ClientTyped'
    BY <1>2, <1>4 DEF OtherSets, TypeOK, ClientTyped, Is, Timed
  <2>2. /\ saved'["other"] = client /\ saved'["run"] = saved["run"] /\ client # "none"
        /\ clashed' = (clashed \/ InFlight)
    BY <1>2, <1>4 DEF OtherSets, TypeOK, InFlight
  <2>3. (Timed("run")' <=> Timed("run")) /\ Timed("other")' /\ ~Timed("other")
    BY <1>4, <2>2 DEF Timed, OtherSets
  <2>4. Clocked'
    <3>1. InFlight \/ ~(Is("LLM_CALL") /\ Top.state = "calling")
      BY DEF InFlight
    <3> QED
      BY <1>2, <1>3, <2>2, <2>3, <3>1 DEF Clocked
  <2> QED
    BY <1>1, <1>2, <1>3, <2>1, <2>4 DEF CallsInv, TypeOK, ClientTyped
<1>5. CASE OtherRestores
  <2>1. ClientTyped'
    BY <1>2, <1>5 DEF OtherRestores, TypeOK, ClientTyped, Timed
  <2>2. /\ saved'["other"] = "none" /\ saved'["run"] = saved["run"] /\ client' = saved["other"]
        /\ clashed' = clashed /\ Timed("other")
    BY <1>2, <1>5 DEF OtherRestores, TypeOK
  <2>3. (Timed("run")' <=> Timed("run")) /\ ~Timed("other")'
    BY <2>2 DEF Timed
  <2>4. Clocked'
    <3>1. InFlight \/ ~(Is("LLM_CALL") /\ Top.state = "calling")
      BY DEF InFlight
    <3> QED
      BY <1>2, <1>3, <2>2, <2>3, <3>1 DEF Clocked
  <2> QED
    BY <1>1, <1>2, <1>3, <2>1, <2>4 DEF CallsInv, TypeOK, ClientTyped
<1> QED
  BY <1>4, <1>5

-----------------------------------------------------------------------------
(* The invariant, and what follows from it *)

\* A run that begins has no operation open and nothing counted.
LEMMA CallsInit ==
  ASSUME Init
  PROVE  CallsInv
<1>1. Len(<<>>) = 0 /\ <<>> \in Seq(Operations)
  OBVIOUS
<1>2. {OtherCalls, MaxSteps, MaxTools, MaxSubs, MaxCompactions} \subseteq Nat
  BY AgentCallsAssumption
<1>3. TypeOK
  <2>1. saved \in [{"run", "other"} -> {"none", "own", "planning", "summary"}]
    BY DEF Init
  <2>2. run \in [steps : 0..MaxSteps, tools : 0..MaxTools, subs : 0..MaxSubs,
                compactions : 0..MaxCompactions, summaries : 0..MaxCompactions,
                ready : BOOLEAN, late : BOOLEAN]
    BY <1>2 DEF Init
  <2>3. tally \in [calls : Nat, counted : Nat] /\ others \in 0..OtherCalls
    BY <1>2 DEF Init
  <2>4. stack \in Seq(Operations) /\ Len(stack) <= 2
    BY <1>1 DEF Init
  <2>5. /\ pc = "begin" /\ answer = "none" /\ client = "own" /\ clashed = FALSE
    BY DEF Init
  <2> QED
    BY <2>1, <2>2, <2>3, <2>4, <2>5 DEF TypeOK
<1>4. Nested /\ Hooked /\ Room /\ RoomInside /\ RefusedOnlyWhenLate
  BY <1>1 DEF Init, Nested, Hooked, Room, RoomInside, RefusedOnlyWhenLate, Is
<1>5. Tallied
  <2>1. Current = 0 /\ PerCall * 0 = 0
    BY Costs DEF Init, Current, Is
  <2> QED
    BY <2>1 DEF Init, Tallied
<1>6. Clocked
  BY DEF Init, Clocked, InFlight, Is, Timed
<1>7. EveryEndIsTraced
  BY DEF Init, EveryEndIsTraced
<1> QED
  BY <1>3, <1>4, <1>5, <1>6, <1>7 DEF CallsInv

\* Every step preserves the invariant.
LEMMA CallsStep ==
  ASSUME CallsInv, [Next]_vars
  PROVE  CallsInv'
<1>1. CASE TrimOnly \/ Summarize \/ Compacted
  BY <1>1, CompactionSteps
<1>2. CASE AskSummary \/ SummaryAnswered
  BY <1>2, SummarySteps
<1>3. CASE Loop \/ Ask \/ PlanTaken \/ PlanRejected \/ Decided
  BY <1>3, PlanningSteps
<1>4. CASE Act \/ Acted \/ Regenerated \/ SecondGates \/ NoReflection \/ Reflected
  BY <1>4, ActingSteps
<1>5. CASE Body \/ BodyAnswered
  BY <1>5, BodySteps
<1>6. CASE SubStops \/ SubAsks \/ SubAnswered
  BY <1>6, WorkerSteps
<1>7. CASE SetTimeout
  BY <1>7, SetTimeoutStep
<1>8. CASE Request
  BY <1>8, RequestStep
<1>9. CASE Reply
  BY <1>9, ReplyStep
<1>10. CASE OtherSets \/ OtherRestores
  BY <1>10, OtherSteps
<1>11. CASE UNCHANGED vars
  <2>1. UNCHANGED <<pc, stack, answer, run, client, saved, others, open, tally, clashed>>
    BY <1>11 DEF vars
  <2>2. TypeOK' /\ Nested' /\ Hooked' /\ Room' /\ RoomInside'
    BY <2>1 DEF CallsInv, TypeOK, Nested, Hooked, Room, RoomInside, Is, Top
  <2>3. Tallied' /\ EveryEndIsTraced' /\ RefusedOnlyWhenLate'
    BY <2>1 DEF CallsInv, Tallied, EveryEndIsTraced, RefusedOnlyWhenLate, Is, Top, Current, Rounds
  <2>4. Clocked'
    BY <2>1 DEF CallsInv, Clocked, Is, Top, InFlight, Timed
  <2> QED
    BY <2>2, <2>3, <2>4 DEF CallsInv
<1> QED
  BY <1>1, <1>2, <1>3, <1>4, <1>5, <1>6, <1>7, <1>8, <1>9, <1>10, <1>11 DEF Next, RunNext

\* The invariant holds of every run, whatever the limits.
THEOREM CallsInvariant == Spec => []CallsInv
<1>1. Init => CallsInv
  BY CallsInit
<1>2. CallsInv /\ [Next]_vars => CallsInv'
  BY CallsStep
<1> QED
  BY <1>1, <1>2, PTL DEF Spec

\* The variables keep their types; in particular no counter of a run, of a retry
\* or of a sub-agent passes its limit, and operations nest at most two deep.
THEOREM CallsTypeCorrect == Spec => []TypeOK
<1>1. CallsInv => TypeOK
  BY DEF CallsInv
<1> QED
  BY <1>1, CallsInvariant, PTL

\* hooks/hook_manager.py: every operation whose start is in the trace has its end
\* there, whether it succeeded, failed, was retried or had a hook refuse it.
THEOREM EndsAreTraced == Spec => []EveryEndIsTraced
<1>1. CallsInv => EveryEndIsTraced
  BY DEF CallsInv
<1> QED
  BY <1>1, CallsInvariant, PTL

\* hooks/builtin_hooks.py: the budget and the safety hook never refuse anything
\* but an LLM call after the clock has stopped the run, and then they refuse all.
THEOREM RefusalsAreForTheClock == Spec => []RefusedOnlyWhenLate
<1>1. CallsInv => RefusedOnlyWhenLate
  BY DEF CallsInv
<1> QED
  BY <1>1, CallsInvariant, PTL

\* llm_adapter.py: without calls of two runs that overlap, a request has the
\* timeout of its purpose, and the client's own is back when no call is under way.
THEOREM TimeoutsAreKept == Spec => []TimeoutsKept
<1>1. CallsInv => TimeoutsKept
  BY DEF CallsInv, Clocked, TimeoutsKept
<1> QED
  BY <1>1, CallsInvariant, PTL

\* The rounds of the outermost operation, with the one under way if there is one.
LEMMA RoundsBounded ==
  ASSUME CallsInv, stack # <<>>
  PROVE  tally.calls <= MostCalls(stack[1].kind)
<1> DEFINE op == stack[1]
           under == IF Is("LLM_CALL") THEN 1 ELSE 0
<1>1. /\ \/ Len(stack) = 1 /\ Top = op
         \/ Len(stack) = 2 /\ Top.kind = "LLM_CALL" /\ op.kind # "LLM_CALL" /\ answer = "none"
      /\ op \in Operations /\ Top \in Operations
  BY OneOrTwo, StackSplit DEF CallsInv
<1>2. /\ op.schema \in 0..SchemaRetries /\ op.transient \in 0..TransientRetries
      /\ op.steps \in 0..SubSteps /\ op.kind \in Kinds
  BY <1>1 DEF Operations, Kinds
<1>3. /\ SchemaRetries \in Nat /\ TransientRetries \in Nat /\ SubSteps \in Nat
      /\ tally.calls \in Nat
  BY AgentCallsAssumption DEF CallsInv, TypeOK
<1>4. Is("LLM_CALL") <=> op.kind = "LLM_CALL" \/ Len(stack) = 2
  BY <1>1 DEF Is
<1> HIDE DEF op
<1>5. ASSUME NEW most \in Nat, Rounds \in Nat, Rounds + under <= most
      PROVE  tally.calls <= PerCall * most
  <2>1. /\ PerCall \in Nat /\ PerCall * Rounds \in Nat /\ PerCall * (Rounds + 1) = PerCall * Rounds + PerCall
        /\ PerCall * most \in Nat
    BY <1>5, Costs
  <2>2. PerCall * (Rounds + under) <= PerCall * most
    BY <1>5, Costs
  <2>3. Current \in Nat /\ (Is("LLM_CALL") => Current <= PerCall) /\ (~Is("LLM_CALL") => Current = 0)
    BY <1>1, Costs DEF Current
  <2>4. tally.calls <= PerCall * Rounds + Current
    BY DEF CallsInv, Tallied
  <2>5. CASE Is("LLM_CALL")
    BY <1>3, <2>1, <2>2, <2>3, <2>4, <2>5
  <2>6. CASE ~Is("LLM_CALL")
    BY <1>3, <1>5, <2>1, <2>2, <2>3, <2>4, <2>6
  <2> QED
    BY <2>5, <2>6
<1>6. CASE op.kind = "LLM_CALL"
  <2>1. Rounds = 0 /\ Rounds + under <= 1
    BY <1>6 DEF Rounds, op
  <2>2. MostCalls(op.kind) = PerCall * 1
    BY <1>6, Costs DEF MostCalls
  <2> QED
    BY <1>5, <2>1, <2>2 DEF op
<1>7. CASE op.kind \in {"TOOL_CALL", "GATE_RUN"}
  <2>1. Rounds = IF Len(stack) = 1 /\ op.state = "asked" THEN 1 ELSE 0
    BY <1>7 DEF Rounds, op
  <2>2. under = IF Len(stack) = 2 THEN 1 ELSE 0
    BY <1>4, <1>7
  <2>3. Rounds \in Nat /\ Rounds + under <= 1
    BY <1>1, <2>1, <2>2
  <2>4. MostCalls(op.kind) = PerCall * 1
    BY <1>7, Costs DEF MostCalls
  <2> QED
    BY <1>5, <2>3, <2>4 DEF op
<1>8. CASE op.kind = "CONTEXT_COMPACTION"
  <2>1. Rounds = op.schema + op.transient + IF Len(stack) = 1 /\ answer # "none" THEN 1 ELSE 0
    BY <1>8 DEF Rounds, op
  <2>2. under = IF Len(stack) = 2 THEN 1 ELSE 0
    BY <1>4, <1>8
  <2>3. Rounds \in Nat /\ Rounds + under <= PerCall
    <3>1. op.schema \in Nat /\ op.transient \in Nat /\ op.schema + op.transient + 1 <= PerCall
      BY <1>2, <1>3 DEF PerCall
    <3>2. PerCall \in Nat
      BY Costs
    <3> HIDE DEF under
    <3>3. CASE Len(stack) = 1
      BY <2>1, <2>2, <3>1, <3>2, <3>3
    <3>4. CASE Len(stack) = 2
      BY <2>1, <2>2, <3>1, <3>2, <3>4
    <3> QED
      BY <1>1, <3>3, <3>4
  <2>4. MostCalls(op.kind) = PerCall * PerCall /\ PerCall \in Nat
    BY <1>8, Costs DEF MostCalls
  <2> QED
    BY <1>5, <2>3, <2>4 DEF op
<1>9. CASE op.kind = "SUB_AGENT_RUN"
  <2>1. Len(stack) = 2 => op.steps > 0
    BY <1>9 DEF CallsInv, RoomInside, op
  <2>2. Rounds = IF Len(stack) = 2 THEN op.steps - 1 ELSE op.steps
    BY <1>9 DEF Rounds, op
  <2>3. Rounds \in Nat /\ Rounds + under <= SubSteps
    BY <1>1, <1>2, <1>3, <1>4, <1>9, <2>1, <2>2
  <2>4. MostCalls(op.kind) = SubSteps * PerCall
    BY <1>9 DEF MostCalls
  <2>5. SubSteps * PerCall = PerCall * SubSteps
    <3>1. \A m, n \in Nat : m * n = n * m
      OBVIOUS
    <3> QED
      BY <1>3, <3>1, Costs
  <2> QED
    BY <1>3, <1>5, <2>3, <2>4, <2>5 DEF op
<1> QED
  BY <1>2, <1>6, <1>7, <1>8, <1>9 DEF Kinds

\* hooks/retry_hook.py: what one outermost operation asks of the provider is
\* bounded by the retry limits, their square for a compaction, and the steps of a
\* sub-agent, however often the provider fails.
THEOREM CallsAreBounded == Spec => []CallsBounded
<1>1. CallsInv => CallsBounded
  BY RoundsBounded DEF CallsBounded
<1> QED
  BY <1>1, CallsInvariant, PTL

\* hooks/builtin_hooks.py: llm_call_count keeps up with the provider calls, up to
\* the retries of a call, and counts those that fail or that time out too.
THEOREM CallsReachTheCount == Spec => []CallsAreCounted
<1>1. ASSUME CallsInv PROVE CallsAreCounted
  <2>1. tally.calls <= PerCall * tally.counted + Current /\ tally.calls \in Nat /\ tally.counted \in Nat
    BY <1>1 DEF CallsInv, Tallied, TypeOK
  <2>2. /\ PerCall \in Nat /\ PerCall * tally.counted \in Nat
        /\ PerCall * (tally.counted + 1) = PerCall * tally.counted + PerCall
    BY <2>1, Costs
  <2>3. CASE Is("LLM_CALL")
    <3>1. stack # <<>>
      BY <2>3 DEF Is
    <3>2. Current \in Nat /\ Current <= PerCall
      BY <1>1, <2>3, <3>1, StackSplit, Costs DEF Current, CallsInv
    <3>3. tally.calls <= PerCall * (tally.counted + 1)
      BY <2>1, <2>2, <3>2
    <3> QED
      BY <2>3, <3>3 DEF CallsAreCounted
  <2>4. CASE ~Is("LLM_CALL")
    <3>1. tally.counted + 0 = tally.counted /\ Current = 0
      BY <2>1, <2>4 DEF Current
    <3>2. tally.calls <= PerCall * (tally.counted + 0)
      BY <2>1, <2>2, <3>1
    <3> QED
      BY <2>4, <3>2 DEF CallsAreCounted
  <2> QED
    BY <2>3, <2>4
<1> QED
  BY <1>1, CallsInvariant, PTL
=============================================================================
