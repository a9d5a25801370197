------------------------------ MODULE CandidateGates ------------------------------
(***************************************************************************)
(* The three gates a candidate passes before it may be committed, as       *)
(* functions of the evidence they look at: agent/gates (static validation, *)
(* semantic reflection, output contract, risk aggregation, GateRunner),    *)
(* with the risk rules of repair/validator.py and repair/evaluator.py.     *)
(* The hash of a candidate is the candidate itself, and what the checks of *)
(* the SQL text find is a record of facts: the text is never modelled.     *)
(***************************************************************************)
EXTENDS Naturals

CONSTANTS
  Sql,          \* SQL texts
  NoSql,        \* no SQL
  AllowMedium   \* allow_medium_risk

ASSUME GateAssumption == NoSql \notin Sql /\ AllowMedium \in BOOLEAN

RiskOrder == [LOW |-> 0, MEDIUM |-> 1, HIGH |-> 2, BLOCKED |-> 3]

RiskLevel == DOMAIN RiskOrder

\* What validation finds in a candidate: whether plan and diff could be built,
\* whether the red lines or the plan's boundary are crossed, and the highest
\* risk of the plan's actions.
Finding == [built : BOOLEAN, issues : BOOLEAN, action : {"LOW", "MEDIUM", "HIGH"}]

\* What the reflection answers.  RAISED stands for an exception other than
\* LLMClientError, which the evaluator turns into BLOCK itself.  sound: the
\* plan is followed, the change minimal and no constraint violated.
Verdict == [decision : {"RETURN_SQL", "REGENERATE", "BLOCK", "MANUAL_REQUIRED", "RAISED"},
            risk : RiskLevel, sound : BOOLEAN, instructed : BOOLEAN]

GateResult == [gate : {"Static", "Semantic", "Output", "GateRunner"},
               decision : {"PASS", "PASS_WITH_WARNING", "REJECT", "HUMAN_REQUIRED"},
               risk : RiskLevel, sql : Sql \cup {NoSql}, regenerate : BOOLEAN]

Result(gate, decision, risk, s) ==
  [gate |-> gate, decision |-> decision, risk |-> risk, sql |-> s, regenerate |-> FALSE]

Rejecting(r) == r.decision \in {"REJECT", "HUMAN_REQUIRED"}

-----------------------------------------------------------------------------
(* Static validation *)

ValidationRisk(f) == IF f.issues THEN "BLOCKED" ELSE f.action

AllowReturn(f) == ValidationRisk(f) = "LOW" \/ (ValidationRisk(f) = "MEDIUM" /\ AllowMedium)

StaticDecision(f) ==
  CASE ValidationRisk(f) = "BLOCKED" -> "REJECT"
    [] ValidationRisk(f) = "HIGH"    -> "HUMAN_REQUIRED"
    [] ValidationRisk(f) = "MEDIUM"  -> IF AllowMedium /\ AllowReturn(f)
                                        THEN "PASS_WITH_WARNING" ELSE "HUMAN_REQUIRED"
    [] ValidationRisk(f) = "LOW"     -> IF AllowReturn(f) /\ ~f.issues THEN "PASS" ELSE "REJECT"

StaticGate(f, s) ==
  IF f.built THEN Result("Static", StaticDecision(f), ValidationRisk(f), s)
             ELSE Result("Static", "HUMAN_REQUIRED", "HIGH", s)

-----------------------------------------------------------------------------
(* Semantic reflection *)

\* _enforce_result_consistency: RETURN_SQL that contradicts itself and
\* REGENERATE without an instruction are blocked.
Consistent(v) ==
  IF \/ v.decision = "RETURN_SQL" /\ ~(v.sound /\ v.risk \in {"LOW", "MEDIUM"})
     \/ v.decision = "REGENERATE" /\ ~v.instructed
  THEN "BLOCK" ELSE v.decision

\* pre_reflect, without the answer for a validation that does not allow SQL to
\* be returned: the static gate has rejected such a candidate.
SemanticDecision(v) ==
  LET d == Consistent(v)
  IN  CASE d = "RETURN_SQL" /\ v.risk = "LOW"    -> "PASS"
        [] d = "RETURN_SQL" /\ v.risk = "MEDIUM" -> IF AllowMedium THEN "PASS_WITH_WARNING"
                                                    ELSE "HUMAN_REQUIRED"
        [] d = "REGENERATE"                      -> "REJECT"
        [] d = "MANUAL_REQUIRED"                 -> "HUMAN_REQUIRED"
        [] d = "BLOCK"                           -> IF v.risk \in {"HIGH", "MEDIUM"}
                                                    THEN "HUMAN_REQUIRED" ELSE "REJECT"

SemanticGate(v, s) ==
  IF v.decision = "RAISED" THEN Result("Semantic", "HUMAN_REQUIRED", "HIGH", s)
  ELSE [Result("Semantic", SemanticDecision(v), v.risk, s)
          EXCEPT !.regenerate = (Consistent(v) = "REGENERATE")]

-----------------------------------------------------------------------------
(* Output contract, aggregation, and the order of the gates *)

OutputGate(s, prior) ==
  LET blocker(r) == \/ Rejecting(r)
                    \/ r.risk \in {"HIGH", "BLOCKED"}
                    \/ r.risk = "MEDIUM" /\ ~AllowMedium
  IN  IF (\E r \in prior : blocker(r) \/ r.sql # s) \/ s = NoSql
      THEN Result("Output", "HUMAN_REQUIRED", "HIGH", s)
      ELSE Result("Output", "PASS", "LOW", s)

HighestRisk(results) ==
  CHOOSE x \in {r.risk : r \in results} : \A r \in results : RiskOrder[r.risk] <= RiskOrder[x]

AggregateDecision(results) ==
  LET risk == HighestRisk(results)
      decisions == {r.decision : r \in results}
  IN  CASE risk = "BLOCKED" \/ "REJECT" \in decisions -> "REJECT"
        [] ~(risk = "BLOCKED" \/ "REJECT" \in decisions)
           /\ (risk = "HIGH" \/ "HUMAN_REQUIRED" \in decisions) -> "HUMAN_REQUIRED"
        [] risk = "MEDIUM" /\ decisions \subseteq {"PASS", "PASS_WITH_WARNING"} ->
             IF AllowMedium THEN "PASS_WITH_WARNING" ELSE "HUMAN_REQUIRED"
        [] risk = "LOW" /\ decisions \subseteq {"PASS", "PASS_WITH_WARNING"} ->
             IF "PASS_WITH_WARNING" \in decisions THEN "PASS_WITH_WARNING" ELSE "PASS"

Aggregate(results, s) ==
  Result("GateRunner", AggregateDecision(results), HighestRisk(results), s)

\* GateRunner.run_request: the first gate that rejects decides.
RunRequest(f, v, s) ==
  LET static   == StaticGate(f, s)
      semantic == SemanticGate(v, s)
      output   == OutputGate(s, {static, semantic})
  IN  IF Rejecting(static) THEN static
      ELSE IF Rejecting(semantic) THEN semantic
      ELSE Aggregate({static, semantic, output}, s)

\* GateRunner.run turns this result into CANDIDATE_READY.
Accepted(r) == r.decision = "PASS" \/ (r.decision = "PASS_WITH_WARNING" /\ AllowMedium)

-----------------------------------------------------------------------------
(* What the gates promise together *)

\* A candidate may be delivered: everything could be checked, nothing was
\* found, the reflection returned it without contradicting itself, and no risk
\* is above what the configuration allows.
Deliverable(f, v) ==
  LET tolerated == IF AllowMedium THEN {"LOW", "MEDIUM"} ELSE {"LOW"}
  IN  /\ f.built /\ ~f.issues /\ f.action \in tolerated
      /\ v.decision = "RETURN_SQL" /\ v.sound /\ v.risk \in tolerated
=============================================================================
