------------------------------- MODULE RepairText -------------------------------
(***************************************************************************)
(* From the diagnosis of a failed SQL to the candidate that may be         *)
(* delivered: rule_classifier, llm_diagnoser, diagnosis_fusion,            *)
(* repair_planner, sql_generator, the diff and the validator, and the      *)
(* gates of CandidateGates on the evidence these compute.                  *)
(*                                                                         *)
(* One column, Entity, is what the evidence names.  A text is a statement  *)
(* kind, one selected word and one WHERE word, which is enough to ask      *)
(* where the entity occurs and what else a candidate changed.  Keywords,   *)
(* fingerprints, confidence of the plan and memory's corroboration decide  *)
(* nothing here and are left out.                                          *)
(***************************************************************************)
EXTENDS Integers, Sequences, FiniteSets

CONSTANTS
  Entity,        \* the column the error names
  Longer,        \* names that contain the entity's text inside a longer word
  Quoting,       \* string literals whose text is the entity
  Column,        \* the other columns
  Score,         \* similarity of each column to the entity, in percent
  NoWord,        \* no WHERE clause
  NoText,        \* no candidate
  Failed,        \* the failed SQL texts considered
  Written,       \* the texts a model may answer with
  Snapshot,      \* the column lists of the metadata considered
  AllowMedium    \* allow_medium_risk

Name == {Entity} \cup Longer \cup Quoting \cup Column

\* edit: what has been put in place of the entity's text inside the word.
Word == [name : Name, upper : BOOLEAN, edit : {"none", "cast"} \cup Column \cup {Entity}]

\* odd: the text uses syntax that sqlglot cannot parse.
Verb == {"select", "insert", "insert_elsewhere", "update", "drop"}
Text == [verb : Verb, item : Word, where : Word \cup {NoWord}, odd : BOOLEAN]

ASSUME TextAssumption ==
  /\ NoWord \notin Word /\ NoText \notin Text
  /\ Failed \subseteq Text /\ Written \subseteq Text
  /\ Entity \notin Longer \cup Quoting \cup Column
  /\ Column \cap (Longer \cup Quoting) = {} /\ Longer \cap Quoting = {}
  /\ Score \in [Column \cup {Entity} -> 0..100] /\ Score[Entity] = 100
  /\ Snapshot \subseteq Seq([column : Column \cup {Entity}, typed : BOOLEAN])
  /\ AllowMedium \in BOOLEAN

Gates == INSTANCE CandidateGates WITH Sql <- Text, NoSql <- NoText

VARIABLES
  phase,       \* the next step of the pipeline
  llm,         \* is a model configured for generator and evaluator?
  failed,      \* the failed SQL
  known,       \* the columns of its tables, in the order of the metadata
  diagnosis,   \* the fused diagnosis
  plan,        \* the RepairPlan
  candidate,   \* the candidate in hand, or what was delivered
  outcome      \* how the pipeline ended

vars == <<phase, llm, failed, known, diagnosis, plan, candidate, outcome>>

-----------------------------------------------------------------------------
(* Diagnosis *)

ErrorType == {"COLUMN_NOT_FOUND", "TYPE_MISMATCH", "PERMISSION_ERROR", "UNKNOWN"}

NonRepairable == {"PERMISSION_ERROR", "UNKNOWN"}

\* How the evidence spells the entity.
Spelling == {"lower", "upper", "absent"}

Diagnosis == [type : ErrorType, repairable : BOOLEAN, entity : Spelling]

Opinion == [type : ErrorType, confidence : {0, 45, 70, 90}]

\* RuleClassifier.classify: the first category the log matched, or the phrases
\* of the evidence when there is none or it is UNKNOWN.
Classified(category, phrase) ==
  CASE category \in ErrorType \ {"UNKNOWN"} -> [type |-> category, confidence |-> 90]
    [] category \notin ErrorType \ {"UNKNOWN"} /\ phrase \in ErrorType \ {"UNKNOWN"} ->
         [type |-> phrase, confidence |-> 70]
    [] OTHER -> [type |-> "UNKNOWN",
                 confidence |-> CASE category = "UNKNOWN"    -> 90
                                  [] category # "UNKNOWN" /\ phrase = "UNKNOWN" -> 45
                                  [] OTHER                   -> 0]

\* The rules' own answer, which _diagnose also puts in for a missing LLM.
ByRule(rule, entity) ==
  [type |-> rule.type, repairable |-> rule.type \notin NonRepairable, entity |-> entity]

\* DiagnosisFusion.fuse: an LLM that agrees, or is at least as sure, decides
\* alone whether the error is repairable.
Fused(rule, opinion, entity, yes) ==
  IF opinion.type = rule.type \/ opinion.confidence >= rule.confidence
  THEN [type |-> opinion.type, repairable |-> yes, entity |-> entity]
  ELSE ByRule(rule, entity)

-----------------------------------------------------------------------------
(* Planning *)

Action == [type : {"REPLACE_COLUMN", "ADD_CAST"}, spelled : {"lower", "upper"},
           new : Column \cup {Entity}]

NoAction == [type |-> "NONE"]

\* find_column_candidates: the most similar column, the first of equals.
Best(columns) ==
  CHOOSE i \in DOMAIN columns :
    \A j \in DOMAIN columns :
      \/ Score[columns[j].column] < Score[columns[i].column]
      \/ Score[columns[j].column] = Score[columns[i].column] /\ i <= j

\* Mutant of ClearlyBest: a tie is decided by the order of the metadata.
BestOnly(columns) == columns # <<>> /\ Score[columns[Best(columns)].column] >= 40

\* The best column is similar enough, and no other is nearly as similar.
ClearlyBest(columns) ==
  /\ columns # <<>>
  /\ Score[columns[Best(columns)].column] >= 40
  /\ \A j \in (DOMAIN columns) \ {Best(columns)} :
        Score[columns[Best(columns)].column] - Score[columns[j].column] >= 5

\* The first column of that name has a type.
TypeKnown(columns) ==
  \E i \in DOMAIN columns :
    /\ columns[i].column = Entity /\ columns[i].typed
    /\ \A j \in 1..(i - 1) : columns[j].column # Entity

\* RepairPlanner.plan: one action, or none (_manual).
Planned(d, columns) ==
  IF ~d.repairable \/ d.entity = "absent" THEN NoAction
  ELSE IF d.type = "TYPE_MISMATCH" /\ TypeKnown(columns)
       THEN [type |-> "ADD_CAST", spelled |-> d.entity, new |-> Entity]
  ELSE IF d.type = "COLUMN_NOT_FOUND" /\ ClearlyBest(columns)
       THEN [type |-> "REPLACE_COLUMN", spelled |-> d.entity, new |-> columns[Best(columns)].column]
  ELSE NoAction

-----------------------------------------------------------------------------
(* Applying a plan to a text *)

\* _replace_action: an identifier action matches whole words in any case, in
\* literals too; any other action matches the plain text, in its case, also
\* inside a longer identifier.
Touches(a, w) ==
  /\ w # NoWord
  /\ IF a.type = "REPLACE_COLUMN"
     THEN w.name \in {Entity} \cup Quoting
     ELSE w.name \in {Entity} \cup Quoting \cup Longer /\ w.upper = (a.spelled = "upper")

Replaced(a, w) ==
  IF ~Touches(a, w) THEN w
  ELSE IF a.type = "ADD_CAST" THEN [w EXCEPT !.edit = "cast"]
  ELSE IF w.name = Entity THEN [name |-> a.new, upper |-> FALSE, edit |-> "none"]
  ELSE [w EXCEPT !.edit = a.new]

\* Mutant of Unique: once or more.
Somewhere(a, t) == Touches(a, t.item) \/ Touches(a, t.where)

Unique(a, t) == Touches(a, t.item) # Touches(a, t.where)

\* apply_repair_plan: NoText unless the target occurs exactly once.
Applied(a, t) ==
  IF a = NoAction \/ ~Unique(a, t) THEN NoText
  ELSE [t EXCEPT !.item = Replaced(a, @), !.where = Replaced(a, @)]

-----------------------------------------------------------------------------
(* Comparing texts *)

\* A cast put inside a longer word is an alias in the SELECT list, and no
\* expression at all in WHERE.
Parses(t) ==
  /\ t # NoText /\ ~t.odd
  /\ t.where # NoWord => ~(t.where.name \in Longer /\ t.where.edit = "cast")

Lowered(w) == IF w = NoWord THEN w ELSE [w EXCEPT !.upper = FALSE]

\* _canonical_sql lowers identifiers, _normalized_text everything.
Canonical(w) == IF w # NoWord /\ w.name \in Quoting THEN w ELSE Lowered(w)

Rewritten(t, F(_)) == [t EXCEPT !.item = F(@), !.where = F(@)]

\* sql_equivalent
Equivalent(s, t) ==
  IF Parses(s) /\ Parses(t) THEN Rewritten(s, Canonical) = Rewritten(t, Canonical)
  ELSE Rewritten(s, Lowered) = Rewritten(t, Lowered)

\* candidate_matches_plan
MatchesPlan(s, t, a) == Applied(a, s) # NoText /\ Equivalent(Applied(a, s), t)

-----------------------------------------------------------------------------
(* Diff, validation and reflection *)

\* Mutant of Protected: what the plan changes counts as protected, too.
ProtectedOriginal(s, a) == s

\* The text whose WHERE and target a candidate must keep.
Protected(s, a) == IF Applied(a, s) = NoText THEN s ELSE Applied(a, s)

Target(t) == IF t.verb \in {"insert", "insert_elsewhere"} THEN t.verb ELSE "none"

\* build_diff.  If the protected text cannot be parsed, the tree compared is the
\* failed one's.  The WHERE word stands for the terms of WHERE, the conditions
\* of joins and the expressions of GROUP BY, which are compared alike, and the
\* target for table and static partition.
Diff(s, t, a) ==
  LET kept == Protected(s, a)
      tree == IF Parses(kept) THEN kept ELSE s
      compared == Parses(tree) /\ Parses(t)
  IN  [count   |-> IF MatchesPlan(s, t, a) THEN 1 ELSE 0,
       where   |-> IF compared THEN tree.where # NoWord /\ Canonical(tree.where) # Canonical(t.where)
                   ELSE kept.where # NoWord /\ t.where = NoWord,
       target  |-> compared /\ Target(tree) # Target(t),
       parsed  |-> compared /\ Parses(s)]

Writes(t) == t.verb \in {"insert", "insert_elsewhere", "update"}
Inserts(t) == t.verb \in {"insert", "insert_elsewhere"}

\* Validator.validate: is there an issue?
Issues(s, t, a) ==
  LET d == Diff(s, t, a)
  IN  \/ t.verb = "drop"
      \/ Writes(t) /\ ~Writes(s)
      \/ Writes(t) /\ ~Inserts(t)
      \/ Inserts(t) /\ (~d.parsed \/ d.target)
      \/ d.where
      \/ ~MatchesPlan(s, t, a)
      \/ d.count # 1

FindingOf(s, t, a) ==
  [built |-> TRUE, issues |-> Issues(s, t, a),
   action |-> IF a.type = "ADD_CAST" THEN "MEDIUM" ELSE "LOW"]

\* pre_reflect without a model.
RuleVerdict(s, t, a) ==
  LET d == Diff(s, t, a)
      sound == d.count = 1 /\ ~d.where /\ ~d.target
  IN  [decision |-> IF sound THEN "RETURN_SQL" ELSE "BLOCK", sound |-> sound,
       risk |-> Gates!ValidationRisk(FindingOf(s, t, a)), instructed |-> FALSE]

Verdicts(s, t, a) == IF llm THEN Gates!Verdict ELSE {RuleVerdict(s, t, a)}

-----------------------------------------------------------------------------
(* The pipeline *)

Init ==
  /\ phase = "diagnose" /\ llm \in BOOLEAN
  /\ failed \in Failed /\ known \in Snapshot
  /\ diagnosis = [type |-> "UNKNOWN", repairable |-> FALSE, entity |-> "absent"]
  /\ plan = NoAction /\ candidate = NoText /\ outcome = "none"

\* _diagnose: rules alone, or the LLM's opinion, whatever it is, and its own
\* evidence, which may name the entity differently or not at all.
Diagnose ==
  /\ phase = "diagnose"
  /\ phase' = "plan"
  /\ \E category \in ErrorType \cup {"no match"}, phrase \in ErrorType \cup {"no evidence"},
        entity \in Spelling :
       LET rule == Classified(category, phrase)
       IN  \/ diagnosis' = ByRule(rule, entity)
           \/ llm /\ \E opinion \in Opinion, yes \in BOOLEAN :
                       diagnosis' = Fused(rule, opinion, entity, yes)
  /\ UNCHANGED <<llm, failed, known, plan, candidate, outcome>>

\* build_repair_plan
Plan ==
  /\ phase = "plan"
  /\ plan' = Planned(diagnosis, known)
  /\ phase' = "generate"
  /\ UNCHANGED <<llm, failed, known, diagnosis, candidate, outcome>>

\* An answer of the LLM without a text of its own: what its fragments ask for,
\* an action on the entity if anything, whether it says it generated something,
\* and whether it says it cannot safely do so.
Offer == [fragment : Action \cup {NoAction}, says : BOOLEAN, unsafe : BOOLEAN]

\* SQLGenerator.generate with a model: its fragments are applied if it said it
\* can generate safely and gave no text of its own that differs from them;
\* then even generated = FALSE of the answer is overruled.
LlmGenerates(text, says, unsafe, fragment) ==
  LET built == Applied(fragment, failed)
  IN  IF ~unsafe /\ built # NoText /\ text \in {NoText, built} THEN built
      ELSE IF says THEN text ELSE NoText

\* The candidates one generation may produce; NoText is none.
Generations ==
  IF ~llm THEN {Applied(plan, failed)}
  ELSE {LlmGenerates(t, TRUE, TRUE, NoAction) : t \in Written \cup {NoText}}
       \cup {LlmGenerates(NoText, o.says, o.unsafe, o.fragment) : o \in Offer}

\* generate_sql_candidate
Generate ==
  /\ phase = "generate"
  /\ \E t \in IF plan = NoAction THEN {NoText} ELSE Generations :
       /\ candidate' = t
       /\ phase' = IF t = NoText THEN "done" ELSE "gate"
       /\ outcome' = IF t = NoText THEN "nothing generated" ELSE outcome
  /\ UNCHANGED <<llm, failed, known, diagnosis, plan>>

Refuse == candidate' = NoText /\ outcome' = "refused" /\ phase' = "done"

AtGates == phase \in {"gate", "gate again"}

Valid == ~Gates!Rejecting(Gates!StaticGate(FindingOf(failed, candidate, plan), candidate))

\* Static validation refuses.
Invalid ==
  /\ AtGates /\ ~Valid
  /\ Refuse
  /\ UNCHANGED <<llm, failed, known, diagnosis, plan>>

\* OnlineGateAdapter.run, GateRunner.run: the first round, for a valid candidate.
Judge(v) ==
  LET r == Gates!RunRequest(FindingOf(failed, candidate, plan), v, candidate)
  IN  /\ phase = "gate"
      /\ IF Gates!Accepted(r) THEN phase' = "done" /\ outcome' = "delivered" /\ UNCHANGED candidate
         ELSE IF r.regenerate THEN phase' = "regenerate" /\ candidate' = NoText /\ UNCHANGED outcome
         ELSE Refuse
      /\ UNCHANGED <<llm, failed, known, diagnosis, plan>>

\* The second candidate, for the same plan and the same failed SQL.
Regenerate ==
  /\ phase = "regenerate"
  /\ \E t \in Generations :
       IF t = NoText THEN Refuse
       ELSE phase' = "gate again" /\ candidate' = t /\ UNCHANGED outcome
  /\ UNCHANGED <<llm, failed, known, diagnosis, plan>>

\* run_repair: only PASS will do, and there is no third round.
JudgeAgain(v) ==
  LET r == Gates!RunRequest(FindingOf(failed, candidate, plan), v, candidate)
  IN  /\ phase = "gate again"
      /\ IF r.decision = "PASS" THEN phase' = "done" /\ outcome' = "delivered" /\ UNCHANGED candidate
         ELSE Refuse
      /\ UNCHANGED <<llm, failed, known, diagnosis, plan>>

Next ==
  \/ Diagnose \/ Plan \/ Generate \/ Invalid \/ Regenerate
  \/ AtGates /\ Valid /\ \E v \in Verdicts(failed, candidate, plan) : Judge(v) \/ JudgeAgain(v)

Spec == Init /\ [][Next]_vars

-----------------------------------------------------------------------------
(* Properties *)

Columns == {known[i].column : i \in DOMAIN known}

TypeOK ==
  /\ phase \in {"diagnose", "plan", "generate", "gate", "regenerate", "gate again", "done"}
  /\ llm \in BOOLEAN /\ failed \in Failed /\ known \in Snapshot
  /\ diagnosis \in Diagnosis
  /\ plan \in Action \cup {NoAction}
  /\ candidate \in Text \cup {NoText}
  /\ outcome \in {"none", "nothing generated", "refused", "delivered"}

\* The entity, or the literal that quotes it, is what the plan makes of it.
Mended(w, x) ==
  /\ w # NoWord /\ x # NoWord
  /\ \/ plan.type = "ADD_CAST" /\ x.name = w.name /\ x.edit = "cast"
     \/ plan.type = "REPLACE_COLUMN" /\ w.name = Entity /\ x.name = plan.new /\ x.edit = "none"
     \/ plan.type = "REPLACE_COLUMN" /\ w.name \in Quoting /\ x.name = w.name /\ x.edit = plan.new

\* Whatever the LLM wrote as candidate, and in whichever round, a delivered SQL
\* is the failed SQL with the planned action applied to one word, and every
\* other word as it was: only the case of identifiers may differ, and that of
\* literals if the candidate cannot be parsed (sql_generator, validator, the gates).
DeliveredIsThePlan ==
  outcome = "delivered" =>
    /\ candidate.verb = failed.verb /\ candidate.odd = failed.odd
    /\ \E f, g \in {"item", "where"} :
         /\ f # g
         /\ Mended(failed[f], candidate[f])
         /\ Lowered(candidate[g]) = Lowered(failed[g])
         /\ failed[g] # NoWord =>
              /\ plan.type = "REPLACE_COLUMN" => failed[g].name \notin {Entity} \cup Quoting
              /\ failed[g].name \in Quoting /\ Parses(candidate) => candidate[g] = failed[g]

\* The column a delivered SQL puts in is in exactly one of the tables of the
\* failed SQL, and no other column of theirs is about as close; a cast is of a
\* column they have (planner, metadata provider, and the gates' boundary check).
DeliveredIsGrounded ==
  outcome = "delivered" =>
    /\ diagnosis.repairable /\ plan.new \in Columns
    /\ plan.type = "REPLACE_COLUMN" =>
         /\ Cardinality({i \in DOMAIN known : known[i].column = plan.new}) = 1
         /\ \A c \in Columns \ {plan.new} : Score[c] + 5 <= Score[plan.new]

\* The checks do not stand in the way of the repair they are for: what the
\* deterministic generator makes of a plan is refused only for what the failed
\* SQL was before (a forbidden or unsupported statement, a write that cannot be
\* parsed) or for its medium risk (build_diff, validator, evaluator).
OwnRepairPasses ==
  outcome = "refused" /\ ~llm =>
    \/ failed.verb \in {"drop", "update"}
    \/ Inserts(failed) /\ ~Parses(Applied(plan, failed))
    \/ plan.type = "ADD_CAST" /\ ~AllowMedium
=============================================================================
