------------------------------ MODULE AgentRunProofs ------------------------------
(***************************************************************************)
(* Agent runs, for every agent, every plan, every limit and every set of   *)
(* SQL texts: first what the gates let through and a run delivers, then    *)
(* the plan a run works on, what it remembers, its limits, and what its    *)
(* two agents can rely on.                                                 *)
(***************************************************************************)
EXTENDS AgentRun, FiniteSetTheorems, SequenceTheorems, WellFoundedInduction, TLAPS

-----------------------------------------------------------------------------
(* The gates *)

\* The static gate rejects whatever was not built, found or too risky, and says
\* so about the candidate it was given.
LEMMA StaticIsSound ==
  ASSUME NEW f \in Finding, NEW s \in Sql
  PROVE  ~Rejecting(StaticGate(f, s)) =>
            /\ f.built /\ ~f.issues
            /\ f.action \in (IF AllowMedium THEN {"LOW", "MEDIUM"} ELSE {"LOW"})
<1>1. CASE ~f.built
  BY <1>1 DEF StaticGate, Rejecting, Result
<1>2. CASE f.built /\ f.issues
  BY <1>2 DEF StaticGate, StaticDecision, ValidationRisk, Rejecting, Result
<1>3. CASE f.built /\ ~f.issues
  <2>1. f.action \in {"LOW", "MEDIUM", "HIGH"}
    BY DEF Finding
  <2>2. ValidationRisk(f) = f.action
    BY <1>3 DEF ValidationRisk
  <2>3. f.action = "HIGH" => Rejecting(StaticGate(f, s))
    BY <1>3, <2>2 DEF StaticGate, StaticDecision, Rejecting, Result
  <2>4. f.action = "MEDIUM" /\ ~AllowMedium => Rejecting(StaticGate(f, s))
    BY <1>3, <2>2 DEF StaticGate, StaticDecision, Rejecting, Result
  <2> QED
    BY <1>3, <2>1, <2>3, <2>4
<1> QED
  BY <1>1, <1>2, <1>3

\* The reflection rejects unless it returned the SQL soundly and at a risk that
\* is allowed.
LEMMA SemanticIsSound ==
  ASSUME NEW v \in Verdict, NEW s \in Sql
  PROVE  ~Rejecting(SemanticGate(v, s)) =>
            /\ v.decision = "RETURN_SQL" /\ v.sound
            /\ v.risk \in (IF AllowMedium THEN {"LOW", "MEDIUM"} ELSE {"LOW"})
            /\ ~SemanticGate(v, s).regenerate
<1>1. CASE v.decision = "RAISED"
  BY <1>1 DEF SemanticGate, Rejecting, Result
<1>2. CASE v.decision # "RAISED"
  <2> DEFINE d == Consistent(v)
  <2>1. v.decision \in {"RETURN_SQL", "REGENERATE", "BLOCK", "MANUAL_REQUIRED"} /\ v.risk \in RiskLevel
    BY <1>2 DEF Verdict
  <2>2. d \in {"RETURN_SQL", "REGENERATE", "BLOCK", "MANUAL_REQUIRED"}
    BY <2>1 DEF Consistent
  <2>3. /\ SemanticGate(v, s).decision = SemanticDecision(v)
        /\ SemanticGate(v, s).regenerate = (d = "REGENERATE")
    BY <1>2 DEF SemanticGate, Result
  <2>4. d = "RETURN_SQL" => v.decision = "RETURN_SQL" /\ v.sound /\ v.risk \in {"LOW", "MEDIUM"}
    BY <2>1 DEF Consistent
  <2>5. d # "RETURN_SQL" => SemanticDecision(v) \in {"REJECT", "HUMAN_REQUIRED"}
    BY <2>2 DEF SemanticDecision
  <2>6. d = "RETURN_SQL" /\ v.risk = "MEDIUM" /\ ~AllowMedium => SemanticDecision(v) = "HUMAN_REQUIRED"
    BY DEF SemanticDecision
  <2> QED
    BY <2>2, <2>3, <2>4, <2>5, <2>6 DEF Rejecting
<1> QED
  BY <1>1, <1>2

\* A result of the three gates that lets a candidate pass is about that
\* candidate, never asks for another one, and only comes from evidence with
\* nothing against it: what the first gates refuse, the aggregation of the risks
\* cannot turn into a pass.
THEOREM GatesAreSound ==
  ASSUME NEW f \in Finding, NEW v \in Verdict, NEW s \in Sql,
         RunRequest(f, v, s).decision \in {"PASS", "PASS_WITH_WARNING"}
  PROVE  /\ Deliverable(f, v)
         /\ RunRequest(f, v, s).sql = s
         /\ ~RunRequest(f, v, s).regenerate
<1> DEFINE static == StaticGate(f, s)
           semantic == SemanticGate(v, s)
           output == OutputGate(s, {static, semantic})
<1>1. ~Rejecting(static)
  BY DEF RunRequest, Rejecting
<1>2. ~Rejecting(semantic)
  BY <1>1 DEF RunRequest, Rejecting
<1>3. RunRequest(f, v, s) = Aggregate({static, semantic, output}, s)
  BY <1>1, <1>2 DEF RunRequest
<1>4. RunRequest(f, v, s).sql = s /\ ~RunRequest(f, v, s).regenerate
  BY <1>3 DEF Aggregate, Result
<1> QED
  BY <1>1, <1>2, <1>4, StaticIsSound, SemanticIsSound DEF Deliverable

-----------------------------------------------------------------------------
(* The run *)

\* What holds of the candidate while the run is under way: the workspace and
\* every draft come from the generator, the reference names the draft that is
\* gated, and nothing is formal before the gates have spoken.
CandidateInv ==
  /\ cand = [draft |-> cand.draft, ref |-> cand.ref, formal |-> cand.formal,
             status |-> cand.status, feedback |-> cand.feedback]
  /\ outcome = [status |-> outcome.status, stop |-> outcome.stop]
  /\ generated \subseteq Sql
  /\ product \in generated \cup {NoSql}
  /\ pc \in {"gate", "repair"} => cand.draft \in generated /\ cand.ref = cand.draft
  /\ pc # "done" => /\ cand.formal = NoSql /\ cand.status # "READY"
                    /\ outcome.status # "CANDIDATE_READY"

RunInv == CandidateInv /\ DeliveredIsSound /\ DeliveredIsCommittable /\ OnlyDeliveredIsFormal

\* A run that begins has no draft, no artifact and no formal SQL.
LEMMA RunInit == Init => RunInv
BY DEF Init, RunInv, CandidateInv, DeliveredIsSound, DeliveredIsCommittable,
       OnlyDeliveredIsFormal, Delivered

\* A step that leaves the candidate alone and does not end the run with one.
LEMMA RunElsewhere ==
  ASSUME RunInv, pc = "loop", pc' \in {"loop", "done"},
         UNCHANGED <<product, cand, generated, last, judged>>,
         \/ UNCHANGED outcome /\ pc' = "loop"
         \/ \E status, stop : status # "CANDIDATE_READY" /\ outcome' = [status |-> status, stop |-> stop]
  PROVE  RunInv'
BY DEF RunInv, CandidateInv, DeliveredIsSound, DeliveredIsCommittable, OnlyDeliveredIsFormal,
       Delivered

\* The first round of the gates: what passes was judged sound.
LEMMA FirstGatesKeepsInv ==
  ASSUME RunInv, NEW f \in Finding, NEW v \in Verdict, FirstGates(f, v)
  PROVE  RunInv'
<1> DEFINE r == RunRequest(f, v, cand.draft)
<1>1. cand.draft \in Sql /\ cand.draft \in generated /\ cand.ref = cand.draft /\ cand.draft # NoSql
  BY GateAssumption DEF RunInv, CandidateInv, FirstGates
<1>2. Accepted(r) => r.decision \in {"PASS", "PASS_WITH_WARNING"}
  BY DEF Accepted
<1>3. Accepted(r) => Deliverable(f, v) /\ r.sql = cand.draft /\ ~r.regenerate
  BY <1>1, <1>2, GatesAreSound
<1>4. /\ last' = r /\ judged' = Deliverable(f, v)
      /\ pc' = IF r.regenerate /\ run.rounds < 1 THEN "regenerate" ELSE "done"
      /\ UNCHANGED <<product, generated>>
      /\ cand' = IF Accepted(r) THEN [cand EXCEPT !.formal = cand.draft, !.status = "READY"]
                 ELSE [cand EXCEPT !.status = "GATE_REJECTED", !.feedback = r.gate]
      /\ outcome' = [status |-> IF Accepted(r) THEN "CANDIDATE_READY" ELSE Rejection(r), stop |-> "NONE"]
  BY DEF FirstGates, workVars
<1>5. cand.formal = NoSql
  BY DEF RunInv, CandidateInv, FirstGates
<1> HIDE DEF r
<1>6. CASE Accepted(r)
  BY <1>1, <1>2, <1>3, <1>4, <1>6
     DEF RunInv, CandidateInv, DeliveredIsSound, DeliveredIsCommittable, OnlyDeliveredIsFormal, Delivered
<1>7. CASE ~Accepted(r)
  <2>1. outcome'.status # "CANDIDATE_READY"
    BY <1>4, <1>7 DEF Rejection
  <2>2. pc' \in {"regenerate", "done"} /\ cand'.formal = NoSql /\ cand'.status = "GATE_REJECTED"
    BY <1>4, <1>5, <1>7 DEF RunInv, CandidateInv
  <2> QED
    BY <1>4, <1>7, <2>1, <2>2
       DEF RunInv, CandidateInv, DeliveredIsSound, DeliveredIsCommittable, OnlyDeliveredIsFormal, Delivered
<1> QED
  BY <1>6, <1>7

\* The second round, on the regenerated candidate: judged again, by the same rules.
LEMMA RepairGatesKeepsInv ==
  ASSUME RunInv, NEW f \in Finding, NEW v \in Verdict, RepairGates(f, v)
  PROVE  RunInv'
<1> DEFINE r == RunRequest(f, v, cand.draft)
<1>1. cand.draft \in Sql /\ cand.draft \in generated /\ cand.ref = cand.draft /\ cand.draft # NoSql
  BY GateAssumption DEF RunInv, CandidateInv, RepairGates
<1>2. r.decision = "PASS" => Deliverable(f, v) /\ r.sql = cand.draft
  BY <1>1, GatesAreSound
<1>3. /\ last' = r /\ judged' = Deliverable(f, v) /\ pc' = "done"
      /\ UNCHANGED <<product, generated>>
      /\ cand' = IF r.decision = "PASS" THEN [cand EXCEPT !.formal = cand.draft, !.status = "READY"]
                 ELSE [cand EXCEPT !.status = "GATE_REJECTED"]
      /\ outcome' = [status |-> IF r.decision = "PASS" THEN "CANDIDATE_READY" ELSE Rejection(r),
                     stop |-> "NONE"]
  BY DEF RepairGates, workVars
<1>4. cand.formal = NoSql
  BY DEF RunInv, CandidateInv, RepairGates
<1> HIDE DEF r
<1>5. CASE r.decision = "PASS"
  BY <1>1, <1>2, <1>3, <1>5
     DEF RunInv, CandidateInv, DeliveredIsSound, DeliveredIsCommittable, OnlyDeliveredIsFormal, Delivered
<1>6. CASE r.decision # "PASS"
  <2>1. outcome'.status # "CANDIDATE_READY"
    BY <1>3, <1>6 DEF Rejection
  <2>2. cand'.formal = NoSql /\ cand'.status = "GATE_REJECTED"
    BY <1>3, <1>4, <1>6 DEF RunInv, CandidateInv
  <2> QED
    BY <1>3, <1>6, <2>1, <2>2
       DEF RunInv, CandidateInv, DeliveredIsSound, DeliveredIsCommittable, OnlyDeliveredIsFormal, Delivered
<1> QED
  BY <1>5, <1>6

\* Every step preserves the invariant.
LEMMA RunStep == RunInv /\ [Next]_vars => RunInv'
<1> SUFFICES ASSUME RunInv, [Next]_vars PROVE RunInv'
  OBVIOUS
<1>1. CASE Stop
  BY <1>1, RunElsewhere DEF Stop, Finish, workVars, gateVars
<1>2. CASE Return("RETURN_NO_SQL", "NO_SQL")
  BY <1>2, RunElsewhere DEF Return, Turn, Finish, workVars, gateVars
<1>3. CASE Return("RETURN_HUMAN_REQUIRED", "HUMAN_REQUIRED")
  BY <1>3, RunElsewhere DEF Return, Turn, Finish, workVars, gateVars
<1>4. CASE InvalidAction
  BY <1>4, RunElsewhere DEF InvalidAction, Turn, Finish, workVars, gateVars
<1>5. ASSUME NEW p \in Plans, UpdatePlan(p) PROVE RunInv'
  BY <1>5, RunElsewhere DEF UpdatePlan, Turn, workVars, gateVars
<1>6. ASSUME NEW k \in Key, ToolSucceeds(k) PROVE RunInv'
  <2>1. pc = "loop" /\ UNCHANGED <<pc, outcome, last, judged>>
    BY <1>6 DEF ToolSucceeds, Turn, AfterCall, gateVars
  <2>2. CASE k = "candidate_sql"
    <3>1. PICK s \in Sql \cup {NoSql} :
            /\ product' = s
            /\ cand' = IF s = NoSql THEN cand ELSE [cand EXCEPT !.ref = s]
            /\ generated' = generated \cup ({s} \ {NoSql})
      BY <1>6, <2>2 DEF ToolSucceeds
    <3> QED
      BY <2>1, <3>1
         DEF RunInv, CandidateInv, DeliveredIsSound, DeliveredIsCommittable, OnlyDeliveredIsFormal, Delivered
  <2>3. CASE k # "candidate_sql"
    BY <1>6, <2>1, <2>3, RunElsewhere DEF ToolSucceeds
  <2> QED
    BY <2>2, <2>3
<1>7. ASSUME NEW r \in Key \cup {"unregistered"}, ToolFails(r) PROVE RunInv'
  BY <1>7, RunElsewhere DEF ToolFails, AfterCall, Turn, workVars, gateVars
<1>8. CASE SubAgent
  BY <1>8, RunElsewhere DEF SubAgent, AfterCall, Turn, workVars, gateVars
<1>9. ASSUME NEW r \in {"bad_input", "sub_agent"}, CallRaises(r) PROVE RunInv'
  BY <1>9, RunElsewhere DEF CallRaises, Turn, Finish, workVars, gateVars
<1>10. ASSUME NEW s \in Sql, Propose(s) PROVE RunInv'
  <2>1. pc = "loop" /\ UNCHANGED <<product, generated, last, judged>>
    BY <1>10 DEF Propose, Turn, workVars, gateVars
  <2>2. CASE product = s /\ cand.ref = product
    <3>1. /\ pc' = "gate" /\ outcome' = outcome
          /\ cand' = [cand EXCEPT !.draft = product, !.status = "DRAFT"]
      BY <1>10, <2>2 DEF Propose
    <3>2. product \in generated
      BY <2>2, GateAssumption DEF RunInv, CandidateInv
    <3> QED
      BY <2>1, <2>2, <3>1, <3>2
         DEF RunInv, CandidateInv, DeliveredIsSound, DeliveredIsCommittable, OnlyDeliveredIsFormal, Delivered
  <2>3. CASE ~(product = s /\ cand.ref = product)
    BY <1>10, <2>1, <2>3, RunElsewhere DEF Propose, Finish
  <2> QED
    BY <2>2, <2>3
<1>11. ASSUME NEW f \in Findings, NEW v \in Verdicts, FirstGates(f, v) \/ RepairGates(f, v)
       PROVE  RunInv'
  BY <1>11, FirstGatesKeepsInv, RepairGatesKeepsInv, AgentRunAssumption
<1>12. CASE Regenerate
  <2>1. pc = "regenerate" /\ UNCHANGED <<product, last, judged>>
    BY <1>12 DEF Regenerate, gateVars
  <2>2. CASE pc' = "repair"
    <3>1. PICK s \in Sql : /\ cand' = [cand EXCEPT !.draft = s, !.ref = s, !.feedback = "none"]
                           /\ generated' = generated \cup {s} /\ outcome' = outcome
      BY <1>12, <2>2 DEF Regenerate, Finish
    <3> QED
      BY <2>1, <2>2, <3>1
         DEF RunInv, CandidateInv, DeliveredIsSound, DeliveredIsCommittable, OnlyDeliveredIsFormal, Delivered
  <2>3. CASE pc' # "repair"
    <3>1. /\ pc' = "done" /\ UNCHANGED <<cand, generated>>
          /\ outcome' = outcome \/ outcome' = [status |-> "RAISED", stop |-> "NONE"]
      BY <1>12, <2>3 DEF Regenerate, Finish
    <3>2. outcome'.status # "CANDIDATE_READY" /\ outcome' = [status |-> outcome'.status, stop |-> outcome'.stop]
      BY <2>1, <3>1 DEF RunInv, CandidateInv
    <3> QED
      BY <2>1, <3>1, <3>2
         DEF RunInv, CandidateInv, DeliveredIsSound, DeliveredIsCommittable, OnlyDeliveredIsFormal, Delivered
  <2> QED
    BY <2>2, <2>3
<1>13. CASE UNCHANGED vars
  BY <1>13 DEF vars, RunInv, CandidateInv, DeliveredIsSound, DeliveredIsCommittable,
              OnlyDeliveredIsFormal, Delivered
<1> QED
  BY <1>1, <1>2, <1>3, <1>4, <1>5, <1>6, <1>7, <1>8, <1>9, <1>10, <1>11, <1>12, <1>13 DEF Next

\* Every run keeps the invariant.
THEOREM RunInvariant == Spec => []RunInv
BY RunInit, RunStep, PTL DEF Spec

\* No run delivers SQL the generator did not write or the gates did not see
\* with nothing against it, whatever the agent does.
THEOREM OnlySoundIsDelivered == Spec => []DeliveredIsSound
<1>1. RunInv => DeliveredIsSound
  BY DEF RunInv
<1> QED
  BY <1>1, RunInvariant, PTL

\* What a run delivers passes every check of the committer.
THEOREM CommitterAccepts == Spec => []DeliveredIsCommittable
<1>1. RunInv => DeliveredIsCommittable
  BY DEF RunInv
<1> QED
  BY <1>1, RunInvariant, PTL

\* A run that delivers nothing leaves nothing formal behind.
THEOREM RejectedIsNotFormal == Spec => []OnlyDeliveredIsFormal
<1>1. RunInv => OnlyDeliveredIsFormal
  BY DEF RunInv
<1> QED
  BY <1>1, RunInvariant, PTL


-----------------------------------------------------------------------------
(* Choosing the first, and counting *)

\* A nonempty set of natural numbers has a least one, the one CHOOSE picks.
LEMMA TheLeast ==
  ASSUME NEW S \in SUBSET Nat, S # {}
  PROVE  LET least == CHOOSE n \in S : \A m \in S : n <= m
         IN  least \in S /\ \A m \in S : least <= m
<1>1. PICK n \in S : \A m \in S : <<m, n>> \notin OpToRel(<, Nat)
  <2> HIDE DEF OpToRel
  <2> QED
    BY NatLessThanWellFounded, WFMin
<1>2. \A m \in S : ~(m < n)
  BY <1>1 DEF OpToRel
<1>3. \A m \in S : n <= m
  BY <1>2
<1> QED
  BY <1>3

\* The n-th number of a finite set, counted from below.
LEMMA Ranked ==
  ASSUME NEW K \in SUBSET Nat, IsFiniteSet(K), NEW n \in 1..Cardinality(K)
  PROVE  \E i \in K : Cardinality({j \in K : j <= i}) = n
<1> DEFINE rank(i) == Cardinality({j \in K : j <= i})
           Missed == {m \in 1..Cardinality(K) : ~\E i \in K : rank(i) = m}
<1>1. Cardinality(K) \in Nat
  BY FS_CardinalityType
<1>2. SUFFICES ASSUME Missed # {} PROVE FALSE
  OBVIOUS
<1>3. PICK m \in Missed : \A k \in Missed : m <= k
  <2>1. Missed \in SUBSET Nat
    BY <1>1
  <2> QED
    BY <1>2, <2>1, TheLeast
<1>4. m \in 1..Cardinality(K) /\ m \in Nat
  BY <1>1, <1>3
<1>5. CASE m = 1
  <2>1. K # {}
    BY <1>1, <1>4, FS_EmptySet
  <2>2. PICK i \in K : \A j \in K : i <= j
    BY <2>1, TheLeast
  <2>3. {j \in K : j <= i} = {i}
    <3>1. \A j \in K : j \in Nat /\ i \in Nat
      OBVIOUS
    <3>2. \A j \in K : j <= i <=> j = i
      BY <2>2, <3>1
    <3> QED
      BY <3>2
  <2>4. rank(i) = 1
    BY <2>3, FS_Singleton, Zenon
  <2> QED
    BY <1>3, <1>5, <2>4
<1>6. CASE m # 1
  <2>1. m - 1 \in 1..Cardinality(K) /\ m - 1 \notin Missed
    <3>1. m - 1 \in 1..Cardinality(K)
      BY <1>1, <1>4, <1>6
    <3>2. ~(m <= m - 1)
      BY <1>4
    <3> QED
      BY <1>3, <3>1, <3>2
  <2>2. PICK i \in K : rank(i) = m - 1
    BY <2>1
  <2> DEFINE Lower == {j \in K : j <= i}
             Upper == {j \in K : i < j}
  <2>3. IsFiniteSet(Lower) /\ Cardinality(Lower) = m - 1
    <3>1. Lower \in SUBSET K /\ Cardinality(Lower) = m - 1
      BY <2>2
    <3> HIDE DEF Lower
    <3> QED
      BY <3>1, FS_Subset
  <2>4. Upper # {}
    <3>1. SUFFICES ASSUME Upper = {} PROVE FALSE
      OBVIOUS
    <3>2. \A j \in K : ~(i < j)
      BY <3>1
    <3>3. \A j \in K : j <= i
      BY <3>2
    <3>4. Lower = K
      BY <3>3
    <3>5. Cardinality(K) = m - 1
      BY <2>3, <3>4
    <3> QED
      BY <1>1, <1>4, <3>5
  <2>5. PICK u \in Upper : \A j \in Upper : u <= j
    <3>1. Upper \in SUBSET Nat
      OBVIOUS
    <3> QED
      BY <2>4, <3>1, TheLeast
  <2>6. {j \in K : j <= u} = Lower \cup {u} /\ u \notin Lower
    <3>1. u \in K /\ i < u /\ u \in Nat /\ i \in Nat
      BY <2>5
    <3>2. \A j \in K : i < j => u <= j
      BY <2>5
    <3>3. ASSUME NEW j \in K PROVE j <= u <=> j <= i \/ j = u
      BY <3>1, <3>2
    <3>4. \A j \in {j \in K : j <= u} : j \in Lower \cup {u}
      BY <3>3
    <3>5. \A j \in Lower \cup {u} : j \in {k \in K : k <= u}
      BY <3>1, <3>3
    <3>6. u \notin Lower
      BY <3>1
    <3> QED
      BY <3>4, <3>5, <3>6
  <2>7. rank(u) = m
    <3> HIDE DEF Lower
    <3>1. Cardinality(Lower \cup {u}) = m - 1 + 1
      BY <2>3, <2>6, FS_AddElement
    <3> QED
      BY <1>4, <2>6, <3>1
  <2>8. u \in K
    BY <2>5
  <2> QED
    BY <1>3, <2>7, <2>8
<1> QED
  BY <1>5, <1>6

\* deterministic_trim: nothing is invented, and at most MaxSeen stay.
LEMMA TrimKeeps ==
  ASSUME NEW S, NEW s \in Seq(S)
  PROVE  /\ Trim(s) \in Seq(S) /\ Len(Trim(s)) <= MaxSeen
         /\ \A i \in 1..Len(Trim(s)) : \E j \in 1..Len(s) : Trim(s)[i] = s[j]
<1> DEFINE alike(a, b) == a.kind = b.kind /\ a.status = b.status /\ a.about = b.about /\ a.n = b.n
           newest == {i \in DOMAIN s : \A j \in DOMAIN s : j > i => ~alike(s[i], s[j])}
           kept == {i \in newest : Cardinality({j \in newest : j >= i}) <= MaxSeen}
           nth(n) == CHOOSE i \in kept : Cardinality({j \in kept : j <= i}) = n
           size == Cardinality(kept)
<1>1. Trim(s) = [n \in 1..size |-> s[nth(n)]]
  BY DEF Trim
<1>2. DOMAIN s = 1..Len(s) /\ Len(s) \in Nat /\ \A i \in 1..Len(s) : s[i] \in S
  BY LenProperties, ElementOfSeq
<1>3. newest \in SUBSET (1..Len(s)) /\ IsFiniteSet(newest)
  <2>1. newest \in SUBSET (1..Len(s))
    BY <1>2
  <2> HIDE DEF newest
  <2>2. IsFiniteSet(1..Len(s))
    BY <1>2, FS_Interval
  <2> QED
    BY <2>1, <2>2, FS_Subset
<1>4. kept \in SUBSET newest /\ kept \in SUBSET Nat /\ IsFiniteSet(kept) /\ size \in Nat
  <2>1. kept \in SUBSET newest
    OBVIOUS
  <2> HIDE DEF newest, kept
  <2>2. IsFiniteSet(kept)
    BY <1>3, <2>1, FS_Subset
  <2>3. kept \in SUBSET Nat
    BY <1>3, <2>1
  <2> QED
    BY <2>1, <2>2, <2>3, FS_CardinalityType
<1>5. size <= MaxSeen
  <2>1. CASE kept = {}
    <3>1. size = 0
      BY <2>1, FS_EmptySet, Zenon
    <3> QED
      BY <3>1, AgentRunAssumption
  <2>2. CASE kept # {}
    <3>1. PICK least \in kept : \A m \in kept : least <= m
      BY <1>4, <2>2, TheLeast
    <3> DEFINE above == {j \in newest : j >= least}
    <3>2. Cardinality(above) <= MaxSeen
      BY <3>1
    <3>3. kept \in SUBSET above
      BY <1>3, <1>4, <3>1
    <3>4. IsFiniteSet(above)
      BY <1>3, FS_Subset
    <3> HIDE DEF above, kept
    <3>5. size <= Cardinality(above) /\ Cardinality(above) \in Nat
      BY <3>3, <3>4, FS_Subset, FS_CardinalityType
    <3> QED
      BY <1>4, <3>2, <3>5, AgentRunAssumption
  <2> QED
    BY <2>1, <2>2
<1>6. \A n \in 1..size : nth(n) \in kept
  <2> TAKE n \in 1..size
  <2> HIDE DEF kept
  <2>1. \E i \in kept : Cardinality({j \in kept : j <= i}) = n
    BY <1>4, Ranked
  <2> QED
    BY <2>1
<1> HIDE DEF kept, size, nth
<1>7. \A n \in 1..size : nth(n) \in 1..Len(s)
  BY <1>3, <1>4, <1>6
<1>8. Trim(s) \in [1..size -> S]
  BY <1>1, <1>2, <1>7
<1>9. Trim(s) \in Seq(S) /\ Len(Trim(s)) = size
  BY <1>4, <1>8
<1> QED
  BY <1>1, <1>5, <1>7, <1>9

-----------------------------------------------------------------------------
(* Plans *)

Distinct(p) == \A i, j \in DOMAIN p.steps : p.steps[i].id = p.steps[j].id => i = j

\* An id names one step.
LEMMA StepFound ==
  ASSUME NEW p, Distinct(p), NEW i \in DOMAIN p.steps
  PROVE  StepOf(p, p.steps[i].id) = p.steps[i]
<1> DEFINE k == CHOOSE j \in DOMAIN p.steps : p.steps[j].id = p.steps[i].id
<1>1. k \in DOMAIN p.steps /\ p.steps[k].id = p.steps[i].id
  OBVIOUS
<1> HIDE DEF k
<1>2. k = i
  BY <1>1 DEF Distinct
<1> QED
  BY <1>2 DEF StepOf, k

\* Plans with the same ids and dependencies, step by step, are sound together.
LEMMA SameShape ==
  ASSUME NEW p, NEW q, ValidStructure(p), q.steps # <<>>,
         DOMAIN q.steps = DOMAIN p.steps, q.cur \in StepIds(p) \cup {NoStep},
         \A i \in DOMAIN p.steps : q.steps[i].id = p.steps[i].id /\ q.steps[i].deps = p.steps[i].deps
  PROVE  ValidStructure(q)
<1>1. Distinct(p) /\ Distinct(q)
  BY DEF ValidStructure, Distinct
<1>2. StepIds(q) = StepIds(p)
  BY DEF StepIds
<1>3. ASSUME NEW id \in StepIds(p) PROVE StepOf(q, id).deps = StepOf(p, id).deps
  <2>1. PICK i \in DOMAIN p.steps : id = p.steps[i].id
    BY DEF StepIds
  <2>2. StepOf(p, id) = p.steps[i]
    BY <1>1, <2>1, StepFound
  <2>3. StepOf(q, id) = q.steps[i]
    BY <1>1, <2>1, StepFound
  <2> QED
    BY <2>2, <2>3
<1>4. \A i \in DOMAIN q.steps : q.steps[i].deps \subseteq StepIds(q)
  BY <1>2 DEF ValidStructure
<1>5. \A S \in (SUBSET StepIds(q)) \ {{}} : \E id \in S : StepOf(q, id).deps \cap S = {}
  <2> TAKE S \in (SUBSET StepIds(q)) \ {{}}
  <2>1. PICK id \in S : StepOf(p, id).deps \cap S = {}
    BY <1>2 DEF ValidStructure
  <2> QED
    BY <1>2, <1>3, <2>1
<1>6. q.cur \in StepIds(q) \cup {NoStep}
  BY <1>2
<1> QED
  BY <1>1, <1>4, <1>5, <1>6 DEF ValidStructure, Distinct

\* The next step of a plan is one of its steps, or none.
LEMMA NextStep ==
  ASSUME NEW p, DOMAIN p.steps \subseteq Nat
  PROVE  FirstEligible(p) \in StepIds(p) \cup {NoStep}
<1> DEFINE eligible == {i \in DOMAIN p.steps : Eligible(p, i)}
           first == CHOOSE i \in eligible : \A j \in eligible : i <= j
<1>1. CASE eligible = {}
  BY <1>1 DEF FirstEligible
<1>2. CASE eligible # {}
  <2>1. eligible \in SUBSET Nat
    OBVIOUS
  <2>2. first \in eligible
    <3> HIDE DEF eligible
    <3> QED
      BY <1>2, <2>1, TheLeast
  <2>3. first \in DOMAIN p.steps
    BY <2>2
  <2>4. FirstEligible(p) = p.steps[first].id
    BY <1>2 DEF FirstEligible
  <2> HIDE DEF first
  <2> QED
    BY <2>3, <2>4 DEF StepIds
<1> QED
  BY <1>1, <1>2

\* apply_observation: whatever step it credits, a plan stays a plan.
LEMMA CreditKeepsPlan ==
  ASSUME NEW p, IsPlan(p), ValidStructure(p), NEW status
  PROVE  IsPlan(Credit(p, status)) /\ ValidStructure(Credit(p, status))
<1>1. CASE p.cur \notin StepIds(p)
  BY <1>1 DEF Credit
<1>2. CASE p.cur \in StepIds(p)
  <2> DEFINE given(i) == IF p.steps[i].id = p.cur
                         THEN [p.steps[i] EXCEPT !.st = IF status = "SUCCEEDED" THEN "COMPLETED" ELSE "BLOCKED"]
                         ELSE p.steps[i]
             steps == [i \in DOMAIN p.steps |-> given(i)]
             credited == [p EXCEPT !.steps = steps]
             first == FirstEligible(credited)
             q == [credited EXCEPT !.cur = first]
  <2>1. Credit(p, status) = q
    BY <1>2 DEF Credit
  <2>2. p = [steps |-> p.steps, cur |-> p.cur] /\ DOMAIN p.steps = 1..Len(p.steps) /\ Len(p.steps) \in Nat
    BY DEF IsPlan
  <2>3. \A i \in DOMAIN p.steps :
          p.steps[i] = [id |-> p.steps[i].id, does |-> p.steps[i].does, deps |-> p.steps[i].deps,
                        st |-> p.steps[i].st]
    BY DEF IsPlan
  <2>4. \A i \in DOMAIN p.steps :
          /\ given(i).id = p.steps[i].id /\ given(i).deps = p.steps[i].deps
          /\ given(i) = [id |-> given(i).id, does |-> given(i).does, deps |-> given(i).deps,
                         st |-> given(i).st]
    <3> TAKE i \in DOMAIN p.steps
    <3>1. CASE p.steps[i].id = p.cur
      <4> DEFINE st == IF status = "SUCCEEDED" THEN "COMPLETED" ELSE "BLOCKED"
      <4>1. given(i) = [p.steps[i] EXCEPT !.st = st]
        BY <3>1
      <4> HIDE DEF st, given
      <4>2. given(i) = [id |-> p.steps[i].id, does |-> p.steps[i].does, deps |-> p.steps[i].deps, st |-> st]
        BY <2>3, <4>1
      <4> QED
        BY <4>2
    <3>2. CASE p.steps[i].id # p.cur
      BY <2>3, <3>2
    <3> QED
      BY <3>1, <3>2
  <2> HIDE DEF given
  <2>5. DOMAIN steps = DOMAIN p.steps /\ \A i \in DOMAIN p.steps : steps[i] = given(i)
    OBVIOUS
  <2> HIDE DEF steps
  <2>6. credited = [steps |-> steps, cur |-> p.cur]
    BY <2>2
  <2>7. credited.steps = steps
    BY <2>6
  <2>8. first \in StepIds(credited) \cup {NoStep}
    BY <2>2, <2>5, <2>7, NextStep
  <2>9. StepIds(credited) = StepIds(p)
    BY <2>4, <2>5, <2>7 DEF StepIds
  <2>10. q = [steps |-> steps, cur |-> first]
    <3> HIDE DEF first, credited
    <3> QED
      BY <2>6
  <2> HIDE DEF credited, first, q
  <2>11. q.steps = steps /\ q.cur \in StepIds(p) \cup {NoStep}
    BY <2>8, <2>9, <2>10
  <2>12. steps # <<>>
    <3>1. DOMAIN p.steps # {}
      BY <1>2 DEF StepIds
    <3> QED
      BY <2>5, <3>1
  <2>13. ValidStructure(q)
    BY <2>4, <2>5, <2>11, <2>12, SameShape
  <2>14. steps = [i \in 1..Len(p.steps) |-> steps[i]] /\ Len(steps) = Len(p.steps)
    BY <2>2 DEF steps
  <2>15. IsPlan(q)
    <3>1. q = [steps |-> q.steps, cur |-> q.cur]
      BY <2>10
    <3>2. Len(q.steps) \in Nat /\ q.steps = [i \in 1..Len(q.steps) |-> q.steps[i]]
      BY <2>2, <2>5, <2>11, <2>14
    <3>3. \A i \in DOMAIN q.steps :
            q.steps[i] = [id |-> q.steps[i].id, does |-> q.steps[i].does, deps |-> q.steps[i].deps,
                          st |-> q.steps[i].st]
      BY <2>4, <2>5, <2>11
    <3> QED
      BY <3>1, <3>2, <3>3 DEF IsPlan
  <2> QED
    BY <2>1, <2>13, <2>15
<1> QED
  BY <1>1, <1>2

\* build_initial_execution_plan
LEMMA InitialPlanSound == IsPlan(InitialPlan) /\ ValidStructure(InitialPlan)
<1> DEFINE step(id, does, deps) == [id |-> id, does |-> does, deps |-> deps, st |-> "PENDING"]
           s == InitialPlan.steps
<1>1. /\ DOMAIN s = 1..5 /\ Len(s) = 5 /\ s # <<>>
      /\ s[1] = step("read_log", "log_digest", {})
      /\ s[2] = step("diagnose", "diagnosis", {"read_log"})
      /\ s[3] = step("query_metadata", "metadata_snapshot", {"diagnose"})
      /\ s[4] = step("retrieve_memory", "memory_retrieval", {"diagnose"})
      /\ s[5] = step("generate_candidate", "candidate_sql", {"diagnose", "query_metadata", "retrieve_memory"})
      /\ InitialPlan.cur = "read_log" /\ InitialPlan = [steps |-> s, cur |-> "read_log"]
  BY DEF InitialPlan
<1>2. s = [i \in 1..Len(s) |-> s[i]]
  BY DEF InitialPlan
<1> HIDE DEF s
<1>3. \A i \in 1..5 : i = 1 \/ i = 2 \/ i = 3 \/ i = 4 \/ i = 5
  OBVIOUS
<1>4. IsPlan(InitialPlan)
  <2>1. \A i \in DOMAIN s : s[i] = [id |-> s[i].id, does |-> s[i].does, deps |-> s[i].deps, st |-> s[i].st]
    BY <1>1, <1>3
  <2> QED
    BY <1>1, <1>2, <2>1 DEF IsPlan, s
<1>5. Distinct(InitialPlan)
  BY <1>1, <1>3 DEF Distinct, s
<1>6. StepIds(InitialPlan) = {"read_log", "diagnose", "query_metadata", "retrieve_memory", "generate_candidate"}
  BY <1>1, <1>3 DEF StepIds, s
<1>7. /\ StepOf(InitialPlan, "read_log").deps = {}
      /\ StepOf(InitialPlan, "diagnose").deps = {"read_log"}
      /\ StepOf(InitialPlan, "query_metadata").deps = {"diagnose"}
      /\ StepOf(InitialPlan, "retrieve_memory").deps = {"diagnose"}
      /\ StepOf(InitialPlan, "generate_candidate").deps = {"diagnose", "query_metadata", "retrieve_memory"}
  <2>1. \A i \in 1..5 : StepOf(InitialPlan, s[i].id) = s[i]
    BY <1>1, <1>5, StepFound DEF s
  <2> QED
    BY <1>1, <2>1
<1>8. \A S \in (SUBSET StepIds(InitialPlan)) \ {{}} : \E id \in S : StepOf(InitialPlan, id).deps \cap S = {}
  <2> SUFFICES ASSUME NEW S \in SUBSET StepIds(InitialPlan), S # {}
               PROVE  \E id \in S : StepOf(InitialPlan, id).deps \cap S = {}
    BY Zenon
  <2>1. CASE "read_log" \in S
    BY <1>7, <2>1
  <2>2. CASE "read_log" \notin S /\ "diagnose" \in S
    BY <1>7, <2>2
  <2>3. CASE "diagnose" \notin S /\ "query_metadata" \in S
    BY <1>7, <2>3
  <2>4. CASE "diagnose" \notin S /\ "retrieve_memory" \in S
    BY <1>7, <2>4
  <2>5. CASE S = {"generate_candidate"}
    BY <1>7, <2>5
  <2>6. CASE S \subseteq {"generate_candidate"}
    <3>1. S = {"generate_candidate"}
      BY <2>6
    <3> QED
      BY <2>5, <3>1
  <2>7. \/ "read_log" \in S \/ "diagnose" \in S \/ "query_metadata" \in S \/ "retrieve_memory" \in S
        \/ S \subseteq {"generate_candidate"}
    BY <1>6
  <2> QED
    BY <2>1, <2>2, <2>3, <2>4, <2>6, <2>7
<1>9. \A i \in DOMAIN s : s[i].deps \subseteq StepIds(InitialPlan)
  BY <1>1, <1>3, <1>6
<1> QED
  BY <1>1, <1>4, <1>5, <1>6, <1>8, <1>9 DEF ValidStructure, Distinct, s

-----------------------------------------------------------------------------
(* Limits, and what the gates answer *)

\* _stop_reason names a limit, or none is reached.
LEMMA Limits ==
  ASSUME NEW late \in BOOLEAN
  PROVE  /\ StopReason(late) \in {"NONE", "MAX_STEPS", "MAX_TOOL_CALLS", "MAX_SUB_AGENT_CALLS",
                                  "MAX_WALL_TIME", "MAX_PLAN_REVISIONS", "MAX_GATE_REPAIR_ROUNDS",
                                  "NO_PROGRESS"}
         /\ StopReason(late) = "NONE" <=>
              /\ ~(run.steps >= MaxSteps) /\ ~(run.tools >= MaxTools) /\ ~(run.subs >= MaxSubs) /\ ~late
              /\ ~(run.revisions >= MaxRevisions) /\ ~(run.rounds > MaxRounds) /\ ~(run.idle >= MaxIdle)
<1> DEFINE reached == {i \in DOMAIN StopReasons : Reached(late)[i]}
           first == CHOOSE i \in reached : \A j \in reached : i <= j
<1>1. /\ DOMAIN StopReasons = 1..7
      /\ StopReasons[1] = "MAX_STEPS" /\ StopReasons[2] = "MAX_TOOL_CALLS"
      /\ StopReasons[3] = "MAX_SUB_AGENT_CALLS" /\ StopReasons[4] = "MAX_WALL_TIME"
      /\ StopReasons[5] = "MAX_PLAN_REVISIONS" /\ StopReasons[6] = "MAX_GATE_REPAIR_ROUNDS"
      /\ StopReasons[7] = "NO_PROGRESS"
  BY DEF StopReasons
<1>2. /\ Reached(late)[1] <=> run.steps >= MaxSteps
      /\ Reached(late)[2] <=> run.tools >= MaxTools
      /\ Reached(late)[3] <=> run.subs >= MaxSubs
      /\ Reached(late)[4] <=> late
      /\ Reached(late)[5] <=> run.revisions >= MaxRevisions
      /\ Reached(late)[6] <=> run.rounds > MaxRounds
      /\ Reached(late)[7] <=> run.idle >= MaxIdle
  BY DEF Reached
<1>3. \A i \in 1..7 : i = 1 \/ i = 2 \/ i = 3 \/ i = 4 \/ i = 5 \/ i = 6 \/ i = 7
  OBVIOUS
<1>4. reached = {} <=>
        /\ ~(run.steps >= MaxSteps) /\ ~(run.tools >= MaxTools) /\ ~(run.subs >= MaxSubs) /\ ~late
        /\ ~(run.revisions >= MaxRevisions) /\ ~(run.rounds > MaxRounds) /\ ~(run.idle >= MaxIdle)
  <2>1. \A i \in 1..7 : i \in reached <=> Reached(late)[i]
    BY <1>1
  <2>2. reached \subseteq 1..7
    BY <1>1
  <2>3. reached = {} <=> \A i \in 1..7 : ~Reached(late)[i]
    BY <2>1, <2>2
  <2> HIDE DEF reached
  <2> QED
    BY <1>2, <1>3, <2>3
<1>5. CASE reached = {}
  BY <1>4, <1>5 DEF StopReason
<1>6. CASE reached # {}
  <2>1. reached \in SUBSET Nat /\ reached \subseteq 1..7
    BY <1>1
  <2>2. first \in 1..7
    <3> HIDE DEF reached
    <3>1. first \in reached
      BY <1>6, <2>1, TheLeast
    <3> QED
      BY <2>1, <3>1
  <2>3. StopReason(late) = StopReasons[first]
    BY <1>6 DEF StopReason
  <2> HIDE DEF first, reached
  <2>4. StopReason(late) \in {"MAX_STEPS", "MAX_TOOL_CALLS", "MAX_SUB_AGENT_CALLS",
                              "MAX_WALL_TIME", "MAX_PLAN_REVISIONS", "MAX_GATE_REPAIR_ROUNDS", "NO_PROGRESS"}
    BY <1>1, <1>3, <2>2, <2>3
  <2> QED
    BY <1>4, <1>6, <2>4
<1> QED
  BY <1>5, <1>6

\* The risk levels and their order, one by one.
LEMMA RiskLevels ==
  /\ RiskLevel = {"LOW", "MEDIUM", "HIGH", "BLOCKED"}
  /\ RiskOrder["LOW"] = 0 /\ RiskOrder["MEDIUM"] = 1 /\ RiskOrder["HIGH"] = 2 /\ RiskOrder["BLOCKED"] = 3
BY DEF RiskLevel, RiskOrder

\* The risks of some results have a highest one.
LEMMA HighestIsARisk ==
  ASSUME NEW results, results # {}, \A r \in results : r.risk \in RiskLevel
  PROVE  HighestRisk(results) \in {r.risk : r \in results} /\ HighestRisk(results) \in RiskLevel
<1> DEFINE S == {3 - RiskOrder[r.risk] : r \in results}
<1>1. \A x \in RiskLevel : RiskOrder[x] \in 0..3
  BY RiskLevels
<1>2. S \in SUBSET Nat /\ S # {}
  BY <1>1
<1>3. PICK n \in S : \A m \in S : n <= m
  <2> HIDE DEF S
  <2> QED
    BY <1>2, TheLeast
<1>4. PICK top \in results : n = 3 - RiskOrder[top.risk]
  BY <1>3
<1>5. \A r \in results : RiskOrder[r.risk] <= RiskOrder[top.risk]
  <2> TAKE r \in results
  <2>1. 3 - RiskOrder[r.risk] \in S
    OBVIOUS
  <2>2. 3 - RiskOrder[top.risk] <= 3 - RiskOrder[r.risk]
    BY <1>3, <1>4, <2>1
  <2> QED
    BY <1>1, <2>2
<1>6. HighestRisk(results) \in {r.risk : r \in results}
  <2>1. \E x \in {r.risk : r \in results} : \A r \in results : RiskOrder[r.risk] <= RiskOrder[x]
    BY <1>5
  <2> QED
    BY <2>1 DEF HighestRisk
<1> QED
  BY <1>6

\* GateRunner: its result is one, whatever the evidence.
LEMMA GatesAnswer ==
  ASSUME NEW f \in Finding, NEW v \in Verdict, NEW s \in Sql
  PROVE  RunRequest(f, v, s) \in GateResult
<1> DEFINE static == StaticGate(f, s)
           semantic == SemanticGate(v, s)
           output == OutputGate(s, {static, semantic})
           results == {static, semantic, output}
           Decisions == {"PASS", "PASS_WITH_WARNING", "REJECT", "HUMAN_REQUIRED"}
<1>1. static \in GateResult
  <2>1. ValidationRisk(f) \in {"LOW", "MEDIUM", "HIGH", "BLOCKED"}
    BY DEF ValidationRisk, Finding
  <2>2. StaticDecision(f) \in Decisions
    BY <2>1 DEF StaticDecision
  <2> QED
    BY <2>1, <2>2, RiskLevels DEF StaticGate, Result, GateResult
<1>2. semantic \in GateResult
  <2>1. v.risk \in {"LOW", "MEDIUM", "HIGH", "BLOCKED"}
        /\ v.decision \in {"RETURN_SQL", "REGENERATE", "BLOCK", "MANUAL_REQUIRED", "RAISED"}
    BY RiskLevels DEF Verdict
  <2>2. CASE v.decision = "RAISED"
    BY <2>2, RiskLevels DEF SemanticGate, Result, GateResult
  <2>3. CASE v.decision # "RAISED"
    <3>1. Consistent(v) \in {"RETURN_SQL", "REGENERATE", "BLOCK", "MANUAL_REQUIRED"}
          /\ (Consistent(v) = "RETURN_SQL" => v.risk \in {"LOW", "MEDIUM"})
      BY <2>1, <2>3 DEF Consistent
    <3>2. SemanticDecision(v) \in Decisions
      BY <2>1, <3>1 DEF SemanticDecision
    <3>3. semantic = [gate |-> "Semantic", decision |-> SemanticDecision(v), risk |-> v.risk, sql |-> s,
                      regenerate |-> (Consistent(v) = "REGENERATE")]
      BY <2>3 DEF SemanticGate, Result
    <3> QED
      BY <2>1, <3>2, <3>3, RiskLevels DEF GateResult
  <2> QED
    BY <2>2, <2>3
<1>3. output \in GateResult
  BY RiskLevels DEF OutputGate, Result, GateResult
<1> HIDE DEF static, semantic, output
<1>4. CASE Rejecting(static)
  BY <1>1, <1>4 DEF RunRequest, static
<1>5. CASE ~Rejecting(static) /\ Rejecting(semantic)
  BY <1>2, <1>5 DEF RunRequest, static, semantic
<1>6. CASE ~Rejecting(static) /\ ~Rejecting(semantic)
  <2>1. RunRequest(f, v, s) = Aggregate(results, s)
    BY <1>6 DEF RunRequest, static, semantic, output
  <2>2. \A r \in results : r.risk \in RiskLevel /\ r.decision \in Decisions
    BY <1>1, <1>2, <1>3 DEF GateResult
  <2>3. results # {}
    OBVIOUS
  <2> HIDE DEF results
  <2>4. HighestRisk(results) \in RiskLevel
    BY <2>2, <2>3, HighestIsARisk
  <2>5. AggregateDecision(results) \in Decisions
    <3> DEFINE decisions == {r.decision : r \in results}
    <3>1. decisions \subseteq Decisions
      BY <2>2
    <3>2. \/ "REJECT" \in decisions \/ "HUMAN_REQUIRED" \in decisions
          \/ decisions \subseteq {"PASS", "PASS_WITH_WARNING"}
      BY <3>1
    <3> HIDE DEF decisions
    <3> QED
      BY <2>4, <3>2, RiskLevels DEF AggregateDecision, decisions
  <2> QED
    BY <2>1, <2>4, <2>5 DEF Aggregate, Result, GateResult
<1> QED
  BY <1>4, <1>5, <1>6

-----------------------------------------------------------------------------
(* The run *)

Observation ==
  [kind : {"UPDATE_PLAN", "TOOL_CALL", "RUN_SUB_AGENT"}, status : {"SUCCEEDED", "FAILED", "BLOCKED"},
   about : {"plan", "unregistered internal action"} \cup Key \cup {ToolNames[k] : k \in Key} \cup Summaries,
   n : Nat, made : SUBSET (Key \cup {"subagent_diagnosis"})]

\* What the run counted is within its limits, and no regeneration came before
\* the gates.
Counted ==
  /\ run \in [steps : 0..MaxSteps, tools : 0..MaxTools, subs : 0..MaxSubs,
              revisions : 0..MaxRevisions, rounds : 0..1, idle : 0..MaxIdle]
  /\ pc # "done" => run.rounds = 0

\* What it remembers are observations, as many as its context has room for.
Past == seen \in Seq(Observation) /\ Len(seen) <= MaxSeen + 1

Planned == IsPlan(plan) /\ ValidStructure(plan)

\* The workspace's candidate has an artifact, and what reaches the gates is SQL.
Drafted ==
  /\ product \in Sql \cup {NoSql} /\ generated \subseteq Sql
  /\ cand \in [draft : Sql \cup {NoSql}, ref : Sql \cup {NoSql}, formal : Sql \cup {NoSql},
               status : {"NONE", "DRAFT", "GATE_REJECTED", "READY"},
               feedback : {"none", "Static", "Semantic", "GateRunner"}]
  /\ pc = "loop" /\ product # NoSql => cand.ref = product
  /\ pc \in {"gate", "repair"} => cand.draft \in Sql
  /\ last = NoResult \/ last \in GateResult

\* Where the run is, and what else it keeps.
Placed ==
  /\ pc \in {"loop", "gate", "regenerate", "repair", "done"}
  /\ outcome.status \in {"RUNNING", "CANDIDATE_READY", "NO_SQL", "HUMAN_REQUIRED", "FAILED", "RAISED"}
  /\ main \in [agent : Agents, ready : BOOLEAN] /\ unknown \in BOOLEAN /\ judged \in BOOLEAN
  /\ failures \in BOOLEAN /\ keys \subseteq Key

\* An LLM agent that has not planned yet has no revision to its account: what it
\* remembers and what the runner counted ask the same of its next plan.
Trusted == (main.agent = "llm" /\ ~main.ready => run.revisions = 0) /\ LlmIsNeverRefused

MainInv == Counted /\ Past /\ Planned /\ Drafted /\ Placed /\ Trusted

\* The deterministic agent's tools in its order.
Order == <<"log_digest", "diagnosis", "metadata_snapshot", "memory_retrieval", "repair_plan", "candidate_sql">>

Called(n) == {Order[i] : i \in 1..n}

\* Until something fails, the deterministic agent has called the first tools of
\* its order once each, and at most one sub-agent: every call was progress.
Unhindered ==
  main.agent = "deterministic" /\ ~failures =>
    /\ outcome.stop = "NONE"
    /\ pc = "loop" =>
         /\ run.tools \in 0..6 /\ run.subs \in 0..1 /\ run.steps = run.tools + run.subs
         /\ run.idle = 0 /\ run.revisions = 0
         /\ keys = Called(run.tools)
         /\ \A i \in DOMAIN seen : /\ seen[i].kind = "TOOL_CALL" => seen[i].about \in keys
                                   /\ seen[i].kind = "RUN_SUB_AGENT" => run.subs = 1

-----------------------------------------------------------------------------
(* What the agents choose *)

\* DeterministicMainAgent calls a tool or the sub-agent, gives up, or proposes
\* what the workspace holds.
LEMMA DeterministicSays ==
  \/ \E k \in Key \cup {"sub_agent"} : Deterministic = [type |-> "CALL", what |-> k]
  \/ Deterministic = [type |-> "RETURN_HUMAN_REQUIRED"]
  \/ product # NoSql /\ Deterministic = [type |-> "PROPOSE", sql |-> product]
<1>1. Key = {"log_digest", "diagnosis", "metadata_snapshot", "memory_retrieval", "repair_plan", "candidate_sql"}
  BY DEF Key, ToolNames
<1> QED
  BY <1>1 DEF Deterministic

\* LLMMainAgent proposes only the workspace's candidate, and only plans it has
\* validated itself.
LEMMA LlmSays ==
  ASSUME NEW a \in LlmChoices
  PROVE  /\ a.type # "INVALID"
         /\ a.type = "PROPOSE" => a.sql = product /\ product # NoSql
         /\ a.type = "UPDATE_PLAN" =>
              ValidStructure(a.plan) /\ (main.ready => ValidTransition(plan, a.plan))
<1> DEFINE Goal(b) ==
      /\ b.type # "INVALID"
      /\ b.type = "PROPOSE" => b.sql = product /\ product # NoSql
      /\ b.type = "UPDATE_PLAN" =>
           ValidStructure(b.plan) /\ (main.ready => ValidTransition(plan, b.plan))
<1>1. Goal(Deterministic)
  <2>1. CASE \E k \in Key \cup {"sub_agent"} : Deterministic = [type |-> "CALL", what |-> k]
    BY <2>1
  <2>2. CASE Deterministic = [type |-> "RETURN_HUMAN_REQUIRED"]
    BY <2>2
  <2>3. CASE product # NoSql /\ Deterministic = [type |-> "PROPOSE", sql |-> product]
    BY <2>3
  <2> QED
    BY <2>1, <2>2, <2>3, DeterministicSays
<1>2. Goal(FollowPlan)
  <2>1. CASE plan.cur \in StepIds(plan) /\ StepOf(plan, plan.cur).does \in Request
    BY <2>1 DEF FollowPlan
  <2>2. CASE ~(plan.cur \in StepIds(plan) /\ StepOf(plan, plan.cur).does \in Request)
    BY <1>1, <2>2 DEF FollowPlan
  <2> QED
    BY <2>1, <2>2
<1>3. ASSUME NEW p \in Plans, ValidTransition(plan, p)
      PROVE  Goal([type |-> "UPDATE_PLAN", plan |-> p])
  BY <1>3 DEF ValidTransition
<1>4. ASSUME NEW p \in Plans, ValidStructure(p), ~main.ready
      PROVE  Goal([type |-> "UPDATE_PLAN", plan |-> p])
  BY <1>4
<1>5. Goal([type |-> "RETURN_HUMAN_REQUIRED"])
  OBVIOUS
<1>6. product # NoSql => Goal([type |-> "PROPOSE", sql |-> product])
  OBVIOUS
<1>7. \/ a = Deterministic \/ a = FollowPlan
      \/ \E p \in Plans : ValidTransition(plan, p) /\ a = [type |-> "UPDATE_PLAN", plan |-> p]
      \/ \E p \in Plans : ~main.ready /\ ValidStructure(p) /\ a = [type |-> "UPDATE_PLAN", plan |-> p]
      \/ a = [type |-> "RETURN_HUMAN_REQUIRED"]
      \/ product # NoSql /\ a = [type |-> "PROPOSE", sql |-> product]
  BY DEF LlmChoices
<1> HIDE DEF Goal
<1>8. Goal(a)
  BY <1>1, <1>2, <1>3, <1>4, <1>5, <1>6, <1>7
<1> QED
  BY <1>8 DEF Goal

-----------------------------------------------------------------------------
(* What the steps have in common *)

\* An iteration that is not stopped has room for one more of everything.
LEMMA TurnHasRoom ==
  ASSUME Counted, NEW a, Turn(a)
  PROVE  /\ pc = "loop" /\ a \in Choices /\ main' = [main EXCEPT !.ready = @ \/ main.agent = "llm"]
         /\ run.steps \in 0..MaxSteps - 1 /\ run.tools \in 0..MaxTools - 1 /\ run.subs \in 0..MaxSubs - 1
         /\ run.revisions \in 0..MaxRevisions - 1 /\ run.idle \in 0..MaxIdle - 1 /\ run.rounds = 0
<1>1. pc = "loop" /\ a \in Choices /\ main' = [main EXCEPT !.ready = @ \/ main.agent = "llm"]
      /\ StopReason(FALSE) = "NONE"
  BY DEF Turn
<1>2. /\ ~(run.steps >= MaxSteps) /\ ~(run.tools >= MaxTools) /\ ~(run.subs >= MaxSubs)
      /\ ~(run.revisions >= MaxRevisions) /\ ~(run.idle >= MaxIdle)
  BY <1>1, Limits
<1>3. /\ run.steps \in 0..MaxSteps /\ run.tools \in 0..MaxTools /\ run.subs \in 0..MaxSubs
      /\ run.revisions \in 0..MaxRevisions /\ run.idle \in 0..MaxIdle /\ run.rounds = 0
  BY <1>1 DEF Counted
<1>4. MaxSteps \in Nat /\ MaxTools \in Nat /\ MaxSubs \in Nat /\ MaxRevisions \in Nat /\ MaxIdle \in Nat
  BY AgentRunAssumption
<1> QED
  BY <1>1, <1>2, <1>3, <1>4

\* Appending to the trimmed observations keeps them observations, and few.
LEMMA PastKept ==
  ASSUME Past, NEW o \in Observation, seen' = Append(Trim(seen), o)
  PROVE  /\ Past'
         /\ \A i \in DOMAIN seen' : seen'[i] = o \/ \E j \in DOMAIN seen : seen'[i] = seen[j]
<1> DEFINE t == Trim(seen)
<1>1. seen \in Seq(Observation)
  BY DEF Past
<1>2. t \in Seq(Observation) /\ Len(t) <= MaxSeen
      /\ \A i \in 1..Len(t) : \E j \in 1..Len(seen) : t[i] = seen[j]
  <2> HIDE DEF Observation
  <2> QED
    BY <1>1, TrimKeeps
<1> HIDE DEF t
<1>3. seen' = Append(t, o)
  BY DEF t
<1> HIDE DEF Observation
<1>4. seen' \in Seq(Observation) /\ Len(seen') = Len(t) + 1 /\ Len(t) \in Nat
  BY <1>2, <1>3
<1>5. MaxSeen \in Nat
  BY AgentRunAssumption
<1>6. Past'
  BY <1>2, <1>4, <1>5 DEF Past
<1>7. DOMAIN seen' = 1..Len(t) + 1 /\ DOMAIN seen = 1..Len(seen)
  BY <1>1, <1>4
<1>8. \A i \in 1..Len(t) + 1 : seen'[i] = o \/ (i \in 1..Len(t) /\ seen'[i] = t[i])
  BY <1>2, <1>3
<1> QED
  BY <1>2, <1>6, <1>7, <1>8

\* One more observation keeps the LLM agent from being refused, unless it is a
\* plan that was.
LEMMA TrustKept ==
  ASSUME Trusted, NEW o, o.kind = "UPDATE_PLAN" /\ main.agent = "llm" => o.status = "SUCCEEDED",
         \A i \in DOMAIN seen' : seen'[i] = o \/ \E j \in DOMAIN seen : seen'[i] = seen[j],
         main'.agent = main.agent, main.agent = "llm" => main'.ready,
         UNCHANGED outcome
  PROVE  Trusted'
BY DEF Trusted, LlmIsNeverRefused

\* What follows a call keeps the counters, the past and the plan.
LEMMA AfterCallKeeps ==
  ASSUME MainInv, NEW a, Turn(a), NEW o \in Observation, o.kind # "UPDATE_PLAN",
         NEW tools \in 0..1, NEW subs \in 0..1, AfterCall(o, tools, subs)
  PROVE  Counted' /\ Past' /\ Planned' /\ Trusted' /\ failures' \in BOOLEAN /\ pc' = "loop"
         /\ UNCHANGED <<pc, outcome, gateVars>> /\ main' \in [agent : Agents, ready : BOOLEAN]
<1>1. /\ seen' = Append(Trim(seen), o) /\ plan' = Credit(plan, o.status)
      /\ run' = [run EXCEPT !.steps = @ + 1, !.tools = @ + tools, !.subs = @ + subs,
                            !.idle = IF MadeProgress(o, Trim(seen)) THEN 0 ELSE @ + 1]
      /\ failures' = (failures \/ o.status # "SUCCEEDED") /\ UNCHANGED <<pc, outcome, gateVars>>
  BY DEF AfterCall
<1>2. Counted /\ Past /\ Planned /\ Trusted /\ failures \in BOOLEAN /\ main \in [agent : Agents, ready : BOOLEAN]
  BY DEF MainInv, Placed
<1>3. /\ pc = "loop" /\ main' = [main EXCEPT !.ready = @ \/ main.agent = "llm"]
      /\ run.steps \in 0..MaxSteps - 1 /\ run.tools \in 0..MaxTools - 1 /\ run.subs \in 0..MaxSubs - 1
      /\ run.revisions \in 0..MaxRevisions - 1 /\ run.idle \in 0..MaxIdle - 1 /\ run.rounds = 0
  BY <1>2, TurnHasRoom
<1>4. Past' /\ \A i \in DOMAIN seen' : seen'[i] = o \/ \E j \in DOMAIN seen : seen'[i] = seen[j]
  BY <1>1, <1>2, PastKept
<1>5. Planned'
  BY <1>1, <1>2, CreditKeepsPlan DEF Planned
<1>6. Counted'
  <2> DEFINE idle == IF MadeProgress(o, Trim(seen)) THEN 0 ELSE run.idle + 1
  <2>1. run = [steps |-> run.steps, tools |-> run.tools, subs |-> run.subs, revisions |-> run.revisions,
               rounds |-> run.rounds, idle |-> run.idle]
    BY <1>2 DEF Counted
  <2>2. run' = [run EXCEPT !.steps = @ + 1, !.tools = @ + tools, !.subs = @ + subs, !.idle = idle]
    BY <1>1
  <2>3. MaxSteps \in Nat /\ MaxTools \in Nat /\ MaxSubs \in Nat /\ MaxRevisions \in Nat /\ MaxIdle \in Nat
    BY AgentRunAssumption
  <2>4. idle \in 0..MaxIdle
    BY <1>3, <2>3
  <2> HIDE DEF idle
  <2>5. run' = [steps |-> run.steps + 1, tools |-> run.tools + tools, subs |-> run.subs + subs,
                revisions |-> run.revisions, rounds |-> run.rounds, idle |-> idle]
    BY <2>1, <2>2
  <2>6. run.steps + 1 \in 0..MaxSteps
    BY <1>3, <2>3
  <2>7. run.tools + tools \in 0..MaxTools
    BY <1>3, <2>3
  <2>8. run.subs + subs \in 0..MaxSubs
    BY <1>3, <2>3
  <2>9. run.revisions \in 0..MaxRevisions /\ run.rounds \in 0..1
    BY <1>3, <2>3
  <2>10. run'.rounds = 0
    BY <1>3, <2>5
  <2> QED
    BY <2>4, <2>5, <2>6, <2>7, <2>8, <2>9, <2>10 DEF Counted
<1>7. Trusted'
  <2>1. main'.agent = main.agent /\ (main.agent = "llm" => main'.ready)
    BY <1>2, <1>3
  <2> QED
    BY <1>1, <1>2, <1>4, <2>1, TrustKept
<1>8. main' \in [agent : Agents, ready : BOOLEAN]
  BY <1>2, <1>3
<1> QED
  BY <1>1, <1>2, <1>3, <1>4, <1>5, <1>6, <1>7, <1>8

\* A run that ends without touching its plan, its past and its candidates.
LEMMA EndKeeps ==
  ASSUME MainInv, NEW status, NEW stop,
         status \in {"CANDIDATE_READY", "NO_SQL", "HUMAN_REQUIRED", "FAILED", "RAISED"},
         main.agent = "llm" => stop \notin {"NO_CANDIDATE_ARTIFACT", "INVALID_AGENT_ACTION"},
         Finish(status, stop), Counted', keys' \subseteq Key, failures' \in BOOLEAN,
         main' = main \/ main' = [main EXCEPT !.ready = @ \/ main.agent = "llm"],
         run'.revisions = run.revisions,
         UNCHANGED <<plan, seen, cand, unknown, product, generated, last, judged>>
  PROVE  MainInv'
<1>1. pc' = "done" /\ outcome' = [status |-> status, stop |-> stop]
  BY DEF Finish
<1>2. main \in [agent : Agents, ready : BOOLEAN]
  BY DEF MainInv, Placed
<1>3. main' \in [agent : Agents, ready : BOOLEAN] /\ main'.agent = main.agent
      /\ (~main'.ready => main' = main \/ main.agent # "llm")
  <2>1. CASE main' = main
    BY <1>2, <2>1
  <2>2. CASE main' = [main EXCEPT !.ready = @ \/ main.agent = "llm"]
    <3>1. main' = [agent |-> main.agent, ready |-> (main.ready \/ main.agent = "llm")]
      BY <1>2, <2>2
    <3> QED
      BY <1>2, <3>1
  <2> QED
    BY <2>1, <2>2
<1>4. Past' /\ Planned'
  BY DEF MainInv, Past, Planned
<1>5. Drafted'
  BY <1>1 DEF MainInv, Drafted
<1>6. Placed'
  BY <1>1, <1>3 DEF MainInv, Placed
<1>7. Trusted'
  BY <1>1, <1>3 DEF MainInv, Trusted, LlmIsNeverRefused
<1> QED
  BY <1>4, <1>5, <1>6, <1>7 DEF MainInv

\* What an iteration leaves of the counters when it ends the run.
LEMMA OneMoreStep ==
  ASSUME Counted, NEW a, Turn(a), run' = [run EXCEPT !.steps = @ + 1]
  PROVE  Counted' /\ run'.revisions = run.revisions
<1>1. /\ run.steps \in 0..MaxSteps - 1 /\ run.rounds = 0 /\ pc = "loop"
  BY TurnHasRoom
<1>2. run \in [steps : 0..MaxSteps, tools : 0..MaxTools, subs : 0..MaxSubs,
              revisions : 0..MaxRevisions, rounds : 0..1, idle : 0..MaxIdle]
  BY DEF Counted
<1>3. run.steps + 1 \in 0..MaxSteps
  BY <1>1, AgentRunAssumption
<1> QED
  BY <1>1, <1>2, <1>3 DEF Counted

\* AgentRunner: a limit is reached.
LEMMA StopKeeps == ASSUME MainInv, Stop PROVE MainInv'
<1>1. PICK late \in BOOLEAN : Finish("HUMAN_REQUIRED", StopReason(late)) /\ failures' = (failures \/ late)
  BY DEF Stop
<1>2. StopReason(late) \notin {"NO_CANDIDATE_ARTIFACT", "INVALID_AGENT_ACTION"}
  BY Limits
<1>3. UNCHANGED <<run, main, plan, seen, cand, keys, unknown, product, generated, last, judged>>
  BY DEF Stop, workVars, gateVars
<1>4. pc' = "done"
  BY <1>1 DEF Finish
<1>5. Counted'
  BY <1>3, <1>4 DEF MainInv, Counted
<1>6. keys' \subseteq Key /\ failures' \in BOOLEAN
  BY <1>1, <1>3 DEF MainInv, Placed
<1> QED
  BY <1>1, <1>2, <1>3, <1>5, <1>6, EndKeeps

\* RETURN_NO_SQL and RETURN_HUMAN_REQUIRED.
LEMMA ReturnKeeps ==
  ASSUME MainInv, NEW type, NEW status \in {"NO_SQL", "HUMAN_REQUIRED"}, Return(type, status)
  PROVE  MainInv'
<1>1. /\ Turn([type |-> type]) /\ Finish(status, "NONE") /\ run' = [run EXCEPT !.steps = @ + 1]
      /\ UNCHANGED <<plan, seen, cand, keys, unknown, product, generated, last, judged, failures>>
  BY DEF Return, workVars, gateVars
<1>2. Counted' /\ run'.revisions = run.revisions
  BY <1>1, OneMoreStep DEF MainInv
<1>3. main' = [main EXCEPT !.ready = @ \/ main.agent = "llm"]
  BY <1>1 DEF Turn
<1>4. keys' \subseteq Key /\ failures' \in BOOLEAN
  BY <1>1 DEF MainInv, Placed
<1> QED
  BY <1>1, <1>2, <1>3, <1>4, EndKeeps

\* An action the runner does not know; the LLM agent never answers with one.
LEMMA InvalidKeeps == ASSUME MainInv, InvalidAction PROVE MainInv'
<1>1. /\ Turn([type |-> "INVALID"]) /\ Finish("HUMAN_REQUIRED", "INVALID_AGENT_ACTION") /\ failures' = TRUE
      /\ UNCHANGED <<run, plan, seen, cand, keys, unknown, product, generated, last, judged>>
  BY DEF InvalidAction, workVars, gateVars
<1>2. main' = [main EXCEPT !.ready = @ \/ main.agent = "llm"] /\ [type |-> "INVALID"] \in Choices /\ pc' = "done"
  BY <1>1 DEF Turn, Finish
<1>3. main.agent # "llm"
  <2>1. SUFFICES ASSUME main.agent = "llm" PROVE FALSE
    OBVIOUS
  <2>2. [type |-> "INVALID"] \in LlmChoices
    BY <1>2, <2>1 DEF Choices
  <2> QED
    BY <2>2, LlmSays
<1>4. Counted'
  BY <1>1, <1>2 DEF MainInv, Counted
<1>5. keys' \subseteq Key /\ failures' \in BOOLEAN
  BY <1>1 DEF MainInv, Placed
<1> QED
  BY <1>1, <1>2, <1>3, <1>4, <1>5, EndKeeps

\* A status no observation may have ends the run.
LEMMA RaiseKeeps == ASSUME MainInv, NEW r, CallRaises(r) PROVE MainInv'
<1>1. /\ Turn([type |-> "CALL", what |-> r]) /\ Finish("FAILED", "AGENT_RUNTIME_ERROR")
      /\ run' = [run EXCEPT !.steps = @ + 1] /\ failures' = TRUE
      /\ \E K \in IF r = "sub_agent" THEN SubAgentFills ELSE {{}} : keys' = keys \cup K
      /\ UNCHANGED <<plan, seen, cand, unknown, product, generated, last, judged>>
  BY DEF CallRaises, gateVars
<1>2. Counted' /\ run'.revisions = run.revisions
  BY <1>1, OneMoreStep DEF MainInv
<1>3. main' = [main EXCEPT !.ready = @ \/ main.agent = "llm"]
  BY <1>1 DEF Turn
<1>4. \A K \in SubAgentFills : K \subseteq Key
  BY DEF SubAgentFills, AllowedTools, Key, ToolNames
<1>5. keys' \subseteq Key
  BY <1>1, <1>4 DEF MainInv, Placed
<1> QED
  BY <1>1, <1>2, <1>3, <1>5, EndKeeps

\* The agent revises its plan: the runner refuses an LLM agent's plan at no
\* time, since the agent validated it by the same rule.
LEMMA UpdatePlanKeeps == ASSUME MainInv, NEW p \in Plans, UpdatePlan(p) PROVE MainInv'
<1> DEFINE a == [type |-> "UPDATE_PLAN", plan |-> p]
           valid == IF run.revisions = 0 THEN ValidStructure(p) ELSE ValidTransition(plan, p)
           o == IF valid THEN Observed("UPDATE_PLAN", "SUCCEEDED", "plan", run.revisions + 1, {})
                ELSE Observed("UPDATE_PLAN", "BLOCKED", "plan", 0, {})
<1>1. /\ Turn(a) /\ UNCHANGED <<pc, outcome, cand, keys, unknown, product, generated, last, judged>>
      /\ seen' = Append(Trim(seen), o)
      /\ valid => /\ plan' = p /\ UNCHANGED failures
                  /\ run' = [run EXCEPT !.steps = @ + 1, !.revisions = @ + 1, !.idle = 0]
      /\ ~valid => /\ plan' = plan /\ failures' = TRUE
                   /\ run' = [run EXCEPT !.steps = @ + 1, !.idle = @ + 1]
  BY DEF UpdatePlan, workVars, gateVars
<1>2. /\ pc = "loop" /\ a \in Choices /\ main' = [main EXCEPT !.ready = @ \/ main.agent = "llm"]
      /\ run.steps \in 0..MaxSteps - 1 /\ run.tools \in 0..MaxTools - 1 /\ run.subs \in 0..MaxSubs - 1
      /\ run.revisions \in 0..MaxRevisions - 1 /\ run.idle \in 0..MaxIdle - 1 /\ run.rounds = 0
  BY <1>1, TurnHasRoom DEF MainInv
<1>3. main \in [agent : Agents, ready : BOOLEAN]
  BY DEF MainInv, Placed
<1>4. main' \in [agent : Agents, ready : BOOLEAN] /\ main'.agent = main.agent
      /\ (main.agent = "llm" => main'.ready)
  BY <1>2, <1>3
<1>5. valid => ValidStructure(p)
  BY DEF ValidTransition
<1>6. main.agent = "llm" => valid
  <2>1. SUFFICES ASSUME main.agent = "llm" PROVE valid
    OBVIOUS
  <2>2. a \in LlmChoices
    BY <1>2, <2>1 DEF Choices
  <2>3. ValidStructure(p) /\ (main.ready => ValidTransition(plan, p))
    BY <2>2, LlmSays
  <2>4. ~main.ready => run.revisions = 0
    BY <2>1 DEF MainInv, Trusted
  <2> QED
    BY <2>3, <2>4
<1> HIDE DEF valid, a
<1>7. o \in Observation
  <2>1. run.revisions + 1 \in Nat
    BY <1>2
  <2> QED
    BY <2>1 DEF Observation, Observed
<1>8. o.kind = "UPDATE_PLAN" /\ (valid => o.status = "SUCCEEDED")
  BY DEF Observed
<1> HIDE DEF o
<1>9. Past' /\ \A i \in DOMAIN seen' : seen'[i] = o \/ \E j \in DOMAIN seen : seen'[i] = seen[j]
  BY <1>1, <1>7, PastKept DEF MainInv
<1>10. Planned'
  <2>1. IsPlan(p)
    BY PlansAssumption
  <2> QED
    BY <1>1, <1>5, <2>1 DEF MainInv, Planned
<1>11. Counted'
  <2>1. run = [steps |-> run.steps, tools |-> run.tools, subs |-> run.subs, revisions |-> run.revisions,
               rounds |-> run.rounds, idle |-> run.idle]
    BY DEF MainInv, Counted
  <2>2. MaxSteps \in Nat /\ MaxTools \in Nat /\ MaxSubs \in Nat /\ MaxRevisions \in Nat /\ MaxIdle \in Nat
    BY AgentRunAssumption
  <2>3. run.steps + 1 \in 0..MaxSteps
    BY <1>2, <2>2
  <2>4. run.tools \in 0..MaxTools /\ run.subs \in 0..MaxSubs /\ run.rounds \in 0..1
    BY <1>2, <2>2
  <2>5. run.revisions \in 0..MaxRevisions /\ run.revisions + 1 \in 0..MaxRevisions
    BY <1>2, <2>2
  <2>6. run.idle + 1 \in 0..MaxIdle /\ 0 \in 0..MaxIdle
    BY <1>2, <2>2
  <2>7. CASE valid
    <3>1. run' = [steps |-> run.steps + 1, tools |-> run.tools, subs |-> run.subs,
                  revisions |-> run.revisions + 1, rounds |-> run.rounds, idle |-> 0]
      BY <1>1, <2>1, <2>7
    <3>2. run'.rounds = 0
      BY <1>2, <3>1
    <3> QED
      BY <2>3, <2>4, <2>5, <2>6, <3>1, <3>2 DEF Counted
  <2>8. CASE ~valid
    <3>1. run' = [steps |-> run.steps + 1, tools |-> run.tools, subs |-> run.subs,
                  revisions |-> run.revisions, rounds |-> run.rounds, idle |-> run.idle + 1]
      BY <1>1, <2>1, <2>8
    <3>2. run'.rounds = 0
      BY <1>2, <3>1
    <3> QED
      BY <2>3, <2>4, <2>5, <2>6, <3>1, <3>2 DEF Counted
  <2> QED
    BY <2>7, <2>8
<1>12. Trusted'
  <2>1. Trusted /\ UNCHANGED outcome
    BY <1>1 DEF MainInv
  <2> QED
    BY <1>4, <1>6, <1>8, <1>9, <2>1, TrustKept
<1>13. Drafted'
  BY <1>1 DEF MainInv, Drafted
<1>14. Placed'
  BY <1>1, <1>4 DEF MainInv, Placed
<1> QED
  BY <1>9, <1>10, <1>11, <1>12, <1>13, <1>14 DEF MainInv

\* A handler fills its key.
LEMMA ToolSucceedsKeeps == ASSUME MainInv, NEW k \in Key, ToolSucceeds(k) PROVE MainInv'
<1> DEFINE o == Observed("TOOL_CALL", "SUCCEEDED", k, 0, keys')
<1>1. /\ Turn([type |-> "CALL", what |-> k]) /\ AfterCall(o, 1, 0) /\ keys' = keys \cup {k}
      /\ unknown' = unknown \/ unknown' \in BOOLEAN
      /\ \/ UNCHANGED <<product, cand, generated>>
         \/ \E s \in Sql \cup {NoSql} :
              /\ product' = s /\ cand' = IF s = NoSql THEN cand ELSE [cand EXCEPT !.ref = s]
              /\ generated' = generated \cup ({s} \ {NoSql})
  BY DEF ToolSucceeds
<1>2. keys' \subseteq Key
  BY <1>1 DEF MainInv, Placed
<1>3. o \in Observation /\ o.kind # "UPDATE_PLAN"
  <2>1. keys' \in SUBSET (Key \cup {"subagent_diagnosis"})
    BY <1>2
  <2> HIDE DEF Key
  <2> QED
    BY <2>1 DEF Observation, Observed
<1> HIDE DEF o
<1>4. /\ Counted' /\ Past' /\ Planned' /\ Trusted' /\ failures' \in BOOLEAN /\ pc = "loop" /\ pc' = "loop"
      /\ UNCHANGED <<outcome, last, judged>> /\ main' \in [agent : Agents, ready : BOOLEAN]
  BY <1>1, <1>3, AfterCallKeeps, 0 \in 0..1, 1 \in 0..1 DEF gateVars
<1>5. Drafted'
  <2>1. CASE UNCHANGED <<product, cand, generated>>
    BY <1>4, <2>1 DEF MainInv, Drafted
  <2>2. ASSUME NEW s \in Sql \cup {NoSql}, product' = s,
               cand' = IF s = NoSql THEN cand ELSE [cand EXCEPT !.ref = s],
               generated' = generated \cup ({s} \ {NoSql})
        PROVE  Drafted'
    <3>1. cand' \in [draft : Sql \cup {NoSql}, ref : Sql \cup {NoSql}, formal : Sql \cup {NoSql},
               status : {"NONE", "DRAFT", "GATE_REJECTED", "READY"},
               feedback : {"none", "Static", "Semantic", "GateRunner"}]
      BY <2>2 DEF MainInv, Drafted
    <3>2. s # NoSql => cand'.ref = s
      BY <2>2 DEF MainInv, Drafted
    <3>3. generated' \subseteq Sql /\ product' \in Sql \cup {NoSql}
      BY <2>2 DEF MainInv, Drafted
    <3> QED
      BY <1>4, <2>2, <3>1, <3>2, <3>3 DEF MainInv, Drafted
  <2> QED
    BY <1>1, <2>1, <2>2
<1>6. Placed'
  BY <1>1, <1>2, <1>4 DEF MainInv, Placed
<1> QED
  BY <1>4, <1>5, <1>6 DEF MainInv

\* A handler raises, or the tool is not registered.
LEMMA ToolFailsKeeps ==
  ASSUME MainInv, NEW r \in Key \cup {"unregistered"}, ToolFails(r) PROVE MainInv'
<1> DEFINE o == IF r = "unregistered"
                THEN Observed("TOOL_CALL", "BLOCKED", "unregistered internal action", 0, {})
                ELSE Observed("TOOL_CALL", "FAILED", ToolNames[r], 0, keys)
<1>1. /\ Turn([type |-> "CALL", what |-> r]) /\ AfterCall(o, 1, 0)
      /\ UNCHANGED <<cand, keys, unknown, product, generated>>
  BY DEF ToolFails, workVars
<1>2. o \in Observation /\ o.kind # "UPDATE_PLAN"
  <2>1. keys \in SUBSET (Key \cup {"subagent_diagnosis"})
    BY DEF MainInv, Placed
  <2>2. r # "unregistered" => ToolNames[r] \in {ToolNames[k] : k \in Key}
    OBVIOUS
  <2> HIDE DEF Key
  <2> QED
    BY <2>1, <2>2 DEF Observation, Observed
<1> HIDE DEF o
<1>3. /\ Counted' /\ Past' /\ Planned' /\ Trusted' /\ failures' \in BOOLEAN /\ pc = "loop" /\ pc' = "loop"
      /\ UNCHANGED <<outcome, last, judged>> /\ main' \in [agent : Agents, ready : BOOLEAN]
  BY <1>1, <1>2, AfterCallKeeps, 0 \in 0..1, 1 \in 0..1 DEF gateVars
<1>4. Drafted'
  BY <1>1, <1>3 DEF MainInv, Drafted
<1>5. Placed'
  BY <1>1, <1>3 DEF MainInv, Placed
<1> QED
  BY <1>3, <1>4, <1>5 DEF MainInv

\* A sub-agent answers.
LEMMA SubAgentKeeps == ASSUME MainInv, SubAgent PROVE MainInv'
<1>1. PICK status \in {"SUCCEEDED", "FAILED"}, summary \in Summaries :
        AfterCall(Observed("RUN_SUB_AGENT", status, summary, 0, {"subagent_diagnosis"}), 0, 1)
  BY DEF SubAgent
<1> DEFINE o == Observed("RUN_SUB_AGENT", status, summary, 0, {"subagent_diagnosis"})
<1>2. /\ Turn([type |-> "CALL", what |-> "sub_agent"])
      /\ UNCHANGED <<cand, unknown, product, generated>> /\ \E K \in SubAgentFills : keys' = keys \cup K
  BY DEF SubAgent
<1>3. o \in Observation /\ o.kind # "UPDATE_PLAN"
  <2> HIDE DEF Key
  <2> QED
    BY DEF Observation, Observed
<1>4. AfterCall(o, 0, 1)
  BY <1>1
<1> HIDE DEF o
<1>5. /\ Counted' /\ Past' /\ Planned' /\ Trusted' /\ failures' \in BOOLEAN /\ pc = "loop" /\ pc' = "loop"
      /\ UNCHANGED <<outcome, last, judged>> /\ main' \in [agent : Agents, ready : BOOLEAN]
  BY <1>2, <1>3, <1>4, AfterCallKeeps, 0 \in 0..1, 1 \in 0..1 DEF gateVars
<1>6. keys' \subseteq Key
  <2>1. \A K \in SubAgentFills : K \subseteq Key
    BY DEF SubAgentFills, AllowedTools, Key, ToolNames
  <2> QED
    BY <1>2, <2>1 DEF MainInv, Placed
<1>7. Drafted'
  BY <1>2, <1>5 DEF MainInv, Drafted
<1>8. Placed'
  BY <1>2, <1>5, <1>6 DEF MainInv, Placed
<1> QED
  BY <1>5, <1>7, <1>8 DEF MainInv

\* PROPOSE_CANDIDATE: an LLM agent proposes the workspace's candidate, whose
\* artifact is the one the candidate refers to.
LEMMA ProposeKeeps == ASSUME MainInv, NEW s \in Sql, Propose(s) PROVE MainInv'
<1> DEFINE a == [type |-> "PROPOSE", sql |-> s]
<1>1. /\ Turn(a) /\ run' = [run EXCEPT !.steps = @ + 1]
      /\ UNCHANGED <<plan, seen, keys, unknown, product, generated, last, judged>>
  BY DEF Propose, workVars, gateVars
<1>2. Counted /\ Trusted /\ failures \in BOOLEAN /\ keys \subseteq Key /\ main \in [agent : Agents, ready : BOOLEAN]
  BY DEF MainInv, Placed
<1>3. Counted' /\ run'.revisions = run.revisions
  BY <1>1, <1>2, OneMoreStep
<1>4. pc = "loop" /\ a \in Choices /\ main' = [main EXCEPT !.ready = @ \/ main.agent = "llm"]
  BY <1>1 DEF Turn
<1>5. CASE product = s /\ cand.ref = product
  <2>1. pc' = "gate" /\ cand' = [cand EXCEPT !.draft = product, !.status = "DRAFT"] /\ UNCHANGED <<outcome, failures>>
    BY <1>5 DEF Propose
  <2>2. main' \in [agent : Agents, ready : BOOLEAN] /\ main'.agent = main.agent
        /\ (main.agent = "llm" => main'.ready)
    BY <1>2, <1>4
  <2>3. Past' /\ Planned'
    BY <1>1 DEF MainInv, Past, Planned
  <2>4. Drafted'
    <3>1. cand' \in [draft : Sql \cup {NoSql}, ref : Sql \cup {NoSql}, formal : Sql \cup {NoSql},
               status : {"NONE", "DRAFT", "GATE_REJECTED", "READY"},
               feedback : {"none", "Static", "Semantic", "GateRunner"}]
      BY <1>5, <2>1 DEF MainInv, Drafted
    <3>2. cand'.draft \in Sql
      BY <1>5, <2>1 DEF MainInv, Drafted
    <3> QED
      BY <1>1, <2>1, <3>1, <3>2 DEF MainInv, Drafted
  <2>5. Placed'
    BY <1>1, <2>1, <2>2 DEF MainInv, Placed
  <2>6. Trusted'
    BY <1>1, <1>2, <2>1, <2>2 DEF Trusted, LlmIsNeverRefused
  <2> QED
    BY <1>3, <2>3, <2>4, <2>5, <2>6 DEF MainInv
<1>6. CASE ~(product = s /\ cand.ref = product)
  <2>1. Finish("HUMAN_REQUIRED", "NO_CANDIDATE_ARTIFACT") /\ failures' = TRUE /\ UNCHANGED cand
    BY <1>6 DEF Propose
  <2>2. main.agent # "llm"
    <3>1. SUFFICES ASSUME main.agent = "llm" PROVE FALSE
      OBVIOUS
    <3>2. a \in LlmChoices
      BY <1>4, <3>1 DEF Choices
    <3>3. s = product /\ product # NoSql
      BY <3>2, LlmSays
    <3>4. cand.ref = product
      BY <1>4, <3>3 DEF MainInv, Drafted
    <3> QED
      BY <1>6, <3>3, <3>4
  <2>3. keys' \subseteq Key /\ failures' \in BOOLEAN
    BY <1>1, <1>2, <2>1
  <2> HIDE DEF a
  <2> QED
    BY <1>1, <1>3, <1>4, <2>1, <2>2, <2>3, EndKeeps
<1> QED
  BY <1>5, <1>6

\* Only these gates answer for the three of them.
LEMMA GateNames ==
  ASSUME NEW f \in Finding, NEW v \in Verdict, NEW s \in Sql
  PROVE  RunRequest(f, v, s).gate \in {"Static", "Semantic", "GateRunner"}
<1>1. StaticGate(f, s).gate = "Static"
  BY DEF StaticGate, Result
<1>2. SemanticGate(v, s).gate = "Semantic"
  BY DEF SemanticGate, Result
<1>3. \A results : Aggregate(results, s).gate = "GateRunner"
  BY DEF Aggregate, Result
<1> QED
  BY <1>1, <1>2, <1>3 DEF RunRequest

\* A visit to the gates: the candidate, the result and the outcome are of their
\* kinds, and nothing else changes but a regeneration's round.
LEMMA GatesKeep ==
  ASSUME MainInv, pc \in {"gate", "repair"}, NEW r \in GateResult, last' = r, judged' \in BOOLEAN,
         NEW status \in {"CANDIDATE_READY", "NO_SQL", "HUMAN_REQUIRED"},
         outcome' = [status |-> status, stop |-> "NONE"], pc' \in {"regenerate", "done"},
         NEW st \in {"GATE_REJECTED", "READY"},
         NEW formal \in Sql \cup {NoSql}, NEW feedback \in {"none", "Static", "Semantic", "GateRunner"},
         cand' = [cand EXCEPT !.formal = formal, !.status = st, !.feedback = feedback],
         UNCHANGED run \/ (pc' = "done" /\ run' = [run EXCEPT !.rounds = @ + 1]),
         UNCHANGED <<main, plan, seen, keys, unknown, product, generated, failures>>
  PROVE  MainInv'
<1>1. Counted /\ Trusted
  BY DEF MainInv
<1>2. Counted' /\ run'.revisions = run.revisions
  <2>1. CASE UNCHANGED run
    BY <1>1, <2>1 DEF Counted
  <2>2. CASE pc' = "done" /\ run' = [run EXCEPT !.rounds = @ + 1]
    <3>1. run.rounds = 0
      BY <1>1 DEF Counted
    <3>2. run.rounds + 1 \in 0..1
      BY <3>1
    <3> QED
      BY <1>1, <2>2, <3>2 DEF Counted
  <2> QED
    BY <2>1, <2>2
<1>3. Past' /\ Planned'
  BY DEF MainInv, Past, Planned
<1>4. Drafted'
  <2>1. cand' \in [draft : Sql \cup {NoSql}, ref : Sql \cup {NoSql}, formal : Sql \cup {NoSql},
               status : {"NONE", "DRAFT", "GATE_REJECTED", "READY"},
               feedback : {"none", "Static", "Semantic", "GateRunner"}]
    BY DEF MainInv, Drafted
  <2> QED
    BY <2>1 DEF MainInv, Drafted
<1>5. Placed'
  BY DEF MainInv, Placed
<1>6. Trusted'
  BY <1>1, <1>2 DEF Trusted, LlmIsNeverRefused
<1> QED
  BY <1>2, <1>3, <1>4, <1>5, <1>6 DEF MainInv

\* candidate_gate_v1
LEMMA FirstGatesKeep ==
  ASSUME MainInv, NEW f \in Finding, NEW v \in Verdict, FirstGates(f, v) PROVE MainInv'
<1> DEFINE r == RunRequest(f, v, cand.draft)
           accepted == Accepted(r)
<1>1. /\ pc = "gate" /\ last' = r /\ judged' = Deliverable(f, v)
      /\ accepted => cand' = [cand EXCEPT !.formal = cand.draft, !.status = "READY"]
      /\ ~accepted => cand' = [cand EXCEPT !.status = "GATE_REJECTED", !.feedback = r.gate]
      /\ outcome' = [status |-> IF accepted THEN "CANDIDATE_READY" ELSE Rejection(r), stop |-> "NONE"]
      /\ pc' \in {"regenerate", "done"}
      /\ UNCHANGED <<run, main, plan, seen, keys, unknown, product, generated, failures>>
  BY DEF FirstGates, workVars
<1>2. cand.draft \in Sql
  BY <1>1 DEF MainInv, Drafted
<1>3. r \in GateResult /\ r.gate \in {"Static", "Semantic", "GateRunner"}
  BY <1>2, GatesAnswer, GateNames
<1>4. judged' \in BOOLEAN
  <2>1. Deliverable(f, v) \in BOOLEAN
    BY Zenon DEF Deliverable
  <2> QED
    BY <1>1, <2>1
<1>5. Rejection(r) \in {"NO_SQL", "HUMAN_REQUIRED"}
  BY DEF Rejection
<1> HIDE DEF r, accepted
<1>6. cand = [draft |-> cand.draft, ref |-> cand.ref, formal |-> cand.formal,
              status |-> cand.status, feedback |-> cand.feedback]
      /\ cand.formal \in Sql \cup {NoSql} /\ cand.feedback \in {"none", "Static", "Semantic", "GateRunner"}
  BY DEF MainInv, Drafted
<1>7. CASE accepted
  <2>1. cand' = [cand EXCEPT !.formal = cand.draft, !.status = "READY", !.feedback = cand.feedback]
    BY <1>1, <1>6, <1>7
  <2>2. outcome' = [status |-> "CANDIDATE_READY", stop |-> "NONE"]
    BY <1>1, <1>7
  <2> QED
    BY <1>1, <1>2, <1>3, <1>4, <1>6, <2>1, <2>2, GatesKeep
<1>8. CASE ~accepted
  <2>1. cand' = [cand EXCEPT !.formal = cand.formal, !.status = "GATE_REJECTED", !.feedback = r.gate]
    BY <1>1, <1>6, <1>8
  <2>2. outcome' = [status |-> Rejection(r), stop |-> "NONE"]
    BY <1>1, <1>8
  <2> QED
    BY <1>1, <1>3, <1>4, <1>5, <1>6, <2>1, <2>2, GatesKeep
<1> QED
  BY <1>7, <1>8

\* candidate_gate_v2
LEMMA RepairGatesKeep ==
  ASSUME MainInv, NEW f \in Finding, NEW v \in Verdict, RepairGates(f, v) PROVE MainInv'
<1> DEFINE r == RunRequest(f, v, cand.draft)
           accepted == r.decision = "PASS"
<1>1. /\ pc = "repair" /\ last' = r /\ judged' = Deliverable(f, v)
      /\ accepted => cand' = [cand EXCEPT !.formal = cand.draft, !.status = "READY"]
      /\ ~accepted => cand' = [cand EXCEPT !.status = "GATE_REJECTED"]
      /\ outcome' = [status |-> IF accepted THEN "CANDIDATE_READY" ELSE Rejection(r), stop |-> "NONE"]
      /\ pc' = "done" /\ run' = [run EXCEPT !.rounds = @ + 1]
      /\ UNCHANGED <<main, plan, seen, keys, unknown, product, generated, failures>>
  BY DEF RepairGates, workVars
<1>2. cand.draft \in Sql
  BY <1>1 DEF MainInv, Drafted
<1>3. r \in GateResult
  BY <1>2, GatesAnswer
<1>4. judged' \in BOOLEAN
  <2>1. Deliverable(f, v) \in BOOLEAN
    BY Zenon DEF Deliverable
  <2> QED
    BY <1>1, <2>1
<1>5. Rejection(r) \in {"NO_SQL", "HUMAN_REQUIRED"}
  BY DEF Rejection
<1> HIDE DEF r, accepted
<1>6. cand = [draft |-> cand.draft, ref |-> cand.ref, formal |-> cand.formal,
              status |-> cand.status, feedback |-> cand.feedback]
      /\ cand.formal \in Sql \cup {NoSql} /\ cand.feedback \in {"none", "Static", "Semantic", "GateRunner"}
  BY DEF MainInv, Drafted
<1>7. CASE accepted
  <2>1. cand' = [cand EXCEPT !.formal = cand.draft, !.status = "READY", !.feedback = cand.feedback]
    BY <1>1, <1>6, <1>7
  <2>2. outcome' = [status |-> "CANDIDATE_READY", stop |-> "NONE"]
    BY <1>1, <1>7
  <2> QED
    BY <1>1, <1>2, <1>3, <1>4, <1>6, <2>1, <2>2, GatesKeep
<1>8. CASE ~accepted
  <2>1. cand' = [cand EXCEPT !.formal = cand.formal, !.status = "GATE_REJECTED", !.feedback = cand.feedback]
    BY <1>1, <1>6, <1>8
  <2>2. outcome' = [status |-> Rejection(r), stop |-> "NONE"]
    BY <1>1, <1>8
  <2> QED
    BY <1>1, <1>3, <1>4, <1>5, <1>6, <2>1, <2>2, GatesKeep
<1> QED
  BY <1>7, <1>8

\* The generator writes the candidate anew, has no answer, or raises.
LEMMA RegenerateKeeps == ASSUME MainInv, Regenerate PROVE MainInv'
<1>1. /\ pc = "regenerate"
      /\ UNCHANGED <<run, main, plan, seen, keys, unknown, product, last, judged, failures>>
      /\ \/ \E s \in Sql : /\ cand' = [cand EXCEPT !.draft = s, !.ref = s, !.feedback = "none"]
                           /\ generated' = generated \cup {s} /\ pc' = "repair" /\ UNCHANGED outcome
         \/ pc' = "done" /\ UNCHANGED <<outcome, cand, generated>>
         \/ /\ pc' = "done" /\ outcome' = [status |-> "RAISED", stop |-> "NONE"]
            /\ UNCHANGED <<cand, generated>>
  BY DEF Regenerate, Finish, gateVars
<1>2. Counted' /\ Past' /\ Planned'
  BY <1>1 DEF MainInv, Counted, Past, Planned
<1>3. /\ pc' \in {"repair", "done"} /\ UNCHANGED <<run, main, seen, keys, unknown, judged, failures>>
      /\ outcome' = outcome \/ outcome' = [status |-> "RAISED", stop |-> "NONE"]
  <2> HIDE DEF MainInv
  <2> QED
    BY <1>1, Zenon
<1>4. Placed' /\ Trusted'
  <2>1. \/ outcome'.status = outcome.status /\ outcome'.stop = outcome.stop
        \/ outcome'.status = "RAISED" /\ outcome'.stop = "NONE"
    BY <1>3
  <2>2. Placed'
    BY <1>3, <2>1 DEF MainInv, Placed
  <2>3. Trusted'
    BY <1>3, <2>1 DEF MainInv, Trusted, LlmIsNeverRefused
  <2> QED
    BY <2>2, <2>3
<1>5. Drafted'
  <2>1. CASE UNCHANGED <<cand, generated>> /\ pc' = "done"
    BY <1>1, <2>1 DEF MainInv, Drafted
  <2>2. ASSUME NEW s \in Sql, cand' = [cand EXCEPT !.draft = s, !.ref = s, !.feedback = "none"],
               generated' = generated \cup {s}, pc' = "repair"
        PROVE  Drafted'
    <3>1. cand' = [draft |-> s, ref |-> s, formal |-> cand.formal, status |-> cand.status, feedback |-> "none"]
      BY <2>2 DEF MainInv, Drafted
    <3>2. cand' \in [draft : Sql \cup {NoSql}, ref : Sql \cup {NoSql}, formal : Sql \cup {NoSql},
               status : {"NONE", "DRAFT", "GATE_REJECTED", "READY"},
               feedback : {"none", "Static", "Semantic", "GateRunner"}] /\ cand'.draft \in Sql
      BY <3>1 DEF MainInv, Drafted
    <3> QED
      BY <1>1, <2>2, <3>2 DEF MainInv, Drafted
  <2> QED
    BY <1>1, <2>1, <2>2
<1> QED
  BY <1>2, <1>4, <1>5 DEF MainInv

\* A run starts in the invariant, with the initial plan.
LEMMA MainInit == Init => MainInv
<1> SUFFICES ASSUME Init PROVE MainInv
  OBVIOUS
<1>1. Counted
  BY AgentRunAssumption DEF Init, Counted
<1>2. Past
  BY AgentRunAssumption DEF Init, Past
<1>3. Planned
  BY InitialPlanSound DEF Init, Planned
<1>4. Drafted
  BY DEF Init, Drafted
<1>5. Placed
  BY DEF Init, Placed
<1>6. Trusted
  BY DEF Init, Trusted, LlmIsNeverRefused
<1> QED
  BY <1>1, <1>2, <1>3, <1>4, <1>5, <1>6 DEF MainInv

\* Every action keeps it.
LEMMA MainStep == MainInv /\ [Next]_vars => MainInv'
<1> SUFFICES ASSUME MainInv, [Next]_vars PROVE MainInv'
  OBVIOUS
<1>1. CASE Stop
  BY <1>1, StopKeeps
<1>2. CASE Return("RETURN_NO_SQL", "NO_SQL")
  BY <1>2, ReturnKeeps
<1>3. CASE Return("RETURN_HUMAN_REQUIRED", "HUMAN_REQUIRED")
  BY <1>3, ReturnKeeps
<1>4. CASE InvalidAction
  BY <1>4, InvalidKeeps
<1>5. ASSUME NEW p \in Plans, UpdatePlan(p) PROVE MainInv'
  BY <1>5, UpdatePlanKeeps
<1>6. ASSUME NEW k \in Key, ToolSucceeds(k) PROVE MainInv'
  BY <1>6, ToolSucceedsKeeps
<1>7. ASSUME NEW r \in Key \cup {"unregistered"}, ToolFails(r) PROVE MainInv'
  BY <1>7, ToolFailsKeeps
<1>8. CASE SubAgent
  BY <1>8, SubAgentKeeps
<1>9. ASSUME NEW r \in {"bad_input", "sub_agent"}, CallRaises(r) PROVE MainInv'
  BY <1>9, RaiseKeeps
<1>10. ASSUME NEW s \in Sql, Propose(s) PROVE MainInv'
  BY <1>10, ProposeKeeps
<1>11. ASSUME NEW f \in Findings, NEW v \in Verdicts, FirstGates(f, v) \/ RepairGates(f, v)
       PROVE  MainInv'
  BY <1>11, FirstGatesKeep, RepairGatesKeep, AgentRunAssumption
<1>12. CASE Regenerate
  BY <1>12, RegenerateKeeps
<1>13. CASE UNCHANGED vars
  <2>1. Counted' /\ Past' /\ Planned'
    BY <1>13 DEF vars, MainInv, Counted, Past, Planned
  <2>2. Drafted' /\ Placed'
    BY <1>13 DEF vars, MainInv, Drafted, Placed
  <2>3. Trusted'
    BY <1>13 DEF vars, MainInv, Trusted, LlmIsNeverRefused
  <2> QED
    BY <2>1, <2>2, <2>3 DEF MainInv
<1> QED
  BY <1>1, <1>2, <1>3, <1>4, <1>5, <1>6, <1>7, <1>8, <1>9, <1>10, <1>11, <1>12, <1>13 DEF Next

\* Every run of every agent keeps the invariant.
THEOREM MainInvariant == Spec => []MainInv
BY MainInit, MainStep, PTL DEF Spec

\* The counters never pass the configured limits, whatever an iteration counts:
\* the limits are looked at before it, and it adds at most one to each.
THEOREM RunTypeCorrect == Spec => []TypeOK
<1>1. MainInv => TypeOK
  BY DEF MainInv, Counted, Past, Drafted, Placed, TypeOK
<1> QED
  BY <1>1, MainInvariant, PTL

\* Whatever plans an LLM answers with, and however the outcomes of calls are
\* credited to their steps, the plan a run works on is a plan.
THEOREM PlansStaySound == Spec => []PlanStaysSound
<1>1. MainInv => PlanStaysSound
  BY DEF MainInv, Planned, PlanStaysSound
<1> QED
  BY <1>1, MainInvariant, PTL

\* The agent's memory of having planned and the runner's count of revisions
\* never disagree to the agent's harm: what it let through, the runner takes.
THEOREM LlmIsTrusted == Spec => []LlmIsNeverRefused
<1>1. MainInv => LlmIsNeverRefused
  BY DEF MainInv, Trusted
<1> QED
  BY <1>1, MainInvariant, PTL

-----------------------------------------------------------------------------
(* The deterministic agent's run *)

\* The first n tools of the order, tool by tool.
LEMMA CalledSoFar ==
  ASSUME NEW n \in 0..6
  PROVE  /\ Called(n) \subseteq Key
         /\ "log_digest" \in Called(n) <=> 1 <= n
         /\ "diagnosis" \in Called(n) <=> 2 <= n
         /\ "metadata_snapshot" \in Called(n) <=> 3 <= n
         /\ "memory_retrieval" \in Called(n) <=> 4 <= n
         /\ "repair_plan" \in Called(n) <=> 5 <= n
         /\ "candidate_sql" \in Called(n) <=> 6 <= n
<1>1. /\ Order[1] = "log_digest" /\ Order[2] = "diagnosis" /\ Order[3] = "metadata_snapshot"
      /\ Order[4] = "memory_retrieval" /\ Order[5] = "repair_plan" /\ Order[6] = "candidate_sql"
  BY DEF Order
<1>2. \A i \in 1..n : i = 1 \/ i = 2 \/ i = 3 \/ i = 4 \/ i = 5 \/ i = 6
  OBVIOUS
<1>3. Key = {"log_digest", "diagnosis", "metadata_snapshot", "memory_retrieval", "repair_plan", "candidate_sql"}
  BY DEF Key, ToolNames
<1>4. Called(n) \subseteq Key
  BY <1>1, <1>2, <1>3 DEF Called
<1>5. \A j \in 1..6 : Order[j] \in Called(n) <=> j <= n
  <2> TAKE j \in 1..6
  <2>1. ASSUME j <= n PROVE Order[j] \in Called(n)
    BY <2>1 DEF Called
  <2>2. ASSUME NEW i \in 1..n, Order[i] = Order[j] PROVE j <= n
    <3>1. j = 1 \/ j = 2 \/ j = 3 \/ j = 4 \/ j = 5 \/ j = 6
      OBVIOUS
    <3>2. i = j
      BY <1>1, <1>2, <2>2, <3>1
    <3> QED
      BY <3>2
  <2> QED
    BY <2>1, <2>2 DEF Called
<1>6. 1 \in 1..6 /\ 2 \in 1..6 /\ 3 \in 1..6 /\ 4 \in 1..6 /\ 5 \in 1..6 /\ 6 \in 1..6
  OBVIOUS
<1> QED
  BY <1>1, <1>4, <1>5, <1>6

\* The next tool of the order is the one that is called next.
LEMMA CalledNext ==
  ASSUME NEW n \in 0..5
  PROVE  Called(n + 1) = Called(n) \cup {Order[n + 1]}
BY DEF Called

\* With the first tools called, the deterministic agent calls the next one, or a
\* sub-agent if it has not yet.
LEMMA DeterministicGoesOn ==
  ASSUME NEW n \in 0..6, keys = Called(n), NEW r \in Key \cup {"sub_agent"},
         Deterministic = [type |-> "CALL", what |-> r]
  PROVE  \/ r = "sub_agent" /\ run.subs = 0
         \/ n \in 0..5 /\ r # "sub_agent" /\ r = Order[n + 1] /\ r \notin keys
<1>1. /\ "log_digest" \in keys <=> 1 <= n
      /\ "diagnosis" \in keys <=> 2 <= n
      /\ "metadata_snapshot" \in keys <=> 3 <= n
      /\ "memory_retrieval" \in keys <=> 4 <= n
      /\ "repair_plan" \in keys <=> 5 <= n
      /\ "candidate_sql" \in keys <=> 6 <= n
  BY CalledSoFar
<1>2. /\ Order[1] = "log_digest" /\ Order[2] = "diagnosis" /\ Order[3] = "metadata_snapshot"
      /\ Order[4] = "memory_retrieval" /\ Order[5] = "repair_plan" /\ Order[6] = "candidate_sql"
  BY DEF Order
<1>3. Deterministic.type = "CALL" /\ Deterministic.what = r
  OBVIOUS
<1>4. CASE unknown /\ run.subs = 0 /\ 2 <= n
  BY <1>1, <1>3, <1>4 DEF Deterministic
<1>5. CASE ~(unknown /\ run.subs = 0 /\ 2 <= n)
  <2>1. CASE n = 0
    BY <1>1, <1>2, <1>3, <2>1 DEF Deterministic
  <2>2. CASE n = 1
    BY <1>1, <1>2, <1>3, <2>2 DEF Deterministic
  <2>3. CASE n = 2
    BY <1>1, <1>2, <1>3, <1>5, <2>3 DEF Deterministic
  <2>4. CASE n = 3
    BY <1>1, <1>2, <1>3, <1>5, <2>4 DEF Deterministic
  <2>5. CASE n = 4
    BY <1>1, <1>2, <1>3, <1>5, <2>5 DEF Deterministic
  <2>6. CASE n = 5
    BY <1>1, <1>2, <1>3, <1>5, <2>6 DEF Deterministic
  <2>7. CASE n = 6
    BY <1>1, <1>2, <1>3, <1>5, <2>7 DEF Deterministic
  <2> QED
    BY <2>1, <2>2, <2>3, <2>4, <2>5, <2>6, <2>7
<1> QED
  BY <1>4, <1>5

\* A call whose outcome nothing remembered resembles is progress.
LEMMA NewIsProgress ==
  ASSUME Past, NEW o, \A i \in DOMAIN seen : seen[i].kind # o.kind \/ seen[i].about # o.about
  PROVE  MadeProgress(o, Trim(seen))
<1>1. seen \in Seq(Observation) /\ DOMAIN seen = 1..Len(seen)
  BY DEF Past
<1>2. Trim(seen) \in Seq(Observation) /\ \A i \in 1..Len(Trim(seen)) : \E j \in 1..Len(seen) : Trim(seen)[i] = seen[j]
  <2> HIDE DEF Observation
  <2> QED
    BY <1>1, TrimKeeps
<1>3. DOMAIN Trim(seen) = 1..Len(Trim(seen))
  BY <1>2
<1> QED
  BY <1>1, <1>2, <1>3 DEF MadeProgress

\* The limits leave room for every tool, one sub-agent and the proposal; the
\* defaults are 12 steps, 10 tool calls and 4 sub-agents.
RoomForAll == MaxSteps >= 8 /\ MaxTools >= 7 /\ MaxSubs >= 2

\* Unhindered of a step that ends the run: only a failure gives it a reason to stop.
LEMMA UnhinderedEnd ==
  ASSUME Unhindered, main'.agent = main.agent, failures' = failures \/ failures' = TRUE, failures \in BOOLEAN,
         pc' # "loop", UNCHANGED outcome \/ failures' = TRUE \/ outcome'.stop = "NONE"
  PROVE  Unhindered'
BY DEF Unhindered

\* No limit is reached unless time runs out.
LEMMA NoLimitIsReached ==
  ASSUME RoomForAll, MainInv, Unhindered, Stop, main.agent = "deterministic", ~failures
  PROVE  failures'
<1>1. PICK late \in BOOLEAN : StopReason(late) # "NONE" /\ failures' = (failures \/ late)
  BY DEF Stop
<1>2. pc = "loop"
  BY DEF Stop
<1>3. /\ run.tools \in 0..6 /\ run.subs \in 0..1 /\ run.steps = run.tools + run.subs
      /\ run.idle = 0 /\ run.revisions = 0
  BY <1>2 DEF Unhindered
<1>4. run.rounds = 0
  BY <1>2 DEF MainInv, Counted
<1>5. {MaxSteps, MaxTools, MaxSubs, MaxRevisions, MaxIdle, MaxRounds} \subseteq Nat \ {0}
  BY AgentRunAssumption
<1>6. ~(run.steps >= MaxSteps) /\ ~(run.tools >= MaxTools) /\ ~(run.subs >= MaxSubs)
  BY <1>3, <1>5 DEF RoomForAll
<1>7. ~(run.revisions >= MaxRevisions) /\ ~(run.rounds > MaxRounds) /\ ~(run.idle >= MaxIdle)
  BY <1>3, <1>4, <1>5
<1>8. late
  BY <1>1, <1>6, <1>7, Limits
<1> QED
  BY <1>1, <1>8

\* A call of the deterministic agent that succeeds was the next of its order, or
\* its one sub-agent; both are progress.
LEMMA UnhinderedCall ==
  ASSUME MainInv, Unhindered, main.agent = "deterministic", ~failures, ~failures',
         NEW r \in Key \cup {"sub_agent"}, Turn([type |-> "CALL", what |-> r]),
         NEW o, NEW tools \in 0..1, NEW subs \in 0..1, o \in Observation, AfterCall(o, tools, subs),
         \/ /\ r # "sub_agent" /\ o.kind = "TOOL_CALL" /\ o.about = r /\ tools = 1 /\ subs = 0
            /\ keys' = keys \cup {r}
         \/ /\ r = "sub_agent" /\ o.kind = "RUN_SUB_AGENT" /\ tools = 0 /\ subs = 1
            /\ keys' = keys
  PROVE  Unhindered'
<1>1. pc = "loop" /\ [type |-> "CALL", what |-> r] \in Choices
  BY DEF Turn
<1>2. Deterministic = [type |-> "CALL", what |-> r]
  BY <1>1 DEF Choices
<1>3. /\ outcome.stop = "NONE" /\ run.tools \in 0..6 /\ run.subs \in 0..1
      /\ run.steps = run.tools + run.subs /\ run.idle = 0 /\ run.revisions = 0 /\ keys = Called(run.tools)
      /\ \A i \in DOMAIN seen : /\ seen[i].kind = "TOOL_CALL" => seen[i].about \in keys
                                /\ seen[i].kind = "RUN_SUB_AGENT" => run.subs = 1
  BY <1>1 DEF Unhindered
<1>4. \/ r = "sub_agent" /\ run.subs = 0
      \/ run.tools \in 0..5 /\ r # "sub_agent" /\ r = Order[run.tools + 1] /\ r \notin keys
  BY <1>2, <1>3, DeterministicGoesOn
<1>5. MadeProgress(o, Trim(seen))
  <2>1. \A i \in DOMAIN seen : seen[i].kind # o.kind \/ seen[i].about # o.about
    <3>1. CASE r = "sub_agent"
      <4>1. o.kind = "RUN_SUB_AGENT" /\ run.subs = 0
        BY <1>4, <3>1
      <4> QED
        BY <1>3, <4>1
    <3>2. CASE r # "sub_agent"
      <4>1. o.kind = "TOOL_CALL" /\ o.about = r /\ r \notin keys
        BY <1>4, <3>2
      <4> QED
        BY <1>3, <4>1
    <3> QED
      BY <3>1, <3>2
  <2> QED
    BY <2>1, NewIsProgress DEF MainInv
<1>6. /\ run' = [run EXCEPT !.steps = @ + 1, !.tools = @ + tools, !.subs = @ + subs,
                            !.idle = IF MadeProgress(o, Trim(seen)) THEN 0 ELSE @ + 1]
      /\ seen' = Append(Trim(seen), o) /\ UNCHANGED <<pc, outcome>>
  BY DEF AfterCall
<1>7. run' = [steps |-> run.steps + 1, tools |-> run.tools + tools, subs |-> run.subs + subs,
              revisions |-> run.revisions, rounds |-> run.rounds, idle |-> 0]
  <2>1. run = [steps |-> run.steps, tools |-> run.tools, subs |-> run.subs, revisions |-> run.revisions,
               rounds |-> run.rounds, idle |-> run.idle]
    BY DEF MainInv, Counted
  <2>2. run' = [run EXCEPT !.steps = @ + 1, !.tools = @ + tools, !.subs = @ + subs, !.idle = 0]
    BY <1>5, <1>6
  <2> QED
    BY <2>1, <2>2
<1>8. \A i \in DOMAIN seen' : seen'[i] = o \/ \E j \in DOMAIN seen : seen'[i] = seen[j]
  BY <1>6, PastKept DEF MainInv
<1>9. CASE r = "sub_agent"
  <2>1. run.subs = 0 /\ tools = 0 /\ subs = 1 /\ keys' = keys /\ o.kind = "RUN_SUB_AGENT"
    BY <1>4, <1>9
  <2>2. run'.tools = run.tools /\ run'.subs = 1 /\ run'.steps = run.steps + 1 /\ run'.idle = 0 /\ run'.revisions = 0
    BY <1>3, <1>7, <2>1
  <2>3. keys' = Called(run'.tools)
    BY <1>3, <2>1, <2>2
  <2>4. run'.tools \in 0..6 /\ run'.subs \in 0..1 /\ run'.steps = run'.tools + run'.subs
    BY <1>3, <2>1, <2>2
  <2>5. \A i \in DOMAIN seen' : /\ seen'[i].kind = "TOOL_CALL" => seen'[i].about \in keys'
                                /\ seen'[i].kind = "RUN_SUB_AGENT" => run'.subs = 1
    BY <1>3, <1>8, <2>1, <2>2
  <2> QED
    BY <1>3, <1>6, <2>2, <2>3, <2>4, <2>5 DEF Unhindered
<1>10. CASE r # "sub_agent"
  <2>1. run.tools \in 0..5 /\ r = Order[run.tools + 1] /\ tools = 1 /\ subs = 0 /\ keys' = keys \cup {r}
        /\ o.kind = "TOOL_CALL" /\ o.about = r
    BY <1>4, <1>10
  <2>2. run'.tools = run.tools + 1 /\ run'.subs = run.subs /\ run'.steps = run.steps + 1 /\ run'.idle = 0
        /\ run'.revisions = 0
    BY <1>3, <1>7, <2>1
  <2>3. keys' = Called(run'.tools)
    BY <1>3, <2>1, <2>2, CalledNext
  <2>4. run'.tools \in 0..6 /\ run'.subs \in 0..1 /\ run'.steps = run'.tools + run'.subs
    BY <1>3, <2>1, <2>2
  <2>5. \A i \in DOMAIN seen' : /\ seen'[i].kind = "TOOL_CALL" => seen'[i].about \in keys'
                                /\ seen'[i].kind = "RUN_SUB_AGENT" => run'.subs = 1
    BY <1>3, <1>8, <2>1, <2>2
  <2> QED
    BY <1>3, <1>6, <2>2, <2>3, <2>4, <2>5 DEF Unhindered
<1> QED
  BY <1>9, <1>10

\* Other actions the deterministic agent does not choose.
LEMMA DeterministicOnly ==
  ASSUME main.agent = "deterministic", NEW a, Turn(a)
  PROVE  a.type # "UPDATE_PLAN"
<1>1. a = Deterministic
  BY DEF Turn, Choices
<1>2. CASE \E k \in Key \cup {"sub_agent"} : Deterministic = [type |-> "CALL", what |-> k]
  BY <1>1, <1>2
<1>3. CASE Deterministic = [type |-> "RETURN_HUMAN_REQUIRED"]
  BY <1>1, <1>3
<1>4. CASE Deterministic = [type |-> "PROPOSE", sql |-> product]
  BY <1>1, <1>4
<1> QED
  BY <1>2, <1>3, <1>4, DeterministicSays

\* Who the main agent is does not change.
LEMMA SameAgent ==
  ASSUME MainInv, [Next]_vars
  PROVE  main'.agent = main.agent
<1>1. main \in [agent : Agents, ready : BOOLEAN]
  BY DEF MainInv, Placed
<1>2. main' = main \/ main' = [main EXCEPT !.ready = @ \/ main.agent = "llm"]
  BY DEF Next, vars, Stop, Return, InvalidAction, UpdatePlan, ToolSucceeds, ToolFails, SubAgent,
         CallRaises,
         Propose, FirstGates, RepairGates, Regenerate, Turn
<1> QED
  BY <1>1, <1>2

\* No step hinders the deterministic agent unless something fails.
LEMMA UnhinderedStep ==
  ASSUME RoomForAll, MainInv, Unhindered, [Next]_vars
  PROVE  Unhindered'
<1>1. main'.agent = main.agent /\ failures \in BOOLEAN
  BY SameAgent DEF MainInv, Placed
<1>2. SUFFICES ASSUME main.agent = "deterministic", ~failures' PROVE Unhindered'
  BY <1>1 DEF Unhindered
<1>3. CASE Stop
  <2>1. failures' = failures \/ failures' = TRUE
    BY <1>1, <1>3 DEF Stop
  <2> QED
    BY <1>1, <1>2, <1>3, <2>1, NoLimitIsReached
<1>4. ASSUME NEW type, NEW status, Return(type, status) PROVE Unhindered'
  BY <1>1, <1>4, UnhinderedEnd DEF Return, Finish
<1>5. CASE InvalidAction
  BY <1>2, <1>5 DEF InvalidAction
<1>6. ASSUME NEW p \in Plans, UpdatePlan(p) PROVE Unhindered'
  <2>1. Turn([type |-> "UPDATE_PLAN", plan |-> p])
    BY <1>6 DEF UpdatePlan
  <2> QED
    BY <1>2, <2>1, DeterministicOnly
<1>7. ASSUME NEW k \in Key, ToolSucceeds(k) PROVE Unhindered'
  <2> DEFINE o == Observed("TOOL_CALL", "SUCCEEDED", k, 0, keys')
  <2>1. Turn([type |-> "CALL", what |-> k]) /\ AfterCall(o, 1, 0) /\ keys' = keys \cup {k}
    BY <1>7 DEF ToolSucceeds
  <2>2. ~failures
    BY <1>1, <1>2, <2>1 DEF AfterCall
  <2>3. o.kind = "TOOL_CALL" /\ o.about = k
    BY DEF Observed
  <2>4. o \in Observation
    <3>1. keys' \in SUBSET (Key \cup {"subagent_diagnosis"})
      BY <2>1 DEF MainInv, Placed
    <3> HIDE DEF Key
    <3> QED
      BY <3>1 DEF Observation, Observed
  <2>5. k # "sub_agent"
    BY DEF Key, ToolNames
  <2> HIDE DEF o
  <2> QED
    BY <1>2, <2>1, <2>2, <2>3, <2>4, <2>5, UnhinderedCall, 0 \in 0..1, 1 \in 0..1
<1>8. ASSUME NEW r \in Key \cup {"unregistered"}, ToolFails(r) PROVE Unhindered'
  BY <1>2, <1>8 DEF ToolFails, AfterCall, Observed
<1>9. CASE SubAgent
  <2>1. PICK status \in {"SUCCEEDED", "FAILED"}, summary \in Summaries :
          AfterCall(Observed("RUN_SUB_AGENT", status, summary, 0, {"subagent_diagnosis"}), 0, 1)
    BY <1>9 DEF SubAgent
  <2> DEFINE o == Observed("RUN_SUB_AGENT", status, summary, 0, {"subagent_diagnosis"})
  <2>2. Turn([type |-> "CALL", what |-> "sub_agent"]) /\ AfterCall(o, 0, 1) /\ keys' = keys
    <3>1. \A K \in SubAgentFills : K = {}
      BY <1>2 DEF SubAgentFills
    <3>2. \E K \in SubAgentFills : keys' = keys \cup K
      BY <1>9 DEF SubAgent
    <3>3. keys' = keys
      BY <3>1, <3>2
    <3> QED
      BY <1>9, <2>1, <3>3 DEF SubAgent
  <2>3. ~failures
    BY <1>1, <1>2, <2>2 DEF AfterCall
  <2>4. o.kind = "RUN_SUB_AGENT" /\ o \in Observation
    <3> HIDE DEF Key
    <3> QED
      BY DEF Observation, Observed
  <2> HIDE DEF o
  <2> QED
    BY <1>2, <2>2, <2>3, <2>4, UnhinderedCall, 0 \in 0..1, 1 \in 0..1
<1>10. ASSUME NEW r \in {"bad_input", "sub_agent"}, CallRaises(r) PROVE Unhindered'
  BY <1>2, <1>10 DEF CallRaises
<1>11. ASSUME NEW s \in Sql, Propose(s) PROVE Unhindered'
  BY <1>1, <1>11, UnhinderedEnd DEF Propose, Finish
<1>12. ASSUME NEW f \in Findings, NEW v \in Verdicts, FirstGates(f, v) \/ RepairGates(f, v)
       PROVE  Unhindered'
  <2>1. CASE FirstGates(f, v)
    <3>1. pc' # "loop" /\ failures' = failures
      BY <2>1 DEF FirstGates
    <3>2. outcome'.stop = "NONE"
      BY <2>1 DEF FirstGates
    <3> QED
      BY <1>1, <3>1, <3>2, UnhinderedEnd
  <2>2. CASE RepairGates(f, v)
    <3>1. pc' # "loop" /\ failures' = failures
      BY <2>2 DEF RepairGates
    <3>2. outcome'.stop = "NONE"
      BY <2>2 DEF RepairGates
    <3> QED
      BY <1>1, <3>1, <3>2, UnhinderedEnd
  <2> QED
    BY <1>12, <2>1, <2>2
<1>13. CASE Regenerate
  <2>1. pc' # "loop" /\ failures' = failures
    BY <1>13 DEF Regenerate, Finish
  <2>2. outcome' = outcome \/ outcome' = [status |-> "RAISED", stop |-> "NONE"]
    BY <1>13, Zenon DEF Regenerate, Finish
  <2>3. UNCHANGED outcome \/ outcome'.stop = "NONE"
    BY <2>2
  <2> QED
    BY <1>1, <2>1, <2>3, UnhinderedEnd
<1>14. CASE UNCHANGED vars
  BY <1>14 DEF vars, Unhindered
<1> QED
  BY <1>3, <1>4, <1>5, <1>6, <1>7, <1>8, <1>9, <1>10, <1>11, <1>12, <1>13, <1>14 DEF Next

\* The deterministic agent starts with nothing called.
LEMMA UnhinderedInit == Init => Unhindered
<1> SUFFICES ASSUME Init PROVE Unhindered
  OBVIOUS
<1>1. run.tools = 0 /\ run.subs = 0 /\ run.steps = 0 /\ run.idle = 0 /\ run.revisions = 0
      /\ keys = {} /\ seen = <<>> /\ outcome.stop = "NONE"
  BY DEF Init
<1>2. Called(0) = {}
  BY DEF Called
<1> QED
  BY <1>1, <1>2 DEF Unhindered

\* With room for every tool, one sub-agent and the proposal, the deterministic
\* agent reaches no limit unless something fails, whatever the diagnosis says,
\* the generator answers and the gates decide.
THEOREM DeterministicHasRoom ==
  ASSUME RoomForAll
  PROVE  Spec => []LimitsLeaveRoom
<1>1. Unhindered => LimitsLeaveRoom
  BY DEF Unhindered, LimitsLeaveRoom
<1>2. MainInv /\ Unhindered /\ [Next]_vars => Unhindered'
  BY UnhinderedStep
<1> QED
  BY <1>1, <1>2, UnhinderedInit, MainInvariant, PTL DEF Spec

=============================================================================
