-------------------------------- MODULE MCAgentRun --------------------------------
(***************************************************************************)
(* Finite instances of AgentRun: what an LLM may plan and what the gates   *)
(* may see.                                                                *)
(***************************************************************************)
EXTENDS AgentRun

Todo(id, does, deps) == [id |-> id, does |-> does, deps |-> deps, st |-> "PENDING"]

Done(id, does, deps) == [id |-> id, does |-> does, deps |-> deps, st |-> "COMPLETED"]

NoPlans == {}

\* A first plan with a sub-agent, one that goes on from it with a tool nobody
\* registered, and two an LLM should not have answered: steps that wait for each
\* other, and one whose tool does not take its input.
FewPlans ==
  {[steps |-> <<Todo("a", "log_digest", {}), Todo("b", "sub_agent", {"a"})>>, cur |-> "a"],
   [steps |-> <<Done("a", "log_digest", {}), Todo("b", "sub_agent", {"a"}),
                Todo("c", "unregistered", {"b"})>>, cur |-> "c"],
   [steps |-> <<Todo("a", "log_digest", {"b"}), Todo("b", "sub_agent", {"a"})>>, cur |-> "a"],
   [steps |-> <<Todo("a", "bad_input", {})>>, cur |-> NoStep]}

AllFindings == Finding
AllVerdicts == Verdict

\* Nothing found, a risk to be confirmed, a red line; returned, returned with a
\* risk, regenerate with and without an instruction, refused.
SomeFindings ==
  {[built |-> TRUE, issues |-> i, action |-> a] : i \in BOOLEAN, a \in {"LOW", "MEDIUM"}}
SomeVerdicts ==
  {[decision |-> d, risk |-> r, sound |-> TRUE, instructed |-> i] :
     d \in {"RETURN_SQL", "REGENERATE", "BLOCK"}, r \in {"LOW", "MEDIUM"}, i \in BOOLEAN}
=============================================================================
