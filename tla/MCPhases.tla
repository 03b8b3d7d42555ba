------------------------------- MODULE MCPhases -------------------------------
(* Plans of up to two groups, with tool or LLM sub-tasks or both.           *)
EXTENDS Phases

ToolGroup == [tools |-> "planned", llm |-> "none"]
LlmGroup == [tools |-> "none", llm |-> "planned"]
\* Names only sub-tasks the plan does not have.
NoGroup == [tools |-> "none", llm |-> "none"]
MixedGroup == [tools |-> "planned", llm |-> "planned"]

MCPlans == {<<>>, <<LlmGroup, ToolGroup>>, <<MixedGroup, NoGroup>>}
MCFollowUps == {ToolGroup, LlmGroup}
=============================================================================
