-------------------------- MODULE MCAgentBenchmark --------------------------
(* Two scenarios, one of which wants no SQL, an edit of the contracts that *)
(* changes the verdict about one query, and the two orders of the limits.  *)
EXTENDS AgentBenchmark

CONSTANTS good, flawed, today, tomorrow, none

MCScenarios == <<"PRODUCE_SQL", "ABSTAIN">>

MCGoldenSql == [i \in DOMAIN Scenarios |-> good]

MCGrade ==
  [c \in Contracts |-> [i \in DOMAIN Scenarios |-> [s \in Sqls |->
     [execution_success |-> TRUE,
      contract_compliant |-> i = 1 /\ s = good /\ c = today,
      result_correct |-> i = 1 /\ s = good]]]]

MCConfigs == {[live |-> TRUE, max_iterations |-> 1, max_tool_calls |-> 2],
              [live |-> TRUE, max_iterations |-> 2, max_tool_calls |-> 1],
              [live |-> FALSE, max_iterations |-> 3, max_tool_calls |-> 5]}
=============================================================================
