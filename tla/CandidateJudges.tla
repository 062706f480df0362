--------------------------- MODULE CandidateJudges ---------------------------
(***************************************************************************)
(* The judges of a candidate query, each on the same fixture:              *)
(*   - the two-engine benchmark (scripts/run_two_engine_benchmark.py) with *)
(*     the tiers of harness/baseline_ladder.py,                            *)
(*   - the command evaluate-agent (evaluation/agent_eval.py),              *)
(*   - the gym's evaluator (gym/evaluator.py).                             *)
(* They are separate programs with databases of their own and share no     *)
(* state, so each candidate is shown to one after the other.               *)
(***************************************************************************)
EXTENDS Assertions, FixtureAdequacy

CONSTANTS
  Subjects,        \* models of the corpus, with all that belongs to them
  Candidates,      \* queries: mutants, and what an agent writes
  MaxCandidates    \* bound, on actions only

\* The invariants of a metric that declares none (null): UTC is required.
Defaults == [filter |-> FALSE, grain |-> FALSE, utc |-> TRUE]

IsSequence(s) == s \in Seq(ToSet(s))

\* A fixture, the rows of which have its columns.
IsTable(table) ==
  /\ IsSequence(table)
  /\ \A i \in DOMAIN table :
       /\ table[i] = [c \in Columns |-> table[i][c]]
       /\ \A c \in NumericColumns : table[i][c] \in Int \cup {Null}

\* The entries of a YAML file: what is about columns has a list of them.
IsSuite(entries) ==
  /\ IsSequence(entries)
  /\ \A i \in DOMAIN entries :
       /\ "type" \in DOMAIN entries[i]
       /\ entries[i].type \in {"not_null", "unique_key"} => "columns" \in DOMAIN entries[i]

\* schema: the tests of schema.yml, Null without one; assertions: the entries
\* of the semantic suite; contract: what it requires, Null for null.
ASSUME JudgesAssumption ==
  /\ Candidates \subseteq Query
  /\ \A s \in Subjects :
       /\ DOMAIN s = {"table", "parents", "golden", "schema", "realistic",
                      "assertions", "contract"}
       /\ s.golden \in Query /\ s.golden.fault # "parse"
       /\ IsTable(s.table)
       /\ s.schema # Null => IsSequence(s.schema)
       /\ IsSuite(s.realistic) /\ IsSuite(s.assertions)
       /\ s.contract \in [filter : BOOLEAN, grain : BOOLEAN, utc : BOOLEAN] \cup {Null}
  /\ MaxCandidates \in Nat

VARIABLES
  subject,         \* the model in work
  suites,          \* [dbt, semantic]: its suites
  base,            \* the golden query's frame
  pc,              \* the judge whose turn it is
  candidate,       \* the candidate in work, or the last one
  frame,           \* its frame
  caught,          \* [0..4 -> BOOLEAN] on the tiers that have judged it
  record,          \* the model's counters in the script
  verdict,         \* evaluate-agent's report
  class,           \* the gym evaluator's classification
  matrix,          \* its confusion matrix
  judged           \* ghost: candidates so far

vars == <<subject, suites, base, pc, candidate, frame, caught, record, verdict,
          class, matrix, judged>>
-----------------------------------------------------------------------------
(* What SemanticContractValidator.validate has against a query.            *)
Violations(contract, q) ==
  LET invariants == IF contract = Null THEN Defaults ELSE contract
  IN  {c \in {"population"} : invariants.filter /\ ~q.active}
      \cup {c \in {"grain"} : invariants.grain /\ q.shape # "grouped"}
      \cup {c \in {"time"} : invariants.utc /\ q.zone}

(* The connection of the script and of evaluate-agent has the fixture; a   *)
(* caller of the evaluator may give it more.                               *)
ScriptDb == [table |-> subject.table, parents |-> Null]
FullDb == [table |-> subject.table, parents |-> subject.parents]

EvaluateTier1(f) ==
  /\ f.fault = "none" /\ f.rows # <<>>
  /\ NonNull(f.rows, f.columns)

\* An assertion is passed over if the frame lacks its columns.
PassedOver(a, f) ==
  CASE a.type = "relationships" -> a.from_column \notin f.columns
    [] a.type \in {"accepted_range", "accepted_values"} -> a.column \notin f.columns
    [] a.type \in {"not_null", "unique_key"} -> a.columns \cap f.columns = {}
    [] OTHER -> FALSE

\* Mutant: what tier 1 finds is left to tier 1.
EvaluateTier2Alone(f, suite, db) ==
  \A i \in DOMAIN suite :
    IF f.fault = "none" /\ HasEvaluateDf(suite[i])
    THEN PassedOver(suite[i], f) \/ EvaluateDf(suite[i], f, db)
    ELSE Evaluate(suite[i], f, db)

(* With a frame tier 1 is a prerequisite; without one, and for assertions  *)
(* of queries only, the candidate is queried.                              *)
EvaluateTier2(f, suite, db) ==
  /\ f.fault = "none" => EvaluateTier1(f)
  /\ \A i \in DOMAIN suite :
       IF f.fault = "none" /\ HasEvaluateDf(suite[i])
       THEN PassedOver(suite[i], f) \/ EvaluateDf(suite[i], f, db)
       ELSE Evaluate(suite[i], f, db)

EvaluateTier3(q, contract) == Violations(contract, q) = {}

\* The oracle's loop, up to the first assertion that fails.
EvaluateTier4(f, suite, db) ==
  f.fault = "none" /\ \A i \in DOMAIN suite : Evaluate(suite[i], f, db)

TierPasses(tier) ==
  CASE tier = 0 -> TRUE
    [] tier = 1 -> EvaluateTier1(frame)
    [] tier = 2 -> EvaluateTier2(frame, suites.dbt, ScriptDb)
    [] tier = 3 -> EvaluateTier3(candidate, subject.contract)
    [] tier = 4 -> EvaluateTier4(frame, suites.semantic, ScriptDb)
-----------------------------------------------------------------------------
(* AgentSQLEvaluator.evaluate: what is violated, what fails, and the       *)
(* verdict.  Without fixtures nothing is run.                              *)
VerdictOf(fixtures, runs, violations, failures) ==
  CASE fixtures /\ ~runs -> "REJECTED_EXECUTION_FAILURE"
    [] (fixtures => runs) /\ violations # {} /\ failures = {} ->
         "SILENT_SEMANTIC_BREACH_SURVIVED_TESTS"
    [] (fixtures => runs) /\ failures # {} -> "REJECTED_SEMANTIC_DEFECT_DETECTED"
    [] OTHER -> "ACCEPTED_SEMANTICALLY_COMPLIANT"

\* The contract is not asked if the metric declares no invariants.
AgentVerdict(q, f, contract, suite, db, fixtures) ==
  LET runs == fixtures /\ f.fault = "none"
      violations == IF contract = Null THEN {} ELSE Violations(contract, q)
      failures == IF runs THEN {i \in DOMAIN suite : ~Evaluate(suite[i], f, db)}
                  ELSE {}
  IN  IF q.fault = "parse" THEN "REJECTED_SYNTAX_ERROR"
      ELSE VerdictOf(fixtures, runs, violations, failures)

(* BaselineAgentEvaluator.evaluate_candidate: the firewall's decision, and *)
(* the result next to the metric's own.  Its two kinds of errors are one.  *)
Classification(q, f, base_frame, contract, fixture) ==
  LET allowed == q.fault # "parse" /\ Violations(contract, q) = {}
  IN  IF ~fixture \/ f.fault # "none" \/ base_frame.fault # "none"
      THEN "EXECUTION_ERROR"
      ELSE IF allowed
      THEN IF CompareDataframes(f, base_frame)
           THEN "CONTRACT_COMPLIANT_RESULT_MATCH"
           ELSE "CONTRACT_COMPLIANT_RESULT_MISMATCH"
      ELSE IF CompareDataframes(f, base_frame)
           THEN "CONTRACT_VIOLATION_RESULT_MATCH"
           ELSE "CONTRACT_VIOLATION_RESULT_MISMATCH"

Classes == {"CONTRACT_COMPLIANT_RESULT_MATCH", "CONTRACT_COMPLIANT_RESULT_MISMATCH",
            "CONTRACT_VIOLATION_RESULT_MATCH", "CONTRACT_VIOLATION_RESULT_MISMATCH",
            "EXECUTION_ERROR"}

Verdicts == {"REJECTED_SYNTAX_ERROR", "REJECTED_EXECUTION_FAILURE",
             "SILENT_SEMANTIC_BREACH_SURVIVED_TESTS",
             "REJECTED_SEMANTIC_DEFECT_DETECTED", "ACCEPTED_SEMANTICALLY_COMPLIANT"}
-----------------------------------------------------------------------------
NoReport == [verdict |-> Null, fixtures |-> FALSE, suite |-> FALSE]

NoRecord == [valid |-> 0, caught |-> [tier \in 0..4 |-> 0]]

Untouched == [tier \in {} |-> FALSE]

Init ==
  /\ subject \in Subjects
  /\ suites = [dbt |-> <<>>, semantic |-> <<>>]
  /\ base = Null /\ pc = "load" /\ candidate = Null /\ frame = Null
  /\ caught = Untouched /\ record = NoRecord
  /\ verdict = NoReport /\ class = Null
  /\ matrix = [c \in Classes |-> 0] /\ judged = 0

(* The suites are read and the golden query is run; a model whose query    *)
(* fails is left out of the script's scorecard.                            *)
LoadModel ==
  /\ pc = "load"
  /\ suites' = [dbt |-> IF subject.schema = Null THEN FromYamlFile(subject.realistic)
                        ELSE ParseSchemaYml(subject.schema),
                semantic |-> FromYamlFile(subject.assertions)]
  /\ base' \in Execute(subject.golden, subject.table)
  /\ pc' = "next"
  /\ UNCHANGED <<subject, candidate, frame, caught, record, verdict, class,
                 matrix, judged>>

(* The next candidate is executed.                                         *)
NextCandidate ==
  /\ pc = "next" /\ judged < MaxCandidates
  /\ \E q \in Candidates :
       /\ candidate' = q
       /\ frame' \in Execute(q, subject.table)
  /\ caught' = Untouched /\ verdict' = NoReport /\ class' = Null
  /\ judged' = judged + 1 /\ pc' = "compare"
  /\ UNCHANGED <<subject, suites, base, record, matrix>>

\* The script has mutants, which all parse, of golden queries that run; one that
\* returns the golden frame is equivalent.
LeftOut == \/ candidate.fault = "parse" \/ base.fault # "none"
           \/ frame.fault = "none" /\ SameFrame(base, frame)

\* Mutant: mutants that do not run are no valid defects, but are judged.
CompareRunnable ==
  /\ pc = "compare"
  /\ IF LeftOut
     THEN pc' = "agent" /\ UNCHANGED record
     ELSE /\ pc' = "tiers"
          /\ record' = IF frame.fault # "none" THEN record
                       ELSE [record EXCEPT !.valid = @ + 1]
  /\ UNCHANGED <<subject, suites, base, candidate, frame, caught, verdict, class,
                 matrix, judged>>

(* Equivalent mutants are dropped, the others are valid defects.           *)
Compare ==
  /\ pc = "compare"
  /\ IF LeftOut
     THEN pc' = "agent" /\ UNCHANGED record
     ELSE pc' = "tiers" /\ record' = [record EXCEPT !.valid = @ + 1]
  /\ UNCHANGED <<subject, suites, base, candidate, frame, caught, verdict, class,
                 matrix, judged>>

(* A tier's turn; they are asked in order.                                 *)
JudgeTier(tier) ==
  /\ pc = "tiers" /\ DOMAIN caught = 0..(tier - 1)
  /\ caught' = [t \in 0..tier |-> IF t < tier THEN caught[t] ELSE ~TierPasses(tier)]
  /\ record' = IF TierPasses(tier) THEN record
               ELSE [record EXCEPT !.caught[tier] = @ + 1]
  /\ pc' = IF tier = 4 THEN "agent" ELSE "tiers"
  /\ UNCHANGED <<subject, suites, base, candidate, frame, verdict, class, matrix,
                 judged>>

AgentReport(fixtures, suite) ==
  [verdict |-> AgentVerdict(candidate, frame, subject.contract,
                            IF suite THEN suites.semantic ELSE <<>>, FullDb, fixtures),
   fixtures |-> fixtures, suite |-> suite]

(* evaluate-agent, with or without a fixture and assertions.               *)
EvaluateAgent ==
  /\ pc = "agent"
  /\ \E fixtures, suite \in BOOLEAN : verdict' = AgentReport(fixtures, suite)
  /\ pc' = "gym"
  /\ UNCHANGED <<subject, suites, base, candidate, frame, caught, record, class,
                 matrix, judged>>

(* One round of run_benchmark's loop.                                      *)
EvaluateCandidate ==
  /\ pc = "gym"
  /\ \E fixture \in BOOLEAN :
       class' = Classification(candidate, frame, base, subject.contract, fixture)
  /\ matrix' = [matrix EXCEPT ![class'] = @ + 1]
  /\ pc' = "next"
  /\ UNCHANGED <<subject, suites, base, candidate, frame, caught, record, verdict,
                 judged>>

Next ==
  \/ LoadModel \/ NextCandidate \/ Compare
  \/ \E tier \in 0..4 : JudgeTier(tier)
  \/ EvaluateAgent \/ EvaluateCandidate

Spec == Init /\ [][Next]_vars
-----------------------------------------------------------------------------
Judged == pc = "next" /\ judged > 0

ByAllTiers == Judged /\ DOMAIN caught = 0..4

SumOf(m) ==
  m["CONTRACT_COMPLIANT_RESULT_MATCH"] + m["CONTRACT_COMPLIANT_RESULT_MISMATCH"]
  + m["CONTRACT_VIOLATION_RESULT_MATCH"] + m["CONTRACT_VIOLATION_RESULT_MISMATCH"]
  + m["EXECUTION_ERROR"]

(* Types; the counters count the candidates, each tier no more than there  *)
(* are valid defects and the matrix each candidate once.                   *)
TypeOK ==
  /\ subject \in Subjects
  /\ \A s \in {suites.dbt, suites.semantic} : \A i \in DOMAIN s : s[i].type \in Types
  /\ pc \in {"load", "next", "compare", "tiers", "agent", "gym"}
  /\ candidate \in Candidates \cup {Null}
  /\ \E n \in 0..5 : DOMAIN caught = 0..(n - 1)
  /\ \A t \in DOMAIN caught : caught[t] \in BOOLEAN
  /\ \A t \in 0..4 : record.caught[t] \in 0..record.valid
  /\ record.valid \in 0..judged /\ judged \in 0..MaxCandidates
  /\ verdict.verdict \in Verdicts \cup {Null} /\ class \in Classes \cup {Null}
  /\ SumOf(matrix) = IF pc \in {"load", "next"} THEN judged ELSE judged - 1

(* What the judges' answers rest on: each is about the candidate in work,  *)
(* its frame, and the suites as they were loaded; what no tier was asked   *)
(* about has been dropped by the comparison.                               *)
JudgementInv ==
  /\ judged \in Nat
  /\ pc = "load" => judged = 0 /\ caught = Untouched
  /\ judged > 0 => frame.fault = candidate.fault
  /\ \A t \in DOMAIN caught : caught[t] <=> ~TierPasses(t)
  /\ pc = "agent" \/ pc = "gym" \/ Judged => caught # Untouched \/ LeftOut
  /\ pc = "gym" \/ Judged =>
       \E fixtures, suite \in BOOLEAN : verdict = AgentReport(fixtures, suite)
  /\ Judged =>
       \E fixture \in BOOLEAN :
         class = Classification(candidate, frame, base, subject.contract, fixture)

(* A tier has counted no more than there are valid defects, one less       *)
(* while its turn is still to come.                                        *)
RecordInv ==
  /\ judged \in Nat /\ record \in [valid : Nat, caught : [0..4 -> Nat]]
  /\ record.valid + (IF pc = "compare" THEN 1 ELSE 0) <= judged
  /\ \A t \in 0..4 :
       record.caught[t] + (IF pc = "tiers" /\ t \notin DOMAIN caught THEN 1 ELSE 0)
         <= record.valid

\* What an assertion of a suite has: a type that is known, and columns.
Understood(a) ==
  a.type \in Types /\ (a.type \in {"not_null", "unique_key"} => "columns" \in DOMAIN a)

(* What the comparisons rest on: both frames are answers to their queries  *)
(* on the one fixture, and the suites have assertions that are known.      *)
FramesInv ==
  /\ subject \in Subjects
  /\ pc = "load" => judged = 0
  /\ pc # "load" => base \in Execute(subject.golden, subject.table)
  /\ judged > 0 => /\ candidate \in Candidates
                   /\ frame \in Execute(candidate, subject.table)
  /\ \A s \in {suites.dbt, suites.semantic} : \A i \in DOMAIN s : Understood(s[i])

(* A candidate is counted as judged when it is taken up, and in the matrix *)
(* at the end of its round.                                                *)
RoundInv ==
  /\ pc \in {"load", "next", "compare", "tiers", "agent", "gym"}
  /\ judged \in 0..MaxCandidates /\ candidate \in Candidates \cup {Null}
  /\ \E n \in 0..5 : DOMAIN caught = 0..(n - 1)
  /\ \A t \in DOMAIN caught : caught[t] \in BOOLEAN
  /\ verdict.verdict \in Verdicts \cup {Null} /\ class \in Classes \cup {Null}
  /\ matrix \in [Classes -> Nat]
  /\ SumOf(matrix) = IF pc \in {"load", "next"} THEN judged ELSE judged - 1

\* Assertions that fail whatever goes wrong with the query.
Strict(a) == a.type \in {"not_null", "unique_key", "row_count_bounds",
                         "required_population", "metric_value", "expected_grain"}

\* Numbers of a frame, with at most four decimals and less than ten, texts
\* without blanks around them: nothing is rounded, stripped or merely close.
Numbers(f) ==
  {f.rows[i][c] : i \in DOMAIN f.rows, c \in f.columns \cap NumericColumns} \ {Null}

Plain(f) ==
  /\ \A x \in Numbers(f) : x % 10 = 0
  /\ \A i \in DOMAIN f.rows, c \in f.columns \ NumericColumns :
       f.rows[i][c] # Null => Strip(f.rows[i][c]) = f.rows[i][c]

BelowTen(f) == \A x \in Numbers(f) : Abs(x) < 10 * One

(* The judges do not contradict each other, in three programs with code    *)
(* of their own.  What a lower dynamic tier catches the next one does (a   *)
(* query that does not run, if its suite has an assertion that takes an    *)
(* error for a failure).  What the contract or the oracle catches is not   *)
(* accepted of an agent that is tested with the same suite, if the metric  *)
(* declares the invariants: the defaults bind the tiers and the firewall   *)
(* but not evaluate-agent.  A compliant match was never caught by the      *)
(* contract.  And what the script drops as equivalent matches in the gym,  *)
(* in spite of their different tolerances, if numbers are below ten and    *)
(* have four decimals at most.                                             *)
JudgesAgree ==
  /\ ByAllTiers =>
       /\ caught[1] /\ (frame.fault = "none" \/ \E i \in DOMAIN suites.dbt :
                                                  Strict(suites.dbt[i])) => caught[2]
       /\ /\ caught[4] \/ (caught[3] /\ subject.contract # Null)
          /\ verdict.fixtures /\ verdict.suite
          => verdict.verdict # "ACCEPTED_SEMANTICALLY_COMPLIANT"
       /\ class = "CONTRACT_COMPLIANT_RESULT_MATCH" => ~caught[3]
  /\ /\ Judged /\ caught = Untouched /\ frame.fault = "none" /\ base.fault = "none"
     /\ \A f \in {frame, base} : Plain(f) /\ BelowTen(f)
     => class \in {"CONTRACT_COMPLIANT_RESULT_MATCH", "CONTRACT_VIOLATION_RESULT_MATCH",
                   "EXECUTION_ERROR"}
  /\ Judged /\ verdict.verdict \in {"REJECTED_SYNTAX_ERROR", "REJECTED_EXECUTION_FAILURE"} =>
       class = "EXECUTION_ERROR"

NumbersAsText(a) == a.type = "accepted_values" /\ a.column \in frame.floats

HasColumnsOf(a) ==
  "columns" \in DOMAIN a => a.columns # {} /\ a.columns \subseteq frame.columns

(* The two implementations of an assertion agree, with these exceptions on *)
(* a frame tier 1 lets through.  The query is more lenient only where      *)
(* pandas compares numbers as texts, and where texts without quotes are    *)
(* taken for missing columns.  The frame is more lenient only where        *)
(* columns are missing or not named, where accepted values do not make     *)
(* SQL of the column's type, and where the candidate runs by itself but    *)
(* not within the assertion's query.                                       *)
PathsAgree ==
  Judged /\ frame # Null /\ EvaluateTier1(frame) =>
    \A db \in {ScriptDb, FullDb} : \A i \in DOMAIN suites.dbt :
      LET a == suites.dbt[i]
          onFrame == EvaluateTier2(frame, <<a>>, db)
          asQuery == Evaluate(a, Answer(candidate, subject.table), db)
          listed == a.type = "accepted_values"
      IN  /\ asQuery /\ ~NumbersAsText(a) /\ ~(listed /\ NotQuoted(a)) => onFrame
          /\ /\ onFrame /\ HasColumnsOf(a) /\ ~frame.open
             /\ listed => Parses(a) /\ ~Inconvertible(a)
             => asQuery

(* The three comparisons of a result with the golden one, of columns in    *)
(* the same order and cells that need neither rounding nor stripping: what *)
(* the gym finds equal the script does, up to the order of the rows, and   *)
(* the mutation runner; what the script finds equal the gym does, if the   *)
(* numbers are below ten.  On a fixture whose status contrast passes the   *)
(* audit, each of them tells a listing of the active rows from one that    *)
(* lost its filter.                                                        *)
ComparatorsAgree ==
  Judged /\ frame.fault = "none" /\ base.fault = "none" =>
    LET same == \E f \in Execute(candidate, subject.table) : SameFrame(base, f)
    IN  /\ frame.listed = base.listed /\ Plain(frame) /\ Plain(base) =>
             /\ CompareDataframes(frame, base) =>
                  same /\ IsEquivalent(Summary(base), Summary(frame))
             /\ same /\ BelowTen(frame) /\ BelowTen(base) =>
                  CompareDataframes(frame, base)
        /\ /\ Check("Active/Inactive Status Contrast", "PASS")
                \in AuditFixture(subject.table)
           /\ subject.golden.shape = "rows" /\ subject.golden.active
           /\ candidate.shape = "rows" /\ ~candidate.active
           => /\ ~SameFrame(base, frame) /\ ~CompareDataframes(frame, base)
              /\ ~IsEquivalent(Summary(base), Summary(frame))
=============================================================================
