---------------------------- MODULE MutationBench ----------------------------
(***************************************************************************)
(* The mutation benchmark (harness/duckdb_runner.py, harness/validity.py   *)
(* and cli.py benchmark-corpus): for every model of a corpus the mutants   *)
(* of its query are run on a fixture and judged by two assertion suites,   *)
(* one after the other, and the scores of the two are compared.            *)
(*                                                                         *)
(* A model is a record that says what DuckDB and the assertions answer     *)
(* about its query and each mutant; results are the summaries that         *)
(* compare_execution_with_assertions computes of a data frame.             *)
(***************************************************************************)
EXTENDS Integers, Sequences, FiniteSets, MutationEngine, FrameSummary

CONSTANTS
  Assertions,      \* the assertions suites are made of
  Results,         \* what a query returns on the fixture
  Error,           \* DuckDB raises
  Corpora          \* sequences of models, as the command line selects them

SuiteNames == {"standard", "semantic"}

Model == [state : {"ok", "no_files", "unreadable"},
          features : SUBSET Features,
          baseline : Results \cup {Error},
          mutated : [MutationTypes -> Results \cup {Error}],
          fails : [MutationTypes -> SUBSET Assertions],
          suites : [SuiteNames -> SUBSET Assertions]]

ASSUME BenchAssumption ==
  /\ Results \subseteq Frame /\ Error \notin Results
  /\ Corpora \subseteq Seq(Model)

VARIABLES
  corpus,          \* the models of the command's track, in order
  at,              \* the model in work
  pc,              \* where the loop body is
  evaluations,     \* [SuiteNames -> Seq(evaluation)] of the model in work
  tally,           \* [SuiteNames -> the counters of run_assertion_benchmark]
  rows             \* matrix_rows, with the reports they are made from

vars == <<corpus, at, pc, evaluations, tally, rows>>
-----------------------------------------------------------------------------
Classifications == {"EQUIVALENT_ON_FIXTURE", "RUNTIME_ERROR",
                    "VALID_DEFECT_DETECTED", "VALID_DEFECT_SURVIVED"}

\* Mutant: a mutant only counts as detected if the whole suite fails.
DetectedByAll(model, type, suite) ==
  IF model.fails[type] \cap model.suites[suite] = model.suites[suite]
  THEN model.suites[suite] ELSE {}

FailedAssertions(model, type, suite) == model.fails[type] \cap model.suites[suite]

\* Mutant: the assertions are asked before the results are compared.
AssertionsFirst(model, type, suite) ==
  IF Error \in {model.baseline, model.mutated[type]} THEN "RUNTIME_ERROR"
  ELSE IF FailedAssertions(model, type, suite) # {} THEN "VALID_DEFECT_DETECTED"
  ELSE IF IsEquivalent(model.baseline, model.mutated[type])
       THEN "EQUIVALENT_ON_FIXTURE"
  ELSE "VALID_DEFECT_SURVIVED"

(* compare_execution_with_assertions.                                      *)
Classify(model, type, suite) ==
  IF Error \in {model.baseline, model.mutated[type]} THEN "RUNTIME_ERROR"
  ELSE IF IsEquivalent(model.baseline, model.mutated[type])
       THEN "EQUIVALENT_ON_FIXTURE"
  ELSE IF FailedAssertions(model, type, suite) # {} THEN "VALID_DEFECT_DETECTED"
  ELSE "VALID_DEFECT_SURVIVED"

NoTally == [equivalent |-> 0, detected |-> 0, surviving |-> 0]

Counted(t, c) ==
  [equivalent |-> t.equivalent + IF c = "EQUIVALENT_ON_FIXTURE" THEN 1 ELSE 0,
   detected |-> t.detected
     + IF c \in {"VALID_DEFECT_DETECTED", "RUNTIME_ERROR"} THEN 1 ELSE 0,
   surviving |-> t.surviving + IF c = "VALID_DEFECT_SURVIVED" THEN 1 ELSE 0]

(* In tenths of a percent, rounded as round(x, 1) does: the list has at    *)
(* most 8 mutants, so no quotient lies half way between two tenths.        *)
CatchScore(detected, valid) ==
  IF valid > 0 THEN (2000 * detected + valid) \div (2 * valid) ELSE 1000

(* The report: everything that was generated counts as executable.         *)
Report(evals, t) ==
  LET total == Len(evals)
      valid == total - t.equivalent
  IN  [total |-> total, executable |-> total, equivalent |-> t.equivalent,
       valid |-> valid, detected |-> t.detected, surviving |-> t.surviving,
       score |-> CatchScore(t.detected, valid), evaluations |-> evals]

-----------------------------------------------------------------------------
Current == corpus[at]
Mutations == GenerateAllMutations(Current.features)
NothingEvaluated == [s \in SuiteNames |-> <<>>]

Init ==
  /\ corpus \in Corpora
  /\ at = 1 /\ pc = "load"
  /\ evaluations = NothingEvaluated
  /\ tally = [s \in SuiteNames |-> NoTally]
  /\ rows = <<>>

\* Mutant: the runner's lists outlive the model they are about.
LoadWithoutReset ==
  /\ pc = "load" /\ at <= Len(corpus) /\ Current.state = "ok"
  /\ pc' = "standard"
  /\ UNCHANGED <<corpus, at, evaluations, tally, rows>>

(* The next model: fixture and query are read and parsed.                  *)
LoadModel ==
  /\ pc = "load" /\ at <= Len(corpus) /\ Current.state = "ok"
  /\ pc' = "standard"
  /\ evaluations' = NothingEvaluated
  /\ tally' = [s \in SuiteNames |-> NoTally]
  /\ UNCHANGED <<corpus, at, rows>>

(* A directory without a query or a fixture is passed over ...             *)
SkipModel ==
  /\ pc = "load" /\ at <= Len(corpus) /\ Current.state = "no_files"
  /\ at' = at + 1
  /\ UNCHANGED <<corpus, pc, evaluations, tally, rows>>

(* ... one that cannot be read ends the command, before any output file.   *)
LoadRaises ==
  /\ pc = "load" /\ at <= Len(corpus) /\ Current.state = "unreadable"
  /\ pc' = "aborted"
  /\ UNCHANGED <<corpus, at, evaluations, tally, rows>>

(* One round of run_assertion_benchmark's loop.                            *)
EvaluateMutation(s) ==
  /\ pc = s /\ Len(evaluations[s]) < Len(Mutations)
  /\ LET c == Classify(Current, Mutations[Len(evaluations[s]) + 1], s)
     IN  /\ evaluations' = [evaluations EXCEPT ![s] = Append(@, c)]
         /\ tally' = [tally EXCEPT ![s] = Counted(@, c)]
  /\ UNCHANGED <<corpus, at, pc, rows>>

(* The standard suite is through: the semantic one runs on the same list.  *)
NextSuite ==
  /\ pc = "standard" /\ Len(evaluations["standard"]) = Len(Mutations)
  /\ pc' = "semantic"
  /\ UNCHANGED <<corpus, at, evaluations, tally, rows>>

(* Both are: their reports become a row of the matrix.                     *)
AddRow ==
  /\ pc = "semantic" /\ Len(evaluations["semantic"]) = Len(Mutations)
  /\ LET reports == [s \in SuiteNames |-> Report(evaluations[s], tally[s])]
     IN  rows' = Append(rows,
                   [model |-> Current, reports |-> reports,
                    gain |-> reports["semantic"].score - reports["standard"].score])
  /\ at' = at + 1 /\ pc' = "load"
  /\ UNCHANGED <<corpus, evaluations, tally>>

(* The matrix is shown and written.                                        *)
Output ==
  /\ pc = "load" /\ at > Len(corpus)
  /\ pc' = "done"
  /\ UNCHANGED <<corpus, at, evaluations, tally, rows>>

Next ==
  \/ LoadModel \/ SkipModel \/ LoadRaises
  \/ \E s \in SuiteNames : EvaluateMutation(s)
  \/ NextSuite \/ AddRow \/ Output

Spec == Init /\ [][Next]_vars
-----------------------------------------------------------------------------
Tally == [equivalent : Nat, detected : Nat, surviving : Nat]

(* Tenths of a percent. *)
Scores == 0 .. 1000

Reports == [total : Nat, executable : Nat, equivalent : Nat, valid : Nat,
            detected : Nat, surviving : Nat, score : Scores,
            evaluations : Seq(Classifications)]

Row == [model : Model, reports : [SuiteNames -> Reports], gain : Int]

(* Types of the benchmark's state; no suite evaluates more mutants than    *)
(* the model in work has.                                                  *)
TypeOK ==
  /\ corpus \in Seq(Model)
  /\ at \in 1..(Len(corpus) + 1)
  /\ pc \in SuiteNames \cup {"load", "done", "aborted"}
  /\ evaluations \in [SuiteNames -> Seq(Classifications)]
  /\ tally \in [SuiteNames -> Tally]
  /\ rows \in Seq(Row)
  /\ pc \in SuiteNames =>
       /\ at <= Len(corpus)
       /\ \A s \in SuiteNames : Len(evaluations[s]) <= Len(Mutations)

-----------------------------------------------------------------------------
\* What a tally is a count of.
CountOf(evals, classes) == Cardinality({k \in DOMAIN evals : evals[k] \in classes})

(* What makes the properties of rows inductive: a suite's evaluations are  *)
(* those of the model in work and no other's, in the order of its mutants, *)
(* and are complete when the next suite starts ...                         *)
WorkInv ==
  pc \in SuiteNames =>
    /\ \A s \in SuiteNames : \A k \in DOMAIN evaluations[s] :
         evaluations[s][k] = Classify(Current, Mutations[k], s)
    /\ pc = "semantic" => Len(evaluations["standard"]) = Len(Mutations)

(* ... and the counters count them, each once.                             *)
TallyInv ==
  \A s \in SuiteNames :
    /\ tally[s].equivalent = CountOf(evaluations[s], {"EQUIVALENT_ON_FIXTURE"})
    /\ tally[s].detected
         = CountOf(evaluations[s], {"VALID_DEFECT_DETECTED", "RUNTIME_ERROR"})
    /\ tally[s].equivalent + tally[s].detected + tally[s].surviving
         = Len(evaluations[s])

(* The comparison is fair: the two suites of a model are scored on the     *)
(* same mutants.  Which are equivalent and which do not run is found out   *)
(* twice, in two passes that differ in the suite, and must not depend on   *)
(* it; the command's table shows one pass's EQUIVALENT for both.           *)
SuitesShareDenominator ==
  \A i \in DOMAIN rows :
    LET std == rows[i].reports["standard"]
        sem == rows[i].reports["semantic"]
    IN  /\ std.total = sem.total /\ std.valid = sem.valid
        /\ \A j \in 1..std.total :
             \A c \in {"EQUIVALENT_ON_FIXTURE", "RUNTIME_ERROR"} :
               std.evaluations[j] = c <=> sem.evaluations[j] = c

(* A suite with more assertions never scores lower: a semantic suite that  *)
(* includes the standard one has no negative incremental gain.             *)
StrongerSuiteNeverLoses ==
  \A i \in DOMAIN rows :
    LET suites == rows[i].model.suites
    IN  suites["standard"] \subseteq suites["semantic"] => rows[i].gain >= 0
=============================================================================
