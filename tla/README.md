# Formal models of the Semantic Reliability Engine

TLA+ modules beside the Python sources in `src/semantic_reliability` (paths
below are relative to that directory, those under `docs/` to the root): what they model, what TLC checks of
them on small instances, and what TLAPS proves of them for all. To run them:

    tlc -workers 2 -config McpServer_tools.cfg MCMcpServer.tla   # a run
    tlapm McpServer_proofs.tla                                   # proofs

`PROJECT.json` lists components, runs, mutants, hazards, theorems and, under
`map`, the source lines that each definition stands for.

## 1. The system

The engine guards the SQL behind business metrics. A metric has a *contract*
(required filters, dimensions, components of the aggregate, time zone).
Candidate SQL is compared with the metric's own and judged by the contract: in
CI, in an HTTP firewall, or by an agent through an MCP server. A mutation
engine breaks queries on purpose, to score assertion suites, to replay what the
firewall let through, and to make training pairs.

| Part (source) | State it keeps | Operations | Talks to |
|---|---|---|---|
| Contract registry (`firewall/engine.py`, `compiler/schema.py`) | metric -> (definition, version) | load a directory, `register`, `get` | firewall, MCP server |
| Contract validator (`compiler/contracts.py`) | none | `validate` | every gate |
| Semantic firewall (`firewall/engine.py`, `policy.py`, `main.py`) | `audit_log`, Prometheus counters | `evaluate`, policy, trace | registry, validator |
| Replay worker (`replay/`) | results of a cycle; reads log, contracts, fixtures from disk | `run_replay_cycle`, `process_trace`, patch suggestions | firewall's log, mutation engine, runner |
| MCP server (`mcp/server.py`, `handlers.py`) | hash-chained `audit_log`, `checkpoints`, key | `handle_request`, `create_checkpoint`, `verify_*` | registry, validator, agents on stdio |
| Drift detection (`drift/`) | none | normalise, seven analyses | `check`, dbt-check |
| Hybrid router (`firewall/hybrid_router.py`) | a suite in progress | `validate_hybrid` | validator, assertions |
| Adapters (`adapters/`) | none | dbt-check, BigQuery dry run, dbt runner | dbt artifacts, BigQuery |
| Mutation engine (`mutations/`) | none | eight operators | benchmark, gym, replay |
| Mutation benchmark (`harness/duckdb_runner.py`, `cli.py benchmark-corpus`) | counters and evaluations per model | run mutants, classify, report | DuckDB, assertions |
| Semantic gym (`gym/`) | dataset files | `export-gym`, `audit-gym` | corpus, mutation engine, validator |
| Agent benchmark (`benchmark/`) | trajectories, scorecard, artifacts | `benchmark-live`, `benchmark-replay` | model provider, oracle, MCP-like tools |
| Assertions (`assertions/`) | none | ten checks, in SQL and in pandas; YAML registry | runner, ladder, oracle, router |
| Candidate judges (`scripts/run_two_engine_benchmark.py`, `harness/baseline_ladder.py`, `evaluation/agent_eval.py`, `gym/evaluator.py`) | counters, a confusion matrix | judge one query after the other against a fixture | assertions, validator, DuckDB |
| Fixture audit (`harness/fixture_adequacy.py`) | none | `audit_fixture` | judges' fixtures |
| Provenance auditor (`evaluation/provenance_auditor.py`) | clones below the temporary directory, shared by all processes | `audit-provenance` | git, upstream repositories |
| Probes, coverage, scoring, reports, MCP helper registries | none | see section 7 | |

What is hard here: processes that share files without locks (firewall, replay
cron job, deployments, exports and their readers); logs that live in memory and
die with the process; a clone cache that several processes fill and read without
a lock; verdicts kept longer than the contract they rest on;
exceptions half way through a request, a cycle or an export; counters that are
written in two places; one question answered by several programs, each with
code of its own; comparisons that are textual where they claim to be semantic.

What makes each part correct, as the properties below state it: no call is
answered without its event, and a noted digest or a checkpoint shows whether the
history before it was rewritten (MCP server); the difference between counters and
log can be told, and a trace can be re-checked with the query that its client
kept (firewall); what was
allowed is replayed, once per cycle, in spite of bad lines and crashes
(replay); reports add up and suites are compared fairly (benchmark); no leakage
between splits and no half-written dataset (gym); agents keep their limits, are
compared on the same scenarios and a replay admits what it did not grade (agent
benchmark); what the detector misses is known and gates agree (gates); where the
judges of a candidate may contradict one another is known, and so it is of the two
implementations of an assertion (judges); what a claim was passed for did stand
upstream, and over a whole commit the verdict is the right one (provenance).

## 2. The modules

| Module | Models | Composes |
|---|---|---|
| `AuditLedger` | abstract: an append-only ledger with anchors | |
| `McpServer` | `mcp/server.py`, `handlers.py`, `models.py` | implements `AuditLedger` |
| `Firewall` | registry, evaluator, policy, HTTP counters | |
| `ReplayPipeline` | log shipping, `replay/` | `Firewall` |
| `MutationEngine` | which mutants a query gets, in which order | |
| `MutationBench` | runner and `benchmark-corpus` | `MutationEngine`, `FrameSummary` |
| `SemanticGym` | `export-gym`, `audit-gym` under kills and edits | `MutationEngine` |
| `AgentBenchmark` | `benchmark-live`, `benchmark-replay` | |
| `DriftDetector` | the seven analyses, for any comparison of conditions | |
| `QueryMutations` | what each mutation operator does to a query's clauses | `DriftDetector` |
| `ChangeGates` | contract validator; `check`, dbt-check, BigQuery dry run, router; what is said of them | `QueryMutations` |
| `SqlPredicates` | syntax trees of conditions, their text and their meaning; the normaliser; edits of a condition | |
| `SqlChangeGates` | the gates on such conditions; what the normaliser does to rows | `ChangeGates`, `SqlPredicates` |
| `FrameSummary` | what the mutation runner computes of a frame, and when it calls two equivalent | |
| `ResultFrames` | fixtures, results of queries, three comparisons of results | `FrameSummary` |
| `Assertions` | the ten assertions, each as a query and on a frame; the suites | `ResultFrames` |
| `FixtureAdequacy` | the contrasts the fixture audit looks for | `ResultFrames` |
| `CandidateJudges` | two-engine script with its tiers, `evaluate-agent`, the gym's evaluator | `Assertions`, `FixtureAdequacy` |
| `ProvenanceAudit` | `audit-provenance` and the git processes it starts | |
| `MC*` | constants of these for TLC | |
| `Firewall_proofs` | theorems about `Firewall` and `ReplayPipeline` | |
| `McpServer_proofs`, `MutationBench_proofs`, `SemanticGym_proofs`, `AgentBenchmark_proofs`, `ChangeGates_proofs`, `CandidateJudges_proofs`, `ProvenanceAudit_proofs` | theorems about the module of that name | |

State and actions follow the code; where they abstract from it:

- **McpServer.** `audit_log` and `checkpoints` are the server's lists. One
  request is one action, as `run_stdio` serves one at a time:
  `ToolAnswers` (tool ran, event chained, answer), `ResultNotWritten` (the event
  is chained, then `json.dumps` raises on a version or probe that YAML reads as a
  date, and the answer is an internal error), `ToolRaises`,
  `AuditRejected` (tool ran, the event model refuses a `metric_id` that is not
  a string), `AnswerOther` (everything that leaves the state alone). `Restart`
  loses log and checkpoints. Other code in the process may edit a stored event
  (`AlterEntry`), set its digests to any on the log or to recomputed ones
  (`AlterDigests`) and remove one (`RemoveEntry`): enough to chain a rewritten
  history anew. Digests are symbolic: SHA-256 of a body chained on `h`
  is `Append(h, body)`, equal exactly for equal histories, which is what
  collision resistance means; an HMAC is a record of key and content.
- **Firewall.** `evaluate_sql` has no await, so a request is one step:
  `EvaluateDeniesEarly`, `EvaluateRaises`, `EvaluateDecides` (trace, answer,
  counters) and `EvaluateUnanswered` (the version in the registry is no text: the
  trace is appended, the response raises, nothing is counted). The contract's
  verdict on a query is a constant. `hash(sql)` is salted by process and opaque
  (`Hash` gives a token by boot and text). A trace is also `shipped`, written to
  the logger, which outlives the process unless JSON cannot write it; a client
  keeps its query and the trace id of its answer (`kept`).
  `LoadContracts` may give any of several files that define a metric.
- **ReplayPipeline.** Lines reach the file (`GatewayLogs`, perhaps twice;
  `TornLine`); `StartCycle`, `ReadLine`, `EndCycle` are the loop, which steps
  of the firewall, deployments and `KillCycle` interleave with.
- **MutationBench.** A data frame is what the comparison computes of it. One
  action per mutant and suite; a corpus is a sequence of such models.
- **SemanticGym.** A metric file is a record of what loading it, DuckDB and the
  validator answer. Files are read one by one while `EditCorpus` may happen;
  `KillWriting` leaves a prefix of the output.
- **AgentBenchmark.** One action per model call, tool call, artifact and file;
  `Kill` in between, `ChangeContracts` between run and replay. The hash of a
  text is the text.
- **Gates.** What conditions are, when two compare as equivalent, whether one
  occurs in another and what a mutation makes of one are constants of
  `DriftDetector`, `QueryMutations` and `ChangeGates` (`Equivalent`, `OccursIn`,
  `LosingConjunct`, `ShiftingBoundary`, `ConjunctsOf`); a .cfg gives them `SqlPredicates`'
  definitions, in which a WHERE condition is a syntax tree with sqlglot's Paren nodes; a
  printed form is a sequence of words in the order in which texts sort. A word may
  be another in capitals (`Lower`, which the normaliser applies to everything), end
  in or begin with another (so that a required filter is found where only
  `order_status = 'paid'` is left), and have marks in it (components, "time zone"). Any
  other expression is the set of marks in its text. A query is one SELECT
  block. All gates read one dialect. A change is made by hand or by the
  mutation engine, then `check` runs, then one other gate, whose suite of
  assertions is asked one by one.
- **CandidateJudges.** A fixture is a sequence of rows of three columns, numbers in
  hundred-thousandths; a query
  is one of three shapes (rows, grouped, total) with or without its filter, an
  aggregate, its columns in one of two orders, a time zone, an end that runs but
  cannot be wrapped in another query (`open`), or a way to fail. A frame is what
  DuckDB returns of it; groups come in any order. `SameFrame` is
  `assert_frame_equal` with its tolerance and order of columns, `CompareDataframes`
  the gym's with rounding, stripping and sorting, `IsEquivalent` the mutation
  runner's on totals. `LoadModel` reads the suites and runs the golden
  query; then each candidate passes `Compare`, the tiers (`JudgeTier`),
  `EvaluateAgent` and `EvaluateCandidate`, which in the code are separate
  programs and are put in sequence here to compare their answers.
- **ProvenanceAudit.** One action per step that another process can see: looking
  for `.git` (`FindClone`), git looking at the directory (`StartClone`) and, later,
  making `.git` (`InitRepository`), `CloneFails` with git's clean-up, `Fetch`, every
  file it writes (`CheckoutFile`), the time-out of thirty seconds that kills git
  (`TimeOut`), every cited file that is read (`ReadFile`: `ReadInside` the tree, or
  `ReadOutside` for a path that leads out of it; a directory or an unreadable file
  raises, which ends the command, `Crash`), `VerifyClaim`. `Kill` ends an auditor and
  its git anywhere; `Push` moves upstream; `Clear` removes any part of a clone, as
  who clears a temporary directory may. A text is the set of its words.

Definitions called mutants ("Mutant: ...") are wrong versions of the definition
below them, used to show that a property can fail. No specification uses them.

## 3. What the runs check

| Run | Question | States | Time |
|---|---|---|---|
| `McpServer_tools` | Is every answered call on the log, once and numbered, and what else is? Is a verdict on record with its digest? Is the log an append-only ledger? | 9,560 | 25 s |
| `McpServer_checkpoints` | With events edited, chained anew and removed and processes restarted: what do a noted digest and a checkpoint still pin? | 165,128 | 1 min |
| `Firewall` | How do counters and log differ? Can a shipped trace be re-checked? | 1,066,972 | 30 s |
| `Replay` | Does a cycle cover the log? Were survivors allowed? Is every replayable line reported in the end? | 263,745 | 30 s |
| `Replay_traces` | violation: are the firewall's own traces replayed? | | |
| `MutationBench` | Do the suites share a denominator? Can a larger suite lose? | 76,842 | 10 s |
| `Gym` | Do families stay in one split? Is a pair's evidence true of its metric file? Are files whole? | 536,326 | 40 s |
| `AgentBenchmark` | Pairing, artifacts before lines, honest replays, termination | 375,162 | 75 s |
| `Gates` | What may the detector miss? Do the gates contradict one another? What does an approval stand for? | 264,918 | 12 s |
| `Gates_equivalence` | violation: are conditions that compare as equivalent equivalent? | | |
| `Judges` | Where do the judges contradict one another, SQL and pandas versions of an assertion, and three comparisons of results? | 868,920 | 1 min |
| `Provenance` | Did what a claim was passed for stand upstream? Is the verdict over a whole commit the right one? | 2,953,097 | 1.7 min |

Each property of a passing run has a mutant of the code that violates it.

**MCP server.** `OneEventPerAnswer` (no result is sent without an event; what the
log has beyond the answers are calls whose result JSON could not write),
`VerdictsAreOnRecord` (an ALLOW or
REQUIRE_REVIEW is on record under the digest of the whole text, and an ALLOW
was earned), `LedgerSpec` (refinement of `AuditLedger`), `DigestsPinHistory`,
`CheckpointPinsHistory` (also across restarts with the same key and a log grown
back to the same length), `CheckpointsStayValid`. The chain has no key: who can
write to the list can cut it or chain it anew, and `verify_audit_chain` succeeds.
`DigestsPinHistory` says what is left: a log that was left alone verifies, and a
digest that somebody noted earlier is on a log that verifies only if the history
before it is what it was.
**Firewall.** `CountersBalance`: early denials are counted and not logged, traces
whose version is no text are logged and not counted, and there is no other
difference. `TracesAreReproducible`: a shipped trace, with the query that the
client kept under its trace id, says what the definition it names finds, across
restarts and reloads, on the condition that
version labels are not reused, which `register`'s default of `1.0.0` invites.
From the trace alone it cannot be re-checked: the hash of the query can be computed
in its own process only.
**Replay.** `CycleCoversLog`, `SurvivorsWereAllowed`,
`ReplayableLinesAreReported` (liveness). **Benchmark.**
`SuitesShareDenominator`, `StrongerSuiteNeverLoses`. **Gym.**
`FamiliesStaySeparate`, `EvidenceIsBacked` (what a pair says of its two sides and
of the result is true of the metric file it was made of; a result is unchanged only
for want of a fixture or of a value), `NamedSplitsAreClean`,
`FilesAreWhole`. **Agent benchmark.** `ConditionsArePaired`, `ArtifactsPrecedeLines`, `ReplayAdmitsStaleGrades`, `CommandEnds` (liveness).
**Gates.** `MutantsAreSeen` (of one SELECT block with the clauses modelled, the
detector's only blind spots for the mutation
engine are the SELECT list around aggregates and the inside of join conditions),
`ChainsCompareAsBags` (chains of one connective are reported exactly if they differ
in more than order, grouping and case; what is not reported keeps the rows unless
two comparisons differ in case alone), `GatesAgree`, `AllowanceIsEarned` (a dry run that was
allowed is within its budget, an approval of the router was judged),
`DropsBreakTheContract` (a required filter or dimension that a mutation drops is
a violation for every gate, unless its text is within another's that stays).
**Judges.** `JudgesAgree` (what a lower dynamic tier catches the next one does;
what contract or oracle catch is not accepted of an agent tested with the same
suite, if the metric declares its invariants; what the script drops as equivalent
matches in the gym, if numbers are below ten and have four decimals at most),
`PathsAgree`
(each assertion's SQL version is more lenient than its pandas version only where
that compares numbers as texts and where unquoted texts are taken for columns; the
pandas version only where columns are missing or not named, where accepted values are
no SQL of the column's type, and where the candidate's text cannot be wrapped),
`ComparatorsAgree` (for columns in the same order and cells that need no rounding:
what the gym finds equal the script does up to row order, and so does the mutation
runner, and below ten conversely; on a fixture with a status contrast a dropped
filter shows in a listing). The exceptions are the code's, and each of them occurs
in the run: without any of them the property fails.
**Provenance.** `PassedWasThere` (for a claim whose paths are within the tree:
every symbol of a claim that passed stood in a file that it cites, and one of these
did exist, upstream, although clones are cut off,
refused, mixed, cleared, and read while they are written), `WholeCommitsDecide`
(where the directory held all of one commit each time a file was looked for, the
claim passed just if it stands in that commit).

### Findings

1. **The firewall's traces cannot be replayed** (`Replay_traces`). The worker
   needs `sql` (`replay/worker.py:79`), the trace has only its hash
   (`firewall/engine.py:118-129`), though
   `docs/PHASE_8_2_REPLAY_WORKER_ARCHITECTURE.md:37` names those traces as its input.
2. **The normaliser equates conditions that select different rows**
   (`Gates_equivalence`). Parentheses below the root are dropped and the rest is
   compared as text (`drift/normalizer.py:65-92`), so `(a OR b) AND c` and
   `a OR b AND c` are "logically equivalent" (line 79), and so are `NOT (a AND b)`
   and `NOT a AND b`.

More places where the code does not do what a document says are in section 5: the
models do what the code does there, and the properties say how far it goes.

### Bounds

| Constants | Bound | Why it is enough |
|---|---|---|
| `MaxEvents`, `MaxCheckpoints`, `MaxBoots`, `MaxCalls` (McpServer) | 1-2 | an event tampered with before and after a checkpoint, a log grown back to the same length after a restart; the theorems hold for every bound |
| `MaxIds`, `MaxAlterations` (McpServer) | 3-4, 0 and 3 | two events, a checkpoint and an event whose result is not written; an edit with its own and the next event's digest computed anew |
| `MaxRequests`, `MaxRegisters`, `MaxBoots` (Firewall) | 3 requests, 1, 2 boots | a trace, a replaced contract, a trace after it, a restart in between; two text labels, a date and a float; proved for every bound |
| `MaxLines`, `MaxCrashes`, `MaxDeploys` (Replay) | 2, 1, 1 | a line that raises before one that is replayed, a killed cycle, a moved contract |
| `MaxExports`, `MaxEdits` (Gym) | 2, 1 | two exports to one or two files with the corpus edited in between |
| `MaxRuns`, `MaxReplays`, `MaxChanges`, `Rollouts` (AgentBenchmark) | 2, 1, 1, 1 | a run after a killed run over the same artifacts, a replay under changed contracts |
| `Corpora` (MutationBench) | 2 mutants per query, up to 3 models | all combinations of 6 frames or an error and all assertion outcomes |
| `MaxCandidates` (Judges) | 1 | candidates are judged independently and only counters outlast one; 23 queries on 10 fixtures of up to 3 rows, under every combination of 3 golden queries, 5 schemas, 3 suites, 2 contracts |
| `MaxAudits`, `MaxClears` (Provenance) | 2 commands by 2 auditors, 1 | one clones while the other reads or is refused; two repositories of one name, of which one drops a column; a path out of the tree and one of a directory; a command may also be killed and followed by a second; proved for every bound |
| `MCBases`, `MCEdits` (Gates) | 33 queries with all their mutants, 30 x 30 pairs of conditions, 17 edits of 3 queries | every analysis and every gate branch fires |

`McpServer_checkpoints` runs without registry entries, with
`VIEW MCWithoutAnswer`, which leaves out `resp` (no guard reads it, and none of
the run's properties mentions it), with `MCCounts`, which drops the steps that
only answer, and with the constraint `MCOneCall`: of the tools one call stands for
all, as without a registry they leave the same event, and a call whose event was
rejected, which leaves none, is cut off.
`McpServer_tools` has three metrics: in scope, in scope with a date for a version,
out of scope. Its constraint `MCBrief` keeps to the configured key, which one
process only reads to sign, and does not go on from a request that was rejected
once the bound on calls is reached. Provenance uses symmetry of the two auditors, which are
interchangeable: only `audit` is indexed by them. Deadlock is not checked: every one of these
programs may stop, and the bounds stop the models.

### Fairness

`Replay`: `WF_vars(Cycle)`. `replay/main.py` is the entry point of a cron job,
which starts cycles for ever, and a cycle does not wait for anything. Nothing is
assumed of the firewall, of deployments, or of who writes the log. The property
holds though cycles may be killed, as kills are bounded.
`AgentBenchmark`: `WF_vars(LiveStep)`. The process goes on unless killed; a call
of the model ends after 60 s at the latest (`benchmark/llm_client.py:47,74`).
Starts and replays are not fair: nobody has to run them.

## 4. What is proved

For every value of the constants that satisfies the modules' `ASSUME`, without
the bounds of the runs (the bounds are constants too and no proof uses them):

| Theorem | States |
|---|---|
| `McpServer_proofs!TypeCorrect` | `SpecAltering => []TypeOK` |
| `McpServer_proofs!ChainInvariant` | the inductive invariant below |
| `McpServer_proofs!DigestsTellHistory` | `[]DigestsPinHistory` |
| `McpServer_proofs!CheckpointsPinHistory` | `[]CheckpointPinsHistory` |
| `McpServer_proofs!CheckpointsKeepVerifying` | `[]CheckpointsStayValid` |
| `McpServer_proofs!ImplementsLedger` | `Spec => LedgerSpec` |
| `McpServer_proofs!AnswersAreAudited` | `[]OneEventPerAnswer` |
| `McpServer_proofs!VerdictsRecorded` | `[]VerdictsAreOnRecord` |
| `Firewall_proofs!TypeCorrect` | `Spec => []TypeOK` |
| `Firewall_proofs!Balanced` | `[]CountersBalance` |
| `Firewall_proofs!Reproducible` | `[]TracesAreReproducible` |
| `Firewall_proofs!PipelineTypeCorrect` | `PSpec => []PTypeOK` |
| `Firewall_proofs!CyclesAreComplete` | `PSpec => []CycleCoversLog` |
| `Firewall_proofs!SurvivorsAllowed` | `PSpec => []SurvivorsWereAllowed` |
| `MutationBench_proofs!BenchTypeCorrect` | `[]TypeOK` |
| `MutationBench_proofs!FairComparison` | `[]SuitesShareDenominator` |
| `MutationBench_proofs!NoNegativeGain` | `[]StrongerSuiteNeverLoses` |
| `SemanticGym_proofs!GymTypeCorrect` | `[]TypeOK` |
| `SemanticGym_proofs!WholeFiles` | `[]FilesAreWhole` |
| `SemanticGym_proofs!SeparateFamilies` | `[]FamiliesStaySeparate` |
| `SemanticGym_proofs!BackedEvidence` | `[]EvidenceIsBacked` |
| `SemanticGym_proofs!CleanSplits` | `[]NamedSplitsAreClean` |
| `AgentBenchmark_proofs!BenchmarkTypeCorrect` | `[]TypeOK` |
| `AgentBenchmark_proofs!LinesHaveArtifacts` | `[]ArtifactsPrecedeLines` |
| `AgentBenchmark_proofs!StaleGradesAdmitted` | `[]ReplayAdmitsStaleGrades` |
| `AgentBenchmark_proofs!PairedConditions` | `[]ConditionsArePaired` |
| `AgentBenchmark_proofs!RunsGetShorter` | `StepsRunOut`: every step of a run leaves fewer of the steps the limits allow |
| `ChangeGates_proofs!GatesTypeCorrect` | `[]TypeOK` |
| `ChangeGates_proofs!NoContradiction` | `[]GatesAgree` |
| `ChangeGates_proofs!EarnedAllowance` | `[]AllowanceIsEarned` |
| `ChangeGates_proofs!TwoBlindSpots` | `[]MutantsAreSeen` |
| `ChangeGates_proofs!DropsAreCaught` | `[]DropsBreakTheContract` |
| `CandidateJudges_proofs!TypeCorrect` | `Spec => []TypeOK` |
| `CandidateJudges_proofs!JudgesConsistent` | `[]JudgesAgree` |
| `CandidateJudges_proofs!PathsConsistent` | `[]PathsAgree` |
| `CandidateJudges_proofs!ComparatorsConsistent` | `[]ComparatorsAgree` |
| `CandidateJudges_proofs!RatesAreRates` | no tier counts more than there are valid defects, which are no more than the candidates |
| `ProvenanceAudit_proofs!TypeCorrect` | `Spec => []TypeOK` |
| `ProvenanceAudit_proofs!PassedClaimsWereThere` | `[]PassedWasThere` |
| `ProvenanceAudit_proofs!WholeClonesDecide` | `[]WholeCommitsDecide` |

The assumptions say that a constant has its
type and that the marker for "nothing" is not one of the values; those that
say more, `BasesAssumption` and `MutantsAssumption` of `ChangeGates`, are under
*Gates*. TLC evaluates all of them in every run of the module.

*MCP server.* What verification returns is not inductive: it compares digests
that only mean something together with the events they were computed of. `IInv`
adds that meaning: as long as nobody tampers, event i's digest is the sequence of
the first i bodies (`ChainInv`) and a checkpoint carries the digest of the bodies it
was taken over, under the process's key (`CheckpointInv`); what was noted or held
carries the digest of the bodies it was taken over, whatever has become of the log
(`HeldInv`). A log that nobody touched then verifies (`ChainVerifies`). Of one that
was touched only one thing is known, that its digests fit together: by taking the
least event for which it is not so, each stands for all that the log says up to it
(`VerifiedDigests`), so that a digest on it that was noted before, or is in a
checkpoint, pins the history (`DigestPins`). Refinement needs `Honest`: in `Spec`
nobody tampers. `AnswersAreAudited` needs `IdInv`: ids on the log are below
`next_id`; that a result which cannot be written quotes a contract in scope is
`Unwritten`. The proofs of invariants are over
`SpecAltering`, the larger specification, but for `AnswersAreAudited`: a log that is
cut has fewer events than there were answers.

*Firewall.* `CountersBalance` is inductive with the types; the work is in
`TracesAppend` and `CountDecided` (what one more trace adds to those with a text for
a version and to the others, and one decision to the counters).
`TracesAreReproducible` rests on `LabelsInv`: the ghost `labels` has every entry
the registries ever had, and one that explains each shipped trace whose answer a
client kept; ids are never used again, so that the two are of one request.

*Replay.* The pipeline's steps are steps of the firewall or leave it alone, so
the firewall's types carry over. `SurvivorsWereAllowed` speaks of a decision made
long before: `LastInv` (an answer that allows was earned under the contract it
names), `LogInv` (each line of the file repeats such an answer and its SQL, if it
has one, is the query's) and `ResultsInv` (each result is of a line that was allowed
and that the cycle has passed) carry it from the request to the report.
`CycleCoversLog` needs `ResultsInv` too: a new result is of a later line than all
there are.

*Mutation benchmark.* The properties speak of rows that are finished. `WorkInv`:
the evaluations of a suite are what `Classify` says of the mutants in order, and
those of the first suite are complete when the second starts. `TallyInv`: each
counter is the number of evaluations of its class. Two lemmas about `Classify`
then decide: the classes that make the denominator do not depend on the suite
(`SuiteBlind`), and what a suite detects a larger one does (`SuiteMonotone`); the
rest is counting and that rounding is monotone (`NoLoss`).

*Gym.* `ExportsInv`: every pair an export has collected is one that the gates let
through for its target (`Admitted`), each at most once, and none is of a file that
is still to be read. What the properties say of a file on disk they say of some
export's lines or of a beginning of them (`FilesAreWhole`), as a beginning inherits
`LinesInv`. `EvidenceIsBacked` is then what `Admitted` says of a pair and the file it
was made from (`PairAdmitted`).

*Agent benchmark.* `RunInv`: the run keeps to its schedule and the two agents are
never more than one trajectory apart; a scorecard is the schedule twice, on which
each scenario stands as often as there are rollouts (`TurnsAreEven`, by a bijection
between rollouts and turns). `ExportInv`: the artifacts of the lines before the one
in work are saved, through kills and repeated exports. `GradesInv`: a trajectory
without SQL has the lowest grade, so that those a replay cannot regrade are at
least those with a stale grade. `StepsLeft` bounds what a run still does by rounds,
limits and trajectories; with `LoopInv` (the loop keeps to its limit) each step
lowers it (`StepsFall`). This is the part of `CommandEnds` that can be proved: that
an unfinished run always has a next step is ENABLED, and stays with TLC.

*Gates.* `CheckInv`: the verdict of `check` is on the change in question, and a
pass means that neither detector nor validator had a reason against it. `RouterInv`:
answers and assertions left add up to the suite as long as all answers are passes,
and the router only asks about queries that satisfy the contract. `GatesAgree` and
`AllowanceIsEarned` are inductive with these, one lemma per gate. They hold for any
comparison of conditions, so also if the normaliser were replaced. `MutantsAreSeen`
needs of it what `BasesAssumption` says: a condition that lost a conjunct or has a
comparison shifted is not equivalent to the one it was made of; TLC evaluates this
with the real normaliser for every base of the run, and where parentheses decide or
two comparisons differ in case alone it need not be true (finding 2). Under this
assumption the theorem goes through the eight
operators one by one (`SeesEdit`, `SeesSwap`, `SeesGrain`, `SeesJoin`, ...), the
comparisons of bags by counting (`OnceLess`). The assumption also has that a CROSS
JOIN has no condition. `DropsAreCaught` needs `VerdictInv`: the violations that
`check` holds are those of the contract and the candidate in question, and the
router goes past its static tier only where there are none. A lost
dimension is then a violation because dimensions are distinct and no two are taken
for one another (`LostDimension`). The validator looks for a required filter as a
part of the text, so a lost conjunct may still be found within one that stays.
`Complete`, the property's condition, leaves such contracts out: no required
filter is found in another (`Apart`). For the others `MutantsAssumption` has that a
condition which loses one of several comparisons no longer contains them all
(`LostFilter`): proved is that every
gate acts on it, evaluated by TLC for each base of the run, those included whose
comparisons end or begin in one another, is that
`SqlPredicates` has it. The assumption speaks of conditions whose conjuncts are
distinct comparisons (`PlainConjuncts`); of `NOT a` it would be wrong, see section 5.

*Judges.* `JudgementInv`: every answer is the judge's function of the candidate in
work, its frame and the suites as loaded, and a candidate that no tier was asked
about was dropped by the comparison. The contradictions are then excluded one by
one. The steps that are not by definition: the oracle's connection has the fixture
only, the agent's may have more tables, and what passes with a parent table passes
without one, as its tests are skipped (`SkippedWithoutParents`); and what the script
drops matches in the gym (`DroppedMatches`, from the comparators). `RatesAreRates`
rests on `RecordInv`: a tier that has not had its turn has counted one defect less.

`PathsAgree` and `ComparatorsAgree` relate two executions of one query, which
DuckDB may answer in different orders of rows. `FramesInv` says of a frame that it
is the query's result in some order of its groups, `RoundInv`
has the counters and the answers for `TypeCorrect`. What is then needed is that
neither an assertion nor a comparison sees the order (`OrderBlind`, `PathsOnFrame`,
`ReorderedBag`). The hard part is sums: a library lemma does not
exist, and the induction theorems cannot be used. `Total`, `Known` and `Picked` are
therefore recursive functions on positions; that they satisfy their equations
(`Recursion`) and that reordering leaves a total alone (`ReorderedTotal`) is proved
by taking the least position where it fails (`Least`, of a well-founded order). A
function on sets of positions that adds up the amounts exists (`SumsExist`) and does
not change under a bijection (`ReorderedSum`). The comparators differ in what
they forgive, and their agreement is over frames where that does not matter: of
plain ones the gym compares the cells as they are (`PlainRows`), and below ten
numbers of four decimals that the script takes for close are equal, as a
tolerance of 1e-5 is then less than a unit of the fourth (`SameIsEqual`). The rest
is that two
lists are equal up to order exactly if one can be brought into the order of the other
(`MatchIsSame`, `SameIsMatch`) and that equal bags have equal summaries
(`MatchIsEquivalent`); `LostFilterIsSeen` counts rows. A candidate that cannot be
wrapped fails every assertion that needs its text, which is why its frame is
never the stricter one (`PathsOfOpen`). `TypeCorrect` includes that
suites made of a schema.yml and a YAML file are sequences of assertions
(`SchemaSuite`, `YamlSuite`).

The attempt to prove `PathsAgree` found a case the model had left out: a test that
names no columns. `evaluate` then builds a query that does not parse and fails,
`evaluate_df` passes. Both evaluations, `HasColumnsOf` and the run's suites have it.

*Provenance.* `IInv` says of a directory that each of its files is of a commit that
a repository of its name has had (`OriginsOk`), and no more: two gits may work in one
directory, for neither holds a lock between looking at it and making `.git`, and any
part of it may be cleared. Of a lookup (`LookupOk`): each word that was read stood
upstream in a cited file, each file that was found was there; and if the directory
held all of one commit whenever a file was looked for, what was found and read is
just the part of that commit that has been looked up (`ReadFrom`). `ReadingOk` is
the step that reads one more file, `VerdictOk` the last one, where nothing is
left and the verdict is that of the commit. `Push` only ever adds to what has been
upstream (`UpstreamOnlyGrows`).

**Only model-checked.** *Liveness* (`ReplayableLinesAreReported`, `CommandEnds`),
which needs fairness and ENABLED. *Induction over data*: `ChainsCompareAsBags` walks
syntax trees with the RECURSIVE operators of `SqlPredicates`, a module no proof may
use. The invariants and `[]`-properties of all other passing runs are theorems.

## 5. Seen in the code, without a run

*Audit trail.* Nothing calls for the chain's digests to be noted elsewhere; without that
a rewritten log cannot be told from the real one. The MCP server builds the event after the tool has run
(`mcp/server.py:111`); a `metric_id` that is not a string fails its validation and
the call is not logged, though the CISO whitepaper (line 124) says "Every tool
invocation emits an audit record" (`AuditRejected` is an action of `McpServer`). Early firewall denials leave no trace (`firewall/engine.py:60`).
`verify_audit_chain` never looks at checkpoints (`mcp/server.py:197`), though
the CISO whitepaper (175-178) has it check their signatures. `SRE_STRICT_MODE`
is never read. *Replay.* Survivors are judged by the contract of the day of the
replay (`replay/worker.py:86`); the pull request has no section for
`boundary_rules`. *Mutation engine.* `COALESCE_BYPASS` keeps the default, not
the column (`mutations/engine.py:229`); `DISTINCT_DROP` depends on where sqlglot
keeps DISTINCT. *Benchmark.* `harness/duckdb_runner.py:234,247` report U = 0 always and count
unexecutable mutants as detected, against G = E + U + V in
`docs/ENTERPRISE_ARCHITECTURE_WHITEPAPER.md:122`; a baseline that fails gives
every suite 100. *Gates.* The normaliser lowers literals with the rest
of the printed form (`drift/normalizer.py:69,89,90`), so `status = 'PAID' AND x` is
"equivalent" to `status = 'paid' AND x`, though no parenthesis decides anything;
`ChainsCompareAsBags` has this as its one exception. The validator looks for text, so `NOT a` satisfies a
required `a`, and `order_status = 'paid'` a required `status = 'paid'`; `forbidden_filters` is never read. dbt-check says "semantically
compliant with contract" without asking the validator. `check` skips the
validator if invariants are null, the other gates then require UTC. A comma join
is FATAL even if unchanged. A BigQuery budget of 0 means none; without a client
10 MiB are assumed and the query may be allowed. The normaliser sorts operands
by their text before normalising them, so equal chains with inner parentheses
may be reported. *Gym.* Without a fixture a mutant is never run, and where its result is empty there
is no value to compare; a violated contract is then enough to retain the pair
(`gym/generator.py:113-148`). The dataset card asks for more: "Pairs are only retained
if the mutation causes empirical result divergence AND violates a contract invariant"
(`datasets/DATASET_CARD.md:10`), and its line 19 says "only contains mutations that
diverge". `EvidenceIsBacked` says exactly which pairs those are, and that they do not
claim a change. `--split all` exports fail the auditor's leakage check;
sft and rlhf formats drop split and mutation type. *Agent benchmark.* The
default limits (3 iterations, 5 tool calls) never reach the ceiling; artifacts
are not checked against their hash; agents' SQL runs on the shared connection.
*Judges.* In the two-engine script `relationships` tests are always skipped, as
its connection has the fixture table only. `RequiredPopulationAssertion` names a
column that its join makes ambiguous wherever the result has a `status` too, and
flags keys with both valid and invalid rows, so a golden query may fail it. In
YAML `expected: 0` is dropped (`assertions/registry.py`). `accepted_values` turns
floats into "6.0", and its SQL version quotes values without escaping them
(`assertions/structural.py:310`). Assertions that take a binder error for a missing column pass
a query that cannot run (tier 2). `evaluate-agent` says "survived tests" also
when there were none. The fixture audit promises that filter drops "will be exposed"
(`harness/fixture_adequacy.py:75`) and that aggregation swaps "will produce distinct
non-zero variance" (line 113); that holds of listings, for filters, but not of totals
that offset each other or differ by less than a tolerance, and not of groups of one row. For the gym nothing equals nothing, whatever the columns;
equality in the script depends on the order of rows and columns, in the gym on
neither. `evaluate-agent` skips the validator for a metric without invariants
(`evaluation/agent_eval.py:70`); tier 3 and the firewall validate the defaults. Tier 3
raises on SQL that does not parse. *Provenance.* The clone directory is named
after the last component of the URL: the repository of another owner may make a
claim pass. A cited path is joined to the clone's without a look
(`provenance_auditor.py:145`), so that a claim may rest on a file of the auditor's own
machine; `PassedWasThere` says nothing of such claims. One that names a directory
ends the command. `commit_sha` is never looked at. "Clone or update"
(`provenance_auditor.py:115`) never updates: a claim may be verified by a commit that
upstream left before the audit began. One cited file that exists is enough (143-150),
though the command announces "Verifying all claimed repositories, files, ..."
(`cli.py:965`). A clone cut off by the time-out, or
half of one that was cleared, is
taken for whole ever after. Claims with neither path nor symbol pass even with
no clone left. The command ignores `bib_res["passed"]`, so malformed entries are
only shown.

## 6. Limits of the models

- Calls of DuckDB, sqlglot, providers and file systems answer or raise; partial
  answers are modelled only for files (torn lines, cut files).
- In `McpServer` a metric's `domain` is a text; other types in its place raise
  earlier.
- `ChangeGates` knows one SELECT block; nested queries only count as nodes for
  the router, and a WHERE in them is not seen. ORDER BY and QUALIFY are expressions
  among the others of the SELECT list (`outer`). One text lies within another only
  at its beginning or its end, as `Lower`, `EndsIn` and `BeginsWith` give it; marks are
  looked for in every clause. The textual closeness of dimensions (`Similar`) is
  the pairs given. The gates' dialects (`check`'s default, dbt's adapter type,
  BigQuery) are one.
- In `CandidateJudges` a fixture has three columns and no joins but the one of
  `relationships`; two kinds of the gym's errors are one class. Numbers are counted
  in hundred-thousandths, averages are cut off there (a fifth digit that is not 0 keeps
  what follows from being lost), a half is rounded up where a binary float might be
  just below it, and errors of floating point are left out. Whether pandas allows
  whole numbers a tolerance depends on its version and is a constant
  (`ExactIntegers`). A cell with the text `__NULL__`, which the gym uses for NULL,
  and two columns of one name are not in the model.
- In `ProvenanceAudit` a text is a set of words (`Inside` says which words a symbol
  is a part of); URLs are one per repository; the search for claims in a file is
  given by its result. Only `Clear` removes files of a clone without git; its steps
  are one.
- A verdict of the validator is a constant of Firewall, McpServer and
  SemanticGym, a definition of ChangeGates and, for two requirements, of CandidateJudges.
- Timing, latency and cost figures, wording and layout of reports are left out.

## 7. Not modelled

Benchmark scoring (averages over a finished run), metric compiler and coverage
(transpilation, a weighted sum), probes (SQL templates over a fixture), reports,
the MCP helper registries, which the server does not call. Partly: text formats,
rates and latencies of gym and ladder, the protocol verifier (hashes files), the
quality harness's weighted sum, and the scripts that write corpora and releases.
All are pure functions over finished results or formatting; `PROJECT.json` has
one reason per component. Of the adapters, `dbt_adapter.py` is modelled as far
as it turns a schema.yml into a suite.

## 8. Plan

Done, in this order: MCP server and ledger, their proofs; firewall and its
proofs; replay; mutation benchmark; gym; agent benchmark; gates; assertions,
judges and fixture audit; provenance auditor and its proofs; the proofs of replay,
agent benchmark, gym, mutation benchmark, gates and judges.

Next:

1. **Prove.** Abstract specifications for the parts that have none and their
   refinement: the dataset file as a register that an export sets or a kill
   cuts, the record of a benchmark run as a log.
2. **Model.** Probes over a fixture; coverage; the counts of skipped tests that
   the dbt adapter reports.
