---------------------------- MODULE SemanticGym ----------------------------
(***************************************************************************)
(* The semantic gym (gym/generator.py, models.py, auditor.py and cli.py    *)
(* export-gym): preference pairs made of the metric files of a corpus and  *)
(* the mutants of their queries, written to dataset files by split.        *)
(*                                                                         *)
(* An export reads the files one by one, in the order the directory gives  *)
(* them, while others may edit the corpus.  A file is a record that says   *)
(* what loading, DuckDB and the validator answer about it.                 *)
(***************************************************************************)
EXTENDS Integers, FiniteSets, SequencesExt, MutationEngine

CONSTANTS
  Metrics, Families,
  AssignSplit,      \* [Families -> Splits]: the hash of the family's name
  Paths,            \* paths of metric files
  Contents,         \* what such a file may hold
  Outputs,          \* dataset files
  None,
  MaxExports, MaxEdits     \* bounds, on actions only

Splits == {"train", "validation", "holdout"}
Targets == Splits \cup {"all"}

\* outcome compares a mutant's first value with the query's on the fixture.
File == [kind : {"foreign", "invalid", "contract"},
         metric : Metrics, family : Families,
         fixture : {"none", "raises", "empty", "ok"},
         chosen : {"passes", "fails", "raises"},
         features : SUBSET Features,
         same_text : SUBSET MutationTypes,
         outcome : [MutationTypes -> {"raises", "empty", "equal", "differs"}],
         violates : SUBSET MutationTypes]

ASSUME GymAssumption ==
  /\ AssignSplit \in [Families -> Splits]
  /\ Contents \subseteq File
  /\ None \notin File /\ None \notin Paths /\ None \notin Outputs

VARIABLES
  corpus,          \* [Paths -> File], None where there is no file
  job,             \* the running export, None if there is none
  datasets,        \* [Outputs -> Seq(Pair)], None before the first export
  exports,         \* ghost: what each export meant to write, and for whom
  cut,             \* ghost: outputs whose last writer was killed
  started, edits   \* ghost: exports started, edits of the corpus

vars == <<corpus, job, datasets, exports, cut, started, edits>>
-----------------------------------------------------------------------------
(* The mutation types each split may have.                                 *)
SplitRules ==
  [s \in Splits |->
     CASE s = "train" -> {"FILTER_DROP", "AGGREGATION_SWAP", "COALESCE_BYPASS"}
       [] s = "validation" -> {"BOUNDARY_SHIFT", "DISTINCT_DROP"}
       [] s = "holdout" ->
            {"GRAIN_DROP", "MATH_OPERATOR_INVERT", "JOIN_PREDICATE_DROP"}]

\* An exported pair; path and of are ghosts, the file it was made from.
Pair == [metric : Metrics, type : MutationTypes, split : Splits,
         family : Families, result_changed : BOOLEAN,
         path : Paths, of : Contents]

\* Mutant: the split follows the metric instead of its family.
SplitOfMetric(f) ==
  IF f.metric = CHOOSE m \in Metrics : TRUE THEN "train" ELSE "holdout"

SplitOf(f) == AssignSplit[f.family]

(* Whether a file takes part in an export, in the order of the checks.     *)
Refused(f, target) ==
  \/ f.kind # "contract"
  \/ target # "all" /\ SplitOf(f) # target
  \/ f.fixture \in {"raises", "empty"}
  \/ f.chosen = "fails"

ResultChanged(f, type) == f.fixture = "ok" /\ f.outcome[type] = "differs"

\* Mutant: a result that differs is reason enough to reject a mutant.
RetainedIfDifferent(f, type) ==
  /\ type \notin f.same_text
  /\ f.fixture = "ok" => f.outcome[type] \notin {"raises", "equal"}
  /\ type \in f.violates \/ ResultChanged(f, type)

(* The gates a mutant passes to become the rejected side of a pair: its    *)
(* text differs, on a fixture it runs and does not give the same value,    *)
(* and it violates the contract.                                           *)
Retained(f, type) ==
  /\ type \notin f.same_text
  /\ f.fixture = "ok" => f.outcome[type] \notin {"raises", "equal"}
  /\ type \in f.violates

\* Mutant: only the family decides what a split holds.
AllowedInAny(type, target) == TRUE

AllowedIn(type, target) == target = "all" \/ type \in SplitRules[target]

\* Mutant: a pair is labelled with the split it was asked for.
LabelledAsAsked(p, f, type, target) ==
  [metric |-> f.metric, type |-> type, split |-> target, family |-> f.family,
   result_changed |-> ResultChanged(f, type), path |-> p, of |-> f]

(* The pair a mutant makes, labelled with the split of its family.         *)
PairOf(p, f, type, target) ==
  [metric |-> f.metric, type |-> type, split |-> SplitOf(f), family |-> f.family,
   result_changed |-> ResultChanged(f, type), path |-> p, of |-> f]

(* The pairs of one file: of its mutants, those that pass, in their order. *)
PairsOf(p, f, target) ==
  LET kept == InOrder({t \in Injectable(f.features) :
                         AllowedIn(t, target) /\ Retained(f, t)})
  IN  [i \in DOMAIN kept |-> PairOf(p, f, kept[i], target)]
-----------------------------------------------------------------------------
Init ==
  /\ corpus \in [Paths -> Contents \cup {None}]
  /\ job = None
  /\ datasets = [o \in Outputs |-> None]
  /\ exports = {} /\ cut = {}
  /\ started = 0 /\ edits = 0

\* Mutant: the output file is opened before the pairs are made.
StartExportOpening(target, o) ==
  /\ job = None /\ started < MaxExports
  /\ started' = started + 1
  /\ job' = [target |-> target, output |-> o, left |-> Paths, examples |-> <<>>]
  /\ datasets' = [datasets EXCEPT ![o] = <<>>]
  /\ UNCHANGED <<corpus, exports, cut, edits>>

(* export-gym: a generator for one split, and one output file.             *)
StartExport(target, o) ==
  /\ job = None /\ started < MaxExports
  /\ started' = started + 1
  /\ job' = [target |-> target, output |-> o, left |-> Paths, examples |-> <<>>]
  /\ UNCHANGED <<corpus, datasets, exports, cut, edits>>

(* generate reads the next file, wherever the directory has it.            *)
ReadFile(p) ==
  /\ job # None /\ p \in job.left
  /\ LET f == corpus[p]
         out == f = None \/ Refused(f, job.target)
     IN  /\ ~out => f.chosen # "raises"
         /\ job' = [target |-> job.target, output |-> job.output,
                    left |-> job.left \ {p},
                    examples |-> job.examples
                      \o IF out THEN <<>> ELSE PairsOf(p, f, job.target)]
  /\ UNCHANGED <<corpus, datasets, exports, cut, started, edits>>

(* The validator raises on a contract with a malformed filter: the export  *)
(* ends, with nothing written.                                             *)
ExportRaises(p) ==
  /\ job # None /\ p \in job.left
  /\ corpus[p] # None /\ ~Refused(corpus[p], job.target)
  /\ corpus[p].chosen = "raises"
  /\ job' = None
  /\ UNCHANGED <<corpus, datasets, exports, cut, started, edits>>

(* All files are read: the output file is replaced, pair by pair.          *)
WriteDataset ==
  /\ job # None /\ job.left = {}
  /\ datasets' = [datasets EXCEPT ![job.output] = job.examples]
  /\ exports' = exports \cup {[target |-> job.target, lines |-> job.examples]}
  /\ cut' = cut \ {job.output}
  /\ job' = None
  /\ UNCHANGED <<corpus, started, edits>>

(* External: the process is killed, before it opened the output file ...   *)
KillExport ==
  /\ job # None
  /\ job' = None
  /\ UNCHANGED <<corpus, datasets, exports, cut, started, edits>>

(* ... or while it wrote it.                                               *)
KillWriting ==
  /\ job # None /\ job.left = {}
  /\ \E n \in 0..Len(job.examples) :
       datasets' = [datasets EXCEPT ![job.output] = SubSeq(job.examples, 1, n)]
  /\ exports' = exports \cup {[target |-> job.target, lines |-> job.examples]}
  /\ cut' = cut \cup {job.output}
  /\ job' = None
  /\ UNCHANGED <<corpus, started, edits>>

(* External: somebody edits the corpus.                                    *)
EditCorpus(p, f) ==
  /\ edits < MaxEdits /\ corpus[p] # f
  /\ edits' = edits + 1
  /\ corpus' = [corpus EXCEPT ![p] = f]
  /\ UNCHANGED <<job, datasets, exports, cut, started>>

Next ==
  \/ \E target \in Targets, o \in Outputs : StartExport(target, o)
  \/ \E p \in Paths : ReadFile(p) \/ ExportRaises(p)
  \/ WriteDataset \/ KillExport \/ KillWriting
  \/ \E p \in Paths, f \in Contents \cup {None} : EditCorpus(p, f)

Spec == Init /\ [][Next]_vars
-----------------------------------------------------------------------------
(* audit_gym_dataset, on the whole lines of a file in the dpo format, the  *)
(* only one that keeps split and mutation type.  A pair's evidence hash is *)
(* made of metric and mutation type too, so it repeats no more than the    *)
(* example id does.  Prompts and domains are abstracted away.              *)
Leaks(lines) ==
  {i \in DOMAIN lines :
     lines[i].split = "train" /\ lines[i].type \in SplitRules["holdout"]}

Duplicates(lines) ==
  {i \in DOMAIN lines :
     \E j \in 1..(i - 1) : lines[j].metric = lines[i].metric
                           /\ lines[j].type = lines[i].type}

Identical(lines) == {i \in DOMAIN lines : lines[i].type \in lines[i].of.same_text}

IsClean(lines) ==
  Leaks(lines) = {} /\ Duplicates(lines) = {} /\ Identical(lines) = {}
-----------------------------------------------------------------------------
Job == [target : Targets, output : Outputs, left : SUBSET Paths,
        examples : Seq(Pair)]

(* Types of the gym's state: no export writes anything but pairs.          *)
TypeOK ==
  /\ corpus \in [Paths -> Contents \cup {None}]
  /\ job \in Job \cup {None}
  /\ datasets \in [Outputs -> Seq(Pair) \cup {None}]
  /\ \A e \in exports : e.target \in Targets /\ e.lines \in Seq(Pair)
  /\ cut \subseteq Outputs
  /\ started \in Nat /\ edits \in Nat

Pairs == UNION {Range(datasets[o]) : o \in {q \in Outputs : datasets[q] # None}}

(* No leakage between splits: datasets exported at any time, from a corpus *)
(* that was edited in between, never hold one family in two splits.        *)
FamiliesStaySeparate ==
  \A x, y \in Pairs : x.family = y.family => x.split = y.split

(* A pair's evidence can be taken at its word, for the metric file it was  *)
(* made from, whatever became of that file since: the chosen side          *)
(* satisfied the contract and the rejected one broke it; and where it does *)
(* not say that the result changed, that is because there was no fixture,  *)
(* or no value in the mutant's result, and not because it was the same.    *)
EvidenceIsBacked ==
  \A x \in Pairs :
    /\ x.of.kind = "contract" /\ x.of.chosen = "passes"
    /\ x.type \in x.of.violates
    /\ x.result_changed = ResultChanged(x.of, x.type)
    /\ x.result_changed \/ x.of.fixture = "none"
       \/ x.of.outcome[x.type] = "empty"

(* In what export-gym writes for a named split audit-gym counts no leakage *)
(* of mutation types, no duplicate and no pair of equal sides, unless two  *)
(* files of the corpus define one metric: also in a file cut short.        *)
OneFilePerMetric(lines) ==
  \A i, j \in DOMAIN lines :
    lines[i].metric = lines[j].metric => lines[i].path = lines[j].path

NamedSplitsAreClean ==
  \A o \in Outputs : datasets[o] # None =>
    \/ IsClean(datasets[o]) \/ ~OneFilePerMetric(datasets[o])
    \/ \E e \in exports : e.target = "all" /\ IsPrefix(datasets[o], e.lines)

(* What these rest on: every pair an export collects is one the gates let  *)
(* through, of a file that was not refused; and it has none twice.         *)
Admitted(x, target) ==
  /\ x = PairOf(x.path, x.of, x.type, target)
  /\ ~Refused(x.of, target) /\ x.of.chosen # "raises"
  /\ AllowedIn(x.type, target) /\ Retained(x.of, x.type)

LinesInv(lines, target) ==
  /\ \A i \in DOMAIN lines : Admitted(lines[i], target)
  /\ \A i, j \in DOMAIN lines :
       lines[i].path = lines[j].path /\ lines[i].type = lines[j].type => i = j

ExportsInv ==
  /\ \A e \in exports : LinesInv(e.lines, e.target)
  /\ job # None =>
       /\ LinesInv(job.examples, job.target)
       /\ \A i \in DOMAIN job.examples : job.examples[i].path \notin job.left

(* An output file is what one export meant to write, or the beginning of   *)
(* it if the writer was killed: an export that fails or is killed before   *)
(* it is ready costs no data of an earlier one.                            *)
FilesAreWhole ==
  \A o \in Outputs : datasets[o] # None =>
    \E e \in exports : /\ IsPrefix(datasets[o], e.lines)
                       /\ o \in cut \/ datasets[o] = e.lines
=============================================================================
