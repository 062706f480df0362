------------------------ MODULE MutationBench_proofs ------------------------
(***************************************************************************)
(* Proofs about MutationBench, for every corpus, set of assertions and set *)
(* of results a fixture may give.                                          *)
(***************************************************************************)
EXTENDS MutationBench, TLAPS, SequenceTheorems, FiniteSetTheorems

-----------------------------------------------------------------------------
(* The operators.                                                          *)

\* The mutants of a query are a list of mutation types.
LEMMA MutantsType ==
  ASSUME NEW query
  PROVE  /\ GenerateAllMutations(query) \in Seq(MutationTypes)
         /\ Len(GenerateAllMutations(query)) \in Nat
<1> DEFINE Turn(t) == IF t \in Injectable(query) THEN <<t>> ELSE <<>>
<1>1. ASSUME NEW t \in MutationTypes PROVE Turn(t) \in Seq(MutationTypes)
  OBVIOUS
<1>2. /\ Turn("FILTER_DROP") \in Seq(MutationTypes)
      /\ Turn("BOUNDARY_SHIFT") \in Seq(MutationTypes)
      /\ Turn("AGGREGATION_SWAP") \in Seq(MutationTypes)
      /\ Turn("DISTINCT_DROP") \in Seq(MutationTypes)
      /\ Turn("JOIN_PREDICATE_DROP") \in Seq(MutationTypes)
      /\ Turn("GRAIN_DROP") \in Seq(MutationTypes)
      /\ Turn("COALESCE_BYPASS") \in Seq(MutationTypes)
      /\ Turn("MATH_OPERATOR_INVERT") \in Seq(MutationTypes)
  BY <1>1 DEF MutationTypes
<1>3. GenerateAllMutations(query) =
        Turn("FILTER_DROP") \o Turn("BOUNDARY_SHIFT") \o Turn("AGGREGATION_SWAP")
        \o Turn("DISTINCT_DROP") \o Turn("JOIN_PREDICATE_DROP") \o Turn("GRAIN_DROP")
        \o Turn("COALESCE_BYPASS") \o Turn("MATH_OPERATOR_INVERT")
  BY DEF GenerateAllMutations, InOrder
<1> HIDE DEF Turn
<1>4. GenerateAllMutations(query) \in Seq(MutationTypes)
  BY <1>2, <1>3, ConcatProperties
<1> QED
  BY <1>4, LenProperties

\* compare_execution_with_assertions answers one of four classifications ...
LEMMA ClassifyType ==
  ASSUME NEW model, NEW type, NEW suite
  PROVE  Classify(model, type, suite) \in Classifications
BY DEF Classify, Classifications

\* ... the equivalent and the failing mutants are the same for each suite ...
LEMMA SuiteBlind ==
  ASSUME NEW model, NEW type, NEW s, NEW r,
         NEW c \in {"EQUIVALENT_ON_FIXTURE", "RUNTIME_ERROR"}
  PROVE  Classify(model, type, s) = c <=> Classify(model, type, r) = c
BY DEF Classify

\* ... and what a suite detects, one that includes it does.
LEMMA SuiteMonotone ==
  ASSUME NEW model, NEW type, NEW s, NEW r,
         model.suites[s] \subseteq model.suites[r],
         Classify(model, type, s) \in {"VALID_DEFECT_DETECTED", "RUNTIME_ERROR"}
  PROVE  Classify(model, type, r) \in {"VALID_DEFECT_DETECTED", "RUNTIME_ERROR"}
BY DEF Classify, FailedAssertions

\* A catch score is a percentage in tenths.
LEMMA ScoreType ==
  ASSUME NEW d \in Nat, NEW v \in Nat, d <= v
  PROVE  CatchScore(d, v) \in Scores
<1>1. ASSUME v > 0 PROVE (2000 * d + v) \div (2 * v) \in 0 .. 1000
  BY <1>1
<1> QED
  BY <1>1 DEF CatchScore, Scores

\* The difference of two scores is a number.
LEMMA GainType ==
  ASSUME NEW a \in Scores, NEW b \in Scores
  PROVE  a - b \in Int
BY DEF Scores

\* A suite that detects no less loses nothing in score.
LEMMA NoLoss ==
  ASSUME NEW d \in Nat, NEW e \in Nat, NEW v \in Nat, d <= e, e <= v
  PROVE  CatchScore(e, v) - CatchScore(d, v) >= 0
<1>1. ASSUME v > 0
      PROVE (2000 * e + v) \div (2 * v) - (2000 * d + v) \div (2 * v) >= 0
  BY <1>1
<1> QED
  BY <1>1 DEF CatchScore

\* A count is finite, and one more evaluation counts at most once.
LEMMA CountAppend ==
  ASSUME NEW evals \in Seq(Classifications), NEW c \in Classifications, NEW classes
  PROVE  /\ CountOf(evals, classes) \in Nat
         /\ CountOf(Append(evals, c), classes)
              = CountOf(evals, classes) + IF c \in classes THEN 1 ELSE 0
<1> DEFINE n == Len(evals)
           A == {k \in DOMAIN evals : evals[k] \in classes}
           B == {k \in DOMAIN Append(evals, c) : Append(evals, c)[k] \in classes}
<1>1. n \in Nat /\ DOMAIN evals = 1 .. n
  BY LenProperties
<1>2. /\ DOMAIN Append(evals, c) = 1 .. n + 1
      /\ Append(evals, c)[n + 1] = c
      /\ \A k \in 1 .. n : Append(evals, c)[k] = evals[k]
  BY AppendProperties, <1>1
<1>3. IsFiniteSet(1 .. n)
  <2> HIDE DEF n
  <2> QED
    BY <1>1, FS_Interval
<1>4. IsFiniteSet(A) /\ Cardinality(A) \in Nat
  <2>1. A \in SUBSET (1 .. n)
    BY <1>1
  <2> QED
    BY <1>3, <2>1, FS_Subset, FS_CardinalityType
<1>5. B = IF c \in classes THEN A \cup {n + 1} ELSE A
  BY <1>1, <1>2
<1>6. n + 1 \notin A
  BY <1>1
<1>7. Cardinality(A \cup {n + 1}) = Cardinality(A) + 1
  BY <1>4, <1>6, FS_AddElement
<1>8. CountOf(evals, classes) = Cardinality(A)
      /\ CountOf(Append(evals, c), classes) = Cardinality(B)
  BY DEF CountOf
<1> HIDE DEF A, B
<1> QED
  BY <1>4, <1>5, <1>7, <1>8

-----------------------------------------------------------------------------
(* TypeOK.                                                                 *)

\* What Init and the steps' frames have to keep of the models.
LEMMA Subject ==
  ASSUME corpus \in Seq(Model), at \in 1 .. Len(corpus)
  PROVE  Current \in Model
BY ElementOfSeq DEF Current

\* The steps, with what they have in common.
LEMMA Steps ==
  ASSUME [Next]_vars
  PROVE  \/ LoadModel \/ SkipModel \/ LoadRaises
         \/ \E s \in SuiteNames : EvaluateMutation(s)
         \/ NextSuite \/ AddRow \/ Output \/ UNCHANGED vars
BY DEF Next

\* One more evaluation keeps the types of a suite's list and counters.
LEMMA EvaluateType ==
  ASSUME TypeOK, NEW s \in SuiteNames, EvaluateMutation(s)
  PROVE  TypeOK'
<1> DEFINE n == Len(evaluations[s])
           c == Classify(Current, Mutations[n + 1], s)
<1>1. /\ evaluations[s] \in Seq(Classifications) /\ n \in Nat
      /\ c \in Classifications /\ tally[s] \in Tally
  BY ClassifyType, LenProperties DEF TypeOK
<1>2. /\ evaluations' = [evaluations EXCEPT ![s] = Append(@, c)]
      /\ tally' = [tally EXCEPT ![s] = Counted(@, c)]
      /\ pc = s /\ n < Len(Mutations) /\ UNCHANGED <<corpus, at, pc, rows>>
  BY DEF EvaluateMutation
<1>3. Mutations' = Mutations
  BY <1>2 DEF Mutations, Current
<1> HIDE DEF c
<1>4. /\ Append(evaluations[s], c) \in Seq(Classifications)
      /\ Len(Append(evaluations[s], c)) = n + 1
  BY <1>1, AppendProperties
<1>5. Counted(tally[s], c) \in Tally
  BY <1>1 DEF Counted, Tally
<1>6. evaluations' \in [SuiteNames -> Seq(Classifications)]
      /\ tally' \in [SuiteNames -> Tally]
  BY <1>2, <1>4, <1>5 DEF TypeOK
<1>7. \A r \in SuiteNames : evaluations'[r]
        = IF r = s THEN Append(evaluations[s], c) ELSE evaluations[r]
  BY <1>2 DEF TypeOK
<1>8. Len(Mutations) \in Nat
  BY MutantsType DEF Mutations
<1>9. \A r \in SuiteNames : Len(evaluations'[r]) <= Len(Mutations)
  BY <1>1, <1>2, <1>4, <1>7, <1>8 DEF TypeOK
<1> QED
  BY <1>2, <1>3, <1>6, <1>9 DEF TypeOK

\* What the reports of a model have in their fields.
LEMMA ReportFields ==
  ASSUME NEW e, NEW t
  PROVE  /\ Report(e, t).total = Len(e)
         /\ Report(e, t).valid = Len(e) - t.equivalent
         /\ Report(e, t).detected = t.detected
         /\ Report(e, t).score = CatchScore(t.detected, Len(e) - t.equivalent)
         /\ Report(e, t).evaluations = e
BY DEF Report

\* A suite's report, once the counters count its list.
LEMMA ReportType ==
  ASSUME TypeOK, TallyInv, NEW s \in SuiteNames
  PROVE  /\ Report(evaluations[s], tally[s]) \in Reports
         /\ Report(evaluations[s], tally[s]).score \in Scores
<1> DEFINE e == evaluations[s]  t == tally[s]
<1>1. /\ e \in Seq(Classifications) /\ t \in Tally /\ Len(e) \in Nat
      /\ t.equivalent + t.detected + t.surviving = Len(e)
  BY LenProperties DEF TypeOK, TallyInv
<1> HIDE DEF e, t
<1>2. /\ t.equivalent \in Nat /\ t.detected \in Nat /\ t.surviving \in Nat
  BY <1>1 DEF Tally
<1> DEFINE v == Len(e) - t.equivalent
<1>3. v \in Nat /\ t.detected <= v
  BY <1>1, <1>2
<1>4. CatchScore(t.detected, v) \in Scores
  BY <1>2, <1>3, ScoreType
<1>5. Report(e, t) = [total |-> Len(e), executable |-> Len(e),
                      equivalent |-> t.equivalent, valid |-> v,
                      detected |-> t.detected, surviving |-> t.surviving,
                      score |-> CatchScore(t.detected, v), evaluations |-> e]
  BY DEF Report
<1> HIDE DEF v
<1>6. Report(e, t) \in Reports
  BY <1>1, <1>2, <1>3, <1>4, <1>5 DEF Reports
<1>7. Report(e, t).score \in Scores
  BY <1>4, <1>5
<1> QED
  BY <1>6, <1>7 DEF e, t

\* The row that is added pairs the reports of the two suites.
LEMMA RowAdded ==
  ASSUME TypeOK, TallyInv, AddRow
  PROVE  \E row \in Row :
           /\ rows' = Append(rows, row)
           /\ row.model = Current
           /\ \A s \in SuiteNames : row.reports[s] = Report(evaluations[s], tally[s])
           /\ row.gain = row.reports["semantic"].score - row.reports["standard"].score
<1> DEFINE reports == [s \in SuiteNames |-> Report(evaluations[s], tally[s])]
           gain == reports["semantic"].score - reports["standard"].score
           row == [model |-> Current, reports |-> reports, gain |-> gain]
<1>1. rows' = Append(rows, row)
  BY DEF AddRow
<1>2. Current \in Model
  <2>1. at \in 1 .. Len(corpus)
    BY LenProperties DEF AddRow, TypeOK, SuiteNames
  <2> QED
    BY <2>1, Subject DEF TypeOK
<1>3. /\ reports \in [SuiteNames -> Reports]
      /\ \A s \in SuiteNames : reports[s] = Report(evaluations[s], tally[s])
  BY ReportType
<1> HIDE DEF reports
<1>4. reports["semantic"].score \in Scores /\ reports["standard"].score \in Scores
  <2>1. \A s \in SuiteNames : Report(evaluations[s], tally[s]).score \in Scores
    BY ReportType, Zenon
  <2>2. \A s \in SuiteNames : reports[s].score \in Scores
    BY <1>3, <2>1
  <2> QED
    BY <2>2, Zenon DEF SuiteNames
<1>5. gain \in Int
  <2>1. PICK a \in Scores : a = reports["semantic"].score
    BY <1>4, Zenon
  <2>2. PICK b \in Scores : b = reports["standard"].score
    BY <1>4, Zenon
  <2>3. gain = a - b
    BY <2>1, <2>2, Zenon
  <2> HIDE DEF gain
  <2> QED
    BY <2>3, GainType
<1> HIDE DEF gain
<1>6. row \in Row /\ row.model = Current /\ row.reports = reports /\ row.gain = gain
  BY <1>2, <1>3, <1>5 DEF Row
<1> HIDE DEF row
<1> QED
  BY <1>1, <1>3, <1>6 DEF gain

\* A row in place, the loop takes the next model.
LEMMA RowType ==
  ASSUME TypeOK, TallyInv, AddRow
  PROVE  TypeOK'
<1>1. at \in 1 .. Len(corpus) /\ Len(corpus) \in Nat /\ at' = at + 1 /\ pc' = "load"
  BY LenProperties DEF AddRow, TypeOK, SuiteNames
<1>2. UNCHANGED <<corpus, evaluations, tally>>
  BY DEF AddRow
<1>3. rows' \in Seq(Row)
  <2>1. PICK row \in Row : rows' = Append(rows, row)
    BY RowAdded
  <2>2. rows \in Seq(Row)
    BY DEF TypeOK
  <2> QED
    BY <2>1, <2>2, AppendProperties
<1>4. at' \in 1 .. Len(corpus') + 1
  BY <1>1, <1>2
<1>5. pc' \notin SuiteNames /\ pc' \in SuiteNames \cup {"load", "done", "aborted"}
  BY <1>1 DEF SuiteNames
<1>6. /\ corpus' \in Seq(Model) /\ evaluations' \in [SuiteNames -> Seq(Classifications)]
      /\ tally' \in [SuiteNames -> Tally]
  BY <1>2 DEF TypeOK
<1> QED
  BY <1>3, <1>4, <1>5, <1>6 DEF TypeOK

\* Nothing is evaluated when a model is loaded.
LEMMA LoadType ==
  ASSUME TypeOK, LoadModel
  PROVE  TypeOK'
<1>1. /\ pc = "load" /\ at <= Len(corpus) /\ pc' = "standard"
      /\ evaluations' = NothingEvaluated
      /\ tally' = [s \in SuiteNames |-> NoTally]
      /\ UNCHANGED <<corpus, at, rows>>
  BY DEF LoadModel
<1>2. <<>> \in Seq(Classifications) /\ NoTally \in Tally /\ Len(<<>>) = 0
  BY DEF NoTally, Tally
<1>3. /\ evaluations' \in [SuiteNames -> Seq(Classifications)]
      /\ tally' \in [SuiteNames -> Tally]
      /\ \A s \in SuiteNames : Len(evaluations'[s]) = 0
  BY <1>1, <1>2 DEF NothingEvaluated
<1>4. Mutations' = Mutations /\ Len(Mutations) \in Nat
  BY <1>1, MutantsType DEF Mutations, Current
<1>5. /\ pc' \in SuiteNames
      /\ \A s \in SuiteNames : Len(evaluations'[s]) <= Len(Mutations')
  BY <1>1, <1>3, <1>4 DEF SuiteNames
<1> QED
  BY <1>1, <1>3, <1>5 DEF TypeOK

\* The other steps move the place in the loop.
LEMMA MoveType ==
  ASSUME TypeOK,
         SkipModel \/ LoadRaises \/ NextSuite \/ Output \/ UNCHANGED vars
  PROVE  TypeOK'
<1>1. Len(corpus) \in Nat
  BY LenProperties DEF TypeOK
<1>2. CASE UNCHANGED vars
  BY <1>2 DEF TypeOK, vars, Mutations, Current
<1>3. CASE SkipModel
  BY <1>1, <1>3 DEF SkipModel, TypeOK, SuiteNames
<1>4. CASE LoadRaises
  BY <1>1, <1>4 DEF LoadRaises, TypeOK, SuiteNames
<1>5. CASE Output
  BY <1>1, <1>5 DEF Output, TypeOK, SuiteNames
<1>6. CASE NextSuite
  BY <1>1, <1>6 DEF NextSuite, TypeOK, SuiteNames, Mutations, Current
<1> QED
  BY <1>2, <1>3, <1>4, <1>5, <1>6

-----------------------------------------------------------------------------
(* The counters and the evaluations in work.                               *)

\* An empty list has nothing to count.
LEMMA NothingCounted ==
  ASSUME NEW classes
  PROVE  CountOf(<<>>, classes) = 0
<1>1. {k \in DOMAIN <<>> : <<>>[k] \in classes} = {}
  OBVIOUS
<1> QED
  BY <1>1, FS_EmptySet DEF CountOf

\* Counters that are reset with the lists count them ...
LEMMA ResetTally ==
  ASSUME evaluations' = NothingEvaluated, tally' = [s \in SuiteNames |-> NoTally]
  PROVE  TallyInv'
<1> SUFFICES ASSUME NEW s \in SuiteNames
             PROVE
    /\ tally'[s].equivalent = CountOf(evaluations'[s], {"EQUIVALENT_ON_FIXTURE"})
    /\ tally'[s].detected
         = CountOf(evaluations'[s], {"VALID_DEFECT_DETECTED", "RUNTIME_ERROR"})
    /\ tally'[s].equivalent + tally'[s].detected + tally'[s].surviving
         = Len(evaluations'[s])
  BY DEF TallyInv
<1>1. evaluations'[s] = <<>> /\ tally'[s] = NoTally
  BY DEF NothingEvaluated
<1>2. Len(<<>>) = 0
  OBVIOUS
<1> QED
  BY <1>1, <1>2, NothingCounted DEF NoTally

\* ... and still do when one evaluation is added to one of them.
LEMMA EvaluateTally ==
  ASSUME TypeOK, TallyInv, NEW r \in SuiteNames, EvaluateMutation(r)
  PROVE  TallyInv'
<1> DEFINE n == Len(evaluations[r])
           c == Classify(Current, Mutations[n + 1], r)
           eq == {"EQUIVALENT_ON_FIXTURE"}
           det == {"VALID_DEFECT_DETECTED", "RUNTIME_ERROR"}
<1>1. /\ evaluations' = [evaluations EXCEPT ![r] = Append(@, c)]
      /\ tally' = [tally EXCEPT ![r] = Counted(@, c)]
  BY DEF EvaluateMutation
<1>2. c \in Classifications
  BY ClassifyType
<1> HIDE DEF c
<1> SUFFICES ASSUME NEW s \in SuiteNames
             PROVE
    /\ tally'[s].equivalent = CountOf(evaluations'[s], eq)
    /\ tally'[s].detected = CountOf(evaluations'[s], det)
    /\ tally'[s].equivalent + tally'[s].detected + tally'[s].surviving
         = Len(evaluations'[s])
  BY DEF TallyInv
<1> DEFINE t == tally[s]  e == evaluations[s]
<1>3. /\ e \in Seq(Classifications) /\ t \in Tally
      /\ t.equivalent = CountOf(e, eq) /\ t.detected = CountOf(e, det)
      /\ t.equivalent + t.detected + t.surviving = Len(e)
  BY DEF TypeOK, TallyInv
<1>4. /\ evaluations'[s] = IF s = r THEN Append(e, c) ELSE e
      /\ tally'[s] = IF s = r THEN Counted(t, c) ELSE t
  BY <1>1 DEF TypeOK
<1> HIDE DEF t, e
<1>5. CASE s = r
  <2>1. /\ CountOf(Append(e, c), eq) = CountOf(e, eq) + IF c \in eq THEN 1 ELSE 0
        /\ CountOf(Append(e, c), det) = CountOf(e, det) + IF c \in det THEN 1 ELSE 0
        /\ Len(Append(e, c)) = Len(e) + 1
    BY <1>2, <1>3, CountAppend, AppendProperties
  <2>2. /\ Counted(t, c).equivalent = t.equivalent + IF c \in eq THEN 1 ELSE 0
        /\ Counted(t, c).detected = t.detected + IF c \in det THEN 1 ELSE 0
        /\ Counted(t, c).surviving
             = t.surviving + IF c = "VALID_DEFECT_SURVIVED" THEN 1 ELSE 0
    BY DEF Counted
  <2>3. /\ t.equivalent \in Nat /\ t.detected \in Nat /\ t.surviving \in Nat
    BY <1>3 DEF Tally
  <2>4. /\ Counted(t, c).equivalent = CountOf(Append(e, c), eq)
        /\ Counted(t, c).detected = CountOf(Append(e, c), det)
    BY <1>3, <2>1, <2>2
  <2>5. Counted(t, c).equivalent + Counted(t, c).detected + Counted(t, c).surviving
          = Len(e) + 1
    BY <1>2, <1>3, <2>2, <2>3 DEF Classifications
  <2> QED
    BY <1>4, <1>5, <2>1, <2>4, <2>5
<1>6. CASE s # r
  BY <1>3, <1>4, <1>6
<1> QED
  BY <1>5, <1>6

\* The evaluations of the model in work are its mutants', one after another.
LEMMA EvaluateWork ==
  ASSUME TypeOK, WorkInv, NEW r \in SuiteNames, EvaluateMutation(r)
  PROVE  WorkInv'
<1> DEFINE n == Len(evaluations[r])
           c == Classify(Current, Mutations[n + 1], r)
<1>1. /\ evaluations' = [evaluations EXCEPT ![r] = Append(@, c)]
      /\ pc = r /\ n < Len(Mutations) /\ UNCHANGED <<corpus, at, pc, rows>>
  BY DEF EvaluateMutation
<1>2. /\ c \in Classifications /\ evaluations[r] \in Seq(Classifications)
      /\ n \in Nat /\ DOMAIN evaluations[r] = 1 .. n
  BY ClassifyType, LenProperties DEF TypeOK
<1>3. /\ \A s \in SuiteNames : \A k \in DOMAIN evaluations[s] :
           evaluations[s][k] = Classify(Current, Mutations[k], s)
      /\ pc = "semantic" => Len(evaluations["standard"]) = Len(Mutations)
  BY <1>1 DEF WorkInv
<1>4. Current' = Current /\ Mutations' = Mutations
  BY <1>1 DEF Current, Mutations
<1>5. /\ DOMAIN Append(evaluations[r], c) = 1 .. n + 1
      /\ Append(evaluations[r], c)[n + 1] = c
      /\ \A k \in 1 .. n : Append(evaluations[r], c)[k] = evaluations[r][k]
  BY <1>2, AppendProperties
<1>6. \A s \in SuiteNames :
        evaluations'[s] = IF s = r THEN Append(evaluations[r], c) ELSE evaluations[s]
  BY <1>1 DEF TypeOK
<1>7. ASSUME NEW s \in SuiteNames, NEW k \in DOMAIN evaluations'[s]
      PROVE  evaluations'[s][k] = Classify(Current, Mutations[k], s)
  <2>1. CASE s # r
    BY <1>3, <1>6, <1>7, <2>1
  <2>2. CASE s = r /\ k = n + 1
    BY <1>5, <1>6, <2>2
  <2>3. CASE s = r /\ k \in 1 .. n
    BY <1>2, <1>3, <1>5, <1>6, <2>3
  <2>4. s = r => k \in 1 .. n + 1
    BY <1>5, <1>6, <1>7
  <2>5. k \in 1 .. n + 1 => k = n + 1 \/ k \in 1 .. n
    BY <1>2
  <2> QED
    BY <2>1, <2>2, <2>3, <2>4, <2>5
<1>8. pc' = "semantic" => Len(evaluations'["standard"]) = Len(Mutations')
  BY <1>1, <1>3, <1>4, <1>6 DEF SuiteNames
<1> QED
  BY <1>4, <1>7, <1>8 DEF WorkInv

\* The invariant that the properties of rows need.
BenchInv == TypeOK /\ WorkInv /\ TallyInv

\* It holds at first ...
LEMMA InitBench ==
  ASSUME Init
  PROVE  BenchInv
<1>1. corpus \in Seq(Model)
  BY BenchAssumption DEF Init
<1>2. <<>> \in Seq(Classifications) /\ <<>> \in Seq(Row) /\ NoTally \in Tally
  BY DEF NoTally, Tally
<1>3. TypeOK
  <2>1. evaluations \in [SuiteNames -> Seq(Classifications)]
        /\ tally \in [SuiteNames -> Tally]
    BY <1>2 DEF Init, NothingEvaluated
  <2>2. pc = "load" /\ pc \notin SuiteNames /\ at \in 1 .. Len(corpus) + 1
    BY <1>1, LenProperties DEF Init, SuiteNames
  <2> QED
    BY <1>1, <1>2, <2>1, <2>2 DEF Init, TypeOK
<1>4. WorkInv
  BY DEF Init, WorkInv, SuiteNames
<1>5. TallyInv
  <2> SUFFICES ASSUME NEW s \in SuiteNames
               PROVE
      /\ tally[s].equivalent = CountOf(evaluations[s], {"EQUIVALENT_ON_FIXTURE"})
      /\ tally[s].detected
           = CountOf(evaluations[s], {"VALID_DEFECT_DETECTED", "RUNTIME_ERROR"})
      /\ tally[s].equivalent + tally[s].detected + tally[s].surviving
           = Len(evaluations[s])
    BY DEF TallyInv
  <2>1. evaluations[s] = <<>> /\ tally[s] = NoTally /\ Len(<<>>) = 0
    BY DEF Init, NothingEvaluated
  <2> QED
    BY <2>1, NothingCounted DEF NoTally
<1> QED
  BY <1>3, <1>4, <1>5 DEF BenchInv

\* ... and every step keeps it.
LEMMA NextBench ==
  ASSUME BenchInv, [Next]_vars
  PROVE  BenchInv'
<1>0. TypeOK /\ WorkInv /\ TallyInv
  BY DEF BenchInv
<1>1. CASE LoadModel
  <2>1. TallyInv'
    BY <1>1, ResetTally DEF LoadModel
  <2>2. pc' = "standard" /\ \A s \in SuiteNames : evaluations'[s] = <<>>
    BY <1>1 DEF LoadModel, NothingEvaluated
  <2>3. WorkInv'
    BY <2>2 DEF WorkInv
  <2> QED
    BY <1>0, <1>1, <2>1, <2>3, LoadType DEF BenchInv
<1>2. ASSUME NEW s \in SuiteNames, EvaluateMutation(s) PROVE BenchInv'
  BY <1>0, <1>2, EvaluateType, EvaluateTally, EvaluateWork DEF BenchInv
<1>3. CASE AddRow
  <2>1. TallyInv'
    BY <1>0, <1>3 DEF AddRow, TallyInv
  <2>2. WorkInv'
    BY <1>3 DEF AddRow, WorkInv, SuiteNames
  <2> QED
    BY <1>0, <1>3, <2>1, <2>2, RowType DEF BenchInv
<1>4. CASE NextSuite
  <2>1. /\ pc = "standard" /\ pc' = "semantic"
        /\ Len(evaluations["standard"]) = Len(Mutations)
        /\ UNCHANGED <<corpus, at, evaluations, tally, rows>>
    BY <1>4 DEF NextSuite
  <2>2. Current' = Current /\ Mutations' = Mutations
    BY <2>1 DEF Current, Mutations
  <2>3. WorkInv'
    BY <1>0, <2>1, <2>2 DEF WorkInv, SuiteNames
  <2>4. TallyInv'
    BY <1>0, <2>1 DEF TallyInv
  <2> QED
    BY <1>0, <1>4, <2>3, <2>4, MoveType DEF BenchInv
<1>5. CASE SkipModel \/ LoadRaises \/ Output
  <2>1. pc' \notin SuiteNames /\ UNCHANGED <<evaluations, tally>>
    BY <1>5 DEF SkipModel, LoadRaises, Output, SuiteNames
  <2>2. WorkInv' /\ TallyInv'
    BY <1>0, <2>1 DEF WorkInv, TallyInv
  <2> QED
    BY <1>0, <1>5, <2>2, MoveType DEF BenchInv
<1>6. CASE UNCHANGED vars
  <2>1. Current' = Current /\ Mutations' = Mutations
    BY <1>6 DEF Current, Mutations, vars
  <2>2. WorkInv'
    BY <1>0, <1>6, <2>1 DEF WorkInv, vars
  <2>3. TallyInv'
    BY <1>0, <1>6 DEF TallyInv, vars
  <2> QED
    BY <1>0, <1>6, <2>2, <2>3, MoveType DEF BenchInv
<1> QED
  BY <1>1, <1>2, <1>3, <1>4, <1>5, <1>6, Steps

\* TypeOK and what the rows are made of, in every reachable state.
LEMMA BenchInvariant == Spec => []BenchInv
BY InitBench, NextBench, PTL DEF Spec

\* The types of the benchmark's state: no suite evaluates more mutants than
\* the model in work has, and every score is a percentage.
THEOREM BenchTypeCorrect == Spec => []TypeOK
<1>1. BenchInv => TypeOK
  BY DEF BenchInv
<1> QED
  BY <1>1, BenchInvariant, PTL

-----------------------------------------------------------------------------
(* The rows.                                                               *)

\* What is compared in a row that is added: two complete passes over the
\* mutants of one model.
LEMMA BothComplete ==
  ASSUME BenchInv, AddRow
  PROVE  \A s \in SuiteNames :
           /\ evaluations[s] \in Seq(Classifications)
           /\ Len(evaluations[s]) = Len(Mutations)
           /\ DOMAIN evaluations[s] = 1 .. Len(Mutations)
           /\ \A k \in 1 .. Len(Mutations) :
                evaluations[s][k] = Classify(Current, Mutations[k], s)
<1>1. /\ pc = "semantic" /\ pc \in SuiteNames
      /\ Len(evaluations["semantic"]) = Len(Mutations)
  BY DEF AddRow, SuiteNames
<1>2. \A s \in SuiteNames : /\ evaluations[s] \in Seq(Classifications)
                            /\ Len(evaluations[s]) = Len(Mutations)
  BY <1>1 DEF BenchInv, TypeOK, WorkInv, SuiteNames
<1>3. \A s \in SuiteNames : DOMAIN evaluations[s] = 1 .. Len(Mutations)
  BY <1>2, LenProperties
<1> QED
  BY <1>1, <1>2, <1>3 DEF BenchInv, WorkInv

\* Nothing else touches the rows.
LEMMA RowsKept ==
  ASSUME [Next]_vars
  PROVE  AddRow \/ rows' = rows
BY Steps DEF LoadModel, SkipModel, LoadRaises, EvaluateMutation, NextSuite, Output, vars

\* A property of every row is kept when the row that is added has it.
LEMMA RowByRow ==
  ASSUME NEW R \in Seq(Row), NEW row \in Row
  PROVE  /\ DOMAIN Append(R, row) = DOMAIN R \cup {Len(R) + 1}
         /\ Append(R, row)[Len(R) + 1] = row
         /\ \A i \in DOMAIN R : Append(R, row)[i] = R[i]
<1>1. Len(R) \in Nat /\ DOMAIN R = 1 .. Len(R)
  BY LenProperties
<1> QED
  BY <1>1, AppendProperties

\* The counts of what no suite can change are the same in both passes.
LEMMA SameEquivalents ==
  ASSUME BenchInv, AddRow
  PROVE  tally["standard"].equivalent = tally["semantic"].equivalent
<1> DEFINE std == evaluations["standard"]  sem == evaluations["semantic"]
           eq == {"EQUIVALENT_ON_FIXTURE"}
<1>1. /\ DOMAIN std = 1 .. Len(Mutations) /\ DOMAIN sem = 1 .. Len(Mutations)
      /\ \A k \in 1 .. Len(Mutations) :
           /\ std[k] = Classify(Current, Mutations[k], "standard")
           /\ sem[k] = Classify(Current, Mutations[k], "semantic")
  BY BothComplete DEF SuiteNames
<1>2. /\ tally["standard"].equivalent = CountOf(std, eq)
      /\ tally["semantic"].equivalent = CountOf(sem, eq)
  BY DEF BenchInv, TallyInv, SuiteNames
<1>3. \A k \in 1 .. Len(Mutations) : std[k] \in eq <=> sem[k] \in eq
  BY <1>1, SuiteBlind
<1>4. {k \in DOMAIN std : std[k] \in eq} = {k \in DOMAIN sem : sem[k] \in eq}
  BY <1>1, <1>3
<1> QED
  BY <1>2, <1>4 DEF CountOf

\* A suite that includes another detects at least as many mutants.
LEMMA MoreDetected ==
  ASSUME BenchInv, AddRow,
         Current.suites["standard"] \subseteq Current.suites["semantic"]
  PROVE  tally["standard"].detected <= tally["semantic"].detected
<1> DEFINE std == evaluations["standard"]  sem == evaluations["semantic"]
           det == {"VALID_DEFECT_DETECTED", "RUNTIME_ERROR"}
           n == Len(Mutations)
           A == {k \in DOMAIN std : std[k] \in det}
           B == {k \in DOMAIN sem : sem[k] \in det}
<1>1. /\ DOMAIN std = 1 .. n /\ DOMAIN sem = 1 .. n
      /\ \A k \in 1 .. n :
           /\ std[k] = Classify(Current, Mutations[k], "standard")
           /\ sem[k] = Classify(Current, Mutations[k], "semantic")
  BY BothComplete DEF SuiteNames
<1>2. /\ tally["standard"].detected = CountOf(std, det)
      /\ tally["semantic"].detected = CountOf(sem, det)
  BY DEF BenchInv, TallyInv, SuiteNames
<1>3. \A k \in 1 .. n : std[k] \in det => sem[k] \in det
  BY <1>1, SuiteMonotone
<1>4. n \in Nat
  BY MutantsType DEF Mutations
<1> HIDE DEF n
<1>5. IsFiniteSet(1 .. n)
  BY <1>4, FS_Interval
<1>6. A \subseteq B /\ B \subseteq 1 .. n
  BY <1>1, <1>3
<1> HIDE DEF A, B
<1>7. IsFiniteSet(B) /\ Cardinality(A) <= Cardinality(B)
  BY <1>5, <1>6, FS_Subset
<1> QED
  BY <1>2, <1>7 DEF CountOf, A, B

\* A new row compares the two suites on the same mutants.
LEMMA FairRow ==
  ASSUME BenchInv, SuitesShareDenominator, AddRow
  PROVE  SuitesShareDenominator'
<1>1. PICK row \in Row :
        /\ rows' = Append(rows, row)
        /\ row.model = Current
        /\ \A s \in SuiteNames : row.reports[s] = Report(evaluations[s], tally[s])
  BY RowAdded DEF BenchInv
<1> DEFINE std == row.reports["standard"]  sem == row.reports["semantic"]
<1>2. /\ std.total = Len(Mutations) /\ sem.total = Len(Mutations)
      /\ std.valid = Len(Mutations) - tally["standard"].equivalent
      /\ sem.valid = Len(Mutations) - tally["semantic"].equivalent
      /\ std.evaluations = evaluations["standard"]
      /\ sem.evaluations = evaluations["semantic"]
  BY <1>1, BothComplete, ReportFields DEF SuiteNames
<1>3. std.total = sem.total /\ std.valid = sem.valid
  BY <1>2, SameEquivalents
<1>4. ASSUME NEW j \in 1 .. std.total,
             NEW c \in {"EQUIVALENT_ON_FIXTURE", "RUNTIME_ERROR"}
      PROVE  std.evaluations[j] = c <=> sem.evaluations[j] = c
  <2>1. /\ evaluations["standard"][j] = Classify(Current, Mutations[j], "standard")
        /\ evaluations["semantic"][j] = Classify(Current, Mutations[j], "semantic")
    BY <1>2, <1>4, BothComplete DEF SuiteNames
  <2> QED
    BY <1>2, <2>1, SuiteBlind
<1>5. rows \in Seq(Row)
  BY DEF BenchInv, TypeOK
<1>6. /\ DOMAIN rows' = DOMAIN rows \cup {Len(rows) + 1}
      /\ rows'[Len(rows) + 1] = row
      /\ \A i \in DOMAIN rows : rows'[i] = rows[i]
  BY <1>1, <1>5, RowByRow
<1> QED
  BY <1>3, <1>4, <1>6 DEF SuitesShareDenominator

\* A new row shows no loss where the semantic suite includes the standard one.
LEMMA NoLossRow ==
  ASSUME BenchInv, StrongerSuiteNeverLoses, AddRow
  PROVE  StrongerSuiteNeverLoses'
<1>1. PICK row \in Row :
        /\ rows' = Append(rows, row)
        /\ row.model = Current
        /\ \A s \in SuiteNames : row.reports[s] = Report(evaluations[s], tally[s])
        /\ row.gain = row.reports["semantic"].score - row.reports["standard"].score
  BY RowAdded DEF BenchInv
<1> DEFINE d == tally["standard"].detected  e == tally["semantic"].detected
           v == Len(Mutations) - tally["standard"].equivalent
<1>2. /\ row.reports["standard"].score = CatchScore(d, v)
      /\ row.reports["semantic"].score = CatchScore(e, v)
  BY <1>1, BothComplete, ReportFields, SameEquivalents DEF SuiteNames
<1>3. d \in Nat /\ e \in Nat /\ v \in Nat /\ d <= v /\ e <= v
  <2>1. /\ tally["standard"] \in Tally /\ tally["semantic"] \in Tally
        /\ Len(Mutations) = tally["standard"].equivalent + d + tally["standard"].surviving
        /\ Len(Mutations) = tally["semantic"].equivalent + e + tally["semantic"].surviving
    BY BothComplete DEF BenchInv, TypeOK, TallyInv, SuiteNames
  <2> DEFINE n == Len(Mutations)  q == tally["standard"].equivalent
             x == tally["standard"].surviving  y == tally["semantic"].surviving
  <2>2. q \in Nat /\ x \in Nat /\ y \in Nat /\ d \in Nat /\ e \in Nat
    BY <2>1 DEF Tally
  <2>3. n = q + d + x /\ n = q + e + y
    BY <2>1, SameEquivalents
  <2> HIDE DEF n, q, x, y, d, e
  <2>4. d <= n - q /\ e <= n - q /\ n - q \in Nat
    BY <2>2, <2>3
  <2> QED
    BY <2>2, <2>4 DEF n, q
<1>4. ASSUME row.model.suites["standard"] \subseteq row.model.suites["semantic"]
      PROVE  row.gain >= 0
  <2>1. d <= e
    BY <1>1, <1>4, MoreDetected
  <2>2. d \in Nat /\ e \in Nat /\ v \in Nat /\ d <= v /\ e <= v
    BY <1>3
  <2> HIDE DEF d, e, v
  <2>3. CatchScore(e, v) - CatchScore(d, v) >= 0
    BY <2>1, <2>2, NoLoss
  <2> QED
    BY <1>1, <1>2, <2>3
<1>5. rows \in Seq(Row)
  BY DEF BenchInv, TypeOK
<1>6. /\ DOMAIN rows' = DOMAIN rows \cup {Len(rows) + 1}
      /\ rows'[Len(rows) + 1] = row
      /\ \A i \in DOMAIN rows : rows'[i] = rows[i]
  BY <1>1, <1>5, RowByRow
<1> QED
  BY <1>4, <1>6 DEF StrongerSuiteNeverLoses

\* The two suites of a model are scored on the same mutants: which are
\* equivalent and which do not run is found out twice, once in each pass,
\* and does not depend on the suite.
THEOREM FairComparison == Spec => []SuitesShareDenominator
<1>1. Init => SuitesShareDenominator
  BY DEF Init, SuitesShareDenominator
<1>2. ASSUME BenchInv, SuitesShareDenominator, [Next]_vars
      PROVE  SuitesShareDenominator'
  BY <1>2, FairRow, RowsKept DEF SuitesShareDenominator
<1> QED
  BY <1>1, <1>2, BenchInvariant, PTL DEF Spec

\* A semantic suite that includes the standard one never scores lower,
\* whatever the corpus and the answers: no negative incremental gain.
THEOREM NoNegativeGain == Spec => []StrongerSuiteNeverLoses
<1>1. Init => StrongerSuiteNeverLoses
  BY DEF Init, StrongerSuiteNeverLoses
<1>2. ASSUME BenchInv, StrongerSuiteNeverLoses, [Next]_vars
      PROVE  StrongerSuiteNeverLoses'
  BY <1>2, NoLossRow, RowsKept DEF StrongerSuiteNeverLoses
<1> QED
  BY <1>1, <1>2, BenchInvariant, PTL DEF Spec
=============================================================================
