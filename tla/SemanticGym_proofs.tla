-------------------------- MODULE SemanticGym_proofs --------------------------
(***************************************************************************)
(* Proofs about SemanticGym and the mutants it is given, for every corpus, *)
(* assignment of families to splits, set of output files and bounds.       *)
(***************************************************************************)
EXTENDS SemanticGym, TLAPS, SequenceTheorems

-----------------------------------------------------------------------------
(* The mutants of a query.                                                 *)

\* A list of members of D, none of them twice.
Once(s, D) == s \in Seq(D) /\ \A i, j \in DOMAIN s : s[i] = s[j] => i = j

\* An operator that had no turn yet adds its mutant or nothing.
LEMMA NextTurn ==
  ASSUME NEW T, NEW D, NEW t, t \notin D, NEW s, Once(s, D \cap T)
  PROVE  Once(s \o (IF t \in T THEN <<t>> ELSE <<>>), (D \cup {t}) \cap T)
<1> DEFINE E == (D \cup {t}) \cap T
<1>1. s \in Seq(D \cap T) /\ \A i, j \in DOMAIN s : s[i] = s[j] => i = j
  BY DEF Once
<1>2. /\ Len(s) \in Nat /\ DOMAIN s = 1 .. Len(s)
      /\ \A i \in 1 .. Len(s) : s[i] \in D \cap T
  BY <1>1, LenProperties, ElementOfSeq
<1>3. s \in Seq(E)
  <2>1. s \in [1 .. Len(s) -> E]
    BY <1>1, <1>2, LenProperties
  <2> QED
    BY <1>2, <2>1, SeqDef
<1>4. CASE t \in T
  <2>1. <<t>> \in Seq(E) /\ Len(<<t>>) = 1 /\ <<t>>[1] = t
    BY <1>4
  <2>2. /\ s \o <<t>> \in Seq(E) /\ Len(s \o <<t>>) = Len(s) + 1
        /\ \A i \in 1 .. Len(s) + 1 :
             (s \o <<t>>)[i] = IF i <= Len(s) THEN s[i] ELSE <<t>>[i - Len(s)]
    BY <1>3, <2>1, ConcatProperties
  <2> DEFINE r == s \o <<t>>
  <2>3. /\ DOMAIN r = 1 .. Len(s) + 1 /\ r[Len(s) + 1] = t
        /\ \A i \in 1 .. Len(s) : r[i] = s[i]
    <3>1. DOMAIN r = 1 .. Len(s) + 1
      BY <2>2, LenProperties
    <3>2. Len(s) + 1 \in 1 .. Len(s) + 1 /\ ~(Len(s) + 1 <= Len(s))
          /\ (Len(s) + 1) - Len(s) = 1
      BY <1>2
    <3>3. r[Len(s) + 1] = t
      BY <2>1, <2>2, <3>2
    <3>4. \A i \in 1 .. Len(s) : r[i] = s[i]
      BY <1>2, <2>2
    <3> QED
      BY <3>1, <3>3, <3>4
  <2> HIDE DEF r
  <2>4. ASSUME NEW i \in DOMAIN r, NEW j \in DOMAIN r, r[i] = r[j] PROVE i = j
    <3>1. CASE i \in 1 .. Len(s) /\ j \in 1 .. Len(s)
      BY <1>1, <1>2, <2>3, <2>4, <3>1
    <3>2. CASE i = Len(s) + 1 /\ j \in 1 .. Len(s)
      BY <1>2, <2>3, <2>4, <3>2
    <3>3. CASE i \in 1 .. Len(s) /\ j = Len(s) + 1
      BY <1>2, <2>3, <2>4, <3>3
    <3>4. CASE i = Len(s) + 1 /\ j = Len(s) + 1
      BY <3>4
    <3> QED
      BY <1>2, <2>3, <3>1, <3>2, <3>3, <3>4
  <2> QED
    BY <1>4, <2>2, <2>4 DEF Once, r
<1>5. CASE t \notin T
  <2>1. s \o <<>> = s
    BY <1>3, ConcatEmptySeq
  <2> QED
    BY <1>1, <1>3, <1>5, <2>1 DEF Once
<1> QED
  BY <1>4, <1>5

\* What an engine makes in the order of its operators has each type once.
LEMMA InOrderOnce ==
  ASSUME NEW T \in SUBSET MutationTypes
  PROVE  Once(InOrder(T), T)
<1> DEFINE Turn(t) == IF t \in T THEN <<t>> ELSE <<>>
           s1 == Turn("FILTER_DROP")           s2 == s1 \o Turn("BOUNDARY_SHIFT")
           s3 == s2 \o Turn("AGGREGATION_SWAP") s4 == s3 \o Turn("DISTINCT_DROP")
           s5 == s4 \o Turn("JOIN_PREDICATE_DROP") s6 == s5 \o Turn("GRAIN_DROP")
           s7 == s6 \o Turn("COALESCE_BYPASS")
           s8 == s7 \o Turn("MATH_OPERATOR_INVERT")
           D1 == {"FILTER_DROP"}               D2 == D1 \cup {"BOUNDARY_SHIFT"}
           D3 == D2 \cup {"AGGREGATION_SWAP"}  D4 == D3 \cup {"DISTINCT_DROP"}
           D5 == D4 \cup {"JOIN_PREDICATE_DROP"} D6 == D5 \cup {"GRAIN_DROP"}
           D7 == D6 \cup {"COALESCE_BYPASS"}
           D8 == D7 \cup {"MATH_OPERATOR_INVERT"}
<1>0. InOrder(T) = s8
  BY DEF InOrder
<1>1. Once(s1, D1 \cap T)
  <2>1. CASE "FILTER_DROP" \in T
    <3>1. s1 = <<"FILTER_DROP">> /\ "FILTER_DROP" \in D1 \cap T
      BY <2>1
    <3> HIDE DEF s1, D1
    <3>2. s1 \in Seq(D1 \cap T) /\ DOMAIN s1 = 1 .. 1
      BY <3>1
    <3> QED
      BY <3>2 DEF Once
  <2>2. CASE "FILTER_DROP" \notin T
    <3>1. s1 = <<>>
      BY <2>2
    <3> QED
      BY <3>1 DEF Once
  <2> QED
    BY <2>1, <2>2
<1> HIDE DEF s1
<1>2. Once(s2, D2 \cap T)
  BY <1>1, NextTurn
<1> HIDE DEF s2
<1>3. Once(s3, D3 \cap T)
  BY <1>2, NextTurn
<1> HIDE DEF s3
<1>4. Once(s4, D4 \cap T)
  BY <1>3, NextTurn
<1> HIDE DEF s4
<1>5. Once(s5, D5 \cap T)
  BY <1>4, NextTurn
<1> HIDE DEF s5
<1>6. Once(s6, D6 \cap T)
  BY <1>5, NextTurn
<1> HIDE DEF s6
<1>7. Once(s7, D7 \cap T)
  BY <1>6, NextTurn
<1> HIDE DEF s7
<1>8. Once(s8, D8 \cap T)
  BY <1>7, NextTurn
<1>9. D8 \cap T = T
  BY DEF MutationTypes
<1> QED
  BY <1>0, <1>8, <1>9
-----------------------------------------------------------------------------
(* Pairs.                                                                  *)

\* The pair of a mutant is a pair, of that file and mutant.
LEMMA PairType ==
  ASSUME NEW p \in Paths, NEW f \in Contents, NEW t \in MutationTypes, NEW target
  PROVE  LET x == PairOf(p, f, t, target)
         IN  /\ x \in Pair
             /\ x.path = p /\ x.of = f /\ x.type = t
             /\ x.family = f.family /\ x.split = AssignSplit[f.family]
             /\ x.metric = f.metric
<1>1. f \in File
  BY GymAssumption
<1>2. f.family \in Families /\ f.metric \in Metrics
  BY <1>1 DEF File
<1>3. AssignSplit[f.family] \in Splits
  BY <1>2, GymAssumption
<1> DEFINE changed == ResultChanged(f, t)
<1>4. changed \in BOOLEAN
  BY DEF ResultChanged
<1>5. PairOf(p, f, t, target) =
        [metric |-> f.metric, type |-> t, split |-> AssignSplit[f.family],
         family |-> f.family, result_changed |-> changed, path |-> p, of |-> f]
  BY DEF PairOf, SplitOf
<1> HIDE DEF changed
<1> QED
  BY <1>2, <1>3, <1>4, <1>5 DEF Pair

\* The pairs of a file that is not refused are admitted, none of them twice.
LEMMA PairsOfFile ==
  ASSUME NEW p \in Paths, NEW f \in Contents, NEW target \in Targets,
         ~Refused(f, target), f.chosen # "raises"
  PROVE  /\ PairsOf(p, f, target) \in Seq(Pair)
         /\ LinesInv(PairsOf(p, f, target), target)
         /\ \A i \in DOMAIN PairsOf(p, f, target) : PairsOf(p, f, target)[i].path = p
<1> DEFINE T == {t \in Injectable(f.features) : AllowedIn(t, target) /\ Retained(f, t)}
           kept == InOrder(T)
           lines == PairsOf(p, f, target)
<1>1. T \in SUBSET MutationTypes
  BY DEF Injectable
<1>2. kept \in Seq(T) /\ \A i, j \in DOMAIN kept : kept[i] = kept[j] => i = j
  BY <1>1, InOrderOnce DEF Once
<1>3. /\ Len(kept) \in Nat /\ DOMAIN kept = 1 .. Len(kept)
      /\ \A i \in 1 .. Len(kept) : kept[i] \in T
  BY <1>2, LenProperties, ElementOfSeq
<1>4. lines = [i \in DOMAIN kept |-> PairOf(p, f, kept[i], target)]
  BY DEF PairsOf
<1>5. ASSUME NEW i \in 1 .. Len(kept)
      PROVE  /\ lines[i] = PairOf(p, f, kept[i], target)
             /\ lines[i] \in Pair
             /\ lines[i].path = p /\ lines[i].of = f /\ lines[i].type = kept[i]
             /\ AllowedIn(kept[i], target) /\ Retained(f, kept[i])
  <2>1. kept[i] \in T /\ kept[i] \in MutationTypes
    BY <1>1, <1>3
  <2>2. lines[i] = PairOf(p, f, kept[i], target)
    BY <1>3, <1>4
  <2> HIDE DEF lines, kept
  <2> QED
    BY <2>1, <2>2, PairType
<1>6. DOMAIN lines = 1 .. Len(kept)
  BY <1>3, <1>4
<1> HIDE DEF lines, kept, T
<1>7. lines \in Seq(Pair)
  <2>1. lines \in [1 .. Len(kept) -> Pair]
    BY <1>4, <1>5, <1>6
  <2> QED
    BY <1>3, <2>1, SeqDef
<1>8. LinesInv(lines, target)
  <2>1. \A i \in DOMAIN lines : Admitted(lines[i], target)
    BY <1>5, <1>6 DEF Admitted
  <2>2. \A i, j \in DOMAIN lines : lines[i].type = lines[j].type => i = j
    BY <1>2, <1>3, <1>5, <1>6
  <2> QED
    BY <2>1, <2>2 DEF LinesInv
<1> QED
  BY <1>5, <1>6, <1>7, <1>8 DEF lines

\* Lists of pairs of different files are joined without repeating any.
LEMMA LinesJoin ==
  ASSUME NEW a \in Seq(Pair), NEW b \in Seq(Pair), NEW target,
         LinesInv(a, target), LinesInv(b, target),
         \A i \in DOMAIN a, j \in DOMAIN b : a[i].path # b[j].path
  PROVE  /\ a \o b \in Seq(Pair)
         /\ LinesInv(a \o b, target)
         /\ \A k \in DOMAIN (a \o b) :
              \/ \E i \in DOMAIN a : (a \o b)[k] = a[i]
              \/ \E j \in DOMAIN b : (a \o b)[k] = b[j]
<1> DEFINE c == a \o b
<1>1. /\ c \in Seq(Pair) /\ Len(a) \in Nat /\ Len(b) \in Nat
      /\ DOMAIN a = 1 .. Len(a) /\ DOMAIN b = 1 .. Len(b)
      /\ DOMAIN c = 1 .. Len(a) + Len(b)
      /\ \A i \in 1 .. Len(a) + Len(b) :
           c[i] = IF i <= Len(a) THEN a[i] ELSE b[i - Len(a)]
  BY ConcatProperties, LenProperties
<1> HIDE DEF c
<1>2. ASSUME NEW k \in DOMAIN c
      PROVE  \/ k \in DOMAIN a /\ c[k] = a[k]
             \/ k - Len(a) \in DOMAIN b /\ c[k] = b[k - Len(a)] /\ k \notin DOMAIN a
  BY <1>1
<1>3. \A k \in DOMAIN c : Admitted(c[k], target)
  BY <1>2 DEF LinesInv
<1>4. ASSUME NEW k \in DOMAIN c, NEW l \in DOMAIN c,
             c[k].path = c[l].path, c[k].type = c[l].type
      PROVE  k = l
  <2>1. CASE k \in DOMAIN a /\ c[k] = a[k] /\ l \in DOMAIN a /\ c[l] = a[l]
    BY <1>4, <2>1 DEF LinesInv
  <2>2. CASE /\ k - Len(a) \in DOMAIN b /\ c[k] = b[k - Len(a)]
             /\ l - Len(a) \in DOMAIN b /\ c[l] = b[l - Len(a)]
    <3>1. k - Len(a) = l - Len(a)
      BY <1>4, <2>2 DEF LinesInv
    <3> QED
      BY <1>1, <3>1
  <2>3. CASE k \in DOMAIN a /\ c[k] = a[k] /\ l - Len(a) \in DOMAIN b
             /\ c[l] = b[l - Len(a)]
    BY <1>4, <2>3
  <2>4. CASE l \in DOMAIN a /\ c[l] = a[l] /\ k - Len(a) \in DOMAIN b
             /\ c[k] = b[k - Len(a)]
    BY <1>4, <2>4
  <2> QED
    BY <1>2, <2>1, <2>2, <2>3, <2>4
<1>5. LinesInv(c, target)
  BY <1>3, <1>4 DEF LinesInv
<1> QED
  BY <1>1, <1>2, <1>5 DEF c
-----------------------------------------------------------------------------
(* Prefixes.                                                               *)

\* The beginning of a list is a prefix of it, and so is all of it.
LEMMA PrefixOf ==
  ASSUME NEW s \in Seq(Pair), NEW n \in 0 .. Len(s)
  PROVE  /\ SubSeq(s, 1, n) \in Seq(Pair)
         /\ IsPrefix(SubSeq(s, 1, n), s) /\ IsPrefix(s, s)
<1>1. Len(s) \in Nat /\ DOMAIN s = 1 .. Len(s)
  BY LenProperties
<1>2. \A i \in 1 .. n : s[i] \in Pair
  BY <1>1, ElementOfSeq
<1> DEFINE r == SubSeq(s, 1, n)
<1>3. r \in Seq(Pair) /\ Len(r) = n
  <2>1. n \in Int /\ 1 \in Int
    BY <1>1
  <2>2. r \in Seq(Pair) /\ Len(r) = IF 1 <= n THEN n - 1 + 1 ELSE 0
    BY <1>2, <2>1, SubSeqProperties
  <2> QED
    BY <1>1, <2>2
<1>4. SubSeq(r, 1, n) = r
  BY <1>1, <1>2, <1>3
<1>5. IsPrefix(r, s)
  BY <1>1, <1>3, <1>4 DEF IsPrefix
<1>6. IsPrefix(s, s)
  BY <1>1 DEF IsPrefix
<1> QED
  BY <1>3, <1>5, <1>6

\* A prefix has the lines of the list it begins, at the same places.
LEMMA PrefixLines ==
  ASSUME NEW r \in Seq(Pair), NEW s \in Seq(Pair), IsPrefix(r, s)
  PROVE  /\ DOMAIN r \subseteq DOMAIN s
         /\ \A i \in DOMAIN r : r[i] = s[i]
<1>1. /\ Len(r) \in Nat /\ Len(s) \in Nat
      /\ DOMAIN r = 1 .. Len(r) /\ DOMAIN s = 1 .. Len(s)
  BY LenProperties
<1>2. Len(r) <= Len(s) /\ SubSeq(r, 1, Len(r)) = SubSeq(s, 1, Len(r))
  BY DEF IsPrefix
<1>3. ASSUME NEW i \in 1 .. Len(r) PROVE r[i] = s[i]
  <2>1. SubSeq(r, 1, Len(r))[i] = r[i] /\ SubSeq(s, 1, Len(r))[i] = s[i]
    BY <1>1
  <2> QED
    BY <1>2, <2>1
<1> QED
  BY <1>1, <1>2, <1>3

\* So what holds of the lines of a list holds of those of a prefix.
LEMMA PrefixInv ==
  ASSUME NEW r \in Seq(Pair), NEW s \in Seq(Pair), IsPrefix(r, s),
         NEW target, LinesInv(s, target)
  PROVE  LinesInv(r, target)
BY PrefixLines DEF LinesInv
-----------------------------------------------------------------------------
(* The exports.                                                            *)

\* A file that is read adds its pairs, or nothing, to those of the export.
LEMMA ReadFileStep ==
  ASSUME TypeOK, ExportsInv, NEW p \in Paths, ReadFile(p)
  PROVE  /\ job \in Job /\ job' \in Job
         /\ job'.target = job.target /\ job'.left = job.left \ {p}
         /\ LinesInv(job'.examples, job'.target)
         /\ \A i \in DOMAIN job'.examples : job'.examples[i].path \notin job'.left
<1>1. /\ job \in Job /\ p \in job.left
      /\ corpus \in [Paths -> Contents \cup {None}]
  BY DEF TypeOK, ReadFile
<1>2. /\ job.target \in Targets /\ job.output \in Outputs
      /\ job.left \in SUBSET Paths /\ job.examples \in Seq(Pair)
  BY <1>1 DEF Job
<1>3. /\ LinesInv(job.examples, job.target)
      /\ \A i \in DOMAIN job.examples : job.examples[i].path \notin job.left
  BY DEF ReadFile, ExportsInv
<1> DEFINE out == corpus[p] = None \/ Refused(corpus[p], job.target)
           more == IF out THEN <<>> ELSE PairsOf(p, corpus[p], job.target)
<1>4. job' = [target |-> job.target, output |-> job.output,
              left |-> job.left \ {p}, examples |-> job.examples \o more]
  BY DEF ReadFile
<1>5. /\ more \in Seq(Pair) /\ LinesInv(more, job.target)
      /\ \A i \in DOMAIN more : more[i].path = p
  <2>1. CASE out
    BY <2>1 DEF LinesInv
  <2>2. CASE ~out
    <3>1. /\ corpus[p] \in Contents /\ ~Refused(corpus[p], job.target)
          /\ corpus[p].chosen # "raises"
      BY <1>1, <2>2 DEF ReadFile
    <3>2. more = PairsOf(p, corpus[p], job.target)
      BY <2>2
    <3> QED
      BY <1>2, <3>1, <3>2, PairsOfFile
  <2> QED
    BY <2>1, <2>2
<1> HIDE DEF more, out
<1>6. \A i \in DOMAIN job.examples, j \in DOMAIN more :
        job.examples[i].path # more[j].path
  BY <1>1, <1>3, <1>5
<1> DEFINE lines == job.examples \o more
<1>7. /\ lines \in Seq(Pair) /\ LinesInv(lines, job.target)
      /\ \A k \in DOMAIN lines :
           \/ \E i \in DOMAIN job.examples : lines[k] = job.examples[i]
           \/ \E j \in DOMAIN more : lines[k] = more[j]
  BY <1>2, <1>3, <1>5, <1>6, LinesJoin
<1> HIDE DEF lines
<1>8. /\ job'.target = job.target /\ job'.left = job.left \ {p}
      /\ job'.output = job.output /\ job'.examples = lines
  BY <1>4 DEF lines
<1>9. job' \in Job
  BY <1>2, <1>4, <1>7 DEF Job, lines
<1>10. \A k \in DOMAIN lines : lines[k].path \notin job.left \ {p}
  BY <1>3, <1>5, <1>7
<1> QED
  BY <1>1, <1>7, <1>8, <1>9, <1>10

\* What is written to the output file of an export that is ready: all of it
\* or the beginning of it.
Written(lines) ==
  /\ job # None /\ job.left = {}
  /\ datasets' = [datasets EXCEPT ![job.output] = lines]
  /\ exports' = exports \cup {[target |-> job.target, lines |-> job.examples]}
  /\ job' = None
  /\ UNCHANGED <<corpus, started, edits>>
  /\ lines \in Seq(Pair) /\ IsPrefix(lines, job.examples)
  /\ \/ lines = job.examples /\ cut' = cut \ {job.output}
     \/ cut' = cut \cup {job.output}

\* Both ways to end a ready export are of this kind.
LEMMA Writes ==
  ASSUME TypeOK, WriteDataset \/ KillWriting
  PROVE  \E lines \in Seq(Pair) : Written(lines)
<1>1. job \in Job /\ job # None
  BY DEF TypeOK, WriteDataset, KillWriting
<1>2. job.examples \in Seq(Pair) /\ Len(job.examples) \in Nat
  BY <1>1, LenProperties DEF Job
<1>3. CASE WriteDataset
  <2>1. Len(job.examples) \in 0 .. Len(job.examples)
    BY <1>2
  <2>2. IsPrefix(job.examples, job.examples)
    BY <1>2, <2>1, PrefixOf
  <2> QED
    BY <1>2, <1>3, <2>2 DEF WriteDataset, Written
<1>4. CASE KillWriting
  <2>1. PICK n \in 0 .. Len(job.examples) :
          datasets' = [datasets EXCEPT ![job.output] = SubSeq(job.examples, 1, n)]
    BY <1>4 DEF KillWriting
  <2>2. /\ SubSeq(job.examples, 1, n) \in Seq(Pair)
        /\ IsPrefix(SubSeq(job.examples, 1, n), job.examples)
    BY <1>2, PrefixOf
  <2> QED
    BY <1>4, <2>1, <2>2 DEF KillWriting, Written
<1> QED
  BY <1>3, <1>4
\* An export begins with no line.
LEMMA ExportStarts ==
  ASSUME NEW target \in Targets, NEW o \in Outputs, StartExport(target, o)
  PROVE  /\ job' \in Job
         /\ LinesInv(job'.examples, job'.target)
         /\ \A i \in DOMAIN job'.examples : job'.examples[i].path \notin job'.left
<1> DEFINE j == [target |-> target, output |-> o, left |-> Paths, examples |-> <<>>]
<1>1. job' = j
  BY DEF StartExport
<1>2. <<>> \in Seq(Pair) /\ DOMAIN <<>> = {}
  OBVIOUS
<1>3. j \in Job /\ j.examples = <<>>
  BY <1>2 DEF Job
<1> HIDE DEF j
<1> QED
  BY <1>1, <1>2, <1>3 DEF LinesInv

\* The steps there are.
LEMMA Steps ==
  ASSUME TypeOK, [Next]_vars
  PROVE  \/ \E target \in Targets, o \in Outputs : StartExport(target, o)
         \/ \E p \in Paths : ReadFile(p)
         \/ \E lines \in Seq(Pair) : Written(lines)
         \/ job' = None /\ UNCHANGED <<corpus, datasets, exports, cut, started, edits>>
         \/ \E p \in Paths, f \in Contents \cup {None} : EditCorpus(p, f)
         \/ UNCHANGED vars
BY Writes DEF Next, ExportRaises, KillExport

\* No step leaves the types.
LEMMA NextType == TypeOK /\ ExportsInv /\ [Next]_vars => TypeOK'
<1> SUFFICES ASSUME TypeOK, ExportsInv, [Next]_vars PROVE TypeOK'
  OBVIOUS
<1>1. ASSUME NEW target \in Targets, NEW o \in Outputs, StartExport(target, o)
      PROVE  TypeOK'
  BY <1>1, ExportStarts DEF StartExport, TypeOK
<1>2. ASSUME NEW p \in Paths, ReadFile(p) PROVE TypeOK'
  BY <1>2, ReadFileStep DEF ReadFile, TypeOK
<1>3. ASSUME NEW lines \in Seq(Pair), Written(lines) PROVE TypeOK'
  <2>1. job \in Job
    BY <1>3 DEF TypeOK, Written
  <2>2. job.output \in Outputs /\ job.target \in Targets /\ job.examples \in Seq(Pair)
    BY <2>1 DEF Job
  <2>3. datasets' \in [Outputs -> Seq(Pair) \cup {None}]
    BY <1>3 DEF TypeOK, Written
  <2>4. \A e \in exports' : e.target \in Targets /\ e.lines \in Seq(Pair)
    BY <1>3, <2>2 DEF TypeOK, Written
  <2>5. cut' \subseteq Outputs
    BY <1>3, <2>2 DEF TypeOK, Written
  <2> QED
    BY <1>3, <2>3, <2>4, <2>5 DEF TypeOK, Written
<1>4. CASE job' = None /\ UNCHANGED <<corpus, datasets, exports, cut, started, edits>>
  BY <1>4 DEF TypeOK
<1>5. ASSUME NEW p \in Paths, NEW f \in Contents \cup {None}, EditCorpus(p, f)
      PROVE  TypeOK'
  BY <1>5 DEF EditCorpus, TypeOK
<1>6. CASE UNCHANGED vars
  BY <1>6 DEF vars, TypeOK
<1> QED
  BY <1>1, <1>2, <1>3, <1>4, <1>5, <1>6, Steps

\* Nor does one collect a pair that the gates refuse, or one twice.
LEMMA NextExports == TypeOK /\ ExportsInv /\ [Next]_vars => ExportsInv'
<1> SUFFICES ASSUME TypeOK, ExportsInv, [Next]_vars PROVE ExportsInv'
  OBVIOUS
<1> USE DEF ExportsInv
<1>1. ASSUME NEW target \in Targets, NEW o \in Outputs, StartExport(target, o)
      PROVE  ExportsInv'
  BY <1>1, ExportStarts DEF StartExport, LinesInv
<1>2. ASSUME NEW p \in Paths, ReadFile(p) PROVE ExportsInv'
  BY <1>2, ReadFileStep DEF ReadFile, LinesInv
<1>3. ASSUME NEW lines \in Seq(Pair), Written(lines) PROVE ExportsInv'
  BY <1>3 DEF Written, LinesInv
<1>4. CASE job' = None /\ UNCHANGED <<corpus, datasets, exports, cut, started, edits>>
  BY <1>4 DEF LinesInv
<1>5. ASSUME NEW p \in Paths, NEW f \in Contents \cup {None}, EditCorpus(p, f)
      PROVE  ExportsInv'
  BY <1>5 DEF EditCorpus, LinesInv
<1>6. CASE UNCHANGED vars
  BY <1>6 DEF vars, LinesInv
<1> QED
  BY <1>1, <1>2, <1>3, <1>4, <1>5, <1>6, Steps

\* An output file changes only when an export that is ready writes it.
LEMMA NextFiles == TypeOK /\ FilesAreWhole /\ [Next]_vars => FilesAreWhole'
<1> SUFFICES ASSUME TypeOK, FilesAreWhole, [Next]_vars PROVE FilesAreWhole'
  OBVIOUS
<1>1. ASSUME NEW lines \in Seq(Pair), Written(lines) PROVE FilesAreWhole'
  <2> DEFINE e == [target |-> job.target, lines |-> job.examples]
  <2>1. e \in exports' /\ exports \subseteq exports' /\ e.lines = job.examples
    BY <1>1 DEF Written
  <2>2. datasets \in [Outputs -> Seq(Pair) \cup {None}]
    BY DEF TypeOK
  <2> HIDE DEF e
  <2> SUFFICES ASSUME NEW o \in Outputs, datasets'[o] # None
               PROVE  \E x \in exports' : /\ IsPrefix(datasets'[o], x.lines)
                                          /\ o \in cut' \/ datasets'[o] = x.lines
    BY DEF FilesAreWhole, IsPrefix
  <2>3. CASE o = job.output
    <3>1. datasets'[o] = lines
      BY <1>1, <2>2, <2>3 DEF Written
    <3>2. IsPrefix(datasets'[o], e.lines)
      BY <1>1, <2>1, <3>1 DEF Written
    <3>3. o \in cut' \/ datasets'[o] = e.lines
      BY <1>1, <2>1, <2>3, <3>1 DEF Written
    <3> QED
      BY <2>1, <3>2, <3>3
  <2>4. CASE o # job.output
    <3>1. datasets'[o] = datasets[o]
      BY <1>1, <2>2, <2>4 DEF Written
    <3>2. PICK x \in exports : /\ IsPrefix(datasets[o], x.lines)
                               /\ o \in cut \/ datasets[o] = x.lines
      BY <2>3, <3>1 DEF FilesAreWhole
    <3>3. o \in cut => o \in cut'
      BY <1>1, <2>4 DEF Written
    <3> QED
      BY <2>1, <3>1, <3>2, <3>3
  <2> QED
    BY <2>3, <2>4
<1>2. CASE UNCHANGED <<datasets, exports, cut>>
  BY <1>2 DEF FilesAreWhole, IsPrefix
<1> QED
  BY <1>1, <1>2, Steps DEF StartExport, ReadFile, EditCorpus, vars

\* Types, gates and files together are an invariant.
GymInv == TypeOK /\ ExportsInv /\ FilesAreWhole

\* It holds in every state.
LEMMA GymInvariant == Spec => []GymInv
<1>1. Init => GymInv
  <2> SUFFICES ASSUME Init PROVE GymInv
    OBVIOUS
  <2>1. TypeOK
    BY DEF Init, TypeOK
  <2>2. ExportsInv /\ FilesAreWhole
    BY DEF Init, ExportsInv, FilesAreWhole
  <2> QED
    BY <2>1, <2>2 DEF GymInv
<1>2. GymInv /\ [Next]_vars => GymInv'
  BY NextType, NextExports, NextFiles DEF GymInv
<1> QED
  BY <1>1, <1>2, PTL DEF Spec

(* The gym's state keeps its types: whatever the corpus holds, an export   *)
(* collects and writes nothing but well-formed pairs.                      *)
THEOREM GymTypeCorrect == Spec => []TypeOK
<1>1. GymInv => TypeOK
  BY DEF GymInv
<1> QED
  BY <1>1, GymInvariant, PTL

(* An output file is what one export meant to write, or its beginning if   *)
(* the writer was killed; an export that fails or is killed before it is   *)
(* ready changes none.                                                     *)
THEOREM WholeFiles == Spec => []FilesAreWhole
<1>1. GymInv => FilesAreWhole
  BY DEF GymInv
<1> QED
  BY <1>1, GymInvariant, PTL
-----------------------------------------------------------------------------
(* What the files hold.                                                    *)

\* The lines of a file were admitted by the export that wrote it.
LEMMA DatasetLines ==
  ASSUME GymInv, NEW o \in Outputs, datasets[o] # None
  PROVE  \E e \in exports :
           /\ e.target \in Targets /\ e.lines \in Seq(Pair)
           /\ datasets[o] \in Seq(Pair) /\ IsPrefix(datasets[o], e.lines)
           /\ LinesInv(datasets[o], e.target)
<1>1. PICK e \in exports : IsPrefix(datasets[o], e.lines)
  BY DEF GymInv, FilesAreWhole
<1>2. /\ e.target \in Targets /\ e.lines \in Seq(Pair) /\ datasets[o] \in Seq(Pair)
      /\ LinesInv(e.lines, e.target)
  BY <1>1 DEF GymInv, TypeOK, ExportsInv
<1> QED
  BY <1>1, <1>2, PrefixInv

\* A pair of a dataset, and the export that admitted it.
LEMMA PairAdmitted ==
  ASSUME GymInv, NEW x \in Pairs
  PROVE  x \in Pair /\ \E target \in Targets : Admitted(x, target)
<1>1. PICK o \in Outputs : datasets[o] # None /\ x \in Range(datasets[o])
  BY DEF Pairs
<1>2. PICK i \in DOMAIN datasets[o] : x = datasets[o][i]
  BY <1>1 DEF Range
<1>3. PICK e \in exports : /\ e.target \in Targets /\ datasets[o] \in Seq(Pair)
                           /\ LinesInv(datasets[o], e.target)
  BY <1>1, DatasetLines
<1>4. x \in Pair
  BY <1>2, <1>3, ElementOfSeq, LenProperties
<1> QED
  BY <1>2, <1>3, <1>4 DEF LinesInv

(* No two datasets, whenever they were exported, hold one family in two    *)
(* splits.                                                                 *)
THEOREM SeparateFamilies == Spec => []FamiliesStaySeparate
<1>1. GymInv => FamiliesStaySeparate
  <2>1. ASSUME GymInv, NEW x \in Pairs PROVE x.split = AssignSplit[x.family]
    <3>1. x \in Pair /\ \E target \in Targets : Admitted(x, target)
      BY <2>1, PairAdmitted
    <3>2. PICK target \in Targets : x = PairOf(x.path, x.of, x.type, target)
      BY <3>1 DEF Admitted
    <3>3. x.path \in Paths /\ x.of \in Contents /\ x.type \in MutationTypes
      BY <3>1 DEF Pair
    <3> QED
      BY <3>2, <3>3, PairType
  <2> QED
    BY <2>1 DEF FamiliesStaySeparate
<1> QED
  BY <1>1, GymInvariant, PTL

(* Every pair prefers a query that satisfies the contract to a mutant that *)
(* breaks it, and its result_changed is true of the fixture it was made    *)
(* on; where it is false, there was no fixture or no value to compare.     *)
THEOREM BackedEvidence == Spec => []EvidenceIsBacked
<1>1. GymInv => EvidenceIsBacked
  <2> SUFFICES ASSUME GymInv, NEW x \in Pairs
               PROVE  /\ x.of.kind = "contract" /\ x.of.chosen = "passes"
                      /\ x.type \in x.of.violates
                      /\ x.result_changed = ResultChanged(x.of, x.type)
                      /\ \/ x.result_changed \/ x.of.fixture = "none"
                         \/ x.of.outcome[x.type] = "empty"
    BY DEF EvidenceIsBacked
  <2>1. x \in Pair
    BY PairAdmitted
  <2>2. PICK target \in Targets : Admitted(x, target)
    BY PairAdmitted
  <2>3. x.of \in File /\ x.type \in MutationTypes
    BY <2>1, GymAssumption DEF Pair
  <2>4. ~Refused(x.of, target) /\ x.of.chosen # "raises" /\ Retained(x.of, x.type)
    BY <2>2 DEF Admitted
  <2>5. /\ x.of.fixture \in {"none", "raises", "empty", "ok"}
        /\ x.of.chosen \in {"passes", "fails", "raises"}
        /\ x.of.outcome[x.type] \in {"raises", "empty", "equal", "differs"}
    BY <2>3 DEF File
  <2>6. x.result_changed = ResultChanged(x.of, x.type)
    <3>1. x = PairOf(x.path, x.of, x.type, target)
      BY <2>2 DEF Admitted
    <3>2. PairOf(x.path, x.of, x.type, target).result_changed
            = ResultChanged(x.of, x.type)
      BY DEF PairOf
    <3> QED
      BY <3>1, <3>2
  <2>7. /\ x.of.kind = "contract" /\ x.of.chosen = "passes"
        /\ x.type \in x.of.violates
    BY <2>4, <2>5 DEF Refused, Retained
  <2>8. \/ ResultChanged(x.of, x.type) \/ x.of.fixture = "none"
        \/ x.of.outcome[x.type] = "empty"
    BY <2>4, <2>5 DEF Refused, Retained, ResultChanged
  <2> QED
    BY <2>6, <2>7, <2>8
<1> QED
  BY <1>1, GymInvariant, PTL

(* What is written for a named split leaks no mutation type into training, *)
(* and repeats no example and has no pair of equal sides as long as no two *)
(* files define one metric; also in a file that was cut short.             *)
THEOREM CleanSplits == Spec => []NamedSplitsAreClean
<1>1. GymInv => NamedSplitsAreClean
  <2> SUFFICES ASSUME GymInv, NEW o \in Outputs, datasets[o] # None,
                      OneFilePerMetric(datasets[o])
               PROVE  \/ IsClean(datasets[o])
                      \/ \E e \in exports :
                           e.target = "all" /\ IsPrefix(datasets[o], e.lines)
    BY DEF NamedSplitsAreClean
  <2>1. PICK e \in exports : /\ e.target \in Targets
                             /\ datasets[o] \in Seq(Pair)
                             /\ IsPrefix(datasets[o], e.lines)
                             /\ LinesInv(datasets[o], e.target)
    BY DatasetLines
  <2> DEFINE lines == datasets[o]
  <2>2. ASSUME e.target # "all", NEW i \in DOMAIN lines
        PROVE  /\ lines[i] \in Pair
               /\ lines[i].split = e.target
               /\ lines[i].type \in SplitRules[e.target]
               /\ lines[i].type \notin lines[i].of.same_text
    <3>1. lines[i] \in Pair
      BY <2>1, ElementOfSeq, LenProperties
    <3>2. Admitted(lines[i], e.target)
      BY <2>1 DEF LinesInv
    <3>3. /\ lines[i].path \in Paths /\ lines[i].of \in Contents
          /\ lines[i].type \in MutationTypes
      BY <3>1 DEF Pair
    <3>4. lines[i].split = AssignSplit[lines[i].of.family]
      BY <3>2, <3>3, PairType DEF Admitted
    <3> QED
      BY <2>2, <3>1, <3>2, <3>4 DEF Admitted, Refused, SplitOf, AllowedIn, Retained
  <2>3. CASE e.target # "all"
    <3>1. Leaks(lines) = {}
      <4> SUFFICES ASSUME NEW i \in DOMAIN lines, lines[i].split = "train",
                          lines[i].type \in SplitRules["holdout"]
                   PROVE  FALSE
        BY DEF Leaks
      <4>1. lines[i].type \in SplitRules["train"]
        BY <2>2, <2>3
      <4> QED
        BY <4>1 DEF SplitRules, Splits
    <3>2. Identical(lines) = {}
      BY <2>2, <2>3 DEF Identical
    <3>3. Duplicates(lines) = {}
      <4> SUFFICES ASSUME NEW i \in DOMAIN lines, NEW j \in 1 .. i - 1,
                          lines[j].metric = lines[i].metric,
                          lines[j].type = lines[i].type
                   PROVE  FALSE
        BY DEF Duplicates
      <4>1. Len(lines) \in Nat /\ DOMAIN lines = 1 .. Len(lines)
        BY <2>1, LenProperties
      <4>2. j \in DOMAIN lines /\ j # i
        BY <4>1
      <4>3. lines[j].path = lines[i].path
        BY <4>2 DEF OneFilePerMetric
      <4> QED
        BY <2>1, <4>2, <4>3 DEF LinesInv
    <3> QED
      BY <3>1, <3>2, <3>3 DEF IsClean
  <2> QED
    BY <2>1, <2>3
<1> QED
  BY <1>1, GymInvariant, PTL
=============================================================================
