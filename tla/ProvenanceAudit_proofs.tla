----------------------- MODULE ProvenanceAudit_proofs -----------------------
(***************************************************************************)
(* Proofs about ProvenanceAudit for every set of auditors, repositories,   *)
(* histories and directories.                                              *)
(***************************************************************************)
EXTENDS ProvenanceAudit, TLAPS, SequenceTheorems

Stages == {"idle", "next", "clone", "init", "fetch", "checkout", "read"}

Command == [at : Stages, todo : SUBSET Files, claim : Claim \cup {None},
            made : BOOLEAN, version : Nat, left : SUBSET (Paths \cup Outside),
            found : SUBSET (Paths \cup Outside), words : SUBSET Words,
            shelf : SUBSET Worktree,
            failed : BOOLEAN, exit : {None} \cup (0..1)]

TypeInv ==
  /\ upstream \in [Repos -> Nat]
  /\ \A r \in Repos : upstream[r] \in DOMAIN History[r]
  /\ cache \in [Names -> Clone]
  /\ audit \in [Auditors -> Command]
  /\ audits \in 0..MaxAudits /\ clears \in 0..MaxClears

\* A file in a directory is of a commit that a repository of the name has had.
OriginsOk(n, files, up) ==
  \A p \in DOMAIN files :
    /\ files[p].repo \in Repos /\ DirName[files[p].repo] = n
    /\ files[p].version \in 1..up[files[p].repo]
    /\ p \in DOMAIN History[files[p].repo][files[p].version]

\* A word stood in a cited file, a path was there, in some commit so far.
WordWasThere(claim, w, up) ==
  \E r \in SameName(claim) : \E v \in 1..up[r] :
    \E p \in Cited(claim) \cap DOMAIN History[r][v] : w \in History[r][v][p]

PathWasThere(claim, p, up) ==
  \E r \in SameName(claim) : \E v \in 1..up[r] : p \in DOMAIN History[r][v]

\* What has been read came from upstream, and if the directory held all of one
\* commit it is the part of that commit that has been looked up.
ReadFrom(d, commit) ==
  /\ d.found = (Cited(d.claim) \ d.left) \cap DOMAIN commit
  /\ d.words = UNION {commit[p] : p \in d.found}

LookupOk(d, up) ==
  /\ d.left \subseteq Cited(d.claim) /\ d.found \subseteq Cited(d.claim)
  /\ WithinTree(d.claim) =>
       /\ \A w \in d.words : WordWasThere(d.claim, w, up)
       /\ \A p \in d.found : PathWasThere(d.claim, p, up)
       /\ \A r \in Repos : \A v \in DOMAIN History[r] :
            d.shelf \subseteq {CheckedOut(r, v)} => ReadFrom(d, History[r][v])

\* Nothing has been looked up before the directory is read.
Fresh(d) == d.found = {} /\ d.words = {} /\ d.shelf = {}

CommandOk(d, up) ==
  /\ d.at \in {"idle", "next"} <=> d.claim = None
  /\ d.at # "read" => Fresh(d)
  /\ d.at = "checkout" =>
       /\ d.version \in 1..up[d.claim.repo]
       /\ d.left \subseteq DOMAIN History[d.claim.repo][d.version]
  /\ d.at = "read" => LookupOk(d, up)

ResultOk(x, up) ==
  /\ x.claim \in Claim /\ x.verified \subseteq x.claim.symbols
  /\ x.passed => x.accessible /\ x.exists
  /\ x.passed /\ WithinTree(x.claim) =>
       /\ \A s \in x.claim.symbols :
            \E w \in Inside[s] : WordWasThere(x.claim, w, up)
       /\ x.claim.paths # {} =>
            \E p \in x.claim.paths : PathWasThere(x.claim, p, up)
  /\ x.accessible /\ WithinTree(x.claim) =>
       \A r \in Repos : \A v \in DOMAIN History[r] :
         x.shelf = {CheckedOut(r, v)} =>
           (x.passed <=> Stands(x.claim, History[r][v]))

IInv ==
  /\ TypeInv
  /\ \A n \in Names : OriginsOk(n, cache[n].files, upstream)
  /\ \A a \in Auditors : CommandOk(audit[a], upstream)
  /\ \A x \in results : ResultOk(x, upstream)
-----------------------------------------------------------------------------
\* What upstream has had by some time it has had later.
LEMMA UpstreamOnlyGrows ==
  ASSUME NEW up \in [Repos -> Nat], NEW later \in [Repos -> Nat],
         \A r \in Repos : up[r] <= later[r]
  PROVE  /\ \A n, files : OriginsOk(n, files, up) => OriginsOk(n, files, later)
         /\ \A d \in Command : CommandOk(d, up) => CommandOk(d, later)
         /\ \A x : ResultOk(x, up) => ResultOk(x, later)
<1>1. \A r \in Repos : \A v \in 1..up[r] : v \in 1..later[r]
  OBVIOUS
<1>2. \A c, w : WordWasThere(c, w, up) => WordWasThere(c, w, later)
  BY <1>1 DEF WordWasThere, SameName
<1>3. \A c, p : PathWasThere(c, p, up) => PathWasThere(c, p, later)
  BY <1>1 DEF PathWasThere, SameName
<1>4. \A n, files : OriginsOk(n, files, up) => OriginsOk(n, files, later)
  BY <1>1 DEF OriginsOk
<1>5. ASSUME NEW d \in Command, CommandOk(d, up)
      PROVE  CommandOk(d, later)
  <2>1. d.at = "read" => LookupOk(d, later)
    BY <1>2, <1>3, <1>5, Zenon DEF CommandOk, LookupOk
  <2>2. d.at = "checkout" => d.version \in 1..later[d.claim.repo]
    <3>1. d.at = "checkout" => d.claim.repo \in Repos
      BY <1>5 DEF CommandOk, Command, Claim
    <3> QED
      BY <1>1, <1>5, <3>1 DEF CommandOk
  <2> QED
    BY <1>5, <2>1, <2>2 DEF CommandOk
<1>6. ASSUME NEW x, ResultOk(x, up)
      PROVE  ResultOk(x, later)
  BY <1>2, <1>3, <1>6, Zenon DEF ResultOk
<1> QED
  BY <1>4, <1>5, <1>6

\* Commits and directories are functions.
LEMMA FilesType ==
  /\ NoFiles \in Worktree
  /\ \A f \in Worktree : /\ DOMAIN f \subseteq Paths
                         /\ \A p \in DOMAIN f : f[p] \in Origin
                         /\ f \in [DOMAIN f -> Origin]
  /\ \A f : f \in Worktree <=> \E files \in SUBSET Paths : f \in [files -> Origin]
BY DEF Worktree, NoFiles

\* What upstream has at any time is a commit.
LEMMA HistoryType ==
  ASSUME NEW r \in Repos
  PROVE  /\ DOMAIN History[r] = 1..Len(History[r]) /\ Len(History[r]) \in Nat
         /\ Len(History[r]) >= 1
         /\ \A v \in DOMAIN History[r] :
              /\ DOMAIN History[r][v] \subseteq Paths
              /\ \A p \in DOMAIN History[r][v] : History[r][v][p] \in SUBSET Words
<1>1. History[r] \in Seq(Commit) /\ History[r] # <<>>
  BY AuditAssumption
<1>2. \A v \in DOMAIN History[r] : History[r][v] \in Commit
  BY <1>1, ElementOfSeq
<1>3. \A f \in Commit : /\ DOMAIN f \subseteq Paths
                        /\ \A p \in DOMAIN f : f[p] \in SUBSET Words
  BY DEF Commit
<1> QED
  BY <1>1, <1>2, <1>3

\* The commits of a repository that upstream has had are in its history.
LEMMA VersionsType ==
  ASSUME IInv, NEW r \in Repos, NEW v \in 1..upstream[r]
  PROVE  v \in DOMAIN History[r] /\ v \in Nat
<1>1. upstream[r] \in Nat /\ upstream[r] \in DOMAIN History[r]
  BY DEF IInv, TypeInv
<1> QED
  BY <1>1, HistoryType

\* Initially nothing is there and nothing is known.
LEMMA InitInv == Init => IInv
<1> SUFFICES ASSUME Init PROVE IInv
  OBVIOUS
<1>1. \A n \in Names : cache[n].files = NoFiles /\ cache[n] \in Clone
  BY FilesType DEF Init, Emptied, Clone
<1>2. Idle \in Command
  BY DEF Idle, Command, Stages
<1>3. \A r \in Repos : upstream[r] \in DOMAIN History[r]
  BY HistoryType DEF Init
<1>4. TypeInv
  <2>1. upstream \in [Repos -> Nat] /\ audit \in [Auditors -> Command]
    BY <1>2 DEF Init
  <2>2. cache \in [Names -> Clone]
    BY <1>1, Zenon DEF Init
  <2>3. audits \in 0..MaxAudits /\ clears \in 0..MaxClears
    BY AuditAssumption DEF Init
  <2> QED
    BY <1>3, <2>1, <2>2, <2>3 DEF TypeInv
<1>5. \A n \in Names : OriginsOk(n, cache[n].files, upstream)
  BY <1>1 DEF OriginsOk, NoFiles
<1>6. CommandOk(Idle, upstream)
  BY DEF CommandOk, Idle, Fresh
<1> QED
  BY <1>4, <1>5, <1>6 DEF IInv, Init
-----------------------------------------------------------------------------
\* A step that only one command takes part in.
Only(a) ==
  /\ audit' \in [Auditors -> Command]
  /\ \A b \in Auditors : b # a => audit'[b] = audit[b]
  /\ CommandOk(audit'[a], upstream)

\* Such a step keeps the invariant if what it leaves in the directories and
\* the result it adds are in order.
LEMMA CommandStep ==
  ASSUME IInv, NEW a \in Auditors, Only(a), upstream' = upstream,
         cache' \in [Names -> Clone],
         \A n \in Names : OriginsOk(n, cache'[n].files, upstream),
         \A x \in results' : x \in results \/ ResultOk(x, upstream),
         audits' \in 0..MaxAudits, clears' = clears
  PROVE  IInv'
<1>1. TypeInv'
  BY DEF IInv, TypeInv, Only
<1>2. \A b \in Auditors : CommandOk(audit'[b], upstream')
  BY DEF IInv, Only
<1>3. \A x \in results' : ResultOk(x, upstream')
  BY DEF IInv
<1> QED
  BY <1>1, <1>2, <1>3 DEF IInv

\* Most leave directories and results alone.
LEMMA QuietStep ==
  ASSUME IInv, NEW a \in Auditors, Only(a),
         UNCHANGED <<upstream, cache, results, audits, clears>>
  PROVE  IInv'
<1>1. /\ cache' \in [Names -> Clone] /\ audits' \in 0..MaxAudits
      /\ \A n \in Names : OriginsOk(n, cache'[n].files, upstream)
      /\ \A x \in results' : x \in results
  BY DEF IInv, TypeInv
<1> QED
  BY <1>1, CommandStep

\* A command that is not waiting has a claim.
LEMMA ClaimType ==
  ASSUME IInv, NEW a \in Auditors, audit[a].at \notin {"idle", "next"}
  PROVE  /\ audit[a].claim \in Claim /\ audit[a].claim.repo \in Repos
         /\ DirOf(audit[a].claim) \in Names
         /\ cache[DirOf(audit[a].claim)] \in Clone
         /\ OriginsOk(DirOf(audit[a].claim),
                      cache[DirOf(audit[a].claim)].files, upstream)
<1>1. audit[a].claim \in Claim
  BY DEF IInv, TypeInv, CommandOk, Command
<1>2. audit[a].claim.repo \in Repos
  BY <1>1 DEF Claim
<1>3. DirOf(audit[a].claim) \in Names
  BY <1>2 DEF DirOf, Names
<1> QED
  BY <1>1, <1>2, <1>3 DEF IInv, TypeInv

\* A new lookup has found nothing yet.
LEMMA FreshLookup ==
  ASSUME NEW d, Fresh(d), d.left = Cited(d.claim), NEW up
  PROVE  LookupOk(d, up)
<1>1. ASSUME NEW commit PROVE ReadFrom(d, commit)
  BY DEF ReadFrom, Fresh
<1> QED
  BY <1>1 DEF LookupOk, Fresh

\* What claims cite are paths.
LEMMA CitedType ==
  ASSUME NEW c \in Claim
  PROVE  /\ Cited(c) \subseteq Paths \cup Outside
         /\ WithinTree(c) => Cited(c) \subseteq Paths
BY AuditAssumption DEF Cited, Claim, WithinTree

\* The verdict on a lookup that is complete.
LEMMA VerdictOk ==
  ASSUME NEW d, d.claim \in Claim, d.left = {}, NEW up, LookupOk(d, up)
  PROVE  ResultOk(Lookup(d), up)
<1> DEFINE x == Lookup(d)
           exists == FileExists(d.claim, d.found)
<1>1. /\ x.claim = d.claim /\ x.accessible /\ x.exists = exists
      /\ x.verified = (IF exists THEN Verified(d.claim, d.words) ELSE {})
      /\ x.passed <=> exists /\ x.verified = d.claim.symbols
      /\ x.shelf = d.shelf
  BY DEF Lookup, Verdict
<1>2. x.verified \subseteq d.claim.symbols
  BY <1>1 DEF Verified
<1>3. x.passed <=> exists /\ Verified(d.claim, d.words) = d.claim.symbols
  BY <1>1
<1>4. d.claim.paths # {} => Cited(d.claim) = d.claim.paths
  BY DEF Cited
<1>5. ASSUME x.passed, WithinTree(d.claim)
      PROVE  /\ \A s \in d.claim.symbols :
                  \E w \in Inside[s] : WordWasThere(d.claim, w, up)
             /\ d.claim.paths # {} =>
                  \E p \in d.claim.paths : PathWasThere(d.claim, p, up)
  <2>1. \A s \in d.claim.symbols : Inside[s] \cap d.words # {}
    BY <1>3, <1>5 DEF Verified
  <2>2. d.claim.paths # {} => d.found # {} /\ d.found \subseteq d.claim.paths
    BY <1>3, <1>4, <1>5 DEF FileExists, LookupOk
  <2>3. /\ \A w \in d.words : WordWasThere(d.claim, w, up)
        /\ \A p \in d.found : PathWasThere(d.claim, p, up)
    BY <1>5 DEF LookupOk
  <2> QED
    BY <2>1, <2>2, <2>3
<1>6. ASSUME WithinTree(d.claim), NEW r \in Repos, NEW v \in DOMAIN History[r],
             d.shelf = {CheckedOut(r, v)}
      PROVE  x.passed <=> Stands(d.claim, History[r][v])
  <2> DEFINE commit == History[r][v]
  <2>1. ReadFrom(d, commit)
    BY <1>6 DEF LookupOk
  <2>2. /\ d.found = Cited(d.claim) \cap DOMAIN commit
        /\ d.words = UNION {commit[p] : p \in d.found}
    BY <2>1 DEF ReadFrom
  <2>3. exists <=> d.claim.paths = {} \/ d.claim.paths \cap DOMAIN commit # {}
    BY <1>4, <2>2 DEF FileExists
  <2>4. ASSUME NEW s
        PROVE  Inside[s] \cap d.words # {} <=>
                 \E p \in Cited(d.claim) \cap DOMAIN commit :
                   Inside[s] \cap commit[p] # {}
    BY <2>2
  <2>5. Verified(d.claim, d.words) = d.claim.symbols <=>
          \A s \in d.claim.symbols : Inside[s] \cap d.words # {}
    BY DEF Verified
  <2> HIDE DEF exists, x, commit
  <2> QED
    BY <1>3, <2>3, <2>4, <2>5 DEF Stands, commit
<1> HIDE DEF exists, x
<1> QED
  BY <1>1, <1>2, <1>3, <1>5, <1>6 DEF ResultOk, x

\* A command that reports a result has no claim any longer.
LEMMA ReportStep ==
  ASSUME IInv, NEW a \in Auditors, NEW result, ResultOk(result, upstream),
         Report(a, result), UNCHANGED <<upstream, audits, clears>>,
         cache' \in [Names -> Clone],
         \A n \in Names : OriginsOk(n, cache'[n].files, upstream)
  PROVE  IInv'
<1> DEFINE d == [Idle EXCEPT !.at = "next", !.todo = audit[a].todo,
                             !.failed = audit[a].failed \/ ~result.passed]
<1>1. audit[a] \in Command /\ Idle \in Command
  BY DEF IInv, TypeInv, Idle, Command, Stages
<1>2. d \in Command /\ d.at = "next" /\ d.claim = None /\ Fresh(d)
  <2>1. (audit[a].failed \/ ~result.passed) \in BOOLEAN
    OBVIOUS
  <2>2. audit[a].todo \in SUBSET Files
    BY <1>1 DEF Command
  <2> QED
    BY <1>1, <2>1, <2>2 DEF Command, Stages, Idle, Fresh
<1>3. CommandOk(d, upstream)
  BY <1>2 DEF CommandOk
<1>4. audit' = [audit EXCEPT ![a] = d]
  BY DEF Report
<1> HIDE DEF d
<1>5. Only(a)
  BY <1>2, <1>3, <1>4 DEF Only, IInv, TypeInv
<1>6. \A x \in results' : x \in results \/ ResultOk(x, upstream)
  BY DEF Report
<1> QED
  BY <1>5, <1>6, CommandStep DEF IInv, TypeInv

\* A repository that was not to be had says nothing.
LEMMA InaccessibleOk ==
  ASSUME NEW d, d.claim \in Claim, NEW up
  PROVE  ResultOk(Inaccessible(d), up)
BY DEF Inaccessible, ResultOk
-----------------------------------------------------------------------------
\* The command waits for its next file, or is over.
LEMMA WaitingOk ==
  ASSUME IInv, NEW a \in Auditors, NEW d \in Command,
         d.at \in {"idle", "next"}, d.claim = None, Fresh(d),
         audit' = [audit EXCEPT ![a] = d]
  PROVE  Only(a)
BY DEF Only, IInv, TypeInv, CommandOk

\* A command that is over.
LEMMA IdleOk ==
  ASSUME NEW exit \in {None} \cup 0..1, NEW failed \in BOOLEAN
  PROVE  LET d == [Idle EXCEPT !.failed = failed, !.exit = exit]
         IN  /\ d \in Command /\ d.at = "idle" /\ d.claim = None
             /\ Fresh(d)
<1>1. Idle \in Command
  BY DEF Idle, Command, Stages
<1> QED
  BY <1>1 DEF Idle, Command, Fresh

LEMMA StartInv ==
  ASSUME IInv, NEW a \in Auditors, Start(a)
  PROVE  IInv'
<1>1. PICK d \in Directories :
        audit' = [audit EXCEPT ![a] = [Idle EXCEPT !.at = "next", !.todo = d]]
  BY DEF Start
<1>2. d \in SUBSET Files
  BY DEF Files
<1> DEFINE e == [Idle EXCEPT !.at = "next", !.todo = d]
<1>3. e \in Command /\ e.at = "next" /\ e.claim = None /\ Fresh(e)
  BY <1>2 DEF Idle, Command, Stages, Fresh
<1> HIDE DEF e
<1>4. Only(a)
  BY <1>1, <1>3, WaitingOk DEF e
<1>5. /\ UNCHANGED <<upstream, cache, results, clears>>
      /\ audits' \in 0..MaxAudits
  BY AuditAssumption DEF Start, IInv, TypeInv
<1>6. /\ cache' \in [Names -> Clone]
      /\ \A n \in Names : OriginsOk(n, cache'[n].files, upstream)
      /\ \A x \in results' : x \in results
  BY <1>5 DEF IInv, TypeInv
<1> QED
  BY <1>4, <1>5, <1>6, CommandStep

LEMMA CrashInv ==
  ASSUME IInv, NEW a \in Auditors, Crash(a),
         UNCHANGED <<upstream, cache, results, audits, clears>>
  PROVE  IInv'
<1> DEFINE exit == 1
           d == [Idle EXCEPT !.exit = exit]
<1>1. Idle \in Command /\ exit \in {None} \cup 0..1
  BY DEF Idle, Command, Stages
<1> HIDE DEF exit
<1>2. /\ d \in Command /\ d.at = "idle" /\ d.claim = None /\ Fresh(d)
  BY <1>1 DEF Idle, Command, Fresh
<1>3. audit' = [audit EXCEPT ![a] = d]
  BY DEF Crash, exit
<1> HIDE DEF d
<1>4. Only(a)
  BY <1>2, <1>3, WaitingOk
<1> QED
  BY <1>4, QuietStep

LEMMA PassOverInv ==
  ASSUME IInv, NEW a \in Auditors, NEW f, PassOver(a, f)
  PROVE  IInv'
<1>1. UNCHANGED <<upstream, cache, results, audits, clears>>
  BY DEF PassOver
<1>2. CASE Crash(a)
  BY <1>1, <1>2, CrashInv
<1>3. CASE audit' = [audit EXCEPT ![a] = [audit[a] EXCEPT !.todo = @ \ {f}]]
  <2> DEFINE d == [audit[a] EXCEPT !.todo = @ \ {f}]
  <2>1. audit[a] \in Command /\ audit[a].at = "next"
    BY DEF IInv, TypeInv, PassOver
  <2>2. CommandOk(audit[a], upstream)
    BY DEF IInv
  <2>3. audit[a].claim = None /\ Fresh(audit[a])
    BY <2>1, <2>2 DEF CommandOk
  <2>4. d \in Command /\ d.at = "next" /\ d.claim = None /\ Fresh(d)
    BY <2>1, <2>3 DEF Command, Fresh
  <2> HIDE DEF d
  <2> QED
    BY <1>1, <1>3, <2>4, WaitingOk, QuietStep DEF d
<1> QED
  BY <1>2, <1>3 DEF PassOver

\* The claims of a directory's files.
LEMMA ClaimsType ==
  ASSUME NEW f \in Files, NEW c \in ExtractClaims(f)
  PROVE  c \in Claim
<1>1. f \in File
  BY AuditAssumption DEF Files
<1>2. CASE f.section # None
  BY <1>1, <1>2 DEF ExtractClaims, File
<1>3. CASE f.section = None /\ f.header # None
  BY <1>1, <1>3 DEF ExtractClaims, File
<1>4. CASE f.section = None /\ f.header = None
  BY <1>4 DEF ExtractClaims
<1> QED
  BY <1>2, <1>3, <1>4

LEMMA FindCloneInv ==
  ASSUME IInv, NEW a \in Auditors, NEW f \in Files, FindClone(a, f)
  PROVE  IInv'
<1>1. PICK c \in ExtractClaims(f) :
        audit' = [audit EXCEPT ![a] = [audit[a] EXCEPT
          !.claim = c, !.todo = @ \ {f},
          !.at = IF cache[DirOf(c)].from = None THEN "clone" ELSE "read",
          !.left = IF cache[DirOf(c)].from = None THEN {} ELSE Cited(c)]]
  BY DEF FindClone
<1>2. c \in Claim /\ c # None
  BY ClaimsType, AuditAssumption
<1>3. Cited(c) \subseteq Paths \cup Outside
  BY <1>2, CitedType
<1>4. /\ audit[a] \in Command /\ audit[a].at = "next" /\ Fresh(audit[a])
      /\ upstream \in [Repos -> Nat]
  BY DEF IInv, TypeInv, CommandOk, FindClone
<1> DEFINE at == IF cache[DirOf(c)].from = None THEN "clone" ELSE "read"
           left == IF cache[DirOf(c)].from = None THEN {} ELSE Cited(c)
<1>5. \/ at = "clone" /\ left = {}
      \/ at = "read" /\ left = Cited(c)
  OBVIOUS
<1> HIDE DEF at, left
<1> DEFINE d == [audit[a] EXCEPT !.claim = c, !.todo = @ \ {f},
                   !.at = at, !.left = left]
<1>6. /\ d \in Command /\ d.at = at /\ d.left = left /\ d.claim = c
      /\ Fresh(d)
  BY <1>2, <1>3, <1>4, <1>5 DEF Command, Stages, Fresh
<1> HIDE DEF d
<1>7. CommandOk(d, upstream)
  <2>1. d.at = "read" => LookupOk(d, upstream)
    BY <1>5, <1>6, FreshLookup
  <2> QED
    BY <1>2, <1>5, <1>6, <2>1 DEF CommandOk
<1>8. audit' = [audit EXCEPT ![a] = d]
  BY <1>1 DEF d, at, left
<1>9. Only(a)
  BY <1>6, <1>7, <1>8 DEF Only, IInv, TypeInv
<1> QED
  BY <1>9, QuietStep DEF FindClone

\* One directory is changed; what is in the others stays in order.
LEMMA OneDirectory ==
  ASSUME IInv, NEW n \in Names, NEW c \in Clone,
         cache' = [cache EXCEPT ![n] = c], OriginsOk(n, c.files, upstream)
  PROVE  /\ cache' \in [Names -> Clone]
         /\ \A m \in Names : OriginsOk(m, cache'[m].files, upstream)
BY DEF IInv, TypeInv

\* The command goes on with the claim it has, before it reads.
LEMMA GoOn ==
  ASSUME IInv, NEW a \in Auditors, NEW d \in Command,
         audit[a].at \notin {"idle", "next", "read"},
         d.at \in {"clone", "init", "fetch"}, d.claim = audit[a].claim,
         d.found = audit[a].found, d.words = audit[a].words,
         d.shelf = audit[a].shelf, audit' = [audit EXCEPT ![a] = d]
  PROVE  Only(a)
<1>1. CommandOk(audit[a], upstream)
  BY DEF IInv
<1>2. d.claim # None /\ Fresh(d)
  BY <1>1 DEF CommandOk, Fresh
<1> QED
  BY <1>2 DEF Only, IInv, TypeInv, CommandOk

LEMMA StartCloneInv ==
  ASSUME IInv, NEW a \in Auditors, StartClone(a)
  PROVE  IInv'
<1> DEFINE n == DirOf(audit[a].claim)
<1>1. /\ audit[a] \in Command /\ audit[a].at = "clone"
      /\ audit[a].claim \in Claim /\ n \in Names /\ cache[n] \in Clone
      /\ OriginsOk(n, cache[n].files, upstream)
  BY ClaimType DEF StartClone, IInv, TypeInv
<1>2. UNCHANGED <<upstream, audits, clears>>
  BY DEF StartClone
<1>3. CASE /\ cache' = [cache EXCEPT ![n] =
                [dir |-> TRUE, from |-> @.from, files |-> @.files]]
           /\ audit' = [audit EXCEPT ![a] =
                [audit[a] EXCEPT !.at = "init", !.made = TRUE]]
           /\ UNCHANGED results
  <2> DEFINE c == [dir |-> TRUE, from |-> cache[n].from,
                   files |-> cache[n].files]
             d == [audit[a] EXCEPT !.at = "init", !.made = TRUE]
  <2>1. c \in Clone /\ c.files = cache[n].files
    BY <1>1 DEF Clone
  <2>2. /\ d \in Command /\ d.at = "init" /\ d.claim = audit[a].claim
        /\ d.found = audit[a].found /\ d.words = audit[a].words
        /\ d.shelf = audit[a].shelf
    BY <1>1 DEF Command, Stages
  <2>3. cache' = [cache EXCEPT ![n] = c] /\ audit' = [audit EXCEPT ![a] = d]
    BY <1>3
  <2> HIDE DEF c, d
  <2>4. Only(a)
    BY <1>1, <2>2, <2>3, GoOn
  <2>5. /\ cache' \in [Names -> Clone]
        /\ \A m \in Names : OriginsOk(m, cache'[m].files, upstream)
    BY <1>1, <2>1, <2>3, OneDirectory
  <2>6. audits' \in 0..MaxAudits /\ \A x \in results' : x \in results
    BY <1>2, <1>3 DEF IInv, TypeInv
  <2> QED
    BY <1>2, <2>4, <2>5, <2>6, CommandStep
<1>4. CASE /\ audit' = [audit EXCEPT ![a] = [audit[a] EXCEPT !.at = "init"]]
           /\ UNCHANGED <<cache, results>>
  <2> DEFINE d == [audit[a] EXCEPT !.at = "init"]
  <2>1. /\ d \in Command /\ d.at = "init" /\ d.claim = audit[a].claim
        /\ d.found = audit[a].found /\ d.words = audit[a].words
        /\ d.shelf = audit[a].shelf
    BY <1>1 DEF Command, Stages
  <2>2. audit' = [audit EXCEPT ![a] = d]
    BY <1>4
  <2> HIDE DEF d
  <2>3. Only(a)
    BY <1>1, <2>1, <2>2, GoOn
  <2> QED
    BY <1>2, <1>4, <2>3, QuietStep
<1>5. CASE Report(a, Inaccessible(audit[a])) /\ UNCHANGED cache
  BY <1>1, <1>2, <1>5, InaccessibleOk, ReportStep DEF IInv, TypeInv
<1> QED
  BY <1>3, <1>4, <1>5 DEF StartClone

LEMMA InitRepositoryInv ==
  ASSUME IInv, NEW a \in Auditors, InitRepository(a)
  PROVE  IInv'
<1> DEFINE n == DirOf(audit[a].claim)
           c == [dir |-> TRUE, from |-> audit[a].claim.repo,
                 files |-> cache[n].files]
           d == [audit[a] EXCEPT !.at = "fetch"]
<1>1. /\ audit[a] \in Command /\ audit[a].at = "init"
      /\ audit[a].claim.repo \in Repos /\ n \in Names /\ cache[n] \in Clone
      /\ OriginsOk(n, cache[n].files, upstream)
  BY ClaimType DEF InitRepository, IInv, TypeInv
<1>2. c \in Clone /\ c.files = cache[n].files
  BY <1>1 DEF Clone
<1>3. /\ d \in Command /\ d.at = "fetch" /\ d.claim = audit[a].claim
      /\ d.found = audit[a].found /\ d.words = audit[a].words
      /\ d.shelf = audit[a].shelf
  BY <1>1 DEF Command, Stages
<1>4. cache' = [cache EXCEPT ![n] = c] /\ audit' = [audit EXCEPT ![a] = d]
  BY DEF InitRepository
<1> HIDE DEF c, d
<1>5. Only(a)
  BY <1>1, <1>3, <1>4, GoOn
<1>6. /\ cache' \in [Names -> Clone]
      /\ \A m \in Names : OriginsOk(m, cache'[m].files, upstream)
  BY <1>1, <1>2, <1>4, OneDirectory
<1>7. /\ UNCHANGED <<upstream, audits, clears>> /\ audits' \in 0..MaxAudits
      /\ \A x \in results' : x \in results
  BY DEF InitRepository, IInv, TypeInv
<1> QED
  BY <1>5, <1>6, <1>7, CommandStep

LEMMA CloneFailsInv ==
  ASSUME IInv, NEW a \in Auditors, CloneFails(a)
  PROVE  IInv'
<1> DEFINE n == DirOf(audit[a].claim)
           c == Emptied(~audit[a].made)
<1>1. audit[a] \in Command /\ audit[a].claim \in Claim /\ n \in Names
  BY ClaimType DEF CloneFails, IInv, TypeInv
<1>2. (~audit[a].made) \in BOOLEAN
  OBVIOUS
<1>3. c \in Clone /\ c.files = NoFiles
  BY <1>2, FilesType DEF Emptied, Clone
<1>4. OriginsOk(n, c.files, upstream)
  BY <1>3 DEF OriginsOk, NoFiles
<1>5. cache' = [cache EXCEPT ![n] = c]
  BY DEF CloneFails
<1> HIDE DEF c
<1>6. /\ cache' \in [Names -> Clone]
      /\ \A m \in Names : OriginsOk(m, cache'[m].files, upstream)
  BY <1>1, <1>3, <1>4, <1>5, OneDirectory
<1> QED
  BY <1>1, <1>6, InaccessibleOk, ReportStep DEF CloneFails

LEMMA TimeOutInv ==
  ASSUME IInv, NEW a \in Auditors, TimeOut(a)
  PROVE  IInv'
<1>1. audit[a].claim \in Claim
  BY ClaimType DEF TimeOut
<1> QED
  BY <1>1, InaccessibleOk, ReportStep DEF TimeOut, IInv, TypeInv

LEMMA FetchInv ==
  ASSUME IInv, NEW a \in Auditors, Fetch(a)
  PROVE  IInv'
<1> DEFINE r == audit[a].claim.repo
           d == [audit[a] EXCEPT !.at = "checkout", !.version = upstream[r],
                                 !.left = DOMAIN History[r][upstream[r]]]
<1>1. /\ audit[a] \in Command /\ audit[a].at = "fetch" /\ r \in Repos
      /\ CommandOk(audit[a], upstream) /\ audit[a].claim # None
  BY ClaimType, AuditAssumption DEF Fetch, IInv, TypeInv
<1>2. /\ upstream[r] \in DOMAIN History[r] /\ upstream[r] \in Nat
      /\ upstream[r] \in 1..upstream[r]
  BY <1>1, HistoryType DEF IInv, TypeInv
<1>3. DOMAIN History[r][upstream[r]] \subseteq Paths \cup Outside
  BY <1>1, <1>2, HistoryType
<1>4. /\ d \in Command /\ d.at = "checkout" /\ d.claim = audit[a].claim
      /\ d.version = upstream[r] /\ d.left = DOMAIN History[r][upstream[r]]
      /\ d.found = audit[a].found /\ d.words = audit[a].words
      /\ d.shelf = audit[a].shelf
  BY <1>1, <1>2, <1>3 DEF Command, Stages
<1>5. audit' = [audit EXCEPT ![a] = d]
  BY DEF Fetch
<1> HIDE DEF d
<1>6. CommandOk(d, upstream)
  BY <1>1, <1>2, <1>4 DEF CommandOk, Fresh
<1>7. Only(a)
  BY <1>4, <1>5, <1>6 DEF Only, IInv, TypeInv
<1> QED
  BY <1>7, QuietStep DEF Fetch

LEMMA CheckoutFileInv ==
  ASSUME IInv, NEW a \in Auditors, CheckoutFile(a)
  PROVE  IInv'
<1> DEFINE r == audit[a].claim.repo
           v == audit[a].version
           n == DirOf(audit[a].claim)
           origin == [repo |-> r, version |-> v]
<1>1. PICK p \in audit[a].left :
        /\ cache' = [cache EXCEPT ![n] =
                       [dir |-> TRUE, from |-> @.from,
                        files |-> Written(@.files, p, origin)]]
        /\ audit' = [audit EXCEPT ![a] = [audit[a] EXCEPT !.left = @ \ {p}]]
  BY DEF CheckoutFile
<1>2. /\ audit[a] \in Command /\ audit[a].at = "checkout" /\ r \in Repos
      /\ n \in Names /\ cache[n] \in Clone /\ audit[a].claim # None
      /\ OriginsOk(n, cache[n].files, upstream)
      /\ CommandOk(audit[a], upstream)
  BY ClaimType, AuditAssumption DEF CheckoutFile, IInv, TypeInv
<1>3. v \in 1..upstream[r] /\ p \in DOMAIN History[r][v] /\ DirName[r] = n
  BY <1>2 DEF CommandOk, DirOf
<1>4. v \in DOMAIN History[r] /\ v \in Nat
  BY <1>2, <1>3, VersionsType
<1>5. p \in Paths /\ origin \in Origin
  BY <1>2, <1>3, <1>4, HistoryType DEF Origin
<1> DEFINE files == Written(cache[n].files, p, origin)
           c == [dir |-> TRUE, from |-> cache[n].from, files |-> files]
           d == [audit[a] EXCEPT !.left = @ \ {p}]
<1>6. files \in Worktree /\ OriginsOk(n, files, upstream)
  <2>1. /\ cache[n].files \in Worktree /\ DOMAIN cache[n].files \subseteq Paths
        /\ \A q \in DOMAIN cache[n].files : cache[n].files[q] \in Origin
    BY <1>2, FilesType DEF Clone
  <2>2. /\ DOMAIN files = DOMAIN cache[n].files \cup {p}
        /\ \A q \in DOMAIN files :
             files[q] = IF q = p THEN origin ELSE cache[n].files[q]
    BY DEF Written
  <2>3. files \in [DOMAIN cache[n].files \cup {p} -> Origin]
    BY <1>5, <2>1 DEF Written
  <2>4. files \in Worktree
    BY <1>5, <2>1, <2>3, FilesType
  <2>5. origin.repo = r /\ origin.version = v
    OBVIOUS
  <2> HIDE DEF origin, files, r, v, n
  <2>6. OriginsOk(n, files, upstream)
    BY <1>2, <1>3, <2>2, <2>5 DEF OriginsOk
  <2> QED
    BY <2>4, <2>6
<1>7. c \in Clone /\ c.files = files
  BY <1>2, <1>6 DEF Clone
<1>8. /\ d \in Command /\ d.at = "checkout" /\ d.claim = audit[a].claim
      /\ d.version = v /\ d.left \subseteq audit[a].left
      /\ d.found = audit[a].found /\ d.words = audit[a].words
      /\ d.shelf = audit[a].shelf
  BY <1>2 DEF Command
<1>9. cache' = [cache EXCEPT ![n] = c] /\ audit' = [audit EXCEPT ![a] = d]
  BY <1>1
<1> HIDE DEF c, d, files
<1>10. CommandOk(d, upstream)
  BY <1>2, <1>8 DEF CommandOk, Fresh
<1>11. Only(a)
  BY <1>8, <1>9, <1>10 DEF Only, IInv, TypeInv
<1>12. /\ cache' \in [Names -> Clone]
       /\ \A m \in Names : OriginsOk(m, cache'[m].files, upstream)
  BY <1>2, <1>6, <1>7, <1>9, OneDirectory
<1>13. /\ UNCHANGED <<upstream, audits, clears>> /\ audits' \in 0..MaxAudits
       /\ \A x \in results' : x \in results
  BY DEF CheckoutFile, IInv, TypeInv
<1> QED
  BY <1>11, <1>12, <1>13, CommandStep

LEMMA EndCloneInv ==
  ASSUME IInv, NEW a \in Auditors, EndClone(a)
  PROVE  IInv'
<1> DEFINE d == [audit[a] EXCEPT !.at = "read", !.left = Cited(audit[a].claim)]
<1>1. /\ audit[a] \in Command /\ audit[a].at = "checkout"
      /\ audit[a].claim \in Claim /\ audit[a].claim # None
      /\ CommandOk(audit[a], upstream)
  BY ClaimType, AuditAssumption DEF EndClone, IInv, TypeInv
<1>2. Cited(audit[a].claim) \subseteq Paths \cup Outside
  BY <1>1, CitedType
<1>3. /\ d \in Command /\ d.at = "read" /\ d.claim = audit[a].claim
      /\ d.left = Cited(d.claim) /\ d.found = audit[a].found
      /\ d.words = audit[a].words /\ d.shelf = audit[a].shelf
  BY <1>1, <1>2 DEF Command, Stages
<1>4. audit' = [audit EXCEPT ![a] = d]
  BY DEF EndClone
<1> HIDE DEF d
<1>5. Fresh(d)
  BY <1>1, <1>3 DEF CommandOk, Fresh
<1>6. CommandOk(d, upstream)
  <2>1. LookupOk(d, upstream)
    BY <1>3, <1>5, FreshLookup
  <2> QED
    BY <1>1, <1>3, <2>1 DEF CommandOk
<1>7. Only(a)
  BY <1>3, <1>4, <1>6 DEF Only, IInv, TypeInv
<1> QED
  BY <1>7, QuietStep DEF EndClone

LEMMA VerifyClaimInv ==
  ASSUME IInv, NEW a \in Auditors, VerifyClaim(a)
  PROVE  IInv'
<1>1. /\ audit[a].claim \in Claim /\ audit[a].left = {}
      /\ LookupOk(audit[a], upstream)
  BY ClaimType DEF VerifyClaim, IInv, CommandOk
<1>2. ResultOk(Lookup(audit[a]), upstream)
  BY <1>1, VerdictOk
<1> QED
  BY <1>2, ReportStep DEF VerifyClaim, IInv, TypeInv

LEMMA FinishInv ==
  ASSUME IInv, NEW a \in Auditors, Finish(a)
  PROVE  IInv'
<1>1. PICK strict \in BOOLEAN :
        LET failed == audit[a].failed \/ MissingDeclarations # {}
        IN  audit' = [audit EXCEPT ![a] = [Idle EXCEPT !.failed = failed,
                        !.exit = IF failed /\ strict THEN 1 ELSE 0]]
  BY DEF Finish
<1> DEFINE failed == audit[a].failed \/ MissingDeclarations # {}
           exit == IF failed /\ strict THEN 1 ELSE 0
           d == [Idle EXCEPT !.failed = failed, !.exit = exit]
<1>2. failed \in BOOLEAN /\ exit \in {None} \cup 0..1
  OBVIOUS
<1>3. audit' = [audit EXCEPT ![a] = d]
  BY <1>1
<1> HIDE DEF failed, exit
<1>4. d \in Command /\ d.at = "idle" /\ d.claim = None /\ Fresh(d)
  BY <1>2, IdleOk
<1> HIDE DEF d
<1>5. Only(a)
  BY <1>3, <1>4, WaitingOk
<1> QED
  BY <1>5, QuietStep DEF Finish

LEMMA KillInv ==
  ASSUME IInv, NEW a \in Auditors, Kill(a)
  PROVE  IInv'
<1>1. Idle \in Command /\ Idle.at = "idle" /\ Idle.claim = None /\ Fresh(Idle)
  BY DEF Idle, Command, Stages, Fresh
<1>2. Only(a)
  BY <1>1, WaitingOk DEF Kill
<1> QED
  BY <1>2, QuietStep DEF Kill
-----------------------------------------------------------------------------
\* One more of the cited paths has been found.
LEMMA OneMore ==
  ASSUME NEW cited, NEW left \in SUBSET cited, NEW p \in left, NEW commit,
         p \in DOMAIN commit, NEW found,
         found = (cited \ left) \cap DOMAIN commit
  PROVE  /\ found \cup {p} = (cited \ (left \ {p})) \cap DOMAIN commit
         /\ (UNION {commit[q] : q \in found}) \cup commit[p] =
              UNION {commit[q] : q \in found \cup {p}}
<1>1. found \cup {p} = (cited \ (left \ {p})) \cap DOMAIN commit
  OBVIOUS
<1>2. ASSUME NEW w
      PROVE  w \in (UNION {commit[q] : q \in found}) \cup commit[p] <=>
               w \in UNION {commit[q] : q \in found \cup {p}}
  OBVIOUS
<1> QED
  BY <1>1, <1>2

\* What is known of a lookup after one more path.
LEMMA PathStep ==
  ASSUME NEW d, NEW e, NEW up, NEW p \in d.left, NEW files, NEW words,
         LookupOk(d, up), e.claim = d.claim, e.left = d.left \ {p},
         e.shelf = d.shelf \cup {files},
         \/ /\ e.found = d.found \cup {p} /\ e.words = d.words \cup words
            /\ WithinTree(d.claim) =>
                 /\ PathWasThere(d.claim, p, up)
                 /\ \A w \in words : WordWasThere(d.claim, w, up)
                 /\ \A r \in Repos : \A v \in DOMAIN History[r] :
                      files = CheckedOut(r, v) =>
                        p \in DOMAIN History[r][v] /\ words = History[r][v][p]
         \/ /\ e.found = d.found /\ e.words = d.words
            /\ WithinTree(d.claim) =>
                 \A r \in Repos : \A v \in DOMAIN History[r] :
                   files = CheckedOut(r, v) => p \notin DOMAIN History[r][v]
  PROVE  LookupOk(e, up)
<1>1. /\ d.left \subseteq Cited(d.claim) /\ d.found \subseteq Cited(d.claim)
      /\ e.left \subseteq Cited(e.claim) /\ e.found \subseteq Cited(e.claim)
  BY DEF LookupOk
<1>2. ASSUME WithinTree(d.claim)
      PROVE  /\ \A w \in e.words : WordWasThere(e.claim, w, up)
             /\ \A q \in e.found : PathWasThere(e.claim, q, up)
  BY <1>2 DEF LookupOk
<1>3. ASSUME WithinTree(d.claim), NEW r \in Repos, NEW v \in DOMAIN History[r],
             e.shelf \subseteq {CheckedOut(r, v)}
      PROVE  ReadFrom(e, History[r][v])
  <2> DEFINE commit == History[r][v]
  <2>1. files = CheckedOut(r, v) /\ d.shelf \subseteq {CheckedOut(r, v)}
    BY <1>3
  <2>2. ReadFrom(d, commit)
    BY <1>3, <2>1 DEF LookupOk
  <2>3. \/ /\ e.found = d.found \cup {p} /\ e.words = d.words \cup words
           /\ p \in DOMAIN commit /\ words = commit[p]
        \/ /\ e.found = d.found /\ e.words = d.words
           /\ p \notin DOMAIN commit
    BY <1>3, <2>1
  <2> SUFFICES ReadFrom(e, commit)
    OBVIOUS
  <2> HIDE DEF commit
  <2>4. CASE /\ e.found = d.found \cup {p} /\ e.words = d.words \cup words
             /\ p \in DOMAIN commit /\ words = commit[p]
    <3>1. /\ d.found = (Cited(d.claim) \ d.left) \cap DOMAIN commit
          /\ d.words = UNION {commit[q] : q \in d.found}
      BY <2>2 DEF ReadFrom
    <3>2. /\ d.found \cup {p} =
               (Cited(d.claim) \ (d.left \ {p})) \cap DOMAIN commit
          /\ d.words \cup commit[p] = UNION {commit[q] : q \in d.found \cup {p}}
      BY <1>1, <2>4, <3>1, OneMore
    <3>3. /\ e.found = (Cited(e.claim) \ e.left) \cap DOMAIN commit
          /\ e.words = UNION {commit[q] : q \in e.found}
      BY <2>4, <3>2
    <3> QED
      BY <3>3 DEF ReadFrom
  <2>5. CASE e.found = d.found /\ e.words = d.words /\ p \notin DOMAIN commit
    BY <1>1, <2>2, <2>5 DEF ReadFrom
  <2> QED
    BY <2>3, <2>4, <2>5
<1> QED
  BY <1>1, <1>2, <1>3 DEF LookupOk

\* The command is still reading, and has its claim.
LEMMA ReadingOk ==
  ASSUME IInv, NEW a \in Auditors, audit[a].at = "read", NEW d \in Command,
         d.at = "read", d.claim = audit[a].claim, LookupOk(d, upstream),
         audit' = [audit EXCEPT ![a] = d],
         UNCHANGED <<upstream, cache, results, audits, clears>>
  PROVE  IInv'
<1>1. d.claim # None
  BY ClaimType, AuditAssumption
<1>2. CommandOk(d, upstream)
  BY <1>1 DEF CommandOk
<1>3. Only(a)
  BY <1>2 DEF Only, IInv, TypeInv
<1> QED
  BY <1>3, QuietStep

\* A file of the directory stood so in a commit upstream has had.
LEMMA FileWasThere ==
  ASSUME IInv, NEW claim \in Claim, NEW p \in Cited(claim),
         NEW files \in Worktree,
         OriginsOk(DirOf(claim), files, upstream), p \in DOMAIN files
  PROVE  /\ WordsOf(p, files[p]) \in SUBSET Words
         /\ PathWasThere(claim, p, upstream)
         /\ \A w \in WordsOf(p, files[p]) : WordWasThere(claim, w, upstream)
<1> DEFINE r == files[p].repo
           v == files[p].version
<1>1. /\ r \in SameName(claim) /\ r \in Repos /\ v \in 1..upstream[r]
      /\ p \in DOMAIN History[r][v]
  BY DEF OriginsOk, SameName
<1>2. WordsOf(p, files[p]) = History[r][v][p]
  BY DEF WordsOf
<1>3. History[r][v][p] \in SUBSET Words
  BY <1>1, VersionsType, HistoryType
<1> QED
  BY <1>1, <1>2, <1>3 DEF PathWasThere, WordWasThere

LEMMA ReadFileInv ==
  ASSUME IInv, NEW a \in Auditors, ReadFile(a)
  PROVE  IInv'
<1> DEFINE claim == audit[a].claim
           files == cache[DirOf(claim)].files
<1>1. UNCHANGED <<upstream, cache, results, audits, clears>>
  BY DEF ReadFile
<1>2. PICK p \in audit[a].left :
        \/ ReadInside(a, p)
        \/ ReadOutside(a, p)
        \/ Missing(a, p)
        \/ Crash(a)
  BY DEF ReadFile
<1>3. /\ audit[a] \in Command /\ audit[a].at = "read"
      /\ claim \in Claim /\ files \in Worktree
      /\ OriginsOk(DirOf(claim), files, upstream)
      /\ LookupOk(audit[a], upstream)
  BY ClaimType DEF ReadFile, IInv, TypeInv, CommandOk, Clone
<1>4. /\ p \in Cited(claim) /\ p \in Paths \cup Outside
      /\ Cited(claim) \subseteq Paths \cup Outside
  BY <1>3, CitedType DEF LookupOk
<1>5. \A r, v : files = CheckedOut(r, v) =>
        /\ DOMAIN files = DOMAIN History[r][v]
        /\ p \in DOMAIN files => WordsOf(p, files[p]) = History[r][v][p]
  BY DEF CheckedOut, WordsOf
<1> HIDE DEF files
\* What a read file adds.
<1>6. ASSUME NEW words \in SUBSET Words, Read(a, p, words),
             WithinTree(claim) =>
               p \in DOMAIN files /\ words = WordsOf(p, files[p])
      PROVE  IInv'
  <2> DEFINE e == [LookedAt(a, p) EXCEPT !.found = @ \cup {p},
                                         !.words = @ \cup words]
  <2>1. /\ e \in Command /\ e.at = "read" /\ e.claim = claim
        /\ e.left = audit[a].left \ {p}
        /\ e.shelf = audit[a].shelf \cup {files}
        /\ e.found = audit[a].found \cup {p}
        /\ e.words = audit[a].words \cup words
    BY <1>3, <1>4 DEF LookedAt, Command, files
  <2>2. audit' = [audit EXCEPT ![a] = e]
    BY <1>6 DEF Read
  <2> HIDE DEF e
  <2>3. WithinTree(claim) =>
          /\ PathWasThere(claim, p, upstream)
          /\ \A w \in words : WordWasThere(claim, w, upstream)
    BY <1>3, <1>4, <1>6, FileWasThere
  <2>4. WithinTree(claim) => \A r, v : files = CheckedOut(r, v) =>
          p \in DOMAIN History[r][v] /\ words = History[r][v][p]
    BY <1>5, <1>6
  <2>5. LookupOk(e, upstream)
    BY <1>3, <2>1, <2>3, <2>4, PathStep
  <2> QED
    BY <1>1, <1>3, <2>1, <2>2, <2>5, ReadingOk
<1>7. CASE ReadInside(a, p)
  <2>1. p \in DOMAIN files /\ Read(a, p, WordsOf(p, files[p]))
    BY <1>7 DEF ReadInside, files
  <2>2. WordsOf(p, files[p]) \in SUBSET Words
    BY <1>3, <1>4, <2>1, FileWasThere
  <2> QED
    BY <1>6, <2>1, <2>2
<1>8. CASE ReadOutside(a, p)
  <2>1. PICK machine \in Machines :
          p \in DOMAIN machine /\ Read(a, p, machine[p])
    BY <1>8 DEF ReadOutside
  <2>2. PICK outside \in SUBSET Outside : machine \in [outside -> SUBSET Words]
    BY <2>1, AuditAssumption
  <2>3. p \in Outside /\ machine[p] \in SUBSET Words
    BY <2>1, <2>2
  <2>4. ~WithinTree(claim)
    BY <1>3, <1>4, <2>3, CitedType, AuditAssumption
  <2> QED
    BY <1>6, <2>1, <2>3, <2>4
<1>9. CASE Missing(a, p)
  <2> DEFINE e == LookedAt(a, p)
  <2>1. /\ e \in Command /\ e.at = "read" /\ e.claim = claim
        /\ e.left = audit[a].left \ {p}
        /\ e.shelf = audit[a].shelf \cup {files}
        /\ e.found = audit[a].found /\ e.words = audit[a].words
    BY <1>3 DEF LookedAt, Command, files
  <2>2. audit' = [audit EXCEPT ![a] = e] /\ p \notin DOMAIN files
    BY <1>9 DEF Missing, files
  <2> HIDE DEF e
  <2>3. \A r, v : files = CheckedOut(r, v) => p \notin DOMAIN History[r][v]
    BY <1>5, <2>2
  <2>4. LookupOk(e, upstream)
    BY <1>3, <2>1, <2>3, PathStep
  <2> QED
    BY <1>1, <1>3, <2>1, <2>2, <2>4, ReadingOk
<1>10. CASE Crash(a)
  BY <1>1, <1>10, CrashInv
<1> QED
  BY <1>2, <1>7, <1>8, <1>9, <1>10

LEMMA PushInv ==
  ASSUME IInv, NEW r \in Repos, Push(r)
  PROVE  IInv'
<1>1. /\ upstream \in [Repos -> Nat] /\ upstream[r] \in DOMAIN History[r]
      /\ upstream[r] < Len(History[r])
      /\ upstream' = [upstream EXCEPT ![r] = @ + 1]
      /\ UNCHANGED <<cache, audit, results, audits, clears>>
  BY DEF Push, IInv, TypeInv
<1>2. /\ upstream' \in [Repos -> Nat]
      /\ \A q \in Repos : upstream[q] <= upstream'[q]
  BY <1>1
<1>3. upstream'[r] \in DOMAIN History[r]
  BY <1>1, HistoryType
<1>4. \A q \in Repos : upstream'[q] \in DOMAIN History[q]
  BY <1>1, <1>3 DEF IInv, TypeInv
<1>5. TypeInv'
  BY <1>1, <1>2, <1>4 DEF IInv, TypeInv
<1>6. /\ \A n, files : OriginsOk(n, files, upstream) =>
                         OriginsOk(n, files, upstream')
      /\ \A d \in Command : CommandOk(d, upstream) => CommandOk(d, upstream')
      /\ \A x : ResultOk(x, upstream) => ResultOk(x, upstream')
  BY <1>1, <1>2, UpstreamOnlyGrows
<1>7. \A a \in Auditors : audit[a] \in Command
  BY DEF IInv, TypeInv
<1> QED
  BY <1>1, <1>5, <1>6, <1>7 DEF IInv

LEMMA ClearInv ==
  ASSUME IInv, NEW n \in Names, Clear(n)
  PROVE  IInv'
<1>1. PICK git \in {cache[n].from, None}, kept \in SUBSET DOMAIN cache[n].files,
           dir \in BOOLEAN :
        cache' = [cache EXCEPT ![n] =
          [dir |-> dir, from |-> git,
           files |-> [p \in kept |-> cache[n].files[p]]]]
  BY DEF Clear
<1> DEFINE files == [p \in kept |-> cache[n].files[p]]
           c == [dir |-> dir, from |-> git, files |-> files]
<1>2. cache[n] \in Clone /\ OriginsOk(n, cache[n].files, upstream)
  BY DEF IInv, TypeInv
<1>3. /\ cache[n].files \in Worktree /\ DOMAIN cache[n].files \subseteq Paths
      /\ \A p \in DOMAIN cache[n].files : cache[n].files[p] \in Origin
  BY <1>2, FilesType DEF Clone
<1>4. files \in [kept -> Origin] /\ kept \in SUBSET Paths
  BY <1>3
<1>5. files \in Worktree
  BY <1>4, FilesType
<1>6. OriginsOk(n, files, upstream)
  BY <1>2 DEF OriginsOk
<1>7. git \in Repos \cup {None}
  BY <1>2 DEF Clone
<1> HIDE DEF files
<1>8. c \in Clone /\ c.files = files
  BY <1>5, <1>7 DEF Clone
<1>9. cache' = [cache EXCEPT ![n] = c]
  BY <1>1 DEF files
<1> HIDE DEF c
<1>10. /\ cache' \in [Names -> Clone]
       /\ \A m \in Names : OriginsOk(m, cache'[m].files, upstream)
  BY <1>6, <1>8, <1>9, OneDirectory
<1>11. /\ UNCHANGED <<upstream, audit, results, audits>>
       /\ clears' \in 0..MaxClears
  BY AuditAssumption DEF Clear, IInv, TypeInv
<1>12. TypeInv'
  BY <1>10, <1>11 DEF IInv, TypeInv
<1> QED
  BY <1>10, <1>11, <1>12 DEF IInv
-----------------------------------------------------------------------------
\* The invariant is kept by every step.
LEMMA NextInv == IInv /\ [Next]_vars => IInv'
<1> SUFFICES ASSUME IInv, [Next]_vars PROVE IInv'
  OBVIOUS
<1>1. CASE UNCHANGED vars
  BY <1>1 DEF vars, IInv, TypeInv
<1>2. ASSUME NEW a \in Auditors, NEW f \in Files,
             PassOver(a, f) \/ FindClone(a, f)
      PROVE  IInv'
  BY <1>2, PassOverInv, FindCloneInv
<1>3. ASSUME NEW a \in Auditors, AuditStep(a) PROVE IInv'
  BY <1>2, <1>3, StartCloneInv, InitRepositoryInv, CloneFailsInv, FetchInv,
     CheckoutFileInv, EndCloneInv, TimeOutInv, ReadFileInv, VerifyClaimInv,
     FinishInv DEF AuditStep
<1> QED
  BY <1>1, <1>3, StartInv, KillInv, PushInv, ClearInv DEF Next

\* What the invariant says of words and paths, in the terms of the properties.
LEMMA InvHolds == IInv => TypeOK /\ PassedWasThere /\ WholeCommitsDecide
<1> SUFFICES ASSUME IInv PROVE TypeOK /\ PassedWasThere /\ WholeCommitsDecide
  OBVIOUS
<1>1. TypeOK
  <2>1. \A n \in Names :
          cache[n] \in Clone /\ OriginsOk(n, cache[n].files, upstream)
    BY DEF IInv, TypeInv
  <2>2. \A a \in Auditors : audit[a] \in Command /\ CommandOk(audit[a], upstream)
    BY DEF IInv, TypeInv
  <2>3. \A n \in Names :
          /\ cache[n].from \in Repos \cup {None} /\ cache[n].dir \in BOOLEAN
          /\ \A p \in DOMAIN cache[n].files :
               LET origin == cache[n].files[p]
               IN  /\ DirName[origin.repo] = n
                   /\ origin.version \in 1..upstream[origin.repo]
                   /\ p \in DOMAIN History[origin.repo][origin.version]
    BY <2>1 DEF Clone, OriginsOk
  <2>4. \A a \in Auditors :
          /\ audit[a].at \in
               {"idle", "next", "clone", "init", "fetch", "checkout", "read"}
          /\ audit[a].todo \subseteq Files
          /\ audit[a].at \in {"idle", "next"} <=> audit[a].claim = None
    BY <2>2 DEF Command, Stages, CommandOk
  <2>5. \A x \in results :
          /\ x.claim \in Claim /\ x.verified \subseteq x.claim.symbols
          /\ x.passed => x.accessible /\ x.exists
    BY DEF IInv, ResultOk
  <2> QED
    BY <2>3, <2>4, <2>5 DEF TypeOK, IInv, TypeInv
<1>2. PassedWasThere
  <2> SUFFICES ASSUME NEW x \in results, x.passed, WithinTree(x.claim)
               PROVE  /\ \A s \in x.claim.symbols :
                           \E r \in SameName(x.claim) : \E v \in 1..upstream[r] :
                             \E p \in Cited(x.claim) \cap DOMAIN History[r][v] :
                               Inside[s] \cap History[r][v][p] # {}
                      /\ x.claim.paths # {} =>
                           \E r \in SameName(x.claim) : \E v \in 1..upstream[r] :
                             x.claim.paths \cap DOMAIN History[r][v] # {}
    BY DEF PassedWasThere
  <2>1. ResultOk(x, upstream)
    BY DEF IInv
  <2>2. ASSUME NEW s \in x.claim.symbols
        PROVE  \E r \in SameName(x.claim) : \E v \in 1..upstream[r] :
                 \E p \in Cited(x.claim) \cap DOMAIN History[r][v] :
                   Inside[s] \cap History[r][v][p] # {}
    <3>1. PICK w \in Inside[s] : WordWasThere(x.claim, w, upstream)
      BY <2>1 DEF ResultOk
    <3> QED
      BY <3>1 DEF WordWasThere
  <2>3. ASSUME x.claim.paths # {}
        PROVE  \E r \in SameName(x.claim) : \E v \in 1..upstream[r] :
                 x.claim.paths \cap DOMAIN History[r][v] # {}
    <3>1. PICK p \in x.claim.paths : PathWasThere(x.claim, p, upstream)
      BY <2>1, <2>3 DEF ResultOk
    <3> QED
      BY <3>1 DEF PathWasThere
  <2> QED
    BY <2>2, <2>3
<1>3. WholeCommitsDecide
  BY Zenon DEF WholeCommitsDecide, IInv, ResultOk
<1> QED
  BY <1>1, <1>2, <1>3

LEMMA IInvAlways == Spec => []IInv
<1>1. Init => IInv
  BY InitInv
<1>2. IInv /\ [Next]_vars => IInv'
  BY NextInv
<1> QED
  BY <1>1, <1>2, PTL DEF Spec

(* Every state is of its types: a command has a claim just while it looks  *)
(* one up, and whatever gits do at once, what lies in a directory is of a  *)
(* commit that a repository of that name has had.                          *)
THEOREM TypeCorrect == Spec => []TypeOK
<1>1. IInv => TypeOK
  BY InvHolds
<1> QED
  BY <1>1, IInvAlways, PTL

(* A claim within the tree that passed has all its symbols from files it   *)
(* cites that stood upstream, in a repository of the name it is about      *)
(* (provenance_auditor.py:105-170).                                        *)
THEOREM PassedClaimsWereThere == Spec => []PassedWasThere
<1>1. IInv => PassedWasThere
  BY InvHolds
<1> QED
  BY <1>1, IInvAlways, PTL

(* Over a directory that held one whole commit throughout, a claim passes  *)
(* just if it stands in that commit.                                       *)
THEOREM WholeClonesDecide == Spec => []WholeCommitsDecide
<1>1. IInv => WholeCommitsDecide
  BY InvHolds
<1> QED
  BY <1>1, IInvAlways, PTL
=============================================================================
