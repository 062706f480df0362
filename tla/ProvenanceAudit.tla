--------------------------- MODULE ProvenanceAudit ---------------------------
(***************************************************************************)
(* The provenance auditor (evaluation/provenance_auditor.py) behind the    *)
(* command audit-provenance: claims about upstream repositories are taken  *)
(* from a directory's files and looked up in shallow clones.  The clones   *)
(* lie in one directory below the system's temporary one, under the last   *)
(* component of their URL, and every auditor on the machine shares them.   *)
(* Whoever clears temporary files may take what he likes at any time.      *)
(*                                                                         *)
(* A text is the set of its words; a file in a clone is known by the       *)
(* commit git wrote it from.                                               *)
(***************************************************************************)
EXTENDS Integers, Sequences

CONSTANTS
  Auditors,        \* processes that run the command
  Repos,           \* repositories, by their full URL
  DirName,         \* [Repos -> the last component of the URL]
  Paths,           \* files of the repositories
  Searchable,      \* those that end in .yml, .yaml or .sql
  Outside,         \* paths that lead out of the checked-out tree: absolute
                   \* ones, with .. in them, or into .git
  Folders,         \* of both, those that name a directory
  Machines,        \* what may be found outside: files with their words
  Words,
  History,         \* [Repos -> Seq(Commit)]: what upstream has at each time
  Symbols,         \* claimed columns and values
  Inside,          \* [Symbols -> SUBSET Words]: words the symbol is a part of
  Directories,     \* what may be audited: sets of files
  Bibliography,    \* the entries of the audited paper
  None,
  MaxAudits,       \* bounds, on actions only
  MaxClears

Names == {DirName[r] : r \in Repos}

\* A commit: its files, each with its words.
Commit == UNION {[files -> SUBSET Words] : files \in SUBSET Paths}

\* What a file says of its source.  No path: the whole repository is cited.
Claim == [repo : Repos, paths : SUBSET (Paths \cup Outside),
          symbols : SUBSET Symbols]

\* A file of the directory: whether it is text (and its columns have texts
\* for names), its provenance section and its comment header.
File == [text : BOOLEAN, section : Claim \cup {None},
         header : Claim \cup {None}]

Entry == [cited : BOOLEAN, declared : BOOLEAN, wellFormed : BOOLEAN]

ASSUME AuditAssumption ==
  /\ Searchable \subseteq Paths /\ Paths \cap Outside = {}
  /\ DOMAIN DirName = Repos
  /\ DOMAIN History = Repos
  /\ \A r \in Repos : History[r] \in Seq(Commit) /\ History[r] # <<>>
  /\ Machines \subseteq
       UNION {[files -> SUBSET Words] : files \in SUBSET Outside}
  /\ Inside \in [Symbols -> SUBSET Words]
  /\ Directories \subseteq SUBSET File
  /\ Bibliography \subseteq Entry
  /\ None \notin Repos /\ None \notin Claim
  /\ None \notin 0..1
  /\ MaxAudits \in Nat /\ MaxClears \in Nat

VARIABLES
  upstream,        \* [Repos -> the commit upstream is at]
  cache,           \* [Names -> a clone's directory]
  audit,           \* [Auditors -> the state of its command]
  results,         \* ghost: every result so far
  audits,          \* ghost: commands started
  clears           \* ghost: times that temporary files were cleared

vars == <<upstream, cache, audit, results, audits, clears>>
-----------------------------------------------------------------------------
\* The commit a file was written from.
Origin == [repo : Repos, version : Nat]

Worktree == UNION {[files -> Origin] : files \in SUBSET Paths}

\* dir: it is there; from: the repository .git is of, None without a .git.
Clone == [dir : BOOLEAN, from : Repos \cup {None}, files : Worktree]

NoFiles == [p \in {} |-> {}]

Emptied(dir) == [dir |-> dir, from |-> None, files |-> NoFiles]

WordsOf(p, origin) == History[origin.repo][origin.version][p]

(* The claims of a file: its provenance section's, or else its header's.   *)
ExtractClaims(f) ==
  IF f.section # None THEN {f.section}
  ELSE IF f.header # None THEN {f.header} ELSE {}

(* The files a claim is looked up in.                                      *)
Cited(claim) == IF claim.paths = {} THEN Searchable ELSE claim.paths

(* A symbol is found wherever it is a part of a word.                      *)
Verified(claim, words) == {s \in claim.symbols : Inside[s] \cap words # {}}

\* Of several cited files one is enough.
FileExists(claim, found) == claim.paths = {} \/ found # {}

\* Ghosts: the cited files that were there, and what the directory held each
\* time that one was looked for.
Result == [claim : Claim, accessible : BOOLEAN, exists : BOOLEAN,
           verified : SUBSET Symbols, passed : BOOLEAN,
           found : SUBSET (Paths \cup Outside), shelf : SUBSET Worktree]

Inaccessible(command) ==
  [claim |-> command.claim, accessible |-> FALSE, exists |-> FALSE,
   verified |-> {}, passed |-> FALSE, found |-> {}, shelf |-> {}]

Verdict(command, exists, verified) ==
  [claim |-> command.claim, accessible |-> TRUE, exists |-> exists,
   verified |-> verified, passed |-> exists /\ verified = command.claim.symbols,
   found |-> command.found, shelf |-> command.shelf]

\* Mutant: a cited file that exists is enough.
LookupIgnoringMissing(command) ==
  Verdict(command, FileExists(command.claim, command.found),
          command.claim.symbols)

(* What verify_claim makes of the files it has read: not one cited file is *)
(* there, or symbols are missing, or the claim has passed.                 *)
Lookup(command) ==
  LET exists == FileExists(command.claim, command.found)
  IN  Verdict(command, exists,
              IF exists THEN Verified(command.claim, command.words) ELSE {})
-----------------------------------------------------------------------------
(* left: files that git has to write, then those that have to be looked    *)
(* up; made: git made the directory; version: the commit it has fetched.   *)
Idle == [at |-> "idle", todo |-> {}, claim |-> None, made |-> FALSE,
         version |-> 0, left |-> {}, found |-> {}, words |-> {}, shelf |-> {},
         failed |-> FALSE, exit |-> None]

Init ==
  /\ upstream = [r \in Repos |-> 1]
  /\ cache = [n \in Names |-> Emptied(FALSE)]
  /\ audit = [a \in Auditors |-> Idle]
  /\ results = {} /\ audits = 0 /\ clears = 0

DirOf(claim) == DirName[claim.repo]

Files == UNION Directories

(* audit-provenance starts; the directory's files come in any order.       *)
Start(a) ==
  /\ audit[a].at = "idle" /\ audits < MaxAudits
  /\ audits' = audits + 1
  /\ \E d \in Directories :
       audit' = [audit EXCEPT ![a] = [Idle EXCEPT !.at = "next", !.todo = d]]
  /\ UNCHANGED <<upstream, cache, results, clears>>

(* An exception that verify_claim does not expect ends the command; what   *)
(* it found out so far is not shown.                                       *)
Crash(a) == audit' = [audit EXCEPT ![a] = [Idle EXCEPT !.exit = 1]]

(* A file without a claim is passed over; one that is no text raises.      *)
PassOver(a, f) ==
  /\ audit[a].at = "next" /\ f \in audit[a].todo
  /\ \/ ~f.text /\ Crash(a)
     \/ /\ f.text /\ ExtractClaims(f) = {}
        /\ audit' = [audit EXCEPT ![a] = [audit[a] EXCEPT !.todo = @ \ {f}]]
  /\ UNCHANGED <<upstream, cache, results, audits, clears>>

(* verify_claim looks for .git in the clone's directory.  If it is there   *)
(* nothing is fetched: not a newer commit, and not what is still missing.  *)
FindClone(a, f) ==
  /\ audit[a].at = "next" /\ f \in audit[a].todo /\ f.text
  /\ \E c \in ExtractClaims(f) :
       audit' = [audit EXCEPT ![a] = [audit[a] EXCEPT
                   !.claim = c, !.todo = @ \ {f},
                   !.at = IF cache[DirOf(c)].from = None THEN "clone" ELSE "read",
                   !.left = IF cache[DirOf(c)].from = None THEN {} ELSE Cited(c)]]
  /\ UNCHANGED <<upstream, cache, results, audits, clears>>

\* Mutant: the next file starts with the claim of the last one.
ReportLeavingClaim(a, result) ==
  /\ results' = results \cup {result}
  /\ audit' = [audit EXCEPT ![a] =
       [audit[a] EXCEPT !.at = "next", !.failed = @ \/ ~result.passed]]

Report(a, result) ==
  /\ results' = results \cup {result}
  /\ audit' = [audit EXCEPT ![a] =
       [Idle EXCEPT !.at = "next", !.todo = audit[a].todo,
                    !.failed = audit[a].failed \/ ~result.passed]]

(* git clone makes the directory, takes an empty one that is there, and    *)
(* refuses any other.                                                      *)
StartClone(a) ==
  LET n == DirOf(audit[a].claim)
  IN  /\ audit[a].at = "clone"
      /\ \/ /\ ~cache[n].dir
            /\ cache' = [cache EXCEPT ![n] =
                 [dir |-> TRUE, from |-> @.from, files |-> @.files]]
            /\ audit' = [audit EXCEPT ![a] =
                 [audit[a] EXCEPT !.at = "init", !.made = TRUE]]
            /\ UNCHANGED results
         \/ /\ cache[n] = Emptied(TRUE)
            /\ audit' = [audit EXCEPT ![a] = [audit[a] EXCEPT !.at = "init"]]
            /\ UNCHANGED <<cache, results>>
         \/ /\ cache[n].dir /\ cache[n] # Emptied(TRUE)
            /\ Report(a, Inaccessible(audit[a]))
            /\ UNCHANGED cache
      /\ UNCHANGED <<upstream, audits, clears>>

(* .git is made some time after git has looked at the directory, whatever  *)
(* another git has done there since.                                       *)
InitRepository(a) ==
  LET c == audit[a].claim
  IN  /\ audit[a].at = "init"
      /\ cache' = [cache EXCEPT ![DirOf(c)] =
                     [dir |-> TRUE, from |-> c.repo, files |-> @.files]]
      /\ audit' = [audit EXCEPT ![a] = [audit[a] EXCEPT !.at = "fetch"]]
      /\ UNCHANGED <<upstream, results, audits, clears>>

(* The server cannot be reached or has no such repository: git removes all *)
(* that is in the directory, and the directory if it has made it.          *)
CloneFails(a) ==
  /\ audit[a].at \in {"init", "fetch"}
  /\ cache' = [cache EXCEPT ![DirOf(audit[a].claim)] = Emptied(~audit[a].made)]
  /\ Report(a, Inaccessible(audit[a]))
  /\ UNCHANGED <<upstream, audits, clears>>

(* The commit upstream is at has been transferred; git writes its files.   *)
Fetch(a) ==
  LET r == audit[a].claim.repo
  IN  /\ audit[a].at = "fetch"
      /\ audit' = [audit EXCEPT ![a] = [audit[a] EXCEPT
                     !.at = "checkout", !.version = upstream[r],
                     !.left = DOMAIN History[r][upstream[r]]]]
      /\ UNCHANGED <<upstream, cache, results, audits, clears>>

\* The files with p among them.
Written(files, p, origin) ==
  [q \in DOMAIN files \cup {p} |-> IF q = p THEN origin ELSE files[q]]

CheckoutFile(a) ==
  LET c == audit[a].claim
      origin == [repo |-> c.repo, version |-> audit[a].version]
  IN  /\ audit[a].at = "checkout"
      /\ \E p \in audit[a].left :
           /\ cache' = [cache EXCEPT ![DirOf(c)] =
                          [dir |-> TRUE, from |-> @.from,
                           files |-> Written(@.files, p, origin)]]
           /\ audit' = [audit EXCEPT ![a] = [audit[a] EXCEPT !.left = @ \ {p}]]
      /\ UNCHANGED <<upstream, results, audits, clears>>

EndClone(a) ==
  /\ audit[a].at = "checkout" /\ audit[a].left = {}
  /\ audit' = [audit EXCEPT ![a] =
       [audit[a] EXCEPT !.at = "read", !.left = Cited(audit[a].claim)]]
  /\ UNCHANGED <<upstream, cache, results, audits, clears>>

(* The thirty seconds are over and git is killed, or it cannot check out:  *)
(* what is there stays.                                                    *)
TimeOut(a) ==
  /\ audit[a].at \in {"init", "fetch", "checkout"}
  /\ Report(a, Inaccessible(audit[a]))
  /\ UNCHANGED <<upstream, cache, audits, clears>>

LookedAt(a, p) ==
  [audit[a] EXCEPT !.left = @ \ {p},
                   !.shelf = @ \cup {cache[DirOf(audit[a].claim)].files}]

\* Mutant: the text of a file takes the place of what was read before.
ReadLast(a, p, words) ==
  audit' = [audit EXCEPT ![a] =
    [LookedAt(a, p) EXCEPT !.found = @ \cup {p}, !.words = words]]

Read(a, p, words) ==
  audit' = [audit EXCEPT ![a] =
    [LookedAt(a, p) EXCEPT !.found = @ \cup {p}, !.words = @ \cup words]]

\* A file in the clone at this time.
ReadInside(a, p) ==
  LET files == cache[DirOf(audit[a].claim)].files
  IN  p \in DOMAIN files /\ Read(a, p, WordsOf(p, files[p]))

\* One that the path leads to, wherever that is.
ReadOutside(a, p) ==
  \E machine \in Machines : p \in DOMAIN machine /\ Read(a, p, machine[p])

Missing(a, p) ==
  /\ p \notin DOMAIN cache[DirOf(audit[a].claim)].files
  /\ audit' = [audit EXCEPT ![a] = LookedAt(a, p)]

(* The next cited file is read, if it exists.  A directory exists and      *)
(* raises, and so may any file that cannot be read.                        *)
ReadFile(a) ==
  /\ audit[a].at = "read"
  /\ \E p \in audit[a].left :
       \/ p \notin Folders /\ (ReadInside(a, p) \/ ReadOutside(a, p))
       \/ Missing(a, p)
       \/ p \in DOMAIN cache[DirOf(audit[a].claim)].files \cup Outside /\ Crash(a)
  /\ UNCHANGED <<upstream, cache, results, audits, clears>>

(* Nothing is left to look up.                                             *)
VerifyClaim(a) ==
  /\ audit[a].at = "read" /\ audit[a].left = {}
  /\ Report(a, Lookup(audit[a]))
  /\ UNCHANGED <<upstream, cache, audits, clears>>

(* audit_latex_bibliography, and what the command makes of it: undeclared  *)
(* keys fail the audit, malformed entries are only shown.                  *)
MissingDeclarations == {e \in Bibliography : e.cited /\ ~e.declared}

Finish(a) ==
  /\ audit[a].at = "next" /\ audit[a].todo = {}
  /\ \E strict \in BOOLEAN :
       LET failed == audit[a].failed \/ MissingDeclarations # {}
       IN  audit' = [audit EXCEPT ![a] = [Idle EXCEPT !.failed = failed,
                       !.exit = IF failed /\ strict THEN 1 ELSE 0]]
  /\ UNCHANGED <<upstream, cache, results, audits, clears>>

(* External: an auditor and its git are killed; upstream moves on; files   *)
(* of the temporary directory are removed.                                 *)
Kill(a) ==
  /\ audit[a].at # "idle"
  /\ audit' = [audit EXCEPT ![a] = Idle]
  /\ UNCHANGED <<upstream, cache, results, audits, clears>>

Push(r) ==
  /\ upstream[r] < Len(History[r])
  /\ upstream' = [upstream EXCEPT ![r] = @ + 1]
  /\ UNCHANGED <<cache, audit, results, audits, clears>>

Clear(n) ==
  /\ cache[n].dir /\ clears < MaxClears
  /\ clears' = clears + 1
  /\ \E git \in {cache[n].from, None}, kept \in SUBSET DOMAIN cache[n].files,
        dir \in BOOLEAN :
       /\ git # None \/ kept # {} => dir
       /\ cache' = [cache EXCEPT ![n] =
            [dir |-> dir, from |-> git,
             files |-> [p \in kept |-> cache[n].files[p]]]]
  /\ UNCHANGED <<upstream, audit, results, audits>>
-----------------------------------------------------------------------------
AuditStep(a) ==
  \/ \E f \in Files : PassOver(a, f) \/ FindClone(a, f)
  \/ StartClone(a) \/ InitRepository(a) \/ CloneFails(a) \/ Fetch(a)
  \/ CheckoutFile(a) \/ EndClone(a) \/ TimeOut(a)
  \/ ReadFile(a) \/ VerifyClaim(a) \/ Finish(a)

Next ==
  \/ \E a \in Auditors : Start(a) \/ AuditStep(a) \/ Kill(a)
  \/ \E r \in Repos : Push(r)
  \/ \E n \in Names : Clear(n)

Spec == Init /\ [][Next]_vars
-----------------------------------------------------------------------------
(* Types: a command has a claim just while it looks one up, and a file in  *)
(* a directory is of a commit that a repository of that name has had.      *)
TypeOK ==
  /\ \A r \in Repos : upstream[r] \in DOMAIN History[r]
  /\ DOMAIN cache = Names
  /\ \A n \in Names :
       /\ cache[n].from \in Repos \cup {None} /\ cache[n].dir \in BOOLEAN
       /\ \A p \in DOMAIN cache[n].files :
            LET origin == cache[n].files[p]
            IN  /\ DirName[origin.repo] = n
                /\ origin.version \in 1..upstream[origin.repo]
                /\ p \in DOMAIN History[origin.repo][origin.version]
  /\ DOMAIN audit = Auditors
  /\ \A a \in Auditors :
       /\ audit[a].at \in
            {"idle", "next", "clone", "init", "fetch", "checkout", "read"}
       /\ audit[a].todo \subseteq Files
       /\ audit[a].at \in {"idle", "next"} <=> audit[a].claim = None
  /\ \A x \in results :
       /\ x.claim \in Claim /\ x.verified \subseteq x.claim.symbols
       /\ x.passed => x.accessible /\ x.exists
  /\ audits \in 0..MaxAudits /\ clears \in 0..MaxClears

\* Every path of the claim is one in the checked-out tree.
WithinTree(claim) == claim.paths \cap Outside = {}

\* Repositories whose clones lie where the claim's is looked for.
SameName(claim) == {r \in Repos : DirName[r] = DirOf(claim)}

(* No verdict is made up: of a claim that passed, every symbol stood in a  *)
(* file that it cites, and one of these did exist, upstream, although      *)
(* clones are cut off, refused, mixed, read while they are written or      *)
(* cleared, and upstream moves on.  (In a repository of the name, not      *)
(* always of the owner, of the one the claim is about, and not always in   *)
(* one commit.  A path that leads out of the tree is followed too, and     *)
(* nothing is said of a claim with such a path.)                           *)
PassedWasThere ==
  \A x \in results : x.passed /\ WithinTree(x.claim) =>
    /\ \A s \in x.claim.symbols :
         \E r \in SameName(x.claim) : \E v \in 1..upstream[r] :
           \E p \in Cited(x.claim) \cap DOMAIN History[r][v] :
             Inside[s] \cap History[r][v][p] # {}
    /\ x.claim.paths # {} =>
         \E r \in SameName(x.claim) : \E v \in 1..upstream[r] :
           x.claim.paths \cap DOMAIN History[r][v] # {}

\* A commit has every symbol of the claim in a file that the claim cites, and
\* one of these at least.
Stands(claim, commit) ==
  /\ claim.paths = {} \/ claim.paths \cap DOMAIN commit # {}
  /\ \A s \in claim.symbols :
       \E p \in Cited(claim) \cap DOMAIN commit : Inside[s] \cap commit[p] # {}

\* All files of a commit, as git checks them out.
CheckedOut(r, v) == [p \in DOMAIN History[r][v] |-> [repo |-> r, version |-> v]]

(* Where the directory held all of one commit each time a file was looked  *)
(* for, whatever gits and auditors did in between, the claim has passed    *)
(* just if it stands in that commit: a claim that does stand is refuted    *)
(* only over a clone that is another repository's, stale, cut off, still   *)
(* being written, or cleared.                                              *)
WholeCommitsDecide ==
  \A x \in results : x.accessible /\ WithinTree(x.claim) =>
    \A r \in Repos : \A v \in DOMAIN History[r] :
      x.shelf = {CheckedOut(r, v)} =>
        (x.passed <=> Stands(x.claim, History[r][v]))
=============================================================================
