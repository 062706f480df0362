------------------------- MODULE MCProvenanceAudit -------------------------
(* Two repositories of one name, the first of which drops a column later;  *)
(* claims of two paths and a symbol that one of them has, of a path that   *)
(* leads out of the tree, of a directory and of a symbol anywhere; a file  *)
(* without a claim and one that is no text.                                *)
EXTENDS ProvenanceAudit, TLC

CONSTANTS acme, fork, models, schema, marts, docs, notes,
          status, status_code, amount, none

MCDirName == [r \in Repos |-> models]

MCHistory ==
  [r \in Repos |->
     IF r = acme THEN <<(schema :> {status_code}) @@ (marts :> {amount}),
                            schema :> {amount}>>
                 ELSE <<(marts :> {amount}) @@ (docs :> {})>>]

MCMachines == {notes :> {status}, [p \in {} |-> {}]}

MCInside ==
  [s \in Symbols |-> IF s = status THEN {status, status_code} ELSE {s}]

About(r, paths, symbols) == [repo |-> r, paths |-> paths, symbols |-> symbols]

InFile(text, section, header) ==
  [text |-> text, section |-> section, header |-> header]

NoText == InFile(FALSE, none, none)

NoClaim == InFile(TRUE, none, none)

MCDirectories ==
  {{InFile(TRUE, About(acme, {schema, marts}, {status}), none), NoText},
   {InFile(TRUE, none, About(fork, {}, {amount})), NoClaim},
   {InFile(TRUE, About(acme, {schema, notes}, {status}), none)},
   {InFile(TRUE, About(fork, {marts, docs}, {status}), none)}}

Symmetry == Permutations(Auditors)

MCBibliography ==
  {[cited |-> TRUE, declared |-> TRUE, wellFormed |-> FALSE],
   [cited |-> FALSE, declared |-> TRUE, wellFormed |-> TRUE]}
=============================================================================
