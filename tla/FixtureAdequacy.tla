--------------------------- MODULE FixtureAdequacy ---------------------------
(***************************************************************************)
(* The audit of a fixture (harness/fixture_adequacy.py): does it have the  *)
(* contrasts that tell a mutant from the query it was made of?             *)
(***************************************************************************)
EXTENDS ResultFrames

CONSTANT ActiveSpellings   \* what is "active" in small letters

ASSUME SpellingsAssumption == "active" \in ActiveSpellings

Check(name, status) == [name |-> name, status |-> status]

Volume(table) ==
  Check("Dataset Volume", IF Len(table) < 3 THEN "WARN" ELSE "PASS")

\* NULL and the empty text count as values, but not as ones that are not 'active'.
StatusContrast(table) ==
  LET distinct == Cells(table, "status")
  IN  Check("Active/Inactive Status Contrast",
            IF Cardinality(distinct) > 1 /\ distinct \ (ActiveSpellings \cup {Null, ""}) # {}
            THEN "PASS" ELSE "FAIL")

NumericalContrast(table) ==
  Check("Numerical Distribution Contrast",
        IF Cardinality(Cells(table, "amount") \ {Null}) > 1 THEN "PASS" ELSE "WARN")

GrainMultiplicity(table) ==
  Check("Multi-row Grain Multiplicity",
        IF \E i, j \in DOMAIN table :
             i # j /\ table[i].customer_id = table[j].customer_id
        THEN "PASS" ELSE "WARN")

(* audit_fixture; Null stands for a table that is not there.               *)
AuditFixture(table) ==
  IF table = Null THEN {Check("Table Exists", "FAIL")}
  ELSE {Volume(table), StatusContrast(table), NumericalContrast(table),
        GrainMultiplicity(table)}
=============================================================================
