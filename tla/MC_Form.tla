------------------------------- MODULE MC_Form -------------------------------
(* A form with an Integer input and a textarea, both required, and values *)
(* that exercise every branch of doValidate: empty, blank, a number and a *)
(* non-number.                                                            *)
EXTENDS Form

CONSTANTS f1, f2, null

MCFields == {f1, f2}
MCKind == [f \in MCFields |-> IF f = f1 THEN "input" ELSE "textarea"]
MCTypeMeta == [f \in MCFields |-> IF f = f1 THEN "Integer" ELSE null]
MCRequired == [f \in MCFields |-> TRUE]
MCVals == {"empty", "spaces", "digits", "mixed"}
=============================================================================
