---------------------------- MODULE MCSettingsPanel ----------------------------
(* SettingsPanel on small instances. *)
EXTENDS SettingsPanel

\* A built-in engine, and a checkbox that is on.
BuiltIn ==
  LET url == CHOOSE v \in ValidBases : TRUE
  IN  [s \in Settings |-> IF s = "enabled" THEN TRUE ELSE url]
=============================================================================
