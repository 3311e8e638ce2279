--------------------------- MODULE MCSpanishRecords ---------------------------
(***************************************************************************)
(* A small instance of SpanishRecords, and of its refinement.              *)
(***************************************************************************)
EXTENDS SpanishRefinement, TLC

(* Spain is ready by its command, or by the flag alone; then Poland lacks  *)
(* its validator.                                                          *)
MCDeployments ==
  {SettingNames \ {SigningFlag},
   SettingNames \ {SigningCommand, ValidatorSetting["PL"]}}

Symmetry == Permutations(Workers)
=============================================================================
