------------------------- MODULE MCUpgradeExecution -------------------------
(* Instances of UpgradeExecution for TLC.                                  *)
EXTENDS UpgradeExecution, TLC

(* Auditors are interchangeable: no handler compares them.                 *)
AuditorSymmetry == Permutations(Auditors)
=============================================================================
