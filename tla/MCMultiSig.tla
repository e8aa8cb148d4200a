----------------------------- MODULE MCMultiSig -----------------------------
(* Instances of MultiSig for TLC.                                          *)
EXTENDS MultiSig, TLC

(* Auditors are only compared for equality.                                *)
AuditorSymmetry == Permutations(AuditorIds)
=============================================================================
