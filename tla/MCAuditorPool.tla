---------------------------- MODULE MCAuditorPool ----------------------------
(* Instances of AuditorPool alone for TLC.                                  *)
EXTENDS AuditorPool

OneStake == {1000}
NoSwings == {0}
DefaultConfig == { [minStakeAmount |-> 1000, slashPercentage |-> 10] }
=============================================================================
