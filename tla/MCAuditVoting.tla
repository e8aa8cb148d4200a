---------------------------- MODULE MCAuditVoting ----------------------------
(* Instances of AuditVoting and, for PoolSpec, of AuditorPool for TLC.      *)
EXTENDS AuditVoting, TLC

(* Principals are only compared for equality.                               *)
PrincipalSymmetry == Permutations(Principals)

(* One too small to register; one that slashing must round.                 *)
OddStake == {999, 1005}

(* Steps of reputation that hit both ends of 0..1000, and beyond.           *)
Swings == {-500, 500}

(* The default configuration, and one that takes the whole stake.           *)
DefaultAndFull ==
  { [minStakeAmount |-> 1000, slashPercentage |-> 10],
    [minStakeAmount |-> 1000, slashPercentage |-> 100] }

(* Two approvals, as in the default 2-of-3; and one.                        *)
OneOrTwo == {1, 2}
=============================================================================
