------------------------- MODULE MCProtocolAccounts -------------------------
(* Instances of ProtocolAccounts for TLC.                                    *)
EXTENDS ProtocolAccounts, TLC

(* Archive, Economy, Standard, RealTime, in the order of the code's costs.  *)
(* A month has a day, or two: a daily cost of RealTime is more than a month *)
(* of Economy, so an account can fall to each tier.                         *)
Costs     == 0 :> 2 @@ 1 :> 6 @@ 2 :> 14 @@ 3 :> 24

(* Enough for RealTime, with a rest.                                        *)
SomeDonations == {29}
SomeDeposits  == {3}
=============================================================================
