---------------------------- MODULE AuditorPool ----------------------------
(***************************************************************************)
(* The pool of auditors (AuditorPool.Core): registration against a stake,  *)
(* reputation, slashing, suspension and reactivation; and the automatic    *)
(* assignment that selects from it (AuditorPool.AutoAssign).  Every        *)
(* operation takes the list of auditors and returns the new list; one that *)
(* fails returns no list and changes nothing.                              *)
(*                                                                         *)
(* totalReviews is 0 when an auditor registers and no code changes it, so  *)
(* selection by availability is a choice among equals and the field is     *)
(* left out, with the approval and rejection counts.                       *)
(***************************************************************************)
EXTENDS Integers, Sequences, FiniteSets, SequencesExt

CONSTANTS
  Principals,     \* who may register
  Stakes,         \* stakes offered at registration
  Deltas,         \* changes of reputation
  PoolConfigs,    \* the configurations callers pass to the operations
  MaxSlashes      \* bound on the times one auditor is slashed

(* The fields of a PoolConfig that an operation reads.  "Percentage of     *)
(* stake to slash (0-100)" says its comment, and the callers are trusted   *)
(* with it: above 100 the amount reported would exceed the stake.          *)
PoolConfig == [minStakeAmount : Nat, slashPercentage : 0..100]

ASSUME PoolBounds ==
  /\ Stakes \subseteq Nat
  /\ Deltas \subseteq Int
  /\ PoolConfigs \subseteq PoolConfig
  /\ MaxSlashes \in Nat

VARIABLES
  auditors,       \* the pool, newest first
  deposited,      \* what each principal staked when registering
  slashedAmount   \* what slashAuditor reported as taken from each principal

poolVars == <<auditors, deposited, slashedAmount>>

AuditorStatus == {"Active", "Inactive", "Suspended", "Slashed"}

Auditor == [ id           : Principals,
             status       : AuditorStatus,
             reputation   : Nat,
             slashCount   : Nat,
             stakedAmount : Nat ]

PoolTypeOK ==
  /\ auditors \in Seq(Auditor)
  /\ \A i, j \in DOMAIN auditors : auditors[i].id = auditors[j].id => i = j
  /\ deposited \in [Principals -> Nat]
  /\ slashedAmount \in [Principals -> Nat]

PoolInit == /\ auditors = << >>
            /\ deposited = [p \in Principals |-> 0]
            /\ slashedAmount = [p \in Principals |-> 0]

(* find by id; every update then maps over the whole list.                 *)
findAuditor(aid) == SelectInSeq(auditors, LAMBDA a : a.id = aid)

updateAuditor(aid, a) ==
  [i \in DOMAIN auditors |-> IF auditors[i].id = aid THEN a ELSE auditors[i]]

---------------------------------------------------------------------------
(* Mutated form: an auditor may register a second time.                    *)
RegisterTwice(principal, stake, config) ==
  /\ stake >= config.minStakeAmount
  /\ Len(auditors) <= 2
  /\ auditors' = <<[ id |-> principal, status |-> "Active", reputation |-> 500,
                     slashCount |-> 0, stakedAmount |-> stake ]>> \o auditors
  /\ deposited' = [deposited EXCEPT ![principal] = stake]
  /\ UNCHANGED slashedAmount

registerAuditor(principal, stake, config) ==
  /\ stake >= config.minStakeAmount
  /\ findAuditor(principal) = 0
  /\ auditors' = <<[ id |-> principal, status |-> "Active", reputation |-> 500,
                     slashCount |-> 0, stakedAmount |-> stake ]>> \o auditors
  /\ deposited' = [deposited EXCEPT ![principal] = stake]
  /\ UNCHANGED slashedAmount

(* Reputation stays within 0..1000.                                        *)
adjusted(reputation, delta) ==
  IF delta >= 0
  THEN IF reputation + delta > 1000 THEN 1000 ELSE reputation + delta
  ELSE IF -delta > reputation THEN 0 ELSE reputation + delta

updateReputation(aid, delta) ==
  LET k == findAuditor(aid)
  IN  /\ k # 0
      /\ auditors' = updateAuditor(aid,
           [auditors[k] EXCEPT !.reputation = adjusted(@, delta)])
      /\ UNCHANGED <<deposited, slashedAmount>>

(* Mutated form: what remains is computed on its own, and rounded down too.*)
SlashRoundsTwice(aid, config) ==
  LET k == findAuditor(aid)
      slashAmount == (auditors[k].stakedAmount * config.slashPercentage) \div 100
  IN  /\ k # 0
      /\ auditors[k].slashCount < MaxSlashes
      /\ auditors' = updateAuditor(aid,
           [auditors[k] EXCEPT !.status = "Slashed",
                               !.stakedAmount =
                                 (@ * (100 - config.slashPercentage)) \div 100,
                               !.slashCount = @ + 1])
      /\ slashedAmount' = [slashedAmount EXCEPT ![aid] = @ + slashAmount]
      /\ UNCHANGED deposited

(* Whatever the status was, it is Slashed afterwards.                      *)
slashAuditor(aid, config) ==
  LET k == findAuditor(aid)
      slashAmount == (auditors[k].stakedAmount * config.slashPercentage) \div 100
  IN  /\ k # 0
      /\ auditors[k].slashCount < MaxSlashes
      /\ auditors' = updateAuditor(aid,
           [auditors[k] EXCEPT !.status = "Slashed",
                               !.stakedAmount = @ - slashAmount,
                               !.slashCount = @ + 1])
      /\ slashedAmount' = [slashedAmount EXCEPT ![aid] = @ + slashAmount]
      /\ UNCHANGED deposited

(* Whatever the status was, it is Suspended afterwards.                    *)
suspendAuditor(aid) ==
  LET k == findAuditor(aid)
  IN  /\ k # 0
      /\ auditors' = updateAuditor(aid, [auditors[k] EXCEPT !.status = "Suspended"])
      /\ UNCHANGED <<deposited, slashedAmount>>

(* Fails on a slashed auditor and leaves an active one as it is.           *)
reactivateAuditor(aid) ==
  LET k == findAuditor(aid)
  IN  /\ k # 0
      /\ auditors[k].status \in {"Suspended", "Inactive"}
      /\ auditors' = updateAuditor(aid, [auditors[k] EXCEPT !.status = "Active"])
      /\ UNCHANGED <<deposited, slashedAmount>>

Register == \E p \in Principals, stake \in Stakes, config \in PoolConfigs :
              registerAuditor(p, stake, config)
Reputation == \E aid \in Principals, d \in Deltas : updateReputation(aid, d)
Slash == \E aid \in Principals, config \in PoolConfigs : slashAuditor(aid, config)
Suspend == \E aid \in Principals : suspendAuditor(aid)
Reactivate == \E aid \in Principals : reactivateAuditor(aid)

PoolNext == Register \/ Reputation \/ Slash \/ Suspend \/ Reactivate

PoolSpec == PoolInit /\ [][PoolNext]_poolVars

---------------------------------------------------------------------------
(* Selection.  A filtered or sorted list is the set of the positions that  *)
(* its auditors have in the pool.                                          *)

(* Mutated form: the status is not looked at.                              *)
ReputableAuditors(minReputation) ==
  { k \in DOMAIN auditors : auditors[k].reputation >= minReputation }

getActiveAuditors(minReputation) ==
  { k \in DOMAIN auditors : /\ auditors[k].status = "Active"
                            /\ auditors[k].reputation >= minReputation }

(* The n-th of a set of positions, in the order of the pool.               *)
nth(positions, n) ==
  CHOOSE k \in positions : Cardinality({ j \in positions : j <= k }) = n

(* What a criterion sorts by, best first.                                  *)
merit(a, criteria) ==
  CASE criteria = "ByReputation"   -> a.reputation
    [] criteria = "ByAvailability" -> 0
    [] criteria = "Weighted"       -> a.reputation * a.stakedAmount

(* The auditors the head of the sorted list can be; which of several equal *)
(* ones it is depends on the library's sort.                               *)
best(active, criteria) ==
  { k \in active : \A j \in active :
      merit(auditors[k], criteria) >= merit(auditors[j], criteria) }

(* selectMultipleAuditors: count calls of selectAuditor on the same list.  *)
(* Random moves on by one each time; every other criterion gives the same  *)
(* answer count times.                                                     *)
selections(active, criteria, count, seed) ==
  IF criteria = "Random"
  THEN { [ i \in 1..count |->
             auditors[nth(active, ((seed + i - 1) % Cardinality(active)) + 1)].id ] }
  ELSE { [i \in 1..count |-> auditors[k].id] : k \in best(active, criteria) }

(* The requests of requestFromRisk, and a randomised one, which only a     *)
(* caller of autoAssignAuditors can make.                                  *)
AssignmentRequests ==
  { [auditorCount |-> 5, selectionCriteria |-> "ByReputation",   minReputation |-> 800],
    [auditorCount |-> 3, selectionCriteria |-> "ByReputation",   minReputation |-> 700],
    [auditorCount |-> 2, selectionCriteria |-> "Weighted",       minReputation |-> 500],
    [auditorCount |-> 1, selectionCriteria |-> "ByAvailability", minReputation |-> 400],
    [auditorCount |-> 2, selectionCriteria |-> "Random",         minReputation |-> 500] }

(* The lists autoAssignAuditors may answer request with at time seed; none *)
(* when nobody is available.                                               *)
autoAssignAuditors(request, seed) ==
  LET active == getActiveAuditors(request.minReputation)
      available == Cardinality(active)
      toSelect == IF request.auditorCount < available
                  THEN request.auditorCount ELSE available
  IN  IF available = 0 THEN {}
      ELSE selections(active, request.selectionCriteria, toSelect, seed)

---------------------------------------------------------------------------
(* Properties                                                              *)

(* No token of a stake is lost or made by slashing: what an auditor still  *)
(* has staked and what was reported as slashed make up the deposit.        *)
StakeAccounted ==
  \A i \in DOMAIN auditors :
    auditors[i].stakedAmount + slashedAmount[auditors[i].id] = deposited[auditors[i].id]

(* "Slashed auditor cannot be reactivated": an auditor that was ever       *)
(* slashed is never Active again.                                          *)
SlashedNeverActive ==
  \A i \in DOMAIN auditors :
    auditors[i].slashCount > 0 => auditors[i].status # "Active"
=============================================================================
