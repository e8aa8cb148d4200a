-------------------------- MODULE AuditVotingProofs -------------------------
(***************************************************************************)
(* Theorems about the pool of auditors and the vote of those assigned from *)
(* it, for any principals, stakes, thresholds and times.                   *)
(***************************************************************************)
EXTENDS AuditVoting, FiniteSetTheorems, FunctionTheorems, TLAPS

---------------------------------------------------------------------------
(* Positions.                                                              *)

(* Counting the positions up to each tells the positions of a finite set   *)
(* of naturals apart, so the counts from 1 to its size all occur.          *)
LEMMA NthProperties ==
  ASSUME NEW K \in SUBSET Nat, IsFiniteSet(K), NEW n \in 1..Cardinality(K)
  PROVE  nth(K, n) \in K
<1> DEFINE upto(k) == { j \in K : j <= k }
           rank == [k \in K |-> Cardinality(upto(k))]
           N == Cardinality(K)
<1>1. N \in Nat /\ IsFiniteSet(1..N) /\ Cardinality(1..N) = N
  BY FS_CardinalityType, FS_Interval
<1>2. ASSUME NEW k \in K
      PROVE  /\ IsFiniteSet(upto(k)) /\ Cardinality(upto(k)) \in 1..N
             /\ rank[k] = Cardinality(upto(k))
  <2>1. upto(k) \in SUBSET K /\ k \in upto(k)
    OBVIOUS
  <2>2. IsFiniteSet(upto(k)) /\ Cardinality(upto(k)) <= N
    BY <2>1, FS_Subset
  <2>3. Cardinality(upto(k)) \in Nat /\ Cardinality(upto(k)) # 0
    BY <2>1, <2>2, FS_CardinalityType, FS_EmptySet
  <2> HIDE DEF upto, N
  <2>4. Cardinality(upto(k)) \in 1..N
    BY <1>1, <2>2, <2>3
  <2> QED BY <2>2, <2>4
<1>3. rank \in [K -> 1..N]
  BY <1>2
<1>4. ASSUME NEW j \in K, NEW k \in K, j < k
      PROVE  rank[j] # rank[k]
  <2>0. j \in Nat /\ k \in Nat /\ \A i \in K : i \in Nat
    OBVIOUS
  <2>1. upto(j) \in SUBSET upto(k) /\ k \in upto(k) /\ k \notin upto(j)
    <3>1. \A i \in K : i <= j => i <= k
      BY <1>4, <2>0
    <3>2. k <= k /\ ~ (k <= j)
      BY <1>4, <2>0
    <3> QED BY <3>1, <3>2, Zenon
  <2>2. Cardinality(upto(j)) # Cardinality(upto(k))
    <3> HIDE DEF upto
    <3> QED BY <1>2, <2>1, FS_Subset
  <2> QED BY <1>2, <2>2
<1>5. ASSUME NEW j \in K, NEW k \in K, rank[j] = rank[k]
      PROVE  j = k
  BY <1>4, <1>5
<1> HIDE DEF rank
<1>6. rank \in Injection(K, 1..N)
  BY <1>3, <1>5, Fun_IsInj
<1>7. rank \in Surjection(K, 1..N)
  BY <1>1, <1>6, FS_Injection
<1>8. PICK k \in K : rank[k] = n
  BY <1>7, Fun_IsSurj DEF Surjection
<1>9. Cardinality({ j \in K : j <= k }) = n
  BY <1>2, <1>8
<1> QED BY <1>9 DEF nth

LEMMA ActivePositions ==
  ASSUME PoolTypeOK, NEW r
  PROVE  /\ getActiveAuditors(r) \in SUBSET (1..Len(auditors))
         /\ getActiveAuditors(r) \in SUBSET Nat
         /\ IsFiniteSet(getActiveAuditors(r))
<1>1. Len(auditors) \in Nat /\ DOMAIN auditors = 1..Len(auditors)
  BY DEF PoolTypeOK
<1>2. getActiveAuditors(r) \in SUBSET (1..Len(auditors))
  BY <1>1 DEF getActiveAuditors
<1>3. IsFiniteSet(1..Len(auditors))
  BY <1>1, FS_Interval
<1>4. (1..Len(auditors)) \in SUBSET Nat
  BY <1>1
<1> HIDE DEF getActiveAuditors
<1> QED BY <1>2, <1>3, <1>4, FS_Subset

(* What automatic assignment answers: as many ids as it selects, each of   *)
(* an auditor that is active and has the reputation asked for.             *)
LEMMA AssignedFromActive ==
  ASSUME PoolTypeOK, NEW request \in AssignmentRequests, NEW seed \in Nat,
         NEW chosen \in autoAssignAuditors(request, seed)
  PROVE  /\ chosen \in Seq(Principals)
         /\ \A i \in DOMAIN chosen :
              \E k \in getActiveAuditors(request.minReputation) : auditors[k].id = chosen[i]
<1> DEFINE K == getActiveAuditors(request.minReputation)
           N == Cardinality(K)
           c == request.auditorCount
           n == IF c < N THEN c ELSE N
<1>1. K \in SUBSET (1..Len(auditors)) /\ K \in SUBSET Nat /\ IsFiniteSet(K)
  BY ActivePositions
<1>2. N \in Nat /\ N # 0 /\ chosen \in selections(K, request.selectionCriteria, n, seed)
  BY <1>1, FS_CardinalityType DEF autoAssignAuditors
<1>3. c \in Nat
  BY DEF AssignmentRequests
<1>4. n \in Nat
  BY <1>2, <1>3
<1>5. \A k \in K : auditors[k].id \in Principals
  <2>1. \A k \in 1..Len(auditors) : auditors[k].id \in Principals
    <3>1. \A k \in 1..Len(auditors) : auditors[k] \in Auditor
      BY DEF PoolTypeOK
    <3> QED BY <3>1 DEF Auditor
  <2> HIDE DEF K
  <2> QED BY <1>1, <2>1
<1> HIDE DEF K, N, n, c
<1>6. CASE request.selectionCriteria = "Random"
  <2> DEFINE pos(i) == ((seed + i - 1) % N) + 1
  <2>1. chosen = [i \in 1..n |-> auditors[nth(K, pos(i))].id]
    BY <1>2, <1>6 DEF selections, N
  <2>2. ASSUME NEW i \in 1..n
        PROVE  nth(K, pos(i)) \in K
    <3>1. pos(i) \in 1..N
      BY <1>2, <1>4
    <3> QED BY <1>1, <3>1, NthProperties DEF N
  <2> HIDE DEF pos
  <2>3. chosen \in [1..n -> Principals]
    BY <1>5, <2>1, <2>2
  <2> QED BY <1>4, <2>1, <2>2, <2>3 DEF K
<1>7. CASE request.selectionCriteria # "Random"
  <2>1. PICK k \in best(K, request.selectionCriteria) : chosen = [i \in 1..n |-> auditors[k].id]
    BY <1>2, <1>7 DEF selections
  <2>2. k \in K
    BY DEF best
  <2>3. chosen \in [1..n -> Principals]
    BY <1>5, <2>1, <2>2
  <2> QED BY <1>4, <2>1, <2>2, <2>3 DEF K
<1> QED BY <1>6, <1>7

---------------------------------------------------------------------------
(* The pool.                                                               *)

(* Nothing was slashed from a principal that is not registered.            *)
SlashedRegistered ==
  \A p \in Principals :
    (\A i \in DOMAIN auditors : auditors[i].id # p) => slashedAmount[p] = 0

PoolInv == PoolTypeOK /\ StakeAccounted /\ SlashedRegistered

(* The lookup answers the position of the auditor, or 0 if there is none.  *)
LEMMA FindAuditorProperties ==
  ASSUME PoolTypeOK, NEW aid
  PROVE  /\ findAuditor(aid) \in 0..Len(auditors)
         /\ findAuditor(aid) # 0 => auditors[findAuditor(aid)].id = aid
         /\ findAuditor(aid) = 0 => \A i \in DOMAIN auditors : auditors[i].id # aid
<1> DEFINE I == { i \in 1..Len(auditors) : auditors[i].id = aid }
<1>1. findAuditor(aid) = IF I # {} THEN Min(I) ELSE 0
  BY DEF findAuditor, SelectInSeq
<1>2. Len(auditors) \in Nat /\ DOMAIN auditors = 1..Len(auditors)
  BY DEF PoolTypeOK
<1>3. CASE I = {}
  BY <1>1, <1>2, <1>3
<1>4. CASE I # {}
  <2>1. PICK k : k \in I
    BY <1>4
  <2>2. \A i \in I : i = k
    BY <1>2, <2>1 DEF PoolTypeOK
  <2>3. k \in Nat /\ k # 0
    BY <1>2, <2>1
  <2> HIDE DEF I
  <2>4. I = {k}
    BY <2>1, <2>2
  <2>5. Min(I) = k
    BY <2>3, <2>4 DEF Min
  <2> QED BY <1>1, <1>2, <1>4, <2>1, <2>3, <2>5 DEF I
<1> QED BY <1>3, <1>4

(* A rewrite of one auditor that keeps its id and the sum of what is       *)
(* staked and slashed.                                                     *)
LEMMA RewriteKeeps ==
  ASSUME PoolInv, NEW aid \in Principals, NEW k, k = findAuditor(aid), k # 0,
         NEW a \in Auditor, a.id = aid,
         auditors' = updateAuditor(aid, a), deposited' = deposited,
         slashedAmount' \in [Principals -> Nat],
         \A p \in Principals : p # aid => slashedAmount'[p] = slashedAmount[p],
         a.stakedAmount + slashedAmount'[aid]
           = auditors[k].stakedAmount + slashedAmount[aid]
  PROVE  PoolInv'
<1>1. /\ PoolTypeOK
      /\ Len(auditors) \in Nat /\ DOMAIN auditors = 1..Len(auditors)
      /\ \A i \in DOMAIN auditors : auditors[i] \in Auditor
      /\ \A i, j \in DOMAIN auditors : auditors[i].id = auditors[j].id => i = j
  BY DEF PoolInv, PoolTypeOK
<1>2. k \in DOMAIN auditors /\ auditors[k].id = aid
  BY <1>1, FindAuditorProperties
<1>3. \A i \in DOMAIN auditors : auditors[i].id = aid <=> i = k
  BY <1>1, <1>2
<1>4. /\ DOMAIN auditors' = DOMAIN auditors
      /\ auditors' \in Seq(Auditor)
      /\ \A i \in DOMAIN auditors : auditors'[i] = IF i = k THEN a ELSE auditors[i]
  BY <1>1, <1>3 DEF updateAuditor
<1>5. \A i \in DOMAIN auditors : auditors'[i].id = auditors[i].id
  BY <1>2, <1>4
<1>6. PoolTypeOK'
  BY <1>1, <1>4, <1>5 DEF PoolTypeOK, PoolInv
<1>7. StakeAccounted'
  <2> SUFFICES ASSUME NEW i \in DOMAIN auditors
               PROVE  auditors'[i].stakedAmount + slashedAmount'[auditors'[i].id]
                        = deposited[auditors'[i].id]
    BY <1>4 DEF StakeAccounted
  <2>1. auditors[i].stakedAmount + slashedAmount[auditors[i].id] = deposited[auditors[i].id]
    BY DEF PoolInv, StakeAccounted
  <2>2. CASE i = k
    BY <1>2, <1>4, <2>1, <2>2
  <2>3. CASE i # k
    <3>1. auditors'[i] = auditors[i] /\ auditors[i].id # aid
      BY <1>3, <1>4, <2>3
    <3>2. auditors[i].id \in Principals
      BY <1>1 DEF Auditor
    <3> QED BY <2>1, <3>1, <3>2
  <2> QED BY <2>2, <2>3
<1>8. SlashedRegistered'
  <2> SUFFICES ASSUME NEW p \in Principals,
                      \A i \in DOMAIN auditors : auditors[i].id # p
               PROVE  slashedAmount'[p] = 0
    BY <1>4, <1>5 DEF SlashedRegistered
  <2> QED BY <1>2 DEF PoolInv, SlashedRegistered
<1> QED BY <1>6, <1>7, <1>8 DEF PoolInv

LEMMA PoolInitEstablishes == PoolInit => PoolInv
  BY DEF PoolInit, PoolInv, PoolTypeOK, StakeAccounted, SlashedRegistered

LEMMA RegisterKeeps ==
  ASSUME PoolInv, NEW p \in Principals, NEW stake \in Stakes, NEW config,
         registerAuditor(p, stake, config)
  PROVE  PoolInv'
<1> DEFINE new == [ id |-> p, status |-> "Active", reputation |-> 500,
                    slashCount |-> 0, stakedAmount |-> stake ]
           n == Len(auditors)
<1>1. stake \in Nat
  BY PoolBounds
<1>2. new \in Auditor /\ new.id = p /\ new.stakedAmount = stake
  BY <1>1 DEF Auditor, AuditorStatus
<1>3. /\ auditors \in Seq(Auditor) /\ n \in Nat /\ DOMAIN auditors = 1..n
      /\ \A i \in 1..n : auditors[i] \in Auditor
      /\ \A i, j \in 1..n : auditors[i].id = auditors[j].id => i = j
      /\ deposited \in [Principals -> Nat] /\ slashedAmount \in [Principals -> Nat]
  BY DEF PoolInv, PoolTypeOK
<1>4. \A i \in 1..n : auditors[i].id # p
  BY <1>3, FindAuditorProperties DEF registerAuditor, PoolInv
<1>5. /\ auditors' = <<new>> \o auditors
      /\ deposited' = [deposited EXCEPT ![p] = stake]
      /\ slashedAmount' = slashedAmount
  BY DEF registerAuditor
<1> HIDE DEF new, n
<1>6. /\ auditors' \in Seq(Auditor)
      /\ DOMAIN auditors' = 1..(n + 1)
      /\ auditors'[1] = new
      /\ \A i \in 2..(n + 1) : i - 1 \in 1..n /\ auditors'[i] = auditors[i - 1]
  BY <1>2, <1>3, <1>5 DEF n
<1>7. \A i \in 1..(n + 1) : i = 1 \/ i \in 2..(n + 1)
  BY <1>3
<1>8. PoolTypeOK'
  <2>1. deposited' \in [Principals -> Nat]
    BY <1>1, <1>3, <1>5
  <2>2. ASSUME NEW i \in 1..(n + 1), NEW j \in 1..(n + 1), auditors'[i].id = auditors'[j].id
        PROVE  i = j
    <3>1. CASE i = 1 /\ j # 1
      BY <1>2, <1>4, <1>6, <1>7, <2>2, <3>1
    <3>2. CASE i # 1 /\ j = 1
      BY <1>2, <1>4, <1>6, <1>7, <2>2, <3>2
    <3>3. CASE i # 1 /\ j # 1
      <4>1. i - 1 = j - 1
        BY <1>3, <1>6, <1>7, <2>2, <3>3
      <4> QED BY <1>3, <4>1
    <3> QED BY <3>1, <3>2, <3>3
  <2> QED BY <1>3, <1>5, <1>6, <2>1, <2>2 DEF PoolTypeOK
<1>9. StakeAccounted'
  <2> SUFFICES ASSUME NEW i \in 1..(n + 1)
               PROVE  auditors'[i].stakedAmount + slashedAmount[auditors'[i].id]
                        = deposited'[auditors'[i].id]
    BY <1>5, <1>6 DEF StakeAccounted
  <2>1. CASE i = 1
    <3>1. slashedAmount[p] = 0
      BY <1>3, <1>4 DEF PoolInv, SlashedRegistered
    <3>2. deposited'[p] = stake
      BY <1>3, <1>5
    <3> QED BY <1>1, <1>2, <1>6, <2>1, <3>1, <3>2
  <2>2. CASE i # 1
    <3>1. i - 1 \in 1..n /\ auditors'[i] = auditors[i - 1]
      BY <1>6, <1>7, <2>2
    <3>2. deposited'[auditors[i - 1].id] = deposited[auditors[i - 1].id]
      BY <1>3, <1>4, <1>5, <3>1
    <3> QED BY <1>3, <3>1, <3>2 DEF PoolInv, StakeAccounted
  <2> QED BY <2>1, <2>2
<1>10. SlashedRegistered'
  <2> SUFFICES ASSUME NEW q \in Principals,
                      \A i \in 1..(n + 1) : auditors'[i].id # q
               PROVE  slashedAmount[q] = 0
    BY <1>5, <1>6 DEF SlashedRegistered
  <2>1. \A i \in 1..n : i + 1 \in 2..(n + 1) /\ i + 1 \in 1..(n + 1) /\ (i + 1) - 1 = i
    BY <1>3
  <2>2. \A i \in 1..n : auditors[i].id # q
    BY <1>6, <2>1
  <2> QED BY <1>3, <2>2 DEF PoolInv, SlashedRegistered
<1> QED BY <1>8, <1>9, <1>10 DEF PoolInv

(* The auditor that a handler looked up.                                   *)
LEMMA Found ==
  ASSUME PoolInv, NEW aid \in Principals, findAuditor(aid) # 0
  PROVE  /\ auditors[findAuditor(aid)] \in Auditor
         /\ auditors[findAuditor(aid)].id = aid
<1>1. PoolTypeOK /\ Len(auditors) \in Nat
  BY DEF PoolInv, PoolTypeOK
<1>2. findAuditor(aid) \in 1..Len(auditors) /\ auditors[findAuditor(aid)].id = aid
  BY <1>1, FindAuditorProperties
<1> QED BY <1>1, <1>2 DEF PoolTypeOK

(* A rewrite that touches neither the id nor the stake.                    *)
LEMMA StakeUntouched ==
  ASSUME PoolInv, NEW aid \in Principals, findAuditor(aid) # 0,
         NEW a \in Auditor, a.id = aid,
         a.stakedAmount = auditors[findAuditor(aid)].stakedAmount,
         auditors' = updateAuditor(aid, a), UNCHANGED <<deposited, slashedAmount>>
  PROVE  PoolInv'
<1>1. slashedAmount' \in [Principals -> Nat]
  BY DEF PoolInv, PoolTypeOK
<1> QED BY <1>1, RewriteKeeps

LEMMA ReputationKeeps ==
  ASSUME PoolInv, NEW aid \in Principals, NEW delta \in Deltas, updateReputation(aid, delta)
  PROVE  PoolInv'
<1> DEFINE a == auditors[findAuditor(aid)]
           r == adjusted(a.reputation, delta)
<1>1. findAuditor(aid) # 0 /\ auditors' = updateAuditor(aid, [a EXCEPT !.reputation = r])
  BY DEF updateReputation
<1>2. a \in Auditor /\ a.id = aid
  BY <1>1, Found
<1>3. delta \in Int /\ a.reputation \in Nat
  BY <1>2, PoolBounds DEF Auditor
<1> HIDE DEF a
<1>4. r \in Nat
  BY <1>3 DEF adjusted
<1> HIDE DEF r
<1>5. /\ [a EXCEPT !.reputation = r] \in Auditor
      /\ [a EXCEPT !.reputation = r].id = aid
      /\ [a EXCEPT !.reputation = r].stakedAmount = a.stakedAmount
  BY <1>2, <1>4 DEF Auditor
<1> QED BY <1>1, <1>5, StakeUntouched DEF updateReputation, a

LEMMA StatusKeeps ==
  ASSUME PoolInv, NEW aid \in Principals, findAuditor(aid) # 0,
         NEW status \in AuditorStatus,
         auditors' = updateAuditor(aid, [auditors[findAuditor(aid)] EXCEPT !.status = status]),
         UNCHANGED <<deposited, slashedAmount>>
  PROVE  PoolInv'
<1> DEFINE a == auditors[findAuditor(aid)]
<1>1. a \in Auditor /\ a.id = aid
  BY Found
<1> HIDE DEF a
<1>2. /\ [a EXCEPT !.status = status] \in Auditor
      /\ [a EXCEPT !.status = status].id = aid
      /\ [a EXCEPT !.status = status].stakedAmount = a.stakedAmount
  BY <1>1 DEF Auditor
<1> QED BY <1>2, StakeUntouched DEF a

LEMMA ScaledDown ==
  ASSUME NEW n \in Nat, NEW p \in 0..100
  PROVE  n * p \in Nat /\ n * p <= n * 100
<1>1. n * 100 = n * p + n * (100 - p)
  OBVIOUS
<1>2. n * p \in Nat /\ n * (100 - p) \in Nat
  OBVIOUS
<1> QED BY <1>1, <1>2

(* What slashing takes it takes from the stake, and no more than there is. *)
LEMMA SlashKeeps ==
  ASSUME PoolInv, NEW aid \in Principals, NEW config \in PoolConfigs,
         slashAuditor(aid, config)
  PROVE  PoolInv'
<1> DEFINE a == auditors[findAuditor(aid)]
           percentage == config.slashPercentage
           amount == (a.stakedAmount * percentage) \div 100
           new == [a EXCEPT !.status = "Slashed", !.stakedAmount = @ - amount,
                            !.slashCount = @ + 1]
<1>1. /\ findAuditor(aid) # 0
      /\ auditors' = updateAuditor(aid, new)
      /\ slashedAmount' = [slashedAmount EXCEPT ![aid] = @ + amount]
      /\ deposited' = deposited
  BY DEF slashAuditor
<1>2. a \in Auditor /\ a.id = aid
  BY <1>1, Found
<1>3. a.stakedAmount \in Nat /\ a.slashCount \in Nat /\ slashedAmount[aid] \in Nat
  BY <1>2 DEF Auditor, PoolInv, PoolTypeOK
<1>a. percentage \in 0..100
  BY PoolBounds DEF PoolConfig
<1> HIDE DEF a, percentage
<1>4. amount \in Nat /\ amount <= a.stakedAmount
  <2>1. /\ a.stakedAmount * percentage \in Nat
        /\ a.stakedAmount * percentage <= a.stakedAmount * 100
    BY <1>3, <1>a, ScaledDown
  <2> QED BY <1>3, <2>1
<1> HIDE DEF amount
<1>5. a.stakedAmount - amount \in Nat /\ a.slashCount + 1 \in Nat
  BY <1>3, <1>4
<1>6. new \in Auditor /\ new.id = aid /\ new.stakedAmount = a.stakedAmount - amount
  BY <1>2, <1>5 DEF Auditor, AuditorStatus
<1> HIDE DEF new
<1>7. /\ slashedAmount' \in [Principals -> Nat]
      /\ slashedAmount'[aid] = slashedAmount[aid] + amount
      /\ \A p \in Principals : p # aid => slashedAmount'[p] = slashedAmount[p]
  BY <1>1, <1>3, <1>4 DEF PoolInv, PoolTypeOK
<1>8. new.stakedAmount + slashedAmount'[aid] = a.stakedAmount + slashedAmount[aid]
  BY <1>3, <1>4, <1>6, <1>7
<1> QED BY <1>1, <1>6, <1>7, <1>8, RewriteKeeps DEF a

LEMMA PoolNextKeeps == PoolInv /\ [PoolNext]_poolVars => PoolInv'
<1> SUFFICES ASSUME PoolInv, [PoolNext]_poolVars PROVE PoolInv'
  OBVIOUS
<1>1. CASE Register
  BY <1>1, RegisterKeeps DEF Register
<1>2. CASE Reputation
  BY <1>2, ReputationKeeps DEF Reputation
<1>3. CASE Slash
  BY <1>3, SlashKeeps DEF Slash
<1>4. CASE Suspend
  BY <1>4, StatusKeeps DEF Suspend, suspendAuditor, AuditorStatus
<1>5. CASE Reactivate
  BY <1>5, StatusKeeps DEF Reactivate, reactivateAuditor, AuditorStatus
<1>6. CASE UNCHANGED poolVars
  BY <1>6 DEF poolVars, PoolInv, PoolTypeOK, StakeAccounted, SlashedRegistered
<1> QED BY <1>1, <1>2, <1>3, <1>4, <1>5, <1>6 DEF PoolNext

---------------------------------------------------------------------------
(* The vote.                                                               *)

(* A vote in which s is recorded by time t: each vote is of an assigned    *)
(* auditor who has no other, and in the past.                              *)
Explained(s, t) ==
  /\ \A i \in DOMAIN s.votes :
       /\ \E j \in DOMAIN s.assignedIds : s.assignedIds[j] = s.votes[i].auditorId
       /\ s.votes[i].timestamp <= t
  /\ \A i, j \in DOMAIN s.votes : s.votes[i].auditorId = s.votes[j].auditorId => i = j

(* VotersFor and the two properties of the results, of any vote s.         *)
VotersIn(s, d) ==
  { s.votes[i].auditorId : i \in { k \in DOMAIN s.votes : s.votes[k].decision = d } }

AssignedIn(s) == { s.assignedIds[i] : i \in DOMAIN s.assignedIds }

Sound(s) ==
  s.result = "ApprovalReached" =>
    /\ Cardinality(VotersIn(s, "Approve")) >= s.requiredApprovals
    /\ \A aid \in VotersIn(s, "Approve") :
         \E i \in DOMAIN s.assignedIds : s.assignedIds[i] = aid
    /\ \A i \in DOMAIN s.votes : s.votes[i].timestamp <= s.startedAt + VotingPeriod

Hopeless(s) ==
  s.result = "RejectionReached" =>
    Cardinality(AssignedIn(s) \ VotersIn(s, "Reject")) < s.requiredApprovals

VoteInv(s, t) ==
  /\ s \in ProposalVoteState /\ t \in Nat
  /\ Explained(s, t) /\ Sound(s) /\ Hopeless(s)

VotingInv == PoolInv /\ VoteInv(voteState, now)

(* There are no more votes than seats, for the voters are different.       *)
LEMMA VotesWithinSeats ==
  ASSUME NEW s \in ProposalVoteState, NEW t, Explained(s, t)
  PROVE  Len(s.votes) <= Len(s.assignedIds)
<1> DEFINE n == Len(s.votes)
           m == Len(s.assignedIds)
           seat == [i \in 1..n |-> CHOOSE j \in 1..m : s.assignedIds[j] = s.votes[i].auditorId]
<1>1. /\ n \in Nat /\ m \in Nat
      /\ DOMAIN s.votes = 1..n /\ DOMAIN s.assignedIds = 1..m
  BY DEF ProposalVoteState
<1>2. ASSUME NEW i \in 1..n
      PROVE  seat[i] \in 1..m /\ s.assignedIds[seat[i]] = s.votes[i].auditorId
  BY <1>1 DEF Explained
<1>3. seat \in [1..n -> 1..m]
  BY <1>2
<1> HIDE DEF seat
<1>4. ASSUME NEW i \in 1..n, NEW j \in 1..n, seat[i] = seat[j]
      PROVE  i = j
  <2>1. s.votes[i].auditorId = s.votes[j].auditorId
    BY <1>2, <1>4
  <2> QED BY <1>1, <2>1 DEF Explained
<1> HIDE DEF n, m
<1>5. seat \in Injection(1..n, 1..m)
  BY <1>3, <1>4, Fun_IsInj
<1>6. n <= m
  BY <1>1, <1>5, Fun_NatInjLeq DEF ExistsInjection
<1> QED BY <1>6 DEF n, m

(* A decision was voted for by as many auditors as there are such votes.   *)
LEMMA VotersCounted ==
  ASSUME NEW s \in ProposalVoteState, NEW t, Explained(s, t), NEW d
  PROVE  /\ IsFiniteSet(VotersIn(s, d))
         /\ Cardinality(VotersIn(s, d)) = countOf(s, d)
         /\ countOf(s, d) \in Nat
<1> DEFINE K == { k \in DOMAIN s.votes : s.votes[k].decision = d }
           f == [k \in K |-> s.votes[k].auditorId]
           T == VotersIn(s, d)
<1>1. IsFiniteSet(K)
  <2>1. Len(s.votes) \in Nat /\ DOMAIN s.votes = 1..Len(s.votes)
    BY DEF ProposalVoteState
  <2>2. IsFiniteSet(1..Len(s.votes)) /\ K \in SUBSET (1..Len(s.votes))
    BY <2>1, FS_Interval
  <2> QED BY <2>2, FS_Subset
<1>2. f \in [K -> T] /\ \A k \in K : f[k] = s.votes[k].auditorId
  BY DEF VotersIn
<1>3. \A x \in T : \E k \in K : f[k] = x
  BY DEF VotersIn
<1>4. \A j, k \in K : f[j] = f[k] => j = k
  BY <1>2 DEF Explained
<1>5. countOf(s, d) = Cardinality(K)
  BY DEF countOf
<1> HIDE DEF K, f, T
<1>6. f \in Bijection(K, T)
  BY <1>2, <1>3, <1>4, Fun_IsBij
<1>7. IsFiniteSet(T) /\ Cardinality(T) = Cardinality(K) /\ Cardinality(K) \in Nat
  BY <1>1, <1>6, FS_Bijection, FS_CardinalityType DEF ExistsBijection
<1> QED BY <1>5, <1>7 DEF T

(* No more different auditors are assigned than the list has places.       *)
LEMMA AssignedCounted ==
  ASSUME NEW s \in ProposalVoteState
  PROVE  /\ IsFiniteSet(AssignedIn(s))
         /\ Cardinality(AssignedIn(s)) <= Len(s.assignedIds)
<1> DEFINE m == Len(s.assignedIds)
           A == AssignedIn(s)
           f == [i \in 1..m |-> s.assignedIds[i]]
<1>1. m \in Nat /\ DOMAIN s.assignedIds = 1..m
  BY DEF ProposalVoteState
<1>2. f \in [1..m -> A] /\ \A a \in A : \E i \in 1..m : f[i] = a
  BY <1>1 DEF AssignedIn
<1>3. IsFiniteSet(1..m) /\ Cardinality(1..m) = m
  BY <1>1, FS_Interval
<1> HIDE DEF m, A, f
<1>4. f \in Surjection(1..m, A)
  BY <1>2, Fun_IsSurj
<1>5. IsFiniteSet(A) /\ Cardinality(A) <= m
  BY <1>3, <1>4, FS_Surjection
<1> QED BY <1>5 DEF A, m

(* The results that checkThreshold gives are sound, whatever the votes.    *)
LEMMA ThresholdSound ==
  ASSUME NEW s \in ProposalVoteState, NEW t \in Nat, Explained(s, t),
         s.result = checkThreshold(s, t)
  PROVE  Sound(s) /\ Hopeless(s)
<1> DEFINE a == countOf(s, "Approve")
           r == countOf(s, "Reject")
           m == Len(s.assignedIds)
           q == s.requiredApprovals
           A == AssignedIn(s)
           R == VotersIn(s, "Reject")
<1>1. a \in Nat /\ r \in Nat /\ m \in Nat /\ q \in Nat /\ s.startedAt \in Nat
  BY VotersCounted DEF ProposalVoteState
<1>2. Sound(s)
  <2> SUFFICES ASSUME s.result = "ApprovalReached" PROVE Sound(s)
    BY DEF Sound
  <2>1. t <= s.startedAt + VotingPeriod /\ a >= q
    BY <1>1, VotingBounds DEF checkThreshold
  <2>2. Cardinality(VotersIn(s, "Approve")) >= q
    BY <2>1, VotersCounted
  <2>3. ASSUME NEW i \in DOMAIN s.votes
        PROVE  s.votes[i].timestamp <= s.startedAt + VotingPeriod
    <3>1. s.votes[i].timestamp <= t /\ s.votes[i].timestamp \in Nat
      <4>1. s.votes[i] \in Vote
        BY DEF ProposalVoteState
      <4> QED BY <4>1 DEF Explained, Vote
    <3> QED BY <1>1, <2>1, <3>1, VotingBounds
  <2> QED BY <2>2, <2>3 DEF Sound, Explained, VotersIn
<1>3. Hopeless(s)
  <2> SUFFICES ASSUME s.result = "RejectionReached" PROVE Cardinality(A \ R) < q
    BY DEF Hopeless
  <2>1. m - r < q
    BY <1>1, VotingBounds DEF checkThreshold
  <2>2. R \subseteq A
    BY DEF VotersIn, AssignedIn, Explained
  <2>3. /\ IsFiniteSet(A) /\ Cardinality(A) <= m /\ Cardinality(R) = r
        /\ Cardinality(A) \in Nat
    BY AssignedCounted, VotersCounted, FS_CardinalityType
  <2> HIDE DEF A, R
  <2>4. Cardinality(A \ R) = Cardinality(A) - Cardinality(A \cap R)
    BY <2>3, FS_Difference
  <2>5. A \cap R = R
    BY <2>2
  <2> HIDE DEF m, r, q
  <2> QED BY <1>1, <2>1, <2>3, <2>4, <2>5
<1> QED BY <1>2, <1>3

(* A vote that is recorded.                                                *)
LEMMA SubmitVoteKeeps ==
  ASSUME VotingInv, NEW aid \in Principals, NEW d \in VoteDecision, submitVote(aid, d)
  PROVE  VoteInv(voteState', now')
<1> DEFINE v == [auditorId |-> aid, decision |-> d, timestamp |-> now]
           n == Len(voteState.votes)
           votes == <<v>> \o voteState.votes
           new == Recorded(aid, d)
           result == checkThreshold(new, now)
<1>1. /\ voteState \in ProposalVoteState /\ now \in Nat /\ Explained(voteState, now)
      /\ voteState.votes \in Seq(Vote) /\ n \in Nat /\ DOMAIN voteState.votes = 1..n
  BY DEF VotingInv, VoteInv, ProposalVoteState
<1>2. /\ \E j \in DOMAIN voteState.assignedIds : voteState.assignedIds[j] = aid
      /\ \A i \in 1..n : voteState.votes[i].auditorId # aid
      /\ voteState' = [new EXCEPT !.result = result]
      /\ now' = now
  BY <1>1 DEF submitVote, isAssigned, hasVoted
<1>3. v \in Vote /\ v.auditorId = aid /\ v.timestamp = now
  BY <1>1 DEF Vote
<1> HIDE DEF v, n
<1>4. /\ votes \in Seq(Vote) /\ DOMAIN votes = 1..(n + 1)
      /\ votes[1] = v
      /\ \A i \in 2..(n + 1) : i - 1 \in 1..n /\ votes[i] = voteState.votes[i - 1]
  BY <1>1, <1>3 DEF n
<1>5. \A i \in 1..(n + 1) : i = 1 \/ i \in 2..(n + 1)
  BY <1>1
<1> HIDE DEF votes
<1>6. /\ new \in ProposalVoteState
      /\ new.votes = votes
      /\ new.assignedIds = voteState.assignedIds
      /\ new.startedAt = voteState.startedAt
      /\ new.requiredApprovals = voteState.requiredApprovals
  <2>1. new = [voteState EXCEPT !.votes = votes]
    BY DEF Recorded, votes, v
  <2> QED BY <1>1, <1>4, <2>1 DEF ProposalVoteState
<1> HIDE DEF new
<1>7. result \in ThresholdResult
  BY DEF checkThreshold, ThresholdResult
<1>8. checkThreshold(voteState', now) = result
  <2>1. /\ voteState'.votes = new.votes /\ voteState'.assignedIds = new.assignedIds
        /\ voteState'.startedAt = new.startedAt
        /\ voteState'.requiredApprovals = new.requiredApprovals
    BY <1>2, <1>6 DEF ProposalVoteState
  <2> QED BY <2>1 DEF checkThreshold, countOf
<1> HIDE DEF result
<1>9. /\ voteState' \in ProposalVoteState
      /\ voteState'.votes = votes
      /\ voteState'.assignedIds = voteState.assignedIds
      /\ voteState'.result = result
  BY <1>2, <1>6, <1>7 DEF ProposalVoteState
<1>10. Explained(voteState', now)
  <2>1. ASSUME NEW i \in 1..(n + 1)
        PROVE  /\ \E j \in DOMAIN voteState.assignedIds :
                    voteState.assignedIds[j] = votes[i].auditorId
               /\ votes[i].timestamp <= now
    <3>1. CASE i = 1
      BY <1>1, <1>2, <1>3, <1>4, <3>1
    <3>2. CASE i # 1
      <4>1. i - 1 \in 1..n /\ votes[i] = voteState.votes[i - 1]
        BY <1>4, <1>5, <3>2
      <4> QED BY <1>1, <4>1 DEF Explained
    <3> QED BY <3>1, <3>2
  <2>2. ASSUME NEW i \in 1..(n + 1), NEW j \in 1..(n + 1),
               votes[i].auditorId = votes[j].auditorId
        PROVE  i = j
    <3>1. CASE i = 1 /\ j # 1
      BY <1>2, <1>3, <1>4, <1>5, <2>2, <3>1
    <3>2. CASE i # 1 /\ j = 1
      BY <1>2, <1>3, <1>4, <1>5, <2>2, <3>2
    <3>3. CASE i # 1 /\ j # 1
      <4>1. /\ i - 1 \in 1..n /\ votes[i] = voteState.votes[i - 1]
            /\ j - 1 \in 1..n /\ votes[j] = voteState.votes[j - 1]
        BY <1>4, <1>5, <3>3
      <4>2. i - 1 = j - 1
        BY <1>1, <2>2, <4>1 DEF Explained
      <4>3. n \in Nat
        BY <1>1
      <4> QED BY <4>2, <4>3
    <3> QED BY <3>1, <3>2, <3>3
  <2> QED BY <1>4, <1>9, <2>1, <2>2 DEF Explained
<1>11. Sound(voteState') /\ Hopeless(voteState')
  BY <1>1, <1>8, <1>9, <1>10, ThresholdSound
<1> QED BY <1>1, <1>2, <1>9, <1>10, <1>11 DEF VoteInv

(* A vote that is started.                                                 *)
LEMMA InitVoteKeeps ==
  ASSUME VotingInv, NEW request \in AssignmentRequests, NEW required \in RequiredApprovals,
         initVoteState(request, required)
  PROVE  VoteInv(voteState', now')
<1>1. PICK chosen \in autoAssignAuditors(request, now) :
        voteState' = [ assignedIds |-> chosen, votes |-> << >>,
                       requiredApprovals |-> required, startedAt |-> now,
                       result |-> "NotReached" ]
  BY DEF initVoteState
<1>2. now' = now /\ now \in Nat /\ required \in Nat
  BY VotingBounds DEF initVoteState, VotingInv, VoteInv
<1>3. chosen \in Seq(Principals)
  BY <1>2, AssignedFromActive DEF VotingInv, PoolInv
<1>4. voteState' \in ProposalVoteState
  BY <1>1, <1>2, <1>3 DEF ProposalVoteState, ThresholdResult
<1>5. voteState'.votes = << >> /\ voteState'.result = "NotReached"
  BY <1>1
<1> QED BY <1>2, <1>4, <1>5 DEF VoteInv, Explained, Sound, Hopeless

---------------------------------------------------------------------------
(* The theorems.                                                           *)

LEMMA VotingInitEstablishes == Init => VotingInv
<1> SUFFICES ASSUME Init PROVE VotingInv
  OBVIOUS
<1>1. PoolInv
  BY PoolInitEstablishes DEF Init
<1>2. voteState \in ProposalVoteState
  BY DEF Init, NoVote, ProposalVoteState, ThresholdResult
<1>3. voteState.votes = << >> /\ voteState.result = "NotReached" /\ now = 0
  BY DEF Init, NoVote
<1> QED BY <1>1, <1>2, <1>3 DEF VotingInv, VoteInv, Explained, Sound, Hopeless

(* Time that passes leaves what the votes explain.                         *)
LEMMA TickKeeps ==
  ASSUME VotingInv, Tick
  PROVE  VoteInv(voteState', now')
<1>1. /\ voteState \in ProposalVoteState /\ now \in Nat /\ Explained(voteState, now)
      /\ voteState' = voteState /\ now' = now + 1
  BY DEF VotingInv, VoteInv, Tick
<1>2. ASSUME NEW i \in DOMAIN voteState.votes
      PROVE  voteState.votes[i].timestamp <= now + 1
  <2>1. voteState.votes[i] \in Vote
    BY <1>1 DEF ProposalVoteState
  <2>2. voteState.votes[i].timestamp \in Nat /\ voteState.votes[i].timestamp <= now
    BY <1>1, <2>1 DEF Vote, Explained
  <2> QED BY <1>1, <2>2
<1>3. Explained(voteState, now + 1)
  BY <1>1, <1>2 DEF Explained
<1> QED BY <1>1, <1>3 DEF VotingInv, VoteInv

LEMMA VotingNextKeeps == VotingInv /\ [Next]_vars => VotingInv'
<1> SUFFICES ASSUME VotingInv, [Next]_vars PROVE VotingInv'
  OBVIOUS
<1>1. ASSUME UNCHANGED <<auditors, deposited, slashedAmount>>
      PROVE  PoolInv'
  BY <1>1, PoolNextKeeps DEF VotingInv, poolVars
<1>2. CASE PoolStep
  BY <1>2, PoolNextKeeps DEF PoolStep, VotingInv
<1>3. CASE AutoAssign
  BY <1>1, <1>3, InitVoteKeeps DEF AutoAssign, initVoteState, VotingInv
<1>4. CASE SubmitVote
  BY <1>1, <1>4, SubmitVoteKeeps DEF SubmitVote, submitVote, VotingInv
<1>5. CASE Tick
  BY <1>1, <1>5, TickKeeps DEF Tick, VotingInv
<1>6. CASE UNCHANGED vars
  BY <1>1, <1>6 DEF vars, VotingInv
<1> QED BY <1>2, <1>3, <1>4, <1>5, <1>6 DEF Next

(* Every step of the pool and of the vote keeps the inductive invariant.   *)
THEOREM VotingInvariance == Spec => []VotingInv
<1> QED BY VotingInitEstablishes, VotingNextKeeps, PTL DEF Spec

(* Pool, vote and clock keep their types, no auditor is registered twice,  *)
(* and there are never more votes than auditors were assigned.             *)
THEOREM VotingTypeCorrect == Spec => []VotingTypeOK
<1>1. VotingInv => VotingTypeOK
  BY VotesWithinSeats DEF VotingInv, VoteInv, PoolInv, VotingTypeOK
<1> QED BY <1>1, VotingInvariance, PTL

(* Slashing neither loses nor makes a token, however often it rounds.      *)
THEOREM StakeAlwaysAccounted == Spec => []StakeAccounted
<1>1. VotingInv => StakeAccounted
  BY DEF VotingInv, PoolInv
<1> QED BY <1>1, VotingInvariance, PTL

(* An approval is that of enough different assigned auditors, in time.     *)
THEOREM ApprovalsAlwaysSound == Spec => []ApprovalSound
<1>1. VotingInv => ApprovalSound
  BY DEF VotingInv, VoteInv, Sound, ApprovalSound, VotersIn, VotersFor, isAssigned, InTime
<1> QED BY <1>1, VotingInvariance, PTL

(* A rejection is declared only when approval is out of reach.             *)
THEOREM RejectionsAlwaysHopeless == Spec => []RejectionHopeless
<1>1. VotingInv => RejectionHopeless
  BY DEF VotingInv, VoteInv, Hopeless, RejectionHopeless, VotersIn, VotersFor, AssignedIn
<1> QED BY <1>1, VotingInvariance, PTL

(* A vote that has a result keeps it and takes no further votes.           *)
THEOREM ResultsFinal == Spec => ConcludedIsFinal
<1> DEFINE Kept == voteState.result # "NotReached" => voteState' = voteState
<1>1. [Next]_vars => [Kept]_vars
  <2> SUFFICES ASSUME [Next]_vars, voteState.result # "NotReached"
               PROVE  voteState' = voteState
    OBVIOUS
  <2>1. ~ SubmitVote
    BY DEF SubmitVote, submitVote
  <2>2. ~ AutoAssign
    BY DEF AutoAssign, initVoteState, NoVote
  <2> QED BY <2>1, <2>2 DEF Next, PoolStep, Tick, vars
<1> HIDE DEF Kept
<1>2. Spec => [][Kept]_vars
  BY <1>1, PTL DEF Spec
<1> QED BY <1>2 DEF Kept, ConcludedIsFinal

(* Whoever is assigned is active at that moment and has the reputation     *)
(* that the least demanding request asks for.                              *)
THEOREM AssignedAlwaysActive == Spec => AssignedWereActive
<1> DEFINE Active ==
             voteState'.assignedIds # voteState.assignedIds =>
               \A i \in DOMAIN voteState'.assignedIds :
                 \E k \in DOMAIN auditors : /\ auditors[k].id = voteState'.assignedIds[i]
                                            /\ auditors[k].status = "Active"
                                            /\ auditors[k].reputation >= 400
<1>1. VotingInv /\ [Next]_vars => [Active]_vars
  <2> SUFFICES ASSUME VotingInv, [Next]_vars PROVE Active
    OBVIOUS
  <2>1. CASE AutoAssign
    <3>1. PICK request \in AssignmentRequests, required \in RequiredApprovals :
            initVoteState(request, required)
      BY <2>1 DEF AutoAssign
    <3>2. PICK chosen \in autoAssignAuditors(request, now) : voteState'.assignedIds = chosen
      BY <3>1 DEF initVoteState
    <3>3. \A i \in DOMAIN chosen :
            \E k \in getActiveAuditors(request.minReputation) : auditors[k].id = chosen[i]
      BY AssignedFromActive DEF VotingInv, VoteInv, PoolInv
    <3>4. request.minReputation \in Nat /\ request.minReputation >= 400
      BY DEF AssignmentRequests
    <3>5. ASSUME NEW k \in getActiveAuditors(request.minReputation)
          PROVE  /\ k \in DOMAIN auditors /\ auditors[k].status = "Active"
                 /\ auditors[k].reputation >= 400
      <4>1. /\ k \in DOMAIN auditors /\ auditors[k].status = "Active"
            /\ auditors[k].reputation >= request.minReputation
        BY DEF getActiveAuditors
      <4>2. auditors[k] \in Auditor
        BY <4>1 DEF VotingInv, PoolInv, PoolTypeOK
      <4>3. auditors[k].reputation \in Nat
        BY <4>2 DEF Auditor
      <4> QED BY <3>4, <4>1, <4>3
    <3> QED BY <3>2, <3>3, <3>5
  <2>2. CASE SubmitVote
    <3>1. voteState'.assignedIds = voteState.assignedIds
      BY <2>2 DEF SubmitVote, submitVote, Recorded, VotingInv, VoteInv, ProposalVoteState
    <3> QED BY <3>1
  <2> QED BY <2>1, <2>2 DEF Next, PoolStep, Tick, vars
<1> HIDE DEF Active
<1>2. Spec => [][Active]_vars
  BY <1>1, VotingInvariance, PTL DEF Spec
<1> QED BY <1>2 DEF Active, AssignedWereActive
=============================================================================
