--------------------------- MODULE MultiSigProofs ---------------------------
(***************************************************************************)
(* Theorems about the voting session, for any number of auditors, any list *)
(* of required voters and any threshold: m and n are arbitrary numbers,    *)
(* and n may be less or more than the length of the list.                  *)
(***************************************************************************)
EXTENDS MultiSig, FiniteSetTheorems, FunctionTheorems, TLAPS

(* A session in which OneVoteEach holds, stated of any session s.          *)
OneVoteEachIn(s) ==
  /\ \A i \in DOMAIN s.votes :
       \E j \in DOMAIN s.requiredVoters : s.votes[i].voter = s.requiredVoters[j]
  /\ \A i, j \in DOMAIN s.votes : s.votes[i].voter = s.votes[j].voter => i = j

(* There are no more votes than required voters.                           *)
LEMMA VotesBounded ==
  ASSUME NEW s \in VotingSession, OneVoteEachIn(s)
  PROVE  Len(s.votes) <= Len(s.requiredVoters)
<1> DEFINE n == Len(s.votes)
           m == Len(s.requiredVoters)
           seat == [i \in 1..n |->
                      CHOOSE j \in 1..m : s.votes[i].voter = s.requiredVoters[j]]
<1>1. /\ n \in Nat /\ m \in Nat
      /\ DOMAIN s.votes = 1..n
      /\ DOMAIN s.requiredVoters = 1..m
  BY DEF VotingSession
<1>2. ASSUME NEW i \in 1..n
      PROVE  seat[i] \in 1..m /\ s.votes[i].voter = s.requiredVoters[seat[i]]
  BY <1>1 DEF OneVoteEachIn
<1>3. seat \in [1..n -> 1..m]
  BY <1>2
<1> HIDE DEF seat
<1>4. \A i, j \in 1..n : seat[i] = seat[j] => i = j
  <2>1. ASSUME NEW i \in 1..n, NEW j \in 1..n, seat[i] = seat[j]
        PROVE  i = j
    <3>1. s.votes[i].voter = s.votes[j].voter
      BY <1>2, <2>1
    <3> QED BY <1>1, <3>1 DEF OneVoteEachIn
  <2> QED BY <2>1
<1> HIDE DEF n, m
<1>5. seat \in Injection(1..n, 1..m)
  BY <1>3, <1>4, Fun_IsInj
<1>6. ExistsInjection(1..n, 1..m)
  BY <1>5 DEF ExistsInjection
<1>7. n <= m
  BY <1>1, <1>6, Fun_NatInjLeq
<1> QED BY <1>7 DEF n, m

(* The indices of the votes for a decision.                                *)
LEMMA VotesForFinite ==
  ASSUME NEW s \in VotingSession, NEW d
  PROVE  /\ IsFiniteSet(VotesFor(s, d))
         /\ Cardinality(VotesFor(s, d)) \in Nat
<1>1. Len(s.votes) \in Nat /\ DOMAIN s.votes = 1..Len(s.votes)
  BY DEF VotingSession
<1>2. IsFiniteSet(1..Len(s.votes)) /\ VotesFor(s, d) \in SUBSET (1..Len(s.votes))
  BY <1>1, FS_Interval DEF VotesFor
<1> QED BY <1>2, FS_Subset, FS_CardinalityType

(* Approvals and rejections together are at most the votes.                *)
LEMMA ApprovalsAndRejections ==
  ASSUME NEW s \in VotingSession
  PROVE  /\ countApprovals(s) \in Nat
         /\ countRejections(s) \in Nat
         /\ countApprovals(s) + countRejections(s) <= Len(s.votes)
<1> DEFINE A == VotesFor(s, "ApproveUpgrade")
           R == VotesFor(s, "RejectUpgrade")
           n == Len(s.votes)
<1>1. n \in Nat /\ DOMAIN s.votes = 1..n
  BY DEF VotingSession
<1>2. /\ IsFiniteSet(A) /\ Cardinality(A) \in Nat
      /\ IsFiniteSet(R) /\ Cardinality(R) \in Nat
  BY VotesForFinite
<1>3. A \cap R = {} /\ A \cup R \in SUBSET (1..n)
  BY <1>1 DEF VotesFor
<1> HIDE DEF A, R, n
<1>4. Cardinality(A \cup R) = Cardinality(A) + Cardinality(R)
  <2>1. Cardinality(A \cup R) =
          Cardinality(A) + Cardinality(R) - Cardinality(A \cap R)
    BY <1>2, FS_Union
  <2>2. Cardinality(A \cap R) = 0
    BY <1>3, FS_EmptySet
  <2> QED BY <1>2, <2>1, <2>2
<1>5. Cardinality(A \cup R) <= n
  <2>1. IsFiniteSet(1..n) /\ Cardinality(1..n) = n
    BY <1>1, FS_Interval
  <2>2. Cardinality(A \cup R) <= Cardinality(1..n)
    BY <1>3, <2>1, FS_Subset
  <2> QED BY <2>1, <2>2
<1> QED BY <1>2, <1>4, <1>5 DEF A, R, n, countApprovals, countRejections

(* The signers of the approvals are as many as the approvals.              *)
LEMMA SignersCounted ==
  ASSUME NEW s \in VotingSession, OneVoteEachIn(s)
  PROVE  /\ IsFiniteSet(aggregateSignatures(s).signers)
         /\ Cardinality(aggregateSignatures(s).signers) = countApprovals(s)
<1> DEFINE A == VotesFor(s, "ApproveUpgrade")
           T == { s.votes[i].voter : i \in A }
           f == [i \in A |-> s.votes[i].voter]
<1>1. A \subseteq DOMAIN s.votes
  BY DEF VotesFor
<1>2. f \in [A -> T] /\ \A i \in A : f[i] = s.votes[i].voter
  OBVIOUS
<1>3. \A t \in T : \E i \in A : f[i] = t
  OBVIOUS
<1>4. \A i, j \in A : f[i] = f[j] => i = j
  BY <1>1, <1>2 DEF OneVoteEachIn
<1>5. IsFiniteSet(A)
  BY VotesForFinite
<1> HIDE DEF f, T, A
<1>6. f \in Bijection(A, T)
  BY <1>2, <1>3, <1>4, Fun_IsBij
<1>7. IsFiniteSet(T) /\ Cardinality(T) = Cardinality(A)
  BY <1>5, <1>6, FS_Bijection DEF ExistsBijection
<1> QED BY <1>7 DEF A, T, aggregateSignatures, countApprovals

(* n \div 2 in the terms the arithmetic of the thresholds needs.           *)
LEMMA HalfProperties ==
  ASSUME NEW n \in Nat
  PROVE  half(n) \in Nat /\ 2 * half(n) <= n /\ n <= 2 * half(n) + 1
  BY DEF half

---------------------------------------------------------------------------
(* What the invariant says of the session, and back.                       *)
LEMMA SessionFacts ==
  ASSUME SessionInv, session # NoSession
  PROVE  /\ session \in VotingSession
         /\ OneVoteEachIn(session)
         /\ session.threshold \in ThresholdType
         /\ numVoters(session) \in Nat
  BY DEF SessionInv, TypeOK, OneVoteEach, OneVoteEachIn, VotingSession, numVoters

(* Complete and failed exclude each other unless n is too small.           *)
LEMMA CompleteNotFailed ==
  ASSUME NEW s \in VotingSession, OneVoteEachIn(s), ~Underdeclared(s),
         isVotingComplete(s)
  PROVE  ~isVotingFailed(s)
<1> DEFINE a == countApprovals(s)
           r == countRejections(s)
           n == numVoters(s)
           m == s.threshold.m
<1>1. a \in Nat /\ r \in Nat /\ n \in Nat /\ a + r <= n
  BY ApprovalsAndRejections, VotesBounded DEF numVoters, VotingSession
<1>2. s.threshold.kind \in {"Unanimous", "Majority", "Threshold"} /\ m \in Nat
  BY DEF VotingSession, ThresholdType
<1>3. half(n) \in Nat /\ 2 * half(n) <= n /\ n <= 2 * half(n) + 1
  BY <1>1, HalfProperties
<1>4. CASE s.threshold.kind = "Unanimous"
  <2>1. a = n
    BY <1>4 DEF isVotingComplete
  <2>2. ~(r > 0)
    BY <1>1, <2>1
  <2> QED BY <1>4, <2>2 DEF isVotingFailed
<1>5. CASE s.threshold.kind = "Majority"
  <2>1. a > half(n)
    BY <1>5 DEF isVotingComplete
  <2>2. ~(r > half(n))
    <3> HIDE DEF a, r, n
    <3> QED BY <1>1, <1>3, <2>1
  <2> QED BY <1>5, <2>2 DEF isVotingFailed
<1>6. CASE s.threshold.kind = "Threshold"
  <2> DEFINE d == s.threshold.n
  <2>1. a >= m
    BY <1>6 DEF isVotingComplete
  <2>2. d \in Nat /\ n <= d
    BY <1>1, <1>6 DEF Underdeclared, VotingSession, ThresholdType
  <2>3. ~(r > monus(d, m))
    <3> HIDE DEF a, r, n, m, d
    <3> QED BY <1>1, <1>2, <2>1, <2>2 DEF monus
  <2> QED BY <1>6, <2>3 DEF isVotingFailed
<1> QED BY <1>2, <1>4, <1>5, <1>6

(* A complete session has enough different signers.                        *)
LEMMA CompleteSufficient ==
  ASSUME NEW s \in VotingSession, OneVoteEachIn(s), isVotingComplete(s)
  PROVE  Sufficient(aggregateSignatures(s).signers, s)
<1> DEFINE T == aggregateSignatures(s).signers
           c == countApprovals(s)
           n == numVoters(s)
<1>1. Cardinality(T) = c
  BY SignersCounted
<1>2. \A x \in T : \E j \in DOMAIN s.requiredVoters : s.requiredVoters[j] = x
  BY DEF aggregateSignatures, VotesFor, OneVoteEachIn
<1>3. /\ s.threshold.kind \in {"Unanimous", "Majority", "Threshold"}
      /\ n \in Nat /\ c \in Nat
  BY ApprovalsAndRejections DEF VotingSession, ThresholdType, numVoters
<1>4. half(n) \in Nat /\ n <= 2 * half(n) + 1
  BY <1>3, HalfProperties
<1>5. c > half(n) => 2 * c > n
  <2> HIDE DEF c, n
  <2> QED BY <1>3, <1>4
<1>6. ASSUME s.threshold.kind = "Unanimous"
      PROVE  Sufficient(T, s)
  BY <1>1, <1>2, <1>6 DEF isVotingComplete, Sufficient
<1>7. ASSUME s.threshold.kind = "Majority"
      PROVE  Sufficient(T, s)
  BY <1>1, <1>2, <1>5, <1>7 DEF isVotingComplete, Sufficient
<1>8. ASSUME s.threshold.kind = "Threshold"
      PROVE  Sufficient(T, s)
  BY <1>1, <1>2, <1>8 DEF isVotingComplete, Sufficient
<1> QED BY <1>3, <1>6, <1>7, <1>8

---------------------------------------------------------------------------
(* The steps of a session that exists: its voters, threshold and deadline  *)
(* stay, its votes stay or gain one in front.                              *)
LEMMA SufficientKept ==
  ASSUME NEW s, NEW t, NEW signers, Sufficient(signers, s),
         t.requiredVoters = s.requiredVoters, t.threshold = s.threshold
  PROVE  Sufficient(signers, t)
  BY DEF Sufficient, numVoters

LEMMA SignatureChanges ==
  ASSUME SessionInv, submitProposerSignature
  PROVE  /\ session # NoSession /\ session' # NoSession
         /\ session' \in VotingSession
         /\ session'.requiredVoters = session.requiredVoters
         /\ session'.threshold = session.threshold
         /\ session'.deadline = session.deadline
         /\ session'.votes = session.votes
         /\ session'.proposerSig
         /\ OneVoteEachIn(session')
         /\ sent' = sent /\ now' = now
<1>1. session # NoSession
  BY DEF submitProposerSignature
<1>2. session \in VotingSession /\ OneVoteEachIn(session)
  BY <1>1, SessionFacts
<1>3. /\ session' = [session EXCEPT !.proposerSig = TRUE]
      /\ sent' = sent /\ now' = now
  BY DEF submitProposerSignature
<1>4. /\ session' \in VotingSession
      /\ session'.requiredVoters = session.requiredVoters
      /\ session'.threshold = session.threshold
      /\ session'.deadline = session.deadline
      /\ session'.votes = session.votes
      /\ session'.proposerSig
  BY <1>2, <1>3 DEF VotingSession
<1>5. session' # NoSession
  BY <1>4 DEF NoSession, VotingSession
<1> QED BY <1>1, <1>2, <1>3, <1>4, <1>5 DEF OneVoteEachIn

LEMMA VoteChanges ==
  ASSUME SessionInv, NEW aid \in AuditorIds, NEW d \in ReviewDecision, castVote(aid, d)
  PROVE  /\ session # NoSession /\ session' # NoSession
         /\ session' \in VotingSession
         /\ session'.requiredVoters = session.requiredVoters
         /\ session'.threshold = session.threshold
         /\ session'.deadline = session.deadline
         /\ session'.proposerSig = session.proposerSig
         /\ Len(session'.votes) = Len(session.votes) + 1
         /\ session'.votes[1] = [voter |-> aid, decision |-> d]
         /\ \A i \in 1..Len(session.votes) : session'.votes[i + 1] = session.votes[i]
         /\ OneVoteEachIn(session')
         /\ sent' = sent /\ now' = now /\ now <= session.deadline
<1> DEFINE v == [voter |-> aid, decision |-> d]
<1>1. /\ session # NoSession
      /\ \E i \in DOMAIN session.requiredVoters : session.requiredVoters[i] = aid
      /\ \A i \in DOMAIN session.votes : session.votes[i].voter # aid
      /\ session' = [session EXCEPT !.votes = <<v>> \o @]
      /\ sent' = sent /\ now' = now /\ now <= session.deadline
  BY DEF castVote
<1>2. session \in VotingSession /\ OneVoteEachIn(session)
  BY <1>1, SessionFacts
<1>3. v \in Vote /\ v.voter = aid
  BY DEF Vote
<1>4. session.votes \in Seq(Vote)
  BY <1>2 DEF VotingSession
<1> HIDE DEF v
<1>5. /\ <<v>> \o session.votes \in Seq(Vote)
      /\ Len(<<v>> \o session.votes) = Len(session.votes) + 1
      /\ (<<v>> \o session.votes)[1] = v
      /\ \A i \in 1..Len(session.votes) : (<<v>> \o session.votes)[i + 1] = session.votes[i]
  BY <1>3, <1>4
<1>6. /\ session' \in VotingSession
      /\ session'.requiredVoters = session.requiredVoters
      /\ session'.threshold = session.threshold
      /\ session'.deadline = session.deadline
      /\ session'.proposerSig = session.proposerSig
      /\ session'.votes = <<v>> \o session.votes
  <2> DEFINE w == <<v>> \o session.votes
  <2>1. w \in Seq(Vote) /\ session' = [session EXCEPT !.votes = w]
    BY <1>1, <1>5
  <2> HIDE DEF w
  <2>2. /\ session' \in VotingSession
        /\ session'.requiredVoters = session.requiredVoters
        /\ session'.threshold = session.threshold
        /\ session'.deadline = session.deadline
        /\ session'.proposerSig = session.proposerSig
        /\ session'.votes = w
    BY <1>2, <2>1 DEF VotingSession
  <2> QED BY <2>2 DEF w
<1>7. session' # NoSession
  BY <1>6 DEF NoSession, VotingSession
<1>8. /\ Len(session.votes) \in Nat
      /\ DOMAIN session.votes = 1..Len(session.votes)
      /\ DOMAIN session'.votes = 1..(Len(session.votes) + 1)
  BY <1>4, <1>5, <1>6
<1>9. /\ session'.votes[1] = v
      /\ \A i \in 1..Len(session.votes) : session'.votes[i + 1] = session.votes[i]
      /\ \A i \in 2..(Len(session.votes) + 1) :
            i - 1 \in 1..Len(session.votes) /\ session'.votes[i] = session.votes[i - 1]
  <2>1. /\ session'.votes[1] = v
        /\ \A i \in 1..Len(session.votes) : session'.votes[i + 1] = session.votes[i]
    BY <1>5, <1>6
  <2>2. ASSUME NEW i \in 2..(Len(session.votes) + 1)
        PROVE  i - 1 \in 1..Len(session.votes) /\ session'.votes[i] = session.votes[i - 1]
    <3>1. i - 1 \in 1..Len(session.votes) /\ (i - 1) + 1 = i
      BY <1>8
    <3> QED BY <2>1, <3>1
  <2> QED BY <2>1, <2>2
<1>10. OneVoteEachIn(session')
  <2>1. ASSUME NEW i \in DOMAIN session'.votes
        PROVE  \E j \in DOMAIN session.requiredVoters :
                 session'.votes[i].voter = session.requiredVoters[j]
    <3>1. CASE i = 1
      BY <1>1, <1>3, <1>9, <3>1
    <3>2. CASE i # 1
      <4>1. i - 1 \in DOMAIN session.votes /\ session'.votes[i] = session.votes[i - 1]
        BY <1>8, <1>9, <3>2
      <4> QED BY <1>2, <4>1 DEF OneVoteEachIn
    <3> QED BY <3>1, <3>2
  <2>2. ASSUME NEW i \in DOMAIN session'.votes, NEW j \in DOMAIN session'.votes,
               session'.votes[i].voter = session'.votes[j].voter
        PROVE  i = j
    <3>1. ASSUME NEW k \in DOMAIN session'.votes, k # 1
          PROVE  /\ k - 1 \in DOMAIN session.votes
                 /\ session'.votes[k] = session.votes[k - 1]
                 /\ session'.votes[k].voter # aid
      BY <1>1, <1>8, <1>9, <3>1
    <3>2. CASE i = 1 \/ j = 1
      BY <1>3, <1>9, <2>2, <3>1, <3>2
    <3>3. CASE i # 1 /\ j # 1
      <4>1. i - 1 = j - 1
        BY <1>2, <2>2, <3>1, <3>3 DEF OneVoteEachIn
      <4> QED BY <1>8, <4>1
    <3> QED BY <3>2, <3>3
  <2> QED BY <1>6, <2>1, <2>2 DEF OneVoteEachIn
<1> QED BY <1>1, <1>5, <1>6, <1>7, <1>9, <1>10 DEF v

(* A vote takes no earlier vote away from the counts.                      *)
LEMMA CountsGrow ==
  ASSUME NEW s \in VotingSession, NEW t \in VotingSession, NEW d,
         Len(t.votes) = Len(s.votes) + 1,
         \A i \in 1..Len(s.votes) : t.votes[i + 1] = s.votes[i]
  PROVE  Cardinality(VotesFor(s, d)) <= Cardinality(VotesFor(t, d))
<1> DEFINE A == VotesFor(s, d)
           B == VotesFor(t, d)
           f == [i \in A |-> i + 1]
<1>1. /\ Len(s.votes) \in Nat
      /\ DOMAIN s.votes = 1..Len(s.votes)
      /\ DOMAIN t.votes = 1..(Len(s.votes) + 1)
  BY DEF VotingSession
<1>2. f \in [A -> B]
  BY <1>1 DEF VotesFor
<1>3. \A i, j \in A : f[i] = f[j] => i = j
  BY <1>1 DEF VotesFor
<1>4. IsFiniteSet(B)
  BY VotesForFinite
<1> HIDE DEF A, B, f
<1>5. f \in Injection(A, B)
  BY <1>2, <1>3, Fun_IsInj
<1>6. Cardinality(A) <= Cardinality(B)
  BY <1>4, <1>5, FS_Injection
<1> QED BY <1>6 DEF A, B

(* A vote for another decision does not change the count of d.             *)
LEMMA CountUnchanged ==
  ASSUME NEW s \in VotingSession, NEW t \in VotingSession, NEW d,
         Len(t.votes) = Len(s.votes) + 1,
         \A i \in 1..Len(s.votes) : t.votes[i + 1] = s.votes[i],
         t.votes[1].decision # d
  PROVE  Cardinality(VotesFor(t, d)) = Cardinality(VotesFor(s, d))
<1> DEFINE A == VotesFor(s, d)
           B == VotesFor(t, d)
           f == [i \in B |-> i - 1]
<1>1. /\ Len(s.votes) \in Nat
      /\ DOMAIN s.votes = 1..Len(s.votes)
      /\ DOMAIN t.votes = 1..(Len(s.votes) + 1)
  BY DEF VotingSession
<1>2. ASSUME NEW i \in B
      PROVE  i \in 2..(Len(s.votes) + 1) /\ i - 1 \in A
  <2>1. i \in 1..(Len(s.votes) + 1) /\ t.votes[i].decision = d
    BY <1>1 DEF VotesFor
  <2>2. i # 1
    BY <2>1
  <2>3. i - 1 \in 1..Len(s.votes) /\ (i - 1) + 1 = i
    BY <1>1, <2>1, <2>2
  <2>4. t.votes[i] = s.votes[i - 1]
    BY <2>3
  <2> QED BY <1>1, <2>1, <2>2, <2>3, <2>4 DEF VotesFor
<1>3. f \in [B -> A]
  BY <1>2
<1>4. \A i, j \in B : f[i] = f[j] => i = j
  BY <1>1, <1>2
<1>5. IsFiniteSet(A)
  BY VotesForFinite
<1> HIDE DEF A, B, f
<1>6. f \in Injection(B, A)
  BY <1>3, <1>4, Fun_IsInj
<1>7. Cardinality(B) <= Cardinality(A)
  BY <1>5, <1>6, FS_Injection
<1>8. Cardinality(A) <= Cardinality(B)
  BY CountsGrow DEF A, B
<1>9. Cardinality(A) \in Nat /\ Cardinality(B) \in Nat
  BY VotesForFinite DEF A, B
<1> QED BY <1>7, <1>8, <1>9 DEF A, B

---------------------------------------------------------------------------
(* A transaction is only sent for an approved session.                     *)
LEMMA OrchestrateSends ==
  ASSUME SessionInv, orchestrateUpgrade
  PROVE  /\ session # NoSession /\ session' = session
         /\ sent' = sent \cup {aggregateSignatures(session)}
         /\ aggregateSignatures(session) \in AggregatedSignatures
         /\ Sufficient(aggregateSignatures(session).signers, session)
         /\ now' = now
<1>1. /\ session # NoSession /\ session' = session
      /\ isVotingComplete(session)
      /\ sent' = sent \cup {aggregateSignatures(session)}
      /\ now' = now
  BY DEF orchestrateUpgrade
<1>2. session \in VotingSession /\ OneVoteEachIn(session)
  BY <1>1, SessionFacts
<1>3. Sufficient(aggregateSignatures(session).signers, session)
  BY <1>1, <1>2, CompleteSufficient
<1>4. aggregateSignatures(session) \in AggregatedSignatures
  <2>1. countApprovals(session) \in Nat
    BY <1>2, ApprovalsAndRejections
  <2>2. ASSUME NEW i \in VotesFor(session, "ApproveUpgrade")
        PROVE  session.votes[i].voter \in AuditorIds
    <3>1. session.votes \in Seq(Vote) /\ i \in DOMAIN session.votes
      BY <1>2 DEF VotesFor, VotingSession
    <3>2. session.votes[i] \in Vote
      BY <3>1
    <3> QED BY <3>2 DEF Vote
  <2> QED BY <2>1, <2>2 DEF aggregateSignatures, AggregatedSignatures
<1> QED BY <1>1, <1>3, <1>4

(* Creating the session: nothing has been sent yet.                        *)
LEMMA CreatePreserves ==
  ASSUME SessionInv, CreateSession
  PROVE  SessionInv'
<1>1. PICK voters \in Voters, threshold \in Thresholds, deadline \in 1..MaxTime :
         createVotingSession(voters, threshold, deadline)
  BY DEF CreateSession
<1>2. voters \in Seq(AuditorIds) /\ Len(voters) \in Nat
  BY DEF Voters
<1>3. threshold \in ThresholdType
  BY SessionBounds DEF Thresholds, ThresholdType
<1>4. /\ session = NoSession
      /\ session' = [ requiredVoters |-> voters, threshold |-> threshold,
                      votes |-> << >>, proposerSig |-> FALSE, deadline |-> deadline ]
      /\ sent' = sent /\ now' = now
  BY <1>1 DEF createVotingSession
<1>5. /\ session' \in VotingSession
      /\ session'.votes = << >>
      /\ session'.requiredVoters = voters
      /\ session'.threshold = threshold
  BY <1>2, <1>3, <1>4, SessionBounds DEF VotingSession
<1>6. sent = {}
  BY <1>4 DEF SessionInv, SentSufficient
<1>7. TypeOK'
  BY <1>2, <1>4, <1>5 DEF SessionInv, TypeOK
<1>8. OneVoteEach'
  BY <1>5 DEF OneVoteEach
<1>9. SentSufficient'
  BY <1>4, <1>6 DEF SentSufficient
<1> QED BY <1>7, <1>8, <1>9 DEF SessionInv

(* A step of an existing session that keeps its voters and its threshold   *)
(* and at most one vote per voter, and sends nothing.                      *)
LEMMA ChangePreserves ==
  ASSUME SessionInv, session # NoSession, session' # NoSession,
         session' \in VotingSession, OneVoteEachIn(session'),
         session'.requiredVoters = session.requiredVoters,
         session'.threshold = session.threshold,
         sent' = sent, now' \in Nat
  PROVE  SessionInv'
<1>1. TypeOK'
  BY VotesBounded DEF SessionInv, TypeOK
<1>2. OneVoteEach'
  BY DEF OneVoteEach, OneVoteEachIn
<1>3. SentSufficient'
  BY SufficientKept DEF SessionInv, SentSufficient
<1> QED BY <1>1, <1>2, <1>3 DEF SessionInv

(* The invariant of the session: types, one vote per voter, and every      *)
(* transaction sent carries enough signatures.                             *)
THEOREM SessionInvariance == Spec => []SessionInv
<1>1. Init => SessionInv
  BY DEF Init, SessionInv, TypeOK, OneVoteEach, SentSufficient
<1>2. SessionInv /\ [Next]_vars => SessionInv'
  <2> SUFFICES ASSUME SessionInv, [Next]_vars
               PROVE  SessionInv'
    OBVIOUS
  <2>0. now \in Nat
    BY DEF SessionInv, TypeOK
  <2>1. CASE CreateSession
    BY <2>1, CreatePreserves
  <2>2. CASE submitProposerSignature
    BY <2>0, <2>2, SignatureChanges, ChangePreserves
  <2>3. CASE CastVote
    <3>1. PICK aid \in AuditorIds, d \in ReviewDecision : castVote(aid, d)
      BY <2>3 DEF CastVote
    <3> QED BY <2>0, <3>1, VoteChanges, ChangePreserves
  <2>4. CASE orchestrateUpgrade
    <3>1. /\ session # NoSession /\ session' = session /\ now' = now
          /\ sent' = sent \cup {aggregateSignatures(session)}
          /\ aggregateSignatures(session) \in AggregatedSignatures
          /\ Sufficient(aggregateSignatures(session).signers, session)
      BY <2>4, OrchestrateSends
    <3>2. TypeOK'
      BY <3>1 DEF SessionInv, TypeOK
    <3>3. SentSufficient'
      BY <3>1 DEF SessionInv, SentSufficient
    <3> QED BY <3>1, <3>2, <3>3 DEF SessionInv, OneVoteEach
  <2>5. CASE Tick
    BY <2>0, <2>5 DEF Tick, SessionInv, TypeOK, OneVoteEach,
       SentSufficient
  <2>6. CASE UNCHANGED vars
    BY <2>6 DEF vars, SessionInv, TypeOK, OneVoteEach, SentSufficient
  <2> QED BY <2>1, <2>2, <2>3, <2>4, <2>5, <2>6 DEF Next
<1> QED BY <1>1, <1>2, PTL DEF Spec

(* Every reachable session is well typed and has no more votes than voters.*)
THEOREM SessionTypeCorrect == Spec => []TypeOK
<1>1. SessionInv => TypeOK
  BY DEF SessionInv
<1> QED BY <1>1, SessionInvariance, PTL

(* For every m, n and list of voters: votes that approve and reject at the *)
(* same time are only met where n is less than the number of voters.       *)
THEOREM DecisionsExclusive == Spec => []NeverBothDecided
<1>1. SessionInv => NeverBothDecided
  BY SessionFacts, CompleteNotFailed DEF NeverBothDecided
<1> QED BY <1>1, SessionInvariance, PTL

(* No voter has two votes in a session, and none without a seat has one.   *)
THEOREM VotesAlwaysDistinct == Spec => []OneVoteEach
<1>1. SessionInv => OneVoteEach
  BY DEF SessionInv
<1> QED BY <1>1, SessionInvariance, PTL

(* For every m, n and list of voters, before and after the deadline: what  *)
(* orchestrateUpgrade acts upon is called ready, and what is called ready  *)
(* is acted upon or, with too small an n, rejected.                        *)
THEOREM SummaryAlwaysAgrees == Spec => []ReadyIffApproved
<1>1. SessionInv => ReadyIffApproved
  <2> DEFINE ready  == getLifecycleState(session) = "ReadyForExecution"
             status == checkVotingStatus(session, now)
  <2> SUFFICES ASSUME SessionInv, session # NoSession
               PROVE  /\ status = "ApproveUpgrade" => ready
                      /\ ready /\ status # "ApproveUpgrade" =>
                           status = "RejectUpgrade" /\ Underdeclared(session)
    BY DEF ReadyIffApproved
  <2>1. isVotingComplete(session) => session.proposerSig
    BY Zenon DEF isVotingComplete
  <2>2. ready <=> isVotingComplete(session)
    BY <2>1 DEF getLifecycleState
  <2>3. isVotingComplete(session) /\ isVotingFailed(session) => Underdeclared(session)
    BY SessionFacts, CompleteNotFailed
  <2>4. status = "ApproveUpgrade" => isVotingComplete(session)
    BY DEF checkVotingStatus, getFinalDecision
  <2>5. isVotingComplete(session) =>
          status = IF isVotingFailed(session) THEN "RejectUpgrade" ELSE "ApproveUpgrade"
    BY DEF checkVotingStatus, getFinalDecision
  <2> HIDE DEF ready, status
  <2> QED BY <2>2, <2>3, <2>4, <2>5
<1> QED BY <1>1, SessionInvariance, PTL

(* Every transaction sent is signed by enough different required voters.   *)
THEOREM SentAlwaysSufficient == Spec => []SentSufficient
<1>1. SessionInv => SentSufficient
  BY DEF SessionInv
<1> QED BY <1>1, SessionInvariance, PTL

(* What the session calls complete passes the count made before sending.   *)
THEOREM CompleteAlwaysVerifies == Spec => []CompleteVerifies
<1>1. SessionInv => CompleteVerifies
  <2> SUFFICES ASSUME SessionInv, session # NoSession, isVotingComplete(session)
               PROVE  verifySignatureCount(aggregateSignatures(session), session)
    BY DEF CompleteVerifies
  <2> DEFINE c == countApprovals(session)
             n == numVoters(session)
  <2>1. /\ session \in VotingSession
        /\ session.threshold.kind \in {"Unanimous", "Majority", "Threshold"}
        /\ n \in Nat
    BY SessionFacts DEF ThresholdType
  <2>2. c \in Nat /\ half(n) \in Nat
    BY <2>1, ApprovalsAndRejections, HalfProperties
  <2>3. c > half(n) => c >= half(n) + 1
    <3> HIDE DEF c, n
    <3> QED BY <2>1, <2>2
  <2>4. aggregateSignatures(session).count = c
    BY DEF aggregateSignatures
  <2> QED BY <2>1, <2>3, <2>4 DEF isVotingComplete, verifySignatureCount
<1> QED BY <1>1, SessionInvariance, PTL

(* For every m, n and list of voters: a rejection is final, and so is an   *)
(* approval unless n is too small and a rejection is cast in time.         *)
THEOREM DecisionsFinal == Spec => DecisionIsFinal
<1> DEFINE Final ==
      session # NoSession =>
        /\ checkVotingStatus(session, now) = "ApproveUpgrade" =>
             \/ checkVotingStatus(session', now') = "ApproveUpgrade"
             \/ /\ Underdeclared(session) /\ RejectionCast
                /\ checkVotingStatus(session', now') = "RejectUpgrade"
        /\ isVotingFailed(session) =>
             /\ isVotingFailed(session')
             /\ checkVotingStatus(session', now') # "ApproveUpgrade"
<1>1. \A s, t : /\ checkVotingStatus(s, t) = "ApproveUpgrade" <=>
                     isVotingComplete(s) /\ ~isVotingFailed(s)
                /\ isVotingComplete(s) /\ isVotingFailed(s) =>
                     checkVotingStatus(s, t) = "RejectUpgrade"
  BY DEF checkVotingStatus, getFinalDecision
<1>2. SessionInv /\ SessionInv' /\ [Next]_vars => Final
  <2> SUFFICES ASSUME SessionInv, SessionInv', [Next]_vars, session # NoSession
               PROVE  /\ isVotingComplete(session) /\ ~isVotingFailed(session) =>
                           /\ isVotingComplete(session')
                           /\ isVotingFailed(session') =>
                                Underdeclared(session) /\ RejectionCast
                      /\ isVotingFailed(session) => isVotingFailed(session')
    BY <1>1
  <2>1. /\ session \in VotingSession /\ OneVoteEachIn(session)
        /\ session.threshold \in ThresholdType
        /\ numVoters(session) \in Nat
    BY SessionFacts
  <2>2. CASE session' = session
    BY <2>2
  <2>3. CASE submitProposerSignature
    <3>1. /\ session'.requiredVoters = session.requiredVoters
          /\ session'.threshold = session.threshold
          /\ session'.votes = session.votes
          /\ ~session.proposerSig
      BY <2>3, SignatureChanges DEF submitProposerSignature
    <3>2. isVotingFailed(session') <=> isVotingFailed(session)
      BY <3>1 DEF isVotingFailed, countRejections, VotesFor, numVoters
    <3>3. ~isVotingComplete(session)
      BY <3>1 DEF isVotingComplete
    <3> QED BY <3>2, <3>3
  <2>4. CASE CastVote
    <3>1. PICK aid \in AuditorIds, d \in ReviewDecision : castVote(aid, d)
      BY <2>4 DEF CastVote
    <3>2. /\ session' \in VotingSession /\ OneVoteEachIn(session')
          /\ session'.requiredVoters = session.requiredVoters
          /\ session'.threshold = session.threshold
          /\ session'.proposerSig = session.proposerSig
          /\ Len(session'.votes) = Len(session.votes) + 1
          /\ \A i \in 1..Len(session.votes) : session'.votes[i + 1] = session.votes[i]
      BY <3>1, VoteChanges
    <3> DEFINE a == countApprovals(session)
               b == countApprovals(session')
               r == countRejections(session)
               q == countRejections(session')
               n == numVoters(session)
    <3>3. a <= b /\ r <= q
      BY <2>1, <3>2, CountsGrow DEF countApprovals, countRejections
    <3>4. /\ a \in Nat /\ b \in Nat /\ r \in Nat /\ q \in Nat
          /\ a <= Len(session.votes) /\ Len(session.votes) \in Nat
          /\ Len(session.votes) + 1 <= n
      <4>1. a \in Nat /\ r \in Nat /\ a + r <= Len(session.votes)
        BY <2>1, ApprovalsAndRejections
      <4>2. b \in Nat /\ q \in Nat
        BY <3>2, ApprovalsAndRejections
      <4>3. Len(session.votes) \in Nat
        BY <2>1 DEF VotingSession
      <4>4. Len(session.votes) + 1 <= n
        BY <3>2, VotesBounded DEF numVoters
      <4> HIDE DEF a, b, r, q, n
      <4> QED BY <4>1, <4>2, <4>3, <4>4
    <3>5. isVotingFailed(session) => isVotingFailed(session')
      <4>1. numVoters(session') = n
        BY <3>2 DEF numVoters
      <4>2. half(n) \in Nat /\ monus(session.threshold.n, session.threshold.m) \in Nat
        <5>1. session.threshold.n \in Nat /\ session.threshold.m \in Nat
          BY <2>1 DEF ThresholdType
        <5>2. half(n) \in Nat
          BY <2>1, HalfProperties
        <5> QED BY <5>1, <5>2 DEF monus
      <4>3. \A x \in Nat : r > x => q > x
        <5> HIDE DEF r, q
        <5> QED BY <3>3, <3>4
      <4>4. (r > 0 => q > 0) /\ (r > half(n) => q > half(n)) /\
            ( r > monus(session.threshold.n, session.threshold.m) =>
                q > monus(session.threshold.n, session.threshold.m) )
        BY <4>2, <4>3
      <4>5. session.threshold.kind \in {"Unanimous", "Majority", "Threshold"}
        BY <2>1 DEF ThresholdType
      <4> QED BY <3>2, <4>1, <4>4, <4>5 DEF isVotingFailed
    <3>6. isVotingComplete(session) => isVotingComplete(session')
      <4>1. numVoters(session') = n
        BY <3>2 DEF numVoters
      <4>2. half(n) \in Nat /\ session.threshold.m \in Nat
        BY <2>1, HalfProperties DEF ThresholdType
      <4>3. a # n /\ \A x \in Nat : (a > x => b > x) /\ (a >= x => b >= x)
        <5>1. n \in Nat
          BY <2>1
        <5> HIDE DEF a, b, n
        <5> QED BY <3>3, <3>4, <5>1
      <4>4. (a > half(n) => b > half(n)) /\
            (a >= session.threshold.m => b >= session.threshold.m)
        BY <4>2, <4>3
      <4>5. session.threshold.kind \in {"Unanimous", "Majority", "Threshold"}
        BY <2>1 DEF ThresholdType
      <4> QED BY <3>2, <4>1, <4>3, <4>4, <4>5 DEF isVotingComplete
    <3>7. isVotingComplete(session') /\ isVotingFailed(session') =>
            Underdeclared(session)
      <4>1. Underdeclared(session') => Underdeclared(session)
        BY <3>2 DEF Underdeclared, numVoters
      <4> QED BY <3>2, <4>1, CompleteNotFailed
    <3>8. ASSUME ~isVotingFailed(session), isVotingFailed(session')
          PROVE  RejectionCast
      <4>1. /\ session'.votes[1] = [voter |-> aid, decision |-> d]
            /\ now <= session.deadline
        BY <3>1, VoteChanges
      <4>2. ASSUME d # "RejectUpgrade"
            PROVE  q = r
        BY <2>1, <3>1, <3>2, <4>1, <4>2, CountUnchanged
           DEF countRejections
      <4>3. q # r
        BY <3>2, <3>8 DEF isVotingFailed, numVoters
      <4> QED BY <3>2, <4>1, <4>2, <4>3 DEF RejectionCast
    <3> QED BY <3>5, <3>6, <3>7, <3>8
  <2>5. ~CreateSession
    BY DEF CreateSession, createVotingSession
  <2> QED BY <2>2, <2>3, <2>4, <2>5 DEF Next, orchestrateUpgrade, Tick, vars
<1>3. SessionInv /\ SessionInv' /\ [Next]_vars => [Final]_vars
  BY <1>2
<1> HIDE DEF Final
<1>4. Spec => [][Final]_vars
  BY <1>3, SessionInvariance, PTL DEF Spec
<1> QED BY <1>4 DEF Final, DecisionIsFinal
=============================================================================
