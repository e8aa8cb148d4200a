----------------------- MODULE UpgradeExecutionProofs -----------------------
(***************************************************************************)
(* Theorems about the proposal handlers and the execution of proposals,    *)
(* for any number of proposals, reviews, auditors and requests.            *)
(***************************************************************************)
EXTENDS UpgradeExecution, FiniteSetTheorems, SequenceTheorems, TLAPS

(* Putting an element in front of a sequence, index by index.              *)
LEMMA ConsProperties ==
  ASSUME NEW S, NEW s \in Seq(S), NEW x \in S
  PROVE  /\ <<x>> \o s \in Seq(S)
         /\ Len(<<x>> \o s) = Len(s) + 1
         /\ (<<x>> \o s)[1] = x
         /\ \A i \in 1..Len(s) : (<<x>> \o s)[i + 1] = s[i]
         /\ \A i \in 2..(Len(s) + 1) : (<<x>> \o s)[i] = s[i - 1]
  OBVIOUS

(* With dense descending ids findById is arithmetic: it finds a proposal   *)
(* exactly when the id was handed out, at the index the id determines.     *)
LEMMA FindByIdProperties ==
  ASSUME TypeOK, IdsDescend, NEW pid \in Nat
  PROVE  /\ findById(pid) \in 0..Len(proposals)
         /\ findById(pid) # 0 => /\ findById(pid) = nextProposalId - pid
                                 /\ pid \in 1..(nextProposalId - 1)
                                 /\ proposals[findById(pid)].proposalId = pid
         /\ pid \in 1..(nextProposalId - 1) => findById(pid) # 0
<1> DEFINE I == { i \in 1..Len(proposals) : proposals[i].proposalId = pid }
<1>1. findById(pid) = IF I # {} THEN Min(I) ELSE 0
  BY DEF findById, SelectInSeq
<1>2. /\ nextProposalId \in Nat
      /\ Len(proposals) \in Nat
      /\ DOMAIN proposals = 1..Len(proposals)
  BY DEF TypeOK
<1>3. /\ nextProposalId = Len(proposals) + 1
      /\ \A i \in 1..Len(proposals) : proposals[i].proposalId = nextProposalId - i
  BY <1>2 DEF IdsDescend
<1>4. CASE pid \in 1..(nextProposalId - 1)
  <2>1. I = {nextProposalId - pid}
    BY <1>2, <1>3, <1>4
  <2>2. Min(I) = nextProposalId - pid
    BY <1>2, <1>4, <2>1 DEF Min
  <2>3. findById(pid) = nextProposalId - pid
    BY <1>1, <2>1, <2>2
  <2>4. findById(pid) \in 1..Len(proposals)
    BY <1>2, <1>3, <1>4, <2>3
  <2>5. proposals[findById(pid)].proposalId = pid
    BY <1>2, <1>3, <1>4, <2>3, <2>4
  <2> QED BY <1>2, <1>4, <2>3, <2>4, <2>5
<1>5. CASE pid \notin 1..(nextProposalId - 1)
  <2>1. I = {}
    BY <1>2, <1>3, <1>5
  <2> QED BY <1>1, <1>2, <1>5, <2>1
<1> QED BY <1>4, <1>5

(* The map a handler runs over the list rewrites one element only.         *)
LEMMA UpdateProposalProperties ==
  ASSUME TypeOK, IdsDescend, NEW pid \in Nat, findById(pid) # 0, NEW p \in Proposal
  PROVE  /\ updateProposal(pid, p) = [proposals EXCEPT ![findById(pid)] = p]
         /\ updateProposal(pid, p) \in Seq(Proposal)
         /\ Len(updateProposal(pid, p)) = Len(proposals)
<1>1. /\ nextProposalId \in Nat
      /\ proposals \in Seq(Proposal)
      /\ Len(proposals) \in Nat
      /\ DOMAIN proposals = 1..Len(proposals)
  BY DEF TypeOK
<1>2. /\ findById(pid) \in 1..Len(proposals)
      /\ findById(pid) = nextProposalId - pid
  BY FindByIdProperties, <1>1
<1>3. ASSUME NEW i \in 1..Len(proposals)
      PROVE  proposals[i].proposalId = pid <=> i = findById(pid)
  <2>1. proposals[i].proposalId = nextProposalId - i
    BY <1>1 DEF IdsDescend
  <2> QED BY <1>1, <1>2, <2>1
<1>4. updateProposal(pid, p) = [proposals EXCEPT ![findById(pid)] = p]
  <2>1. updateProposal(pid, p) =
          [i \in DOMAIN proposals |-> IF i = findById(pid) THEN p ELSE proposals[i]]
    BY <1>1, <1>3 DEF updateProposal
  <2> HIDE DEF updateProposal
  <2> QED BY <1>1, <1>2, <2>1
<1> QED BY <1>1, <1>2, <1>4

---------------------------------------------------------------------------
(* What writing one proposal back leaves in place.                         *)
LEMMA RewriteProperties ==
  ASSUME TypeOK, IdsDescend, NEW pid \in Nat, findById(pid) # 0,
         NEW p \in Proposal, p.proposalId = pid,
         proposals' = updateProposal(pid, p),
         nextProposalId' = nextProposalId
  PROVE  /\ proposals' \in Seq(Proposal)
         /\ DOMAIN proposals' = DOMAIN proposals
         /\ findById(pid) \in DOMAIN proposals
         /\ proposals'[findById(pid)] = p
         /\ \A i \in DOMAIN proposals \ {findById(pid)} : proposals'[i] = proposals[i]
         /\ IdsDescend'
<1>1. /\ nextProposalId \in Nat
      /\ proposals \in Seq(Proposal)
      /\ Len(proposals) \in Nat
      /\ DOMAIN proposals = 1..Len(proposals)
  BY DEF TypeOK
<1>2. /\ findById(pid) \in 1..Len(proposals)
      /\ findById(pid) = nextProposalId - pid
  BY FindByIdProperties, <1>1
<1>3. /\ proposals' = [proposals EXCEPT ![findById(pid)] = p]
      /\ proposals' \in Seq(Proposal)
      /\ Len(proposals') = Len(proposals)
  BY UpdateProposalProperties
<1>4. /\ DOMAIN proposals' = DOMAIN proposals
      /\ proposals'[findById(pid)] = p
      /\ \A i \in DOMAIN proposals \ {findById(pid)} : proposals'[i] = proposals[i]
  BY <1>1, <1>2, <1>3
<1>5. IdsDescend'
  <2>1. ASSUME NEW i \in DOMAIN proposals
        PROVE  proposals'[i].proposalId = nextProposalId - i
    <3>1. CASE i = findById(pid)
      BY <1>1, <1>2, <1>4, <3>1
    <3>2. CASE i # findById(pid)
      BY <1>4, <3>2 DEF IdsDescend
    <3> QED BY <3>1, <3>2
  <2> QED BY <1>3, <1>4, <2>1 DEF IdsDescend
<1> QED BY <1>1, <1>2, <1>3, <1>4, <1>5

LEMMA FoundInState ==
  ASSUME TypeOK, IdsDescend, NEW pid \in Nat, NEW st, findByIdInState(pid, st) # 0
  PROVE  /\ findByIdInState(pid, st) = findById(pid)
         /\ findById(pid) # 0
         /\ findById(pid) \in DOMAIN proposals
         /\ proposals[findById(pid)] \in Proposal
         /\ proposals[findById(pid)].proposalId = pid
         /\ proposals[findById(pid)].state = st
         /\ pid \in 1..(nextProposalId - 1)
<1>1. /\ findByIdInState(pid, st) = findById(pid)
      /\ findById(pid) # 0
      /\ proposals[findById(pid)].state = st
  BY DEF findByIdInState
<1>2. findById(pid) \in DOMAIN proposals
  BY <1>1, FindByIdProperties DEF TypeOK
<1> QED BY <1>1, <1>2, FindByIdProperties DEF TypeOK

LEMMA CallerIdsAreNat == TypeOK => CallerIds \subseteq Nat
  BY DEF TypeOK, CallerIds

---------------------------------------------------------------------------
(* Each handler preserves the invariant of the proposals.                  *)

LEMMA SubmitPreserves ==
  ASSUME ProposalInv, NEW chain \in Chains, submitProposal(chain)
  PROVE  ProposalInv'
<1> DEFINE p == newProposal(nextProposalId, chain)
<1>1. /\ nextProposalId \in Nat
      /\ now \in Nat
      /\ proposals \in Seq(Proposal)
      /\ reviews \in Seq(Review)
      /\ nextProposalId = Len(proposals) + 1
  BY DEF ProposalInv, TypeOK, IdsDescend
<1>2. p \in Proposal
  BY <1>1, BoundsAssumption DEF newProposal, Proposal, ProposalState
<1>3. /\ p.state = "SPending"
      /\ p.proposalId = nextProposalId
      /\ p.assignedAuditors = << >>
  BY DEF newProposal
<1>4. /\ proposals' = <<p>> \o proposals
      /\ nextProposalId' = nextProposalId + 1
      /\ reviews' = reviews
      /\ now' = now
  BY DEF submitProposal
<1> HIDE DEF p
<1>5. /\ proposals' \in Seq(Proposal)
      /\ Len(proposals') = Len(proposals) + 1
      /\ proposals'[1] = p
      /\ \A i \in 2..(Len(proposals) + 1) : proposals'[i] = proposals[i - 1]
  BY <1>1, <1>2, <1>4, ConsProperties
<1>6. TypeOK'
  BY <1>1, <1>4, <1>5 DEF TypeOK
<1>7. IdsDescend'
  BY <1>1, <1>3, <1>4, <1>5 DEF ProposalInv, IdsDescend
<1>8. ReviewsRefer'
  BY <1>1, <1>4 DEF ProposalInv, ReviewsRefer
<1>9. SingleAssignment'
  BY <1>1, <1>3, <1>4, <1>5 DEF ProposalInv, SingleAssignment
<1>10. ReviewHistory'
  <2>1. Explained(p)
    BY <1>1, <1>3 DEF ProposalInv, ReviewsRefer, Explained, ReviewsOf
  <2>2. ASSUME NEW k \in DOMAIN proposals'
        PROVE  Explained(proposals'[k])
    <3>1. CASE k = 1
      BY <1>5, <2>1, <3>1
    <3>2. CASE k # 1
      <4>1. k - 1 \in DOMAIN proposals /\ proposals'[k] = proposals[k - 1]
        BY <1>1, <1>5, <3>2
      <4> QED BY <4>1 DEF ProposalInv, ReviewHistory
    <3> QED BY <3>1, <3>2
  <2>3. ASSUME NEW k \in DOMAIN proposals'
        PROVE  Explained(proposals[k])'
    <3>1. Explained(proposals'[k])
      BY <2>2
    <3>2. reviews' = reviews
      BY <1>4
    <3> HIDE DEF p
    <3> QED BY <3>1, <3>2 DEF Explained, ReviewsOf, Undecided, DecidedBy, Newest
  <2> QED BY <2>3 DEF ReviewHistory
<1> QED BY <1>6, <1>7, <1>8, <1>9, <1>10 DEF ProposalInv

(* A write that leaves the reviews alone keeps the history explained when  *)
(* the record written back is.                                             *)
LEMMA RewriteKeepsHistory ==
  ASSUME ProposalInv, NEW pid \in Nat, findById(pid) # 0,
         NEW p \in Proposal, p.proposalId = pid, Explained(p),
         p.state # "SPending", Len(p.assignedAuditors) = 1,
         proposals' = updateProposal(pid, p),
         UNCHANGED <<nextProposalId, reviews, now>>
  PROVE  ProposalInv'
<1>1. /\ proposals' \in Seq(Proposal)
      /\ DOMAIN proposals' = DOMAIN proposals
      /\ proposals'[findById(pid)] = p
      /\ \A i \in DOMAIN proposals \ {findById(pid)} : proposals'[i] = proposals[i]
      /\ IdsDescend'
  BY RewriteProperties DEF ProposalInv
<1>2. TypeOK'
  BY <1>1 DEF ProposalInv, TypeOK
<1>3. ReviewsRefer'
  BY DEF ProposalInv, ReviewsRefer
<1>4. SingleAssignment'
  <2>1. ASSUME NEW k \in DOMAIN proposals
        PROVE  Len(proposals'[k].assignedAuditors) =
                 (IF proposals'[k].state = "SPending" THEN 0 ELSE 1)
    <3>1. CASE k = findById(pid)
      BY <1>1, <3>1
    <3>2. CASE k # findById(pid)
      BY <1>1, <3>2 DEF ProposalInv, SingleAssignment
    <3> QED BY <3>1, <3>2
  <2> QED BY <1>1, <2>1 DEF SingleAssignment
<1>5. ReviewHistory'
  <2>1. ASSUME NEW k \in DOMAIN proposals
        PROVE  Explained(proposals'[k])
    BY <1>1 DEF ProposalInv, ReviewHistory
  <2> QED BY <1>1, <2>1 DEF ReviewHistory, Explained, ReviewsOf, Undecided, DecidedBy, Newest
<1> QED BY <1>1, <1>2, <1>3, <1>4, <1>5 DEF ProposalInv

LEMMA AssignPreserves ==
  ASSUME ProposalInv, NEW pid \in CallerIds, NEW a \in Auditors,
         assignAuditorToProposal(pid, a)
  PROVE  ProposalInv'
<1> DEFINE k == findById(pid)
           p == assignAuditor(proposals[k], a)
<1>1. pid \in Nat /\ now \in Nat
  BY CallerIdsAreNat DEF ProposalInv, TypeOK
<1>2. /\ findByIdInState(pid, "SPending") # 0
      /\ proposals' = updateProposal(pid, assignAuditor(proposals[findByIdInState(pid, "SPending")], a))
      /\ UNCHANGED <<nextProposalId, reviews, now>>
  BY DEF assignAuditorToProposal
<1>3. /\ findByIdInState(pid, "SPending") = k
      /\ k # 0
      /\ k \in DOMAIN proposals
      /\ proposals[k] \in Proposal
      /\ proposals[k].proposalId = pid
      /\ proposals[k].state = "SPending"
  BY <1>1, <1>2, FoundInState DEF ProposalInv
<1>4. proposals[k].assignedAuditors = << >>
  <2>1. Len(proposals[k].assignedAuditors) = 0
    BY <1>3 DEF ProposalInv, SingleAssignment
  <2> QED BY <1>3, <2>1 DEF Proposal
<1>5. /\ p \in Proposal
      /\ p.proposalId = pid
      /\ p.state = "SUnderReview"
      /\ Len(p.assignedAuditors) = 1
  <2>1. <<a>> \o proposals[k].assignedAuditors = <<a>>
    BY <1>4
  <2>2. p = [proposals[k] EXCEPT !.state = "SUnderReview",
                                 !.assignedAuditors = <<a>>, !.updatedAt = now]
    BY <1>3, <2>1 DEF assignAuditor, Proposal
  <2>3. <<a>> \in Seq(Auditors) /\ Len(<<a>>) = 1
    OBVIOUS
  <2> HIDE DEF p
  <2> QED BY <1>1, <1>3, <2>2, <2>3 DEF Proposal, ProposalState
<1>6. Explained(p)
  <2>1. ReviewsOf(pid) = {}
    BY <1>3 DEF ProposalInv, ReviewHistory, Explained
  <2> HIDE DEF p
  <2> QED BY <1>5, <2>1 DEF Explained, Undecided
<1> HIDE DEF p
<1>7. proposals' = updateProposal(pid, p)
  BY <1>2, <1>3 DEF p
<1> QED BY <1>1, <1>2, <1>3, <1>5, <1>6, <1>7, RewriteKeepsHistory

LEMMA ExecutePreserves ==
  ASSUME ProposalInv, NEW pid \in Nat, markExecuted(pid)
  PROVE  ProposalInv'
<1> DEFINE k == findById(pid)
           p == transitionTo(proposals[k], "SExecuted")
<1>1. now \in Nat
  BY DEF ProposalInv, TypeOK
<1>2. /\ findByIdInState(pid, "SApproved") # 0
      /\ proposals' = updateProposal(pid, transitionTo(proposals[findByIdInState(pid, "SApproved")], "SExecuted"))
      /\ UNCHANGED <<nextProposalId, reviews, now>>
  BY DEF markExecuted
<1>3. /\ findByIdInState(pid, "SApproved") = k
      /\ k # 0
      /\ k \in DOMAIN proposals
      /\ proposals[k] \in Proposal
      /\ proposals[k].proposalId = pid
      /\ proposals[k].state = "SApproved"
  BY <1>2, FoundInState DEF ProposalInv
<1>4. Len(proposals[k].assignedAuditors) = 1
  BY <1>3 DEF ProposalInv, SingleAssignment
<1>5. /\ p \in Proposal
      /\ p.proposalId = pid
      /\ p.state = "SExecuted"
      /\ Len(p.assignedAuditors) = 1
  BY <1>1, <1>3, <1>4 DEF transitionTo, Proposal, ProposalState
<1>6. Explained(p)
  <2>1. DecidedBy(pid, "ApproveUpgrade")
    BY <1>3 DEF ProposalInv, ReviewHistory, Explained
  <2> HIDE DEF p
  <2> QED BY <1>5, <2>1 DEF Explained
<1> HIDE DEF p
<1>7. proposals' = updateProposal(pid, p)
  BY <1>2, <1>3 DEF p
<1> QED BY <1>2, <1>3, <1>5, <1>6, <1>7, RewriteKeepsHistory

(* A new review of pid shifts the reviews already on record by one place   *)
(* and stands in front of them.                                            *)
LEMMA ReviewFront ==
  ASSUME NEW r \in Review, reviews \in Seq(Review), reviews' = <<r>> \o reviews
  PROVE  /\ reviews' \in Seq(Review)
         /\ Len(reviews') = Len(reviews) + 1
         /\ reviews'[1] = r
         /\ \A i \in 1..Len(reviews) : reviews'[i + 1] = reviews[i]
         /\ \A i \in 2..(Len(reviews) + 1) : reviews'[i] = reviews[i - 1]
         /\ DOMAIN reviews = 1..Len(reviews)
         /\ DOMAIN reviews' = 1..(Len(reviews) + 1)
<1>1. reviews' \in Seq(Review) /\ Len(reviews') = Len(reviews) + 1
  BY ConsProperties
<1>2. DOMAIN reviews = 1..Len(reviews) /\ DOMAIN reviews' = 1..(Len(reviews) + 1)
  BY <1>1
<1> QED BY <1>1, <1>2, ConsProperties

(* The reviews of every other proposal are shifted, nothing else.          *)
LEMMA OtherReviewsKept ==
  ASSUME NEW r \in Review, reviews \in Seq(Review), reviews' = <<r>> \o reviews,
         NEW q \in Nat, q # r.proposalId, NEW d
  PROVE  /\ ReviewsOf(q) = {} => ReviewsOf(q)' = {}
         /\ Undecided(ReviewsOf(q)) => Undecided(ReviewsOf(q))'
         /\ DecidedBy(q, d) => DecidedBy(q, d)'
<1>1. /\ Len(reviews) \in Nat
      /\ reviews'[1] = r
      /\ \A i \in 1..Len(reviews) : reviews'[i + 1] = reviews[i]
      /\ \A i \in 2..(Len(reviews) + 1) : reviews'[i] = reviews[i - 1]
      /\ DOMAIN reviews = 1..Len(reviews)
      /\ DOMAIN reviews' = 1..(Len(reviews) + 1)
  BY ReviewFront
<1>2. /\ \A i \in ReviewsOf(q) : i \in 1..Len(reviews) /\ i + 1 \in ReviewsOf(q)'
      /\ \A i \in ReviewsOf(q)' :
           i \in 2..(Len(reviews) + 1) /\ i - 1 \in ReviewsOf(q)
  BY <1>1 DEF ReviewsOf
<1>3. ASSUME Undecided(ReviewsOf(q))
      PROVE  Undecided(ReviewsOf(q))'
  BY <1>1, <1>2, <1>3 DEF Undecided
<1>4. ASSUME DecidedBy(q, d)
      PROVE  DecidedBy(q, d)'
  <2>1. PICK i \in ReviewsOf(q) : /\ Newest(q, i)
                                  /\ reviews[i].decision = d
                                  /\ Undecided(ReviewsOf(q) \ {i})
    BY <1>4 DEF DecidedBy
  <2>2. /\ i \in 1..Len(reviews)
        /\ i + 1 \in ReviewsOf(q)'
        /\ reviews'[i + 1].decision = d
    BY <1>1, <1>2, <2>1
  <2>3. Newest(q, i + 1)'
    <3>1. ASSUME NEW j \in ReviewsOf(q)'
          PROVE  i + 1 <= j
      BY <1>2, <2>1, <2>2, <3>1 DEF Newest
    <3> QED BY <2>2, <3>1 DEF Newest
  <2>4. Undecided(ReviewsOf(q) \ {i + 1})'
    <3>1. ASSUME NEW j \in ReviewsOf(q)', j # i + 1
          PROVE  reviews'[j].decision = "RequestChanges"
      <4>1. j \in 2..(Len(reviews) + 1) /\ j - 1 \in ReviewsOf(q) \ {i}
        BY <1>2, <2>2, <3>1
      <4> QED BY <1>1, <2>1, <4>1 DEF Undecided
    <3> QED BY <3>1 DEF Undecided
  <2> QED BY <2>2, <2>3, <2>4 DEF DecidedBy
<1> QED BY <1>2, <1>3, <1>4

(* The reviews of the proposal reviewed.                                   *)
LEMMA OwnReviewsExtended ==
  ASSUME NEW r \in Review, reviews \in Seq(Review), reviews' = <<r>> \o reviews,
         NEW q, q = r.proposalId, Undecided(ReviewsOf(q))
  PROVE  /\ r.decision = "RequestChanges" => Undecided(ReviewsOf(q))'
         /\ DecidedBy(q, r.decision)'
<1>1. /\ Len(reviews) \in Nat
      /\ reviews'[1] = r
      /\ \A i \in 2..(Len(reviews) + 1) : reviews'[i] = reviews[i - 1]
      /\ DOMAIN reviews = 1..Len(reviews)
      /\ DOMAIN reviews' = 1..(Len(reviews) + 1)
  BY ReviewFront
<1>2. /\ 1 \in ReviewsOf(q)'
      /\ \A i \in ReviewsOf(q)' :
           i # 1 => i \in 2..(Len(reviews) + 1) /\ i - 1 \in ReviewsOf(q)
      /\ \A i \in ReviewsOf(q)' : 1 <= i
  BY <1>1 DEF ReviewsOf
<1>3. \A i \in ReviewsOf(q)' : i # 1 => reviews'[i].decision = "RequestChanges"
  BY <1>1, <1>2 DEF Undecided
<1>4. r.decision = "RequestChanges" => Undecided(ReviewsOf(q))'
  BY <1>1, <1>3 DEF Undecided
<1>5. Newest(q, 1)' /\ Undecided(ReviewsOf(q) \ {1})'
  BY <1>2, <1>3 DEF Newest, Undecided
<1> QED BY <1>1, <1>2, <1>4, <1>5 DEF DecidedBy

LEMMA ReviewPreserves ==
  ASSUME ProposalInv, NEW pid \in CallerIds, NEW a \in Auditors,
         NEW d \in ReviewDecision, submitReview(pid, a, d)
  PROVE  ProposalInv'
<1> DEFINE k == findById(pid)
           p == Reviewed(proposals[k], d)
           r == [ proposalId |-> pid, auditorId |-> a,
                  decision |-> d, timestamp |-> now ]
<1>1. /\ pid \in Nat
      /\ now \in Nat
      /\ nextProposalId \in Nat
      /\ reviews \in Seq(Review)
  BY CallerIdsAreNat DEF ProposalInv, TypeOK
<1>2. r \in Review /\ r.proposalId = pid /\ r.decision = d
  BY <1>1 DEF Review
<1>3. /\ findByIdInState(pid, "SUnderReview") # 0
      /\ proposals' = updateProposal(pid, Reviewed(proposals[findByIdInState(pid, "SUnderReview")], d))
      /\ reviews' = <<r>> \o reviews
      /\ UNCHANGED <<nextProposalId, now>>
  BY DEF submitReview
<1>4. /\ findByIdInState(pid, "SUnderReview") = k
      /\ k # 0
      /\ k \in DOMAIN proposals
      /\ proposals[k] \in Proposal
      /\ proposals[k].proposalId = pid
      /\ proposals[k].state = "SUnderReview"
      /\ pid \in 1..(nextProposalId - 1)
  BY <1>1, <1>3, FoundInState DEF ProposalInv
<1>5. Len(proposals[k].assignedAuditors) = 1 /\ Undecided(ReviewsOf(pid))
  BY <1>4 DEF ProposalInv, SingleAssignment, ReviewHistory, Explained
<1>6. /\ p \in Proposal
      /\ p.proposalId = pid
      /\ Len(p.assignedAuditors) = 1
      /\ d = "ApproveUpgrade" => p.state = "SApproved"
      /\ d = "RejectUpgrade" => p.state = "SRejected"
      /\ d = "RequestChanges" => p.state = "SUnderReview"
  BY <1>1, <1>4, <1>5 DEF Reviewed, transitionTo, Proposal, ProposalState, ReviewDecision
<1> HIDE DEF p, r
<1>7. /\ proposals' \in Seq(Proposal)
      /\ DOMAIN proposals' = DOMAIN proposals
      /\ proposals'[k] = p
      /\ \A i \in DOMAIN proposals \ {k} : proposals'[i] = proposals[i]
      /\ IdsDescend'
  <2>1. proposals' = updateProposal(pid, p)
    BY <1>3, <1>4 DEF p
  <2> QED BY <1>1, <1>3, <1>4, <1>6, <2>1, RewriteProperties DEF ProposalInv
<1>8. /\ reviews' \in Seq(Review)
      /\ reviews'[1] = r
      /\ \A i \in 2..(Len(reviews) + 1) : reviews'[i] = reviews[i - 1]
      /\ DOMAIN reviews = 1..Len(reviews)
      /\ DOMAIN reviews' = 1..(Len(reviews) + 1)
      /\ Len(reviews) \in Nat
  BY <1>1, <1>2, <1>3, ReviewFront
<1>9. TypeOK'
  BY <1>1, <1>3, <1>7, <1>8 DEF TypeOK
<1>10. ReviewsRefer'
  BY <1>2, <1>3, <1>4, <1>8 DEF ProposalInv, ReviewsRefer
<1>11. SingleAssignment'
  <2>1. ASSUME NEW i \in DOMAIN proposals
        PROVE  Len(proposals'[i].assignedAuditors) =
                 (IF proposals'[i].state = "SPending" THEN 0 ELSE 1)
    <3>1. CASE i = k
      BY <1>6, <1>7, <3>1 DEF ReviewDecision
    <3>2. CASE i # k
      BY <1>7, <3>2 DEF ProposalInv, SingleAssignment
    <3> QED BY <3>1, <3>2
  <2> QED BY <1>7, <2>1 DEF SingleAssignment
<1>12. ReviewHistory'
  <2>1. ASSUME NEW i \in DOMAIN proposals
        PROVE  Explained(proposals[i])'
    <3>1. CASE i = k
      <4>1. /\ d = "RequestChanges" => Undecided(ReviewsOf(pid))'
            /\ DecidedBy(pid, d)'
        BY <1>1, <1>2, <1>3, <1>5, OwnReviewsExtended
      <4> QED BY <1>6, <1>7, <3>1, <4>1 DEF Explained, ReviewDecision
    <3>2. CASE i # k
      <4> DEFINE q == proposals[i].proposalId
      <4>1. q \in Nat /\ q # pid /\ proposals'[i] = proposals[i]
        <5>1. proposals[i] \in Proposal /\ i \in Nat /\ k \in Nat
          BY <1>4 DEF ProposalInv, TypeOK
        <5>2. q = nextProposalId - i /\ pid = nextProposalId - k
          BY <1>4 DEF ProposalInv, IdsDescend
        <5> QED BY <1>1, <1>7, <3>2, <5>1, <5>2 DEF Proposal
      <4>2. \A dd : /\ ReviewsOf(q) = {} => ReviewsOf(q)' = {}
                    /\ Undecided(ReviewsOf(q)) => Undecided(ReviewsOf(q))'
                    /\ DecidedBy(q, dd) => DecidedBy(q, dd)'
        BY <1>1, <1>2, <1>3, <4>1, OtherReviewsKept
      <4>3. Explained(proposals[i])
        BY DEF ProposalInv, ReviewHistory
      <4> QED BY <4>1, <4>2, <4>3 DEF Explained
    <3> QED BY <3>1, <3>2
  <2> QED BY <1>7, <2>1 DEF ReviewHistory
<1> QED BY <1>7, <1>9, <1>10, <1>11, <1>12 DEF ProposalInv

---------------------------------------------------------------------------
(* The composition.                                                        *)

LEMMA SubmitKeepsRequests ==
  ASSUME UpgradeInv, NEW chain \in Chains, submitProposal(chain), UNCHANGED requests
  PROVE  RequestsStayAuthorized' /\ ExecutedMeansLanded'
<1> DEFINE p == newProposal(nextProposalId, chain)
<1>1. /\ nextProposalId \in Nat
      /\ proposals \in Seq(Proposal)
      /\ proposals' = <<p>> \o proposals
      /\ p \in Proposal
      /\ p.state = "SPending"
      /\ p.proposalId = nextProposalId
  BY BoundsAssumption DEF UpgradeInv, ProposalInv, TypeOK, submitProposal,
     newProposal, Proposal, ProposalState
<1> HIDE DEF p
<1>2. /\ Len(proposals) \in Nat
      /\ DOMAIN proposals = 1..Len(proposals)
      /\ DOMAIN proposals' = 1..(Len(proposals) + 1)
      /\ proposals'[1] = p
      /\ \A k \in 1..Len(proposals) : proposals'[k + 1] = proposals[k]
      /\ \A k \in 2..(Len(proposals) + 1) : proposals'[k] = proposals[k - 1]
  BY <1>1, ConsProperties
<1>3. RequestsStayAuthorized'
  <2>1. ASSUME NEW r \in requests
        PROVE  \E k \in DOMAIN proposals' :
                 /\ proposals'[k].proposalId = r.proposalId
                 /\ proposals'[k].state \in {"SApproved", "SExecuted"}
    <3>1. PICK k \in DOMAIN proposals :
             /\ proposals[k].proposalId = r.proposalId
             /\ proposals[k].state \in {"SApproved", "SExecuted"}
      BY DEF UpgradeInv, RequestsStayAuthorized
    <3>2. k + 1 \in DOMAIN proposals' /\ proposals'[k + 1] = proposals[k]
      BY <1>2
    <3> QED BY <3>1, <3>2
  <2> QED BY <2>1 DEF RequestsStayAuthorized
<1>4. \A r \in requests : r.proposalId # nextProposalId
  BY <1>1, <1>2 DEF UpgradeInv, RequestsStayAuthorized, ProposalInv, IdsDescend
<1>5. ExecutedMeansLanded'
  <2>1. ASSUME NEW k \in DOMAIN proposals'
        PROVE  proposals'[k].state = "SExecuted" <=>
                 \E r \in requests : /\ r.proposalId = proposals'[k].proposalId
                                     /\ r.confirmed
                                     /\ r.tx = "landed"
    <3>1. CASE k = 1
      BY <1>1, <1>2, <1>4, <3>1
    <3>2. CASE k # 1
      <4>1. k - 1 \in DOMAIN proposals /\ proposals'[k] = proposals[k - 1]
        BY <1>2, <3>2
      <4> QED BY <4>1 DEF UpgradeInv, ExecutedMeansLanded
    <3> QED BY <3>1, <3>2
  <2> QED BY <2>1 DEF ExecutedMeansLanded
<1> QED BY <1>3, <1>5

(* Assignment and review write a proposal no request refers to.            *)
LEMMA ReviewKeepsRequests ==
  ASSUME UpgradeInv, UNCHANGED requests,
         NEW k \in DOMAIN proposals, DOMAIN proposals' = DOMAIN proposals,
         proposals[k].state \in {"SPending", "SUnderReview"},
         proposals'[k].proposalId = proposals[k].proposalId,
         proposals'[k].state # "SExecuted",
         \A i \in DOMAIN proposals \ {k} : proposals'[i] = proposals[i]
  PROVE  RequestsStayAuthorized' /\ ExecutedMeansLanded'
<1>1. RequestsStayAuthorized'
  BY DEF UpgradeInv, RequestsStayAuthorized
<1>2. ASSUME NEW i \in DOMAIN proposals
      PROVE  proposals'[i].state = "SExecuted" <=>
               \E r \in requests : /\ r.proposalId = proposals'[i].proposalId
                                   /\ r.confirmed
                                   /\ r.tx = "landed"
  BY DEF UpgradeInv, ExecutedMeansLanded
<1> QED BY <1>1, <1>2 DEF ExecutedMeansLanded

(* The shape of every handler but submitProposal: one proposal, found in   *)
(* state from, is written back in one of the states to under the same id.  *)
Writes(k, from, to) ==
  /\ k \in DOMAIN proposals
  /\ DOMAIN proposals' = DOMAIN proposals
  /\ proposals[k].state = from
  /\ proposals'[k].state \in to
  /\ proposals'[k].proposalId = proposals[k].proposalId
  /\ from # "SPending" =>
       proposals'[k].assignedAuditors = proposals[k].assignedAuditors
  /\ \A i \in DOMAIN proposals \ {k} : proposals'[i] = proposals[i]

LEMMA UpdateWrites ==
  ASSUME ProposalInv, NEW pid \in Nat, NEW from, NEW to,
         findByIdInState(pid, from) # 0,
         NEW p \in Proposal, p.proposalId = pid, p.state \in to,
         from # "SPending" =>
           p.assignedAuditors = proposals[findById(pid)].assignedAuditors,
         proposals' = updateProposal(pid, p),
         nextProposalId' = nextProposalId
  PROVE  Writes(findById(pid), from, to)
<1>1. /\ findById(pid) # 0
      /\ proposals[findById(pid)].proposalId = pid
      /\ proposals[findById(pid)].state = from
  BY FoundInState DEF ProposalInv
<1>2. /\ DOMAIN proposals' = DOMAIN proposals
      /\ findById(pid) \in DOMAIN proposals
      /\ proposals'[findById(pid)] = p
      /\ \A i \in DOMAIN proposals \ {findById(pid)} : proposals'[i] = proposals[i]
  BY <1>1, RewriteProperties DEF ProposalInv
<1> QED BY <1>1, <1>2 DEF Writes

LEMMA AssignWrites ==
  ASSUME ProposalInv, NEW pid \in CallerIds, NEW a \in Auditors,
         assignAuditorToProposal(pid, a)
  PROVE  Writes(findById(pid), "SPending", {"SUnderReview"})
<1> DEFINE p == assignAuditor(proposals[findById(pid)], a)
<1>1. pid \in Nat /\ now \in Nat
  BY CallerIdsAreNat DEF ProposalInv, TypeOK
<1>2. findByIdInState(pid, "SPending") # 0
  BY DEF assignAuditorToProposal
<1>3. /\ findByIdInState(pid, "SPending") = findById(pid)
      /\ proposals[findById(pid)] \in Proposal
      /\ proposals[findById(pid)].proposalId = pid
  BY <1>1, <1>2, FoundInState DEF ProposalInv
<1>4. proposals' = updateProposal(pid, p) /\ nextProposalId' = nextProposalId
  BY <1>3 DEF assignAuditorToProposal
<1>5. /\ <<a>> \o proposals[findById(pid)].assignedAuditors \in Seq(Auditors)
  BY <1>3, ConsProperties DEF Proposal
<1>6. p \in Proposal /\ p.proposalId = pid /\ p.state \in {"SUnderReview"}
  BY <1>1, <1>3, <1>5 DEF assignAuditor, Proposal, ProposalState
<1> HIDE DEF p
<1> QED BY <1>1, <1>2, <1>4, <1>6, UpdateWrites

LEMMA ReviewWrites ==
  ASSUME ProposalInv, NEW pid \in CallerIds, NEW a \in Auditors,
         NEW d \in ReviewDecision, submitReview(pid, a, d)
  PROVE  Writes(findById(pid), "SUnderReview",
                {"SUnderReview", "SApproved", "SRejected"})
<1> DEFINE p == Reviewed(proposals[findById(pid)], d)
<1>1. pid \in Nat /\ now \in Nat
  BY CallerIdsAreNat DEF ProposalInv, TypeOK
<1>2. findByIdInState(pid, "SUnderReview") # 0
  BY DEF submitReview
<1>3. /\ findByIdInState(pid, "SUnderReview") = findById(pid)
      /\ proposals[findById(pid)] \in Proposal
      /\ proposals[findById(pid)].proposalId = pid
      /\ proposals[findById(pid)].state = "SUnderReview"
  BY <1>1, <1>2, FoundInState DEF ProposalInv
<1>4. proposals' = updateProposal(pid, p) /\ nextProposalId' = nextProposalId
  BY <1>3 DEF submitReview
<1>5. /\ p \in Proposal
      /\ p.proposalId = pid
      /\ p.state \in {"SUnderReview", "SApproved", "SRejected"}
      /\ p.assignedAuditors = proposals[findById(pid)].assignedAuditors
  BY <1>1, <1>3 DEF Reviewed, transitionTo, Proposal, ProposalState, ReviewDecision
<1> HIDE DEF p
<1> QED BY <1>1, <1>2, <1>4, <1>5, UpdateWrites

LEMMA ExecuteWrites ==
  ASSUME ProposalInv, NEW pid \in Nat, markExecuted(pid)
  PROVE  Writes(findById(pid), "SApproved", {"SExecuted"})
<1> DEFINE p == transitionTo(proposals[findById(pid)], "SExecuted")
<1>1. now \in Nat
  BY DEF ProposalInv, TypeOK
<1>2. findByIdInState(pid, "SApproved") # 0
  BY DEF markExecuted
<1>3. /\ findByIdInState(pid, "SApproved") = findById(pid)
      /\ proposals[findById(pid)] \in Proposal
      /\ proposals[findById(pid)].proposalId = pid
  BY <1>2, FoundInState DEF ProposalInv
<1>4. proposals' = updateProposal(pid, p) /\ nextProposalId' = nextProposalId
  BY <1>3 DEF markExecuted
<1>5. /\ p \in Proposal /\ p.proposalId = pid /\ p.state \in {"SExecuted"}
      /\ p.assignedAuditors = proposals[findById(pid)].assignedAuditors
  BY <1>1, <1>3 DEF transitionTo, Proposal, ProposalState
<1> HIDE DEF p
<1> QED BY <1>2, <1>4, <1>5, UpdateWrites

(* Time passing, and every step that leaves the proposals alone.           *)
LEMMA UnchangedKeepsProposals ==
  ASSUME ProposalInv, UNCHANGED <<nextProposalId, proposals, reviews>>, now' \in Nat
  PROVE  ProposalInv'
<1>1. TypeOK'
  BY DEF ProposalInv, TypeOK
<1>2. IdsDescend'
  BY DEF ProposalInv, IdsDescend
<1>3. ReviewsRefer'
  BY DEF ProposalInv, ReviewsRefer
<1>4. SingleAssignment'
  BY DEF ProposalInv, SingleAssignment
<1>5. ReviewHistory'
  <2>1. ASSUME NEW p
        PROVE  Explained(p) => Explained(p)'
    BY DEF Explained, ReviewsOf, Undecided, DecidedBy, Newest
  <2> QED BY <2>1 DEF ProposalInv, ReviewHistory
<1> QED BY <1>1, <1>2, <1>3, <1>4, <1>5 DEF ProposalInv

(* Recording the answer to a request.                                      *)
LEMMA RecordPreserves ==
  ASSUME UpgradeInv, NEW r \in requests, NEW result \in ExecutionResult,
         recordExecution(r, result)
  PROVE  UpgradeInv'
<1> DEFINE s == [r EXCEPT !.confirmed = @ \/ result = "ExecSuccess"]
           pid == r.proposalId
<1>1. /\ r \in ExecutionRequest
      /\ result = "ExecSuccess" => r.tx = "landed"
      /\ requests' = (requests \ {r}) \cup {s}
      /\ pid \in Nat
  BY DEF UpgradeInv, UpgradeTypeOK, recordExecution, Reportable, Answered,
     ExecutionRequest, ExecutionResult
<1>2. /\ s \in ExecutionRequest
      /\ s.proposalId = pid
      /\ s.confirmed <=> r.confirmed \/ result = "ExecSuccess"
      /\ s.tx = r.tx
  BY <1>1 DEF ExecutionRequest
<1> HIDE DEF s
<1>3. requests' \in SUBSET ExecutionRequest /\ IsFiniteSet(requests')
  BY <1>1, <1>2, FS_AddElement, FS_RemoveElement DEF UpgradeInv, UpgradeTypeOK
<1>4. ReportsTrue'
  BY <1>1, <1>2 DEF UpgradeInv, ReportsTrue
<1>5. PICK k \in DOMAIN proposals : /\ proposals[k].proposalId = pid
                                    /\ proposals[k].state \in {"SApproved", "SExecuted"}
  BY DEF UpgradeInv, RequestsStayAuthorized
<1>6. findById(pid) = k
  <2>1. /\ nextProposalId \in Nat
        /\ Len(proposals) \in Nat
        /\ DOMAIN proposals = 1..Len(proposals)
        /\ pid = nextProposalId - k
        /\ nextProposalId = Len(proposals) + 1
    BY <1>5 DEF UpgradeInv, ProposalInv, TypeOK, IdsDescend
  <2>2. pid \in 1..(nextProposalId - 1)
    BY <2>1
  <2> QED BY <1>1, <2>1, <2>2, FindByIdProperties DEF UpgradeInv, ProposalInv
<1>7. CASE result = "ExecSuccess" /\ findByIdInState(pid, "SApproved") # 0
  <2>1. markExecuted(pid)
    BY <1>7 DEF recordExecution
  <2>2. ProposalInv'
    BY <1>1, <2>1, ExecutePreserves DEF UpgradeInv
  <2>3. Writes(k, "SApproved", {"SExecuted"})
    BY <1>1, <1>6, <2>1, ExecuteWrites DEF UpgradeInv
  <2>4. RequestsStayAuthorized'
    <3>1. ASSUME NEW q \in requests'
          PROVE  \E i \in DOMAIN proposals' :
                   /\ proposals'[i].proposalId = q.proposalId
                   /\ proposals'[i].state \in {"SApproved", "SExecuted"}
      <4>1. PICK i \in DOMAIN proposals :
               /\ proposals[i].proposalId = q.proposalId
               /\ proposals[i].state \in {"SApproved", "SExecuted"}
        BY <1>1, <1>2 DEF UpgradeInv, RequestsStayAuthorized
      <4> QED BY <2>3, <4>1 DEF Writes
    <3> QED BY <3>1 DEF RequestsStayAuthorized
  <2>5. ExecutedMeansLanded'
    <3>1. ASSUME NEW i \in DOMAIN proposals'
          PROVE  proposals'[i].state = "SExecuted" <=>
                   \E q \in requests' : /\ q.proposalId = proposals'[i].proposalId
                                        /\ q.confirmed
                                        /\ q.tx = "landed"
      <4>1. CASE i = k
        BY <1>1, <1>2, <1>5, <1>7, <2>3, <4>1 DEF Writes
      <4>2. CASE i # k
        <5>1. i \in DOMAIN proposals /\ proposals'[i] = proposals[i]
          BY <2>3, <4>2 DEF Writes
        <5>2. proposals[i].proposalId # pid
          BY <1>5, <4>2, <5>1 DEF UpgradeInv, ProposalInv, TypeOK, IdsDescend
        <5> QED BY <1>1, <1>2, <5>1, <5>2 DEF UpgradeInv, ExecutedMeansLanded
      <4> QED BY <4>1, <4>2
    <3> QED BY <3>1 DEF ExecutedMeansLanded
  <2> QED BY <1>3, <1>4, <2>2, <2>4, <2>5
        DEF UpgradeInv, UpgradeTypeOK, ProposalInv
<1>8. CASE ~(result = "ExecSuccess" /\ findByIdInState(pid, "SApproved") # 0)
  <2>1. UNCHANGED vars
    BY <1>8 DEF recordExecution
  <2>2. ProposalInv' /\ proposals' = proposals
    BY <2>1, UnchangedKeepsProposals DEF UpgradeInv, ProposalInv, TypeOK, vars
  <2>3. RequestsStayAuthorized'
    BY <1>1, <1>2, <2>2 DEF UpgradeInv, RequestsStayAuthorized
  <2>4. result = "ExecSuccess" => proposals[k].state = "SExecuted"
    <3>1. k \in Nat \ {0}
      BY DEF UpgradeInv, ProposalInv, TypeOK
    <3>2. proposals[k].state = "SApproved" => findByIdInState(pid, "SApproved") = k
      BY <1>6, <3>1 DEF findByIdInState
    <3> QED BY <1>5, <1>8, <3>1, <3>2
  <2>5. ExecutedMeansLanded'
    <3>1. ASSUME NEW i \in DOMAIN proposals
          PROVE  proposals[i].state = "SExecuted" <=>
                   \E q \in requests' : /\ q.proposalId = proposals[i].proposalId
                                        /\ q.confirmed
                                        /\ q.tx = "landed"
      <4>1. i # k => proposals[i].proposalId # pid
        BY <1>5 DEF UpgradeInv, ProposalInv, TypeOK, IdsDescend
      <4> QED BY <1>1, <1>2, <2>4, <4>1 DEF UpgradeInv, ExecutedMeansLanded
    <3> QED BY <2>2, <3>1 DEF ExecutedMeansLanded
  <2> QED BY <1>3, <1>4, <2>2, <2>3, <2>5
        DEF UpgradeInv, UpgradeTypeOK, ProposalInv
<1> QED BY <1>7, <1>8
(* Preparing a request for an Approved proposal.                           *)
LEMMA PreparePreserves ==
  ASSUME UpgradeInv, NEW pid \in CallerIds, prepareExecution(pid)
  PROVE  UpgradeInv'
<1> DEFINE r == [ serial |-> Cardinality(requests), proposalId |-> pid,
                  tx |-> "pending", confirmed |-> FALSE ]
<1>1. /\ pid \in Nat
      /\ findById(pid) # 0
      /\ proposals[findById(pid)].state = "SApproved"
      /\ requests' = requests \cup {r}
      /\ UNCHANGED vars
  BY CallerIdsAreNat DEF UpgradeInv, ProposalInv, prepareExecution
<1>2. r \in ExecutionRequest
  <2>1. Cardinality(requests) \in Nat
    BY FS_CardinalityType DEF UpgradeInv, UpgradeTypeOK
  <2> QED BY <1>1, <2>1 DEF ExecutionRequest
<1>3. r.proposalId = pid /\ ~r.confirmed
  OBVIOUS
<1> HIDE DEF r
<1>4. ProposalInv' /\ proposals' = proposals
  BY <1>1, UnchangedKeepsProposals DEF UpgradeInv, ProposalInv, TypeOK, vars
<1>5. requests' \in SUBSET ExecutionRequest /\ IsFiniteSet(requests')
  BY <1>1, <1>2, FS_AddElement DEF UpgradeInv, UpgradeTypeOK
<1>6. ReportsTrue'
  BY <1>1, <1>3 DEF UpgradeInv, ReportsTrue
<1>7. RequestsStayAuthorized'
  <2>1. /\ findById(pid) \in DOMAIN proposals
        /\ proposals[findById(pid)].proposalId = pid
    BY <1>1, FindByIdProperties DEF UpgradeInv, ProposalInv, TypeOK
  <2> QED BY <1>1, <1>3, <1>4, <2>1 DEF UpgradeInv, RequestsStayAuthorized
<1>8. ExecutedMeansLanded'
  BY <1>1, <1>3, <1>4 DEF UpgradeInv, ExecutedMeansLanded
<1> QED BY <1>4, <1>5, <1>6, <1>7, <1>8 DEF UpgradeInv, UpgradeTypeOK, ProposalInv

(* The chain settling a pending transaction, reported on by nobody yet or  *)
(* reported as timed out or failed.                                        *)
LEMMA SettlePreserves ==
  ASSUME UpgradeInv, NEW r \in requests, ChainSettles(r)
  PROVE  UpgradeInv'
<1>1. PICK outcome \in {"landed", "reverted"} :
         requests' = (requests \ {r}) \cup {[r EXCEPT !.tx = outcome]}
  BY DEF ChainSettles
<1> DEFINE s == [r EXCEPT !.tx = outcome]
<1>2. /\ r \in ExecutionRequest
      /\ r.tx = "pending"
      /\ ~r.confirmed
      /\ UNCHANGED vars
  BY DEF ChainSettles, UpgradeInv, UpgradeTypeOK, ReportsTrue
<1>3. /\ s \in ExecutionRequest
      /\ s.proposalId = r.proposalId
      /\ s.confirmed = r.confirmed
  BY <1>2 DEF ExecutionRequest
<1> HIDE DEF s
<1>4. requests' = (requests \ {r}) \cup {s}
  BY <1>1 DEF s
<1>5. ProposalInv' /\ proposals' = proposals
  BY <1>2, UnchangedKeepsProposals DEF UpgradeInv, ProposalInv, TypeOK, vars
<1>6. requests' \in SUBSET ExecutionRequest /\ IsFiniteSet(requests')
  BY <1>3, <1>4, FS_AddElement, FS_RemoveElement DEF UpgradeInv, UpgradeTypeOK
<1>7. ReportsTrue'
  BY <1>2, <1>3, <1>4 DEF UpgradeInv, ReportsTrue
<1>8. RequestsStayAuthorized'
  BY <1>3, <1>4, <1>5 DEF UpgradeInv, RequestsStayAuthorized
<1>9. ExecutedMeansLanded'
  BY <1>2, <1>3, <1>4, <1>5 DEF UpgradeInv, ExecutedMeansLanded
<1> QED BY <1>5, <1>6, <1>7, <1>8, <1>9 DEF UpgradeInv, UpgradeTypeOK, ProposalInv

(* A handler of Proposals, as a step of the composition.                   *)
LEMMA ProposalStepPreserves ==
  ASSUME UpgradeInv, ProposalStep
  PROVE  UpgradeInv'
<1>1. UNCHANGED requests /\ ProposalInv
  BY DEF ProposalStep, UpgradeInv
<1>2. ReportsTrue' /\ requests' \in SUBSET ExecutionRequest /\ IsFiniteSet(requests')
  BY <1>1 DEF UpgradeInv, UpgradeTypeOK, ReportsTrue
<1>3. SUFFICES ProposalInv' /\ RequestsStayAuthorized' /\ ExecutedMeansLanded'
  BY <1>2 DEF UpgradeInv, UpgradeTypeOK, ProposalInv
<1>4. CASE Submit
  <2>1. PICK chain \in Chains : submitProposal(chain)
    BY <1>4 DEF Submit
  <2> QED BY <1>1, <2>1, SubmitPreserves, SubmitKeepsRequests
<1>5. CASE Assign
  <2>1. PICK pid \in CallerIds, a \in Auditors : assignAuditorToProposal(pid, a)
    BY <1>5 DEF Assign
  <2>2. ProposalInv'
    BY <1>1, <2>1, AssignPreserves
  <2>3. Writes(findById(pid), "SPending", {"SUnderReview"})
    BY <1>1, <2>1, AssignWrites
  <2> QED BY <1>1, <2>2, <2>3, ReviewKeepsRequests DEF Writes
<1>6. CASE SendReview
  <2>1. PICK pid \in CallerIds, a \in Auditors, d \in ReviewDecision :
           submitReview(pid, a, d)
    BY <1>6 DEF SendReview
  <2>2. ProposalInv'
    BY <1>1, <2>1, ReviewPreserves
  <2>3. Writes(findById(pid), "SUnderReview", {"SUnderReview", "SApproved", "SRejected"})
    BY <1>1, <2>1, ReviewWrites
  <2> QED BY <1>1, <2>2, <2>3, ReviewKeepsRequests DEF Writes
<1>7. CASE Tick
  <2>1. UNCHANGED <<nextProposalId, proposals, reviews>> /\ now' \in Nat
    BY <1>1, <1>7 DEF Tick, ProposalInv, TypeOK
  <2>2. ProposalInv'
    BY <1>1, <2>1, UnchangedKeepsProposals
  <2> QED BY <1>1, <2>1, <2>2 DEF UpgradeInv, RequestsStayAuthorized, ExecutedMeansLanded
<1> QED BY <1>4, <1>5, <1>6, <1>7 DEF ProposalStep

---------------------------------------------------------------------------
(* UpgradeInv holds in every reachable state, for any number of proposals, *)
(* reviews, auditors, chains and requests and any lifetime of a proposal.  *)
THEOREM UpgradeInvariance == UpgradeSpec => []UpgradeInv
<1>1. UpgradeInit => UpgradeInv
  <2> SUFFICES ASSUME UpgradeInit
               PROVE  UpgradeInv
    OBVIOUS
  <2>1. /\ nextProposalId = 1 /\ now = 0 /\ requests = {}
        /\ proposals = << >> /\ reviews = << >>
        /\ DOMAIN proposals = {} /\ DOMAIN reviews = {}
    BY DEF UpgradeInit, Init
  <2>2. ProposalInv
    BY <2>1 DEF ProposalInv, TypeOK, IdsDescend, ReviewsRefer, SingleAssignment,
       ReviewHistory
  <2>3. ReportsTrue /\ RequestsStayAuthorized /\ ExecutedMeansLanded
    BY <2>1 DEF ReportsTrue, RequestsStayAuthorized, ExecutedMeansLanded
  <2>4. requests \in SUBSET ExecutionRequest /\ IsFiniteSet(requests)
    BY <2>1, FS_EmptySet
  <2> QED BY <2>2, <2>3, <2>4 DEF UpgradeInv, UpgradeTypeOK, ProposalInv
<1>2. UpgradeInv /\ [UpgradeNext]_uvars => UpgradeInv'
  <2> SUFFICES ASSUME UpgradeInv, [UpgradeNext]_uvars
               PROVE  UpgradeInv'
    OBVIOUS
  <2>1. CASE ProposalStep
    BY <2>1, ProposalStepPreserves
  <2>2. CASE Prepare
    BY <2>2, PreparePreserves DEF Prepare
  <2>3. CASE Settle
    BY <2>3, SettlePreserves DEF Settle
  <2>4. CASE Record
    BY <2>4, RecordPreserves DEF Record
  <2>5. CASE UNCHANGED uvars
    <3>1. UNCHANGED <<nextProposalId, proposals, reviews>> /\ now' \in Nat
                 /\ requests' = requests
      BY <2>5 DEF uvars, UpgradeInv, ProposalInv, TypeOK
    <3>2. ProposalInv'
      BY <3>1, UnchangedKeepsProposals DEF UpgradeInv
    <3> QED BY <3>1, <3>2 DEF UpgradeInv, UpgradeTypeOK, ProposalInv, ReportsTrue,
            RequestsStayAuthorized, ExecutedMeansLanded
  <2> QED BY <2>1, <2>2, <2>3, <2>4, <2>5 DEF UpgradeNext
<1> QED BY <1>1, <1>2, PTL DEF UpgradeSpec

(* Every reachable state is well typed.                                    *)
THEOREM UpgradeTypeCorrect == UpgradeSpec => []UpgradeTypeOK
<1>1. UpgradeInv => UpgradeTypeOK
  BY DEF UpgradeInv
<1> QED BY <1>1, UpgradeInvariance, PTL

(* Ids stay dense and descending, so a handler writes back exactly the     *)
(* proposal whose state it checked.                                        *)
THEOREM IdsAlwaysDescend == UpgradeSpec => []IdsDescend
<1>1. UpgradeInv => IdsDescend
  BY DEF UpgradeInv, ProposalInv
<1> QED BY <1>1, UpgradeInvariance, PTL

(* The recorded reviews explain every proposal's state: no review changes  *)
(* a decision already taken.                                               *)
THEOREM ReviewsExplainState == UpgradeSpec => []ReviewHistory
<1>1. UpgradeInv => ReviewHistory
  BY DEF UpgradeInv, ProposalInv
<1> QED BY <1>1, UpgradeInvariance, PTL

(* What a step keeps of the assignments.                                   *)
AssignmentsKept ==
  \A i \in DOMAIN proposals : proposals[i].state # "SPending" =>
    /\ Len(proposals[i].assignedAuditors) = 1
    /\ \E j \in DOMAIN proposals' :
         /\ proposals'[j].proposalId = proposals[i].proposalId
         /\ proposals'[j].assignedAuditors = proposals[i].assignedAuditors

LEMMA WritesKeepAssignments ==
  ASSUME SingleAssignment, NEW k, NEW from, NEW to, Writes(k, from, to)
  PROVE  AssignmentsKept
<1>1. ASSUME NEW i \in DOMAIN proposals, proposals[i].state # "SPending"
      PROVE  /\ i \in DOMAIN proposals'
             /\ proposals'[i].proposalId = proposals[i].proposalId
             /\ proposals'[i].assignedAuditors = proposals[i].assignedAuditors
  BY <1>1 DEF Writes
<1> QED BY <1>1 DEF AssignmentsKept, SingleAssignment

LEMMA SubmitKeepsAssignments ==
  ASSUME ProposalInv, NEW chain \in Chains, submitProposal(chain)
  PROVE  AssignmentsKept
<1>1. /\ newProposal(nextProposalId, chain) \in Proposal
      /\ proposals \in Seq(Proposal)
      /\ proposals' = <<newProposal(nextProposalId, chain)>> \o proposals
  BY BoundsAssumption DEF ProposalInv, TypeOK, submitProposal, newProposal, Proposal,
     ProposalState
<1>2. ASSUME NEW i \in DOMAIN proposals
      PROVE  i + 1 \in DOMAIN proposals' /\ proposals'[i + 1] = proposals[i]
  BY <1>1, ConsProperties
<1> QED BY <1>2 DEF AssignmentsKept, SingleAssignment, ProposalInv

(* No handler, in any order, assigns a second auditor to a proposal or     *)
(* replaces the one it has.                                                *)
THEOREM AssignedOnce == UpgradeSpec => AssignmentKept
<1>1. UpgradeInv /\ [UpgradeNext]_uvars => [AssignmentsKept]_vars
  <2> SUFFICES ASSUME UpgradeInv, [UpgradeNext]_uvars, ~UNCHANGED vars
               PROVE  AssignmentsKept
    OBVIOUS
  <2>1. ProposalInv /\ SingleAssignment
    BY DEF UpgradeInv, ProposalInv
  <2>2. CASE Submit
    BY <2>1, <2>2, SubmitKeepsAssignments DEF Submit
  <2>3. CASE Assign
    BY <2>1, <2>3, AssignWrites, WritesKeepAssignments DEF Assign
  <2>4. CASE SendReview
    BY <2>1, <2>4, ReviewWrites, WritesKeepAssignments DEF SendReview
  <2>5. CASE Tick
    BY <2>1, <2>5 DEF Tick, AssignmentsKept, SingleAssignment
  <2>6. CASE Record
    <3>1. PICK r \in requests, result \in ExecutionResult : recordExecution(r, result)
      BY <2>6 DEF Record
    <3>2. markExecuted(r.proposalId)
      BY <3>1 DEF recordExecution
    <3>3. r.proposalId \in Nat
      BY DEF UpgradeInv, UpgradeTypeOK, ExecutionRequest
    <3> QED BY <2>1, <3>2, <3>3, ExecuteWrites, WritesKeepAssignments
  <2> QED BY <2>2, <2>3, <2>4, <2>5, <2>6
          DEF UpgradeNext, ProposalStep, Prepare, prepareExecution, Settle, ChainSettles,
              uvars, vars
<1>2. UpgradeSpec => [][AssignmentsKept]_vars
  BY <1>1, UpgradeInvariance, PTL DEF UpgradeSpec
<1> QED BY <1>2 DEF AssignmentsKept, AssignmentKept

(* A request in flight never outlives the approval it was prepared under.  *)
THEOREM RequestsAlwaysAuthorized == UpgradeSpec => []RequestsStayAuthorized
<1>1. UpgradeInv => RequestsStayAuthorized
  BY DEF UpgradeInv
<1> QED BY <1>1, UpgradeInvariance, PTL

(* Executed proposals are the ones with a reported, landed transaction.    *)
THEOREM ExecutedAlwaysLanded == UpgradeSpec => []ExecutedMeansLanded
<1>1. UpgradeInv => ExecutedMeansLanded
  BY DEF UpgradeInv
<1> QED BY <1>1, UpgradeInvariance, PTL
---------------------------------------------------------------------------
(* The refinement of ProposalLifecycle.                                    *)

(* The status the refinement mapping reads off the proposals.              *)
Status == [i \in 1..Len(proposals) |-> proposals[Len(proposals) + 1 - i].state]

(* A handler that writes one proposal back is one step of its lifecycle.   *)
LEMMA WritesStep ==
  ASSUME ProposalInv, ProposalInv', NEW k, NEW from, NEW to, Writes(k, from, to)
  PROVE  /\ Len(proposals) + 1 - k \in DOMAIN Status
         /\ Status[Len(proposals) + 1 - k] = from
         /\ \E t \in to : Status' = [Status EXCEPT ![Len(proposals) + 1 - k] = t]
<1> DEFINE n == Len(proposals)
<1>1. /\ n \in Nat /\ k \in 1..n
      /\ Len(proposals') = n
      /\ proposals[k].state = from
      /\ proposals'[k].state \in to
      /\ \A i \in (1..n) \ {k} : proposals'[i] = proposals[i]
  BY DEF ProposalInv, TypeOK, Writes
<1>2. Status = [i \in 1..n |-> proposals[n + 1 - i].state]
  BY DEF Status
<1>3. Status' = [i \in 1..n |-> proposals'[n + 1 - i].state]
  BY <1>1 DEF Status
<1> HIDE DEF n
<1>4. n + 1 - k \in 1..n /\ n + 1 - (n + 1 - k) = k
  BY <1>1
<1>5. /\ n + 1 - k \in DOMAIN Status
      /\ Status[n + 1 - k] = from
  BY <1>1, <1>2, <1>4
<1>6. Status' = [Status EXCEPT ![n + 1 - k] = proposals'[k].state]
  <2>1. ASSUME NEW i \in 1..n
        PROVE  proposals'[n + 1 - i].state =
                 IF i = n + 1 - k THEN proposals'[k].state ELSE proposals[n + 1 - i].state
    <3>1. CASE i = n + 1 - k
      BY <1>1, <3>1
    <3>2. CASE i # n + 1 - k
      <4>1. n + 1 - i \in (1..n) \ {k}
        BY <1>1, <3>2
      <4> QED BY <1>1, <3>2, <4>1
    <3> QED BY <3>1, <3>2
  <2>2. Status' = [i \in 1..n |->
                     IF i = n + 1 - k THEN proposals'[k].state ELSE proposals[n + 1 - i].state]
    BY <1>3, <2>1
  <2> QED BY <1>2, <1>4, <2>2
<1> QED BY <1>1, <1>5, <1>6 DEF n

(* Submitting appends a Pending proposal to the lifecycle.                 *)
LEMMA SubmitStep ==
  ASSUME ProposalInv, NEW chain \in Chains, submitProposal(chain)
  PROVE  Status' = Append(Status, "SPending")
<1> DEFINE p == newProposal(nextProposalId, chain)
           n == Len(proposals)
<1>1. /\ proposals \in Seq(Proposal)
      /\ proposals' = <<p>> \o proposals
      /\ p \in Proposal
      /\ p.state = "SPending"
  BY BoundsAssumption DEF ProposalInv, TypeOK, submitProposal,
     newProposal, Proposal, ProposalState
<1> HIDE DEF p
<1>2. /\ n \in Nat
      /\ Len(proposals') = n + 1
      /\ proposals'[1] = p
      /\ \A i \in 2..(n + 1) : proposals'[i] = proposals[i - 1]
  BY <1>1, ConsProperties
<1>3. Status = [i \in 1..n |-> proposals[n + 1 - i].state]
  BY DEF Status
<1>4. Status' = [i \in 1..(n + 1) |-> proposals'[n + 2 - i].state]
  BY <1>2 DEF Status
<1> HIDE DEF n
<1>5. ASSUME NEW i \in 1..(n + 1)
      PROVE  proposals'[n + 2 - i].state =
               IF i = n + 1 THEN "SPending" ELSE proposals[n + 1 - i].state
  <2>1. CASE i = n + 1
    BY <1>1, <1>2, <2>1
  <2>2. CASE i # n + 1
    <3>1. n + 2 - i \in 2..(n + 1) /\ (n + 2 - i) - 1 = n + 1 - i
      BY <1>2, <2>2
    <3> QED BY <1>2, <2>2, <3>1
  <2> QED BY <2>1, <2>2
<1>6. Status \in Seq(ProposalState) /\ Len(Status) = n
  <2>1. ASSUME NEW i \in 1..n
        PROVE  proposals[n + 1 - i].state \in ProposalState
    <3>1. n + 1 - i \in 1..Len(proposals)
      BY <1>2 DEF n
    <3>2. proposals[n + 1 - i] \in Proposal
      BY <1>1, <3>1
    <3> QED BY <3>2 DEF Proposal
  <2> QED BY <1>2, <1>3, <2>1
<1>7. Append(Status, "SPending") =
        [i \in 1..(n + 1) |-> IF i = n + 1 THEN "SPending" ELSE Status[i]]
  <2> DEFINE A == Append(Status, "SPending")
  <2>1. /\ A \in Seq(ProposalState)
        /\ Len(A) = n + 1
        /\ A[n + 1] = "SPending"
        /\ \A i \in 1..n : A[i] = Status[i]
    BY <1>2, <1>6, AppendProperties DEF ProposalState
  <2> HIDE DEF A
  <2>2. A = [i \in 1..(n + 1) |-> A[i]]
    BY <1>2, <2>1
  <2>3. \A i \in 1..(n + 1) : A[i] = IF i = n + 1 THEN "SPending" ELSE Status[i]
    BY <1>2, <2>1
  <2>4. A = [i \in 1..(n + 1) |-> IF i = n + 1 THEN "SPending" ELSE Status[i]]
    BY <2>2, <2>3
  <2> QED BY <2>4 DEF A
<1>8. Status' = [i \in 1..(n + 1) |->
                   IF i = n + 1 THEN "SPending" ELSE proposals[n + 1 - i].state]
  BY <1>4, <1>5
<1>9. \A i \in 1..(n + 1) : i # n + 1 => Status[i] = proposals[n + 1 - i].state
  BY <1>2, <1>3
<1> QED BY <1>7, <1>8, <1>9

(* Every behaviour of the handlers and of the execution requests is a      *)
(* behaviour of the PFR lifecycle: the run-time checks in Core let through *)
(* no transition the indexed monad has no constructor for.                 *)
THEOREM UpgradeRefinesLifecycle == UpgradeSpec => ImplementsLifecycle
<1>1. UpgradeInit => Lifecycle!Init
  BY DEF UpgradeInit, Init, Lifecycle!Init
<1>2. UpgradeInv /\ UpgradeInv' /\ [UpgradeNext]_uvars
        => [Lifecycle!Next]_(Status)
  <2> SUFFICES ASSUME UpgradeInv, UpgradeInv', [UpgradeNext]_uvars
               PROVE  Lifecycle!Next \/ Status' = Status
    OBVIOUS
  <2>0. ProposalInv /\ ProposalInv'
    BY DEF UpgradeInv
  <2>1. ASSUME NEW chain \in Chains, submitProposal(chain)
        PROVE  Lifecycle!Next
    BY <2>0, <2>1, SubmitStep DEF Lifecycle!Next, Lifecycle!Create, Status
  <2>2. ASSUME NEW pid \in CallerIds, NEW a \in Auditors, assignAuditorToProposal(pid, a)
        PROVE  Lifecycle!Next
    <3> DEFINE m == Len(proposals) + 1 - findById(pid)
    <3>1. Writes(findById(pid), "SPending", {"SUnderReview"})
      BY <2>0, <2>2, AssignWrites
    <3>2. /\ m \in DOMAIN Status
          /\ Status[m] = "SPending"
          /\ Status' = [Status EXCEPT ![m] = "SUnderReview"]
      BY <2>0, <3>1, WritesStep
    <3> HIDE DEF m
    <3> QED BY <3>2 DEF Lifecycle!Next, Lifecycle!PAssignAuditor, Lifecycle!Step, Status
  <2>3. ASSUME NEW pid \in CallerIds, NEW a \in Auditors, NEW d \in ReviewDecision,
               submitReview(pid, a, d)
        PROVE  Lifecycle!Next \/ Status' = Status
    <3> DEFINE m == Len(proposals) + 1 - findById(pid)
    <3>1. Writes(findById(pid), "SUnderReview",
                 {"SUnderReview", "SApproved", "SRejected"})
      BY <2>0, <2>3, ReviewWrites
    <3>2. /\ m \in DOMAIN Status
          /\ Status[m] = "SUnderReview"
          /\ \E t \in {"SUnderReview", "SApproved", "SRejected"} :
                Status' = [Status EXCEPT ![m] = t]
      BY <2>0, <3>1, WritesStep
    <3> HIDE DEF m
    <3>3. CASE Status' = [Status EXCEPT ![m] = "SUnderReview"]
      BY <3>2, <3>3 DEF Status
    <3>4. CASE Status' = [Status EXCEPT ![m] = "SApproved"]
      BY <3>2, <3>4 DEF Lifecycle!Next, Lifecycle!PApprove, Lifecycle!Step, Status
    <3>5. CASE Status' = [Status EXCEPT ![m] = "SRejected"]
      BY <3>2, <3>5 DEF Lifecycle!Next, Lifecycle!PReject, Lifecycle!Step, Status
    <3> QED BY <3>2, <3>3, <3>4, <3>5
  <2>4. ASSUME NEW pid \in Nat, markExecuted(pid)
        PROVE  Lifecycle!Next
    <3> DEFINE m == Len(proposals) + 1 - findById(pid)
    <3>1. Writes(findById(pid), "SApproved", {"SExecuted"})
      BY <2>0, <2>4, ExecuteWrites
    <3>2. /\ m \in DOMAIN Status
          /\ Status[m] = "SApproved"
          /\ Status' = [Status EXCEPT ![m] = "SExecuted"]
      BY <2>0, <3>1, WritesStep
    <3> HIDE DEF m
    <3> QED BY <3>2 DEF Lifecycle!Next, Lifecycle!PExecute, Lifecycle!Step, Status
  <2>5. proposals' = proposals => Status' = Status
    BY DEF Status
  <2>6. CASE ProposalStep
    <3>1. Tick => proposals' = proposals
      BY DEF Tick
    <3> QED BY <2>1, <2>2, <2>3, <2>5, <2>6, <3>1
          DEF ProposalStep, Submit, Assign, SendReview
  <2>7. CASE Prepare \/ Settle
    BY <2>5, <2>7 DEF Prepare, Settle, prepareExecution, ChainSettles, vars
  <2>8. CASE Record
    <3>1. PICK r \in requests, result \in ExecutionResult : recordExecution(r, result)
      BY <2>8 DEF Record
    <3>2. r.proposalId \in Nat
      BY DEF UpgradeInv, UpgradeTypeOK, ExecutionRequest
    <3>3. markExecuted(r.proposalId) \/ UNCHANGED vars
      BY <3>1 DEF recordExecution
    <3> QED BY <2>4, <2>5, <3>2, <3>3 DEF vars
  <2>9. CASE UNCHANGED uvars
    BY <2>5, <2>9 DEF uvars
  <2> QED BY <2>6, <2>7, <2>8, <2>9 DEF UpgradeNext
<1>3. UpgradeInv /\ UpgradeInv' /\ [UpgradeNext]_uvars
        => [Lifecycle!Next]_([i \in 1..Len(proposals) |->
                                proposals[Len(proposals) + 1 - i].state])
  BY <1>2 DEF Status
<1> QED BY <1>1, <1>3, UpgradeInvariance, PTL
      DEF UpgradeSpec, ImplementsLifecycle, Lifecycle!Spec
=============================================================================
