----------------------------- MODULE Proposals -----------------------------
(***************************************************************************)
(* The upgrade proposals of the canister: the part of OUCState that the    *)
(* handlers of OUC.Functions.Core read and write, and the wrappers of      *)
(* Proposals.Core around them.  Every handler is one canister message, so  *)
(* it is atomic; a handler that fails returns the state it was given, so a *)
(* failing call is a stuttering step and has no action here.               *)
(* UpgradeExecution composes the handlers with the execution on chain,     *)
(* from where markExecuted is called.                                      *)
(*                                                                         *)
(* The payload of a proposal (addresses, rationale, code hash) is never    *)
(* inspected by these handlers and is left out, and so are the fields of   *)
(* OUCState they pass through untouched (auditors, owner, version).        *)
(***************************************************************************)
EXTENDS Naturals, Sequences, SequencesExt

CONSTANTS
  Auditors,       \* principals that may be assigned or may send a review
  Chains,         \* chain ids a proposal can name
  ProposalTtl,    \* life of a proposal: 604800000000000 ns in the code
  MaxProposals,   \* bound on the proposals submitted
  MaxReviews,     \* bound on the reviews recorded
  MaxTime         \* bound on the clock

ASSUME BoundsAssumption ==
  /\ ProposalTtl \in Nat \ {0}
  /\ MaxProposals \in Nat
  /\ MaxReviews \in Nat
  /\ MaxTime \in Nat

VARIABLES
  nextProposalId, \* OUCState.nextProposalId
  proposals,      \* OUCState.proposals, newest first
  reviews,        \* OUCState.reviews, newest first
  now             \* the time the next message is executed at

vars == <<nextProposalId, proposals, reviews, now>>

ProposalState == {"SPending", "SUnderReview", "SApproved", "SRejected",
                  "SExecuted", "SExpired", "SCancelled"}

ReviewDecision == {"ApproveUpgrade", "RejectUpgrade", "RequestChanges"}

Proposal == [ proposalId       : Nat,
              chainId          : Chains,
              state            : ProposalState,
              assignedAuditors : Seq(Auditors),
              createdAt        : Nat,
              updatedAt        : Nat,
              expiresAt        : Nat ]

Review == [ proposalId : Nat,
            auditorId  : Auditors,
            decision   : ReviewDecision,
            timestamp  : Nat ]

TypeOK == /\ nextProposalId \in Nat
          /\ proposals \in Seq(Proposal)
          /\ reviews \in Seq(Review)
          /\ now \in Nat

---------------------------------------------------------------------------
(* OUC.Types.Validated.Proposal: the run-time transition table.            *)

isValidTransition(from, to) ==
  <<from, to>> \in { <<"SPending", "SUnderReview">>,
                     <<"SUnderReview", "SApproved">>,
                     <<"SUnderReview", "SRejected">>,
                     <<"SApproved", "SExecuted">>,
                     <<"SPending", "SExpired">>,
                     <<"SUnderReview", "SExpired">>,
                     <<"SPending", "SCancelled">> }

(* The record transitionTo returns when the transition is valid.           *)
transitionTo(p, to) == [p EXCEPT !.state = to, !.updatedAt = now]

\* Mutated form: the life of the proposal is counted backwards.
NewProposalExpired(pid, chain) ==
  [ proposalId |-> pid, chainId |-> chain, state |-> "SPending",
    assignedAuditors |-> << >>,
    createdAt |-> now, updatedAt |-> now, expiresAt |-> now - ProposalTtl ]

newProposal(pid, chain) ==
  [ proposalId |-> pid, chainId |-> chain, state |-> "SPending",
    assignedAuditors |-> << >>,
    createdAt |-> now, updatedAt |-> now, expiresAt |-> now + ProposalTtl ]

assignAuditor(p, auditor) ==
  [p EXCEPT !.state = "SUnderReview",
            !.assignedAuditors = <<auditor>> \o @,
            !.updatedAt = now]

(* findById: the index of the first proposal of the list with this id, 0   *)
(* when there is none.                                                     *)
findById(pid) == SelectInSeq(proposals, LAMBDA p : p.proposalId = pid)

(* Mutated form: the state of the proposal found is not looked at.         *)
FindInAnyState(pid, st) == findById(pid)

findByIdInState(pid, st) ==
  IF findById(pid) # 0 /\ proposals[findById(pid)].state = st
  THEN findById(pid)
  ELSE 0

(* Every handler writes a proposal back by mapping over the whole list.    *)
updateProposal(pid, p) ==
  [i \in DOMAIN proposals |->
     IF proposals[i].proposalId = pid THEN p ELSE proposals[i]]

---------------------------------------------------------------------------
Init == /\ nextProposalId = 1
        /\ proposals = << >>
        /\ reviews = << >>
        /\ now = 0

(* Mutated form: the counter is not advanced, so two proposals share an id.*)
SubmitSameId(chain) ==
  /\ Len(proposals) < MaxProposals
  /\ proposals' = <<newProposal(nextProposalId, chain)>> \o proposals
  /\ UNCHANGED <<nextProposalId, reviews, now>>

(* submitProposal, and receiveFromLifecycle around it.                     *)
submitProposal(chain) ==
  /\ Len(proposals) < MaxProposals
  /\ proposals' = <<newProposal(nextProposalId, chain)>> \o proposals
  /\ nextProposalId' = nextProposalId + 1
  /\ UNCHANGED <<reviews, now>>

(* assignAuditorToProposal, and routeToAuditor around it.                  *)
assignAuditorToProposal(pid, auditor) ==
  LET k == findByIdInState(pid, "SPending")
  IN  /\ k # 0
      /\ proposals' = updateProposal(pid, assignAuditor(proposals[k], auditor))
      /\ UNCHANGED <<nextProposalId, reviews, now>>

(* The proposal a review leaves behind; RequestChanges returns it as it is.*)
Reviewed(p, decision) ==
  CASE decision = "ApproveUpgrade" -> transitionTo(p, "SApproved")
    [] decision = "RejectUpgrade"  -> transitionTo(p, "SRejected")
    [] decision = "RequestChanges" -> p

(* Mutated form: the review itself is dropped.                             *)
ReviewNotKept(pid, auditor, decision) ==
  LET k == findByIdInState(pid, "SUnderReview")
  IN  /\ Len(reviews) < MaxReviews
      /\ k # 0
      /\ proposals' = updateProposal(pid, Reviewed(proposals[k], decision))
      /\ UNCHANGED <<nextProposalId, reviews, now>>

(* submitReview, and processReview around it.                              *)
submitReview(pid, auditor, decision) ==
  LET k == findByIdInState(pid, "SUnderReview")
      review == [ proposalId |-> pid, auditorId |-> auditor,
                  decision |-> decision, timestamp |-> now ]
  IN  /\ Len(reviews) < MaxReviews
      /\ k # 0
      /\ CASE decision = "ApproveUpgrade" ->
                isValidTransition(proposals[k].state, "SApproved")
           [] decision = "RejectUpgrade" ->
                isValidTransition(proposals[k].state, "SRejected")
           [] decision = "RequestChanges" -> TRUE
      /\ proposals' = updateProposal(pid, Reviewed(proposals[k], decision))
      /\ reviews' = <<review>> \o reviews
      /\ UNCHANGED <<nextProposalId, now>>

markExecuted(pid) ==
  LET k == findByIdInState(pid, "SApproved")
  IN  /\ k # 0
      /\ isValidTransition(proposals[k].state, "SExecuted")
      /\ proposals' = updateProposal(pid, transitionTo(proposals[k], "SExecuted"))
      /\ UNCHANGED <<nextProposalId, reviews, now>>

(* The clock of the subnet: ic0_time never goes back.                      *)
Tick == /\ now < MaxTime
        /\ now' = now + 1
        /\ UNCHANGED <<nextProposalId, proposals, reviews>>

(* The ids a caller may name: any id handed out, and one that was not.     *)
CallerIds == 1..nextProposalId

Submit == \E chain \in Chains : submitProposal(chain)
Assign == \E pid \in CallerIds, a \in Auditors : assignAuditorToProposal(pid, a)
SendReview == \E pid \in CallerIds, a \in Auditors, d \in ReviewDecision :
                submitReview(pid, a, d)

---------------------------------------------------------------------------
(* Properties                                                              *)

(* Ids are dense and descend along the list, so the first match of         *)
(* findById is the only match and the map in the handlers rewrites exactly *)
(* the proposal that was checked.                                          *)
IdsDescend ==
  /\ Len(proposals) = nextProposalId - 1
  /\ \A i \in DOMAIN proposals : proposals[i].proposalId = nextProposalId - i

(* The reviews on record explain the state of every proposal: none while   *)
(* it is pending; only requests for changes while it is under review; and  *)
(* once it is decided exactly one deciding review, the newest, that says   *)
(* what the state says.  This is the rule of the code, by which the first  *)
(* deciding review decides, whoever sends it; AllAssignedApprove, below,   *)
(* is the rule of the documents.                                           *)
ReviewsOf(pid) == { i \in DOMAIN reviews : reviews[i].proposalId = pid }

Newest(pid, i) == i \in ReviewsOf(pid) /\ \A j \in ReviewsOf(pid) : i <= j

Undecided(S) == \A i \in S : reviews[i].decision = "RequestChanges"

DecidedBy(pid, decision) ==
  \E i \in ReviewsOf(pid) : /\ Newest(pid, i)
                            /\ reviews[i].decision = decision
                            /\ Undecided(ReviewsOf(pid) \ {i})

Explained(p) ==
  /\ p.state = "SPending" => ReviewsOf(p.proposalId) = {}
  /\ p.state = "SUnderReview" => Undecided(ReviewsOf(p.proposalId))
  /\ p.state \in {"SApproved", "SExecuted"} =>
       DecidedBy(p.proposalId, "ApproveUpgrade")
  /\ p.state = "SRejected" => DecidedBy(p.proposalId, "RejectUpgrade")
  /\ p.state \notin {"SExpired", "SCancelled"}

ReviewHistory == \A k \in DOMAIN proposals : Explained(proposals[k])

(* Every review is of a proposal that was submitted.                       *)
ReviewsRefer ==
  \A i \in DOMAIN reviews : reviews[i].proposalId \in 1..(nextProposalId - 1)

(* No auditor before the assignment, one after it.                         *)
SingleAssignment ==
  \A k \in DOMAIN proposals :
    Len(proposals[k].assignedAuditors) =
      (IF proposals[k].state = "SPending" THEN 0 ELSE 1)

(* From the moment it leaves Pending a proposal has one assigned auditor,  *)
(* and at every later step the very same one: no handler, in any order,    *)
(* assigns a second auditor or another in place of the first, although the *)
(* record declares a list and the documents speak of reassignment.         *)
AssignmentKept ==
  [][ \A i \in DOMAIN proposals : proposals[i].state # "SPending" =>
        /\ Len(proposals[i].assignedAuditors) = 1
        /\ \E j \in DOMAIN proposals' :
             /\ proposals'[j].proposalId = proposals[i].proposalId
             /\ proposals'[j].assignedAuditors = proposals[i].assignedAuditors ]_vars

(* "All assigned auditors must approve": an approved proposal has an       *)
(* approving review by every auditor assigned to it.  The handlers do not  *)
(* compare the sender of a review with the assigned auditors.              *)
AllAssignedApprove ==
  \A k \in DOMAIN proposals : proposals[k].state \in {"SApproved", "SExecuted"} =>
    \A i \in DOMAIN proposals[k].assignedAuditors :
      \E j \in ReviewsOf(proposals[k].proposalId) :
        /\ reviews[j].auditorId = proposals[k].assignedAuditors[i]
        /\ reviews[j].decision = "ApproveUpgrade"

(* The inductive strengthening of the invariants above.                    *)
ProposalInv == /\ TypeOK
               /\ IdsDescend
               /\ ReviewsRefer
               /\ SingleAssignment
               /\ ReviewHistory

(* The handlers move a proposal only along the constructors of PFR.        *)
Lifecycle == INSTANCE ProposalLifecycle WITH
  status <- [i \in 1..Len(proposals) |-> proposals[Len(proposals) + 1 - i].state]

ImplementsLifecycle == Lifecycle!Spec
=============================================================================
