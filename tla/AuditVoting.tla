---------------------------- MODULE AuditVoting ----------------------------
(***************************************************************************)
(* The n-of-m vote of the auditors assigned to one proposal                *)
(* (AuditorPool.Vote), started with the list automatic assignment selected *)
(* from the pool, while the pool goes on changing: nothing takes an        *)
(* auditor suspended or slashed since back off the list.                   *)
(*                                                                         *)
(* The outcome is evaluated when a vote is recorded and at no other time:  *)
(* a period that ends without another vote leaves the result open.         *)
(***************************************************************************)
EXTENDS AuditorPool

CONSTANTS
  RequiredApprovals,  \* values of VoteConfig.requiredApprovals
  VotingPeriod,       \* VoteConfig.votingPeriod
  MaxTime             \* bound on the clock

ASSUME VotingBounds ==
  /\ RequiredApprovals \subseteq Nat
  /\ VotingPeriod \in Nat
  /\ MaxTime \in Nat

VARIABLES
  voteState,      \* the ProposalVoteState, NoVote before initVoteState
  now             \* the time the next message is executed at

vars == <<auditors, deposited, slashedAmount, voteState, now>>

VoteDecision == {"Approve", "Reject", "RequestChanges", "Abstain"}

ThresholdResult == {"NotReached", "ApprovalReached", "RejectionReached", "Expired"}

Vote == [auditorId : Principals, decision : VoteDecision, timestamp : Nat]

ProposalVoteState == [ assignedIds       : Seq(Principals),
                       votes             : Seq(Vote),
                       requiredApprovals : Nat,
                       startedAt         : Nat,
                       result            : ThresholdResult ]

(* result is Nothing in the code until a threshold is reached: here        *)
(* NotReached, which the code never stores.                                *)
NoVote == [ assignedIds |-> << >>, votes |-> << >>, requiredApprovals |-> 0,
            startedAt |-> 0, result |-> "NotReached" ]

VotingTypeOK ==
  /\ PoolTypeOK
  /\ voteState \in ProposalVoteState
  /\ Len(voteState.votes) <= Len(voteState.assignedIds)
  /\ now \in Nat

Init == PoolInit /\ voteState = NoVote /\ now = 0

---------------------------------------------------------------------------
countOf(s, decision) ==
  Cardinality({ k \in DOMAIN s.votes : s.votes[k].decision = decision })

(* Mutated form: a late vote that makes up the threshold still counts.     *)
ApprovalBeforeExpiry(s, t) ==
  IF countOf(s, "Approve") >= s.requiredApprovals THEN "ApprovalReached"
  ELSE IF t > s.startedAt + VotingPeriod THEN "Expired"
  ELSE IF Len(s.assignedIds) - countOf(s, "Reject") < s.requiredApprovals
       THEN "RejectionReached" ELSE "NotReached"

(* Mutated form: rejected one vote too early.                              *)
RejectsEarly(s, t) ==
  IF t > s.startedAt + VotingPeriod THEN "Expired"
  ELSE IF countOf(s, "Approve") >= s.requiredApprovals THEN "ApprovalReached"
  ELSE IF Len(s.assignedIds) - countOf(s, "Reject") <= s.requiredApprovals
       THEN "RejectionReached" ELSE "NotReached"

checkThreshold(s, t) ==
  IF t > s.startedAt + VotingPeriod THEN "Expired"
  ELSE IF countOf(s, "Approve") >= s.requiredApprovals THEN "ApprovalReached"
  ELSE IF Len(s.assignedIds) - countOf(s, "Reject") < s.requiredApprovals
       THEN "RejectionReached" ELSE "NotReached"

(* Automatic assignment, and the vote started with its answer.             *)
initVoteState(request, required) ==
  /\ voteState = NoVote
  /\ \E chosen \in autoAssignAuditors(request, now) :
       voteState' = [ assignedIds |-> chosen, votes |-> << >>,
                      requiredApprovals |-> required, startedAt |-> now,
                      result |-> "NotReached" ]
  /\ UNCHANGED <<auditors, deposited, slashedAmount, now>>

isAssigned(aid) == \E i \in DOMAIN voteState.assignedIds : voteState.assignedIds[i] = aid

hasVoted(aid) == \E i \in DOMAIN voteState.votes : voteState.votes[i].auditorId = aid

Recorded(aid, decision) ==
  [voteState EXCEPT !.votes =
     <<[auditorId |-> aid, decision |-> decision, timestamp |-> now]>> \o @]

(* Mutated form: votes are taken after the vote has concluded.             *)
VoteAfterConclusion(aid, decision) ==
  /\ isAssigned(aid)
  /\ ~hasVoted(aid)
  /\ LET new == Recorded(aid, decision)
     IN  voteState' = [new EXCEPT !.result = checkThreshold(new, now)]
  /\ UNCHANGED <<auditors, deposited, slashedAmount, now>>

submitVote(aid, decision) ==
  /\ voteState.result = "NotReached"
  /\ isAssigned(aid)
  /\ ~hasVoted(aid)
  /\ LET new == Recorded(aid, decision)
     IN  voteState' = [new EXCEPT !.result = checkThreshold(new, now)]
  /\ UNCHANGED <<auditors, deposited, slashedAmount, now>>

PoolStep == PoolNext /\ UNCHANGED <<voteState, now>>

AutoAssign == \E request \in AssignmentRequests, required \in RequiredApprovals :
                initVoteState(request, required)

SubmitVote == \E aid \in Principals, d \in VoteDecision : submitVote(aid, d)

Tick == /\ now < MaxTime
        /\ now' = now + 1
        /\ UNCHANGED <<auditors, deposited, slashedAmount, voteState>>

Next == PoolStep \/ AutoAssign \/ SubmitVote \/ Tick

Spec == Init /\ [][Next]_vars

---------------------------------------------------------------------------
(* Properties                                                              *)

VotersFor(decision) ==
  { voteState.votes[i].auditorId : i \in { k \in DOMAIN voteState.votes :
                                             voteState.votes[k].decision = decision } }

InTime == \A i \in DOMAIN voteState.votes :
            voteState.votes[i].timestamp <= voteState.startedAt + VotingPeriod

(* An approval is the word of enough different assigned auditors, all      *)
(* given within the voting period, whatever happened in the pool meanwhile *)
(* and however often the assignment named one of them.                     *)
ApprovalSound ==
  voteState.result = "ApprovalReached" =>
    /\ Cardinality(VotersFor("Approve")) >= voteState.requiredApprovals
    /\ \A aid \in VotersFor("Approve") : isAssigned(aid)
    /\ InTime

(* A rejection is only declared when approval is out of reach: even if all *)
(* who have not rejected approved, they would be too few.                  *)
RejectionHopeless ==
  voteState.result = "RejectionReached" =>
    Cardinality({ voteState.assignedIds[i] : i \in DOMAIN voteState.assignedIds }
                  \ VotersFor("Reject")) < voteState.requiredApprovals

(* A vote that has a result keeps it, and takes no further votes.          *)
ConcludedIsFinal ==
  [][voteState.result # "NotReached" => voteState' = voteState]_vars

(* Whoever is assigned was Active in the pool at that moment, with the     *)
(* reputation the lowest request asks for.                                 *)
AssignedWereActive ==
  [][ voteState'.assignedIds # voteState.assignedIds =>
        \A i \in DOMAIN voteState'.assignedIds :
          \E k \in DOMAIN auditors : /\ auditors[k].id = voteState'.assignedIds[i]
                                     /\ auditors[k].status = "Active"
                                     /\ auditors[k].reputation >= 400 ]_vars
=============================================================================
