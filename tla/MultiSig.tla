------------------------------ MODULE MultiSig ------------------------------
(***************************************************************************)
(* One multi-signature voting session of OUC.Functions.MultiSig, and the   *)
(* upgrade orchestration of ERC7546.Upgrade that turns its outcome into a  *)
(* transaction.  The functions of the code take the session and return the *)
(* new one, so each call is atomic; orchestrateUpgrade may be called any   *)
(* number of times, before, between and after the votes.                   *)
(*                                                                         *)
(* A signature is never inspected beyond being non-empty, and is left out. *)
(* The required voters are a list: nothing in createVotingSession excludes *)
(* one auditor being named twice, and AutoAssign produces such lists.      *)
(***************************************************************************)
EXTENDS Naturals, Sequences, FiniteSets

CONSTANTS
  AuditorIds,     \* principals that may be required to vote, and others
  MaxVoters,      \* bound on the length of the list of required voters
  MaxDeclared,    \* bound on the m and the n of a declared threshold
  MaxSent,        \* bound on the upgrade transactions sent
  MaxTime         \* bound on the clock

ASSUME SessionBounds ==
  /\ MaxVoters \in Nat
  /\ MaxDeclared \in Nat
  /\ MaxSent \in Nat
  /\ MaxTime \in Nat

VARIABLES
  session,        \* the VotingSession, or NoSession before it is created
  sent,           \* the AggregatedSignatures of the transactions sent
  now             \* the time the next call is executed at

vars == <<session, sent, now>>

ReviewDecision == {"ApproveUpgrade", "RejectUpgrade", "RequestChanges"}

(* Unanimous, Majority, or m-of-n; m and n are whatever the caller of      *)
(* createVotingSession declares: nothing compares them with the voters.    *)
ThresholdType ==
  [kind : {"Unanimous", "Majority", "Threshold"}, m : Nat, n : Nat]

Vote == [voter : AuditorIds, decision : ReviewDecision]

VotingSession == [ requiredVoters : Seq(AuditorIds),
                   threshold      : ThresholdType,
                   votes          : Seq(Vote),
                   proposerSig    : BOOLEAN,
                   deadline       : Nat ]

NoSession == [requiredVoters |-> << >>]

(* The signatures collected for a transaction: how many, and whose.        *)
AggregatedSignatures == [count : Nat, signers : SUBSET AuditorIds]

TypeOK == /\ session \in VotingSession \cup {NoSession}
          /\ session # NoSession => Len(session.votes) <= Len(session.requiredVoters)
          /\ sent \in SUBSET AggregatedSignatures
          /\ now \in Nat

---------------------------------------------------------------------------
(* Counting.  half(n) of the code recurs by two: it is n \div 2.           *)
half(n) == n \div 2

VotesFor(s, decision) == { i \in DOMAIN s.votes : s.votes[i].decision = decision }

countApprovals(s)  == Cardinality(VotesFor(s, "ApproveUpgrade"))
countRejections(s) == Cardinality(VotesFor(s, "RejectUpgrade"))

numVoters(s) == Len(s.requiredVoters)

isVotingComplete(s) ==
  /\ s.proposerSig
  /\ CASE s.threshold.kind = "Unanimous" -> countApprovals(s) = numVoters(s)
       [] s.threshold.kind = "Majority"  -> countApprovals(s) > half(numVoters(s))
       [] s.threshold.kind = "Threshold" -> countApprovals(s) >= s.threshold.m

(* n `minus` m of the code stops at zero.                                  *)
monus(n, m) == IF n >= m THEN n - m ELSE 0

(* Mutated form: half of the votes against is enough.                      *)
FailsOnHalf(s) ==
  CASE s.threshold.kind = "Unanimous" -> countRejections(s) > 0
    [] s.threshold.kind = "Majority"  -> countRejections(s) >= half(numVoters(s))
    [] s.threshold.kind = "Threshold" ->
         countRejections(s) > monus(s.threshold.n, s.threshold.m)

isVotingFailed(s) ==
  CASE s.threshold.kind = "Unanimous" -> countRejections(s) > 0
    [] s.threshold.kind = "Majority"  -> countRejections(s) > half(numVoters(s))
    [] s.threshold.kind = "Threshold" ->
         countRejections(s) > monus(s.threshold.n, s.threshold.m)

(* getFinalDecision: failure is looked at before completion.               *)
getFinalDecision(s) ==
  IF isVotingFailed(s) THEN "RejectUpgrade"
  ELSE IF isVotingComplete(s) THEN "ApproveUpgrade" ELSE "none"

(* Mutated form: once the deadline has passed every session is expired.    *)
ExpiredAfterDeadline(s, t) ==
  CASE t > s.deadline -> "expired"
    [] t <= s.deadline /\ getFinalDecision(s) # "none" -> getFinalDecision(s)
    [] OTHER -> "inProgress"

checkVotingStatus(s, t) ==
  CASE t > s.deadline /\ ~isVotingComplete(s) -> "expired"
    [] ~(t > s.deadline /\ ~isVotingComplete(s)) /\ getFinalDecision(s) # "none" ->
         getFinalDecision(s)
    [] OTHER -> "inProgress"

(* getLifecycleState of a session that has no receipt yet.                 *)
getLifecycleState(s) ==
  CASE ~s.proposerSig -> "AwaitingProposerSig"
    [] s.proposerSig /\ isVotingComplete(s) -> "ReadyForExecution"
    [] OTHER -> "AwaitingVotes"

(* The approvals of a session, as aggregateSignatures collects them.       *)
aggregateSignatures(s) ==
  [ count   |-> countApprovals(s),
    signers |-> { s.votes[i].voter : i \in VotesFor(s, "ApproveUpgrade") } ]

(* Mutated form: the rounding of the majority is done the other way.       *)
CountRoundsUp(sigs, s) ==
  CASE s.threshold.kind = "Unanimous" -> sigs.count = numVoters(s)
    [] s.threshold.kind = "Majority"  -> sigs.count >= half(numVoters(s) + 1) + 1
    [] s.threshold.kind = "Threshold" -> sigs.count >= s.threshold.m

(* The threshold and the number of voters it compares with are copied into *)
(* the signatures from the session.                                        *)
verifySignatureCount(sigs, s) ==
  CASE s.threshold.kind = "Unanimous" -> sigs.count = numVoters(s)
    [] s.threshold.kind = "Majority"  -> sigs.count >= half(numVoters(s)) + 1
    [] s.threshold.kind = "Threshold" -> sigs.count >= s.threshold.m

---------------------------------------------------------------------------
Init == session = NoSession /\ sent = {} /\ now = 0

Voters == UNION { [1..k -> AuditorIds] : k \in 1..MaxVoters }

Thresholds ==
  { [kind |-> kind, m |-> 0, n |-> 0] : kind \in {"Unanimous", "Majority"} }
    \cup [kind : {"Threshold"}, m : 0..MaxDeclared, n : 0..MaxDeclared]

(* Only an empty list of voters and a deadline that has passed are refused.*)
createVotingSession(voters, threshold, deadline) ==
  /\ session = NoSession
  /\ voters # << >>
  /\ deadline > now
  /\ session' = [ requiredVoters |-> voters, threshold |-> threshold,
                  votes |-> << >>, proposerSig |-> FALSE, deadline |-> deadline ]
  /\ UNCHANGED <<sent, now>>

(* No deadline is checked here: the proposer may sign after it.            *)
submitProposerSignature ==
  /\ session # NoSession
  /\ ~session.proposerSig
  /\ session' = [session EXCEPT !.proposerSig = TRUE]
  /\ UNCHANGED <<sent, now>>

(* Mutated form: nobody asks whether the auditor has voted already.        *)
CastVoteAgain(aid, decision) ==
  /\ session # NoSession
  /\ now <= session.deadline
  /\ \E i \in DOMAIN session.requiredVoters : session.requiredVoters[i] = aid
  /\ Len(session.votes) <= MaxVoters
  /\ session' = [session EXCEPT
       !.votes = <<[voter |-> aid, decision |-> decision]>> \o @]
  /\ UNCHANGED <<sent, now>>

castVote(aid, decision) ==
  /\ session # NoSession
  /\ now <= session.deadline
  /\ \E i \in DOMAIN session.requiredVoters : session.requiredVoters[i] = aid
  /\ \A i \in DOMAIN session.votes : session.votes[i].voter # aid
  /\ session' = [session EXCEPT
       !.votes = <<[voter |-> aid, decision |-> decision]>> \o @]
  /\ UNCHANGED <<sent, now>>

(* Mutated form: the transaction goes out as soon as the proposer signed.  *)
OrchestrateUndecided ==
  /\ session # NoSession
  /\ session.proposerSig
  /\ Cardinality(sent) < MaxSent
  /\ sent' = sent \cup {aggregateSignatures(session)}
  /\ UNCHANGED <<session, now>>

(* orchestrateUpgrade up to the sending of the transaction; a session that *)
(* is not approved, a missing signature or a short count ends it without   *)
(* effect.  The other checks on the way (the state of the proposal, the    *)
(* execution deadline, the chain and the proposal's id, all handed over by *)
(* the caller, the form of the addresses and the gas price) also end it    *)
(* without effect: then this action is not taken.                          *)
orchestrateUpgrade ==
  /\ session # NoSession
  /\ checkVotingStatus(session, now) = "ApproveUpgrade"
  /\ session.proposerSig /\ isVotingComplete(session)
  /\ verifySignatureCount(aggregateSignatures(session), session)
  /\ Cardinality(sent) < MaxSent
  /\ sent' = sent \cup {aggregateSignatures(session)}
  /\ UNCHANGED <<session, now>>

Tick == now < MaxTime /\ now' = now + 1 /\ UNCHANGED <<session, sent>>

CreateSession ==
  \E voters \in Voters, threshold \in Thresholds, deadline \in 1..MaxTime :
    createVotingSession(voters, threshold, deadline)

CastVote == \E aid \in AuditorIds, d \in ReviewDecision : castVote(aid, d)

Next == \/ CreateSession
        \/ submitProposerSignature
        \/ CastVote
        \/ orchestrateUpgrade
        \/ Tick

Spec == Init /\ [][Next]_vars

---------------------------------------------------------------------------
(* Properties                                                              *)

(* Every vote is of a required voter and no auditor has two, though the    *)
(* list of voters may name one twice.                                      *)
OneVoteEach ==
  session # NoSession =>
    /\ \A i \in DOMAIN session.votes :
         \E j \in DOMAIN session.requiredVoters :
           session.votes[i].voter = session.requiredVoters[j]
    /\ \A i, j \in DOMAIN session.votes :
         session.votes[i].voter = session.votes[j].voter => i = j

(* A session whose declared n is less than the number of its voters: more  *)
(* than n - m rejections then leave m approvals possible.                  *)
Underdeclared(s) ==
  s.threshold.kind = "Threshold" /\ s.threshold.n < numVoters(s)

(* No set of votes is both enough to approve and enough to reject, so the  *)
(* order in which getFinalDecision looks at the two does not matter, under *)
(* every threshold whose n is not less than the number of voters.          *)
NeverBothDecided ==
  session # NoSession /\ isVotingComplete(session) /\ isVotingFailed(session) =>
    Underdeclared(session)

(* What getLifecycleState calls ready is what orchestrateUpgrade executes, *)
(* at any time: the two read the session independently.  They part only in *)
(* an underdeclared session, and only one way: called ready, but rejected. *)
ReadyIffApproved ==
  session # NoSession =>
    LET ready  == getLifecycleState(session) = "ReadyForExecution"
        status == checkVotingStatus(session, now)
    IN  /\ status = "ApproveUpgrade" => ready
        /\ ready /\ status # "ApproveUpgrade" =>
             status = "RejectUpgrade" /\ Underdeclared(session)

(* The count on the way to the chain never refuses what the session calls  *)
(* complete: "> n/2" and ">= n/2 + 1" are the same bound.                  *)
CompleteVerifies ==
  session # NoSession /\ isVotingComplete(session) =>
    verifySignatureCount(aggregateSignatures(session), session)

(* Every transaction sent carries the signatures of enough different       *)
(* required voters: all of them when unanimous (so that no one was named   *)
(* twice), more than half of the list, or m.                               *)
Sufficient(signers, s) ==
  /\ \A a \in signers : \E j \in DOMAIN s.requiredVoters : s.requiredVoters[j] = a
  /\ CASE s.threshold.kind = "Unanimous" -> Cardinality(signers) = numVoters(s)
       [] s.threshold.kind = "Majority"  -> 2 * Cardinality(signers) > numVoters(s)
       [] s.threshold.kind = "Threshold" -> Cardinality(signers) >= s.threshold.m

SentSufficient ==
  \A sigs \in sent : session # NoSession /\ Sufficient(sigs.signers, session)

(* The inductive strengthening of the others.                              *)
SessionInv == TypeOK /\ OneVoteEach /\ SentSufficient

(* A rejection being cast, which castVote takes by the deadline only.      *)
RejectionCast ==
  /\ now <= session.deadline
  /\ Len(session'.votes) = Len(session.votes) + 1
  /\ session'.votes[1].decision = "RejectUpgrade"

(* An approval is final: neither a later vote nor the deadline takes it    *)
(* back, except that a further rejection, cast in time, may overturn it in *)
(* an underdeclared session.  A rejection is final under every threshold,  *)
(* even though after the deadline it is reported as an expiry.             *)
DecisionIsFinal ==
  [][ session # NoSession =>
        /\ checkVotingStatus(session, now) = "ApproveUpgrade" =>
             \/ checkVotingStatus(session', now') = "ApproveUpgrade"
             \/ /\ Underdeclared(session) /\ RejectionCast
                /\ checkVotingStatus(session', now') = "RejectUpgrade"
        /\ isVotingFailed(session) =>
             /\ isVotingFailed(session')
             /\ checkVotingStatus(session', now') # "ApproveUpgrade" ]_vars
=============================================================================
