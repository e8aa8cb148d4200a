-------------------------- MODULE UpgradeExecution --------------------------
(***************************************************************************)
(* Execution of approved proposals on their EVM chain: prepareExecution    *)
(* and recordExecution of Proposals.Core, composed with the handlers of    *)
(* Proposals.  Between the two lies an HTTP outcall whose answer may be    *)
(* late, lost, repeated or wrong about what the chain did: preparing a     *)
(* request does not move the proposal, so it can be prepared again while   *)
(* an earlier request is still in flight.                                  *)
(*                                                                         *)
(* The deadline an ExecutionRequest carries is read by no code and is left *)
(* out; its calldata and signature are empty strings in the code.          *)
(***************************************************************************)
EXTENDS Proposals, FiniteSets

CONSTANT MaxRequests    \* bound on the execution requests prepared

ASSUME RequestsAssumption == MaxRequests \in Nat

VARIABLE requests       \* the execution requests prepared so far

uvars == <<nextProposalId, proposals, reviews, now, requests>>

ExecutionResult == {"ExecSuccess", "ExecReverted", "ExecTimeout", "ExecRpcError"}

(* serial tells requests of one proposal apart; tx is what the EVM chain   *)
(* did with the transaction; confirmed, whether recordExecution was ever   *)
(* told of its success.  The code keeps no account of the requests, so the *)
(* same answer, or another one, may be recorded any number of times.       *)
ExecutionRequest == [ serial     : Nat,
                      proposalId : Nat,
                      tx         : {"pending", "landed", "reverted"},
                      confirmed  : BOOLEAN ]

UpgradeTypeOK == /\ TypeOK
                 /\ requests \in SUBSET ExecutionRequest
                 /\ IsFiniteSet(requests)

UpgradeInit == Init /\ requests = {}

(* Mutated form: any proposal that exists can be prepared for execution.   *)
PrepareAny(pid) ==
  /\ Cardinality(requests) < MaxRequests
  /\ findById(pid) # 0
  /\ requests' = requests \cup
       {[ serial |-> Cardinality(requests), proposalId |-> pid,
          tx |-> "pending", confirmed |-> FALSE ]}
  /\ UNCHANGED vars

prepareExecution(pid) ==
  /\ Cardinality(requests) < MaxRequests
  /\ findById(pid) # 0
  /\ proposals[findById(pid)].state = "SApproved"
  /\ requests' = requests \cup
       {[ serial |-> Cardinality(requests), proposalId |-> pid,
          tx |-> "pending", confirmed |-> FALSE ]}
  /\ UNCHANGED vars

(* The EVM chain includes the transaction, or the transaction reverts.     *)
ChainSettles(r) ==
  /\ r.tx = "pending"
  /\ \E outcome \in {"landed", "reverted"} :
       requests' = (requests \ {r}) \cup {[r EXCEPT !.tx = outcome]}
  /\ UNCHANGED vars

(* What the outcall can report: success and revert only when the chain did *)
(* so; a timeout or an RPC error whatever the chain did or will do.        *)
Reportable(r, result) ==
  CASE result = "ExecSuccess"  -> r.tx = "landed"
    [] result = "ExecReverted" -> r.tx = "reverted"
    [] OTHER                   -> TRUE

Answered(r, result) ==
  (requests \ {r}) \cup {[r EXCEPT !.confirmed = @ \/ result = "ExecSuccess"]}

(* Mutated form: a timed-out request is taken for an executed one.         *)
RecordTimeoutAsDone(r, result) ==
  /\ Reportable(r, result)
  /\ requests' = Answered(r, result)
  /\ IF result \in {"ExecSuccess", "ExecTimeout"} /\
        findByIdInState(r.proposalId, "SApproved") # 0
     THEN markExecuted(r.proposalId)
     ELSE UNCHANGED vars

(* An answer to request r, the first or a further one, is recorded.  Only  *)
(* a success moves the proposal, and only if it is still Approved;         *)
(* otherwise the call fails and leaves no trace.                           *)
recordExecution(r, result) ==
  /\ Reportable(r, result)
  /\ requests' = Answered(r, result)
  /\ IF result = "ExecSuccess" /\ findByIdInState(r.proposalId, "SApproved") # 0
     THEN markExecuted(r.proposalId)
     ELSE UNCHANGED vars

ProposalStep == (Submit \/ Assign \/ SendReview \/ Tick) /\ UNCHANGED requests
Prepare == \E pid \in CallerIds : prepareExecution(pid)
Settle == \E r \in requests : ChainSettles(r)
Record == \E r \in requests, result \in ExecutionResult : recordExecution(r, result)

UpgradeNext == ProposalStep \/ Prepare \/ Settle \/ Record

UpgradeSpec == UpgradeInit /\ [][UpgradeNext]_uvars

---------------------------------------------------------------------------
(* Properties                                                              *)

(* A request prepared while its proposal was Approved is never overtaken   *)
(* by a decision that takes the approval back: however late its answer     *)
(* comes, the proposal is still Approved or already Executed.              *)
RequestsStayAuthorized ==
  \A r \in requests : \E k \in DOMAIN proposals :
     /\ proposals[k].proposalId = r.proposalId
     /\ proposals[k].state \in {"SApproved", "SExecuted"}

(* A proposal is Executed exactly when some request of it was reported     *)
(* successful (so its transaction landed): a timeout, an RPC error or a    *)
(* revert never marks it, and no reported success is lost, in whichever    *)
(* order, and however often, the answers of several attempts arrive.       *)
ExecutedMeansLanded ==
  \A k \in DOMAIN proposals :
    proposals[k].state = "SExecuted" <=>
      \E r \in requests : /\ r.proposalId = proposals[k].proposalId
                          /\ r.confirmed
                          /\ r.tx = "landed"

(* A reported success is a landed transaction.                             *)
ReportsTrue == \A r \in requests : r.confirmed => r.tx = "landed"

(* The inductive invariant of the composition.                             *)
UpgradeInv == /\ ProposalInv
              /\ ReportsTrue
              /\ UpgradeTypeOK
              /\ RequestsStayAuthorized
              /\ ExecutedMeansLanded

(* "Missing votes cause expiration (not approval)": no proposal becomes    *)
(* Approved after its expiresAt.                                           *)
NoApprovalAfterExpiry ==
  [][ \A i \in DOMAIN proposals :
        \A j \in DOMAIN proposals' :
          ( /\ proposals'[j].proposalId = proposals[i].proposalId
            /\ proposals[i].state = "SUnderReview"
            /\ proposals'[j].state = "SApproved" )
          => now <= proposals[i].expiresAt ]_uvars
=============================================================================
