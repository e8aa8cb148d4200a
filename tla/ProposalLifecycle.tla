------------------------- MODULE ProposalLifecycle -------------------------
(***************************************************************************)
(* What OUC.Functions.Lifecycle promises of every upgrade proposal: the    *)
(* indexed monad PFR has one constructor per legal transition, and a       *)
(* program can move a proposal only along those constructors.  The         *)
(* proposals are numbered in the order they were created, so the state of  *)
(* all of them is a sequence of lifecycle states.                          *)
(***************************************************************************)
EXTENDS Naturals, Sequences

VARIABLE status     \* status[i]: lifecycle state of the i-th proposal

ProposalState == {"SPending", "SUnderReview", "SApproved", "SRejected",
                  "SExecuted", "SExpired", "SCancelled"}

Terminal == {"SExecuted", "SRejected", "SCancelled", "SExpired"}

TypeOK == status \in Seq(ProposalState)

Init == status = << >>

Create == status' = Append(status, "SPending")

(* A step of proposal i from state s to state t.                           *)
Step(i, s, t) == /\ i \in DOMAIN status
                 /\ status[i] = s
                 /\ status' = [status EXCEPT ![i] = t]

(* The constructors of PFR.  PRequestChanges keeps the state, so it is a   *)
(* stuttering step here.                                                   *)
PAssignAuditor(i) == Step(i, "SPending", "SUnderReview")
PApprove(i)       == Step(i, "SUnderReview", "SApproved")
PReject(i)        == Step(i, "SUnderReview", "SRejected")
PExecute(i)       == Step(i, "SApproved", "SExecuted")
PCancel(i)        == Step(i, "SPending", "SCancelled")
PExpirePending(i) == Step(i, "SPending", "SExpired")
PExpireReview(i)  == Step(i, "SUnderReview", "SExpired")

Next ==
  \/ Create
  \/ \E i \in DOMAIN status :
       \/ PAssignAuditor(i) \/ PApprove(i) \/ PReject(i) \/ PExecute(i)
       \/ PCancel(i) \/ PExpirePending(i) \/ PExpireReview(i)

Spec == Init /\ [][Next]_status
=============================================================================
