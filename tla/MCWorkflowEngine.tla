-------------------------- MODULE MCWorkflowEngine --------------------------
(***************************************************************************)
(* Small instances of WorkflowEngine: three users, two roles, workflows of *)
(* an 'any' review tier followed by an 'all' authorizer tier.              *)
(***************************************************************************)
EXTENDS WorkflowEngine, TLC

CONSTANTS u1, u2, u3, r1, r2, e1, p1, p2

Review == [mode |-> "any", roles |-> {r1}]
Authorize == [mode |-> "all", roles |-> {r2}]

TwoTiers == [w \in Workflow |-> <<Review, Authorize>>]
ThreeTiers == [w \in Workflow |-> <<Review, Authorize, Review>>]
AuthorizeOnly == [w \in Workflow |-> <<Authorize>>]
\* The tiers are taken out of the definition for the second submission only.
TiersThenNone == [w \in Workflow |-> IF w[2] = 2 THEN <<>> ELSE <<Review, Authorize>>]

NoInitiators == [e \in Entity |-> {}]
ByRole2 == [e \in Entity |-> {r2}]

TwoAuthorizers == {r1 :> {u1, u2} @@ r2 :> {u2, u3}}
SmallAssignment == {r1 :> {u2} @@ r2 :> {u1, u2}}
=============================================================================
