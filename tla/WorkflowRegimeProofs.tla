------------------------ MODULE WorkflowRegimeProofs ------------------------
(***************************************************************************)
(* What WorkflowEngine promises only under conditions, for any number of   *)
(* users, roles, entities and runs: the 'all' mode of approve() when roles *)
(* are static, the closing of its tiers when no request is killed either,  *)
(* and the whole of ApprovalLifecycle when requests come one at a time.    *)
(* engine_crash, engine_duplicate and engine_rejection show what happens   *)
(* without them.                                                           *)
(***************************************************************************)
EXTENDS WorkflowEngineProofs, FiniteSetTheorems

(***************************************************************************)
(* The 'all' mode with static roles: nobody bypasses them, none is         *)
(* contextual, and no grant or revocation happens while a workflow runs.   *)
(***************************************************************************)
StaticRoles ==
    /\ IsFiniteSet(User)
    /\ Bypass = {}
    /\ Contextual = {}
    /\ MaxRoleChanges = 0

\* The engine compares two counts.  They stand for sets because the approvers are
\* among the required.
Qualified(p) ==
    LET r == request[p]
    IN  /\ r.pc \in Deciding \cup {"advance"} => r.user \in Resolve(Roles(r.wf, r.step))
        /\ r.pc = "approveAny" => Mode(r.wf, r.step) = "any"
        /\ \/ r.pc = "completeTier"
           \/ r.pc = "advance" /\ Mode(r.wf, r.step) # "any"
           => Resolve(Roles(r.wf, r.step)) \subseteq Approvers(r.wf, r.step)

OnlyRequired ==
    \A w \in Workflow : \A t \in Tiers(w) : Approvers(w, t) \subseteq Resolve(Roles(w, t))

AllInv ==
    /\ OrderInv
    /\ \A p \in Worker : Qualified(p)
    /\ OnlyRequired
    /\ AllModeComplete

\* Counting to the size of a finite set from inside it reaches all of it.
LEMMA EnoughIsAll ==
    ASSUME NEW R, NEW A, IsFiniteSet(R), A \subseteq R, Cardinality(A) >= Cardinality(R)
    PROVE  R \subseteq A
<1>1. Cardinality(A) <= Cardinality(R) /\ IsFiniteSet(A)
  BY FS_Subset
<1>2. Cardinality(A) \in Nat /\ Cardinality(R) \in Nat
  BY <1>1, FS_CardinalityType
<1>3. Cardinality(A) = Cardinality(R)
  BY <1>1, <1>2
<1> QED
  BY <1>3, FS_Subset

LEMMA OthersStayQualified ==
    ASSUME AllInv, NEW p \in Worker, UNCHANGED holders, log \subseteq log', Qualified(p)',
           \A q \in Worker \ {p} : request'[q] = request[q]
    PROVE  \A q \in Worker : Qualified(q)'
<1> SUFFICES ASSUME NEW q \in Worker \ {p}
             PROVE  Qualified(q)'
  OBVIOUS
<1>2. Qualified(q) /\ request'[q] = request[q]
  BY DEF AllInv
<1> QED
  BY <1>2 DEF Qualified, Resolve, Approvers

\* An action row other than an approval of tier t leaves its approvers as they are.
LEMMA SameApprovers ==
    ASSUME NEW acts, log' = log \cup acts, NEW w, NEW t,
           \A a \in acts : a.verb # "approved" \/ a.wf # w \/ a.step # t
    PROVE  Approvers(w, t)' = Approvers(w, t)
BY DEF Approvers, Action

LEMMA AllStep ==
    ASSUME StaticRoles
    PROVE  AllInv /\ [Next]_vars => AllInv'
<1> SUFFICES ASSUME AllInv, [Next]_vars
             PROVE  AllInv'
  OBVIOUS
<1> USE DEF rows, env
<1>0. OrderInv' /\ TypeOK /\ TypeOK'
  BY OrderStep DEF AllInv, OrderInv
<1>a. \A w \in Workflow : \A t \in Tiers(w) : IsFiniteSet(Resolve(Roles(w, t)))
  <2>1. ASSUME NEW w \in Workflow, NEW t \in Tiers(w)
        PROVE  Resolve(Roles(w, t)) \subseteq User
    <3>1. Steps[w] \in Seq(Tier)
      BY ConstantsAssumption
    <3>2. t \in 1..Len(Steps[w])
      BY <3>1 DEF Tiers
    <3>3. Steps[w][t] \in Tier
      BY <3>1, <3>2
    <3>4. Roles(w, t) \subseteq Role
      BY <3>3 DEF Roles, Tier
    <3> QED
      BY <1>0, <3>4 DEF Resolve, TypeOK
  <2> QED
    BY <2>1, FS_Subset DEF StaticRoles
<1>1. ASSUME NEW p \in Worker, UNCHANGED <<stepStatus, log, holders>>, Qualified(p)',
             \A q \in Worker \ {p} : request'[q] = request[q]
      PROVE  AllInv'
  <2>1. OnlyRequired' /\ AllModeComplete'
    BY <1>1 DEF AllInv, OnlyRequired, AllModeComplete, Approvers, Resolve
  <2>2. log \subseteq log' /\ UNCHANGED holders
    BY <1>1
  <2>3. \A q \in Worker : Qualified(q)'
    BY <1>1, <2>2, OthersStayQualified
  <2> QED
    BY <1>0, <2>1, <2>3 DEF AllInv
<1>2. ASSUME NEW p \in Worker, request'[p] = Idle \/ request'[p].pc \in {"submit", "recall", "cancel", "event"}
      PROVE  Qualified(p)'
  BY <1>2 DEF Qualified, Deciding, Idle
<1>3. ASSUME NEW p \in Worker, NEW acts, log' = log \cup acts,
             \A a \in acts : a.verb # "approved",
             UNCHANGED <<stepStatus, holders>>, Qualified(p)',
             \A q \in Worker \ {p} : request'[q] = request[q]
      PROVE  AllInv'
  <2>1. \A w \in Workflow : \A t \in Tiers(w) : Approvers(w, t)' = Approvers(w, t)
    BY <1>3, SameApprovers
  <2>2. OnlyRequired' /\ AllModeComplete'
    BY <1>3, <2>1 DEF AllInv, OnlyRequired, AllModeComplete, Resolve
  <2> QED
    BY <1>0, <1>3, <2>2, OthersStayQualified DEF AllInv
<1>4. ASSUME NEW p \in Worker, NEW u \in User, NEW w \in Workflow, NEW phase \in Deciding \ {"completeTier"},
             LoadTier(p, u, w, phase), phase = "approveAny" => Mode(w, current[w]) = "any"
      PROVE  AllInv'
  <2>1. request'[p] = [pc |-> phase, user |-> u, wf |-> w, step |-> current[w], seen |-> "pending"]
    BY <1>4, <1>0 DEF LoadTier, TypeOK
  <2>2. u \in Resolve(Roles(w, current[w])) /\ UNCHANGED <<holders, current>>
    BY <1>4 DEF LoadTier, CanAct, StaticRoles
  <2>3. Qualified(p)'
    <3>1. phase \notin {"completeTier", "advance"}
      BY DEF Deciding
    <3>2. /\ request'[p].pc = phase /\ request'[p].user = u
          /\ request'[p].wf = w /\ request'[p].step = current[w]
      BY <2>1
    <3> QED
      BY <1>4, <2>2, <3>1, <3>2 DEF Qualified, Resolve
  <2> QED
    BY <1>0, <1>1, <1>4, <2>3 DEF LoadTier, TypeOK
<1>5. ASSUME NEW p \in Worker, NEW u \in User, NEW w \in Workflow, NEW phase \in {"recall", "cancel"},
             LoadWorkflow(p, u, w, phase)
      PROVE  AllInv'
  BY <1>0, <1>1, <1>2, <1>5 DEF LoadWorkflow, TypeOK
<1>6. ASSUME NEW p \in Worker, NEW u \in User, NEW e \in Entity, SubmitCheck(p, u, e)
      PROVE  AllInv'
  BY <1>0, <1>1, <1>2, <1>6 DEF SubmitCheck, TypeOK
<1>7. ASSUME NEW p \in Worker, NEW n \in 1..MaxRuns, SubmitCommit(p, n)
      PROVE  AllInv'
  <2>1. PICK verb \in {"submitted", "completed"} :
           log' = log \cup {Action(<<request[p].entity, n>>, 0, request[p].user, verb)}
    BY <1>7 DEF SubmitCommit
  <2> DEFINE acts == {Action(<<request[p].entity, n>>, 0, request[p].user, verb)}
  <2>2. \A a \in acts : a.verb # "approved"
    BY DEF Action
  <2>3. Qualified(p)'
    BY <1>0, <1>2, <1>7 DEF SubmitCommit, TypeOK
  <2>4. UNCHANGED <<stepStatus, holders>> /\ \A q \in Worker \ {p} : request'[q] = request[q]
    BY <1>0, <1>7 DEF SubmitCommit, TypeOK
  <2>5. log' = log \cup acts
    BY <2>1
  <2> HIDE DEF acts
  <2> QED
    BY <1>3, <2>2, <2>3, <2>4, <2>5
<1>8. ASSUME NEW p \in Worker, RejectCommit(p)
      PROVE  AllInv'
  <2> DEFINE r == request[p]
             acts == {Action(r.wf, r.step, r.user, "rejected")}
  <2>1. r \in Held /\ r.wf \in Workflow
    BY <1>0, <1>8, HeldRequest DEF RejectCommit, Phase, Held
  <2>2. log' = log \cup acts /\ \A a \in acts : a.verb # "approved"
    BY <1>8 DEF RejectCommit, Action
  <2>3. request'[p].pc = "event" /\ \A q \in Worker \ {p} : request'[q] = request[q]
    BY <1>0, <1>8 DEF RejectCommit, TypeOK
  <2>4. \A w \in Workflow : \A t \in Tiers(w) : stepStatus'[w][t] = "approved" => stepStatus[w][t] = "approved"
    BY <1>0, <1>8, <2>1 DEF RejectCommit, TypeOK
  <2>5. \A w \in Workflow : \A t \in Tiers(w) : Approvers(w, t)' = Approvers(w, t)
    <3> HIDE DEF acts
    <3> QED
      BY <2>2, SameApprovers
  <2>6. UNCHANGED holders
    BY <1>8 DEF RejectCommit
  <2>7. OnlyRequired' /\ AllModeComplete'
    BY <2>4, <2>5, <2>6 DEF AllInv, OnlyRequired, AllModeComplete, Resolve
  <2>8. \A q \in Worker : Qualified(q)'
    BY <1>2, <2>2, <2>3, <2>6, OthersStayQualified
  <2> QED
    BY <1>0, <2>7, <2>8 DEF AllInv
<1>9. ASSUME NEW p \in Worker, NEW verb \in {"recalled", "cancelled"}, Close(p, verb),
             \/ request' = [request EXCEPT ![p] = Idle]
             \/ request' = [request EXCEPT ![p].pc = "event", ![p].seen = "cancelled"]
             , request[p].pc \in Phase
      PROVE  AllInv'
  <2>1. request[p] \in Held
    BY <1>0, <1>9, HeldRequest
  <2>2. request'[p] = Idle \/ request'[p].pc = "event"
    <3>1. CASE request' = [request EXCEPT ![p] = Idle]
      BY <1>0, <3>1 DEF TypeOK
    <3>2. CASE request' = [request EXCEPT ![p].pc = "event", ![p].seen = "cancelled"]
      BY <1>0, <2>1, <3>2 DEF TypeOK, Held
    <3> QED
      BY <1>9, <3>1, <3>2
  <2>3. Qualified(p)' /\ \A q \in Worker \ {p} : request'[q] = request[q]
    BY <1>0, <1>2, <1>9, <2>2 DEF TypeOK
  <2>4. log' = log \cup {Action(request[p].wf, 0, request[p].user, verb)}
        /\ \A a \in {Action(request[p].wf, 0, request[p].user, verb)} : a.verb # "approved"
    BY <1>9 DEF Close, Action
  <2> QED
    BY <1>3, <1>9, <2>3, <2>4 DEF Close
<1>10. ASSUME NEW p \in Worker, DeliverEvent(p) \/ Crash(p)
       PROVE  AllInv'
  BY <1>0, <1>1, <1>2, <1>10 DEF DeliverEvent, Crash, TypeOK
<1>11. ASSUME NEW p \in Worker, LogApproval(p)
       PROVE  AllInv'
  <2> DEFINE r == request[p]
             act == Action(r.wf, r.step, r.user, "approved")
  <2>1. r \in Held /\ Qualified(p) /\ r.user \in Resolve(Roles(r.wf, r.step))
    BY <1>0, <1>11, HeldRequest DEF LogApproval, Phase, AllInv, Qualified, Deciding
  <2>2. log' = log \cup {act} /\ UNCHANGED <<holders, stepStatus>>
    BY <1>11 DEF LogApproval
  <2>3. request'[p].pc = "countApprovals" /\ request'[p].wf = r.wf /\ request'[p].step = r.step
        /\ request'[p].user = r.user /\ \A q \in Worker \ {p} : request'[q] = request[q]
    BY <1>0, <1>11, <2>1 DEF LogApproval, TypeOK, Held
  <2>4. Qualified(p)'
    BY <2>1, <2>2, <2>3 DEF Qualified, Resolve
  <2>5. \A q \in Worker : Qualified(q)'
    BY <2>2, <2>3, <2>4, OthersStayQualified
  <2>6. OnlyRequired'
    BY <2>1, <2>2 DEF AllInv, OnlyRequired, Approvers, Resolve, Action
  <2>7. AllModeComplete'
    BY <2>2 DEF AllInv, AllModeComplete, Approvers, Resolve
  <2> QED
    BY <1>0, <2>5, <2>6, <2>7 DEF AllInv
<1>12. ASSUME NEW p \in Worker, CountApprovals(p)
       PROVE  AllInv'
  <2> DEFINE r == request[p]
  <2>1. r \in Held /\ Qualified(p) /\ Behind(p)
    BY <1>0, <1>12, HeldRequest DEF CountApprovals, Phase, AllInv, OrderInv
  <2>2. r.wf \in Workflow /\ r.step \in Tiers(r.wf)
    BY <1>12, <2>1 DEF CountApprovals, Behind, Held, Phase, Deciding
  <2>3. PICK x \in {"completeTier", "event"} :
           /\ request' = [request EXCEPT ![p].pc = x]
           /\ x = "completeTier" =>
                 Cardinality(Approvers(r.wf, r.step)) >= Cardinality(Required(r.wf, r.step))
    BY <1>12 DEF CountApprovals
  <2>4. Required(r.wf, r.step) = Resolve(Roles(r.wf, r.step))
    BY DEF Required, StaticRoles
  <2>5. x = "completeTier" => Resolve(Roles(r.wf, r.step)) \subseteq Approvers(r.wf, r.step)
    BY <1>a, <2>2, <2>3, <2>4, EnoughIsAll DEF AllInv, OnlyRequired
  <2>6. request'[p].pc = x /\ request'[p].wf = r.wf /\ request'[p].step = r.step
        /\ request'[p].user = r.user /\ \A q \in Worker \ {p} : request'[q] = request[q]
    BY <1>0, <2>1, <2>3 DEF TypeOK, Held
  <2>7. UNCHANGED <<holders, log, stepStatus>>
    BY <1>12 DEF CountApprovals
  <2>8. Qualified(p)'
    <3>1. r.user \in Resolve(Roles(r.wf, r.step))
      BY <1>12, <2>1 DEF CountApprovals, Qualified, Deciding
    <3> QED
      BY <2>5, <2>6, <2>7, <3>1 DEF Qualified, Resolve, Approvers
  <2> QED
    BY <1>1, <2>6, <2>7, <2>8
<1>13. ASSUME NEW p \in Worker, MarkTier(p)
       PROVE  AllInv'
  <2>a. PICK w \in Workflow, s \in Nat, u \in User, t \in Nat : Marks(p, w, s, u, t)
    BY <1>0, <1>13, MarkTierReads
  <2>1. /\ request[p].wf = w /\ request[p].step = s /\ request[p].user = u
        /\ request' = [request EXCEPT ![p] =
               [pc |-> "advance", user |-> u, wf |-> w, step |-> s, next |-> t]]
    BY <2>a DEF Marks
  <2>2. /\ u \in Resolve(Roles(w, s))
        /\ Mode(w, s) = "any" \/ Resolve(Roles(w, s)) \subseteq Approvers(w, s)
    BY <1>13, <2>1 DEF MarkTier, AllInv, Qualified, Deciding
  <2>3. /\ request'[p] = [pc |-> "advance", user |-> u, wf |-> w, step |-> s, next |-> t]
        /\ \A q \in Worker \ {p} : request'[q] = request[q]
    BY <1>0, <2>1 DEF TypeOK
  <2>4. UNCHANGED <<stepStatus, log, holders>>
    BY <1>13 DEF MarkTier
  <2>5. Qualified(p)'
    BY <2>2, <2>3, <2>4 DEF Qualified, Deciding, Resolve, Approvers
  <2> QED
    BY <1>1, <2>3, <2>4, <2>5
<1>18. ASSUME NEW p \in Worker, AdvanceToNextStep(p)
       PROVE  AllInv'
  <2>a. PICK w \in Workflow, s \in Nat, u \in User, n \in Nat : Commits(p, w, s, u, n)
    BY <1>18, AdvanceWrites DEF AllInv
  <2>1. /\ request[p].wf = w /\ request[p].step = s /\ request[p].user = u
        /\ s \in Tiers(w)
        /\ \A v \in Workflow : \A t \in Tiers(v) :
              v # w \/ t # s => stepStatus'[v][t] = stepStatus[v][t]
        /\ request'[p].pc = "event"
        /\ \A q \in Worker \ {p} : request'[q] = request[q]
    BY <2>a DEF Commits
  <2>2. /\ u \in Resolve(Roles(w, s))
        /\ Mode(w, s) # "any" => Resolve(Roles(w, s)) \subseteq Approvers(w, s)
    BY <1>18, <2>1 DEF AdvanceToNextStep, AllInv, Qualified
  <2>3. UNCHANGED holders
    BY <1>18 DEF AdvanceToNextStep
  <2>4. PICK acts : /\ log' = log \cup acts
                    /\ acts \subseteq {Action(w, s, u, "approved"), Action(w, 0, u, "completed")}
    <3>1. log' = log \cup (ApprovalRow(w, s, u) \cup (IF n = 0 THEN {Action(w, 0, u, "completed")} ELSE {}))
      BY <2>a DEF Commits
    <3>2. ApprovalRow(w, s, u) \cup (IF n = 0 THEN {Action(w, 0, u, "completed")} ELSE {})
            \subseteq {Action(w, s, u, "approved"), Action(w, 0, u, "completed")}
      BY DEF ApprovalRow
    <3> QED
      BY <3>1, <3>2
  <2>5. \A q \in Worker : Qualified(q)'
    BY <1>2, <2>1, <2>3, <2>4, OthersStayQualified
  <2>6. OnlyRequired'
    <3>1. ASSUME NEW v \in Workflow, NEW t \in Tiers(v), NEW x \in Approvers(v, t)',
                 x \notin Approvers(v, t)
          PROVE  v = w /\ t = s /\ x = u
      BY <2>4, <3>1 DEF Approvers, Action
    <3> QED
      BY <2>2, <2>3, <3>1 DEF AllInv, OnlyRequired, Resolve
  <2>7. AllModeComplete'
    <3> SUFFICES ASSUME NEW v \in Workflow, NEW t \in Tiers(v),
                        Mode(v, t) = "all", stepStatus'[v][t] = "approved"
                 PROVE  Resolve(Roles(v, t))' \subseteq Approvers(v, t)'
      BY DEF AllModeComplete
    <3>1. Approvers(v, t) \subseteq Approvers(v, t)'
      BY <2>4 DEF Approvers
    <3>2. Resolve(Roles(v, t))' = Resolve(Roles(v, t))
      BY <2>3 DEF Resolve
    <3>3. CASE v = w /\ t = s
      BY <2>2, <3>1, <3>2, <3>3
    <3>4. CASE v # w \/ t # s
      BY <2>1, <3>1, <3>2, <3>4 DEF AllInv, AllModeComplete
    <3> QED
      BY <3>3, <3>4
  <2> QED
    BY <1>0, <2>5, <2>6, <2>7 DEF AllInv
<1>14. ~\E r \in Role, u \in User : ChangeRole(r, u)
  BY <1>0 DEF ChangeRole, TypeOK, StaticRoles
<1>15. CASE UNCHANGED vars
  BY <1>0, <1>15 DEF AllInv, Qualified, OnlyRequired, AllModeComplete, Approvers, Resolve, vars
<1>16. ASSUME NEW p \in Worker, RequestStep(p)
       PROVE  AllInv'
  BY <1>7, <1>8, <1>9, <1>10, <1>11, <1>12, <1>13, <1>16, <1>18
  DEF RequestStep, RecallCommit, CancelCommit, Phase
<1>17. ASSUME NEW p \in Worker, NewRequest(p)
       PROVE  AllInv'
  BY <1>4, <1>5, <1>6, <1>17
  DEF NewRequest, ApproveAnyCheck, ApproveAllCheck, RejectCheck, RecallCheck, CancelCheck, Deciding
<1> QED
  BY <1>14, <1>15, <1>16, <1>17 DEF Next

\* approve(), mode 'all': with static roles, a tier of that mode is never approved, by any
\* interleaving of requests and crashes, before every user its roles name has approved it.
THEOREM AllModeNeedsEveryone ==
    ASSUME StaticRoles
    PROVE  Spec => []AllModeComplete
<1>1. Init => AllInv
  <2> SUFFICES ASSUME Init
               PROVE  AllInv
    OBVIOUS
  <2>1. OrderInv
    BY InitOrder
  <2> QED
    BY <2>1 DEF Init, AllInv, Qualified, OnlyRequired, AllModeComplete, Approvers, Idle, Deciding
<1>2. AllInv => AllModeComplete
  BY DEF AllInv
<1> QED
  BY <1>1, <1>2, AllStep, PTL DEF Spec
-----------------------------------------------------------------------------
(***************************************************************************)
(* Who closes a tier of 'all' mode.  With roles that do not change and no  *)
(* request killed, the last one to log his approval is also the one whose  *)
(* count is enough, whoever may bypass the roles: nothing is left stuck.   *)
(***************************************************************************)
NothingFails ==
    /\ IsFiniteSet(User)
    /\ MaxRoleChanges = 0
    /\ MaxCrashes = 0

\* A workflow that is not there has no approvals.
NoEarlyApproval ==
    \A w \in Workflow : status[w] = "none" => \A t \in Tiers(w) : Approvers(w, t) = {}

Finisher(p, w, t) ==
    /\ request[p].pc \in {"countApprovals", "completeTier", "advance"}
    /\ request[p].wf = w
    /\ request[p].step = t

\* What LastApprovalCloses says of one tier
Unclosed(w, t) ==
    /\ Mode(w, t) = "all"
    /\ Approvers(w, t) # {}
    /\ Required(w, t) \subseteq Approvers(w, t)
    /\ status[w] = "pending"
    /\ stepStatus[w][t] = "pending"

ClosingInv ==
    /\ OrderInv
    /\ NoEarlyApproval
    /\ \A w \in Workflow : \A t \in Tiers(w) :
          Unclosed(w, t) => \E p \in Worker : Finisher(p, w, t)

\* A step that closes no tier, and approves none of 'all' mode, leaves its finisher there.
LEMMA FinisherStays ==
    ASSUME ClosingInv, OrderInv', NoEarlyApproval', UNCHANGED holders,
           NEW p \in Worker, \A q \in Worker \ {p} : request'[q] = request[q],
           \A w \in Workflow : \A t \in Tiers(w) :
              Unclosed(w, t)' => \/ Finisher(p, w, t)'
                                 \/ Unclosed(w, t) /\ ~Finisher(p, w, t)
    PROVE  ClosingInv'
<1>2. ASSUME NEW w \in Workflow, NEW t \in Tiers(w), Unclosed(w, t)'
      PROVE  \E q \in Worker : Finisher(q, w, t)'
  <2>1. CASE Finisher(p, w, t)'
    BY <2>1
  <2>2. CASE Unclosed(w, t) /\ ~Finisher(p, w, t)
    <3>1. PICK q \in Worker \ {p} : Finisher(q, w, t)
      BY <2>2 DEF ClosingInv
    <3>2. request'[q] = request[q]
      OBVIOUS
    <3> QED
      BY <3>1, <3>2 DEF Finisher
  <2> QED
    BY <1>2, <2>1, <2>2
<1> QED
  BY <1>2 DEF ClosingInv

\* So does one that changes no row.
LEMMA NoRowChanges ==
    ASSUME ClosingInv, OrderInv', UNCHANGED <<status, stepStatus, log, holders>>,
           NEW p \in Worker, \A q \in Worker \ {p} : request'[q] = request[q],
           \A w \in Workflow : \A t \in Tiers(w) :
              Unclosed(w, t) /\ Finisher(p, w, t) => Finisher(p, w, t)'
    PROVE  ClosingInv'
<1>1. NoEarlyApproval'
  BY DEF ClosingInv, NoEarlyApproval, Approvers
<1>2. \A w \in Workflow : \A t \in Tiers(w) : Unclosed(w, t)' = Unclosed(w, t)
  BY DEF Unclosed, Approvers, Required, Resolve
<1> QED
  BY <1>1, <1>2, FinisherStays

\* A transaction that commits closes its own tier and no other.
LEMMA AdvanceCloses ==
    ASSUME ClosingInv, OrderInv', NEW p \in Worker, AdvanceToNextStep(p)
    PROVE  ClosingInv'
<1>a. PICK w \in Workflow, s \in Nat, u \in User, n \in Nat : Commits(p, w, s, u, n)
  BY AdvanceWrites DEF ClosingInv
<1>1. /\ request[p].wf = w /\ request[p].step = s
      /\ status[w] # "none" /\ s \in Tiers(w)
      /\ stepStatus'[w][s] = "approved"
      /\ \A v \in Workflow : \A t \in Tiers(v) :
            v # w \/ t # s => stepStatus'[v][t] = stepStatus[v][t]
      /\ \A v \in Workflow \ {w} : status'[v] = status[v]
      /\ \A q \in Worker \ {p} : request'[q] = request[q]
  BY <1>a DEF Commits
<1>2. Forward /\ UNCHANGED holders
  BY AdvanceInOrder DEF ClosingInv, AdvanceToNextStep, env
<1>3. PICK more : /\ log' = log \cup more
                  /\ \A a \in more : a.verb # "approved" \/ (a.wf = w /\ a.step = s)
  <2>1. log' = log \cup (ApprovalRow(w, s, u) \cup (IF n = 0 THEN {Action(w, 0, u, "completed")} ELSE {}))
    BY <1>a DEF Commits
  <2>2. \A a \in ApprovalRow(w, s, u) \cup (IF n = 0 THEN {Action(w, 0, u, "completed")} ELSE {}) :
            a.verb # "approved" \/ (a.wf = w /\ a.step = s)
    BY DEF ApprovalRow, Action
  <2> QED
    BY <2>1, <2>2
<1>4. \A v \in Workflow : \A t \in Tiers(v) : v # w \/ t # s => Approvers(v, t)' = Approvers(v, t)
  BY <1>3 DEF Approvers, Action
<1>5. NoEarlyApproval'
  BY <1>1, <1>2, <1>4 DEF NoEarlyApproval, ClosingInv, Forward
<1>6. ASSUME NEW v \in Workflow, NEW t \in Tiers(v), Unclosed(v, t)'
      PROVE  Unclosed(v, t) /\ ~Finisher(p, v, t)
  <2>1. v # w \/ t # s
    BY <1>1, <1>6 DEF Unclosed
  <2>2. status[v] = "pending"
    BY <1>1, <1>2, <1>6 DEF Unclosed, Forward
  <2>3. Unclosed(v, t)
    <3>1. stepStatus'[v][t] = stepStatus[v][t] /\ Approvers(v, t)' = Approvers(v, t)
      BY <1>1, <1>4, <2>1
    <3>2. Required(v, t)' = Required(v, t)
      BY <1>2 DEF Required, Resolve
    <3> QED
      BY <1>6, <2>2, <3>1, <3>2 DEF Unclosed
  <2> QED
    BY <1>1, <2>1, <2>3 DEF Finisher
<1> QED
  BY <1>1, <1>2, <1>5, <1>6, FinisherStays

\* A step that decides or starts workflow w, and approves nothing, leaves nothing unclosed.
LEMMA DecisionCloses ==
    ASSUME ClosingInv, OrderInv', UNCHANGED holders,
           NEW p \in Worker, request[p].pc \notin {"countApprovals", "completeTier", "advance"},
           \A q \in Worker \ {p} : request'[q] = request[q],
           NEW w \in Workflow, status'[w] = "pending" => status[w] = "none",
           status'[w] # "none",
           \A v \in Workflow \ {w} : status'[v] = status[v] /\ stepStatus'[v] = stepStatus[v],
           NEW a, log' = log \cup {a}, a.verb # "approved"
    PROVE  ClosingInv'
<1>1. \A v \in Workflow : \A t \in Tiers(v) : Approvers(v, t)' = Approvers(v, t)
  BY DEF Approvers, Action
<1>2. NoEarlyApproval'
  BY <1>1 DEF ClosingInv, NoEarlyApproval
<1>3. ASSUME NEW v \in Workflow, NEW t \in Tiers(v), Unclosed(v, t)'
      PROVE  Unclosed(v, t) /\ ~Finisher(p, v, t)
  <2>1. v # w
    BY <1>1, <1>3 DEF Unclosed, ClosingInv, NoEarlyApproval
  <2> QED
    BY <1>1, <1>3, <2>1 DEF Unclosed, Finisher, Required, Resolve
<1> QED
  BY <1>2, <1>3, FinisherStays

LEMMA ClosingStep ==
    ASSUME NothingFails
    PROVE  ClosingInv /\ [Next]_vars => ClosingInv'
<1> SUFFICES ASSUME ClosingInv, [Next]_vars
             PROVE  ClosingInv'
  OBVIOUS
<1> USE DEF rows, env
<1>0. OrderInv /\ OrderInv' /\ TypeOK
  BY OrderStep DEF ClosingInv, OrderInv
<1>1. ASSUME NEW p \in Worker, NewRequest(p)
      PROVE  ClosingInv'
  <2> DEFINE Loads ==
                /\ UNCHANGED <<status, stepStatus, log, holders>>
                /\ request[p] = Idle
                /\ \A q \in Worker \ {p} : request'[q] = request[q]
  <2>1. Loads
    <3>1. ASSUME NEW u \in User, NEW e \in Entity, SubmitCheck(p, u, e)
          PROVE  Loads
      BY <1>0, <3>1 DEF SubmitCheck, TypeOK
    <3>2. ASSUME NEW u \in User, NEW w \in Workflow, NEW phase, LoadTier(p, u, w, phase)
          PROVE  Loads
      BY <1>0, <3>2 DEF LoadTier, TypeOK
    <3>3. ASSUME NEW u \in User, NEW w \in Workflow, NEW phase, LoadWorkflow(p, u, w, phase)
          PROVE  Loads
      BY <1>0, <3>3 DEF LoadWorkflow, TypeOK
    <3> QED
      BY <1>1, <3>1, <3>2, <3>3
      DEF NewRequest, ApproveAnyCheck, ApproveAllCheck, RejectCheck, RecallCheck, CancelCheck
  <2>2. \A w \in Workflow : \A t \in Tiers(w) : ~Finisher(p, w, t)
    BY <2>1 DEF Finisher, Idle
  <2> QED
    BY <1>0, <2>1, <2>2, NoRowChanges
<1>2. ASSUME NEW p \in Worker, NEW n \in 1..MaxRuns, SubmitCommit(p, n)
      PROVE  ClosingInv'
  <2>1. PICK w \in Workflow, u \in User : w = <<request[p].entity, n>> /\ u = request[p].user
    BY <1>0, <1>2, SubmitRequest DEF SubmitCommit, Workflow
  <2>2. /\ status[w] = "none" /\ status'[w] # "none"
        /\ \A v \in Workflow \ {w} : status'[v] = status[v] /\ stepStatus'[v] = stepStatus[v]
        /\ \A q \in Worker \ {p} : request'[q] = request[q]
        /\ UNCHANGED holders
    BY <1>0, <1>2, <2>1 DEF SubmitCommit, TypeOK
  <2>5. PICK verb \in {"submitted", "completed"} : log' = log \cup {Action(w, 0, u, verb)}
    BY <1>2, <2>1 DEF SubmitCommit
  <2>6. Action(w, 0, u, verb).verb # "approved"
    BY DEF Action
  <2> QED
    BY <1>0, <1>2, <2>2, <2>5, <2>6, DecisionCloses DEF SubmitCommit
<1>3. ASSUME NEW p \in Worker, MarkTier(p)
      PROVE  ClosingInv'
  <2>a. PICK w \in Workflow, s \in Nat, u \in User, t \in Nat : Marks(p, w, s, u, t)
    BY <1>0, <1>3, MarkTierReads
  <2>1. /\ request[p].wf = w /\ request[p].step = s
        /\ request' = [request EXCEPT ![p] =
               [pc |-> "advance", user |-> u, wf |-> w, step |-> s, next |-> t]]
    BY <2>a DEF Marks
  <2>2. /\ request'[p] = [pc |-> "advance", user |-> u, wf |-> w, step |-> s, next |-> t]
        /\ \A q \in Worker \ {p} : request'[q] = request[q]
    BY <1>0, <2>1 DEF TypeOK
  <2>3. \A v \in Workflow : \A x \in Tiers(v) : Finisher(p, v, x) => Finisher(p, v, x)'
    BY <2>1, <2>2 DEF Finisher
  <2>4. UNCHANGED <<status, stepStatus, log, holders>>
    BY <1>3 DEF MarkTier
  <2> QED
    BY <1>0, <2>2, <2>3, <2>4, NoRowChanges
<1>3a. ASSUME NEW p \in Worker, AdvanceToNextStep(p)
       PROVE  ClosingInv'
  BY <1>0, <1>3a, AdvanceCloses
<1>4. ASSUME NEW p \in Worker, LogApproval(p)
      PROVE  ClosingInv'
  <2>1. PICK w \in Workflow, s \in Nat, u \in User :
            request[p].wf = w /\ request[p].step = s /\ request[p].user = u
    BY <1>0, <1>4, HeldRequest DEF LogApproval, Phase, Held
  <2>2. status[w] # "none"
    BY <1>0, <1>4, <2>1 DEF LogApproval, Phase, OrderInv, Behind
  <2>3. /\ request'[p].pc = "countApprovals" /\ request'[p].wf = w /\ request'[p].step = s
        /\ \A q \in Worker \ {p} : request'[q] = request[q]
    <3>1. request[p] \in Held
      BY <1>0, <1>4, HeldRequest DEF LogApproval, Phase
    <3> QED
      BY <1>0, <1>4, <2>1, <3>1 DEF LogApproval, TypeOK, Held
  <2>4. UNCHANGED <<status, stepStatus, holders>> /\ log' = log \cup {Action(w, s, u, "approved")}
    BY <1>4, <2>1 DEF LogApproval
  <2>5. \A v \in Workflow : \A t \in Tiers(v) : v # w \/ t # s => Approvers(v, t)' = Approvers(v, t)
    BY <2>4 DEF Approvers, Action
  <2>6. NoEarlyApproval'
    BY <2>2, <2>4, <2>5 DEF NoEarlyApproval, ClosingInv
  <2>7. ASSUME NEW v \in Workflow, NEW t \in Tiers(v), Unclosed(v, t)'
        PROVE  Finisher(p, v, t)' \/ (Unclosed(v, t) /\ ~Finisher(p, v, t))
    <3>1. CASE v = w /\ t = s
      BY <2>3, <3>1 DEF Finisher
    <3>2. CASE v # w \/ t # s
      BY <1>4, <2>4, <2>5, <2>7, <3>2 DEF LogApproval, Unclosed, Finisher, Required, Resolve
    <3> QED
      BY <3>1, <3>2
  <2> QED
    BY <1>0, <2>3, <2>4, <2>6, <2>7, FinisherStays
<1>5. ASSUME NEW p \in Worker, CountApprovals(p)
      PROVE  ClosingInv'
  <2>1. PICK w \in Workflow, s \in Nat : request[p].wf = w /\ request[p].step = s
    BY <1>0, <1>5, HeldRequest DEF CountApprovals, Phase, Held
  <2>2. request[p] \in Held
    BY <1>0, <1>5, HeldRequest DEF CountApprovals, Phase
  <2>3. PICK x \in {"completeTier", "event"} :
           /\ request' = [request EXCEPT ![p].pc = x]
           /\ Cardinality(Approvers(w, s)) >= Cardinality(Required(w, s)) => x = "completeTier"
    BY <1>5, <2>1 DEF CountApprovals
  <2>4. /\ request'[p].pc = x /\ request'[p].wf = w /\ request'[p].step = s
        /\ \A q \in Worker \ {p} : request'[q] = request[q]
    BY <1>0, <2>1, <2>2, <2>3 DEF TypeOK, Held
  <2>5. ASSUME NEW v \in Workflow, NEW t \in Tiers(v), Unclosed(v, t), Finisher(p, v, t)
        PROVE  Finisher(p, v, t)'
    <3>1. v = w /\ t = s
      BY <2>1, <2>5 DEF Finisher
    <3>2. IsFiniteSet(Approvers(w, s))
      BY FS_Subset DEF Approvers, NothingFails
    <3>3. /\ Cardinality(Required(w, s)) \in Nat /\ Cardinality(Approvers(w, s)) \in Nat
          /\ Cardinality(Required(w, s)) <= Cardinality(Approvers(w, s))
      BY <2>5, <3>1, <3>2, FS_Subset, FS_CardinalityType DEF Unclosed
    <3> QED
      BY <2>3, <2>4, <3>1, <3>3 DEF Finisher
  <2>6. UNCHANGED <<status, stepStatus, log, holders>>
    BY <1>5 DEF CountApprovals
  <2> QED
    BY <1>0, <2>4, <2>5, <2>6, NoRowChanges
<1>6. ASSUME NEW p \in Worker, NEW verb \in {"rejected", "recalled", "cancelled"}, NEW s,
             NEW w \in Workflow, w = request[p].wf, request[p].pc \in {"reject", "recall", "cancel"},
             status' = [status EXCEPT ![w] = IF verb = "rejected" THEN verb ELSE "cancelled"],
             log' = log \cup {Action(w, s, request[p].user, verb)},
             \A v \in Workflow \ {w} : stepStatus'[v] = stepStatus[v],
             UNCHANGED holders,
             \/ request' = [request EXCEPT ![p] = Idle]
             \/ request' = [request EXCEPT ![p].pc = "event", ![p].seen = "rejected"]
             \/ request' = [request EXCEPT ![p].pc = "event", ![p].seen = "cancelled"]
      PROVE  ClosingInv'
  <2>1. /\ status'[w] \in {"rejected", "cancelled"}
        /\ \A v \in Workflow \ {w} : status'[v] = status[v]
        /\ \A q \in Worker \ {p} : request'[q] = request[q]
    BY <1>0, <1>6 DEF TypeOK
  <2>4. PICK a : log' = log \cup {a} /\ a.verb # "approved"
    <3>1. Action(w, s, request[p].user, verb).verb # "approved"
      BY DEF Action
    <3> QED
      BY <1>6, <3>1
  <2> QED
    BY <1>0, <1>6, <2>1, <2>4, DecisionCloses
<1>7. ASSUME NEW p \in Worker, RejectCommit(p) \/ RecallCommit(p) \/ CancelCommit(p)
      PROVE  ClosingInv'
  <2>1. PICK w \in Workflow : w = request[p].wf
    BY <1>0, <1>7, HeldRequest DEF RejectCommit, RecallCommit, CancelCommit, Phase, Held
  <2>2. CASE RejectCommit(p)
    BY <1>0, <1>6, <2>1, <2>2 DEF RejectCommit, TypeOK
  <2>3. CASE RecallCommit(p)
    BY <1>0, <1>6, <2>1, <2>3 DEF RecallCommit, Close, TypeOK
  <2>4. CASE CancelCommit(p)
    BY <1>0, <1>6, <2>1, <2>4 DEF CancelCommit, Close, TypeOK
  <2> QED
    BY <1>7, <2>2, <2>3, <2>4
<1>8. ASSUME NEW p \in Worker, DeliverEvent(p)
      PROVE  ClosingInv'
  <2>1. /\ UNCHANGED <<status, stepStatus, log, holders>>
        /\ \A q \in Worker \ {p} : request'[q] = request[q]
    BY <1>0, <1>8 DEF DeliverEvent, TypeOK
  <2>2. \A w \in Workflow : \A t \in Tiers(w) : ~Finisher(p, w, t)
    BY <1>8 DEF DeliverEvent, Finisher
  <2> QED
    BY <1>0, <2>1, <2>2, NoRowChanges
<1>9. ~(\E p \in Worker : Crash(p)) /\ ~(\E r \in Role, u \in User : ChangeRole(r, u))
  BY <1>0 DEF Crash, ChangeRole, TypeOK, NothingFails
<1>10. CASE UNCHANGED vars
  <2>1. UNCHANGED <<status, stepStatus, log, holders, request>>
    BY <1>10 DEF vars
  <2> QED
    BY <1>0, <2>1
    DEF ClosingInv, NoEarlyApproval, Unclosed, Finisher, Approvers, Required, Resolve
<1>11. ASSUME NEW p \in Worker, RequestStep(p)
       PROVE  ClosingInv'
  BY <1>2, <1>3, <1>3a, <1>4, <1>5, <1>7, <1>8, <1>9, <1>11 DEF RequestStep
<1> QED
  BY <1>1, <1>9, <1>10, <1>11 DEF Next

\* approve(), mode 'all': once everyone required has approved a pending tier, the request
\* that will close it is alive, for any number of requests at the same time.
THEOREM LastApproverCloses ==
    ASSUME NothingFails
    PROVE  Spec => []LastApprovalCloses
<1>1. Init => ClosingInv
  <2> SUFFICES ASSUME Init
               PROVE  ClosingInv
    OBVIOUS
  <2> QED
    BY InitOrder DEF Init, ClosingInv, NoEarlyApproval, Unclosed, Approvers, Idle
<1>2. ClosingInv => LastApprovalCloses
  BY DEF ClosingInv, LastApprovalCloses, Unclosed, Finishing, Finisher
<1> QED
  BY <1>1, <1>2, ClosingStep, PTL DEF Spec
-----------------------------------------------------------------------------
(***************************************************************************)
(* One request at a time.  What a request has loaded is then still so when *)
(* it acts, and the engine does what ApprovalLifecycle promises; the       *)
(* counterexamples of engine_duplicate and engine_rejection take two.      *)
(***************************************************************************)
OneRequest == \A p, q \in Worker : p = q

\* What the request has loaded is what the rows hold.
UpToDate(p) ==
    LET r == request[p]
    IN  /\ r.pc = "submit" => \A n \in 1..MaxRuns : status[<<r.entity, n>>] # "pending"
        /\ r.pc \in Deciding =>
              /\ status[r.wf] = "pending"
              /\ current[r.wf] = r.step
              /\ r.seen = "pending"
        /\ r.pc = "advance" =>
              /\ status[r.wf] = "pending"
              /\ current[r.wf] = r.step
              /\ IsNextStep(r.wf, r.next, [stepStatus[r.wf] EXCEPT ![r.step] = "approved"])
        /\ r.pc = "recall" => status[r.wf] = "pending"
        /\ r.pc = "cancel" => status[r.wf] = "approved"
        /\ r.pc = "event" /\ r.seen = "approved" => status[r.wf] = "approved"

\* The tiers from the current one on are untouched.
InStep ==
    \A w \in Workflow : status[w] = "pending" =>
        \A t \in Tiers(w) : ~(t < current[w]) => stepStatus[w][t] = "pending"

SerialInv ==
    /\ OrderInv
    /\ InStep
    /\ \A p \in Worker : UpToDate(p)
    /\ ApprovedEntityIsBacked

\* What ApprovedEntityIsBacked asks of the n-th workflow of e
Backs(e, n) ==
    \/ status[<<e, n>>] = "approved"
    \/ /\ status[<<e, n>>] = "cancelled"
       /\ \E u \in User : Action(<<e, n>>, 0, u, "cancelled") \in log

\* A step that tells the entity nothing, and takes no backing away
LEMMA BackingStays ==
    ASSUME OneRequest, SerialInv, OrderInv', InStep', NEW p \in Worker, UpToDate(p)',
           UNCHANGED entityStatus,
           \A e \in Entity : \A n \in 1..MaxRuns : Backs(e, n) => Backs(e, n)'
    PROVE  SerialInv'
<1>1. \A q \in Worker : q = p
  BY DEF OneRequest
<1>2. ASSUME NEW e \in Entity, entityStatus'[e] = "approved"
      PROVE  \E n \in 1..MaxRuns : Backs(e, n)'
  <2>1. PICK n \in 1..MaxRuns : Backs(e, n)
    BY <1>2 DEF SerialInv, ApprovedEntityIsBacked, Backs
  <2> QED
    BY <2>1
<1>3. ApprovedEntityIsBacked'
  BY <1>2 DEF ApprovedEntityIsBacked, Backs
<1> QED
  BY <1>1, <1>3 DEF SerialInv

\* A request that changes no row but the log
LEMMA RowsStand ==
    ASSUME OneRequest, SerialInv, OrderInv', NEW p \in Worker, UpToDate(p)',
           UNCHANGED <<status, current, stepStatus, entityStatus>>, log \subseteq log'
    PROVE  SerialInv'
<1>1. InStep'
  BY DEF SerialInv, InStep
<1>2. \A e \in Entity : \A n \in 1..MaxRuns : Backs(e, n) => Backs(e, n)'
  BY DEF Backs
<1> QED
  BY <1>1, <1>2, BackingStays

\* A request that decides workflow w, which was open before
LEMMA NoneLost ==
    ASSUME OneRequest, SerialInv, OrderInv', InStep', NEW p \in Worker, UpToDate(p)',
           NEW w \in Workflow, status[w] \in {"none", "pending"},
           \A v \in Workflow \ {w} : status'[v] = status[v],
           UNCHANGED entityStatus, log \subseteq log'
    PROVE  SerialInv'
<1>1. ASSUME NEW e \in Entity, NEW n \in 1..MaxRuns, Backs(e, n)
      PROVE  Backs(e, n)'
  <2>1. <<e, n>> \in Workflow /\ <<e, n>> # w
    BY <1>1 DEF Workflow, Backs
  <2> QED
    BY <1>1, <2>1 DEF Backs
<1> QED
  BY <1>1, BackingStays

\* A request that closes workflow w and leaves the others where they are
LEMMA ClosedInStep ==
    ASSUME SerialInv, NEW w \in Workflow, status'[w] # "pending",
           \A v \in Workflow \ {w} :
              /\ status'[v] = status[v] /\ current'[v] = current[v]
              /\ \A t \in Tiers(v) : stepStatus'[v][t] = stepStatus[v][t]
    PROVE  InStep'
BY DEF SerialInv, InStep

LEMMA SerialStep ==
    ASSUME OneRequest
    PROVE  SerialInv /\ [Next]_vars => SerialInv'
<1> SUFFICES ASSUME SerialInv, [Next]_vars
             PROVE  SerialInv'
  OBVIOUS
<1> USE DEF rows, env
<1>0. OrderInv /\ OrderInv' /\ TypeOK
  BY OrderStep DEF SerialInv, OrderInv
<1>1. ASSUME NEW p \in Worker, NEW u \in User, NEW e \in Entity, SubmitCheck(p, u, e)
      PROVE  SerialInv'
  <2>1. request'[p] = [pc |-> "submit", user |-> u, entity |-> e]
    BY <1>0, <1>1 DEF SubmitCheck, TypeOK
  <2>2. UpToDate(p)'
    BY <1>1, <2>1 DEF SubmitCheck, HasActiveWorkflow, UpToDate, Deciding
  <2> QED
    BY <1>0, <1>1, <2>2, RowsStand DEF SubmitCheck
<1>2. ASSUME NEW p \in Worker, NEW u \in User, NEW w \in Workflow, NEW phase \in Deciding,
             LoadTier(p, u, w, phase)
      PROVE  SerialInv'
  <2>1. request'[p] = [pc |-> phase, user |-> u, wf |-> w, step |-> current[w], seen |-> "pending"]
    BY <1>0, <1>2 DEF LoadTier, TypeOK
  <2>2. UpToDate(p)'
    BY <1>2, <2>1 DEF LoadTier, UpToDate, Deciding
  <2> QED
    BY <1>0, <1>2, <2>2, RowsStand DEF LoadTier
<1>3. ASSUME NEW p \in Worker, NEW u \in User, NEW w \in Workflow, NEW phase \in {"recall", "cancel"},
             LoadWorkflow(p, u, w, phase),
             status[w] = IF phase = "recall" THEN "pending" ELSE "approved"
      PROVE  SerialInv'
  <2>1. request'[p] = [pc |-> phase, user |-> u, wf |-> w, step |-> 0, seen |-> status[w]]
    BY <1>0, <1>3 DEF LoadWorkflow, TypeOK
  <2>2. UpToDate(p)'
    BY <1>3, <2>1 DEF LoadWorkflow, UpToDate, Deciding
  <2> QED
    BY <1>0, <1>3, <2>2, RowsStand DEF LoadWorkflow
<1>4. ASSUME NEW p \in Worker, NEW n \in 1..MaxRuns, SubmitCommit(p, n)
      PROVE  SerialInv'
  <2>1. PICK w \in Workflow : w = <<request[p].entity, n>>
    BY <1>0, <1>4, SubmitRequest DEF SubmitCommit, Workflow
  <2>2. /\ status[w] = "none" /\ UNCHANGED entityStatus
        /\ \A v \in Workflow \ {w} : status'[v] = status[v]
    BY <1>0, <1>4, <2>1 DEF SubmitCommit, TypeOK
  <2>3. \/ request'[p] = Idle
        \/ request'[p].pc = "event" /\ request'[p].wf = w /\ status'[w] = "approved"
    BY <1>0, <1>4, <2>1 DEF SubmitCommit, TypeOK
  <2>4. UpToDate(p)'
    BY <2>3 DEF UpToDate, Deciding, Idle
  <2>5. UNCHANGED stepStatus /\ log \subseteq log'
    BY <1>4 DEF SubmitCommit
  <2>6. \A t \in Tiers(w) : stepStatus[w][t] = "pending"
    BY <1>0, <2>2 DEF OrderInv, Untouched, Decided
  <2>7. \A v \in Workflow \ {w} : current'[v] = current[v]
    BY <1>0, <1>4, <2>1 DEF SubmitCommit, TypeOK
  <2>8. InStep'
    BY <2>2, <2>5, <2>6, <2>7 DEF SerialInv, InStep
  <2> QED
    BY <1>0, <2>2, <2>4, <2>5, <2>8, NoneLost
<1>5. ASSUME NEW p \in Worker, MarkTier(p)
      PROVE  SerialInv'
  <2>a. PICK w \in Workflow, s \in Nat, u \in User, t \in Nat : Marks(p, w, s, u, t)
    BY <1>0, <1>5, MarkTierReads
  <2>1. /\ request[p].wf = w /\ request[p].step = s
        /\ IsNextStep(w, t, [stepStatus[w] EXCEPT ![s] = "approved"])
        /\ request' = [request EXCEPT ![p] =
               [pc |-> "advance", user |-> u, wf |-> w, step |-> s, next |-> t]]
    BY <2>a DEF Marks
  <2>2. status[w] = "pending" /\ current[w] = s
    BY <1>5, <2>1 DEF MarkTier, SerialInv, UpToDate, Deciding
  <2>3. request'[p] = [pc |-> "advance", user |-> u, wf |-> w, step |-> s, next |-> t]
    BY <1>0, <2>1 DEF TypeOK
  <2>4. UNCHANGED <<status, current, stepStatus, log, entityStatus>>
    BY <1>5 DEF MarkTier
  <2>5. IsNextStep(w, t, [stepStatus[w] EXCEPT ![s] = "approved"])'
    BY <2>1, <2>4 DEF IsNextStep
  <2>6. UpToDate(p)'
    BY <2>2, <2>3, <2>4, <2>5 DEF UpToDate, Deciding
  <2> QED
    BY <1>0, <2>4, <2>6, RowsStand
<1>14. ASSUME NEW p \in Worker, AdvanceToNextStep(p)
       PROVE  SerialInv'
  <2>a. PICK w \in Workflow, s \in Nat, u \in User, n \in Nat : Commits(p, w, s, u, n)
    BY <1>0, <1>14, AdvanceWrites
  <2>1. /\ request[p].wf = w /\ request[p].step = s /\ request[p].next = n
        /\ s \in Tiers(w) /\ n \in Tiers(w) \cup {0}
        /\ \A v \in Workflow : \A t \in Tiers(v) :
              v # w \/ t # s => stepStatus'[v][t] = stepStatus[v][t]
        /\ \/ n # 0 /\ current'[w] = n /\ UNCHANGED status
           \/ n = 0 /\ status'[w] = "approved" /\ current'[w] = current[w]
        /\ \A v \in Workflow \ {w} : status'[v] = status[v] /\ current'[v] = current[v]
        /\ log \subseteq log'
        /\ request'[p] = [pc |-> "event", user |-> u, wf |-> w, step |-> s,
                          seen |-> IF n = 0 THEN "approved" ELSE "pending"]
    BY <2>a DEF Commits
  <2>2. /\ status[w] = "pending" /\ current[w] = s
        /\ IsNextStep(w, n, [stepStatus[w] EXCEPT ![s] = "approved"])
    BY <1>14, <2>1 DEF AdvanceToNextStep, SerialInv, UpToDate
  <2>3. ASSUME n # 0
        PROVE  s < n
    <3> DEFINE steps == [stepStatus[w] EXCEPT ![s] = "approved"]
    <3>1. /\ steps[s] = "approved"
          /\ \A t \in Tiers(w) : t # s => steps[t] = stepStatus[w][t]
      BY <1>0, <2>1 DEF TypeOK
    <3> HIDE DEF steps
    <3>2. steps[n] = "pending" /\ n \in Tiers(w)
      BY <2>1, <2>2, <2>3 DEF IsNextStep, steps
    <3>3. n # s /\ stepStatus[w][n] = "pending"
      BY <3>1, <3>2
    <3>4. ~(n < s)
      BY <1>0, <2>2, <3>2, <3>3 DEF OrderInv, TiersInOrder
    <3> QED
      BY <3>3, <3>4
  <2>4. InStep'
    <3>1. ASSUME NEW t \in Tiers(w), n # 0, ~(t < n)
          PROVE  stepStatus'[w][t] = "pending"
      <4>1. t \in Nat /\ ~(t < s) /\ t # s
        BY <2>3, <3>1, TiersAreNumbered
      <4> QED
        BY <2>1, <2>2, <4>1 DEF SerialInv, InStep
    <3> QED
      BY <2>1, <3>1 DEF SerialInv, InStep
  <2>5. UpToDate(p)'
    BY <2>1 DEF UpToDate, Deciding
  <2>6. UNCHANGED entityStatus
    BY <1>14 DEF AdvanceToNextStep
  <2> QED
    BY <1>0, <2>1, <2>2, <2>4, <2>5, <2>6, NoneLost
<1>6. ASSUME NEW p \in Worker, LogApproval(p) \/ CountApprovals(p)
      PROVE  SerialInv'
  <2>1. request[p] \in Held /\ UpToDate(p)
    BY <1>0, <1>6, HeldRequest DEF LogApproval, CountApprovals, Phase, SerialInv
  <2>2. PICK x \in {"countApprovals", "completeTier", "event"} : request' = [request EXCEPT ![p].pc = x]
    BY <1>6 DEF LogApproval, CountApprovals
  <2>3. UpToDate(p)'
    BY <1>0, <1>6, <2>1, <2>2 DEF LogApproval, CountApprovals, UpToDate, Deciding, TypeOK, Held
  <2> QED
    BY <1>0, <1>6, <2>3, RowsStand DEF LogApproval, CountApprovals
<1>7. ASSUME NEW p \in Worker, RejectCommit(p) \/ RecallCommit(p)
      PROVE  SerialInv'
  <2>1. PICK w \in Workflow : w = request[p].wf
    BY <1>0, <1>7, HeldRequest DEF RejectCommit, RecallCommit, Phase, Held
  <2>2. request[p] \in Held /\ UpToDate(p)
    BY <1>0, <1>7, HeldRequest DEF RejectCommit, RecallCommit, Phase, SerialInv
  <2>3. status[w] = "pending"
    BY <1>7, <2>1, <2>2 DEF RejectCommit, RecallCommit, UpToDate, Deciding
  <2>4. PICK end \in {"rejected", "cancelled"} :
            /\ status' = [status EXCEPT ![w] = end]
            /\ request' = [request EXCEPT ![p].pc = "event", ![p].seen = end]
            /\ UNCHANGED <<current, entityStatus>> /\ log \subseteq log'
    BY <1>7, <2>1 DEF RejectCommit, RecallCommit, Close
  <2>5. /\ \A v \in Workflow \ {w} : status'[v] = status[v]
        /\ status'[w] = end
        /\ request'[p].pc = "event" /\ request'[p].seen = end
    BY <1>0, <2>1, <2>2, <2>4 DEF TypeOK, Held
  <2>6. UpToDate(p)'
    BY <2>5 DEF UpToDate, Deciding
  <2>7. \A v \in Workflow \ {w} : stepStatus'[v] = stepStatus[v]
    BY <1>0, <1>7, <2>1 DEF RejectCommit, RecallCommit, Close, TypeOK
  <2>8. InStep'
    BY <2>4, <2>5, <2>7, ClosedInStep
  <2> QED
    BY <1>0, <2>3, <2>4, <2>5, <2>6, <2>8, NoneLost
<1>8. ASSUME NEW p \in Worker, CancelCommit(p)
      PROVE  SerialInv'
  <2>1. PICK w \in Workflow, u \in User : request[p].wf = w /\ request[p].user = u
    BY <1>0, <1>8, HeldRequest DEF CancelCommit, Phase, Held
  <2>2. /\ status' = [status EXCEPT ![w] = "cancelled"]
        /\ log' = log \cup {Action(w, 0, u, "cancelled")}
        /\ request' = [request EXCEPT ![p] = Idle]
        /\ UNCHANGED <<current, stepStatus, entityStatus>>
    BY <1>8, <2>1 DEF CancelCommit, Close
  <2>3. status'[w] = "cancelled" /\ \A v \in Workflow \ {w} : status'[v] = status[v]
    BY <1>0, <2>2 DEF TypeOK
  <2>4. ASSUME NEW e \in Entity, NEW n \in 1..MaxRuns, Backs(e, n)
        PROVE  Backs(e, n)'
    <3>1. CASE <<e, n>> = w
      BY <2>2, <2>3, <3>1 DEF Backs
    <3>2. CASE <<e, n>> # w
      <4>1. <<e, n>> \in Workflow
        BY DEF Workflow
      <4> QED
        BY <2>2, <2>3, <2>4, <3>2, <4>1 DEF Backs
    <3> QED
      BY <3>1, <3>2
  <2>5. InStep'
    BY <2>2, <2>3, ClosedInStep
  <2>6. request'[p] = Idle
    BY <1>0, <2>2 DEF TypeOK
  <2>7. UpToDate(p)'
    BY <2>6 DEF UpToDate, Deciding, Idle
  <2> QED
    BY <1>0, <2>2, <2>4, <2>5, <2>7, BackingStays
<1>9. ASSUME NEW p \in Worker, DeliverEvent(p)
      PROVE  SerialInv'
  <2>1. PICK e \in Entity, n \in 1..MaxRuns : request[p].wf = <<e, n>>
    BY <1>0, <1>9, HeldRequest DEF DeliverEvent, Phase, Held, Workflow
  <2>2. /\ entityStatus' = [entityStatus EXCEPT ![e] = request[p].seen]
        /\ request' = [request EXCEPT ![p] = Idle]
        /\ UNCHANGED status
    BY <1>9, <2>1 DEF DeliverEvent
  <2>3. request[p].seen = "approved" => status[<<e, n>>] = "approved"
    BY <1>9, <2>1 DEF DeliverEvent, SerialInv, UpToDate
  <2>4. ASSUME NEW d \in Entity, entityStatus'[d] = "approved"
        PROVE  \E m \in 1..MaxRuns : Backs(d, m)
    <3>1. CASE d = e
      BY <1>0, <2>2, <2>3, <2>4, <3>1 DEF TypeOK, Backs
    <3>2. CASE d # e
      BY <1>0, <2>2, <2>4, <3>2 DEF TypeOK, SerialInv, ApprovedEntityIsBacked, Backs
    <3> QED
      BY <3>1, <3>2
  <2>5. request'[p] = Idle /\ \A q \in Worker : q = p
    BY <1>0, <2>2 DEF TypeOK, OneRequest
  <2>6. UpToDate(p)'
    BY <2>5 DEF UpToDate, Deciding, Idle
  <2>7. UNCHANGED <<status, current, stepStatus, log>>
    BY <1>9 DEF DeliverEvent
  <2>8. ApprovedEntityIsBacked'
    BY <2>4, <2>7 DEF ApprovedEntityIsBacked, Backs
  <2>9. InStep'
    BY <2>7 DEF SerialInv, InStep
  <2> QED
    BY <1>0, <2>5, <2>6, <2>8, <2>9 DEF SerialInv
<1>10. ASSUME NEW p \in Worker, Crash(p)
       PROVE  SerialInv'
  <2>1. request'[p] = Idle
    BY <1>0, <1>10 DEF Crash, TypeOK
  <2>2. UpToDate(p)'
    BY <2>1 DEF UpToDate, Deciding, Idle
  <2> QED
    BY <1>0, <1>10, <2>2, RowsStand DEF Crash
<1>11. CASE (\E r \in Role, u \in User : ChangeRole(r, u)) \/ UNCHANGED vars
  <2>1. UNCHANGED <<status, current, stepStatus, log, entityStatus, request>>
    BY <1>11 DEF ChangeRole, vars
  <2>2. \A p \in Worker : UpToDate(p)'
    BY <2>1 DEF SerialInv, UpToDate, IsNextStep
  <2>3. ApprovedEntityIsBacked' /\ InStep'
    BY <2>1 DEF SerialInv, ApprovedEntityIsBacked, InStep
  <2> QED
    BY <1>0, <2>2, <2>3 DEF SerialInv
<1>12. ASSUME NEW p \in Worker, RequestStep(p)
       PROVE  SerialInv'
  BY <1>4, <1>5, <1>6, <1>7, <1>8, <1>9, <1>10, <1>12, <1>14 DEF RequestStep
<1>13. ASSUME NEW p \in Worker, NewRequest(p)
       PROVE  SerialInv'
  BY <1>1, <1>2, <1>3, <1>13
  DEF NewRequest, ApproveAnyCheck, ApproveAllCheck, RejectCheck, RecallCheck, CancelCheck, Deciding
<1> QED
  BY <1>11, <1>12, <1>13 DEF Next

LEMMA SerialInvariance ==
    ASSUME OneRequest
    PROVE  Spec => []SerialInv
<1>1. Init => SerialInv
  <2> SUFFICES ASSUME Init
               PROVE  SerialInv
    OBVIOUS
  <2> QED
    BY InitOrder DEF Init, SerialInv, InStep, UpToDate, ApprovedEntityIsBacked, Idle, Deciding
<1> QED
  BY <1>1, SerialStep, PTL DEF Spec

\* syncStatusFromWorkflow: with one request at a time, and however many of them are killed
\* between a commit and its event, a model says approved only while a workflow of it is, or
\* after one that was has been cancelled.
THEOREM ApprovedEntitiesAreBacked ==
    ASSUME OneRequest
    PROVE  Spec => []ApprovedEntityIsBacked
<1>1. SerialInv => ApprovedEntityIsBacked
  BY DEF SerialInv
<1> QED
  BY <1>1, SerialInvariance, PTL
-----------------------------------------------------------------------------
(***************************************************************************)
(* Refinement.  A run of ApprovalLifecycle is a workflow, its outcome the  *)
(* status and its cleared tiers the approved steps: a commit is the        *)
(* abstract step, and everything else a request does is stuttering.        *)
(***************************************************************************)
LEMMA InitRefines == Init => Lifecycle!ALInit
<1> SUFFICES ASSUME Init
             PROVE  Lifecycle!ALInit
  OBVIOUS
<1>1. \A w \in Workflow : {t \in Tiers(w) : stepStatus[w][t] = "approved"} = {}
  BY DEF Init
<1>2. Cleared = [w \in Workflow |-> {}]
  BY <1>1 DEF Cleared
<1> QED
  BY <1>2 DEF Init, Lifecycle!ALInit, Lifecycle!Run, Workflow

\* What happens to one tier of one workflow clears nothing else.
LEMMA ClearedBy ==
    ASSUME TypeOK, TypeOK', NEW w \in Workflow, NEW s \in Tiers(w), NEW new \in StepStatus,
           stepStatus' = [stepStatus EXCEPT ![w][s] = new], stepStatus[w][s] = "pending"
    PROVE  Cleared' = [Cleared EXCEPT ![w] = IF new = "approved" THEN Cleared[w] \cup {s} ELSE Cleared[w]]
<1> DEFINE done(v) == {t \in Tiers(v) : stepStatus[v][t] = "approved"}
           doneNext(v) == {t \in Tiers(v) : stepStatus'[v][t] = "approved"}
<1>1. \A v \in Workflow \ {w} : doneNext(v) = done(v)
  BY DEF TypeOK
<1>2. \A t \in Tiers(w) : stepStatus'[w][t] = IF t = s THEN new ELSE stepStatus[w][t]
  BY DEF TypeOK
<1>3. doneNext(w) = IF new = "approved" THEN done(w) \cup {s} ELSE done(w)
  BY <1>2
<1>4. Cleared = [v \in Workflow |-> done(v)] /\ Cleared' = [v \in Workflow |-> doneNext(v)]
  BY DEF Cleared
<1> HIDE DEF done, doneNext
<1> QED
  BY <1>1, <1>3, <1>4

LEMMA SubmitRefines ==
    ASSUME SerialInv, NEW p \in Worker, NEW n \in 1..MaxRuns, SubmitCommit(p, n)
    PROVE  Lifecycle!ALNext
<1> USE DEF rows, env
<1>0. TypeOK
  BY DEF SerialInv, OrderInv
<1>1. PICK e \in Entity : e = request[p].entity
  BY <1>0, SubmitRequest DEF SubmitCommit
<1> DEFINE w == <<e, n>>
<1>2. w \in Workflow /\ w \in Lifecycle!Run /\ w[1] = e
  BY DEF Workflow, Lifecycle!Run
<1>3. \A m \in 1..MaxRuns : status[<<w[1], m>>] # "pending"
  BY <1>1 DEF SubmitCommit, SerialInv, UpToDate
<1>4. status[w] = "none" /\ UNCHANGED stepStatus
  BY <1>1 DEF SubmitCommit
<1>5. TiersOf[w] = Tiers(w)
  BY <1>2 DEF TiersOf
<1>6. status' = [status EXCEPT ![w] = IF Tiers(w) = {} THEN "approved" ELSE "pending"]
  BY <1>1 DEF SubmitCommit
<1>7. Cleared' = Cleared
  BY <1>4 DEF Cleared
<1> HIDE DEF w
<1>8. Lifecycle!Submit(w)
  BY <1>3, <1>4, <1>5, <1>6, <1>7 DEF Lifecycle!Submit
<1> QED
  BY <1>2, <1>8 DEF Lifecycle!ALNext

LEMMA ApprovalRefines ==
    ASSUME SerialInv, TypeOK', NEW p \in Worker, AdvanceToNextStep(p)
    PROVE  Lifecycle!ALNext
<1>0. OrderInv /\ TypeOK /\ TiersInOrder
  BY DEF SerialInv, OrderInv
<1>a. PICK w \in Workflow, s \in Nat, u \in User, n \in Nat : Commits(p, w, s, u, n)
  BY <1>0, AdvanceWrites
<1>1. /\ request[p].wf = w /\ request[p].step = s /\ request[p].next = n
      /\ s \in Tiers(w) /\ n \in Tiers(w) \cup {0}
  BY <1>a DEF Commits
<1> DEFINE steps == [stepStatus[w] EXCEPT ![s] = "approved"]
<1>2. status[w] = "pending" /\ current[w] = s /\ IsNextStep(w, n, steps)
  BY <1>1 DEF AdvanceToNextStep, SerialInv, UpToDate
<1>3. /\ stepStatus[w][s] = "pending"
      /\ \A t \in Tiers(w) : t < s => stepStatus[w][t] = "approved"
      /\ \A t \in Tiers(w) : stepStatus[w][t] \in {"pending", "approved"}
  <2>1. s \in Nat /\ ~(s < s)
    OBVIOUS
  <2> QED
    BY <1>0, <1>1, <1>2, <2>1 DEF TiersInOrder, SerialInv, InStep, TypeOK, StepStatus
<1>4. stepStatus' = [stepStatus EXCEPT ![w][s] = "approved"]
  BY <1>1 DEF AdvanceToNextStep
<1>5. \A t \in Tiers(w) : steps[t] = IF t = s THEN "approved" ELSE stepStatus[w][t]
  BY <1>0, <1>1 DEF TypeOK
<1>6. Cleared' = [Cleared EXCEPT ![w] = Cleared[w] \cup {s}]
  BY <1>0, <1>1, <1>3, <1>4, ClearedBy DEF StepStatus
<1> HIDE DEF steps
<1>7. Cleared[w] = {t \in Tiers(w) : stepStatus[w][t] = "approved"} /\ TiersOf[w] = Tiers(w)
  BY DEF Cleared, TiersOf
<1>8. status' = [status EXCEPT ![w] = IF Tiers(w) \subseteq Cleared[w] \cup {s} THEN "approved" ELSE "pending"]
  <2>1. CASE n # 0
    <3>1. UNCHANGED status
      BY <1>1, <2>1 DEF AdvanceToNextStep
    <3>2. n \in Tiers(w) /\ steps[n] = "pending"
      BY <1>2, <2>1 DEF IsNextStep
    <3>3. n \notin Cleared[w] \cup {s}
      BY <1>5, <1>7, <3>2
    <3> QED
      BY <1>0, <1>2, <3>1, <3>2, <3>3 DEF TypeOK
  <2>2. CASE n = 0
    <3>1. status' = [status EXCEPT ![w] = "approved"]
      BY <1>1, <2>2 DEF AdvanceToNextStep
    <3>2. 0 \notin Tiers(w)
      BY TiersAreNumbered
    <3>3. \A t \in Tiers(w) : steps[t] # "pending"
      BY <1>2, <2>2, <3>2 DEF IsNextStep
    <3>4. \A t \in Tiers(w) : t = s \/ stepStatus[w][t] = "approved"
      BY <1>3, <1>5, <3>3
    <3> QED
      BY <1>7, <3>1, <3>4
  <2> QED
    BY <2>1, <2>2
<1>9. w \in Lifecycle!Run
  BY DEF Lifecycle!Run, Workflow
<1>10. s \in TiersOf[w] \ Cleared[w] /\ \A x \in TiersOf[w] : x < s => x \in Cleared[w]
  BY <1>1, <1>3, <1>7
<1>11. Lifecycle!ClearTier(w, s)
  BY <1>2, <1>6, <1>7, <1>8, <1>10 DEF Lifecycle!ClearTier
<1> QED
  BY <1>9, <1>10, <1>11 DEF Lifecycle!ALNext

LEMMA StopRefines ==
    ASSUME SerialInv, TypeOK', NEW p \in Worker,
           RejectCommit(p) \/ RecallCommit(p) \/ CancelCommit(p)
    PROVE  Lifecycle!ALNext
<1>0. TypeOK /\ TiersInOrder
  BY DEF SerialInv, OrderInv
<1>1. PICK w \in Workflow, s \in Nat : request[p].wf = w /\ request[p].step = s
  BY <1>0, HeldRequest DEF RejectCommit, RecallCommit, CancelCommit, Phase, Held
<1>2. w \in Lifecycle!Run
  BY DEF Lifecycle!Run, Workflow
<1>3. CASE RejectCommit(p)
  <2>1. status[w] = "pending" /\ current[w] = s /\ status' = [status EXCEPT ![w] = "rejected"]
    BY <1>1, <1>3 DEF RejectCommit, SerialInv, UpToDate, Deciding
  <2>2. s \in Tiers(w) /\ stepStatus[w][s] = "pending"
    <3>1. s \in Tiers(w) /\ s \in Nat /\ ~(s < s)
      BY <1>0, <1>1, <2>1 DEF TiersInOrder
    <3> QED
      BY <2>1, <3>1 DEF SerialInv, InStep
  <2>3. stepStatus' = [stepStatus EXCEPT ![w][s] = "rejected"]
    BY <1>1, <1>3 DEF RejectCommit
  <2>4. Cleared' = [Cleared EXCEPT ![w] = Cleared[w]]
    BY <1>0, <2>2, <2>3, ClearedBy DEF StepStatus
  <2>5. Cleared' = Cleared
    BY <2>4 DEF Cleared
  <2>6. Lifecycle!Stop(w)
    BY <2>1, <2>5 DEF Lifecycle!Stop
  <2> QED
    BY <1>2, <2>6 DEF Lifecycle!ALNext
<1>4. CASE RecallCommit(p) \/ CancelCommit(p)
  <2>1. status[w] \in {"pending", "approved"} /\ status' = [status EXCEPT ![w] = "cancelled"]
    BY <1>1, <1>4 DEF RecallCommit, CancelCommit, Close, SerialInv, UpToDate
  <2>2. Cleared' = Cleared
    BY <1>4 DEF RecallCommit, CancelCommit, Close, Cleared
  <2>3. Lifecycle!Stop(w)
    BY <2>1, <2>2 DEF Lifecycle!Stop
  <2> QED
    BY <1>2, <2>3 DEF Lifecycle!ALNext
<1> QED
  BY <1>3, <1>4

LEMMA StepRefines ==
    ASSUME SerialInv, [Next]_vars
    PROVE  [Lifecycle!ALNext]_(Lifecycle!ALvars)
<1> USE DEF rows, env
<1>0. OrderInv /\ TypeOK /\ TypeOK'
  BY TypeStep DEF SerialInv, OrderInv
<1>1. ASSUME UNCHANGED <<status, stepStatus>>
      PROVE  UNCHANGED Lifecycle!ALvars
  BY <1>1 DEF Lifecycle!ALvars, Cleared
<1>2. ASSUME NEW p \in Worker, NewRequest(p)
      PROVE  UNCHANGED <<status, stepStatus>>
  BY <1>2
  DEF NewRequest, SubmitCheck, ApproveAnyCheck, ApproveAllCheck, RejectCheck, RecallCheck,
      CancelCheck, LoadTier, LoadWorkflow
<1>3. ASSUME NEW p \in Worker,
             LogApproval(p) \/ CountApprovals(p) \/ MarkTier(p) \/ DeliverEvent(p) \/ Crash(p)
      PROVE  UNCHANGED <<status, stepStatus>>
  BY <1>3 DEF LogApproval, CountApprovals, MarkTier, DeliverEvent, Crash
<1>4. CASE (\E r \in Role, u \in User : ChangeRole(r, u)) \/ UNCHANGED vars
  BY <1>1, <1>4 DEF ChangeRole, vars
<1>5. ASSUME NEW p \in Worker, RequestStep(p)
      PROVE  [Lifecycle!ALNext]_(Lifecycle!ALvars)
  BY <1>0, <1>1, <1>3, <1>5, SubmitRefines, ApprovalRefines, StopRefines DEF RequestStep
<1> QED
  BY <1>1, <1>2, <1>4, <1>5 DEF Next

\* One request at a time, for any definitions, users, role changes, retries and kills, the
\* engine implements ApprovalLifecycle: each run clears its tiers once each, in sequence,
\* ends in one outcome and never shares its entity with another pending run.
THEOREM EngineImplementsLifecycle ==
    ASSUME OneRequest
    PROVE  Spec => ImplementsLifecycle
<1>1. SerialInv /\ [Next]_vars => [Lifecycle!ALNext]_(Lifecycle!ALvars)
  BY StepRefines
<1> QED
  BY <1>1, InitRefines, SerialInvariance, PTL DEF Spec, ImplementsLifecycle, Lifecycle!ALSpec

\* What every step of ApprovalLifecycle keeps, the engine keeps.
LEMMA LifecyclePromises ==
    ASSUME TypeOK, [Lifecycle!ALNext]_(Lifecycle!ALvars)
    PROVE  /\ OneActiveWorkflow => OneActiveWorkflow'
           /\ \A w \in Workflow : status[w] = "rejected" => status'[w] # "approved"
<1>1. CASE UNCHANGED Lifecycle!ALvars
  BY <1>1 DEF Lifecycle!ALvars, OneActiveWorkflow
<1>2. CASE Lifecycle!ALNext
  <2>1. PICK w \in Workflow : \/ Lifecycle!Submit(w) \/ Lifecycle!Stop(w)
                              \/ \E t \in TiersOf[w] : Lifecycle!ClearTier(w, t)
    BY <1>2 DEF Lifecycle!ALNext, Lifecycle!Run, Workflow
  <2>2. PICK s : status' = [status EXCEPT ![w] = s]
    BY <2>1 DEF Lifecycle!Submit, Lifecycle!Stop, Lifecycle!ClearTier
  <2>3. status'[w] = s /\ \A v \in Workflow \ {w} : status'[v] = status[v]
    BY <2>2 DEF TypeOK
  <2>4. status[w] = "rejected" => s # "approved"
    BY <2>1, <2>3 DEF Lifecycle!Submit, Lifecycle!Stop, Lifecycle!ClearTier, TypeOK
  <2>5. \/ s # "pending" \/ status[w] = "pending"
        \/ \A n \in 1..MaxRuns : status[<<w[1], n>>] # "pending"
    BY <2>1, <2>3 DEF Lifecycle!Submit, Lifecycle!Stop, Lifecycle!ClearTier, TypeOK
  <2>6. ASSUME OneActiveWorkflow, NEW e \in Entity, NEW m \in 1..MaxRuns, NEW n \in 1..MaxRuns,
               status'[<<e, m>>] = "pending", status'[<<e, n>>] = "pending"
        PROVE  m = n
    <3>1. <<e, m>> \in Workflow /\ <<e, n>> \in Workflow
      BY DEF Workflow
    <3>2. CASE status[<<e, m>>] = "pending" /\ status[<<e, n>>] = "pending"
      BY <2>6, <3>2 DEF OneActiveWorkflow
    <3>3. CASE ~(status[<<e, m>>] = "pending" /\ status[<<e, n>>] = "pending")
      <4>1. w[1] = e /\ \A k \in 1..MaxRuns : status[<<e, k>>] # "pending"
        BY <2>3, <2>5, <2>6, <3>1, <3>3
      <4>2. <<e, m>> = w /\ <<e, n>> = w
        BY <2>3, <2>6, <3>1, <4>1
      <4> QED
        BY <4>2
    <3> QED
      BY <3>2, <3>3
  <2> QED
    BY <2>3, <2>4, <2>6 DEF OneActiveWorkflow
<1> QED
  BY <1>1, <1>2

\* start() on its own is right: only two submissions at the same time give an entity two
\* pending workflows.
THEOREM OneActiveWhenSerial ==
    ASSUME OneRequest
    PROVE  Spec => []OneActiveWorkflow
<1>1. Init => OneActiveWorkflow
  BY DEF Init, OneActiveWorkflow, Workflow
<1>2. SerialInv /\ OneActiveWorkflow /\ [Next]_vars => OneActiveWorkflow'
  BY StepRefines, LifecyclePromises DEF SerialInv, OrderInv
<1> QED
  BY <1>1, <1>2, SerialInvariance, PTL DEF Spec

\* So is reject(): only an approval loaded before it approves a rejected workflow.
THEOREM RejectionFinalWhenSerial ==
    ASSUME OneRequest
    PROVE  Spec => RejectionIsFinal
<1>1. SerialInv /\ [Next]_vars
        => [\A w \in Workflow : status[w] = "rejected" => status'[w] # "approved"]_vars
  BY StepRefines, LifecyclePromises DEF SerialInv, OrderInv
<1> QED
  BY <1>1, SerialInvariance, PTL DEF Spec, RejectionIsFinal
=============================================================================
