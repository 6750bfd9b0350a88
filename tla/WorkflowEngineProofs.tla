------------------------ MODULE WorkflowEngineProofs ------------------------
(***************************************************************************)
(* Theorems about WorkflowEngine for any number of users, roles, entities, *)
(* requests and runs.                                                      *)
(***************************************************************************)
EXTENDS WorkflowEngine, TLAPS

\* The requests that hold a loaded tier
Deciding == {"approveAny", "logApproval", "countApprovals", "completeTier", "reject"}
Held == [pc : Phase, user : User, wf : Workflow, step : Nat, seen : Status]
Advancing == [pc : {"advance"}, user : User, wf : Workflow, step : Nat, next : Nat]

LEMMA HeldRequest ==
    ASSUME TypeOK, NEW p \in Worker, request[p].pc \in Phase
    PROVE  request[p] \in Held
BY DEF TypeOK, Request, Held, Idle, Phase

LEMMA AdvancingRequest ==
    ASSUME TypeOK, NEW p \in Worker, request[p].pc = "advance"
    PROVE  request[p] \in Advancing
BY DEF TypeOK, Request, Advancing, Idle, Phase

LEMMA SubmitRequest ==
    ASSUME TypeOK, NEW p \in Worker, request[p].pc = "submit"
    PROVE  request[p] \in [pc : {"submit"}, user : User, entity : Entity]
BY DEF TypeOK, Request, Idle, Phase

\* The tiers of a workflow are numbered from 1.
LEMMA TiersAreNumbered ==
    ASSUME NEW w \in Workflow
    PROVE  /\ Tiers(w) = 1..Len(Steps[w])
           /\ Len(Steps[w]) \in Nat
           /\ Tiers(w) \subseteq Nat \ {0}
           /\ Tiers(w) # {} => 1 \in Tiers(w)
BY ConstantsAssumption DEF Tiers

(***************************************************************************)
(* Type correctness.                                                       *)
(***************************************************************************)
\* A request that holds tier s of w starts its transaction, which reads t as the next.
Marks(p, w, s, u, t) ==
    /\ request[p] \in Held
    /\ request[p].wf = w /\ request[p].step = s /\ request[p].user = u
    /\ t \in Tiers(w) \cup {0}
    /\ IsNextStep(w, t, [stepStatus[w] EXCEPT ![s] = "approved"])
    /\ request' = [request EXCEPT ![p] =
           [pc |-> "advance", user |-> u, wf |-> w, step |-> s, next |-> t]]

LEMMA MarkTierReads ==
    ASSUME TypeOK, NEW p \in Worker, MarkTier(p)
    PROVE  \E w \in Workflow, s \in Nat, u \in User, t \in Nat : Marks(p, w, s, u, t)
<1>1. request[p] \in Held
  BY HeldRequest DEF MarkTier, Phase
<1>2. request[p].wf \in Workflow /\ request[p].step \in Nat /\ request[p].user \in User
  BY <1>1 DEF Held
<1>3. Tiers(request[p].wf) \cup {0} \subseteq Nat
  BY <1>2, TiersAreNumbered
<1> QED
  BY <1>1, <1>2, <1>3 DEF MarkTier, Marks

LEMMA TypeStep == TypeOK /\ [Next]_vars => TypeOK'
<1> DEFINE Logs == [wf : Workflow, step : Nat, user : User, verb : Verb]
<1> SUFFICES ASSUME TypeOK, [Next]_vars
             PROVE  TypeOK'
  OBVIOUS
<1> USE DEF rows, env
<1>1. ASSUME NEW p \in Worker, NEW u \in User, NEW e \in Entity, SubmitCheck(p, u, e)
      PROVE  TypeOK'
  <2>1. request' \in [Worker -> Request]
    BY <1>1 DEF SubmitCheck, TypeOK, Request
  <2> QED
    BY <1>1, <2>1 DEF SubmitCheck, TypeOK
<1>2. ASSUME NEW p \in Worker, NEW n \in 1..MaxRuns, SubmitCommit(p, n)
      PROVE  TypeOK'
  <2> DEFINE r == request[p]
             w == <<r.entity, n>>
  <2>1. r.user \in User /\ w \in Workflow
    BY <1>2, SubmitRequest DEF SubmitCommit, Workflow
  <2>2. request' \in [Worker -> Request]
    <3>1. [pc |-> "event", user |-> r.user, wf |-> w, step |-> 0, seen |-> "approved"] \in Request
      BY <2>1 DEF Request, Phase, Status, Terminal
    <3>2. Idle \in Request
      BY DEF Request
    <3> QED
      BY <1>2, <3>1, <3>2 DEF SubmitCommit, TypeOK
  <2>3. Action(w, 0, r.user, "completed") \in Logs /\ Action(w, 0, r.user, "submitted") \in Logs
    BY <2>1 DEF Action, Verb
  <2>4. log' \subseteq Logs
    BY <1>2, <2>3 DEF SubmitCommit, TypeOK
  <2>5. status' \in [Workflow -> Status] /\ current' \in [Workflow -> Nat]
    <3>1. "approved" \in Status /\ "pending" \in Status
      BY DEF Status, Terminal
    <3>2. \/ status' = [status EXCEPT ![w] = "approved"] /\ current' = current
          \/ status' = [status EXCEPT ![w] = "pending"] /\ current' = [current EXCEPT ![w] = 1]
      BY <1>2 DEF SubmitCommit
    <3> HIDE DEF r, w
    <3>3. status' \in [Workflow -> Status]
      BY <3>1, <3>2, <2>1 DEF TypeOK
    <3>4. current' \in [Workflow -> Nat]
      BY <3>2, <2>1 DEF TypeOK
    <3> QED
      BY <3>3, <3>4
  <2> QED
    BY <1>2, <2>2, <2>4, <2>5 DEF SubmitCommit, TypeOK
<1>3. ASSUME NEW p \in Worker, NEW u \in User, NEW w \in Workflow, NEW phase \in Phase,
             LoadTier(p, u, w, phase)
      PROVE  TypeOK'
  <2>1. [pc |-> phase, user |-> u, wf |-> w, step |-> current[w], seen |-> "pending"] \in Request
    BY DEF Request, TypeOK, Status
  <2>2. request' \in [Worker -> Request]
    BY <1>3, <2>1 DEF LoadTier, TypeOK
  <2> QED
    BY <1>3, <2>2 DEF LoadTier, TypeOK
<1>4. ASSUME NEW p \in Worker, NEW u \in User, NEW w \in Workflow, NEW phase \in Phase,
             LoadWorkflow(p, u, w, phase)
      PROVE  TypeOK'
  <2>1. [pc |-> phase, user |-> u, wf |-> w, step |-> 0, seen |-> status[w]] \in Request
    BY DEF Request, TypeOK
  <2>2. request' \in [Worker -> Request]
    BY <1>4, <2>1 DEF LoadWorkflow, TypeOK
  <2> QED
    BY <1>4, <2>2 DEF LoadWorkflow, TypeOK
<1>5. ASSUME NEW p \in Worker, MarkTier(p)
      PROVE  TypeOK'
  <2>1. PICK new \in Advancing : request' = [request EXCEPT ![p] = new]
    BY <1>5, MarkTierReads DEF Advancing, Marks
  <2>2. request' \in [Worker -> Request]
    BY <2>1 DEF TypeOK, Request, Advancing
  <2> QED
    BY <1>5, <2>2 DEF MarkTier, TypeOK
<1>6. ASSUME NEW p \in Worker, AdvanceToNextStep(p)
      PROVE  TypeOK'
  <2>1. PICK w \in Workflow, s \in Nat, u \in User, n \in Nat :
            /\ request[p].wf = w /\ request[p].step = s
            /\ request[p].user = u /\ request[p].next = n
    BY <1>6, AdvancingRequest DEF AdvanceToNextStep, Advancing
  <2>2. PICK x \in {"pending", "approved"} :
            request' = [request EXCEPT ![p] =
                [pc |-> "event", user |-> u, wf |-> w, step |-> s, seen |-> x]]
    BY <1>6, <2>1 DEF AdvanceToNextStep
  <2>3. [pc |-> "event", user |-> u, wf |-> w, step |-> s, seen |-> x] \in Request
    BY DEF Request, Phase, Status, Terminal
  <2>4. request' \in [Worker -> Request]
    BY <2>2, <2>3 DEF TypeOK
  <2>5. [stepStatus[w] EXCEPT ![s] = "approved"] \in [Tiers(w) -> StepStatus]
    BY DEF TypeOK, StepStatus
  <2>6. (DOMAIN stepStatus = Workflow /\ \A v \in Workflow : stepStatus[v] \in [Tiers(v) -> StepStatus])'
    BY <1>6, <2>1, <2>5 DEF TypeOK, AdvanceToNextStep
  <2>7. ApprovalRow(w, s, u) \subseteq Logs /\ Action(w, 0, u, "completed") \in Logs
    BY DEF ApprovalRow, Action, Verb
  <2>8. log' \subseteq Logs
    BY <1>6, <2>1, <2>7 DEF AdvanceToNextStep, TypeOK
  <2>9. \/ status' = [status EXCEPT ![w] = "approved"] /\ current' = current
        \/ status' = status /\ current' = [current EXCEPT ![w] = n]
    BY <1>6, <2>1 DEF AdvanceToNextStep
  <2>10. status' \in [Workflow -> Status] /\ current' \in [Workflow -> Nat]
    <3>1. "approved" \in Status
      BY DEF Status, Terminal
    <3>2. status' \in [Workflow -> Status]
      BY <2>9, <3>1 DEF TypeOK
    <3>3. current' \in [Workflow -> Nat]
      BY <2>9 DEF TypeOK
    <3> QED
      BY <3>2, <3>3
  <2> QED
    BY <1>6, <2>4, <2>6, <2>8, <2>10 DEF AdvanceToNextStep, TypeOK
<1>7. ASSUME NEW p \in Worker, LogApproval(p)
      PROVE  TypeOK'
  <2>1. request[p] \in Held
    BY <1>7, HeldRequest DEF LogApproval, Phase
  <2>2. [request[p] EXCEPT !.pc = "countApprovals"] \in Held
    BY <2>1 DEF Held, Phase
  <2>3. request' \in [Worker -> Request]
    BY <1>7, <2>2 DEF LogApproval, TypeOK, Request, Held
  <2>4. log' \subseteq Logs
    BY <1>7, <2>1 DEF LogApproval, TypeOK, Held, Action, Verb
  <2> QED
    BY <1>7, <2>3, <2>4 DEF LogApproval, TypeOK
<1>8. ASSUME NEW p \in Worker, CountApprovals(p)
      PROVE  TypeOK'
  <2>1. request[p] \in Held
    BY <1>8, HeldRequest DEF CountApprovals, Phase
  <2>2. \A x \in {"completeTier", "event"} : [request[p] EXCEPT !.pc = x] \in Held
    BY <2>1 DEF Held, Phase
  <2>3. PICK x \in {"completeTier", "event"} : request' = [request EXCEPT ![p].pc = x]
    BY <1>8 DEF CountApprovals
  <2>4. request' \in [Worker -> Request]
    BY <2>2, <2>3 DEF TypeOK, Request, Held
  <2> QED
    BY <1>8, <2>4 DEF CountApprovals, TypeOK
<1>9. ASSUME NEW p \in Worker, RejectCommit(p)
      PROVE  TypeOK'
  <2> DEFINE r == request[p]
  <2>1. r \in Held
    BY <1>9, HeldRequest DEF RejectCommit, Phase
  <2>2. r.wf \in Workflow
    BY <2>1 DEF Held
  <2>3. [r EXCEPT !.pc = "event", !.seen = "rejected"] \in Held
    BY <2>1 DEF Held, Phase, Status, Terminal
  <2>4. request' \in [Worker -> Request]
    BY <1>9, <2>3 DEF RejectCommit, TypeOK, Request, Held
  <2>5. log' \subseteq Logs
    BY <1>9, <2>1 DEF RejectCommit, TypeOK, Held, Action, Verb
  <2>6. [stepStatus[r.wf] EXCEPT ![r.step] = "rejected"] \in [Tiers(r.wf) -> StepStatus]
    BY <2>2 DEF TypeOK, StepStatus
  <2>7. (DOMAIN stepStatus = Workflow /\ \A w \in Workflow : stepStatus[w] \in [Tiers(w) -> StepStatus])'
    BY <1>9, <2>2, <2>6 DEF RejectCommit, TypeOK
  <2>8. status' \in [Workflow -> Status]
    BY <1>9, <2>2 DEF RejectCommit, TypeOK, Status, Terminal
  <2> QED
    BY <1>9, <2>4, <2>5, <2>7, <2>8 DEF RejectCommit, TypeOK
<1>10. ASSUME NEW p \in Worker, RecallCommit(p)
       PROVE  TypeOK'
  <2> DEFINE r == request[p]
  <2>1. r \in Held
    BY <1>10, HeldRequest DEF RecallCommit, Phase
  <2>2. [r EXCEPT !.pc = "event", !.seen = "cancelled"] \in Held
    BY <2>1 DEF Held, Phase, Status, Terminal
  <2>3. request' \in [Worker -> Request]
    BY <1>10, <2>2 DEF RecallCommit, TypeOK, Request, Held
  <2>4. log' \subseteq Logs
    BY <1>10, <2>1 DEF RecallCommit, Close, TypeOK, Held, Action, Verb
  <2>5. status' \in [Workflow -> Status]
    BY <1>10, <2>1 DEF RecallCommit, Close, TypeOK, Held, Status, Terminal
  <2> QED
    BY <1>10, <2>3, <2>4, <2>5 DEF RecallCommit, Close, TypeOK
<1>11. ASSUME NEW p \in Worker, CancelCommit(p)
       PROVE  TypeOK'
  <2> DEFINE r == request[p]
  <2>1. r \in Held
    BY <1>11, HeldRequest DEF CancelCommit, Phase
  <2>2. request' \in [Worker -> Request]
    BY <1>11 DEF CancelCommit, TypeOK, Request
  <2>3. log' \subseteq Logs
    BY <1>11, <2>1 DEF CancelCommit, Close, TypeOK, Held, Action, Verb
  <2>4. status' \in [Workflow -> Status]
    BY <1>11, <2>1 DEF CancelCommit, Close, TypeOK, Held, Status, Terminal
  <2> QED
    BY <1>11, <2>2, <2>3, <2>4 DEF CancelCommit, Close, TypeOK
<1>12. ASSUME NEW p \in Worker, DeliverEvent(p)
       PROVE  TypeOK'
  <2>1. request[p] \in Held
    BY <1>12, HeldRequest DEF DeliverEvent, Phase
  <2>2. request' \in [Worker -> Request] /\ entityStatus' \in [Entity -> Status]
    BY <1>12, <2>1 DEF DeliverEvent, TypeOK, Request, Held
  <2> QED
    BY <1>12, <2>2 DEF DeliverEvent, TypeOK
<1>13. ASSUME NEW p \in Worker, Crash(p)
       PROVE  TypeOK'
  <2>1. request' \in [Worker -> Request]
    BY <1>13 DEF Crash, TypeOK, Request
  <2>2. crashes' \in 0..MaxCrashes
    BY <1>13, ConstantsAssumption DEF Crash, TypeOK
  <2> QED
    BY <1>13, <2>1, <2>2 DEF Crash, TypeOK
<1>14. ASSUME NEW r \in Role, NEW u \in User, ChangeRole(r, u)
       PROVE  TypeOK'
  <2>1. holders' \in [Role -> SUBSET User] /\ roleChanges' \in 0..MaxRoleChanges
    BY <1>14, ConstantsAssumption DEF ChangeRole, TypeOK
  <2> QED
    BY <1>14, <2>1 DEF ChangeRole, TypeOK
<1>15. CASE UNCHANGED vars
  BY <1>15 DEF TypeOK, vars
<1> QED
  BY <1>1, <1>2, <1>3, <1>4, <1>5, <1>6, <1>7, <1>8, <1>9, <1>10, <1>11, <1>12, <1>13, <1>14,
     <1>15
  DEF Next, NewRequest, RequestStep, ApproveAnyCheck, ApproveAllCheck, RejectCheck,
      RecallCheck, CancelCheck, Phase

\* Every variable keeps its type, whatever requests, crashes and role changes interleave.
THEOREM TypeCorrect == Spec => []TypeOK
<1>1. Init => TypeOK
  BY ConstantsAssumption DEF Init, TypeOK, Status, StepStatus, Request
<1> QED
  BY <1>1, TypeStep, PTL DEF Spec
-----------------------------------------------------------------------------
(***************************************************************************)
(* Tiers are cleared in order.  TiersInOrder is not inductive: a request   *)
(* may act on a tier it loaded long ago, and a transaction write a next    *)
(* tier that others have approved since it read it.  What saves the order  *)
(* is that a decided tier stays decided: whatever was in front of the tier *)
(* when the request loaded it, and in front of the next tier when the      *)
(* transaction read it, still is decided when they are written.            *)
(***************************************************************************)
Decided(w, t) == stepStatus[w][t] # "pending"

\* What request p has loaded, and its transaction read, has everything before it decided.
Behind(p) ==
    LET r == request[p]
    IN  /\ r.pc \in Phase \cup {"advance"} => status[r.wf] # "none"
        /\ r.pc \in Deciding \cup {"advance"} =>
              /\ r.step \in Tiers(r.wf)
              /\ \A x \in Tiers(r.wf) : x < r.step => Decided(r.wf, x)
        /\ r.pc = "advance" =>
              /\ r.next \in Tiers(r.wf) \cup {0}
              /\ \A x \in Tiers(r.wf) :
                    x # r.step /\ (r.next = 0 \/ x < r.next) => Decided(r.wf, x)

Untouched ==
    \A w \in Workflow : status[w] = "none" => \A t \in Tiers(w) : ~Decided(w, t)

OrderInv ==
    /\ TypeOK
    /\ \A p \in Worker : Behind(p)
    /\ Untouched
    /\ TiersInOrder

\* A workflow never becomes pending again, and its tiers stay decided.
Forward ==
    \A w \in Workflow :
        /\ status[w] # "none" =>
              /\ status'[w] # "none"
              /\ status'[w] = "pending" => status[w] = "pending"
        /\ \A t \in Tiers(w) : Decided(w, t) => Decided(w, t)'

LEMMA StaysBehind ==
    ASSUME TypeOK, Forward, NEW q \in Worker, Behind(q), request'[q] = request[q]
    PROVE  Behind(q)'
<1>1. CASE request[q].pc \in Phase
  <2>1. PICK w \in Workflow : w = request[q].wf
    BY <1>1, HeldRequest DEF Held
  <2> QED
    BY <1>1, <2>1 DEF Behind, Forward, Phase
<1>2. CASE request[q].pc = "advance"
  <2>1. PICK w \in Workflow : w = request[q].wf
    BY <1>2, AdvancingRequest DEF Advancing
  <2> QED
    BY <1>2, <2>1 DEF Behind, Forward, Phase
<1>3. CASE request[q].pc \notin Phase \cup {"advance"}
  BY <1>3 DEF Behind, Deciding, Phase
<1> QED
  BY <1>1, <1>2, <1>3

LEMMA OthersStayBehind ==
    ASSUME OrderInv, Forward, NEW p \in Worker, Behind(p)',
           \A q \in Worker \ {p} : request'[q] = request[q]
    PROVE  \A q \in Worker : Behind(q)'
BY StaysBehind DEF OrderInv

LEMMA Stays ==
    ASSUME UNCHANGED <<status, stepStatus>>
    PROVE  Forward
BY DEF Forward, Decided

\* A transaction that read tier t has everything in front of it decided, its own tier aside.
LEMMA NextIsBehind ==
    ASSUME TypeOK, NEW w \in Workflow, NEW s \in Tiers(w), NEW t,
           IsNextStep(w, t, [stepStatus[w] EXCEPT ![s] = "approved"]),
           NEW x \in Tiers(w), x # s, t = 0 \/ x < t
    PROVE  Decided(w, x)
<1> DEFINE steps == [stepStatus[w] EXCEPT ![s] = "approved"]
<1>1. steps[x] = stepStatus[w][x]
  BY DEF TypeOK
<1>2. x \in Nat \ {0} /\ (t \in Tiers(w) => t \in Nat \ {0})
  BY TiersAreNumbered
<1> HIDE DEF steps
<1>3. IsNextStep(w, t, steps)
  BY DEF steps
<1> QED
  BY <1>1, <1>2, <1>3 DEF IsNextStep, Decided

\* A transaction that commits has its workflow, its tier and what it read behind it.
Commits(p, w, s, u, n) ==
    /\ request[p].wf = w /\ request[p].step = s
    /\ request[p].user = u /\ request[p].next = n
    /\ status[w] # "none" /\ s \in Tiers(w) /\ n \in Tiers(w) \cup {0}
    /\ \A x \in Tiers(w) : x < s => Decided(w, x)
    /\ \A x \in Tiers(w) : x # s /\ (n = 0 \/ x < n) => Decided(w, x)
    /\ stepStatus'[w][s] = "approved"
    /\ \A v \in Workflow : \A t \in Tiers(v) :
          v # w \/ t # s => stepStatus'[v][t] = stepStatus[v][t]
    /\ \/ n # 0 /\ current'[w] = n /\ UNCHANGED status
       \/ n = 0 /\ status'[w] = "approved" /\ current'[w] = current[w]
    /\ \A v \in Workflow \ {w} : status'[v] = status[v] /\ current'[v] = current[v]
    /\ log' = log \cup ApprovalRow(w, s, u)
                 \cup (IF n = 0 THEN {Action(w, 0, u, "completed")} ELSE {})
    /\ request'[p] = [pc |-> "event", user |-> u, wf |-> w, step |-> s,
                      seen |-> IF n = 0 THEN "approved" ELSE "pending"]
    /\ \A q \in Worker \ {p} : request'[q] = request[q]

LEMMA AdvanceWrites ==
    ASSUME OrderInv, NEW p \in Worker, AdvanceToNextStep(p)
    PROVE  \E w \in Workflow, s \in Nat, u \in User, n \in Nat : Commits(p, w, s, u, n)
<1>1. PICK w \in Workflow, s \in Nat, u \in User, n \in Nat :
          /\ request[p].wf = w /\ request[p].step = s
          /\ request[p].user = u /\ request[p].next = n
  BY AdvancingRequest DEF AdvanceToNextStep, Advancing, OrderInv
<1>2. /\ status[w] # "none" /\ s \in Tiers(w) /\ n \in Tiers(w) \cup {0}
      /\ \A x \in Tiers(w) : x < s => Decided(w, x)
      /\ \A x \in Tiers(w) : x # s /\ (n = 0 \/ x < n) => Decided(w, x)
  BY <1>1 DEF AdvanceToNextStep, OrderInv, Behind
<1>3. stepStatus' = [stepStatus EXCEPT ![w][s] = "approved"]
  BY <1>1 DEF AdvanceToNextStep
<1>4. /\ stepStatus'[w][s] = "approved"
      /\ \A v \in Workflow : \A t \in Tiers(v) : v # w \/ t # s => stepStatus'[v][t] = stepStatus[v][t]
  BY <1>2, <1>3 DEF OrderInv, TypeOK
<1>5. /\ \/ n # 0 /\ current'[w] = n /\ UNCHANGED status
         \/ n = 0 /\ status'[w] = "approved" /\ current'[w] = current[w]
      /\ \A v \in Workflow \ {w} : status'[v] = status[v] /\ current'[v] = current[v]
  BY <1>1 DEF AdvanceToNextStep, OrderInv, TypeOK
<1>6. log' = log \cup ApprovalRow(w, s, u) \cup (IF n = 0 THEN {Action(w, 0, u, "completed")} ELSE {})
  BY <1>1 DEF AdvanceToNextStep
<1>7. request' = [request EXCEPT ![p] =
          [pc |-> "event", user |-> u, wf |-> w, step |-> s,
           seen |-> IF n = 0 THEN "approved" ELSE "pending"]]
  BY <1>1 DEF AdvanceToNextStep
<1>8. /\ request'[p] = [pc |-> "event", user |-> u, wf |-> w, step |-> s,
                        seen |-> IF n = 0 THEN "approved" ELSE "pending"]
      /\ \A q \in Worker \ {p} : request'[q] = request[q]
  BY <1>7 DEF OrderInv, TypeOK
<1> QED
  BY <1>1, <1>2, <1>4, <1>5, <1>6, <1>8 DEF Commits

\* Deciding tier s, with everything in front of it decided, keeps decided tiers in front.
LEMMA PrefixStays ==
    ASSUME OrderInv, NEW w \in Workflow, NEW s \in Tiers(w),
           \A x \in Tiers(w) : x < s => Decided(w, x), Decided(w, s)',
           \A v \in Workflow : \A t \in Tiers(v) :
              v # w \/ t # s => stepStatus'[v][t] = stepStatus[v][t]
    PROVE  /\ \A v \in Workflow : \A x, t \in Tiers(v) : x < t /\ Decided(v, t)' => Decided(v, x)'
           /\ \A v \in Workflow : \A t \in Tiers(v) : Decided(v, t) => Decided(v, t)'
<1>1. ASSUME NEW v \in Workflow, NEW t \in Tiers(v), Decided(v, t)
      PROVE  Decided(v, t)'
  BY <1>1 DEF Decided
<1>2. ASSUME NEW v \in Workflow, NEW x \in Tiers(v), NEW t \in Tiers(v), x < t, Decided(v, t)'
      PROVE  Decided(v, x)'
  <2>1. CASE v = w /\ t = s
    BY <1>1, <1>2, <2>1
  <2>2. CASE v # w \/ t # s
    <3>1. Decided(v, t)
      BY <1>2, <2>2 DEF Decided
    <3>2. Decided(v, x)
      BY <1>2, <3>1 DEF OrderInv, TiersInOrder, Decided
    <3> QED
      BY <1>1, <3>2
  <2> QED
    BY <2>1, <2>2
<1> QED
  BY <1>1, <1>2

\* The row a transaction commits keeps its tiers in order and moves forward.
LEMMA AdvanceInOrder ==
    ASSUME OrderInv, NEW p \in Worker, AdvanceToNextStep(p)
    PROVE  Forward /\ Untouched' /\ TiersInOrder'
<1>a. PICK w \in Workflow, s \in Nat, u \in User, n \in Nat : Commits(p, w, s, u, n)
  BY AdvanceWrites
<1>1. /\ status[w] # "none" /\ s \in Tiers(w) /\ n \in Tiers(w) \cup {0}
      /\ \A x \in Tiers(w) : x < s => Decided(w, x)
      /\ \A x \in Tiers(w) : x # s /\ (n = 0 \/ x < n) => Decided(w, x)
      /\ stepStatus'[w][s] = "approved"
      /\ \A v \in Workflow : \A t \in Tiers(v) :
            v # w \/ t # s => stepStatus'[v][t] = stepStatus[v][t]
      /\ \/ n # 0 /\ current'[w] = n /\ UNCHANGED status
         \/ n = 0 /\ status'[w] = "approved" /\ current'[w] = current[w]
      /\ \A v \in Workflow \ {w} : status'[v] = status[v] /\ current'[v] = current[v]
  BY <1>a DEF Commits
<1>2. /\ \A v \in Workflow : \A x, t \in Tiers(v) : x < t /\ Decided(v, t)' => Decided(v, x)'
      /\ \A v \in Workflow : \A t \in Tiers(v) : Decided(v, t) => Decided(v, t)'
  <2>1. Decided(w, s)'
    BY <1>1 DEF Decided
  <2> QED
    BY <1>1, <2>1, PrefixStays
<1>3. Forward
  BY <1>1, <1>2 DEF Forward
<1>4. Untouched'
  BY <1>1 DEF Untouched, OrderInv, Decided
<1>5. ASSUME NEW v \in Workflow, status'[v] = "pending"
      PROVE  /\ current'[v] \in Tiers(v)
             /\ \A t \in Tiers(v) :
                   /\ stepStatus'[v][t] # "rejected"
                   /\ t < current'[v] => stepStatus'[v][t] = "approved"
  <2>1. CASE v # w
    BY <1>1, <1>5, <2>1 DEF OrderInv, TiersInOrder
  <2>2. CASE v = w
    <3>1. n # 0 /\ current'[w] = n /\ status[w] = "pending"
      BY <1>1, <1>5, <2>2
    <3>2. ASSUME NEW t \in Tiers(w)
          PROVE  /\ stepStatus'[w][t] # "rejected"
                 /\ t < n => stepStatus'[w][t] = "approved"
      <4>1. stepStatus[w][t] # "rejected" /\ stepStatus[w][t] \in StepStatus
        BY <3>1 DEF OrderInv, TiersInOrder, TypeOK
      <4>2. CASE t = s
        BY <1>1, <4>2
      <4>3. CASE t # s
        BY <1>1, <4>1, <4>3 DEF Decided, StepStatus
      <4> QED
        BY <4>2, <4>3
    <3> QED
      BY <1>1, <2>2, <3>1, <3>2
  <2> QED
    BY <2>1, <2>2
<1>6. ASSUME NEW v \in Workflow, status'[v] = "approved"
      PROVE  \A t \in Tiers(v) : Decided(v, t)'
  <2>1. CASE status[v] = "approved"
    BY <1>2, <2>1 DEF OrderInv, TiersInOrder, Decided
  <2>2. CASE status[v] # "approved"
    BY <1>1, <1>2, <1>6, <2>2 DEF Decided
  <2> QED
    BY <2>1, <2>2
<1>7. TiersInOrder'
  BY <1>2, <1>5, <1>6 DEF TiersInOrder, Decided
<1> QED
  BY <1>3, <1>4, <1>7

\* A row a request closes without touching its tiers leaves the other rows alone.
LEMMA ClosedInOrder ==
    ASSUME OrderInv, NEW w \in Workflow, status[w] # "none",
           NEW end \in {"rejected", "cancelled"},
           status' = [status EXCEPT ![w] = end], UNCHANGED current,
           \A v \in Workflow : \A t \in Tiers(v) : Decided(v, t) => Decided(v, t)',
           \A v \in Workflow : \A x, t \in Tiers(v) : x < t /\ Decided(v, t)' => Decided(v, x)',
           \A v \in Workflow \ {w} : \A t \in Tiers(v) : stepStatus'[v][t] = stepStatus[v][t]
    PROVE  Forward /\ Untouched' /\ TiersInOrder'
<1>1. status'[w] = end /\ \A v \in Workflow \ {w} : status'[v] = status[v]
  BY DEF OrderInv, TypeOK
<1>2. Forward
  BY <1>1 DEF Forward, OrderInv, TypeOK
<1>3. Untouched'
  BY <1>1 DEF Untouched, OrderInv, Decided
<1>4. TiersInOrder'
  BY <1>1 DEF TiersInOrder, OrderInv, Decided
<1> QED
  BY <1>2, <1>3, <1>4

LEMMA OrderStep == OrderInv /\ [Next]_vars => OrderInv'
<1> SUFFICES ASSUME OrderInv, [Next]_vars
             PROVE  OrderInv'
  OBVIOUS
<1> USE DEF rows, env
<1>0. TypeOK'
  BY TypeStep DEF OrderInv
<1>1. ASSUME NEW p \in Worker, UNCHANGED <<status, current, stepStatus>>, Behind(p)',
             \A q \in Worker \ {p} : request'[q] = request[q]
      PROVE  OrderInv'
  <2>1. Untouched' /\ TiersInOrder'
    BY <1>1 DEF OrderInv, Untouched, TiersInOrder, Decided
  <2>2. \A q \in Worker : Behind(q)'
    BY <1>1, Stays, OthersStayBehind
  <2> QED
    BY <1>0, <2>1, <2>2 DEF OrderInv
<1>2. ASSUME NEW p \in Worker, Forward, Untouched', TiersInOrder', Behind(p)',
             \A q \in Worker \ {p} : request'[q] = request[q]
      PROVE  OrderInv'
  BY <1>0, <1>2, OthersStayBehind DEF OrderInv
<1>3. ASSUME NEW p \in Worker, NEW u \in User, NEW e \in Entity, SubmitCheck(p, u, e)
      PROVE  OrderInv'
  <2>1. request'[p].pc = "submit"
    BY <1>3 DEF SubmitCheck, OrderInv, TypeOK
  <2>2. Behind(p)'
    BY <2>1 DEF Behind, Phase, Deciding
  <2> QED
    BY <1>1, <1>3, <2>2 DEF SubmitCheck, OrderInv, TypeOK
<1>4. ASSUME NEW p \in Worker, NEW n \in 1..MaxRuns, SubmitCommit(p, n)
      PROVE  OrderInv'
  <2> DEFINE r == request[p]
             w == <<r.entity, n>>
  <2>1. w \in Workflow /\ status[w] = "none"
    BY <1>4, SubmitRequest DEF SubmitCommit, Workflow, OrderInv
  <2>2. \A t \in Tiers(w) : stepStatus[w][t] = "pending"
    BY <2>1 DEF OrderInv, Untouched, Decided
  <2>3. \/ /\ Tiers(w) = {}
           /\ status' = [status EXCEPT ![w] = "approved"]
           /\ request' = [request EXCEPT ![p] = [pc |-> "event", user |-> r.user, wf |-> w,
                                                 step |-> 0, seen |-> "approved"]]
           /\ UNCHANGED <<current, stepStatus>>
        \/ /\ Tiers(w) # {}
           /\ status' = [status EXCEPT ![w] = "pending"]
           /\ current' = [current EXCEPT ![w] = 1]
           /\ request' = [request EXCEPT ![p] = Idle]
           /\ UNCHANGED stepStatus
    BY <1>4 DEF SubmitCommit
  <2> HIDE DEF w, r
  <2>4. status'[w] # "none" /\ \A v \in Workflow \ {w} : status'[v] = status[v]
    BY <2>1, <2>3 DEF OrderInv, TypeOK
  <2>5. \A v \in Workflow \ {w} : current'[v] = current[v]
    BY <2>1, <2>3 DEF OrderInv, TypeOK
  <2>6. Forward
    BY <2>1, <2>3, <2>4 DEF Forward, Decided
  <2>7. Untouched'
    BY <2>1, <2>3, <2>4 DEF Untouched, OrderInv, Decided
  <2>8. TiersInOrder'
    <3>1. \A t \in Tiers(w) : t \in Nat /\ ~(t < 1)
      BY <2>1, TiersAreNumbered
    <3>2. Tiers(w) # {} => 1 \in Tiers(w)
      BY <2>1, TiersAreNumbered
    <3>3. \/ status'[w] = "approved" /\ Tiers(w) = {}
          \/ status'[w] = "pending" /\ current'[w] = 1 /\ Tiers(w) # {}
      BY <2>1, <2>3 DEF OrderInv, TypeOK
    <3>4. stepStatus' = stepStatus
      BY <2>3
    <3>5. /\ status'[w] = "pending" =>
                /\ current'[w] \in Tiers(w)
                /\ \A t \in Tiers(w) :
                      /\ stepStatus'[w][t] # "rejected"
                      /\ t < current'[w] => stepStatus'[w][t] = "approved"
          /\ status'[w] = "approved" => \A t \in Tiers(w) : stepStatus'[w][t] # "pending"
      BY <2>2, <3>1, <3>2, <3>3, <3>4
    <3> QED
      BY <2>4, <2>5, <3>4, <3>5 DEF TiersInOrder, OrderInv
  <2>9. Behind(p)'
    <3>1. \/ request'[p] = Idle
          \/ request'[p].pc = "event" /\ request'[p].wf = w
      BY <2>3 DEF OrderInv, TypeOK
    <3> QED
      BY <2>4, <3>1 DEF Behind, Deciding, Idle, Phase
  <2>10. \A q \in Worker \ {p} : request'[q] = request[q]
    BY <2>3 DEF OrderInv, TypeOK
  <2> QED
    BY <1>2, <2>6, <2>7, <2>8, <2>9, <2>10
<1>5. ASSUME NEW p \in Worker, NEW u \in User, NEW w \in Workflow,
             NEW phase \in Deciding, LoadTier(p, u, w, phase)
      PROVE  OrderInv'
  <2>1. PICK s \in Tiers(w) : s = current[w] /\ status[w] = "pending"
    BY <1>5 DEF LoadTier
  <2>2. \A x \in Tiers(w) : x < s => Decided(w, x)
    BY <2>1 DEF OrderInv, TiersInOrder, Decided
  <2>3. /\ request'[p] = [pc |-> phase, user |-> u, wf |-> w, step |-> s, seen |-> "pending"]
        /\ UNCHANGED <<status, stepStatus>>
    BY <1>5, <2>1 DEF LoadTier, OrderInv, TypeOK
  <2>4. Behind(p)'
    BY <2>1, <2>2, <2>3 DEF Behind, Deciding, Decided
  <2> QED
    BY <1>1, <1>5, <2>4 DEF LoadTier, OrderInv, TypeOK
<1>6. ASSUME NEW p \in Worker, NEW u \in User, NEW w \in Workflow, status[w] # "none",
             NEW phase \in {"recall", "cancel"}, LoadWorkflow(p, u, w, phase)
      PROVE  OrderInv'
  <2>1. request'[p] = [pc |-> phase, user |-> u, wf |-> w, step |-> 0, seen |-> status[w]]
        /\ UNCHANGED status
    BY <1>6 DEF LoadWorkflow, OrderInv, TypeOK
  <2>2. Behind(p)'
    BY <1>6, <2>1 DEF Behind, Deciding, Phase
  <2> QED
    BY <1>1, <1>6, <2>2 DEF LoadWorkflow, OrderInv, TypeOK
<1>7. ASSUME NEW p \in Worker, MarkTier(p)
      PROVE  OrderInv'
  <2>a. PICK w \in Workflow, s \in Nat, u \in User, t \in Nat : Marks(p, w, s, u, t)
    BY <1>7, MarkTierReads DEF OrderInv
  <2>1. /\ request[p].wf = w /\ request[p].step = s
        /\ t \in Tiers(w) \cup {0}
        /\ IsNextStep(w, t, [stepStatus[w] EXCEPT ![s] = "approved"])
        /\ request' = [request EXCEPT ![p] =
               [pc |-> "advance", user |-> u, wf |-> w, step |-> s, next |-> t]]
    BY <2>a DEF Marks
  <2>2. status[w] # "none" /\ s \in Tiers(w) /\ \A x \in Tiers(w) : x < s => Decided(w, x)
    BY <1>7, <2>1 DEF MarkTier, OrderInv, Behind, Phase, Deciding
  <2>3. \A x \in Tiers(w) : x # s /\ (t = 0 \/ x < t) => Decided(w, x)
    BY <2>1, <2>2, NextIsBehind DEF OrderInv
  <2>4. /\ request'[p] = [pc |-> "advance", user |-> u, wf |-> w, step |-> s, next |-> t]
        /\ \A q \in Worker \ {p} : request'[q] = request[q]
    BY <2>1 DEF OrderInv, TypeOK
  <2>5. UNCHANGED <<status, current, stepStatus>>
    BY <1>7 DEF MarkTier
  <2>6. Behind(p)'
    BY <2>1, <2>2, <2>3, <2>4, <2>5 DEF Behind, Phase, Decided
  <2> QED
    BY <1>1, <2>4, <2>5, <2>6
<1>7a. ASSUME NEW p \in Worker, AdvanceToNextStep(p)
       PROVE  OrderInv'
  <2>1. Forward /\ Untouched' /\ TiersInOrder'
    BY <1>7a, AdvanceInOrder
  <2>a. PICK w \in Workflow, s \in Nat, u \in User, n \in Nat : Commits(p, w, s, u, n)
    BY <1>7a, AdvanceWrites
  <2>2. /\ status[w] # "none"
        /\ request'[p].pc = "event" /\ request'[p].wf = w
        /\ \A q \in Worker \ {p} : request'[q] = request[q]
    BY <2>a DEF Commits
  <2>3. Behind(p)'
    BY <2>1, <2>2 DEF Behind, Deciding, Forward
  <2> QED
    BY <1>2, <2>1, <2>2, <2>3
<1>8. ASSUME NEW p \in Worker, NEW x \in {"countApprovals", "completeTier", "event"},
             request[p].pc \in {"logApproval", "countApprovals"},
             request' = [request EXCEPT ![p].pc = x],
             UNCHANGED <<status, current, stepStatus>>
      PROVE  OrderInv'
  <2>1. request[p] \in Held /\ Behind(p)
    BY <1>8, HeldRequest DEF Phase, OrderInv
  <2>2. /\ request'[p] = [request[p] EXCEPT !.pc = x]
        /\ \A q \in Worker \ {p} : request'[q] = request[q]
    BY <1>8 DEF OrderInv, TypeOK
  <2>3. request'[p].pc = x /\ request'[p].wf = request[p].wf /\ request'[p].step = request[p].step
    BY <2>1, <2>2 DEF Held
  <2>4. Behind(p)'
    BY <1>8, <2>1, <2>3 DEF Behind, Deciding, Phase, Decided
  <2> QED
    BY <1>1, <1>8, <2>2, <2>4
<1>9. ASSUME NEW p \in Worker, LogApproval(p) \/ CountApprovals(p)
      PROVE  OrderInv'
  BY <1>8, <1>9 DEF LogApproval, CountApprovals
<1>10. ASSUME NEW p \in Worker, RejectCommit(p)
       PROVE  OrderInv'
  <2>1. PICK w \in Workflow, s \in Nat : request[p].wf = w /\ request[p].step = s
    BY <1>10, HeldRequest DEF RejectCommit, OrderInv, Phase, Held
  <2>2. /\ status[w] # "none" /\ s \in Tiers(w)
        /\ \A x \in Tiers(w) : x < s => Decided(w, x)
    BY <1>10, <2>1 DEF RejectCommit, OrderInv, Behind, Phase, Deciding
  <2>3. stepStatus' = [stepStatus EXCEPT ![w][s] = "rejected"]
    BY <1>10, <2>1 DEF RejectCommit
  <2>4. /\ stepStatus'[w][s] = "rejected"
        /\ \A v \in Workflow : \A t \in Tiers(v) : v # w \/ t # s => stepStatus'[v][t] = stepStatus[v][t]
    BY <2>2, <2>3 DEF OrderInv, TypeOK
  <2>5. Decided(w, s)'
    BY <2>4 DEF Decided
  <2>6. /\ \A v \in Workflow : \A x, t \in Tiers(v) : x < t /\ Decided(v, t)' => Decided(v, x)'
        /\ \A v \in Workflow : \A t \in Tiers(v) : Decided(v, t) => Decided(v, t)'
    BY <2>2, <2>4, <2>5, PrefixStays
  <2>7. status' = [status EXCEPT ![w] = "rejected"] /\ UNCHANGED current
    BY <1>10, <2>1 DEF RejectCommit
  <2>8. Forward /\ Untouched' /\ TiersInOrder'
    BY <2>2, <2>4, <2>6, <2>7, ClosedInOrder
  <2>9. request'[p].pc = "event" /\ request'[p].wf = w
    <3>1. request[p] \in Held
      BY <1>10, HeldRequest DEF RejectCommit, OrderInv, Phase
    <3> QED
      BY <1>10, <2>1, <3>1 DEF RejectCommit, OrderInv, TypeOK, Held
  <2>10. Behind(p)'
    BY <2>2, <2>8, <2>9 DEF Behind, Deciding, Forward
  <2> QED
    BY <1>2, <1>10, <2>8, <2>10 DEF RejectCommit, OrderInv, TypeOK
<1>11. ASSUME NEW p \in Worker, NEW verb, request[p].pc \in {"recall", "cancel"}, Close(p, verb),
              \/ request' = [request EXCEPT ![p] = Idle]
              \/ request' = [request EXCEPT ![p].pc = "event", ![p].seen = "cancelled"]
       PROVE  OrderInv'
  <2> DEFINE w == request[p].wf
  <2>1. w \in Workflow /\ status[w] # "none"
    BY <1>11, HeldRequest DEF OrderInv, Behind, Phase, Held
  <2>1a. /\ \A v \in Workflow : \A x, t \in Tiers(v) : x < t /\ Decided(v, t)' => Decided(v, x)'
        /\ \A v \in Workflow : \A t \in Tiers(v) : Decided(v, t) => Decided(v, t)'
    BY <1>11 DEF Close, Decided, OrderInv, TiersInOrder
  <2>2. Forward /\ Untouched' /\ TiersInOrder'
    BY <1>11, <2>1, <2>1a, ClosedInOrder DEF Close
  <2>3. \/ request'[p].pc = "event" /\ request'[p].wf = w
        \/ request'[p] = Idle
    <3>1. request[p] \in Held /\ request \in [Worker -> Request]
      BY <1>11, HeldRequest DEF OrderInv, TypeOK, Phase
    <3>2. CASE request' = [request EXCEPT ![p] = Idle]
      BY <3>1, <3>2
    <3>3. CASE request' = [request EXCEPT ![p].pc = "event", ![p].seen = "cancelled"]
      BY <3>1, <3>3 DEF Held
    <3> QED
      BY <1>11, <3>2, <3>3
  <2>4. Behind(p)'
    BY <2>1, <2>2, <2>3 DEF Behind, Deciding, Forward, Idle, Phase
  <2> QED
    BY <1>2, <1>11, <2>2, <2>4 DEF OrderInv, TypeOK
<1>12. ASSUME NEW p \in Worker, DeliverEvent(p) \/ Crash(p)
       PROVE  OrderInv'
  <2>1. Behind(p)'
    BY <1>12 DEF DeliverEvent, Crash, Behind, OrderInv, TypeOK, Idle, Phase, Deciding
  <2> QED
    BY <1>1, <1>12, <2>1 DEF DeliverEvent, Crash, OrderInv, TypeOK
<1>13. CASE (\E r \in Role, u \in User : ChangeRole(r, u)) \/ UNCHANGED vars
  <2>1. UNCHANGED <<status, current, stepStatus, request>>
    BY <1>13 DEF ChangeRole, vars
  <2> QED
    BY <1>0, <2>1 DEF OrderInv, Behind, Untouched, TiersInOrder, Decided
<1>14. \A w \in Workflow : status[w] \in {"pending", "approved"} => status[w] # "none"
  OBVIOUS
<1>15. ASSUME NEW p \in Worker, RequestStep(p)
       PROVE  OrderInv'
  BY <1>4, <1>7, <1>9, <1>10, <1>11, <1>12, <1>15, <1>7a
  DEF RequestStep, RecallCommit, CancelCommit
<1>16. ASSUME NEW p \in Worker, NewRequest(p)
       PROVE  OrderInv'
  BY <1>3, <1>5, <1>6, <1>14, <1>16
  DEF NewRequest, ApproveAnyCheck, ApproveAllCheck, RejectCheck, RecallCheck, CancelCheck, Deciding
<1> QED
  BY <1>13, <1>15, <1>16 DEF Next

LEMMA InitOrder == Init => OrderInv
<1> SUFFICES ASSUME Init
             PROVE  OrderInv
  OBVIOUS
<1>1. TypeOK
  BY ConstantsAssumption DEF Init, TypeOK, Status, StepStatus, Request
<1> QED
  BY <1>1 DEF Init, OrderInv, Behind, Untouched, TiersInOrder, Decided, Idle, Phase, Deciding

\* Whatever requests interleave, crash or act on rows loaded long before, and however the
\* transactions of different tiers overlap, no tier is decided before those in front of it,
\* and no workflow is approved with a tier pending.
THEOREM TiersClearedInOrder == Spec => []TiersInOrder
<1>1. OrderInv => TiersInOrder
  BY DEF OrderInv
<1> QED
  BY <1>1, InitOrder, OrderStep, PTL DEF Spec
-----------------------------------------------------------------------------
(***************************************************************************)
(* The audit trail.  EveryDecisionLogged is not inductive: a tier of 'all' *)
(* mode is marked approved by a transaction that writes no row of its own. *)
(* Its request has logged its approval before.                             *)
(***************************************************************************)
HasLogged(p) ==
    LET r == request[p]
    IN  /\ r.pc = "approveAny" => Mode(r.wf, r.step) = "any"
        /\ \/ r.pc \in {"countApprovals", "completeTier"}
           \/ r.pc = "advance" /\ Mode(r.wf, r.step) # "any"
           => Action(r.wf, r.step, r.user, "approved") \in log

\* What EveryDecisionLogged says of one workflow
Explained(w) ==
    /\ \A t \in Tiers(w) :
          /\ stepStatus[w][t] = "approved" => Approvers(w, t) # {}
          /\ stepStatus[w][t] = "rejected" =>
                \E u \in User : Action(w, t, u, "rejected") \in log
    /\ status[w] = "approved" => \E u \in User : Action(w, 0, u, "completed") \in log
    /\ status[w] = "rejected" =>
          \E t \in Tiers(w), u \in User : Action(w, t, u, "rejected") \in log
    /\ status[w] = "cancelled" =>
          \E u \in User : \E v \in {"recalled", "cancelled"} : Action(w, 0, u, v) \in log

AuditInv ==
    /\ OrderInv
    /\ \A p \in Worker : HasLogged(p)
    /\ \A w \in Workflow : Explained(w)

\* Rows are never taken back: a step that logs for its own request, and explains the
\* one workflow it decides, leaves everything explained.
LEMMA LogGrows ==
    ASSUME AuditInv, OrderInv', log \subseteq log',
           NEW p \in Worker, HasLogged(p)',
           \A q \in Worker \ {p} : request'[q] = request[q],
           NEW w \in Workflow, Explained(w)',
           \A v \in Workflow \ {w} : status'[v] = status[v] /\ stepStatus'[v] = stepStatus[v]
    PROVE  AuditInv'
<1>1. ASSUME NEW q \in Worker \ {p}
      PROVE  HasLogged(q)'
  <2>1. HasLogged(q) /\ request'[q] = request[q]
    BY DEF AuditInv
  <2> QED
    BY <2>1 DEF HasLogged
<1>2. ASSUME NEW v \in Workflow \ {w}
      PROVE  Explained(v)'
  <2>1. Explained(v) /\ status'[v] = status[v] /\ stepStatus'[v] = stepStatus[v]
    BY DEF AuditInv
  <2> QED
    BY <2>1 DEF Explained, Approvers
<1> QED
  BY <1>1, <1>2 DEF AuditInv

\* So does a step that decides nothing.
LEMMA NothingDecided ==
    ASSUME AuditInv, OrderInv', log \subseteq log', UNCHANGED <<status, stepStatus>>,
           NEW p \in Worker, HasLogged(p)',
           \A q \in Worker \ {p} : request'[q] = request[q]
    PROVE  AuditInv'
<1>1. \A w \in Workflow : Explained(w)'
  BY DEF AuditInv, Explained, Approvers
<1>2. ASSUME NEW q \in Worker \ {p}
      PROVE  HasLogged(q)'
  <2>1. HasLogged(q) /\ request'[q] = request[q]
    BY DEF AuditInv
  <2> QED
    BY <2>1 DEF HasLogged
<1> QED
  BY <1>1, <1>2 DEF AuditInv

\* The tier a transaction approves is explained.
LEMMA AdvanceExplained ==
    ASSUME AuditInv, OrderInv', NEW p \in Worker, AdvanceToNextStep(p)
    PROVE  AuditInv'
<1>a. PICK w \in Workflow, s \in Nat, u \in User, n \in Nat : Commits(p, w, s, u, n)
  BY AdvanceWrites DEF AuditInv
<1>1. /\ request[p].wf = w /\ request[p].step = s /\ request[p].user = u
      /\ s \in Tiers(w)
      /\ stepStatus'[w][s] = "approved"
      /\ \A v \in Workflow : \A t \in Tiers(v) :
            v # w \/ t # s => stepStatus'[v][t] = stepStatus[v][t]
      /\ \/ n # 0 /\ UNCHANGED status
         \/ n = 0 /\ status'[w] = "approved"
      /\ \A v \in Workflow \ {w} : status'[v] = status[v]
      /\ log' = log \cup ApprovalRow(w, s, u)
                   \cup (IF n = 0 THEN {Action(w, 0, u, "completed")} ELSE {})
      /\ request'[p].pc = "event"
      /\ \A q \in Worker \ {p} : request'[q] = request[q]
  BY <1>a DEF Commits
<1>2. Action(w, s, u, "approved") \in log' /\ log \subseteq log'
  <2>1. HasLogged(p) /\ request[p].pc = "advance"
    BY DEF AuditInv, AdvanceToNextStep
  <2> QED
    BY <1>1, <2>1 DEF HasLogged, ApprovalRow
<1>3. \/ status'[w] = status[w]
      \/ status'[w] = "approved" /\ Action(w, 0, u, "completed") \in log'
  BY <1>1
<1>4. Explained(w)'
  <2>1. Explained(w)
    BY DEF AuditInv
  <2>2. u \in Approvers(w, s)'
    BY <1>2 DEF Approvers
  <2>3. \A t \in Tiers(w) : Approvers(w, t) \subseteq Approvers(w, t)'
    BY <1>2 DEF Approvers
  <2>4. \A t \in Tiers(w) : stepStatus'[w][t] = "approved" => Approvers(w, t)' # {}
    BY <1>1, <2>1, <2>2, <2>3 DEF Explained
  <2>5. \A t \in Tiers(w) : stepStatus'[w][t] = "rejected" =>
            \E x \in User : Action(w, t, x, "rejected") \in log'
    BY <1>1, <1>2, <2>1 DEF Explained
  <2> QED
    BY <1>2, <1>3, <2>1, <2>4, <2>5 DEF Explained
<1>5. HasLogged(p)'
  BY <1>1 DEF HasLogged
<1>6. \A v \in Workflow \ {w} : Explained(v)'
  <2> SUFFICES ASSUME NEW v \in Workflow \ {w}
               PROVE  Explained(v)'
    OBVIOUS
  <2>1. /\ Explained(v) /\ status'[v] = status[v]
        /\ \A t \in Tiers(v) : stepStatus'[v][t] = stepStatus[v][t]
    BY <1>1 DEF AuditInv
  <2>2. \A t \in Tiers(v) : Approvers(v, t) \subseteq Approvers(v, t)'
    BY <1>2 DEF Approvers
  <2> QED
    BY <1>2, <2>1, <2>2 DEF Explained
<1>7. \A q \in Worker \ {p} : HasLogged(q)'
  <2> SUFFICES ASSUME NEW q \in Worker \ {p}
               PROVE  HasLogged(q)'
    OBVIOUS
  <2>1. HasLogged(q) /\ request'[q] = request[q]
    BY <1>1 DEF AuditInv
  <2> QED
    BY <1>2, <2>1 DEF HasLogged
<1> QED
  BY <1>4, <1>5, <1>6, <1>7 DEF AuditInv

LEMMA AuditStep == AuditInv /\ [Next]_vars => AuditInv'
<1> SUFFICES ASSUME AuditInv, [Next]_vars
             PROVE  AuditInv'
  OBVIOUS
<1> USE DEF rows, env
<1>0. OrderInv /\ OrderInv' /\ TypeOK
  BY OrderStep DEF AuditInv, OrderInv
<1>1. ASSUME NEW p \in Worker, NewRequest(p)
      PROVE  AuditInv'
  <2> DEFINE Loads ==
                /\ UNCHANGED <<status, stepStatus, log>>
                /\ HasLogged(p)'
                /\ \A q \in Worker \ {p} : request'[q] = request[q]
  <2>1. Loads
    <3>1. ASSUME NEW u \in User, NEW e \in Entity, SubmitCheck(p, u, e)
          PROVE  Loads
      BY <1>0, <3>1 DEF SubmitCheck, TypeOK, HasLogged
    <3>2. ASSUME NEW u \in User, NEW w \in Workflow, NEW phase, LoadTier(p, u, w, phase),
                 phase \in {"approveAny", "logApproval", "reject"},
                 phase = "approveAny" => Mode(w, current[w]) = "any"
          PROVE  Loads
      <4>1. /\ request'[p] = [pc |-> phase, user |-> u, wf |-> w, step |-> current[w],
                              seen |-> "pending"]
            /\ \A q \in Worker \ {p} : request'[q] = request[q]
        BY <1>0, <3>2 DEF LoadTier, TypeOK
      <4>2. HasLogged(p)'
        BY <3>2, <4>1 DEF HasLogged
      <4> QED
        BY <3>2, <4>1, <4>2 DEF LoadTier
    <3>3. ASSUME NEW u \in User, NEW w \in Workflow, NEW phase, LoadWorkflow(p, u, w, phase),
                 phase \in {"recall", "cancel"}
          PROVE  Loads
      BY <1>0, <3>3 DEF LoadWorkflow, TypeOK, HasLogged
    <3> QED
      BY <1>1, <3>1, <3>2, <3>3
      DEF NewRequest, ApproveAnyCheck, ApproveAllCheck, RejectCheck, RecallCheck, CancelCheck
  <2> QED
    BY <1>0, <2>1, NothingDecided
<1>2. ASSUME NEW p \in Worker, NEW n \in 1..MaxRuns, SubmitCommit(p, n)
      PROVE  AuditInv'
  <2>1. PICK w \in Workflow, u \in User : w = <<request[p].entity, n>> /\ u = request[p].user
    BY <1>0, <1>2, SubmitRequest DEF SubmitCommit, Workflow
  <2>2. \A t \in Tiers(w) : stepStatus[w][t] = "pending"
    BY <1>0, <1>2, <2>1 DEF SubmitCommit, OrderInv, Untouched, Decided
  <2>3. /\ \A v \in Workflow \ {w} : status'[v] = status[v]
        /\ log \subseteq log'
        /\ \A q \in Worker \ {p} : request'[q] = request[q]
        /\ UNCHANGED stepStatus
    BY <1>0, <1>2, <2>1 DEF SubmitCommit, TypeOK
  <2>4. \/ status'[w] = "approved" /\ Action(w, 0, u, "completed") \in log'
        \/ status'[w] = "pending"
    BY <1>0, <1>2, <2>1 DEF SubmitCommit, TypeOK
  <2>5. request'[p] = Idle \/ request'[p].pc = "event"
    BY <1>0, <1>2 DEF SubmitCommit, TypeOK
  <2>6. HasLogged(p)'
    BY <2>5 DEF HasLogged, Idle
  <2>7. Explained(w)'
    BY <2>2, <2>3, <2>4 DEF Explained
  <2> QED
    BY <1>0, <2>3, <2>6, <2>7, LogGrows
<1>3. ASSUME NEW p \in Worker, MarkTier(p)
      PROVE  AuditInv'
  <2>a. PICK w \in Workflow, s \in Nat, u \in User, t \in Nat : Marks(p, w, s, u, t)
    BY <1>0, <1>3, MarkTierReads
  <2>1. /\ request[p].wf = w /\ request[p].step = s /\ request[p].user = u
        /\ request' = [request EXCEPT ![p] =
               [pc |-> "advance", user |-> u, wf |-> w, step |-> s, next |-> t]]
    BY <2>a DEF Marks
  <2>2. Mode(w, s) = "any" \/ Action(w, s, u, "approved") \in log
    BY <1>3, <2>1 DEF MarkTier, AuditInv, HasLogged
  <2>3. /\ request'[p] = [pc |-> "advance", user |-> u, wf |-> w, step |-> s, next |-> t]
        /\ \A q \in Worker \ {p} : request'[q] = request[q]
    BY <1>0, <2>1 DEF TypeOK
  <2>4. UNCHANGED <<status, stepStatus, log>>
    BY <1>3 DEF MarkTier
  <2>5. HasLogged(p)'
    BY <2>2, <2>3, <2>4 DEF HasLogged
  <2> QED
    BY <1>0, <2>3, <2>4, <2>5, NothingDecided
<1>4. ASSUME NEW p \in Worker, AdvanceToNextStep(p)
      PROVE  AuditInv'
  BY <1>0, <1>4, AdvanceExplained
<1>5. ASSUME NEW p \in Worker, LogApproval(p)
      PROVE  AuditInv'
  <2>1. request[p] \in Held
    BY <1>0, <1>5, HeldRequest DEF LogApproval, Phase
  <2>2. HasLogged(p)'
    BY <1>0, <1>5, <2>1 DEF LogApproval, HasLogged, TypeOK, Held
  <2> QED
    BY <1>0, <1>5, <2>2, NothingDecided DEF LogApproval, TypeOK
<1>6. ASSUME NEW p \in Worker, CountApprovals(p)
      PROVE  AuditInv'
  <2>1. request[p] \in Held /\ HasLogged(p)
    BY <1>0, <1>6, HeldRequest DEF CountApprovals, Phase, AuditInv
  <2>2. PICK x \in {"completeTier", "event"} : request' = [request EXCEPT ![p].pc = x]
    BY <1>6 DEF CountApprovals
  <2>3. HasLogged(p)'
    BY <1>0, <1>6, <2>1, <2>2 DEF CountApprovals, HasLogged, TypeOK, Held
  <2> QED
    BY <1>0, <1>6, <2>2, <2>3, NothingDecided DEF CountApprovals, TypeOK
<1>7. ASSUME NEW p \in Worker, RejectCommit(p)
      PROVE  AuditInv'
  <2>1. PICK w \in Workflow, s \in Nat, u \in User :
            request[p].wf = w /\ request[p].step = s /\ request[p].user = u
    BY <1>0, <1>7, HeldRequest DEF RejectCommit, Phase, Held
  <2>2. s \in Tiers(w)
    BY <1>0, <1>7, <2>1 DEF RejectCommit, Phase, OrderInv, Behind, Deciding
  <2>3. /\ log \subseteq log' /\ Action(w, s, u, "rejected") \in log'
        /\ status'[w] = "rejected"
        /\ \A t \in Tiers(w) : stepStatus'[w][t] = IF t = s THEN "rejected" ELSE stepStatus[w][t]
        /\ \A v \in Workflow \ {w} : status'[v] = status[v] /\ stepStatus'[v] = stepStatus[v]
    BY <1>0, <1>7, <2>1, <2>2 DEF RejectCommit, TypeOK
  <2>4. request'[p].pc = "event" /\ \A q \in Worker \ {p} : request'[q] = request[q]
    BY <1>0, <1>7 DEF RejectCommit, TypeOK
  <2>5. HasLogged(p)'
    BY <2>4 DEF HasLogged
  <2>6. Explained(w)'
    BY <2>2, <2>3 DEF Explained, Approvers, AuditInv
  <2> QED
    BY <1>0, <2>3, <2>4, <2>5, <2>6, LogGrows
<1>8. ASSUME NEW p \in Worker, NEW verb \in {"recalled", "cancelled"},
             request[p].pc \in {"recall", "cancel"}, Close(p, verb),
             \/ request' = [request EXCEPT ![p] = Idle]
             \/ request' = [request EXCEPT ![p].pc = "event", ![p].seen = "cancelled"]
      PROVE  AuditInv'
  <2>1. PICK w \in Workflow, u \in User : request[p].wf = w /\ request[p].user = u
    BY <1>0, <1>8, HeldRequest DEF Phase, Held
  <2>2. /\ log \subseteq log' /\ Action(w, 0, u, verb) \in log'
        /\ status'[w] = "cancelled"
        /\ UNCHANGED stepStatus
        /\ \A v \in Workflow \ {w} : status'[v] = status[v]
    BY <1>0, <1>8, <2>1 DEF Close, TypeOK
  <2>3. \A q \in Worker \ {p} : request'[q] = request[q]
    BY <1>0, <1>8 DEF TypeOK
  <2>4. request'[p] = Idle \/ request'[p].pc = "event"
    <3>1. request[p] \in Held
      BY <1>0, <1>8, HeldRequest DEF Phase
    <3>2. CASE request' = [request EXCEPT ![p] = Idle]
      BY <1>0, <3>2 DEF TypeOK
    <3>3. CASE request' = [request EXCEPT ![p].pc = "event", ![p].seen = "cancelled"]
      BY <1>0, <3>1, <3>3 DEF TypeOK, Held
    <3> QED
      BY <1>8, <3>2, <3>3
  <2>5. HasLogged(p)'
    BY <2>4 DEF HasLogged, Idle
  <2>6. Explained(w)'
    BY <2>2 DEF Explained, Approvers, AuditInv
  <2> QED
    BY <1>0, <2>2, <2>3, <2>5, <2>6, LogGrows
<1>9. ASSUME NEW p \in Worker, DeliverEvent(p) \/ Crash(p)
      PROVE  AuditInv'
  <2>1. HasLogged(p)' /\ UNCHANGED <<status, stepStatus, log>>
        /\ \A q \in Worker \ {p} : request'[q] = request[q]
    BY <1>0, <1>9 DEF DeliverEvent, Crash, HasLogged, TypeOK, Idle
  <2> QED
    BY <1>0, <2>1, NothingDecided
<1>10. CASE (\E r \in Role, u \in User : ChangeRole(r, u)) \/ UNCHANGED vars
  <2>1. UNCHANGED <<status, stepStatus, log, request>>
    BY <1>10 DEF ChangeRole, vars
  <2> QED
    BY <1>0, <2>1 DEF AuditInv, HasLogged, Explained, Approvers
<1>11. ASSUME NEW p \in Worker, RequestStep(p)
       PROVE  AuditInv'
  BY <1>2, <1>3, <1>4, <1>5, <1>6, <1>7, <1>8, <1>9, <1>11
  DEF RequestStep, RecallCommit, CancelCommit
<1> QED
  BY <1>1, <1>10, <1>11 DEF Next

\* The audit trail explains the state whatever requests interleave, crash or act on rows
\* that others have decided meanwhile: no tier and no workflow changes without its row.
THEOREM DecisionsAreLogged == Spec => []EveryDecisionLogged
<1>1. Init => AuditInv
  <2> SUFFICES ASSUME Init
               PROVE  AuditInv
    OBVIOUS
  <2> QED
    BY InitOrder DEF Init, AuditInv, HasLogged, Explained, Idle
<1>2. AuditInv => EveryDecisionLogged
  BY DEF AuditInv, Explained, EveryDecisionLogged
<1> QED
  BY <1>1, <1>2, AuditStep, PTL DEF Spec
=============================================================================
