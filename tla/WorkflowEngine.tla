--------------------------- MODULE WorkflowEngine ---------------------------
(***************************************************************************)
(* The approval workflow engine: Services/Workflow/WorkflowEngine.php, the *)
(* guard and resolver it asks, the Livewire entry points that call it and  *)
(* HasWorkflow::syncStatusFromWorkflow, run from the listeners of its      *)
(* events.                                                                 *)
(*                                                                         *)
(* A Worker is a PHP request.  It loads the workflow and checks it (one    *)
(* step), then runs a transaction on the row it loaded, then dispatches    *)
(* the event (another).  Nothing locks the row in between, so the          *)
(* transaction acts on what the first step saw.                            *)
(*                                                                         *)
(* The transactions that write the workflow row and read nothing are one   *)
(* step each.  The one that approves a tier is two: it updates the row of  *)
(* its own step and reads which steps are pending (MarkTier), with no      *)
(* lock on the others, and later writes what it read to the workflow row   *)
(* and commits (AdvanceToNextStep).  Only transactions on the same step    *)
(* wait for each other; until it commits nobody else sees its writes.      *)
(***************************************************************************)
EXTENDS Naturals, Sequences, FiniteSets

CONSTANTS
    User, Role, Entity, Worker,
    MaxRuns,          \* bound: workflows started for one entity
    Steps,            \* Steps[w]: the review and authorizer tiers of w's definition
    Initiators,       \* Initiators[e]: its initiator tier, {} when open to all
    Contextual,       \* roles resolved only while WorkflowContext is set
    Bypass,           \* users holding one of approvals.bypass_roles
    Assignments,      \* the role assignments the system may start with
    MaxRoleChanges,   \* bound: grants and revocations while it runs
    MaxCrashes        \* bound: requests killed between two of their steps

Tier == [mode : {"any", "all"}, roles : SUBSET Role]

(***************************************************************************)
(* <<e, n>> is the n-th workflow started for entity e.  Submission copies  *)
(* the definition's tiers into WorkflowStep rows, so each workflow has its *)
(* own, whatever the definition becomes later.                             *)
(***************************************************************************)
Workflow == Entity \X (1..MaxRuns)
Tiers(w) == DOMAIN Steps[w]
Mode(w, s) == Steps[w][s].mode
Roles(w, s) == Steps[w][s].roles

ASSUME ConstantsAssumption ==
    /\ MaxRuns \in Nat
    /\ Steps \in [Workflow -> Seq(Tier)]
    /\ Initiators \in [Entity -> SUBSET Role]
    /\ Contextual \subseteq Role
    /\ Bypass \subseteq User
    /\ Assignments \subseteq [Role -> SUBSET User]
    /\ MaxRoleChanges \in Nat
    /\ MaxCrashes \in Nat

VARIABLES
    status,        \* Workflow.status, "none" before the row exists
    current,       \* Workflow.current_step, 0 for null
    stepStatus,    \* WorkflowStep.status
    log,           \* the WorkflowAction rows
    entityStatus,  \* the status column of the workflowable model
    holders,       \* the users holding each role
    request,       \* what each worker is in the middle of
    roleChanges, crashes

rows == <<status, current, stepStatus, log>>
env == <<holders, roleChanges, crashes>>
vars == <<status, current, stepStatus, log, entityStatus, holders, request,
          roleChanges, crashes>>

Terminal == {"approved", "rejected", "cancelled"}
Status == {"none", "pending"} \cup Terminal
StepStatus == {"pending", "approved", "rejected"}
Verb == {"submitted", "approved", "rejected", "recalled", "cancelled", "completed"}
Action(w, s, u, verb) == [wf |-> w, step |-> s, user |-> u, verb |-> verb]

Idle == [pc |-> "idle"]

\* Phases in which a request holds a workflow it has loaded: what it does next.
Phase == {"approveAny", "logApproval", "countApprovals", "completeTier",
          "reject", "recall", "cancel", "event"}

\* A transaction under way has marked its step and read the next one, 0 for none left.
Request ==
    {Idle}
    \cup [pc : {"submit"}, user : User, entity : Entity]
    \cup [pc : {"advance"}, user : User, wf : Workflow, step : Nat, next : Nat]
    \cup [pc : Phase, user : User, wf : Workflow, step : Nat, seen : Status]

TypeOK ==
    /\ status \in [Workflow -> Status]
    /\ current \in [Workflow -> Nat]
    /\ DOMAIN stepStatus = Workflow
    /\ \A w \in Workflow : stepStatus[w] \in [Tiers(w) -> StepStatus]
    /\ log \subseteq [wf : Workflow, step : Nat, user : User, verb : Verb]
    /\ entityStatus \in [Entity -> Status]
    /\ holders \in [Role -> SUBSET User]
    /\ request \in [Worker -> Request]
    /\ roleChanges \in 0..MaxRoleChanges
    /\ crashes \in 0..MaxCrashes

Init ==
    /\ status = [w \in Workflow |-> "none"]
    /\ current = [w \in Workflow |-> 0]
    /\ stepStatus = [w \in Workflow |-> [s \in Tiers(w) |-> "pending"]]
    /\ log = {}
    /\ entityStatus = [e \in Entity |-> "none"]
    /\ holders \in Assignments
    /\ request = [p \in Worker |-> Idle]
    /\ roleChanges = 0
    /\ crashes = 0
-----------------------------------------------------------------------------
(***************************************************************************)
(* Who may act.                                                            *)
(***************************************************************************)

\* ApproverResolver::resolve
Resolve(roles) == UNION {holders[r] : r \in roles}

\* ApprovalGuard::canApprove and canSubmit
CanAct(u, roles) == u \in Bypass \/ u \in Resolve(roles)

\* approveAllMode resolves outside the WorkflowContext
Required(w, s) == Resolve(Roles(w, s) \ Contextual)

\* The distinct users with an 'approved' action on the step
Approvers(w, s) == {u \in User : Action(w, s, u, "approved") \in log}

\* Mutant: the duplicate check asks for the wrong status.
ChecksApprovedOnly(e) == \E n \in 1..MaxRuns : status[<<e, n>>] = "approved"

HasActiveWorkflow(e) == \E n \in 1..MaxRuns : status[<<e, n>>] = "pending"

\* Mutant: the pending steps are ordered backwards.
LatestPending(w, t, steps) ==
    \/ t = 0 /\ \A x \in Tiers(w) : steps[x] # "pending"
    \/ /\ t \in Tiers(w)
       /\ steps[t] = "pending"
       /\ \A x \in Tiers(w) : steps[x] = "pending" => x <= t

\* The pending steps in sequence order start with t; with none left t is 0.
IsNextStep(w, t, steps) ==
    \/ t = 0 /\ \A x \in Tiers(w) : steps[x] # "pending"
    \/ /\ t \in Tiers(w)
       /\ steps[t] = "pending"
       /\ \A x \in Tiers(w) : steps[x] = "pending" => t <= x
-----------------------------------------------------------------------------
(***************************************************************************)
(* start                                                                   *)
(***************************************************************************)
SubmitCheck(p, u, e) ==
    /\ request[p] = Idle
    /\ ~HasActiveWorkflow(e)
    /\ Initiators[e] # {} => CanAct(u, Initiators[e] \ Contextual)
    /\ request' = [request EXCEPT ![p] = [pc |-> "submit", user |-> u, entity |-> e]]
    /\ UNCHANGED <<rows, entityStatus, env>>

\* The insert takes the entity's next row; a definition without tiers is approved
\* at once and announced, any other one waits on its first tier.
SubmitCommit(p, n) ==
    LET r == request[p]
        w == <<r.entity, n>>
    IN  /\ r.pc = "submit"
        /\ n \in 1..MaxRuns
        /\ status[w] = "none"
        /\ \A m \in 1..(n - 1) : status[<<r.entity, m>>] # "none"
        /\ IF Tiers(w) = {}
           THEN /\ status' = [status EXCEPT ![w] = "approved"]
                /\ log' = log \cup {Action(w, 0, r.user, "completed")}
                /\ request' = [request EXCEPT ![p] =
                       [pc |-> "event", user |-> r.user, wf |-> w, step |-> 0,
                        seen |-> "approved"]]
                /\ UNCHANGED current
           ELSE /\ status' = [status EXCEPT ![w] = "pending"]
                /\ current' = [current EXCEPT ![w] = 1]
                /\ log' = log \cup {Action(w, 0, r.user, "submitted")}
                /\ request' = [request EXCEPT ![p] = Idle]
        /\ UNCHANGED <<stepStatus, entityStatus, env>>
-----------------------------------------------------------------------------
(***************************************************************************)
(* approve and reject                                                      *)
(***************************************************************************)

\* The reload by the Livewire component and the guards both methods begin with
LoadTier(p, u, w, phase) ==
    /\ request[p] = Idle
    /\ status[w] = "pending"
    /\ current[w] \in Tiers(w)
    /\ stepStatus[w][current[w]] = "pending"
    /\ CanAct(u, Roles(w, current[w]))
    /\ request' = [request EXCEPT ![p] =
           [pc |-> phase, user |-> u, wf |-> w, step |-> current[w],
            seen |-> "pending"]]
    /\ UNCHANGED <<rows, entityStatus, env>>

ApproveAnyCheck(p, u, w) ==
    LoadTier(p, u, w, "approveAny") /\ Mode(w, current[w]) = "any"

ApproveAllCheck(p, u, w) ==
    /\ LoadTier(p, u, w, "logApproval")
    /\ Mode(w, current[w]) = "all"
    /\ u \notin Approvers(w, current[w])

RejectCheck(p, u, w) == LoadTier(p, u, w, "reject")

\* A transaction that updated the row of step s has yet to commit.
Locked(w, s) ==
    \E q \in Worker :
        /\ request[q].pc = "advance"
        /\ request[q].wf = w
        /\ request[q].step = s

\* The transaction marks the loaded step approved, whatever its row holds by now, and
\* advanceToNextStep reads the steps that are pending in its eyes.
MarkTier(p) ==
    LET r == request[p]
        steps == [stepStatus[r.wf] EXCEPT ![r.step] = "approved"]
    IN  /\ r.pc \in {"approveAny", "completeTier"}
        /\ ~Locked(r.wf, r.step)
        /\ \E t \in Tiers(r.wf) \cup {0} :
              /\ IsNextStep(r.wf, t, steps)
              /\ request' = [request EXCEPT ![p] =
                     [pc |-> "advance", user |-> r.user, wf |-> r.wf, step |-> r.step,
                      next |-> t]]
        /\ UNCHANGED <<rows, entityStatus, env>>

\* Mutant: the transaction of an any-mode approval writes no action row.
NoRow(w, s, u) == {}

\* An any-mode approval logs itself in its transaction; approveAllMode has done it before.
ApprovalRow(w, s, u) == IF Mode(w, s) = "any" THEN {Action(w, s, u, "approved")} ELSE {}

\* The rest of advanceToNextStep: the workflow row gets the step that was read, or
\* becomes approved, and the transaction commits.
AdvanceToNextStep(p) ==
    LET r == request[p]
        w == r.wf
        logged == log \cup ApprovalRow(w, r.step, r.user)
    IN  /\ r.pc = "advance"
        /\ stepStatus' = [stepStatus EXCEPT ![w][r.step] = "approved"]
        /\ IF r.next # 0
           THEN /\ current' = [current EXCEPT ![w] = r.next]
                /\ log' = logged
                /\ UNCHANGED status
           ELSE /\ status' = [status EXCEPT ![w] = "approved"]
                /\ log' = logged \cup {Action(w, 0, r.user, "completed")}
                /\ UNCHANGED current
        /\ request' = [request EXCEPT ![p] =
               [pc |-> "event", user |-> r.user, wf |-> w, step |-> r.step,
                seen |-> IF r.next # 0 THEN "pending" ELSE "approved"]]
        /\ UNCHANGED <<entityStatus, env>>

\* The approval of an 'all' step is logged on its own, before any transaction.
LogApproval(p) ==
    LET r == request[p]
    IN  /\ r.pc = "logApproval"
        /\ log' = log \cup {Action(r.wf, r.step, r.user, "approved")}
        /\ request' = [request EXCEPT ![p].pc = "countApprovals"]
        /\ UNCHANGED <<status, current, stepStatus, entityStatus, env>>

\* Mutant: a tier completes one approval early.
CountOneShort(p) ==
    LET r == request[p]
        enough == Cardinality(Approvers(r.wf, r.step)) + 1 >= Cardinality(Required(r.wf, r.step))
    IN  /\ r.pc = "countApprovals"
        /\ request' = [request EXCEPT ![p].pc = IF enough THEN "completeTier" ELSE "event"]
        /\ UNCHANGED <<rows, entityStatus, env>>

\* Mutant: the last required approver does not count as enough.
CountStrictly(p) ==
    LET r == request[p]
        enough == Cardinality(Approvers(r.wf, r.step)) > Cardinality(Required(r.wf, r.step))
    IN  /\ r.pc = "countApprovals"
        /\ request' = [request EXCEPT ![p].pc = IF enough THEN "completeTier" ELSE "event"]
        /\ UNCHANGED <<rows, entityStatus, env>>

\* Partial approvals go straight to the event.
CountApprovals(p) ==
    LET r == request[p]
        enough == Cardinality(Approvers(r.wf, r.step)) >= Cardinality(Required(r.wf, r.step))
    IN  /\ r.pc = "countApprovals"
        /\ request' = [request EXCEPT ![p].pc = IF enough THEN "completeTier" ELSE "event"]
        /\ UNCHANGED <<rows, entityStatus, env>>

RejectCommit(p) ==
    LET r == request[p]
    IN  /\ r.pc = "reject"
        /\ ~Locked(r.wf, r.step)
        /\ stepStatus' = [stepStatus EXCEPT ![r.wf][r.step] = "rejected"]
        /\ status' = [status EXCEPT ![r.wf] = "rejected"]
        /\ log' = log \cup {Action(r.wf, r.step, r.user, "rejected")}
        /\ request' = [request EXCEPT ![p].pc = "event", ![p].seen = "rejected"]
        /\ UNCHANGED <<current, entityStatus, env>>
-----------------------------------------------------------------------------
(***************************************************************************)
(* recall and cancel                                                       *)
(***************************************************************************)
LoadWorkflow(p, u, w, phase) ==
    /\ request[p] = Idle
    /\ request' = [request EXCEPT ![p] =
           [pc |-> phase, user |-> u, wf |-> w, step |-> 0, seen |-> status[w]]]
    /\ UNCHANGED <<rows, entityStatus, env>>

\* Mutant: an approved workflow can be recalled too.
RecallAnyCheck(p, u, w) ==
    status[w] \in {"pending", "approved"} /\ LoadWorkflow(p, u, w, "recall")

RecallCheck(p, u, w) == status[w] = "pending" /\ LoadWorkflow(p, u, w, "recall")
CancelCheck(p, u, w) == status[w] = "approved" /\ LoadWorkflow(p, u, w, "cancel")

\* Mutant: the action name is written into the status column.
CloseAsVerb(p, verb) ==
    LET r == request[p]
    IN  /\ status' = [status EXCEPT ![r.wf] = verb]
        /\ log' = log \cup {Action(r.wf, 0, r.user, verb)}
        /\ UNCHANGED <<current, stepStatus, env>>

Close(p, verb) ==
    LET r == request[p]
    IN  /\ status' = [status EXCEPT ![r.wf] = "cancelled"]
        /\ log' = log \cup {Action(r.wf, 0, r.user, verb)}
        /\ UNCHANGED <<current, stepStatus, env>>

RecallCommit(p) ==
    /\ request[p].pc = "recall"
    /\ Close(p, "recalled")
    /\ request' = [request EXCEPT ![p].pc = "event", ![p].seen = "cancelled"]
    /\ UNCHANGED entityStatus

\* cancel dispatches its event inside the transaction, but nothing in the repository
\* listens to it: the entity keeps its status.
CancelCommit(p) ==
    /\ request[p].pc = "cancel"
    /\ Close(p, "cancelled")
    /\ request' = [request EXCEPT ![p] = Idle]
    /\ UNCHANGED entityStatus
-----------------------------------------------------------------------------
\* WorkflowApproved, WorkflowRejected or WorkflowRecalled reaches the listener, which
\* copies the status of the workflow object the event carries.
DeliverEvent(p) ==
    LET r == request[p]
    IN  /\ r.pc = "event"
        /\ entityStatus' = [entityStatus EXCEPT ![r.wf[1]] = r.seen]
        /\ request' = [request EXCEPT ![p] = Idle]
        /\ UNCHANGED <<rows, env>>

\* The process dies, or a listener or the database throws, between two steps.
Crash(p) ==
    /\ request[p] # Idle
    /\ crashes < MaxCrashes
    /\ crashes' = crashes + 1
    /\ request' = [request EXCEPT ![p] = Idle]
    /\ UNCHANGED <<rows, entityStatus, holders, roleChanges>>

\* An administrator grants role r to u or takes it away.
ChangeRole(r, u) ==
    /\ roleChanges < MaxRoleChanges
    /\ roleChanges' = roleChanges + 1
    /\ holders' = [holders EXCEPT ![r] =
           IF u \in holders[r] THEN holders[r] \ {u} ELSE holders[r] \cup {u}]
    /\ UNCHANGED <<rows, entityStatus, request, crashes>>

RequestStep(p) ==
    \/ \E n \in 1..MaxRuns : SubmitCommit(p, n)
    \/ LogApproval(p)
    \/ CountApprovals(p)
    \/ MarkTier(p)
    \/ AdvanceToNextStep(p)
    \/ RejectCommit(p)
    \/ RecallCommit(p)
    \/ CancelCommit(p)
    \/ DeliverEvent(p)
    \/ Crash(p)

NewRequest(p) ==
    \E u \in User :
        \/ \E e \in Entity : SubmitCheck(p, u, e)
        \/ \E w \in Workflow :
              \/ ApproveAnyCheck(p, u, w)
              \/ ApproveAllCheck(p, u, w)
              \/ RejectCheck(p, u, w)
              \/ RecallCheck(p, u, w)
              \/ CancelCheck(p, u, w)

Next ==
    \/ \E p \in Worker : NewRequest(p) \/ RequestStep(p)
    \/ \E r \in Role, u \in User : ChangeRole(r, u)

Spec == Init /\ [][Next]_vars
-----------------------------------------------------------------------------
(***************************************************************************)
(* What the engine promises.                                               *)
(***************************************************************************)

\* No tier is decided before the ones in front of it are, whatever stale or overlapping
\* transactions advanceToNextStep serves: a tier is touched only when all before it are
\* decided, what is before the current tier of a pending workflow is approved, nothing of
\* it is rejected, and an approved workflow left no tier pending.
TiersInOrder ==
    \A w \in Workflow :
        /\ \A s, t \in Tiers(w) :
              s < t /\ stepStatus[w][t] # "pending" => stepStatus[w][s] # "pending"
        /\ status[w] = "pending" =>
              /\ current[w] \in Tiers(w)
              /\ \A t \in Tiers(w) :
                    /\ stepStatus[w][t] # "rejected"
                    /\ t < current[w] => stepStatus[w][t] = "approved"
        /\ status[w] = "approved" => \A t \in Tiers(w) : stepStatus[w][t] # "pending"

\* The audit trail explains the state: no tier is approved or rejected, and no
\* workflow completed, rejected or cancelled, without its WorkflowAction row.
EveryDecisionLogged ==
    \A w \in Workflow :
        /\ \A t \in Tiers(w) :
              /\ stepStatus[w][t] = "approved" => Approvers(w, t) # {}
              /\ stepStatus[w][t] = "rejected" =>
                    \E u \in User : Action(w, t, u, "rejected") \in log
        /\ status[w] = "approved" => \E u \in User : Action(w, 0, u, "completed") \in log
        /\ status[w] = "rejected" =>
              \E t \in Tiers(w), u \in User : Action(w, t, u, "rejected") \in log
        /\ status[w] = "cancelled" =>
              \E u \in User : \E v \in {"recalled", "cancelled"} : Action(w, 0, u, v) \in log

\* approve()'s "all" mode: an approved tier was approved by every user its roles
\* resolve to.
AllModeComplete ==
    \A w \in Workflow : \A t \in Tiers(w) :
        Mode(w, t) = "all" /\ stepStatus[w][t] = "approved" =>
            Resolve(Roles(w, t)) \subseteq Approvers(w, t)

\* Some request has logged its approval of tier t and has yet to count or to complete.
Finishing(w, t) ==
    \E p \in Worker :
        /\ request[p].pc \in {"countApprovals", "completeTier", "advance"}
        /\ request[p].wf = w
        /\ request[p].step = t

\* "When the last required approver acts, the step is marked approved": once every
\* required user has approved a pending tier, the request that will close it is alive.
\* Without it nobody can, each approver being told he has already approved.
LastApprovalCloses ==
    \A w \in Workflow : \A t \in Tiers(w) :
        /\ Mode(w, t) = "all"
        /\ Approvers(w, t) # {}
        /\ Required(w, t) \subseteq Approvers(w, t)
        /\ status[w] = "pending"
        /\ stepStatus[w][t] = "pending"
        => Finishing(w, t)

\* The model's status column says approved only while one of its workflows is, or once
\* one that was has been cancelled, of which no listener tells the model.
ApprovedEntityIsBacked ==
    \A e \in Entity : entityStatus[e] = "approved" =>
        \E n \in 1..MaxRuns :
            \/ status[<<e, n>>] = "approved"
            \/ /\ status[<<e, n>>] = "cancelled"
               /\ \E u \in User : Action(<<e, n>>, 0, u, "cancelled") \in log

\* start() refuses a second workflow while one is pending.
OneActiveWorkflow ==
    \A e \in Entity : \A m, n \in 1..MaxRuns :
        status[<<e, m>>] = "pending" /\ status[<<e, n>>] = "pending" => m = n

\* reject() terminates the workflow: no step of anyone approves it afterwards.
RejectionIsFinal ==
    [][\A w \in Workflow : status[w] = "rejected" => status'[w] # "approved"]_vars
-----------------------------------------------------------------------------
(***************************************************************************)
(* One request at a time, the engine implements ApprovalLifecycle.         *)
(***************************************************************************)
TiersOf == [w \in Workflow |-> Tiers(w)]
Cleared == [w \in Workflow |-> {t \in Tiers(w) : stepStatus[w][t] = "approved"}]

Lifecycle == INSTANCE ApprovalLifecycle WITH outcome <- status, cleared <- Cleared

\* Every run clears its tiers once each and in sequence, has one outcome, and never
\* shares its entity with another pending run.
ImplementsLifecycle == Lifecycle!ALSpec
=============================================================================
