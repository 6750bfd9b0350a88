----------------------------- MODULE Invitations -----------------------------
(***************************************************************************)
(* Invitations: Services/Invitations/InvitationService.php, the pages that *)
(* call it (AcceptInvitation, InvitationDataTable, BulkInvite), the form   *)
(* listener and the two console commands.                                  *)
(*                                                                         *)
(* Nothing here opens a transaction or locks a row: each statement is a    *)
(* step of its own, and a request goes on with the copy of the row it      *)
(* loaded.  A Web process serves the pages; Cron runs the commands the     *)
(* scheduler starts, one after the other.                                  *)
(***************************************************************************)
EXTENDS Clock, FiniteSets

CONSTANTS
    Invitation, Email, Company,
    To,           \* To[i]: the address invited
    For,          \* For[i]: the company invited into, or None
    Role, Offer,  \* Offer[i]: the role invited to, or None
    DefaultRole,  \* what a role outside the hierarchy is replaced by
    None,
    Sent,         \* the sets of invitations that may just have been sent
    Web, Cron,
    Lifetime,     \* ui-library.invitations.expiration_days
    Window,       \* how near its end an invitation is reminded of
    MaxRequests,  \* bound: requests people make
    MaxFaults     \* bound: requests that throw or die, and roles deleted

ASSUME InvitationAssumption ==
    /\ To \in [Invitation -> Email]
    /\ For \in [Invitation -> Company \cup {None}]
    /\ Offer \in [Invitation -> Role \cup {None}]
    /\ DefaultRole \in Role
    /\ None \notin Company \cup Role
    /\ Sent \subseteq SUBSET Invitation
    /\ Cron \notin Web
    /\ Lifetime \in Nat \ {0}
    /\ Window \in Nat
    /\ MaxRequests \in Nat
    /\ MaxFaults \in Nat

VARIABLES
    status,      \* Invitation.status, "none" before the row exists
    expires,     \* Invitation.expires_at
    reminded,    \* the invitations whose reminded_at is set
    mailed,      \* those whose invitation mail was queued
    reminders,   \* reminder mails queued for each
    audit,       \* those with an 'accepted' row in InvitationLog
    active,      \* addresses with an active user
    roles,       \* <<address, role>> rows of model_has_roles
    standing,    \* the roles that still have a row
    members,     \* <<address, company>> rows of company_user
    request,     \* what each process is in the middle of
    requests,    \* how many people have made
    died,        \* <<invitation, verb>> a request died over
    faults

access == <<active, roles, standing, members>>
mails == <<mailed, reminders>>
bounds == <<requests, died, faults>>
invitationVars == <<now, status, expires, reminded, mails, audit, access, request, bounds>>

Process == Web \cup {Cron}
Closed == {"accepted", "expired", "revoked"}
Status == {"none", "pending"} \cup Closed
Verb == {"sent", "accepted", "resend", "revoked", "expired", "reminded"}

\* todo: the invitations the request has still to treat; inv: the one in
\* hand; seen: the status its copy was loaded with.
Idle == [pc |-> "idle"]
Phase == {"insert", "mail", "log", "lapse", "user", "role", "company", "accept",
          "resend", "revoke", "expire", "remind", "stamp"}
Request ==
    {Idle}
    \cup [pc : Phase, todo : SUBSET Invitation, inv : Invitation, seen : Status, verb : Verb]

At(p, pc) == request[p].pc = pc
Inv(p) == request[p].inv

Serve(p, pc, todo, i, verb) ==
    request' = [request EXCEPT ![p] =
        [pc |-> pc, todo |-> todo, inv |-> i, seen |-> status[i], verb |-> verb]]
GoTo(p, pc) == request' = [request EXCEPT ![p].pc = pc]
End(p) == request' = [request EXCEPT ![p] = Idle]

InvitationTypeOK ==
    /\ now \in Nat
    /\ status \in [Invitation -> Status]
    /\ expires \in [Invitation -> Nat]
    /\ reminded \subseteq Invitation
    /\ mailed \subseteq Invitation
    /\ reminders \in [Invitation -> Nat]
    /\ audit \subseteq Invitation
    /\ active \subseteq Email
    /\ roles \subseteq Email \X Role
    /\ standing \subseteq Role
    /\ members \subseteq Email \X Company
    /\ request \in [Process -> Request]
    /\ died \subseteq Invitation \X Verb
    /\ requests \in 0..MaxRequests
    /\ faults \in 0..MaxFaults

InvitationInit ==
    /\ ClockInit
    /\ mailed \in Sent
    /\ status = [i \in Invitation |-> IF i \in mailed THEN "pending" ELSE "none"]
    /\ expires = [i \in Invitation |-> IF i \in mailed THEN now + Lifetime ELSE 0]
    /\ reminded = {}
    /\ reminders = [i \in Invitation |-> 0]
    /\ audit = {}
    /\ active = {}
    /\ roles = {}
    /\ standing \in SUBSET Role
    /\ members = {}
    /\ request = [p \in Process |-> Idle]
    /\ requests \in {0, MaxRequests}
    /\ died = {}
    /\ faults = 0
-----------------------------------------------------------------------------
(* create, from BulkInvite; and the form, with InvitationRecordListener *)

\* A free process takes one more request from a browser.
Arrives(p) ==
    /\ request[p] = Idle
    /\ requests < MaxRequests
    /\ requests' = requests + 1
    /\ UNCHANGED <<died, faults>>

Holds(p, i) == request[p] # Idle /\ (i = Inv(p) \/ i \in request[p].todo)

\* Rows no request has inserted or is about to insert
Fresh == {i \in Invitation : status[i] = "none" /\ \A p \in Process : ~Holds(p, i)}

\* submitCsv takes any addresses; submitPaste only those without a user, which
\* may have one by the time its loop comes to them.
StartBulkInvite(p) ==
    /\ Arrives(p)
    /\ \E todo \in SUBSET Fresh :
          \E i \in todo : Serve(p, "insert", todo \ {i}, i, "sent")
    /\ UNCHANGED <<now, status, expires, reminded, mails, audit, access>>

\* Mutant: the mail is forgotten.
InsertUnmailed(p) ==
    /\ At(p, "insert")
    /\ status' = [status EXCEPT ![Inv(p)] = "pending"]
    /\ expires' = [expires EXCEPT ![Inv(p)] = now + Lifetime]
    /\ GoTo(p, "log")
    /\ UNCHANGED <<now, reminded, mails, audit, access, bounds>>

InsertInvitation(p) ==
    /\ At(p, "insert")
    /\ status' = [status EXCEPT ![Inv(p)] = "pending"]
    /\ expires' = [expires EXCEPT ![Inv(p)] = now + Lifetime]
    /\ GoTo(p, "mail")
    /\ UNCHANGED <<now, reminded, mails, audit, access, bounds>>

SendMail(p) ==
    /\ At(p, "mail")
    /\ mailed' = mailed \cup {Inv(p)}
    /\ GoTo(p, "log")
    /\ UNCHANGED <<now, status, expires, reminded, reminders, audit, access, bounds>>

\* The listener runs inside the transaction of the form's save, and logs nothing.
SaveForm(p, i) ==
    /\ Arrives(p)
    /\ i \in Fresh
    /\ status' = [status EXCEPT ![i] = "pending"]
    /\ expires' = [expires EXCEPT ![i] = now + Lifetime]
    /\ mailed' = mailed \cup {i}
    /\ UNCHANGED <<now, reminded, reminders, audit, access, request>>

\* What each loop does with its next invitation
LoopPhase == [sent |-> "insert", expired |-> "expire", reminded |-> "remind"]

\* log, and on to the next invitation of the loop
WriteLog(p) ==
    LET r == request[p]
    IN  /\ At(p, "log")
        /\ audit' = IF r.verb = "accepted" THEN audit \cup {r.inv} ELSE audit
        /\ IF r.todo = {}
           THEN End(p)
           ELSE \E i \in r.todo :
                    request' = [request EXCEPT ![p].pc = LoopPhase[r.verb],
                                               ![p].inv = i, ![p].todo = @ \ {i}]
        /\ UNCHANGED <<now, status, expires, reminded, mails, access, bounds>>
-----------------------------------------------------------------------------
(* findValidByToken, then accept *)

Expired(i) == IsPast(expires[i])

\* Any other status shows an error and changes nothing.
FindValidByToken(p, i, next) ==
    /\ Arrives(p)
    /\ status[i] = "pending"
    /\ Serve(p, IF Expired(i) THEN "lapse" ELSE next, {}, i, "accepted")

\* mount only looks, but looking at an expired invitation closes it.
OpenLink(p, i) ==
    /\ FindValidByToken(p, i, "user")
    /\ Expired(i)
    /\ UNCHANGED <<now, status, expires, reminded, mails, audit, access>>

SubmitAcceptance(p, i) ==
    /\ FindValidByToken(p, i, "user")
    /\ UNCHANGED <<now, status, expires, reminded, mails, audit, access>>

\* Nothing is logged and no event sent for an invitation that lapses here.
Lapse(p) ==
    /\ At(p, "lapse")
    /\ status' = [status EXCEPT ![Inv(p)] = "expired"]
    /\ End(p)
    /\ UNCHANGED <<now, expires, reminded, mails, audit, access, bounds>>

SaveUser(p) ==
    /\ At(p, "user")
    /\ active' = active \cup {To[Inv(p)]}
    /\ GoTo(p, "role")
    /\ UNCHANGED <<now, status, expires, reminded, mails, audit, roles, standing, members, bounds>>

\* The role offered, or the default one where it is outside the hierarchy of
\* whoever is logged in: the loaded copy knows no createdBy, so that is no
\* property of the invitation.
MayBeGiven(i) == {Offer[i], DefaultRole}

\* Nothing is given where no role is offered or its row is gone.  assignRole
\* throws on a role that has no row (CrashRequest).
GiveRole(i) ==
    IF Offer[i] \in standing
    THEN \E r \in MayBeGiven(i) \cap standing : roles' = roles \cup {<<To[i], r>>}
    ELSE UNCHANGED roles

\* Mutant: the invitation is marked accepted before the company is assigned.
AssignRoleAndMark(p) ==
    /\ At(p, "role")
    /\ GiveRole(Inv(p))
    /\ status' = [status EXCEPT ![Inv(p)] = "accepted"]
    /\ GoTo(p, "company")
    /\ UNCHANGED <<now, expires, reminded, mails, audit, active, standing, members, bounds>>

AssignRole(p) ==
    /\ At(p, "role")
    /\ GiveRole(Inv(p))
    /\ GoTo(p, "company")
    /\ UNCHANGED <<now, status, expires, reminded, mails, audit, active, standing, members, bounds>>

AssignCompany(p) ==
    /\ At(p, "company")
    /\ members' = IF For[Inv(p)] = None THEN members
                  ELSE members \cup {<<To[Inv(p)], For[Inv(p)]>>}
    /\ GoTo(p, "accept")
    /\ UNCHANGED <<now, status, expires, reminded, mails, audit, active, roles, standing, bounds>>

\* An administrator deletes a role; model_has_roles cascades.
DeleteRole(r) ==
    /\ r \in standing
    /\ faults < MaxFaults
    /\ faults' = faults + 1
    /\ standing' = standing \ {r}
    /\ roles' = {g \in roles : g[2] # r}
    /\ UNCHANGED <<now, status, expires, reminded, mails, audit, active, members, request, requests, died>>

\* Mutant: an invitation that is no longer pending is left as it is, unlogged.
MarkAcceptedIfPending(p) ==
    /\ At(p, "accept")
    /\ IF status[Inv(p)] = "pending"
       THEN status' = [status EXCEPT ![Inv(p)] = "accepted"] /\ GoTo(p, "log")
       ELSE End(p) /\ UNCHANGED status
    /\ UNCHANGED <<now, expires, reminded, mails, audit, access, bounds>>

\* Mutant: the user's status is written into the invitation.
MarkActive(p) ==
    /\ At(p, "accept")
    /\ status' = [status EXCEPT ![Inv(p)] = "active"]
    /\ GoTo(p, "log")
    /\ UNCHANGED <<now, expires, reminded, mails, audit, access, bounds>>

\* The loaded copy says pending, so the status is written whatever it is by now.
MarkAccepted(p) ==
    /\ At(p, "accept")
    /\ status' = [status EXCEPT ![Inv(p)] = "accepted"]
    /\ GoTo(p, "log")
    /\ UNCHANGED <<now, expires, reminded, mails, audit, access, bounds>>
-----------------------------------------------------------------------------
(* resend and revoke: the row menu offers them on a pending row, as last shown *)

LoadRow(p, i, pc, verb) ==
    /\ Arrives(p)
    /\ status[i] # "none"
    /\ Serve(p, pc, {}, i, verb)
    /\ UNCHANGED <<now, status, expires, reminded, mails, audit, access>>

ResendInvitation(p, i) == LoadRow(p, i, "resend", "resend")
RevokeInvitation(p, i) == LoadRow(p, i, "revoke", "revoked")

\* Mutant: an invitation resent is pending again.
ResendAndReopen(p) ==
    /\ At(p, "resend")
    /\ expires' = [expires EXCEPT ![Inv(p)] = now + Lifetime]
    /\ status' = [status EXCEPT ![Inv(p)] = "pending"]
    /\ GoTo(p, "mail")
    /\ UNCHANGED <<now, reminded, mails, audit, access, bounds>>

Resend(p) ==
    /\ At(p, "resend")
    /\ expires' = [expires EXCEPT ![Inv(p)] = now + Lifetime]
    /\ GoTo(p, "mail")
    /\ UNCHANGED <<now, status, reminded, mails, audit, access, bounds>>

\* A status equal to the loaded copy's is not written.
Revoke(p) ==
    /\ At(p, "revoke")
    /\ status' = IF request[p].seen = "revoked" THEN status
                 ELSE [status EXCEPT ![Inv(p)] = "revoked"]
    /\ GoTo(p, "log")
    /\ UNCHANGED <<now, expires, reminded, mails, audit, access, bounds>>
-----------------------------------------------------------------------------
(* expire and sendReminder, started by the scheduler *)

Overdue(i) == status[i] = "pending" /\ Expired(i)

\* Mutant: the command asks for invitations expiring in the future.
StartExpireFuture ==
    /\ request[Cron] = Idle
    /\ LET todo == {i \in Invitation : status[i] = "pending" /\ expires[i] > now}
       IN  \E i \in todo : Serve(Cron, "expire", todo \ {i}, i, "expired")
    /\ UNCHANGED <<now, status, expires, reminded, mails, audit, access, bounds>>

StartExpire ==
    /\ request[Cron] = Idle
    /\ LET todo == {i \in Invitation : Overdue(i)}
       IN  \E i \in todo : Serve(Cron, "expire", todo \ {i}, i, "expired")
    /\ UNCHANGED <<now, status, expires, reminded, mails, audit, access, bounds>>

\* The list may be old by now: the status is written all the same.
Expire ==
    /\ At(Cron, "expire")
    /\ status' = [status EXCEPT ![Inv(Cron)] = "expired"]
    /\ GoTo(Cron, "log")
    /\ UNCHANGED <<now, expires, reminded, mails, audit, access, bounds>>

\* Mutant: the list does not leave out those already reminded.
RemindersOfPending ==
    {i \in Invitation : status[i] = "pending" /\ expires[i] > now /\ expires[i] <= now + Window}

\* getPendingReminders; sendReminder asks the loaded copy the same again.
PendingReminders ==
    {i \in Invitation : /\ status[i] = "pending"
                        /\ i \notin reminded
                        /\ expires[i] > now
                        /\ expires[i] <= now + Window}

StartReminders ==
    /\ request[Cron] = Idle
    /\ LET todo == PendingReminders
       IN  \E i \in todo : Serve(Cron, "remind", todo \ {i}, i, "reminded")
    /\ UNCHANGED <<now, status, expires, reminded, mails, audit, access, bounds>>

SendReminder ==
    /\ At(Cron, "remind")
    /\ reminders' = [reminders EXCEPT ![Inv(Cron)] = @ + 1]
    /\ GoTo(Cron, "stamp")
    /\ UNCHANGED <<now, status, expires, reminded, mailed, audit, access, bounds>>

StampReminder ==
    /\ At(Cron, "stamp")
    /\ reminded' = reminded \cup {Inv(Cron)}
    /\ GoTo(Cron, "log")
    /\ UNCHANGED <<now, status, expires, mails, audit, access, bounds>>
-----------------------------------------------------------------------------
\* A request throws or its process dies between two statements.
CrashRequest(p) ==
    /\ request[p] # Idle
    /\ faults < MaxFaults
    /\ faults' = faults + 1
    /\ died' = died \cup {<<Inv(p), request[p].verb>>}
    /\ End(p)
    /\ UNCHANGED <<now, status, expires, reminded, mails, audit, access, requests>>

Browse(p) ==
    \/ StartBulkInvite(p)
    \/ \E i \in Invitation :
          \/ SaveForm(p, i)
          \/ OpenLink(p, i)
          \/ SubmitAcceptance(p, i)
          \/ ResendInvitation(p, i)
          \/ RevokeInvitation(p, i)

Continue(p) ==
    \/ InsertInvitation(p)
    \/ SendMail(p)
    \/ WriteLog(p)
    \/ Lapse(p)
    \/ SaveUser(p)
    \/ AssignRole(p)
    \/ AssignCompany(p)
    \/ MarkAccepted(p)
    \/ Resend(p)
    \/ Revoke(p)

Command == StartExpire \/ StartReminders

CommandStep == Expire \/ SendReminder \/ StampReminder \/ WriteLog(Cron)

InvitationStep ==
    \/ \E p \in Web : Browse(p) \/ Continue(p)
    \/ Command
    \/ CommandStep
    \/ \E p \in Process : CrashRequest(p)
    \/ \E r \in Role : DeleteRole(r)

InvitationTick ==
    Tick /\ UNCHANGED <<status, expires, reminded, mails, audit, access, request, bounds>>

InvitationNext == InvitationStep \/ InvitationTick

\* The scheduler starts invitations:expire again and again, and a command that
\* has begun goes on; web requests may stop anywhere.
InvitationFairness ==
    /\ WF_invitationVars(CommandStep)
    /\ WF_invitationVars(StartExpire)

InvitationSpec == InvitationInit /\ [][InvitationNext]_invitationVars /\ InvitationFairness
-----------------------------------------------------------------------------
Accepting(i) ==
    \E p \in Process : request[p] # Idle /\ Inv(p) = i /\ request[p].verb = "accepted"

(***************************************************************************)
(* An invitation marked accepted has given its user all that can be given: *)
(* an account, its company if it names one, and its role or the default    *)
(* one, unless none is offered or a role was deleted.  accept              *)
(* (InvitationService.php:71-134) saves them in separate statements before *)
(* it writes the status, so this must hold wherever the request dies.      *)
(***************************************************************************)
HasRole(i) ==
    MayBeGiven(i) \subseteq standing =>
        \E r \in MayBeGiven(i) : <<To[i], r>> \in roles

HasAccess(i) ==
    /\ To[i] \in active
    /\ HasRole(i)
    /\ For[i] # None => <<To[i], For[i]>> \in members

AcceptedHasAccess ==
    \A i \in Invitation :
        status[i] = "accepted" \/ i \in audit => HasAccess(i)

(***************************************************************************)
(* Nobody is left uninvited: a pending invitation has been mailed, unless  *)
(* the request inserting it is about to, or died first.  A bulk invitation *)
(* is a loop without a transaction.                                        *)
(***************************************************************************)
PendingWasMailed ==
    \A i \in Invitation :
        status[i] = "pending" =>
            \/ i \in mailed
            \/ <<i, "sent">> \in died
            \/ \E p \in Process : At(p, "mail") /\ Inv(p) = i

(***************************************************************************)
(* Every user and every membership can be traced to the invitation that    *)
(* gave it: the audit trail says so, even where revoke or expire has       *)
(* overwritten the status since, or a request is on its way to, or it died.*)
(***************************************************************************)
AccessIsTraceable ==
    /\ \A e \in active :
          \E i \in Invitation :
              To[i] = e /\ (i \in audit \/ Accepting(i) \/ <<i, "accepted">> \in died)
    /\ \A m \in members :
          \E i \in Invitation :
              /\ m = <<To[i], For[i]>>
              /\ i \in audit \/ Accepting(i) \/ <<i, "accepted">> \in died

\* A request goes on with a copy of i loaded while it was pending.
SawPending(i) == \E p \in Process : Holds(p, i) /\ request[p].seen = "pending"

(***************************************************************************)
(* A closed invitation changes no more, but to be revoked, unless by a     *)
(* request that loaded it before it was closed: resend, the commands and   *)
(* the accept page otherwise leave it alone.                               *)
(***************************************************************************)
ClosedStaysClosed ==
    [][\A i \in Invitation :
           status[i] \in Closed /\ ~SawPending(i) => status'[i] \in {status[i], "revoked"}
      ]_invitationVars

(***************************************************************************)
(* A person is reminded of an invitation once (sendReminder's docblock,    *)
(* InvitationService.php:198), unless a run of the command died between    *)
(* the mail and reminded_at.                                               *)
(***************************************************************************)
RemindedOnce ==
    \A i \in Invitation : reminders[i] > 1 => <<i, "reminded">> \in died

(***************************************************************************)
(* No invitation stays pending past its end for ever: expire closes it, or *)
(* a resend extends it.                                                    *)
(***************************************************************************)
OverdueIsClosed == \A i \in Invitation : Overdue(i) ~> ~Overdue(i)
=============================================================================
