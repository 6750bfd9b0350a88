---------------------------- MODULE ScheduledWork ----------------------------
(***************************************************************************)
(* What the scheduler of the consuming application starts (the registration*)
(* in Console/Kernel.php): the invitation commands and the report command, *)
(* under one clock.  They share no row, so the initial states give work to *)
(* one of them at a time: either people invite and answer, or reports are  *)
(* due.                                                                    *)
(***************************************************************************)
EXTENDS Invitations, ScheduledReports

invitationOnly == <<status, expires, reminded, mails, audit, access, request, bounds>>
reportOnly == <<schedule, users, nextRun, waiting, job, told, lost, deaths>>
vars == <<now, invitationOnly, reportOnly>>

NoReports == \A r \in Report : schedule[r] = "failed" /\ recipients[r] = {} /\ notifiable = {}
SomeReports == \A r \in Report : schedule[r] = "active"
NoInvitations == mailed = {} /\ requests = MaxRequests /\ standing = {}
SomeInvitations == mailed # {} /\ requests = 0 /\ standing = Role

Init ==
    /\ InvitationInit
    /\ ReportInit
    /\ (NoReports /\ SomeInvitations) \/ (SomeReports /\ NoInvitations)

Next ==
    \/ Tick /\ UNCHANGED <<invitationOnly, reportOnly>>
    \/ InvitationStep /\ UNCHANGED reportOnly
    \/ ReportStep /\ UNCHANGED invitationOnly

Spec == Init /\ [][Next]_vars /\ InvitationFairness /\ ReportFairness
=============================================================================
