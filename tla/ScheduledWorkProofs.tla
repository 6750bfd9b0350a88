------------------------- MODULE ScheduledWorkProofs -------------------------
(***************************************************************************)
(* What the scheduler starts, for every number of invitations, reports,    *)
(* processes, requests and faults.                                         *)
(*                                                                         *)
(* Of the invitations: type correctness, that an accepted one has given    *)
(* all the access it promised, that all access can be traced to one, that  *)
(* pending ones were mailed, that nobody is reminded twice by a command    *)
(* that does not die, and that a closed one stays closed but for requests  *)
(* that saw it pending.  Of the scheduled reports: type correctness and,   *)
(* with one queue worker, that nobody is told twice and that a run means   *)
(* all were told.  Last, that under one clock both keep what they promise. *)
(***************************************************************************)
EXTENDS ScheduledWork, TLAPS

PhasesOf == [sent     |-> {"insert", "mail", "log"},
             accepted |-> {"lapse", "user", "role", "company", "accept", "log"},
             resend   |-> {"resend", "mail", "log"},
             revoked  |-> {"revoke", "log"},
             expired  |-> {"expire", "log"},
             reminded |-> {"remind", "stamp", "log"}]

\* The phases in which an acceptance has saved its user
Granting == {"role", "company", "accept", "log"}

Record == [pc : Phase, todo : SUBSET Invitation, inv : Invitation, seen : Status, verb : Verb]
Serving(p) == request[p] # Idle
PhaseOf(p) == request[p].pc
VerbOf(p) == request[p].verb
Todo(p) == request[p].todo
SeenBy(p) == request[p].seen

\* A request is where its handler can be, treats no invitation twice, and only
\* the loops have more than one.
SteeredAt(p) ==
    Serving(p) =>
        /\ PhaseOf(p) \in PhasesOf[VerbOf(p)]
        /\ Inv(p) \notin Todo(p)
        /\ VerbOf(p) \in {"accepted", "resend", "revoked"} => Todo(p) = {}
        /\ p # Cron => VerbOf(p) \notin {"expired", "reminded"}

Steered == \A p \in Process : SteeredAt(p)

\* An acceptance has given what the steps before gave.
GrantedAt(p) ==
    Serving(p) =>
        /\ PhaseOf(p) \in {"role", "company", "accept"} => To[Inv(p)] \in active
        /\ PhaseOf(p) \in {"company", "accept"} => HasRole(Inv(p))
        /\ PhaseOf(p) = "accept" => HasAccess(Inv(p))
        /\ PhaseOf(p) = "log" /\ VerbOf(p) = "accepted" => HasAccess(Inv(p))

Granted == \A p \in Process : GrantedAt(p)

\* A request that has saved its user, and what leaves a trace of that user
Granter(p, i) ==
    /\ Serving(p)
    /\ Inv(p) = i
    /\ VerbOf(p) = "accepted"
    /\ PhaseOf(p) \in Granting

Traceable(i) ==
    \/ i \in audit
    \/ <<i, "accepted">> \in died
    \/ \E p \in Process : Granter(p, i)

Traced ==
    /\ \A e \in active : \E i \in Invitation : To[i] = e /\ Traceable(i)
    /\ \A m \in members : \E i \in Invitation : m = <<To[i], For[i]>> /\ Traceable(i)

\* The mail of a bulk invitation is the next thing its request does.
Mailing(p, i) ==
    /\ Serving(p)
    /\ PhaseOf(p) = "mail"
    /\ VerbOf(p) = "sent"
    /\ Inv(p) = i

MailFollows ==
    \A i \in Invitation :
        status[i] = "pending" =>
            i \in mailed \/ <<i, "sent">> \in died \/ \E p \in Process : Mailing(p, i)

Unreminded(i) == reminders[i] = 0 \/ <<i, "reminded">> \in died

\* A reminder is stamped right after it is mailed, and those in the command's
\* list have had none.
StampFollows ==
    /\ \A i \in Invitation :
          \/ Unreminded(i)
          \/ i \in reminded /\ reminders[i] = 1
          \/ /\ Serving(Cron) /\ PhaseOf(Cron) = "stamp" /\ Inv(Cron) = i
             /\ reminders[i] = 1
    /\ Serving(Cron) /\ VerbOf(Cron) = "reminded" =>
          /\ PhaseOf(Cron) = "remind" => Unreminded(Inv(Cron))
          /\ \A i \in Todo(Cron) : Unreminded(i)

IInv ==
    /\ InvitationTypeOK
    /\ Steered
    /\ Granted
    /\ AcceptedHasAccess
    /\ Traced
    /\ MailFollows
    /\ StampFollows

-----------------------------------------------------------------------------
(* What the steps of a request do to it. *)

LEMMA Typed ==
    ASSUME InvitationTypeOK, NEW p \in Process, Serving(p)
    PROVE  /\ request[p] \in Record
           /\ Inv(p) \in Invitation /\ Todo(p) \subseteq Invitation
           /\ PhaseOf(p) \in Phase /\ VerbOf(p) \in Verb
BY DEF InvitationTypeOK, Serving, Request, Record, Inv, Todo, PhaseOf, VerbOf

LEMMA AtServes ==
    ASSUME NEW p \in Process, NEW pc \in Phase, At(p, pc)
    PROVE  Serving(p) /\ PhaseOf(p) = pc
BY DEF At, Serving, PhaseOf, Idle, Phase

Elsewhere(p) == \A q \in Process \ {p} : request'[q] = request[q]

LEMMA GoToEffect ==
    ASSUME InvitationTypeOK, NEW p \in Process, Serving(p), NEW pc \in Phase, GoTo(p, pc)
    PROVE  /\ request' \in [Process -> Request]
           /\ Serving(p)' /\ PhaseOf(p)' = pc
           /\ VerbOf(p)' = VerbOf(p) /\ Inv(p)' = Inv(p) /\ Todo(p)' = Todo(p)
           /\ SeenBy(p)' = SeenBy(p)
           /\ Elsewhere(p)
<1>1. request[p] \in Record /\ request \in [Process -> Request]
  BY Typed DEF InvitationTypeOK
<1>2. [request[p] EXCEPT !.pc = pc] \in Record
  BY <1>1 DEF Record
<1>3. request' = [request EXCEPT ![p] = [request[p] EXCEPT !.pc = pc]]
  BY <1>1 DEF GoTo
<1>4. request'[p] = [request[p] EXCEPT !.pc = pc] /\ Elsewhere(p)
  BY <1>1, <1>3 DEF Elsewhere
<1>5. request' \in [Process -> Request]
  BY <1>1, <1>2, <1>3 DEF Request, Record
<1>6. /\ PhaseOf(p)' = pc /\ VerbOf(p)' = VerbOf(p)
      /\ Inv(p)' = Inv(p) /\ Todo(p)' = Todo(p) /\ SeenBy(p)' = SeenBy(p)
  BY <1>1, <1>4 DEF PhaseOf, VerbOf, Inv, Todo, SeenBy, Record
<1>7. Serving(p)'
  BY <1>6 DEF Serving, PhaseOf, Idle, Phase
<1> QED BY <1>4, <1>5, <1>6, <1>7

LEMMA EndEffect ==
    ASSUME InvitationTypeOK, NEW p \in Process, End(p)
    PROVE  request' \in [Process -> Request] /\ ~Serving(p)' /\ Elsewhere(p)
BY DEF InvitationTypeOK, End, Serving, Elsewhere, Request

LEMMA ServeEffect ==
    ASSUME InvitationTypeOK, NEW p \in Process, NEW pc \in Phase,
           NEW todo \in SUBSET Invitation, NEW i \in Invitation, NEW verb \in Verb,
           Serve(p, pc, todo, i, verb)
    PROVE  /\ request' \in [Process -> Request]
           /\ Serving(p)' /\ PhaseOf(p)' = pc
           /\ VerbOf(p)' = verb /\ Inv(p)' = i /\ Todo(p)' = todo
           /\ SeenBy(p)' = status[i]
           /\ Elsewhere(p)
<1> DEFINE r == [pc |-> pc, todo |-> todo, inv |-> i, seen |-> status[i], verb |-> verb]
<1>1. request' = [request EXCEPT ![p] = r] /\ request \in [Process -> Request]
  BY DEF Serve, InvitationTypeOK
<1>2. r \in Record
  BY DEF Record, InvitationTypeOK
<1>3. request'[p] = r /\ Elsewhere(p) /\ request' \in [Process -> Request]
  BY <1>1, <1>2 DEF Elsewhere, Request, Record
<1>4. /\ PhaseOf(p)' = pc /\ VerbOf(p)' = verb /\ Inv(p)' = i /\ Todo(p)' = todo
      /\ SeenBy(p)' = status[i]
  BY <1>3 DEF PhaseOf, VerbOf, Inv, Todo, SeenBy
<1>5. Serving(p)'
  BY <1>4 DEF Serving, PhaseOf, Idle, Phase
<1> QED BY <1>3, <1>4, <1>5

\* Access is never taken back, but for a role that is deleted.
AccessGrows ==
    /\ active \subseteq active'
    /\ members \subseteq members'
    /\ standing' \subseteq standing
    /\ \A g \in roles : g[2] \in standing' => g \in roles'

(***************************************************************************)
(* What a step of process p must show for the invariant to survive it.     *)
(***************************************************************************)
Grows ==
    /\ AccessGrows
    /\ audit \subseteq audit'
    /\ died \subseteq died'
    /\ mailed \subseteq mailed'

Progress(p) ==
    /\ Elsewhere(p)
    /\ Grows
    /\ SteeredAt(p)'
    /\ GrantedAt(p)'
    /\ \A i \in Invitation :
          /\ status'[i] = "accepted" => status[i] = "accepted" \/ HasAccess(i)'
          /\ i \in audit' => i \in audit \/ HasAccess(i)'
          /\ Granter(p, i) => i \in audit' \/ <<i, "accepted">> \in died' \/ Granter(p, i)'
          /\ status'[i] = "pending" => status[i] = "pending" \/ i \in mailed' \/ Mailing(p, i)'
          /\ Mailing(p, i) => i \in mailed' \/ <<i, "sent">> \in died' \/ Mailing(p, i)'
    /\ \A e \in active' \ active : \E i \in Invitation : To[i] = e /\ Granter(p, i)'
    /\ \A m \in members' \ members :
          \E i \in Invitation : m = <<To[i], For[i]>> /\ Granter(p, i)'

LEMMA ElsewhereEffect ==
    ASSUME NEW p, Elsewhere(p), NEW q \in Process \ {p}
    PROVE  /\ Serving(q)' <=> Serving(q)
           /\ PhaseOf(q)' = PhaseOf(q) /\ VerbOf(q)' = VerbOf(q)
           /\ Inv(q)' = Inv(q) /\ Todo(q)' = Todo(q) /\ SeenBy(q)' = SeenBy(q)
BY DEF Elsewhere, Serving, PhaseOf, VerbOf, Inv, Todo, SeenBy

LEMMA RoleKept ==
    ASSUME AccessGrows, NEW i, HasRole(i)
    PROVE  HasRole(i)'
<1> SUFFICES ASSUME MayBeGiven(i) \subseteq standing'
             PROVE  \E r \in MayBeGiven(i) : <<To[i], r>> \in roles'
  BY DEF HasRole, MayBeGiven
<1>1. PICK r \in MayBeGiven(i) : <<To[i], r>> \in roles
  BY DEF HasRole, AccessGrows
<1> QED BY <1>1 DEF AccessGrows

LEMMA AccessKept ==
    ASSUME AccessGrows, NEW i, HasAccess(i)
    PROVE  HasAccess(i)'
BY RoleKept DEF AccessGrows, HasAccess

\* A trace stays: the request that is one goes on, or leaves one behind.
LEMMA TraceKept ==
    ASSUME NEW p \in Process, Progress(p), NEW i \in Invitation, Traceable(i)
    PROVE  Traceable(i)'
<1>1. CASE i \in audit \/ <<i, "accepted">> \in died
  BY <1>1 DEF Traceable, Progress, Grows
<1>2. CASE Granter(p, i)
  BY <1>2 DEF Traceable, Progress
<1>3. ASSUME NEW q \in Process \ {p}, Granter(q, i)
      PROVE  Granter(q, i)'
  BY <1>3, ElsewhereEffect DEF Granter, Progress
<1> QED BY <1>1, <1>2, <1>3 DEF Traceable

LEMMA ProgressKeeps ==
    ASSUME IInv, NEW p \in Process, Progress(p)
    PROVE  Steered' /\ Granted' /\ AcceptedHasAccess' /\ Traced' /\ MailFollows'
<1>1. \A q \in Process \ {p} :
         /\ Serving(q)' <=> Serving(q)
         /\ PhaseOf(q)' = PhaseOf(q) /\ VerbOf(q)' = VerbOf(q)
         /\ Inv(q)' = Inv(q) /\ Todo(q)' = Todo(q)
  BY ElsewhereEffect DEF Progress
<1>2. \A i : HasAccess(i) => HasAccess(i)'
  BY AccessKept DEF Progress, Grows
<1>3. Steered'
  <2>1. ASSUME NEW q \in Process \ {p} PROVE SteeredAt(q)'
    BY <1>1 DEF IInv, Steered, SteeredAt
  <2> QED BY <2>1 DEF Steered, Progress
<1>4. Granted'
  <2>1. ASSUME NEW q \in Process \ {p} PROVE GrantedAt(q)'
    <3>1. \A i : HasRole(i) => HasRole(i)'
      BY RoleKept DEF Progress, Grows
    <3>2. active \subseteq active'
      BY DEF Progress, Grows, AccessGrows
    <3> QED BY <1>1, <1>2, <3>1, <3>2 DEF IInv, Granted, GrantedAt
  <2> QED BY <2>1 DEF Granted, Progress
<1>5. AcceptedHasAccess'
  <2>1. ASSUME NEW i \in Invitation, status'[i] = "accepted" \/ i \in audit'
        PROVE  HasAccess(i)'
    BY <2>1, <1>2 DEF IInv, AcceptedHasAccess, Progress
  <2> QED BY <2>1 DEF AcceptedHasAccess
<1>6. Traced'
  <2>1. \A i \in Invitation : Traceable(i) => Traceable(i)'
    BY TraceKept
  <2>2. \A i \in Invitation : Granter(p, i)' => Traceable(i)'
    BY DEF Traceable
  <2>3. ASSUME NEW e \in active' PROVE \E i \in Invitation : To[i] = e /\ Traceable(i)'
    BY <2>1, <2>2 DEF IInv, Traced, Progress
  <2>4. ASSUME NEW m \in members'
        PROVE  \E i \in Invitation : m = <<To[i], For[i]>> /\ Traceable(i)'
    BY <2>1, <2>2 DEF IInv, Traced, Progress
  <2> QED BY <2>3, <2>4 DEF Traced
<1>7. MailFollows'
  <2>1. ASSUME NEW i \in Invitation, NEW q \in Process, Mailing(q, i)
        PROVE  i \in mailed' \/ <<i, "sent">> \in died' \/ Mailing(q, i)'
    BY <2>1, <1>1 DEF Mailing, Progress
  <2>2. ASSUME NEW i \in Invitation, status'[i] = "pending"
        PROVE  i \in mailed' \/ <<i, "sent">> \in died' \/ \E q \in Process : Mailing(q, i)'
    BY <2>1, <2>2 DEF IInv, MailFollows, Progress, Grows
  <2> QED BY <2>2 DEF MailFollows
<1> QED BY <1>3, <1>4, <1>5, <1>6, <1>7

\* A step that mails no reminder, unless it ends the command over one.
LEMMA StampKept ==
    ASSUME StampFollows, UNCHANGED <<reminded, reminders>>, died \subseteq died',
           \/ request'[Cron] = request[Cron]
           \/ /\ Serving(Cron) /\ PhaseOf(Cron) = "stamp" =>
                     <<Inv(Cron), "reminded">> \in died'
              /\ ~Serving(Cron)' \/ VerbOf(Cron)' # "reminded"
    PROVE  StampFollows'
<1>1. \A i : Unreminded(i) => Unreminded(i)'
  BY DEF Unreminded
<1>2. CASE request'[Cron] = request[Cron]
  <2>1. /\ Serving(Cron)' <=> Serving(Cron)
        /\ PhaseOf(Cron)' = PhaseOf(Cron) /\ VerbOf(Cron)' = VerbOf(Cron)
        /\ Inv(Cron)' = Inv(Cron) /\ Todo(Cron)' = Todo(Cron)
    BY <1>2 DEF Serving, PhaseOf, VerbOf, Inv, Todo
  <2> QED BY <1>1, <2>1 DEF StampFollows
<1>3. CASE /\ Serving(Cron) /\ PhaseOf(Cron) = "stamp" =>
                  <<Inv(Cron), "reminded">> \in died'
           /\ ~Serving(Cron)' \/ VerbOf(Cron)' # "reminded"
  <2>1. ASSUME NEW i \in Invitation
        PROVE  Unreminded(i)' \/ (i \in reminded' /\ reminders'[i] = 1)
    <3>1. CASE Unreminded(i)
      BY <1>1, <3>1
    <3>2. CASE i \in reminded /\ reminders[i] = 1
      BY <3>2
    <3>3. CASE Serving(Cron) /\ PhaseOf(Cron) = "stamp" /\ Inv(Cron) = i
      <4>1. <<i, "reminded">> \in died'
        BY <1>3, <3>3
      <4> QED BY <4>1 DEF Unreminded
    <3> QED BY <3>1, <3>2, <3>3 DEF StampFollows
  <2> QED BY <1>3, <2>1 DEF StampFollows
<1> QED BY <1>2, <1>3
-----------------------------------------------------------------------------
(* The steps of a request that goes on. *)

LEMMA VerbAt ==
    ASSUME IInv, NEW p \in Process, NEW pc \in Phase, At(p, pc)
    PROVE  /\ Serving(p) /\ PhaseOf(p) = pc
           /\ Inv(p) \in Invitation /\ Todo(p) \subseteq Invitation /\ VerbOf(p) \in Verb
           /\ pc \in PhasesOf[VerbOf(p)]
           /\ pc = "insert" => VerbOf(p) = "sent"
           /\ pc \in {"lapse", "user", "role", "company", "accept"} => VerbOf(p) = "accepted"
           /\ pc = "resend" => VerbOf(p) = "resend"
           /\ pc = "revoke" => VerbOf(p) = "revoked"
           /\ pc = "expire" => VerbOf(p) = "expired"
           /\ pc \in {"remind", "stamp"} => VerbOf(p) = "reminded"
           /\ pc = "mail" => VerbOf(p) \in {"sent", "resend"}
<1>1. Serving(p) /\ PhaseOf(p) = pc
  BY AtServes
<1>2. Inv(p) \in Invitation /\ Todo(p) \subseteq Invitation /\ VerbOf(p) \in Verb
  BY <1>1, Typed DEF IInv
<1>3. pc \in PhasesOf[VerbOf(p)]
  BY <1>1 DEF IInv, Steered, SteeredAt
<1> QED BY <1>1, <1>2, <1>3 DEF PhasesOf, Verb

\* GoTo keeps the request's verb, invitation and list.
LEMMA GoToSteers ==
    ASSUME IInv, NEW p \in Process, NEW pc \in Phase, Serving(p),
           pc \in PhasesOf[VerbOf(p)], GoTo(p, pc)
    PROVE  /\ SteeredAt(p)'
           /\ request' \in [Process -> Request]
           /\ Serving(p)' /\ PhaseOf(p)' = pc
           /\ VerbOf(p)' = VerbOf(p) /\ Inv(p)' = Inv(p) /\ Todo(p)' = Todo(p)
           /\ Elsewhere(p)
<1>1. /\ request' \in [Process -> Request]
      /\ Serving(p)' /\ PhaseOf(p)' = pc
      /\ VerbOf(p)' = VerbOf(p) /\ Inv(p)' = Inv(p) /\ Todo(p)' = Todo(p)
      /\ Elsewhere(p)
  BY GoToEffect DEF IInv
<1>2. SteeredAt(p)'
  BY <1>1 DEF IInv, Steered, SteeredAt
<1> QED BY <1>1, <1>2

LEMMA WebNotCron ==
    ASSUME NEW p \in Web
    PROVE  p \in Process /\ Cron \in Process /\ p # Cron
BY InvitationAssumption DEF Process

\* A step of a web process leaves the reminders command alone.
LEMMA WebStampKept ==
    ASSUME StampFollows, NEW p \in Web, Elsewhere(p), UNCHANGED <<reminded, reminders>>,
           died \subseteq died'
    PROVE  StampFollows'
BY WebNotCron, StampKept DEF Elsewhere

LEMMA InsertKeeps ==
    ASSUME IInv, NEW p \in Web, InsertInvitation(p)
    PROVE  IInv'
<1> USE WebNotCron
<1>1. At(p, "insert") /\ GoTo(p, "mail") /\ "mail" \in Phase /\ "insert" \in Phase
  BY DEF InsertInvitation, Phase
<1>2. /\ Serving(p) /\ PhaseOf(p) = "insert" /\ VerbOf(p) = "sent" /\ Inv(p) \in Invitation
  BY <1>1, VerbAt
<1>3. "mail" \in PhasesOf[VerbOf(p)]
  BY <1>2 DEF PhasesOf
<1>4. /\ SteeredAt(p)'
      /\ request' \in [Process -> Request]
      /\ Serving(p)' /\ PhaseOf(p)' = "mail" /\ VerbOf(p)' = "sent" /\ Inv(p)' = Inv(p)
      /\ Elsewhere(p)
  BY <1>1, <1>2, <1>3, GoToSteers
<1>5. InvitationTypeOK'
  BY <1>2, <1>4, InvitationAssumption
  DEF IInv, InvitationTypeOK, InsertInvitation, mails, access, bounds, Status
<1>6. Progress(p)
  <2>1. Grows
    BY DEF InsertInvitation, mails, access, bounds, Grows, AccessGrows
  <2>2. GrantedAt(p)'
    BY <1>4 DEF GrantedAt
  <2>3. \A i \in Invitation : status'[i] = status[i] \/ (i = Inv(p) /\ status'[i] = "pending")
    BY <1>2 DEF InsertInvitation, IInv, InvitationTypeOK
  <2>4. Mailing(p, Inv(p))'
    BY <1>4 DEF Mailing
  <2> QED BY <1>2, <1>4, <2>1, <2>2, <2>3, <2>4
          DEF Progress, InsertInvitation, access, bounds, mails, Granter, Mailing
<1>7. StampFollows'
  BY <1>4, WebStampKept DEF IInv, InsertInvitation, bounds, mails
<1> QED BY <1>5, <1>6, <1>7, ProgressKeeps DEF IInv

LEMMA MailKeeps ==
    ASSUME IInv, NEW p \in Web, SendMail(p)
    PROVE  IInv'
<1> USE WebNotCron
<1>1. At(p, "mail") /\ GoTo(p, "log") /\ "mail" \in Phase /\ "log" \in Phase
  BY DEF SendMail, Phase
<1>2. /\ Serving(p) /\ PhaseOf(p) = "mail" /\ VerbOf(p) \in {"sent", "resend"}
      /\ Inv(p) \in Invitation
  BY <1>1, VerbAt
<1>3. "log" \in PhasesOf[VerbOf(p)]
  BY <1>2 DEF PhasesOf
<1>4. /\ SteeredAt(p)'
      /\ request' \in [Process -> Request]
      /\ Serving(p)' /\ PhaseOf(p)' = "log" /\ VerbOf(p)' = VerbOf(p) /\ Inv(p)' = Inv(p)
      /\ Elsewhere(p)
  BY <1>1, <1>2, <1>3, GoToSteers
<1>5. InvitationTypeOK'
  BY <1>2, <1>4 DEF IInv, InvitationTypeOK, SendMail, access, bounds
<1>6. Progress(p)
  <2>1. Grows
    BY DEF SendMail, access, bounds, Grows, AccessGrows
  <2>2. GrantedAt(p)'
    BY <1>2, <1>4 DEF GrantedAt
  <2> QED BY <1>2, <1>4, <2>1, <2>2 DEF Progress, SendMail, access, bounds, Granter, Mailing
<1>7. StampFollows'
  BY <1>4, WebStampKept DEF IInv, SendMail, bounds
<1> QED BY <1>5, <1>6, <1>7, ProgressKeeps DEF IInv

LEMMA UserKeeps ==
    ASSUME IInv, NEW p \in Web, SaveUser(p)
    PROVE  IInv'
<1> USE WebNotCron
<1>1. At(p, "user") /\ GoTo(p, "role") /\ "user" \in Phase /\ "role" \in Phase
  BY DEF SaveUser, Phase
<1>2. Serving(p) /\ PhaseOf(p) = "user" /\ VerbOf(p) = "accepted" /\ Inv(p) \in Invitation
  BY <1>1, VerbAt
<1>3. "role" \in PhasesOf[VerbOf(p)]
  BY <1>2 DEF PhasesOf
<1>4. /\ SteeredAt(p)'
      /\ request' \in [Process -> Request]
      /\ Serving(p)' /\ PhaseOf(p)' = "role" /\ VerbOf(p)' = "accepted"
      /\ Inv(p)' = Inv(p) /\ Todo(p)' = Todo(p)
      /\ Elsewhere(p)
  BY <1>1, <1>2, <1>3, GoToSteers
<1>5. InvitationTypeOK'
  BY <1>2, <1>4, InvitationAssumption
  DEF IInv, InvitationTypeOK, SaveUser, mails, bounds
<1>6. Progress(p)
  <2>1. Grows
    BY DEF SaveUser, mails, bounds, Grows, AccessGrows
  <2>2. GrantedAt(p)'
    BY <1>2, <1>4, <2>1 DEF IInv, Granted, GrantedAt, HasAccess, SaveUser
  <2>3. Granter(p, Inv(p))'
    BY <1>2, <1>4 DEF Granter, Granting
  <2>4. \A i \in Invitation : Granter(p, i) => Granter(p, i)'
    BY <1>4, <2>3 DEF Granter
  <2> QED BY <1>2, <1>4, <2>1, <2>2, <2>3, <2>4 DEF Progress, SaveUser, mails, bounds, Mailing
<1>7. StampFollows'
  BY <1>4, WebStampKept DEF IInv, SaveUser, bounds, mails
<1> QED BY <1>5, <1>6, <1>7, ProgressKeeps DEF IInv

LEMMA RoleKeeps ==
    ASSUME IInv, NEW p \in Web, AssignRole(p)
    PROVE  IInv'
<1> USE WebNotCron
<1>1. At(p, "role") /\ GoTo(p, "company") /\ "role" \in Phase /\ "company" \in Phase
  BY DEF AssignRole, Phase
<1>2. Serving(p) /\ PhaseOf(p) = "role" /\ VerbOf(p) = "accepted" /\ Inv(p) \in Invitation
  BY <1>1, VerbAt
<1>3. "company" \in PhasesOf[VerbOf(p)]
  BY <1>2 DEF PhasesOf
<1>4. /\ SteeredAt(p)'
      /\ request' \in [Process -> Request]
      /\ Serving(p)' /\ PhaseOf(p)' = "company" /\ VerbOf(p)' = "accepted"
      /\ Inv(p)' = Inv(p) /\ Todo(p)' = Todo(p)
      /\ Elsewhere(p)
  BY <1>1, <1>2, <1>3, GoToSteers
<1>5. HasRole(Inv(p))' /\ roles \subseteq roles' /\ roles' \subseteq Email \X Role
  <2> DEFINE i == Inv(p)
  <2>1. standing' = standing /\ standing \subseteq Role /\ roles \subseteq Email \X Role
    BY DEF AssignRole, IInv, InvitationTypeOK
  <2>2. GiveRole(i) /\ i \in Invitation /\ Inv(p)' = i
    BY <1>2, <1>4 DEF AssignRole
  <2> HIDE DEF i
  <2>3. CASE Offer[i] \in standing
    <3>1. PICK r \in MayBeGiven(i) \cap standing : roles' = roles \cup {<<To[i], r>>}
      BY <2>2, <2>3 DEF GiveRole
    <3> QED BY <2>1, <2>2, <3>1, InvitationAssumption DEF HasRole, MayBeGiven
  <2>4. CASE Offer[i] \notin standing
    BY <2>1, <2>2, <2>4 DEF GiveRole, HasRole, MayBeGiven
  <2> QED BY <2>3, <2>4
<1>9. InvitationTypeOK'
  BY <1>2, <1>4, <1>5, InvitationAssumption
  DEF IInv, InvitationTypeOK, AssignRole, mails, bounds
<1>6. Progress(p)
  <2>1. Grows
    BY <1>5 DEF AssignRole, mails, bounds, Grows, AccessGrows
  <2>2. GrantedAt(p)'
    BY <1>2, <1>4, <1>5, <2>1 DEF IInv, Granted, GrantedAt, AssignRole
  <2>3. Granter(p, Inv(p))'
    BY <1>2, <1>4 DEF Granter, Granting
  <2>4. \A i \in Invitation : Granter(p, i) => Granter(p, i)'
    BY <1>4, <2>3 DEF Granter
  <2> QED BY <1>2, <1>4, <2>1, <2>2, <2>3, <2>4 DEF Progress, AssignRole, mails, bounds, Mailing
<1>7. StampFollows'
  BY <1>4, WebStampKept DEF IInv, AssignRole, bounds, mails
<1> QED BY <1>9, <1>6, <1>7, ProgressKeeps DEF IInv

LEMMA CompanyKeeps ==
    ASSUME IInv, NEW p \in Web, AssignCompany(p)
    PROVE  IInv'
<1> USE WebNotCron
<1>1. At(p, "company") /\ GoTo(p, "accept") /\ "company" \in Phase /\ "accept" \in Phase
  BY DEF AssignCompany, Phase
<1>2. Serving(p) /\ PhaseOf(p) = "company" /\ VerbOf(p) = "accepted" /\ Inv(p) \in Invitation
  BY <1>1, VerbAt
<1>3. "accept" \in PhasesOf[VerbOf(p)]
  BY <1>2 DEF PhasesOf
<1>4. /\ SteeredAt(p)'
      /\ request' \in [Process -> Request]
      /\ Serving(p)' /\ PhaseOf(p)' = "accept" /\ VerbOf(p)' = "accepted"
      /\ Inv(p)' = Inv(p) /\ Todo(p)' = Todo(p)
      /\ Elsewhere(p)
  BY <1>1, <1>2, <1>3, GoToSteers
<1>5. InvitationTypeOK'
  BY <1>2, <1>4, InvitationAssumption
  DEF IInv, InvitationTypeOK, AssignCompany, mails, bounds
<1>6. Progress(p)
  <2>1. Grows
    BY DEF AssignCompany, mails, bounds, Grows, AccessGrows
  <2>2. GrantedAt(p)'
    <3>1. HasRole(Inv(p))'
      BY <1>2, <1>4, RoleKept DEF IInv, Granted, GrantedAt, AssignCompany, HasRole, MayBeGiven
    <3>2. To[Inv(p)] \in active /\ active' = active
      BY <1>2 DEF IInv, Granted, GrantedAt, AssignCompany
    <3>3. For[Inv(p)] # None => <<To[Inv(p)], For[Inv(p)]>> \in members'
      BY DEF AssignCompany
    <3> QED BY <1>4, <3>1, <3>2, <3>3 DEF GrantedAt, HasAccess
  <2>3. Granter(p, Inv(p))'
    BY <1>2, <1>4 DEF Granter, Granting
  <2>4. \A i \in Invitation : Granter(p, i) => Granter(p, i)'
    BY <1>4, <2>3 DEF Granter
  <2> QED BY <1>2, <1>4, <2>1, <2>2, <2>3, <2>4 DEF Progress, AssignCompany, mails, bounds, Mailing
<1>7. StampFollows'
  BY <1>4, WebStampKept DEF IInv, AssignCompany, bounds, mails
<1> QED BY <1>5, <1>6, <1>7, ProgressKeeps DEF IInv

LEMMA AcceptKeeps ==
    ASSUME IInv, NEW p \in Web, MarkAccepted(p)
    PROVE  IInv'
<1> USE WebNotCron
<1>1. At(p, "accept") /\ GoTo(p, "log") /\ "accept" \in Phase /\ "log" \in Phase
  BY DEF MarkAccepted, Phase
<1>2. Serving(p) /\ PhaseOf(p) = "accept" /\ VerbOf(p) = "accepted" /\ Inv(p) \in Invitation
  BY <1>1, VerbAt
<1>3. "log" \in PhasesOf[VerbOf(p)]
  BY <1>2 DEF PhasesOf
<1>4. /\ SteeredAt(p)'
      /\ request' \in [Process -> Request]
      /\ Serving(p)' /\ PhaseOf(p)' = "log" /\ VerbOf(p)' = "accepted"
      /\ Inv(p)' = Inv(p) /\ Todo(p)' = Todo(p)
      /\ Elsewhere(p)
  BY <1>1, <1>2, <1>3, GoToSteers
<1>5. InvitationTypeOK'
  BY <1>2, <1>4 DEF IInv, InvitationTypeOK, MarkAccepted, mails, access, bounds, Status, Closed
<1>6. Progress(p)
  <2>1. Grows
    BY DEF MarkAccepted, mails, access, bounds, Grows, AccessGrows
  <2>2. HasAccess(Inv(p))
    BY <1>2 DEF IInv, Granted, GrantedAt
  <2>3. HasAccess(Inv(p))'
    BY <1>4, <2>2 DEF HasAccess, HasRole, MayBeGiven, MarkAccepted, access
  <2>4. GrantedAt(p)'
    BY <1>4, <2>3 DEF GrantedAt
  <2>5. \A i \in Invitation : Granter(p, i) => Granter(p, i)'
    BY <1>4 DEF Granter, Granting
  <2>6. \A i \in Invitation : status'[i] = status[i] \/ (i = Inv(p) /\ status'[i] = "accepted")
    BY <1>2 DEF MarkAccepted, IInv, InvitationTypeOK
  <2>7. \A i \in Invitation : status'[i] = "accepted" => status[i] = "accepted" \/ HasAccess(i)'
    BY <1>4, <2>3, <2>6 DEF HasAccess
  <2> QED BY <1>2, <1>4, <2>1, <2>4, <2>5, <2>6, <2>7
          DEF Progress, MarkAccepted, mails, access, bounds, Mailing
<1>7. StampFollows'
  BY <1>4, WebStampKept DEF IInv, MarkAccepted, bounds, mails
<1> QED BY <1>5, <1>6, <1>7, ProgressKeeps DEF IInv

LEMMA ResendKeeps ==
    ASSUME IInv, NEW p \in Web, Resend(p)
    PROVE  IInv'
<1> USE WebNotCron
<1>1. At(p, "resend") /\ GoTo(p, "mail") /\ "resend" \in Phase /\ "mail" \in Phase
  BY DEF Resend, Phase
<1>2. Serving(p) /\ PhaseOf(p) = "resend" /\ VerbOf(p) = "resend" /\ Inv(p) \in Invitation
  BY <1>1, VerbAt
<1>3. "mail" \in PhasesOf[VerbOf(p)]
  BY <1>2 DEF PhasesOf
<1>4. /\ SteeredAt(p)'
      /\ request' \in [Process -> Request]
      /\ Serving(p)' /\ PhaseOf(p)' = "mail" /\ VerbOf(p)' = "resend"
      /\ Inv(p)' = Inv(p) /\ Todo(p)' = Todo(p)
      /\ Elsewhere(p)
  BY <1>1, <1>2, <1>3, GoToSteers
<1>5. InvitationTypeOK'
  BY <1>2, <1>4, InvitationAssumption
  DEF IInv, InvitationTypeOK, Resend, mails, access, bounds, Status, Closed
<1>6. Progress(p)
  <2>1. Grows
    BY DEF Resend, mails, access, bounds, Grows, AccessGrows
  <2>2. GrantedAt(p)'
    BY <1>4 DEF GrantedAt
  <2>3. \A i \in Invitation : status'[i] \in {status[i], "revoked"}
    BY <1>2 DEF Resend, IInv, InvitationTypeOK
  <2> QED BY <1>2, <1>4, <2>1, <2>2, <2>3
          DEF Progress, Resend, mails, access, bounds, Mailing, Granter
<1>7. StampFollows'
  BY <1>4, WebStampKept DEF IInv, Resend, bounds, mails
<1> QED BY <1>5, <1>6, <1>7, ProgressKeeps DEF IInv

LEMMA RevokeKeeps ==
    ASSUME IInv, NEW p \in Web, Revoke(p)
    PROVE  IInv'
<1> USE WebNotCron
<1>1. At(p, "revoke") /\ GoTo(p, "log") /\ "revoke" \in Phase /\ "log" \in Phase
  BY DEF Revoke, Phase
<1>2. Serving(p) /\ PhaseOf(p) = "revoke" /\ VerbOf(p) = "revoked" /\ Inv(p) \in Invitation
  BY <1>1, VerbAt
<1>3. "log" \in PhasesOf[VerbOf(p)]
  BY <1>2 DEF PhasesOf
<1>4. /\ SteeredAt(p)'
      /\ request' \in [Process -> Request]
      /\ Serving(p)' /\ PhaseOf(p)' = "log" /\ VerbOf(p)' = "revoked"
      /\ Inv(p)' = Inv(p) /\ Todo(p)' = Todo(p)
      /\ Elsewhere(p)
  BY <1>1, <1>2, <1>3, GoToSteers
<1>5. InvitationTypeOK'
  BY <1>2, <1>4, InvitationAssumption
  DEF IInv, InvitationTypeOK, Revoke, mails, access, bounds, Status, Closed
<1>6. Progress(p)
  <2>1. Grows
    BY DEF Revoke, mails, access, bounds, Grows, AccessGrows
  <2>2. GrantedAt(p)'
    BY <1>4 DEF GrantedAt
  <2>3. \A i \in Invitation : status'[i] \in {status[i], "revoked"}
    BY <1>2 DEF Revoke, IInv, InvitationTypeOK
  <2> QED BY <1>2, <1>4, <2>1, <2>2, <2>3
          DEF Progress, Revoke, mails, access, bounds, Mailing, Granter
<1>7. StampFollows'
  BY <1>4, WebStampKept DEF IInv, Revoke, bounds, mails
<1> QED BY <1>5, <1>6, <1>7, ProgressKeeps DEF IInv

LEMMA LapseKeeps ==
    ASSUME IInv, NEW p \in Web, Lapse(p)
    PROVE  IInv'
<1> USE WebNotCron
<1>1. At(p, "lapse") /\ End(p) /\ "lapse" \in Phase
  BY DEF Lapse, Phase
<1>2. Serving(p) /\ PhaseOf(p) = "lapse" /\ VerbOf(p) = "accepted" /\ Inv(p) \in Invitation
  BY <1>1, VerbAt
<1>3. request' \in [Process -> Request] /\ ~Serving(p)' /\ Elsewhere(p)
  BY <1>1, EndEffect DEF IInv
<1>4. InvitationTypeOK'
  BY <1>2, <1>3 DEF IInv, InvitationTypeOK, Lapse, mails, access, bounds, Status, Closed
<1>5. Progress(p)
  <2>1. Grows
    BY DEF Lapse, mails, access, bounds, Grows, AccessGrows
  <2>2. \A i \in Invitation : status'[i] \in {status[i], "expired"}
    BY <1>2 DEF Lapse, IInv, InvitationTypeOK
  <2> QED BY <1>2, <1>3, <2>1, <2>2
          DEF Progress, Lapse, mails, access, bounds, Mailing, Granter, Granting,
              SteeredAt, GrantedAt
<1>6. StampFollows'
  BY <1>3, WebStampKept DEF IInv, Lapse, bounds, mails
<1> QED BY <1>4, <1>5, <1>6, ProgressKeeps DEF IInv

-----------------------------------------------------------------------------
(* The commands' steps, the end of a loop, and death. *)

LEMMA CronIsProcess == Cron \in Process
BY DEF Process

LEMMA ExpireKeeps ==
    ASSUME IInv, Expire
    PROVE  IInv'
<1> USE CronIsProcess
<1>1. At(Cron, "expire") /\ GoTo(Cron, "log") /\ "expire" \in Phase /\ "log" \in Phase
  BY DEF Expire, Phase
<1>2. Serving(Cron) /\ PhaseOf(Cron) = "expire" /\ VerbOf(Cron) = "expired" /\ Inv(Cron) \in Invitation
  BY <1>1, VerbAt
<1>3. "log" \in PhasesOf[VerbOf(Cron)]
  BY <1>2 DEF PhasesOf
<1>4. /\ SteeredAt(Cron)'
      /\ request' \in [Process -> Request]
      /\ Serving(Cron)' /\ PhaseOf(Cron)' = "log" /\ VerbOf(Cron)' = "expired"
      /\ Inv(Cron)' = Inv(Cron) /\ Todo(Cron)' = Todo(Cron)
      /\ Elsewhere(Cron)
  BY <1>1, <1>2, <1>3, GoToSteers
<1>5. InvitationTypeOK'
  BY <1>2, <1>4 DEF IInv, InvitationTypeOK, Expire, mails, access, bounds, Status, Closed
<1>6. Progress(Cron)
  <2>1. Grows
    BY DEF Expire, mails, access, bounds, Grows, AccessGrows
  <2>2. GrantedAt(Cron)'
    BY <1>4 DEF GrantedAt
  <2>3. \A i \in Invitation : status'[i] \in {status[i], "expired"}
    BY <1>2 DEF Expire, IInv, InvitationTypeOK
  <2> QED BY <1>2, <1>4, <2>1, <2>2, <2>3
          DEF Progress, Expire, mails, access, bounds, Mailing, Granter
<1>7. StampFollows'
  BY <1>2, <1>4, StampKept DEF IInv, Expire, bounds, mails
<1> QED BY <1>5, <1>6, <1>7, ProgressKeeps DEF IInv

LEMMA ReminderKeeps ==
    ASSUME IInv, SendReminder
    PROVE  IInv'
<1> USE CronIsProcess
<1>1. At(Cron, "remind") /\ GoTo(Cron, "stamp") /\ "remind" \in Phase /\ "stamp" \in Phase
  BY DEF SendReminder, Phase
<1>2. Serving(Cron) /\ PhaseOf(Cron) = "remind" /\ VerbOf(Cron) = "reminded" /\ Inv(Cron) \in Invitation
  BY <1>1, VerbAt
<1>3. "stamp" \in PhasesOf[VerbOf(Cron)]
  BY <1>2 DEF PhasesOf
<1>4. /\ SteeredAt(Cron)'
      /\ request' \in [Process -> Request]
      /\ Serving(Cron)' /\ PhaseOf(Cron)' = "stamp" /\ VerbOf(Cron)' = "reminded"
      /\ Inv(Cron)' = Inv(Cron) /\ Todo(Cron)' = Todo(Cron)
      /\ Elsewhere(Cron)
  BY <1>1, <1>2, <1>3, GoToSteers
<1>5. InvitationTypeOK'
  BY <1>2, <1>4 DEF IInv, InvitationTypeOK, SendReminder, access, bounds
<1>6. Progress(Cron)
  <2>1. Grows
    BY DEF SendReminder, access, bounds, Grows, AccessGrows
  <2>2. GrantedAt(Cron)'
    BY <1>4 DEF GrantedAt
  <2> QED BY <1>2, <1>4, <2>1, <2>2 DEF Progress, SendReminder, access, bounds, Mailing, Granter
<1>7. StampFollows'
  <2>1. Unreminded(Inv(Cron)) /\ \A i \in Todo(Cron) : Unreminded(i)
    BY <1>2 DEF IInv, StampFollows
  <2>2. /\ reminders'[Inv(Cron)] = reminders[Inv(Cron)] + 1
        /\ \A i \in Invitation \ {Inv(Cron)} : reminders'[i] = reminders[i]
    BY <1>2 DEF SendReminder, IInv, InvitationTypeOK
  <2>3. reminded' = reminded /\ died' = died
    BY DEF SendReminder, bounds
  <2>4. \A i \in Todo(Cron) : i \in Invitation \ {Inv(Cron)}
    BY <1>2, Typed DEF IInv, Steered, SteeredAt
  <2>5. \A i \in Invitation \ {Inv(Cron)} : Unreminded(i) => Unreminded(i)'
    BY <2>2, <2>3 DEF Unreminded
  <2>6. ASSUME NEW i \in Invitation \ {Inv(Cron)}
        PROVE  Unreminded(i)' \/ (i \in reminded' /\ reminders'[i] = 1)
    BY <1>2, <2>2, <2>3, <2>5 DEF IInv, StampFollows
  <2>7. Unreminded(Inv(Cron))' \/ reminders'[Inv(Cron)] = 1
    BY <2>1, <2>2, <2>3, <1>4 DEF Unreminded
  <2>8. \A i \in Todo(Cron)' : Unreminded(i)'
    BY <1>4, <2>1, <2>4, <2>5
  <2> QED BY <1>4, <2>6, <2>7, <2>8 DEF StampFollows
<1> QED BY <1>5, <1>6, <1>7, ProgressKeeps DEF IInv

LEMMA StampKeeps ==
    ASSUME IInv, StampReminder
    PROVE  IInv'
<1> USE CronIsProcess
<1>1. At(Cron, "stamp") /\ GoTo(Cron, "log") /\ "stamp" \in Phase /\ "log" \in Phase
  BY DEF StampReminder, Phase
<1>2. Serving(Cron) /\ PhaseOf(Cron) = "stamp" /\ VerbOf(Cron) = "reminded" /\ Inv(Cron) \in Invitation
  BY <1>1, VerbAt
<1>3. "log" \in PhasesOf[VerbOf(Cron)]
  BY <1>2 DEF PhasesOf
<1>4. /\ SteeredAt(Cron)'
      /\ request' \in [Process -> Request]
      /\ Serving(Cron)' /\ PhaseOf(Cron)' = "log" /\ VerbOf(Cron)' = "reminded"
      /\ Inv(Cron)' = Inv(Cron) /\ Todo(Cron)' = Todo(Cron)
      /\ Elsewhere(Cron)
  BY <1>1, <1>2, <1>3, GoToSteers
<1>5. InvitationTypeOK'
  BY <1>2, <1>4 DEF IInv, InvitationTypeOK, StampReminder, mails, access, bounds
<1>6. Progress(Cron)
  <2>1. Grows
    BY DEF StampReminder, mails, access, bounds, Grows, AccessGrows
  <2>2. GrantedAt(Cron)'
    BY <1>4 DEF GrantedAt
  <2> QED BY <1>2, <1>4, <2>1, <2>2
          DEF Progress, StampReminder, mails, access, bounds, Mailing, Granter
<1>7. StampFollows'
  <2>1. \A i : Unreminded(i) => Unreminded(i)'
    BY DEF Unreminded, StampReminder, mails, bounds
  <2>2. ASSUME NEW i \in Invitation
        PROVE  Unreminded(i)' \/ (i \in reminded' /\ reminders'[i] = 1)
    BY <2>1 DEF IInv, StampFollows, StampReminder, mails
  <2>3. \A i \in Todo(Cron)' : Unreminded(i)'
    BY <1>2, <1>4, <2>1 DEF IInv, StampFollows
  <2> QED BY <1>4, <2>2, <2>3 DEF StampFollows
<1> QED BY <1>5, <1>6, <1>7, ProgressKeeps DEF IInv

LEMMA CrashKeeps ==
    ASSUME IInv, NEW p \in Process, CrashRequest(p)
    PROVE  IInv'
<1>1. Serving(p) /\ End(p)
  BY DEF CrashRequest, Serving
<1>2. Inv(p) \in Invitation /\ VerbOf(p) \in Verb /\ PhaseOf(p) \in PhasesOf[VerbOf(p)]
  BY <1>1, Typed DEF IInv, Steered, SteeredAt
<1>3. request' \in [Process -> Request] /\ ~Serving(p)' /\ Elsewhere(p)
  BY <1>1, EndEffect DEF IInv
<1>4. died' = died \cup {<<Inv(p), VerbOf(p)>>}
  BY DEF CrashRequest, VerbOf
<1>5. InvitationTypeOK'
  <2>1. faults' \in 0..MaxFaults
    BY InvitationAssumption DEF CrashRequest, IInv, InvitationTypeOK
  <2> QED BY <1>2, <1>3, <1>4, <2>1 DEF IInv, InvitationTypeOK, CrashRequest, mails, access
<1>6. Progress(p)
  <2>1. Grows
    BY <1>4 DEF CrashRequest, mails, access, Grows, AccessGrows
  <2> QED BY <1>2, <1>3, <1>4, <2>1
          DEF Progress, CrashRequest, mails, access, Mailing, Granter, SteeredAt, GrantedAt
<1>7. StampFollows'
  <2>1. UNCHANGED <<reminded, reminders>> /\ died \subseteq died'
    BY <1>4 DEF CrashRequest, mails
  <2>2. CASE p = Cron
    <3>1. PhaseOf(Cron) = "stamp" => <<Inv(Cron), "reminded">> \in died'
      BY <1>2, <1>4, <2>2 DEF PhasesOf, Verb
    <3> QED BY <1>3, <2>1, <2>2, <3>1, StampKept DEF IInv
  <2>3. CASE p # Cron
    BY <1>3, <2>1, <2>3, CronIsProcess, StampKept DEF IInv, Elsewhere
  <2> QED BY <2>2, <2>3
<1> QED BY <1>5, <1>6, <1>7, ProgressKeeps DEF IInv

LEMMA PhaseServes ==
    ASSUME NEW p, PhaseOf(p)' # "idle"
    PROVE  Serving(p)'
BY DEF Serving, PhaseOf, Idle

\* The loop goes on with one of its list.
LEMMA NextEffect ==
    ASSUME IInv, NEW p \in Process, Serving(p), NEW i \in Todo(p),
           request' = [request EXCEPT ![p].pc = LoopPhase[request[p].verb],
                                      ![p].inv = i, ![p].todo = @ \ {i}]
    PROVE  /\ request' \in [Process -> Request]
           /\ Serving(p)' /\ PhaseOf(p)' = LoopPhase[VerbOf(p)]
           /\ PhaseOf(p)' \in {"insert", "expire", "remind"}
           /\ VerbOf(p)' = VerbOf(p) /\ Inv(p)' = i /\ Todo(p)' = Todo(p) \ {i}
           /\ SeenBy(p)' = SeenBy(p)
           /\ Elsewhere(p)
           /\ SteeredAt(p)'
<1>1. request[p] \in Record /\ request \in [Process -> Request] /\ VerbOf(p) \in Verb
  BY Typed DEF IInv, InvitationTypeOK
<1>2. VerbOf(p) \in {"sent", "expired", "reminded"}
  BY <1>1 DEF IInv, Steered, SteeredAt, Verb
<1> DEFINE pc == LoopPhase[VerbOf(p)]
           r == [pc |-> pc, todo |-> Todo(p) \ {i}, inv |-> i,
                 seen |-> request[p].seen, verb |-> VerbOf(p)]
<1>3. pc \in {"insert", "expire", "remind"} /\ pc \in PhasesOf[VerbOf(p)] /\ pc \in Phase
  BY <1>2 DEF LoopPhase, PhasesOf, Phase
<1>4. i \in Invitation /\ Todo(p) \subseteq Invitation
  BY Typed DEF IInv
<1>5. r \in Record
  <2>1. request[p].seen \in Status
    BY <1>1 DEF Record
  <2> QED BY <1>1, <1>3, <1>4, <2>1 DEF Record
<1>6. request'[p] = r /\ Elsewhere(p) /\ request' \in [Process -> Request]
  <2>1. request'[p] = r
    BY <1>1 DEF Record, VerbOf, Todo
  <2>2. Elsewhere(p)
    BY <1>1 DEF Elsewhere
  <2>3. request' = [request EXCEPT ![p] = r]
    BY <1>1 DEF Record, VerbOf, Todo
  <2>4. r \in Request
    BY <1>5 DEF Request, Record
  <2> HIDE DEF r
  <2> QED BY <1>1, <2>1, <2>2, <2>3, <2>4
<1>7. /\ PhaseOf(p)' = pc /\ VerbOf(p)' = VerbOf(p) /\ Inv(p)' = i
      /\ Todo(p)' = Todo(p) \ {i} /\ SeenBy(p)' = SeenBy(p)
  BY <1>6 DEF PhaseOf, VerbOf, Inv, Todo, SeenBy
<1>8. Serving(p)'
  <2>1. PhaseOf(p)' # "idle"
    BY <1>3, <1>7
  <2> HIDE DEF pc, r
  <2> QED BY <2>1, PhaseServes
<1>9. SteeredAt(p)'
  <2> HIDE DEF pc
  <2> QED BY <1>2, <1>3, <1>7 DEF SteeredAt, IInv, Steered
<1> QED BY <1>3, <1>6, <1>7, <1>8, <1>9

LEMMA LogKeeps ==
    ASSUME IInv, NEW p \in Process, WriteLog(p)
    PROVE  IInv'
<1>1. At(p, "log") /\ "log" \in Phase
  BY DEF WriteLog, Phase
<1>2. Serving(p) /\ PhaseOf(p) = "log" /\ Inv(p) \in Invitation
  BY <1>1, VerbAt
<1>3. audit' = IF VerbOf(p) = "accepted" THEN audit \cup {Inv(p)} ELSE audit
  BY DEF WriteLog, VerbOf, Inv
<1>4. \/ ~Serving(p)'
      \/ /\ Serving(p)' /\ Inv(p)' \in Todo(p) /\ Todo(p)' = Todo(p) \ {Inv(p)'}
         /\ PhaseOf(p)' \in {"insert", "expire", "remind"} /\ VerbOf(p)' = VerbOf(p)
  <2>1. CASE Todo(p) = {}
    BY <2>1, EndEffect DEF WriteLog, IInv, Todo
  <2>2. CASE Todo(p) # {}
    BY <1>2, <2>2, NextEffect DEF WriteLog, Todo
  <2> QED BY <2>1, <2>2
<1>5. request' \in [Process -> Request] /\ Elsewhere(p) /\ SteeredAt(p)'
  <2>1. CASE Todo(p) = {}
    BY <2>1, EndEffect DEF WriteLog, IInv, Todo, SteeredAt
  <2>2. CASE Todo(p) # {}
    BY <1>2, <2>2, NextEffect DEF WriteLog, Todo
  <2> QED BY <2>1, <2>2
<1>6. InvitationTypeOK'
  BY <1>2, <1>3, <1>5 DEF IInv, InvitationTypeOK, WriteLog, mails, access, bounds
<1>7. Progress(p)
  <2>1. Grows
    BY <1>3 DEF WriteLog, mails, access, bounds, Grows, AccessGrows
  <2>2. GrantedAt(p)'
    BY <1>4 DEF GrantedAt
  <2>3. VerbOf(p) = "accepted" => HasAccess(Inv(p))
    BY <1>2 DEF IInv, Granted, GrantedAt
  <2>4. \A i \in Invitation : i \in audit' => i \in audit \/ HasAccess(i)'
    BY <1>3, <2>1, <2>3, AccessKept DEF Grows
  <2>5. \A i \in Invitation : Granter(p, i) => i \in audit'
    BY <1>3 DEF Granter
  <2> QED BY <1>2, <1>5, <2>1, <2>2, <2>4, <2>5
          DEF Progress, WriteLog, mails, access, bounds, Mailing
<1>8. StampFollows'
  <2>1. UNCHANGED <<reminded, reminders>> /\ died' = died
    BY DEF WriteLog, mails, bounds
  <2>2. CASE p # Cron
    BY <1>5, <2>1, <2>2, CronIsProcess, StampKept DEF IInv, Elsewhere
  <2>3. CASE p = Cron
    <3>1. CASE ~Serving(Cron)' \/ VerbOf(Cron)' # "reminded"
      BY <1>2, <2>1, <2>3, <3>1, StampKept DEF IInv
    <3>2. CASE Serving(Cron)' /\ VerbOf(Cron)' = "reminded"
      <4>1. \A i : Unreminded(i) => Unreminded(i)'
        BY <2>1 DEF Unreminded
      <4>2. /\ Inv(Cron)' \in Todo(Cron) /\ Todo(Cron)' \subseteq Todo(Cron)
            /\ VerbOf(Cron) = "reminded"
        BY <1>4, <2>3, <3>2
      <4>3. \A i \in Todo(Cron) : Unreminded(i)'
        BY <1>2, <2>3, <4>1, <4>2 DEF IInv, StampFollows
      <4>4. ASSUME NEW i \in Invitation
            PROVE  Unreminded(i)' \/ (i \in reminded' /\ reminders'[i] = 1)
        BY <1>2, <2>1, <2>3, <4>1 DEF IInv, StampFollows
      <4> QED BY <4>2, <4>3, <4>4 DEF StampFollows
    <3> QED BY <3>1, <3>2
  <2> QED BY <2>2, <2>3
<1> QED BY <1>5, <1>6, <1>7, <1>8, ProgressKeeps DEF IInv
-----------------------------------------------------------------------------
(* A request or a command begins. *)

LEMMA BeginKeeps ==
    ASSUME IInv, NEW p \in Process, request[p] = Idle,
           NEW pc \in Phase, NEW todo \in SUBSET Invitation, NEW i \in Invitation,
           NEW verb \in Verb, Serve(p, pc, todo, i, verb),
           pc \in PhasesOf[verb] \ (Granting \cup {"mail"}), i \notin todo,
           verb \in {"accepted", "resend", "revoked"} => todo = {},
           p # Cron => verb \notin {"expired", "reminded"},
           p = Cron /\ verb = "reminded" => \A j \in todo \cup {i} : Unreminded(j),
           UNCHANGED <<now, status, expires, reminded, mails, audit, access, died, faults>>,
           requests' \in 0..MaxRequests
    PROVE  IInv'
<1>1. /\ request' \in [Process -> Request]
      /\ Serving(p)' /\ PhaseOf(p)' = pc
      /\ VerbOf(p)' = verb /\ Inv(p)' = i /\ Todo(p)' = todo
      /\ Elsewhere(p)
  BY ServeEffect DEF IInv
<1>2. ~Serving(p)
  BY DEF Serving
<1>3. InvitationTypeOK'
  BY <1>1 DEF IInv, InvitationTypeOK, mails, access
<1>4. Progress(p)
  <2>1. Grows
    BY DEF mails, access, Grows, AccessGrows
  <2>2. SteeredAt(p)'
    BY <1>1 DEF SteeredAt
  <2>3. GrantedAt(p)'
    BY <1>1 DEF GrantedAt, Granting
  <2> QED BY <1>1, <1>2, <2>1, <2>2, <2>3 DEF Progress, mails, access, Mailing, Granter
<1>5. StampFollows'
  <2>1. UNCHANGED <<reminded, reminders>> /\ died' = died
    BY DEF mails
  <2>2. CASE p # Cron
    BY <1>1, <2>1, <2>2, CronIsProcess, StampKept DEF IInv, Elsewhere
  <2>3. CASE p = Cron
    <3>1. \A j : Unreminded(j) => Unreminded(j)'
      BY <2>1 DEF Unreminded
    <3>2. ASSUME NEW j \in Invitation
          PROVE  Unreminded(j)' \/ (j \in reminded' /\ reminders'[j] = 1)
      BY <1>2, <2>1, <2>3, <3>1 DEF IInv, StampFollows
    <3> QED BY <1>1, <2>3, <3>1, <3>2 DEF StampFollows
  <2> QED BY <2>2, <2>3
<1> QED BY <1>1, <1>3, <1>4, <1>5, ProgressKeeps DEF IInv

LEMMA BulkInviteKeeps ==
    ASSUME IInv, NEW p \in Web, StartBulkInvite(p)
    PROVE  IInv'
<1>1. PICK todo \in SUBSET Fresh :
         \E i \in todo : Serve(p, "insert", todo \ {i}, i, "sent")
  BY DEF StartBulkInvite
<1>2. PICK i \in todo : Serve(p, "insert", todo \ {i}, i, "sent")
  BY <1>1
<1>3. todo \ {i} \in SUBSET Invitation /\ i \in Invitation
  BY DEF Fresh
<1>4. "insert" \in PhasesOf["sent"] \ (Granting \cup {"mail"}) /\ "insert" \in Phase /\ "sent" \in Verb
  BY DEF PhasesOf, Granting, Phase, Verb
<1>5. requests' \in 0..MaxRequests
  BY InvitationAssumption DEF StartBulkInvite, Arrives, IInv, InvitationTypeOK
<1> QED BY <1>2, <1>3, <1>4, <1>5, WebNotCron, BeginKeeps DEF StartBulkInvite, Arrives

LEMMA OpenKeeps ==
    ASSUME IInv, NEW p \in Web, NEW i \in Invitation, OpenLink(p, i) \/ SubmitAcceptance(p, i)
    PROVE  IInv'
<1>1. PICK pc \in {"lapse", "user"} : Serve(p, pc, {}, i, "accepted")
  BY DEF OpenLink, SubmitAcceptance, FindValidByToken
<1>2. pc \in PhasesOf["accepted"] \ (Granting \cup {"mail"}) /\ pc \in Phase /\ "accepted" \in Verb
  BY DEF PhasesOf, Granting, Phase, Verb
<1>3. requests' \in 0..MaxRequests
  BY InvitationAssumption
  DEF OpenLink, SubmitAcceptance, FindValidByToken, Arrives, IInv, InvitationTypeOK
<1> QED BY <1>1, <1>2, <1>3, WebNotCron, BeginKeeps
        DEF OpenLink, SubmitAcceptance, FindValidByToken, Arrives

LEMMA LoadKeeps ==
    ASSUME IInv, NEW p \in Web, NEW i \in Invitation,
           ResendInvitation(p, i) \/ RevokeInvitation(p, i)
    PROVE  IInv'
<1>1. PICK pc \in Phase, verb \in Verb :
         /\ pc \in PhasesOf[verb] \ (Granting \cup {"mail"})
         /\ verb \in {"resend", "revoked"}
         /\ LoadRow(p, i, pc, verb)
  <2>1. /\ "resend" \in PhasesOf["resend"] \ (Granting \cup {"mail"})
        /\ "revoke" \in PhasesOf["revoked"] \ (Granting \cup {"mail"})
        /\ {"resend", "revoke"} \subseteq Phase /\ {"resend", "revoked"} \subseteq Verb
    BY DEF PhasesOf, Granting, Phase, Verb
  <2> QED BY <2>1 DEF ResendInvitation, RevokeInvitation
<1>2. requests' \in 0..MaxRequests
  BY <1>1, InvitationAssumption DEF LoadRow, Arrives, IInv, InvitationTypeOK
<1> QED BY <1>1, <1>2, WebNotCron, BeginKeeps DEF LoadRow, Arrives

LEMMA CommandKeeps ==
    ASSUME IInv, Command
    PROVE  IInv'
<1> USE CronIsProcess
<1>1. /\ "expire" \in PhasesOf["expired"] \ (Granting \cup {"mail"})
      /\ "remind" \in PhasesOf["reminded"] \ (Granting \cup {"mail"})
      /\ {"expire", "remind"} \subseteq Phase /\ {"expired", "reminded"} \subseteq Verb
  BY DEF PhasesOf, Granting, Phase, Verb
<1>2. CASE StartExpire
  <2> DEFINE todo == {i \in Invitation : Overdue(i)}
  <2>1. PICK i \in todo : Serve(Cron, "expire", todo \ {i}, i, "expired")
    BY <1>2 DEF StartExpire
  <2>2. todo \ {i} \in SUBSET Invitation /\ i \in Invitation
    OBVIOUS
  <2>3. requests' \in 0..MaxRequests
    BY <1>2 DEF StartExpire, bounds, IInv, InvitationTypeOK
  <2> HIDE DEF todo
  <2> QED BY <1>1, <1>2, <2>1, <2>2, <2>3, BeginKeeps DEF StartExpire, bounds
<1>3. CASE StartReminders
  <2> DEFINE todo == PendingReminders
  <2>1. PICK i \in todo : Serve(Cron, "remind", todo \ {i}, i, "reminded")
    BY <1>3 DEF StartReminders
  <2>2. todo \ {i} \in SUBSET Invitation /\ i \in Invitation
    BY DEF PendingReminders
  <2>3. requests' \in 0..MaxRequests
    BY <1>3 DEF StartReminders, bounds, IInv, InvitationTypeOK
  <2>4. \A j \in todo : Unreminded(j)
    BY <1>3 DEF StartReminders, PendingReminders, IInv, StampFollows, Serving
  <2> HIDE DEF todo
  <2>5. \A j \in (todo \ {i}) \cup {i} : Unreminded(j)
    BY <2>1, <2>4
  <2> QED BY <1>1, <1>3, <2>1, <2>2, <2>3, <2>5, BeginKeeps DEF StartReminders, bounds
<1> QED BY <1>2, <1>3 DEF Command

LEMMA SaveFormKeeps ==
    ASSUME IInv, NEW p \in Web, NEW i \in Invitation, SaveForm(p, i)
    PROVE  IInv'
<1> USE WebNotCron
<1>1. InvitationTypeOK'
  BY InvitationAssumption
  DEF IInv, InvitationTypeOK, SaveForm, Arrives, access, Status
<1>2. Progress(p)
  <2>1. Grows /\ Elsewhere(p)
    BY DEF SaveForm, Arrives, access, Grows, AccessGrows, Elsewhere
  <2>2. SteeredAt(p)' /\ GrantedAt(p)'
    BY DEF SaveForm, Arrives, access, IInv, Steered, Granted, SteeredAt, GrantedAt, HasAccess,
           Serving, PhaseOf, VerbOf, Inv, Todo
  <2>3. ~Serving(p)
    BY DEF SaveForm, Arrives, Serving
  <2>4. \A j \in Invitation : status'[j] = status[j] \/ (j = i /\ status'[j] = "pending")
    BY DEF SaveForm, IInv, InvitationTypeOK
  <2> QED BY <2>1, <2>2, <2>3, <2>4 DEF Progress, SaveForm, access, Mailing, Granter
<1>3. StampFollows'
  BY <1>2, WebStampKept DEF IInv, SaveForm, Arrives, Progress
<1> QED BY <1>1, <1>2, <1>3, ProgressKeeps DEF IInv
-----------------------------------------------------------------------------
(* The whole. *)

\* A step that changes nothing the invariant speaks of but the time.
LEMMA StillKeeps ==
    ASSUME IInv, now' \in Nat,
           UNCHANGED <<status, expires, reminded, mails, audit, access, request, bounds>>
    PROVE  IInv'
<1>1. InvitationTypeOK'
  BY DEF IInv, InvitationTypeOK, mails, access, bounds
<1>2. Progress(Cron)
  <2>1. Elsewhere(Cron) /\ Grows
    BY DEF Elsewhere, Grows, AccessGrows, mails, access, bounds
  <2>2. /\ Serving(Cron)' <=> Serving(Cron)
        /\ PhaseOf(Cron)' = PhaseOf(Cron) /\ VerbOf(Cron)' = VerbOf(Cron)
        /\ Inv(Cron)' = Inv(Cron) /\ Todo(Cron)' = Todo(Cron)
    BY DEF Serving, PhaseOf, VerbOf, Inv, Todo
  <2>3. \A i : (HasRole(i) => HasRole(i)') /\ (HasAccess(i) => HasAccess(i)')
    BY <2>1, RoleKept, AccessKept DEF Grows
  <2>4. UNCHANGED <<active, members, mailed>>
    BY DEF access, mails
  <2>5. SteeredAt(Cron)' /\ GrantedAt(Cron)'
    BY <2>2, <2>3, <2>4, CronIsProcess DEF IInv, Steered, Granted, SteeredAt, GrantedAt
  <2> QED BY <2>1, <2>2, <2>4, <2>5 DEF Progress, Mailing, Granter, bounds
<1>3. StampFollows'
  BY StampKept DEF IInv, mails, bounds
<1> QED BY <1>1, <1>2, <1>3, CronIsProcess, ProgressKeeps DEF IInv

LEMMA DeleteKeeps ==
    ASSUME IInv, NEW r \in Role, DeleteRole(r)
    PROVE  IInv'
<1>1. InvitationTypeOK'
  <2>1. roles' \subseteq Email \X Role /\ standing' \subseteq Role
    BY DEF IInv, InvitationTypeOK, DeleteRole
  <2>2. faults' \in 0..MaxFaults
    BY InvitationAssumption DEF IInv, InvitationTypeOK, DeleteRole
  <2> QED BY <2>1, <2>2 DEF IInv, InvitationTypeOK, DeleteRole, mails
<1>2. AccessGrows
  BY DEF DeleteRole, AccessGrows, IInv, InvitationTypeOK
<1>3. Grows /\ Elsewhere(Cron)
  BY <1>2 DEF DeleteRole, Grows, Elsewhere, mails
<1>4. SteeredAt(Cron)' /\ GrantedAt(Cron)'
  <2>1. /\ Serving(Cron)' <=> Serving(Cron)
        /\ PhaseOf(Cron)' = PhaseOf(Cron) /\ VerbOf(Cron)' = VerbOf(Cron)
        /\ Inv(Cron)' = Inv(Cron) /\ Todo(Cron)' = Todo(Cron)
    BY DEF DeleteRole, Serving, PhaseOf, VerbOf, Inv, Todo
  <2>2. \A i : (HasRole(i) => HasRole(i)') /\ (HasAccess(i) => HasAccess(i)')
    BY <1>2, RoleKept, AccessKept
  <2>3. active' = active
    BY DEF DeleteRole
  <2> QED BY <2>1, <2>2, <2>3, CronIsProcess DEF IInv, Steered, Granted, SteeredAt, GrantedAt
<1>5. Progress(Cron)
  BY <1>3, <1>4, CronIsProcess
  DEF Progress, DeleteRole, Mailing, Granter, Serving, PhaseOf, VerbOf, Inv, mails
<1>6. StampFollows'
  BY StampKept DEF IInv, DeleteRole, mails
<1> QED BY <1>1, <1>5, <1>6, CronIsProcess, ProgressKeeps DEF IInv

LEMMA InitIInv ==
    InvitationInit => IInv
<1> SUFFICES ASSUME InvitationInit PROVE IInv
  OBVIOUS
<1>1. \A p \in Process : ~Serving(p)
  BY DEF InvitationInit, Serving
<1>2. InvitationTypeOK
  <2>1. status \in [Invitation -> Status] /\ expires \in [Invitation -> Nat]
    BY InvitationAssumption DEF InvitationInit, ClockInit, Status
  <2>2. mailed \subseteq Invitation
    BY InvitationAssumption DEF InvitationInit
  <2>3. request \in [Process -> Request]
    BY DEF InvitationInit, Request
  <2>4. now \in Nat /\ requests \in 0..MaxRequests /\ faults \in 0..MaxFaults
    BY InvitationAssumption DEF InvitationInit, ClockInit
  <2> QED BY <2>1, <2>2, <2>3, <2>4 DEF InvitationInit, InvitationTypeOK
<1>3. Steered /\ Granted
  BY <1>1 DEF Steered, SteeredAt, Granted, GrantedAt
<1>4. AcceptedHasAccess /\ Traced /\ MailFollows
  BY DEF InvitationInit, AcceptedHasAccess, Traced, MailFollows
<1>5. StampFollows
  BY <1>1, CronIsProcess DEF InvitationInit, StampFollows, Unreminded
<1> QED BY <1>2, <1>3, <1>4, <1>5 DEF IInv

LEMMA NextIInv ==
    IInv /\ [InvitationNext]_invitationVars => IInv'
<1> SUFFICES ASSUME IInv, [InvitationNext]_invitationVars PROVE IInv'
  OBVIOUS
<1>1. ASSUME NEW p \in Web, Browse(p) PROVE IInv'
  BY <1>1, BulkInviteKeeps, SaveFormKeeps, OpenKeeps, LoadKeeps DEF Browse
<1>2. ASSUME NEW p \in Web, Continue(p) PROVE IInv'
  BY <1>2, WebNotCron, InsertKeeps, MailKeeps, LogKeeps, LapseKeeps, UserKeeps, RoleKeeps,
     CompanyKeeps, AcceptKeeps, ResendKeeps, RevokeKeeps
  DEF Continue
<1>3. CASE Command
  BY <1>3, CommandKeeps
<1>4. CASE CommandStep
  BY <1>4, CronIsProcess, ExpireKeeps, ReminderKeeps, StampKeeps, LogKeeps DEF CommandStep
<1>5. ASSUME NEW p \in Process, CrashRequest(p) PROVE IInv'
  BY <1>5, CrashKeeps
<1>6. CASE InvitationTick
  <2>1. now' \in Nat
    BY <1>6 DEF InvitationTick, Tick, IInv, InvitationTypeOK
  <2> QED BY <1>6, <2>1, StillKeeps DEF InvitationTick
<1>7. CASE UNCHANGED invitationVars
  <2>1. now' \in Nat
    BY <1>7 DEF invitationVars, IInv, InvitationTypeOK
  <2> QED BY <1>7, <2>1, StillKeeps DEF invitationVars
<1>8. ASSUME NEW r \in Role, DeleteRole(r) PROVE IInv'
  BY <1>8, DeleteKeeps
<1> QED BY <1>1, <1>2, <1>3, <1>4, <1>5, <1>6, <1>7, <1>8 DEF InvitationNext, InvitationStep

LEMMA InvitationAlways == InvitationSpec => []IInv
BY InitIInv, NextIInv, PTL DEF InvitationSpec

(***************************************************************************)
(* Every reachable state of the invitations is well formed.                *)
(***************************************************************************)
THEOREM InvitationTypes == InvitationSpec => []InvitationTypeOK
<1>1. IInv => InvitationTypeOK
  BY DEF IInv
<1> QED BY <1>1, InvitationAlways, PTL

(***************************************************************************)
(* Wherever a request of accept dies, and whatever runs beside it, an      *)
(* accepted invitation has given its user the account, the role and the    *)
(* company (InvitationService.php:71-134).                                 *)
(***************************************************************************)
THEOREM AcceptedAlwaysHasAccess == InvitationSpec => []AcceptedHasAccess
<1>1. IInv => AcceptedHasAccess
  BY DEF IInv
<1> QED BY <1>1, InvitationAlways, PTL

(***************************************************************************)
(* All access leads back to an invitation through the audit log, a request *)
(* that is about to write it, or one that died first.                      *)
(***************************************************************************)
THEOREM AccessAlwaysTraceable == InvitationSpec => []AccessIsTraceable
<1>1. ASSUME IInv, NEW i \in Invitation, Traceable(i)
      PROVE  i \in audit \/ Accepting(i) \/ <<i, "accepted">> \in died
  BY <1>1 DEF Traceable, Granter, Accepting, Serving, VerbOf
<1>2. IInv => AccessIsTraceable
  BY <1>1 DEF IInv, Traced, AccessIsTraceable
<1> QED BY <1>2, InvitationAlways, PTL

(***************************************************************************)
(* No pending invitation is left without its mail, but by a request that   *)
(* died before sending it (BulkInvite's loop has no transaction).          *)
(***************************************************************************)
THEOREM PendingAlwaysMailed == InvitationSpec => []PendingWasMailed
<1>1. \A p \in Process, i \in Invitation : Mailing(p, i) => At(p, "mail") /\ Inv(p) = i
  BY DEF Mailing, At, PhaseOf
<1>2. IInv => PendingWasMailed
  BY <1>1 DEF IInv, MailFollows, PendingWasMailed
<1> QED BY <1>2, InvitationAlways, PTL

(***************************************************************************)
(* A second reminder of an invitation is always the work of a command that *)
(* died between the mail and its stamp (InvitationService.php:198).        *)
(***************************************************************************)
THEOREM RemindedAtMostOnce == InvitationSpec => []RemindedOnce
<1>1. IInv => RemindedOnce
  <2> SUFFICES ASSUME IInv, NEW i \in Invitation, reminders[i] > 1
               PROVE  <<i, "reminded">> \in died
    BY DEF RemindedOnce
  <2>1. reminders[i] \in Nat
    BY DEF IInv, InvitationTypeOK
  <2> QED BY <2>1 DEF IInv, StampFollows, Unreminded
<1> QED BY <1>1, InvitationAlways, PTL
-----------------------------------------------------------------------------
(* Closed invitations. *)

\* A request that is about to insert the row of i
Inserting(p, i) ==
    /\ Serving(p)
    /\ VerbOf(p) = "sent"
    /\ i \in Todo(p) \/ (i = Inv(p) /\ PhaseOf(p) = "insert")

\* A row is inserted once, by the only request that knows of it.
RowsAreNew ==
    \A p \in Process, i \in Invitation :
        Inserting(p, i) => status[i] = "none" /\ \A q \in Process \ {p} : ~Holds(q, i)

\* accept and expire go on with copies loaded while they were pending.
LoadedPending ==
    \A p \in Process :
        Serving(p) /\ VerbOf(p) \in {"accepted", "expired"} => SeenBy(p) = "pending"

ClosedInv == IInv /\ RowsAreNew /\ LoadedPending

\* The request is the one it was, and has taken on no more.
Carries(p) ==
    /\ Serving(p)
    /\ VerbOf(p)' = VerbOf(p)
    /\ SeenBy(p)' = SeenBy(p)
    /\ \A i \in Invitation :
          /\ Holds(p, i)' => Holds(p, i)
          /\ Inserting(p, i)' => Inserting(p, i)

LEMMA HoldsElsewhere ==
    ASSUME NEW p, Elsewhere(p), NEW q \in Process \ {p}, NEW i
    PROVE  (Holds(q, i)' <=> Holds(q, i)) /\ (Inserting(q, i)' <=> Inserting(q, i))
BY ElsewhereEffect DEF Holds, Inserting, Serving, Todo, Inv, Elsewhere

\* What a step of a request must show for the rows it holds.
LEMMA CarryKeeps ==
    ASSUME RowsAreNew, LoadedPending, NEW p \in Process, Elsewhere(p),
           ~Serving(p)' \/ Carries(p),
           \A i \in Invitation : status'[i] # status[i] => Holds(p, i) /\ ~Inserting(p, i)'
    PROVE  RowsAreNew' /\ LoadedPending'
<1>1. ~Serving(p)' => \A i \in Invitation : ~Holds(p, i)' /\ ~Inserting(p, i)'
  BY DEF Serving, Holds, Inserting
<1>2. \A i \in Invitation :
         (Holds(p, i)' => Holds(p, i)) /\ (Inserting(p, i)' => Inserting(p, i))
  BY <1>1 DEF Carries
<1>3. ASSUME NEW q \in Process, NEW i \in Invitation, Inserting(q, i)'
      PROVE  status'[i] = "none" /\ \A r \in Process \ {q} : ~Holds(r, i)'
  <2>1. Inserting(q, i)
    BY <1>2, <1>3, HoldsElsewhere
  <2>2. status[i] = "none" /\ \A r \in Process \ {q} : ~Holds(r, i)
    BY <2>1 DEF RowsAreNew
  <2>3. \A r \in Process \ {q} : ~Holds(r, i)'
    BY <1>2, <2>2, HoldsElsewhere
  <2>4. status'[i] = status[i]
    BY <1>3, <2>2
  <2> QED BY <2>2, <2>3, <2>4
<1>4. ASSUME NEW q \in Process, Serving(q)', VerbOf(q)' \in {"accepted", "expired"}
      PROVE  SeenBy(q)' = "pending"
  <2>1. CASE q = p
    BY <1>4, <2>1 DEF Carries, LoadedPending
  <2>2. CASE q # p
    BY <1>4, <2>2, ElsewhereEffect DEF LoadedPending
  <2> QED BY <2>1, <2>2
<1> QED BY <1>3, <1>4 DEF RowsAreNew, LoadedPending

\* A request that begins inserts fresh rows, or has loaded rows there are.
LEMMA BeginCarries ==
    ASSUME IInv, RowsAreNew, LoadedPending, NEW p \in Process, request[p] = Idle,
           NEW pc \in Phase, NEW todo \in SUBSET Invitation, NEW i \in Invitation,
           NEW verb \in Verb, Serve(p, pc, todo, i, verb), i \notin todo, status' = status,
           IF verb = "sent" THEN todo \cup {i} \subseteq Fresh
                            ELSE \A j \in todo \cup {i} : status[j] # "none",
           verb \in {"accepted", "expired"} => status[i] = "pending"
    PROVE  RowsAreNew' /\ LoadedPending'
<1>1. /\ Serving(p)' /\ VerbOf(p)' = verb /\ Inv(p)' = i /\ Todo(p)' = todo
      /\ SeenBy(p)' = status[i]
      /\ Elsewhere(p)
  BY ServeEffect DEF IInv
<1>2. \A j : Holds(p, j)' <=> j \in todo \cup {i}
  BY <1>1 DEF Holds, Serving, Todo
<1>3. \A j : Inserting(p, j)' => verb = "sent" /\ j \in todo \cup {i}
  BY <1>1 DEF Inserting
<1>4. ASSUME NEW j \in Invitation, Inserting(p, j)'
      PROVE  status'[j] = "none" /\ \A q \in Process \ {p} : ~Holds(q, j)'
  <2>1. j \in Fresh
    BY <1>3, <1>4
  <2> QED BY <1>1, <2>1, HoldsElsewhere DEF Fresh
<1>5. ASSUME NEW q \in Process \ {p}, NEW j \in Invitation, Inserting(q, j)'
      PROVE  status'[j] = "none" /\ \A r \in Process \ {q} : ~Holds(r, j)'
  <2>1. Inserting(q, j)
    BY <1>1, <1>5, HoldsElsewhere
  <2>2. status[j] = "none" /\ \A r \in Process \ {q} : ~Holds(r, j)
    BY <2>1 DEF RowsAreNew
  <2>3. Holds(q, j)
    BY <2>1 DEF Inserting, Holds, Serving, Todo
  <2>4. ~Holds(p, j)'
    BY <1>2, <2>2, <2>3 DEF Fresh
  <2> QED BY <1>1, <2>2, <2>4, HoldsElsewhere
<1>6. RowsAreNew'
  BY <1>4, <1>5 DEF RowsAreNew
<1>7. ASSUME NEW q \in Process, Serving(q)', VerbOf(q)' \in {"accepted", "expired"}
      PROVE  SeenBy(q)' = "pending"
  <2>1. CASE q = p
    BY <1>1, <1>7, <2>1
  <2>2. CASE q # p
    BY <1>1, <1>7, <2>2, ElsewhereEffect DEF LoadedPending
  <2> QED BY <2>1, <2>2
<1> QED BY <1>6, <1>7 DEF LoadedPending

\* Going from one phase to a later one carries the request on.
LEMMA GoToCarries ==
    ASSUME IInv, NEW p \in Process, Serving(p), NEW pc \in Phase, pc # "insert", GoTo(p, pc)
    PROVE  /\ Carries(p) /\ Elsewhere(p)
           /\ Serving(p)' /\ PhaseOf(p)' = pc /\ VerbOf(p)' = VerbOf(p)
           /\ Inv(p)' = Inv(p) /\ Todo(p)' = Todo(p)
<1>1. /\ Serving(p)' /\ PhaseOf(p)' = pc /\ VerbOf(p)' = VerbOf(p)
      /\ Inv(p)' = Inv(p) /\ Todo(p)' = Todo(p) /\ SeenBy(p)' = SeenBy(p) /\ Elsewhere(p)
  BY GoToEffect DEF IInv
<1>2. \A i : Holds(p, i)' <=> Holds(p, i)
  BY <1>1 DEF Holds, Serving, Todo
<1>3. \A i : Inserting(p, i)' => Inserting(p, i)
  BY <1>1 DEF Inserting
<1> QED BY <1>1, <1>2, <1>3 DEF Carries

LEMMA HoldsInv ==
    ASSUME NEW p, Serving(p)
    PROVE  Holds(p, Inv(p))
BY DEF Holds, Serving

\* Steps that write no status
LEMMA QuietKeeps ==
    ASSUME ClosedInv, NEW p \in Process, NEW from \in Phase, At(p, from),
           NEW pc \in Phase, pc # "insert", GoTo(p, pc), status' = status
    PROVE  RowsAreNew' /\ LoadedPending'
<1>1. Serving(p)
  BY AtServes
<1> QED BY <1>1, GoToCarries, CarryKeeps DEF ClosedInv

\* Steps that write the status of the invitation in hand
LEMMA WriteKeeps ==
    ASSUME ClosedInv, NEW p \in Process, NEW from \in Phase, At(p, from),
           NEW pc \in Phase, pc # "insert", GoTo(p, pc), NEW s,
           status' = [status EXCEPT ![Inv(p)] = s]
    PROVE  RowsAreNew' /\ LoadedPending'
<1>1. Serving(p)
  BY AtServes
<1>2. Carries(p) /\ Elsewhere(p) /\ PhaseOf(p)' = pc /\ Inv(p)' = Inv(p) /\ Todo(p)' = Todo(p)
  BY <1>1, GoToCarries DEF ClosedInv
<1>3. Inv(p) \notin Todo(p)
  BY <1>1 DEF ClosedInv, IInv, Steered, SteeredAt
<1>4. ~Inserting(p, Inv(p))'
  BY <1>2, <1>3 DEF Inserting
<1>5. \A i \in Invitation : status'[i] # status[i] => i = Inv(p)
  BY DEF ClosedInv, IInv, InvitationTypeOK
<1> QED BY <1>1, <1>2, <1>4, <1>5, HoldsInv, CarryKeeps DEF ClosedInv

LEMMA EndKeeps ==
    ASSUME ClosedInv, NEW p \in Process, Serving(p), End(p),
           \A i \in Invitation : status'[i] # status[i] => i = Inv(p)
    PROVE  RowsAreNew' /\ LoadedPending'
<1>1. ~Serving(p)' /\ Elsewhere(p)
  BY EndEffect DEF ClosedInv, IInv
<1>2. \A i : ~Inserting(p, i)'
  BY <1>1 DEF Inserting
<1> QED BY <1>1, <1>2, HoldsInv, CarryKeeps DEF ClosedInv

LEMMA LogCarries ==
    ASSUME ClosedInv, NEW p \in Process, WriteLog(p)
    PROVE  RowsAreNew' /\ LoadedPending'
<1>1. Serving(p) /\ status' = status
  BY AtServes DEF WriteLog, Phase
<1>2. CASE Todo(p) = {}
  BY <1>1, <1>2, EndKeeps DEF WriteLog, Todo
<1>3. CASE Todo(p) # {}
  <2>1. PICK i \in Todo(p) :
           request' = [request EXCEPT ![p].pc = LoopPhase[request[p].verb],
                                      ![p].inv = i, ![p].todo = @ \ {i}]
    BY <1>3 DEF WriteLog, Todo
  <2>2. /\ Serving(p)' /\ VerbOf(p)' = VerbOf(p) /\ Inv(p)' = i /\ Todo(p)' = Todo(p) \ {i}
        /\ SeenBy(p)' = SeenBy(p) /\ Elsewhere(p)
    BY <1>1, <2>1, NextEffect DEF ClosedInv
  <2>3. \A j : (Holds(p, j)' => Holds(p, j)) /\ (Inserting(p, j)' => Inserting(p, j))
    BY <1>1, <2>2 DEF Holds, Inserting, Serving, Todo
  <2>4. Carries(p)
    BY <1>1, <2>2, <2>3 DEF Carries
  <2> QED BY <1>1, <2>2, <2>4, CarryKeeps DEF ClosedInv
<1> QED BY <1>2, <1>3

LEMMA BrowseCarries ==
    ASSUME ClosedInv, NEW p \in Web, Browse(p)
    PROVE  RowsAreNew' /\ LoadedPending'
<1>1. p \in Process
  BY WebNotCron
<1>2. CASE StartBulkInvite(p)
  <2>1. PICK todo \in SUBSET Fresh, i \in Invitation :
           i \in todo /\ Serve(p, "insert", todo \ {i}, i, "sent")
    <3>1. PICK todo \in SUBSET Fresh :
             \E i \in todo : Serve(p, "insert", todo \ {i}, i, "sent")
      BY <1>2 DEF StartBulkInvite
    <3>2. PICK i \in todo : Serve(p, "insert", todo \ {i}, i, "sent")
      BY <3>1
    <3>3. i \in Invitation
      BY <3>1 DEF Fresh
    <3> QED BY <3>1, <3>2, <3>3
  <2>2. /\ todo \ {i} \in SUBSET Invitation /\ (todo \ {i}) \cup {i} \subseteq Fresh
        /\ "insert" \in Phase /\ "sent" \in Verb
    BY <2>1 DEF Fresh, Phase, Verb
  <2> QED BY <1>1, <1>2, <2>1, <2>2, BeginCarries DEF ClosedInv, StartBulkInvite, Arrives
<1>3. ASSUME NEW i \in Invitation, SaveForm(p, i)
      PROVE  RowsAreNew' /\ LoadedPending'
  <2>1. /\ request' = request /\ \A q \in Process : ~Holds(q, i)
        /\ \A j \in Invitation \ {i} : status'[j] = status[j]
    BY <1>3 DEF SaveForm, Fresh, ClosedInv, IInv, InvitationTypeOK
  <2>2. \A q \in Process : ~Inserting(q, i)
    BY <2>1 DEF Inserting, Holds, Serving, Todo
  <2>3. \A q, j : (Holds(q, j)' <=> Holds(q, j)) /\ (Inserting(q, j)' <=> Inserting(q, j))
    BY <2>1 DEF Holds, Inserting, Serving, Inv, Todo, VerbOf, PhaseOf
  <2>4. RowsAreNew'
    BY <2>1, <2>2, <2>3 DEF ClosedInv, RowsAreNew
  <2>5. LoadedPending'
    BY <2>1 DEF ClosedInv, LoadedPending, Serving, VerbOf, SeenBy
  <2> QED BY <2>4, <2>5
<1>4. ASSUME NEW i \in Invitation, NEW pc \in Phase, NEW verb \in Verb, verb # "sent",
             Arrives(p), Serve(p, pc, {}, i, verb), status' = status, status[i] # "none",
             verb \in {"accepted", "expired"} => status[i] = "pending"
      PROVE  RowsAreNew' /\ LoadedPending'
  BY <1>1, <1>4, BeginCarries DEF ClosedInv, Arrives
<1>5. ASSUME NEW i \in Invitation, OpenLink(p, i) \/ SubmitAcceptance(p, i)
      PROVE  RowsAreNew' /\ LoadedPending'
  <2>1. PICK pc \in {"lapse", "user"} : Serve(p, pc, {}, i, "accepted")
    BY <1>5 DEF OpenLink, SubmitAcceptance, FindValidByToken
  <2>2. pc \in Phase /\ "accepted" \in Verb
    BY DEF Phase, Verb
  <2> QED BY <1>4, <1>5, <2>1, <2>2 DEF OpenLink, SubmitAcceptance, FindValidByToken
<1>6. ASSUME NEW i \in Invitation, ResendInvitation(p, i) \/ RevokeInvitation(p, i)
      PROVE  RowsAreNew' /\ LoadedPending'
  <2>1. PICK pc \in {"resend", "revoke"}, verb \in {"resend", "revoked"} :
           LoadRow(p, i, pc, verb)
    BY <1>6 DEF ResendInvitation, RevokeInvitation
  <2>2. pc \in Phase /\ verb \in Verb
    BY DEF Phase, Verb
  <2> QED BY <1>4, <2>1, <2>2 DEF LoadRow
<1> QED BY <1>2, <1>3, <1>5, <1>6 DEF Browse

LEMMA ContinueCarries ==
    ASSUME ClosedInv, NEW p \in Web, Continue(p)
    PROVE  RowsAreNew' /\ LoadedPending'
<1> USE WebNotCron
<1>1. CASE InsertInvitation(p)
  BY <1>1, WriteKeeps DEF InsertInvitation, Phase
<1>2. CASE SendMail(p)
  BY <1>2, QuietKeeps DEF SendMail, Phase
<1>3. CASE SaveUser(p)
  BY <1>3, QuietKeeps DEF SaveUser, Phase
<1>4. CASE AssignRole(p)
  BY <1>4, QuietKeeps DEF AssignRole, Phase
<1>5. CASE AssignCompany(p)
  BY <1>5, QuietKeeps DEF AssignCompany, Phase
<1>6. CASE MarkAccepted(p)
  BY <1>6, WriteKeeps DEF MarkAccepted, Phase
<1>7. CASE Resend(p)
  BY <1>7, QuietKeeps DEF Resend, Phase
<1>8. CASE Revoke(p)
  <2>1. CASE SeenBy(p) = "revoked"
    BY <1>8, <2>1, QuietKeeps DEF Revoke, Phase, SeenBy
  <2>2. CASE SeenBy(p) # "revoked"
    BY <1>8, <2>2, WriteKeeps DEF Revoke, Phase, SeenBy
  <2> QED BY <2>1, <2>2
<1>9. CASE Lapse(p)
  <2>1. Serving(p) /\ End(p)
    BY <1>9, AtServes DEF Lapse, Phase
  <2>2. \A i \in Invitation : status'[i] # status[i] => i = Inv(p)
    BY <1>9 DEF Lapse, ClosedInv, IInv, InvitationTypeOK
  <2> QED BY <2>1, <2>2, EndKeeps
<1> QED BY <1>1, <1>2, <1>3, <1>4, <1>5, <1>6, <1>7, <1>8, <1>9, LogCarries DEF Continue

LEMMA CommandCarries ==
    ASSUME ClosedInv, Command \/ CommandStep
    PROVE  RowsAreNew' /\ LoadedPending'
<1> USE CronIsProcess
<1>1. CASE StartExpire
  <2>1. PICK todo \in SUBSET {i \in Invitation : Overdue(i)}, i \in Invitation :
           i \in todo /\ Serve(Cron, "expire", todo \ {i}, i, "expired")
    BY <1>1 DEF StartExpire
  <2>2. /\ todo \ {i} \in SUBSET Invitation /\ "expire" \in Phase /\ "expired" \in Verb
        /\ \A j \in (todo \ {i}) \cup {i} : status[j] = "pending"
    BY <2>1 DEF Overdue, Phase, Verb
  <2> QED BY <1>1, <2>1, <2>2, BeginCarries DEF ClosedInv, StartExpire
<1>2. CASE StartReminders
  <2>1. PICK todo \in SUBSET PendingReminders, i \in Invitation :
           i \in todo /\ Serve(Cron, "remind", todo \ {i}, i, "reminded")
    BY <1>2 DEF StartReminders, PendingReminders
  <2>2. /\ todo \ {i} \in SUBSET Invitation /\ "remind" \in Phase /\ "reminded" \in Verb
        /\ \A j \in (todo \ {i}) \cup {i} : status[j] = "pending"
    BY <2>1 DEF PendingReminders, Phase, Verb
  <2> QED BY <1>2, <2>1, <2>2, BeginCarries DEF ClosedInv, StartReminders
<1>3. CASE Expire
  BY <1>3, WriteKeeps DEF Expire, Phase
<1>4. CASE SendReminder
  BY <1>4, QuietKeeps DEF SendReminder, Phase
<1>5. CASE StampReminder
  BY <1>5, QuietKeeps DEF StampReminder, Phase
<1> QED BY <1>1, <1>2, <1>3, <1>4, <1>5, LogCarries DEF Command, CommandStep

LEMMA ClosedInvKept ==
    ASSUME ClosedInv, [InvitationNext]_invitationVars
    PROVE  ClosedInv'
<1>1. IInv'
  BY NextIInv DEF ClosedInv
<1>2. RowsAreNew' /\ LoadedPending'
  <2>1. ASSUME NEW p \in Process, CrashRequest(p) PROVE RowsAreNew' /\ LoadedPending'
    BY <2>1, EndKeeps DEF CrashRequest, Serving
  <2>2. CASE InvitationTick \/ UNCHANGED invitationVars \/ \E r \in Role : DeleteRole(r)
    <3>1. UNCHANGED <<status, request>>
      BY <2>2 DEF InvitationTick, invitationVars, DeleteRole
    <3> QED BY <3>1 DEF ClosedInv, RowsAreNew, LoadedPending, Inserting, Holds, Serving, Inv,
               Todo, VerbOf, PhaseOf, SeenBy
  <2> QED BY <2>1, <2>2, BrowseCarries, ContinueCarries, CommandCarries
          DEF InvitationNext, InvitationStep
<1> QED BY <1>1, <1>2 DEF ClosedInv

LEMMA InitClosedInv == InvitationInit => ClosedInv
<1> SUFFICES ASSUME InvitationInit PROVE ClosedInv
  OBVIOUS
<1>1. \A p \in Process : ~Serving(p)
  BY DEF InvitationInit, Serving
<1> QED BY <1>1, InitIInv DEF ClosedInv, RowsAreNew, LoadedPending, Inserting

\* Whoever writes the status of a closed invitation revokes it, or saw it pending.
LEMMA WriterSawPending ==
    ASSUME ClosedInv, InvitationNext, NEW i \in Invitation,
           status[i] \in Closed, ~SawPending(i), status'[i] # status[i]
    PROVE  status'[i] = "revoked"
<1>1. ASSUME NEW p \in Process, Serving(p), Inv(p) = i, VerbOf(p) \in {"accepted", "expired"}
      PROVE  FALSE
  BY <1>1, HoldsInv DEF ClosedInv, LoadedPending, SawPending, SeenBy
<1>2. status \in [Invitation -> Status]
  BY DEF ClosedInv, IInv, InvitationTypeOK
<1>3. ASSUME NEW p \in Web, Browse(p) PROVE FALSE
  <2>1. PICK j \in Invitation : SaveForm(p, j)
    BY <1>3 DEF Browse, StartBulkInvite, OpenLink, SubmitAcceptance, ResendInvitation,
                RevokeInvitation, LoadRow
  <2>2. status[j] = "none" /\ status' = [status EXCEPT ![j] = "pending"]
    BY <2>1 DEF SaveForm, Fresh
  <2> QED BY <1>2, <2>2 DEF Closed
<1>4. ASSUME NEW p \in Web, Continue(p) PROVE status'[i] = "revoked"
  <2> USE WebNotCron
  <2>1. CASE InsertInvitation(p)
    <3>1. Serving(p) /\ PhaseOf(p) = "insert" /\ VerbOf(p) = "sent" /\ Inv(p) \in Invitation
      BY <2>1, VerbAt DEF InsertInvitation, ClosedInv, Phase
    <3>2. status[Inv(p)] = "none"
      BY <3>1 DEF ClosedInv, RowsAreNew, Inserting
    <3> QED BY <1>2, <2>1, <3>2 DEF InsertInvitation, Closed
  <2>2. CASE MarkAccepted(p)
    <3>1. Serving(p) /\ VerbOf(p) = "accepted"
      BY <2>2, VerbAt DEF MarkAccepted, ClosedInv, Phase
    <3> QED BY <1>1, <1>2, <2>2, <3>1 DEF MarkAccepted
  <2>3. CASE Lapse(p)
    <3>1. Serving(p) /\ VerbOf(p) = "accepted"
      BY <2>3, VerbAt DEF Lapse, ClosedInv, Phase
    <3> QED BY <1>1, <1>2, <2>3, <3>1 DEF Lapse
  <2>4. CASE Revoke(p)
    BY <1>2, <2>4 DEF Revoke
  <2>5. CASE SendMail(p) \/ WriteLog(p) \/ SaveUser(p) \/ AssignRole(p) \/ AssignCompany(p)
             \/ Resend(p)
    BY <2>5 DEF SendMail, WriteLog, SaveUser, AssignRole, AssignCompany, Resend
  <2> QED BY <1>4, <2>1, <2>2, <2>3, <2>4, <2>5 DEF Continue
<1>5. CASE CommandStep
  <2> USE CronIsProcess
  <2>1. CASE Expire
    <3>1. Serving(Cron) /\ VerbOf(Cron) = "expired"
      BY <2>1, VerbAt DEF Expire, ClosedInv, Phase
    <3> QED BY <1>1, <1>2, <2>1, <3>1 DEF Expire
  <2> QED BY <1>5, <2>1 DEF CommandStep, SendReminder, StampReminder, WriteLog
<1>6. /\ ~Command /\ ~InvitationTick
      /\ \A p \in Process : ~CrashRequest(p)
      /\ \A r \in Role : ~DeleteRole(r)
  BY DEF Command, StartExpire, StartReminders, InvitationTick, CrashRequest, DeleteRole
<1> QED BY <1>3, <1>4, <1>5, <1>6 DEF InvitationNext, InvitationStep

(***************************************************************************)
(* An accepted, expired or revoked invitation changes no more, but to be   *)
(* revoked, unless by a request that loaded it while it was pending: accept*)
(* and expire write over what they no longer look at, resend touches no    *)
(* status (InvitationService.php), and nobody inserts a row twice.         *)
(***************************************************************************)
THEOREM ClosedInvitationsStayClosed == InvitationSpec => ClosedStaysClosed
<1> DEFINE A == \A i \in Invitation :
                   status[i] \in Closed /\ ~SawPending(i) => status'[i] \in {status[i], "revoked"}
<1>1. ASSUME ClosedInv, [InvitationNext]_invitationVars PROVE [A]_invitationVars
  <2>1. CASE InvitationNext
    BY <1>1, <2>1, WriterSawPending
  <2> QED BY <1>1, <2>1
<1>2. ClosedInv /\ [InvitationNext]_invitationVars => ClosedInv'
  BY ClosedInvKept
<1> QED BY <1>1, <1>2, InitClosedInv, PTL DEF InvitationSpec, ClosedStaysClosed
-----------------------------------------------------------------------------
(***************************************************************************)
(* Scheduled reports.                                                      *)
(***************************************************************************)

JobRecord == [pc : {"notify", "run", "fail"}, report : Report, left : SUBSET Recipient]
Working(w) == job[w] # Free
ReportOf(w) == job[w].report

LEMMA JobTyped ==
    ASSUME ReportTypeOK, NEW w \in QueueWorker, Working(w)
    PROVE  job[w] \in JobRecord /\ ReportOf(w) \in Report
BY DEF ReportTypeOK, Working, Job, JobRecord, ReportOf

LEMMA WorkingAt ==
    ASSUME NEW w \in QueueWorker, job[w].pc \in {"notify", "run", "fail"}
    PROVE  Working(w)
BY DEF Working, Free

\* d's turn has come: whoever can be notified has been, and nobody else.
Turn(r, d) ==
    /\ told' \in [Report -> [Recipient -> Nat]]
    /\ told'[r][d] = IF d \in notifiable THEN told[r][d] + 1 ELSE told[r][d]
    /\ \A c \in Recipient \ {d} : told'[r][c] = told[r][c]
    /\ \A s \in Report \ {r} : told'[s] = told[s]

LEMMA TurnEffect ==
    ASSUME ReportTypeOK, NEW r \in Report, NEW d \in Recipient,
           told' = IF d \in notifiable THEN [told EXCEPT ![r][d] = @ + 1] ELSE told
    PROVE  Turn(r, d)
<1>1. told \in [Report -> [Recipient -> Nat]]
  BY DEF ReportTypeOK
<1>2. CASE d \in notifiable
  BY <1>1, <1>2 DEF Turn
<1>3. CASE d \notin notifiable
  BY <1>1, <1>3 DEF Turn
<1> QED BY <1>2, <1>3

\* The job of r goes on to the next of those left.
Turned(w, r, left, d) ==
    /\ d \in left
    /\ Working(w) /\ job[w].pc = "notify" /\ ReportOf(w) = r /\ job[w].left = left
    /\ Turn(r, d)
    /\ job' \in [QueueWorker -> Job]
    /\ Working(w)' /\ ReportOf(w)' = r /\ job'[w].left = left \ {d}
    /\ job'[w].pc = IF left = {d} THEN "run" ELSE "notify"

LEMMA NotifyEffect ==
    ASSUME ReportTypeOK, NEW w \in QueueWorker, NotifyRecipient(w)
    PROVE  \E r \in Report, left \in SUBSET Recipient, d \in Recipient : Turned(w, r, left, d)
<1>1. Working(w) /\ job[w] \in JobRecord /\ job[w].pc = "notify" /\ job \in [QueueWorker -> Job]
  BY WorkingAt, JobTyped DEF NotifyRecipient, ReportTypeOK
<1>2. PICK d \in job[w].left :
         /\ told' = IF d \in notifiable THEN [told EXCEPT ![job[w].report][d] = @ + 1] ELSE told
         /\ job' = [job EXCEPT ![w].left = @ \ {d},
                               ![w].pc = IF job[w].left = {d} THEN "run" ELSE "notify"]
  BY DEF NotifyRecipient
<1>3. PICK r \in Report, left \in SUBSET Recipient : job[w].report = r /\ job[w].left = left
  BY <1>1 DEF JobRecord
<1>9. d \in left /\ d \in Recipient
  BY <1>2, <1>3
<1>4. Turn(r, d)
  <2>1. told' = IF d \in notifiable THEN [told EXCEPT ![r][d] = @ + 1] ELSE told
    BY <1>2, <1>3
  <2> QED BY <1>9, <2>1, TurnEffect
<1>5. job' = [job EXCEPT ![w] = [job[w] EXCEPT !.left = left \ {d},
                                     !.pc = IF left = {d} THEN "run" ELSE "notify"]]
  BY <1>1, <1>2, <1>3
<1>6. /\ job'[w] = [job[w] EXCEPT !.left = left \ {d},
                                  !.pc = IF left = {d} THEN "run" ELSE "notify"]
      /\ job' = [job EXCEPT ![w] = job'[w]]
  BY <1>1, <1>5
<1>7. /\ job'[w].report = r /\ job'[w].left = left \ {d}
      /\ job'[w].pc = IF left = {d} THEN "run" ELSE "notify"
      /\ job'[w] \in JobRecord
  BY <1>1, <1>3, <1>6 DEF JobRecord
<1>8. Working(w)' /\ job' \in [QueueWorker -> Job]
  <2>1. PICK x \in JobRecord : job' = [job EXCEPT ![w] = x]
    BY <1>6, <1>7
  <2>2. job' \in [QueueWorker -> Job]
    BY <1>1, <2>1 DEF Job, JobRecord
  <2>3. Working(w)'
    BY <1>7 DEF Working, Free, JobRecord
  <2> QED BY <2>2, <2>3
<1>10. Turned(w, r, left, d)
  BY <1>1, <1>3, <1>4, <1>7, <1>8, <1>9 DEF ReportOf, Turned
<1> QED BY <1>9, <1>10

\* A date CalculateNextRun gives is a date, or none.
LEMMA NextRunType ==
    ASSUME NEW r \in Report, NEW t \in Nat
    PROVE  CalculateNextRun(r, t) \in Nat
<1>1. t \div Day \in Nat
  BY ReportAssumption
<1>2. Day \in Nat /\ Hour \in Nat
  BY ReportAssumption
<1>3. \A x, y, z \in Nat : (x + 1) * y + z \in Nat
  OBVIOUS
<1> QED BY <1>1, <1>2, <1>3 DEF CalculateNextRun

\* Dates are compared with a clock that shows a number.
ReportTyped == ReportTypeOK /\ now \in Nat

LEMMA TypesKept ==
    ASSUME ReportTyped, [ReportNext]_reportVars
    PROVE  ReportTyped'
<1> USE DEF ReportTyped, users
<1>1. CASE GenerateScheduledReports
  <2>1. \A r \in Report : Listed(r) => waiting[r] + 1 \in 0..MaxJobs
    BY <1>1, ReportAssumption DEF GenerateScheduledReports, ReportTypeOK
  <2> QED BY <1>1, <2>1 DEF GenerateScheduledReports, ReportTypeOK
<1>2. ASSUME NEW w \in QueueWorker, NEW r \in Report, Handle(w, r)
      PROVE  ReportTyped'
  <2>1. waiting' \in [Report -> 0..MaxJobs]
    BY <1>2, ReportAssumption DEF Handle, ReportTypeOK
  <2>2. Begun(r) \in Job
    BY DEF Job, Begun, ReportTypeOK
  <2>3. job' \in [QueueWorker -> Job]
    BY <1>2, <2>2 DEF Handle, ReportTypeOK
  <2> QED BY <1>2, <2>1, <2>3 DEF Handle, ReportTypeOK
<1>3. ASSUME NEW w \in QueueWorker, NotifyRecipient(w) PROVE ReportTyped'
  <2>1. PICK r \in Report, left \in SUBSET Recipient, d \in Recipient : Turned(w, r, left, d)
    BY <1>3, NotifyEffect
  <2> QED BY <1>3, <2>1 DEF NotifyRecipient, ReportTypeOK, Turned, Turn
<1>4. ASSUME NEW w \in QueueWorker, ReportThrows(w) PROVE ReportTyped'
  <2>1. job[w] \in JobRecord
    BY <1>4, WorkingAt, JobTyped DEF ReportThrows
  <2>2. job' \in [QueueWorker -> Job]
    BY <1>4, <2>1 DEF ReportThrows, ReportTypeOK, Job, JobRecord
  <2> QED BY <1>4, <2>2 DEF ReportThrows, ReportTypeOK
<1>5. ASSUME NEW w \in QueueWorker, MarkRun(w) PROVE ReportTyped'
  <2>1. ReportOf(w) \in Report
    BY <1>5, WorkingAt, JobTyped DEF MarkRun
  <2>2. CalculateNextRun(ReportOf(w), now) \in Nat
    BY <2>1, NextRunType
  <2>3. /\ nextRun' = [nextRun EXCEPT ![ReportOf(w)] = CalculateNextRun(ReportOf(w), now)]
        /\ told' = [told EXCEPT ![ReportOf(w)] = [d \in Recipient |-> 0]]
        /\ lost' \subseteq lost
        /\ job' = [job EXCEPT ![w] = Free]
        /\ UNCHANGED <<now, schedule, users, waiting, deaths>>
    BY <1>5 DEF MarkRun, ReportOf
  <2>4. nextRun' \in [Report -> Nat] /\ told' \in [Report -> [Recipient -> Nat]]
    BY <2>1, <2>2, <2>3 DEF ReportTypeOK
  <2>5. job' \in [QueueWorker -> Job]
    BY <2>3 DEF ReportTypeOK, Job
  <2> QED BY <2>3, <2>4, <2>5 DEF ReportTypeOK
<1>6. ASSUME NEW w \in QueueWorker, MarkFailed(w) PROVE ReportTyped'
  <2>1. ReportOf(w) \in Report
    BY <1>6, WorkingAt, JobTyped DEF MarkFailed
  <2> QED BY <1>6, <2>1 DEF MarkFailed, ReportTypeOK, Job, ReportOf
<1>7. ASSUME NEW w \in QueueWorker, JobDies(w) PROVE ReportTyped'
  <2>1. ReportOf(w) \in Report
    BY <1>7, JobTyped DEF JobDies, Working
  <2>2. deaths' \in 0..MaxDeaths
    BY <1>7, ReportAssumption DEF JobDies, ReportTypeOK
  <2> QED BY <1>7, <2>1, <2>2 DEF JobDies, ReportTypeOK, Job, ReportOf
<1>8. CASE ReportTick
  BY <1>8 DEF ReportTick, Tick, ReportTypeOK
<1>9. CASE UNCHANGED reportVars
  BY <1>9 DEF reportVars, ReportTypeOK
<1>10. ASSUME NEW d \in Recipient, UserLeaves(d) PROVE ReportTyped'
  BY <1>10 DEF UserLeaves, ReportTypeOK
<1> QED BY <1>1, <1>2, <1>3, <1>4, <1>5, <1>6, <1>7, <1>8, <1>9, <1>10
        DEF ReportNext, ReportStep, JobStep

LEMMA InitTyped == ReportInit => ReportTyped
<1> SUFFICES ASSUME ReportInit PROVE ReportTyped
  OBVIOUS
<1>1. now \in Nat /\ nextRun \in [Report -> Nat]
  BY DEF ReportInit, ClockInit
<1>2. waiting \in [Report -> 0..MaxJobs] /\ deaths \in 0..MaxDeaths
  BY ReportAssumption DEF ReportInit
<1>3. recipients \in [Report -> SUBSET Recipient] /\ notifiable \subseteq Recipient
  BY ReportAssumption DEF ReportInit
<1> QED BY <1>1, <1>2, <1>3 DEF ReportInit, ReportTyped, ReportTypeOK, Job

(***************************************************************************)
(* Every reachable state of the scheduled reports is well formed, however  *)
(* many queue workers there are (GenerateReportJob.php, ReportSchedule.php)*)
(***************************************************************************)
THEOREM ReportTypes == ReportSpec => []ReportTypeOK
<1>1. ReportTyped => ReportTypeOK
  BY DEF ReportTyped
<1> QED BY <1>1, InitTyped, TypesKept, PTL DEF ReportSpec
-----------------------------------------------------------------------------
(* One queue worker: what has been told of a report and what its job still *)
(* has to tell fit together.                                               *)

OneQueueWorker == \A v, w \in QueueWorker : v = w

Told(r, d) == d \in notifiable => told[r][d] > 0

\* A job has told all of its list that it has not left to tell.
ToldSoFar ==
    \A w \in QueueWorker :
        /\ job[w].pc = "notify" =>
               /\ job[w].left # {}
               /\ \A d \in recipients[ReportOf(w)] \ job[w].left : Told(ReportOf(w), d)
        /\ job[w].pc = "run" => \A d \in recipients[ReportOf(w)] : Told(ReportOf(w), d)

\* Unless a job of it died, a report has been told to nobody twice, and to
\* nobody at all that its job still has to tell, or while it is active and
\* no job of it runs.
Untold ==
    \A r \in Report \ lost :
        /\ \A d \in Recipient : told[r][d] <= 1
        /\ \/ \E w \in QueueWorker : Working(w) /\ ReportOf(w) = r
           \/ schedule[r] # "active"
           \/ \A d \in Recipient : told[r][d] = 0
        /\ \A w \in QueueWorker :
              job[w].pc = "notify" /\ ReportOf(w) = r => \A d \in job[w].left : told[r][d] = 0

ReportInv == ReportTyped /\ ToldSoFar /\ Untold

LEMMA HandleKeepsTold ==
    ASSUME OneQueueWorker, ReportInv, NEW w \in QueueWorker, NEW r \in Report, Handle(w, r)
    PROVE  ToldSoFar' /\ Untold'
<1>1. CASE ~IsDue(r)
  <2>1. UNCHANGED <<job, told, schedule, lost, recipients, notifiable>>
    BY <1>1 DEF Handle, users
  <2> QED BY <2>1 DEF ReportInv, ToldSoFar, Untold, Told, ReportOf, Working
<1>2. CASE IsDue(r)
  <2>1. \A v \in QueueWorker : v = w
    BY DEF OneQueueWorker
  <2>2. job'[w] = Begun(r)
    BY <1>2 DEF Handle, ReportInv, ReportTyped, ReportTypeOK
  <2>3. /\ UNCHANGED <<told, schedule, lost, recipients, notifiable>>
        /\ ~Working(w) /\ schedule[r] = "active"
    BY <1>2 DEF Handle, IsDue, Working, users
  <2>4. Working(w)' /\ ReportOf(w)' = r
    BY <2>2 DEF Working, Free, ReportOf, Begun
  <2>5. ToldSoFar'
    BY <2>1, <2>2, <2>3, <2>4 DEF ToldSoFar, Begun
  <2>7. job'[w].left \subseteq Recipient
    BY <2>2 DEF Begun, ReportInv, ReportTyped, ReportTypeOK
  <2>6. ASSUME NEW s \in Report \ lost
        PROVE  /\ \A d \in Recipient : told'[s][d] <= 1
               /\ \/ \E v \in QueueWorker : Working(v)' /\ ReportOf(v)' = s
                  \/ schedule'[s] # "active"
                  \/ \A d \in Recipient : told'[s][d] = 0
               /\ \A v \in QueueWorker :
                     job'[v].pc = "notify" /\ ReportOf(v)' = s =>
                         \A d \in job'[v].left : told'[s][d] = 0
    BY <2>1, <2>3, <2>4, <2>6, <2>7 DEF ReportInv, Untold
  <2> QED BY <2>3, <2>5, <2>6 DEF Untold
<1> QED BY <1>1, <1>2

LEMMA NotifyKeepsTold ==
    ASSUME OneQueueWorker, ReportInv, NEW w \in QueueWorker, NotifyRecipient(w)
    PROVE  ToldSoFar' /\ Untold'
<1>1. \A v \in QueueWorker : v = w
  BY DEF OneQueueWorker
<1>2. PICK r \in Report, left \in SUBSET Recipient, d \in Recipient : Turned(w, r, left, d)
  BY NotifyEffect DEF ReportInv, ReportTyped
<1>3. /\ d \in left
      /\ Working(w) /\ job[w].pc = "notify" /\ ReportOf(w) = r /\ job[w].left = left
      /\ Working(w)' /\ ReportOf(w)' = r /\ job'[w].left = left \ {d}
      /\ job'[w].pc = IF left = {d} THEN "run" ELSE "notify"
      /\ UNCHANGED <<schedule, lost, recipients, notifiable>>
  BY <1>2 DEF Turned, NotifyRecipient, users
<1>4. /\ told \in [Report -> [Recipient -> Nat]] /\ Turn(r, d)
      /\ recipients[r] \subseteq Recipient
  BY <1>2 DEF Turned, ReportInv, ReportTyped, ReportTypeOK
<1>5. \A c \in recipients[r] \ left : Told(r, c)
  BY <1>3 DEF ReportInv, ToldSoFar
<1>6. \A c \in recipients[r] \ (left \ {d}) : Told(r, c)'
  BY <1>3, <1>4, <1>5 DEF Told, Turn
<1>7. ToldSoFar'
  <2>1. job'[w].pc = "notify" => job'[w].left # {}
    BY <1>3
  <2>2. job'[w].pc = "run" => \A c \in recipients[r] : Told(r, c)'
    BY <1>3, <1>6
  <2>3. \A c \in recipients[r] \ job'[w].left : Told(r, c)'
    BY <1>3, <1>6
  <2> QED BY <1>1, <1>3, <2>1, <2>2, <2>3 DEF ToldSoFar, Told
<1>8. ASSUME NEW s \in Report \ lost
       PROVE  /\ \A c \in Recipient : told'[s][c] <= 1
              /\ \/ \E v \in QueueWorker : Working(v)' /\ ReportOf(v)' = s
                 \/ schedule'[s] # "active"
                 \/ \A c \in Recipient : told'[s][c] = 0
              /\ \A v \in QueueWorker :
                    job'[v].pc = "notify" /\ ReportOf(v)' = s =>
                        \A c \in job'[v].left : told'[s][c] = 0
  <2>1. CASE s # r
    <3>1. told'[s] = told[s]
      BY <2>1, <1>4 DEF Turn
    <3> QED BY <2>1, <3>1, <1>1, <1>3 DEF ReportInv, Untold
  <2>2. CASE s = r
    <3>1. \A c \in left : told[r][c] = 0
      BY <2>2, <1>3 DEF ReportInv, Untold
    <3>2. \A c \in Recipient : told[r][c] <= 1
      BY <2>2 DEF ReportInv, Untold
    <3>3. \A c \in Recipient : told'[r][c] <= 1
      BY <1>3, <1>4, <3>1, <3>2 DEF Turn
    <3>4. \A c \in left \ {d} : told'[r][c] = 0
      BY <1>4, <3>1 DEF Turn
    <3> QED BY <2>2, <1>1, <1>3, <3>3, <3>4
  <2> QED BY <2>1, <2>2
<1> QED BY <1>3, <1>7, <1>8 DEF Untold

LEMMA RunKeepsTold ==
    ASSUME OneQueueWorker, ReportInv, NEW w \in QueueWorker, MarkRun(w)
    PROVE  ToldSoFar' /\ Untold'
<1>1. \A v \in QueueWorker : v = w
  BY DEF OneQueueWorker
<1>2. PICK r \in Report : ReportOf(w) = r /\ Working(w)
  BY WorkingAt, JobTyped DEF MarkRun, ReportInv, ReportTyped
<1>3. /\ told' = [told EXCEPT ![r] = [d \in Recipient |-> 0]]
      /\ lost' = lost \ {r} /\ job' = [job EXCEPT ![w] = Free] /\ schedule' = schedule
  BY <1>2 DEF MarkRun, ReportOf
<1>4. told \in [Report -> [Recipient -> Nat]] /\ job'[w] = Free
  BY <1>3 DEF ReportInv, ReportTyped, ReportTypeOK
<1>5. \A v \in QueueWorker : job'[v].pc \notin {"notify", "run"} /\ ~Working(v)'
  BY <1>1, <1>4 DEF Free, Working
<1>6. ToldSoFar'
  BY <1>5 DEF ToldSoFar
<1>7. ASSUME NEW s \in Report \ lost'
      PROVE  /\ \A d \in Recipient : told'[s][d] <= 1
             /\ schedule'[s] # "active" \/ \A d \in Recipient : told'[s][d] = 0
  BY <1>1, <1>2, <1>3, <1>4, <1>7 DEF ReportInv, Untold
<1> QED BY <1>5, <1>6, <1>7 DEF Untold

\* A job that ends without a run leaves what was told as it was.
LEMMA EndKeepsTold ==
    ASSUME OneQueueWorker, ReportInv, NEW w \in QueueWorker, MarkFailed(w) \/ JobDies(w)
    PROVE  ToldSoFar' /\ Untold'
<1>1. \A v \in QueueWorker : v = w
  BY DEF OneQueueWorker
<1>2. PICK r \in Report : ReportOf(w) = r /\ Working(w)
  <2>1. Working(w)
    BY WorkingAt DEF MarkFailed, JobDies, Working
  <2> QED BY <2>1, JobTyped DEF ReportInv, ReportTyped
<1>3. /\ told' = told /\ job' = [job EXCEPT ![w] = Free] /\ lost \subseteq lost'
      /\ \/ schedule' = [schedule EXCEPT ![r] = "failed"]
         \/ schedule' = schedule /\ r \in lost'
  BY <1>2 DEF MarkFailed, JobDies, ReportOf
<1>4. /\ job'[w] = Free
      /\ r \notin lost' => schedule'[r] = "failed"
      /\ \A s \in Report \ {r} : schedule'[s] = schedule[s]
  BY <1>3 DEF ReportInv, ReportTyped, ReportTypeOK
<1>5. \A v \in QueueWorker : job'[v].pc \notin {"notify", "run"} /\ ~Working(v)'
  BY <1>1, <1>4 DEF Free, Working
<1>6. ToldSoFar'
  BY <1>5 DEF ToldSoFar
<1>7. ASSUME NEW s \in Report \ lost'
      PROVE  /\ \A d \in Recipient : told'[s][d] <= 1
             /\ schedule'[s] # "active" \/ \A d \in Recipient : told'[s][d] = 0
  BY <1>1, <1>2, <1>3, <1>4, <1>7 DEF ReportInv, Untold
<1> QED BY <1>5, <1>6, <1>7 DEF Untold

LEMMA ThrowKeepsTold ==
    ASSUME OneQueueWorker, ReportInv, NEW w \in QueueWorker, ReportThrows(w)
    PROVE  ToldSoFar' /\ Untold'
<1>1. \A v \in QueueWorker : v = w
  BY DEF OneQueueWorker
<1>2. job[w] \in JobRecord /\ Working(w)
  BY WorkingAt, JobTyped DEF ReportThrows, ReportInv, ReportTyped
<1>3. job'[w] = [job[w] EXCEPT !.pc = "fail"] /\ UNCHANGED <<told, lost, schedule, recipients, notifiable>>
  BY <1>2 DEF ReportThrows, users, ReportInv, ReportTyped, ReportTypeOK
<1>4. job'[w].pc = "fail" /\ ReportOf(w)' = ReportOf(w) /\ Working(w)'
  BY <1>2, <1>3 DEF ReportOf, JobRecord, Working, Free
<1> QED BY <1>1, <1>2, <1>3, <1>4 DEF ReportInv, ToldSoFar, Untold

LEMMA ReportInvKept ==
    ASSUME OneQueueWorker, ReportInv, [ReportNext]_reportVars
    PROVE  ReportInv'
<1>1. ReportTyped'
  BY TypesKept DEF ReportInv
<1>2. ToldSoFar' /\ Untold'
  <2>1. CASE GenerateScheduledReports \/ ReportTick \/ UNCHANGED reportVars
    <3>1. UNCHANGED <<job, told, schedule, lost, recipients, notifiable>>
      BY <2>1 DEF GenerateScheduledReports, ReportTick, reportVars, users
    <3> QED BY <3>1 DEF ReportInv, ToldSoFar, Untold, Told, ReportOf, Working
  <2>2. ASSUME NEW w \in QueueWorker, JobStep(w) \/ JobDies(w)
        PROVE  ToldSoFar' /\ Untold'
    BY <2>2, HandleKeepsTold, NotifyKeepsTold, ThrowKeepsTold, RunKeepsTold, EndKeepsTold
    DEF JobStep
  <2>3. ASSUME NEW d \in Recipient, UserLeaves(d) PROVE ToldSoFar' /\ Untold'
    <3>1. UNCHANGED <<job, told, schedule, lost, recipients>> /\ notifiable' \subseteq notifiable
      BY <2>3 DEF UserLeaves
    <3> QED BY <3>1 DEF ReportInv, ToldSoFar, Untold, Told, ReportOf, Working
  <2> QED BY <2>1, <2>2, <2>3 DEF ReportNext, ReportStep
<1> QED BY <1>1, <1>2 DEF ReportInv

LEMMA InitReportInv == ReportInit => ReportInv
<1> SUFFICES ASSUME ReportInit PROVE ReportInv
  OBVIOUS
<1>1. \A w \in QueueWorker : job[w].pc \notin {"notify", "run"}
  BY DEF ReportInit, Free
<1>2. \A r \in Report, d \in Recipient : told[r][d] = 0
  BY DEF ReportInit
<1> QED BY <1>1, <1>2, InitTyped DEF ReportInv, ToldSoFar, Untold

(***************************************************************************)
(* With one queue worker nobody is told of one due report twice, however   *)
(* many jobs the command has dispatched, unless a job died after telling   *)
(* some (GenerateReportJob.php's docblock; ReportEngine::process).         *)
(***************************************************************************)
THEOREM ToldOnceByOneWorker ==
    ASSUME OneQueueWorker
    PROVE  ReportSpec => []ToldOnce
<1>1. ReportInv => ToldOnce
  <2> SUFFICES ASSUME ReportInv, NEW r \in Report, NEW d \in Recipient, told[r][d] > 1
               PROVE  r \in lost
    BY DEF ToldOnce
  <2>1. told[r][d] \in Nat
    BY DEF ReportInv, ReportTyped, ReportTypeOK
  <2> QED BY <2>1 DEF ReportInv, Untold
<1>2. ReportInv /\ [ReportNext]_reportVars => ReportInv'
  BY ReportInvKept
<1> QED BY <1>1, <1>2, InitReportInv, PTL DEF ReportSpec

(***************************************************************************)
(* With one queue worker a schedule moves on to its next run only once     *)
(* everyone on its list who can be notified has been told of this one,     *)
(* whoever leaves meanwhile (ReportEngine::process calls markRun after the *)
(* loop, and markFailed whenever the loop throws).                         *)
(***************************************************************************)
THEOREM RunOnlyWhenAllTold ==
    ASSUME OneQueueWorker
    PROVE  ReportSpec => RunMeansAllTold
<1> DEFINE A == \A r \in Report :
                   nextRun'[r] # nextRun[r] =>
                       \A d \in recipients[r] \cap notifiable : told[r][d] > 0
<1>1. ASSUME ReportInv, [ReportNext]_reportVars PROVE [A]_reportVars
  <2> SUFFICES ASSUME NEW r \in Report, nextRun'[r] # nextRun[r], ReportNext
               PROVE  \A d \in recipients[r] \cap notifiable : told[r][d] > 0
    BY <1>1 DEF reportVars
  <2>1. PICK w \in QueueWorker : MarkRun(w)
    BY DEF ReportNext, ReportStep, JobStep, GenerateScheduledReports, Handle, NotifyRecipient,
           ReportThrows, MarkFailed, JobDies, UserLeaves, ReportTick
  <2>2. ReportOf(w) = r
    BY <1>1, <2>1 DEF MarkRun, ReportOf, ReportInv, ReportTyped, ReportTypeOK
  <2> QED BY <1>1, <2>1, <2>2 DEF ReportInv, ToldSoFar, Told, MarkRun
<1>2. ReportInv /\ [ReportNext]_reportVars => ReportInv'
  BY ReportInvKept
<1> QED BY <1>1, <1>2, InitReportInv, PTL DEF ReportSpec, RunMeansAllTold
-----------------------------------------------------------------------------
(***************************************************************************)
(* Under one clock.                                                        *)
(***************************************************************************)

\* A step of the whole is a step of each part, or leaves it alone.
LEMMA EachSteps ==
    ASSUME [Next]_vars
    PROVE  [InvitationNext]_invitationVars /\ [ReportNext]_reportVars
<1>1. CASE Tick /\ UNCHANGED <<invitationOnly, reportOnly>>
  BY <1>1 DEF InvitationNext, InvitationTick, ReportNext, ReportTick, invitationOnly, reportOnly
<1>2. CASE InvitationStep /\ UNCHANGED reportOnly
  <2>1. now' = now
    BY <1>2 DEF InvitationStep, Browse, Continue, Command, CommandStep, StartBulkInvite, SaveForm,
       OpenLink, SubmitAcceptance, ResendInvitation, RevokeInvitation, LoadRow,
       InsertInvitation, SendMail, WriteLog, Lapse, SaveUser, AssignRole, AssignCompany,
       MarkAccepted, Resend, Revoke, StartExpire, StartReminders, Expire, SendReminder,
       StampReminder, CrashRequest, DeleteRole
  <2> QED BY <1>2, <2>1 DEF InvitationNext, reportVars, reportOnly
<1>3. CASE ReportStep /\ UNCHANGED invitationOnly
  <2>1. now' = now
    BY <1>3 DEF ReportStep, GenerateScheduledReports, JobStep, JobDies, Handle, NotifyRecipient,
       ReportThrows, MarkRun, MarkFailed, UserLeaves
  <2> QED BY <1>3, <2>1 DEF ReportNext, invitationVars, invitationOnly
<1>4. CASE UNCHANGED vars
  BY <1>4 DEF vars, invitationOnly, reportOnly, invitationVars, reportVars
<1> QED BY <1>1, <1>2, <1>3, <1>4 DEF Next

(***************************************************************************)
(* What Console/Kernel.php schedules together implements each of the two   *)
(* specifications, fairness included: the commands share nothing but the   *)
(* clock, so all that is proved of one part holds of the whole.            *)
(***************************************************************************)
THEOREM EachPartIsImplemented == Spec => InvitationSpec /\ ReportSpec
<1>1. Init => InvitationInit /\ ReportInit
  BY DEF Init
<1> QED BY <1>1, EachSteps, PTL DEF Spec, InvitationSpec, ReportSpec

(***************************************************************************)
(* So no invitation promises access it has not given, and closed ones stay *)
(* closed, whatever the reports do meanwhile.                              *)
(***************************************************************************)
THEOREM ScheduledInvitations == Spec => []AcceptedHasAccess /\ ClosedStaysClosed
BY EachPartIsImplemented, AcceptedAlwaysHasAccess, ClosedInvitationsStayClosed, PTL
=============================================================================
