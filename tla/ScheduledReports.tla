--------------------------- MODULE ScheduledReports ---------------------------
(***************************************************************************)
(* Scheduled reports: Console/Commands/GenerateScheduledReports.php, the   *)
(* job it dispatches, ReportEngine::process and ReportSchedule.            *)
(*                                                                         *)
(* A worker runs one job at a time and keeps the copy of the schedule it   *)
(* loaded; no row is locked, so what keeps a report from going out twice   *)
(* is that the job asks isDue() again.                                     *)
(***************************************************************************)
EXTENDS Clock, FiniteSets

CONSTANTS
    Report, Recipient,
    Lists,          \* the lists of recipients a report may have
    Repeating,      \* those whose frequency calculateNextRun knows
    Day, Hour,      \* the length of a day, and the hour reports are due
    QueueWorker,
    MaxJobs,        \* bound: jobs of one schedule waiting
    MaxDeaths       \* bound: workers killed

ASSUME ReportAssumption ==
    /\ Lists \subseteq SUBSET Recipient
    /\ Repeating \subseteq Report
    /\ Day \in Nat \ {0}
    /\ Hour \in 0..(Day - 1)
    /\ MaxJobs \in Nat
    /\ MaxDeaths \in Nat

VARIABLES
    schedule,    \* ReportSchedule.status
    recipients,  \* ReportSchedule.recipients, ids no row need have
    notifiable,  \* the ids that resolve to a user who can be notified
    nextRun,     \* ReportSchedule.next_run_at
    waiting,     \* GenerateReportJobs of each schedule on the queue
    job,         \* what each worker is in the middle of
    told,        \* told[r][d]: notifications of r's current due date sent to d
    lost,        \* schedules whose job died since their last run
    deaths

users == <<recipients, notifiable>>
reportVars == <<now, schedule, users, nextRun, waiting, job, told, lost, deaths>>

Free == [pc |-> "free"]
Job == {Free} \cup [pc : {"notify", "run", "fail"}, report : Report, left : SUBSET Recipient]

ReportTypeOK ==
    /\ schedule \in [Report -> {"active", "failed"}]
    /\ recipients \in [Report -> SUBSET Recipient]
    /\ notifiable \subseteq Recipient
    /\ nextRun \in [Report -> Nat]
    /\ waiting \in [Report -> 0..MaxJobs]
    /\ job \in [QueueWorker -> Job]
    /\ told \in [Report -> [Recipient -> Nat]]
    /\ lost \subseteq Report
    /\ deaths \in 0..MaxDeaths

ReportInit ==
    /\ ClockInit
    /\ \E s \in {"active", "failed"} : schedule = [r \in Report |-> s]
    /\ recipients \in [Report -> Lists]
    /\ notifiable \in SUBSET Recipient
    /\ nextRun = [r \in Report |-> now]
    /\ waiting = [r \in Report |-> 0]
    /\ job = [w \in QueueWorker |-> Free]
    /\ told = [r \in Report |-> [d \in Recipient |-> 0]]
    /\ lost = {}
    /\ deaths = 0
-----------------------------------------------------------------------------
Listed(r) == schedule[r] = "active" /\ nextRun[r] # 0 /\ nextRun[r] <= now
IsDue(r) == schedule[r] = "active" /\ IsPast(nextRun[r])

\* Mutant: the time of day is set without adding the day.
SameDay(r, t) == IF r \in Repeating THEN (t \div Day) * Day + Hour ELSE 0

\* now()->addDay()->setTimeFromTimeString(time); no known frequency, no next run
CalculateNextRun(r, t) == IF r \in Repeating THEN (t \div Day + 1) * Day + Hour ELSE 0

\* The hourly command dispatches a job for every schedule that is due, whether
\* or not an earlier job of it still waits.
GenerateScheduledReports ==
    /\ \E r \in Report : Listed(r)
    /\ \A r \in Report : Listed(r) => waiting[r] < MaxJobs
    /\ waiting' = [r \in Report |-> IF Listed(r) THEN waiting[r] + 1 ELSE waiting[r]]
    /\ UNCHANGED <<now, schedule, users, nextRun, job, told, lost, deaths>>

\* generate succeeded; an empty list is no reason not to run.
Begun(r) ==
    [pc |-> IF recipients[r] = {} THEN "run" ELSE "notify",
     report |-> r, left |-> recipients[r]]

\* Mutant: the job does not ask again whether its schedule is due.
HandleUnchecked(w, r) ==
    /\ job[w] = Free
    /\ waiting[r] > 0
    /\ waiting' = [waiting EXCEPT ![r] = @ - 1]
    /\ job' = [job EXCEPT ![w] = Begun(r)]
    /\ UNCHANGED <<now, schedule, users, nextRun, told, lost, deaths>>

Handle(w, r) ==
    /\ job[w] = Free
    /\ waiting[r] > 0
    /\ waiting' = [waiting EXCEPT ![r] = @ - 1]
    /\ job' = IF IsDue(r)
              THEN [job EXCEPT ![w] = Begun(r)]
              ELSE job
    /\ UNCHANGED <<now, schedule, users, nextRun, told, lost, deaths>>

\* Mutant: the loop stops at the first recipient who cannot be notified.
NotifyUntilMissing(w) ==
    LET r == job[w].report
    IN  /\ job[w].pc = "notify"
        /\ \E d \in job[w].left :
              /\ told' = IF d \in notifiable THEN [told EXCEPT ![r][d] = @ + 1] ELSE told
              /\ job' = [job EXCEPT ![w].left = @ \ {d},
                                    ![w].pc = IF job[w].left = {d} \/ d \notin notifiable
                                              THEN "run" ELSE "notify"]
        /\ UNCHANGED <<now, schedule, users, nextRun, waiting, lost, deaths>>

\* An id that resolves to nobody is passed over.
NotifyRecipient(w) ==
    LET r == job[w].report
    IN  /\ job[w].pc = "notify"
        /\ \E d \in job[w].left :
              /\ told' = IF d \in notifiable THEN [told EXCEPT ![r][d] = @ + 1] ELSE told
              /\ job' = [job EXCEPT ![w].left = @ \ {d},
                                    ![w].pc = IF job[w].left = {d} THEN "run" ELSE "notify"]
        /\ UNCHANGED <<now, schedule, users, nextRun, waiting, lost, deaths>>

\* A user is deleted.
UserLeaves(d) ==
    /\ d \in notifiable
    /\ notifiable' = notifiable \ {d}
    /\ UNCHANGED <<now, schedule, recipients, nextRun, waiting, job, told, lost, deaths>>

\* generate, a channel or markRun's save throws: markFailed follows, and nobody
\* is told any more.
ReportThrows(w) ==
    /\ job[w].pc \in {"notify", "run"}
    /\ job' = [job EXCEPT ![w].pc = "fail"]
    /\ UNCHANGED <<now, schedule, users, nextRun, waiting, told, lost, deaths>>

\* Only the changed columns are saved: neither of the two undoes the other.
MarkRun(w) ==
    LET r == job[w].report
    IN  /\ job[w].pc = "run"
        /\ nextRun' = [nextRun EXCEPT ![r] = CalculateNextRun(r, now)]
        /\ told' = [told EXCEPT ![r] = [d \in Recipient |-> 0]]
        /\ lost' = lost \ {r}
        /\ job' = [job EXCEPT ![w] = Free]
        /\ UNCHANGED <<now, schedule, users, waiting, deaths>>

\* Mutant: the failure is written in words the schedule does not know.
MarkError(w) ==
    /\ job[w].pc = "fail"
    /\ schedule' = [schedule EXCEPT ![job[w].report] = "error"]
    /\ job' = [job EXCEPT ![w] = Free]
    /\ UNCHANGED <<now, users, nextRun, waiting, told, lost, deaths>>

MarkFailed(w) ==
    /\ job[w].pc = "fail"
    /\ schedule' = [schedule EXCEPT ![job[w].report] = "failed"]
    /\ job' = [job EXCEPT ![w] = Free]
    /\ UNCHANGED <<now, users, nextRun, waiting, told, lost, deaths>>

\* The worker is killed, or something that is no Exception is thrown.
JobDies(w) ==
    /\ job[w] # Free
    /\ deaths < MaxDeaths
    /\ deaths' = deaths + 1
    /\ lost' = lost \cup {job[w].report}
    /\ job' = [job EXCEPT ![w] = Free]
    /\ UNCHANGED <<now, schedule, users, nextRun, waiting, told>>

JobStep(w) ==
    \/ \E r \in Report : Handle(w, r)
    \/ NotifyRecipient(w)
    \/ ReportThrows(w)
    \/ MarkRun(w)
    \/ MarkFailed(w)

ReportStep ==
    \/ GenerateScheduledReports
    \/ \E w \in QueueWorker : JobStep(w) \/ JobDies(w)
    \/ \E d \in Recipient : UserLeaves(d)

ReportTick == Tick /\ UNCHANGED <<schedule, users, nextRun, waiting, job, told, lost, deaths>>

ReportNext == ReportStep \/ ReportTick

\* The scheduler starts the command every hour and the workers take what waits.
ReportFairness ==
    /\ WF_reportVars(GenerateScheduledReports)
    /\ \A w \in QueueWorker : WF_reportVars(JobStep(w))

ReportSpec == ReportInit /\ [][ReportNext]_reportVars /\ ReportFairness
-----------------------------------------------------------------------------
(***************************************************************************)
(* With one queue worker, as GenerateReportJob's docblock has it, nobody   *)
(* is told twice of one due report, however often the command dispatches   *)
(* it before the job runs, unless a job died after telling some.           *)
(***************************************************************************)
ToldOnce ==
    \A r \in Report : (\E d \in Recipient : told[r][d] > 1) => r \in lost

(***************************************************************************)
(* A schedule moves on to its next run only once everyone on its list who  *)
(* can be notified has been told of this one: a failure in the middle never*)
(* counts as a run, and nobody passed over costs another his report.       *)
(***************************************************************************)
RunMeansAllTold ==
    [][\A r \in Report :
           nextRun'[r] # nextRun[r] =>
               \A d \in recipients[r] \cap notifiable : told[r][d] > 0]_reportVars

(***************************************************************************)
(* A report that is due is run or marked failed in the end.                *)
(***************************************************************************)
DueReportsAreSettled == \A r \in Report : IsDue(r) ~> ~IsDue(r)
=============================================================================
