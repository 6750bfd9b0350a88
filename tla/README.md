# Verification of ui-library

TLA+ models of the parts of `quickerfaster/ui-library` (a Laravel / Livewire
package) whose behaviour depends on the order in which requests, jobs and users
act, TLC runs that check them on small instances, and TLAPS proofs for every
value of the constants. Paths below are relative to the repository (`src/...`
is the PHP source, which lies under `src/src/` of the tree; the library's two own
scripts lie under `src/public/assets/js`).

1. [Inventory](#1-inventory)
2. [Modules and how they read](#2-modules-and-how-they-read)
3. [Runs](#3-runs)
4. [Disagreements found](#4-disagreements-found)
5. [Proofs](#5-proofs)
6. [What is not modelled](#6-what-is-not-modelled)
7. [Plan](#7-plan)

## 1. Inventory

The library renders data tables and forms from configuration. Most of its files
are configuration, views and assets. What keeps state and has a protocol:

| Component | State | Operations | Hard because |
|---|---|---|---|
| **Workflow engine** (`Services/Workflow/WorkflowEngine.php`, `HasWorkflow`) | `workflows`, `workflow_steps`, `workflow_actions` rows, the status column of the entity | `start`, `approve` ("any" and "all"), `reject`, `recall`, `cancel`, events and the listener that copies the outcome | every method reads and checks first and opens its transaction afterwards, without a lock; the "all" mode logs outside the transaction; events follow the commit |
| **Approvals** (`Services/Approvals`, `Livewire/Approvals`) | none of its own; the approver roles, bypass roles, `WorkflowContext` | `canApprove`, `canSubmit`, `resolve`; the panel and the actions bar call the engine | the answer changes while a workflow runs; roles may resolve only inside a context |
| **Workflow definitions** (`WorkflowDefinitionWizard`) | `workflow_definitions` and their steps | edit, version, activate | a running workflow must keep the tiers it was submitted with |
| **Background exports** (`Jobs/GenerateExport`, `ExportChunk`, `FinalizeExportZip`, `RecentExports`) | the `exports` row, `export_chunks` rows and files, the ZIP, queued jobs | claim, count, dispatch, write a part, check and finalize, zip, clean up, cancel, clear, `failed()` | chunks run in parallel; workers are killed; jobs outlive `retry_after`; cancellation is unlocked |
| **Background imports** (`Jobs/ProcessImport`, `ProcessImportChunk`, `ImportForm`, `RecentImports`) | the `imports` row, `import_chunks` rows, the uploaded file, queued jobs | claim, read, create chunks, process rows, finalize, cancel (two ways), clear, `failed()` | as above, and cancellation deletes the file and the rows under the jobs |
| **Invitations** (`InvitationService`, `BulkInvite`, `AcceptInvitation`, `InvitationDataTable`, two commands) | `invitations`, `invitation_logs`, `users`, role and company links | create, accept, resend, revoke, expire, remind | several statements without a transaction; overlapping accept / revoke / expire; a list loaded before a loop |
| **Scheduled reports** (`GenerateScheduledReports`, `GenerateReportJob`, `ReportEngine`, `ReportSchedule`) | `last_run_at`, `next_run_at`, `status` | due, dispatch, generate, notify, mark | dispatched again until the first job has run; a recipient that throws |
| **Wizards** (`Wizard`, `WizardForm`) | step, created records, step data, the session; the form's record | next, back, save, complete, `cancelKeep`, `cancelDelete` | two components that talk through browser events; the entity and the workflow written without the engine |
| **Value generator** (`ValueGenerator`) | one counter row per sequence | next value | statements where one is meant |
| **Workspace tabs** (`WorkspaceTabs`, `quicker-faster.js`) | the lists of open and closed tabs, in the page and in the session | open, switch, close, close to the right, close all, reopen | every window writes the whole lists; clicks queue up while the page is left |
| **Sidebar filter** (`quicker-faster.js`) | the field, the hidden items, the highlighted one | type, clear, move, activate | a debounce, and Livewire replacing the list |
| **Command palette** (`QuickActionsPanel`, `quick-actions.js`) | query, selection, open or not, each twice: browser and component | open, type, move, choose, close | an index chosen on one side is looked up on the other |
| **Settings** (`SettingsManager`) | rows per scope, a cache per context | get, set, flush | the cache outlives the row |
| **Data tables and forms** (`DataTable`, `DataTableForm`, `FilterPanel`) | page, filters, selection, form fields | select, filter, bulk and row actions, save | selection against a changing page |
| Notifications, navigation, discovery, access control, documents, printing, console | configuration, or rows of external packages | rendering and look-ups | little |
| Vendored front end (`public/bootstrap`) | third-party theme and plugins | none of the library's | nearly all JavaScript of the repository by lines |

How they interact: the Livewire components call the engine in a web request;
the engine asks `ApprovalGuard`, which asks the resolver; it dispatches events
whose listener is `syncStatusFromWorkflow`. `ExportController` and `ImportForm`
create a row and push a job; the jobs push further jobs; `RecentExports`,
`RecentImports` and `ImportForm` change the same rows from other requests. The
scheduler starts the commands of invitations and reports; wizards call the
engine; a sidebar item opens a workspace tab. Shared state is the database (and
the files of a job), the session, and what a browser page remembers, never the
memory of a PHP process.

What makes each correct:

* *Engine*: no tier is cleared before the ones before it; a workflow has one outcome;
  an "all" tier is approved by all and never left stuck; every decision has its
  audit row; one pending workflow per entity; the entity agrees with the outcome.
* *Exports*: finalized once and with all the parts; an ended export stays ended;
  an export always ends.
* *Imports*: success only over chunks that are all done; an import that was
  stopped is not turned into a success; an import always ends.
* *Invitations*: no acceptance without its access, no access without a trace,
  nobody left without a mail or reminded twice, nothing pending for ever.
* *Reports*: a due date is run once, for everybody, or marked failed.
* *Wizards*: one record per wizard however one clicks; completion means submitted;
  a pending record has its workflow; every click is answered.
* *Value generator*: who asks later gets more.
* *Tabs, sidebar, palette*: lists well formed, the active tab open, what is shown
  is what was asked for, what is chosen is what is executed.

`PROJECT.json` lists the hazards at their lines, with the properties that would
catch them, or the reason why none does.

## 2. Modules and how they read

```
ApprovalLifecycle   abstract: one run of a workflow, no requests or users
       ^ INSTANCE (Lifecycle, refinement mapping at the end of WorkflowEngine)
WorkflowEngine      requests, guards, transactions, events, crashes, roles
       ^ EXTENDS
MCWorkflowEngine    constants for TLC
WorkflowEngineProofs <- WorkflowRegimeProofs

JobQueue            Laravel's queue as the jobs use it (external)
   ^            ^
ExportPipeline  ImportPipeline  <- ImportPipelineProofs
   ^
ExportPipelineProofs   (with JobQueueProofs)

Clock               now(), for dates that are compared
   ^            ^
Invitations   ScheduledReports
       ^        ^
      ScheduledWork <- MCScheduledWork
       ^
ScheduledWorkProofs

Wizards   ValueGenerator
   ^        ^
  RecordEntry <- MCRecordEntry
      ^
RecordEntryProofs

SidebarFilter   WorkspaceTabs   CommandPalette
       ^            ^               ^
       +------- Workspace ----------+  <- MCWorkspace
                    ^
             WorkspaceProofs
```

### WorkflowEngine

A `Worker` is a PHP request. Its record in `request` is what the method in
progress has read, and `pc` where it is. A method is two or more steps: the
guards (`...Check`), the transaction (`...Commit`; for an approval `MarkTier`, which
opens it, and `AdvanceToNextStep`, which commits), the event (`DeliverEvent`).
Other requests may act between any two, and `Crash` may end the request there: a
killed process, a failing database and a throwing listener look the same, and an
open transaction is rolled back.

| Code | Actions |
|---|---|
| `start` | `SubmitCheck` (duplicate check and initiator), `SubmitCommit` |
| `approve`, mode any | `ApproveAnyCheck`, `MarkTier`, `AdvanceToNextStep` |
| `approve` -> `approveAllMode` | `ApproveAllCheck`, `LogApproval`, `CountApprovals`, `MarkTier`, `AdvanceToNextStep` |
| `reject`, `recall`, `cancel` | `RejectCheck` ... `CancelCommit` |
| `advanceToNextStep` | its look for the next pending step in `MarkTier`, its write in `AdvanceToNextStep` |
| events, `syncStatusFromWorkflow` | `DeliverEvent`; none for `cancel`, whose event has no listener |
| `resolve`, `canApprove`, `canSubmit` | `Resolve`, `CanAct`, `Required` |
| a role granted or revoked | `ChangeRole` |

Choices:

* The transaction of an approval is two steps, because it updates only its own step's
  row before it reads which step comes next: two on different steps of one workflow do
  not wait for each other, and neither sees what the other has not committed. Two on
  the same step do wait (`Locked`). The other transactions start with the one row their
  guard read (`RejectCommit` with the step's, where it waits too) and read nothing after
  it, so each is one step. The action rows refer to the workflow's row by a foreign key,
  which on some databases makes such overlaps end in a deadlock: a `Crash` here. The
  model allows the overlaps that do not.
* The component's reload and the engine's guards read the same rows in one go
  and are one step. So are, in `approveAllMode`, resolving the required users
  and counting the approvals.
* `recall` has no test that the caller submitted the workflow: only the interface
  offers it to the submitter alone. The model lets anyone recall.
* Roles in `Contextual` resolve only while `WorkflowContext` is set, as it is
  when the guard asks for an approval and is not when `approveAllMode` counts or
  when `start` asks for the initiator.
* A tier may name users beside roles; a user named directly is a role only he
  holds.
* The listeners are registered by the consuming application as the docs of
  `HasWorkflow` tell it to: for approved, rejected and recalled. They copy the status of
  the object the event carries, not of the row. Nobody listens to `WorkflowCancelled`.
* Each workflow has its own `Steps`, so a definition changed between two
  submissions is covered; rows are never deleted.

### JobQueue, ExportPipeline, ImportPipeline

`JobQueue` is external: what `Illuminate\Queue` does with jobs that say
`tries = 1`. A worker reserves a job, runs it, removes it. An exception removes
it and calls `failed()`. A killed worker leaves it reserved, and after
`retry_after` the queue hands it out and calls `failed()` instead of `handle()`.
`retry_after` is shorter by default than these jobs' timeouts, so the same may
happen while the first attempt goes on (`FailOverrun`). The `sync` connection
runs each pushed job at once; its order is one of those the model allows, without
the kills.

| Code | Actions |
|---|---|
| `GenerateExport::handle` | `ClaimExport` (locked), `CountRows`, `DispatchChunk` once per chunk |
| `ExportChunk::handle` | `LoadExport`, `WritePart`, `CheckAndFinalize` (locked) |
| `FinalizeExportZip::handle` | `CheckStatus` (locked), `BuildArchive`, `Complete`, `CleanUp` once per part |
| catch blocks and `failed()` | `JobFails`, `AbandonedJobFails`, `SlowJobFails` |
| `cancelExport`, `performClearAllExports` | `CancelChecked`, `CancelWritten`, `Clear` |
| `ProcessImport::handle` | `ClaimImport` (locked), `ReadFile`, `CreateChunk` once per chunk |
| `ProcessImportChunk::handle` | `ClaimChunk` (locked), `ProcessRows`, `FinalizeIfComplete` (locked) |
| `RecentImports::cancelImport` | `CancelChecked`, `CancelUnlinked`, `CancelWritten` |
| `ImportForm::cancelImport` | `CancelChecked`, `CancelFormWritten`, `CancelFormDropped` |
| `RecentImports::performClearAll` | `Clear` |

Choices:

* Rows are counted in slices of `chunk_size`. The application may change how many
  the query finds (`ChangeRows`), which is how a chunk comes to be empty.
* Listing the parts and zipping them is one step, as is deleting the file and
  the row of one part. A part's file is there exactly while its row is.
* A job pushed inside a transaction becomes visible at its commit, as on the
  database connection.
* The branch of `checkAndFinalizeExport` for an export without `total_rows` is
  not reached: the total is set before the first chunk is pushed.
* Of an import's rows we keep whether some were refused (`failed_rows > 0`).
  A chunk may throw at any time: the check for cancellation, the file reader and
  anything unforeseen end in the same catch block. `filesize` is called with a
  path relative to the storage disk (`ProcessImportChunk.php:131`), which, unless
  the working directory happens to be that disk, throws in every chunk: one of
  the outcomes `ProcessRows` allows.

### Clock, Invitations, ScheduledReports, ScheduledWork

A `Web` process is a PHP request, `Cron` the process of the scheduler, which runs
one command after the other. A process' record says which statement comes next
(`pc`), the invitation in hand, the status its copy was loaded with, and those the
loop has still to treat. `CrashRequest` ends it anywhere; `died` remembers over what.
`standing` are the roles that have a row, `Offer` and `For` the role and the company an
invitation names, if any.

| Code | Actions |
|---|---|
| `submitPaste`, `submitCsv`, `create` | `StartBulkInvite`; `InsertInvitation`, `SendMail`, `WriteLog` for each address |
| `InvitationRecordListener` | `SaveForm` (one transaction with the form's save) |
| `findValidByToken`, from the page's `mount` and `accept` | `OpenLink`, `SubmitAcceptance`, `Lapse` |
| `InvitationService::accept` | `SaveUser`, `AssignRole` (`MayBeGiven`, `GiveRole`), `AssignCompany`, `MarkAccepted`, `WriteLog` |
| `resendInvitation`, `revokeInvitation` of the table | `ResendInvitation`, `RevokeInvitation`; `Resend`, `SendMail`, `Revoke`, `WriteLog` |
| `invitations:expire` | `StartExpire`; `Expire`, `WriteLog` for each |
| `invitations:send-reminders` | `StartReminders`; `SendReminder`, `StampReminder`, `WriteLog` for each |
| `reports:generate-scheduled` | `GenerateScheduledReports` (dispatches a job per due schedule) |
| `GenerateReportJob`, `ReportEngine::process` | `Handle`, `NotifyRecipient` for each (who resolves to nobody is passed over), `MarkRun`; `ReportThrows`, `MarkFailed`; `JobDies` |
| a role or a user deleted by the application | `DeleteRole`, `UserLeaves` |

Choices:

* Eloquent writes only what differs from the loaded copy, so revoking with a copy
  that was revoked already writes nothing (`Revoke`), and an acceptance writes its
  status whatever the row says by then (`MarkAccepted`).
* `audit` keeps the 'accepted' rows of the log, the only ones a property speaks of.
* A lapse closes the invitation without a log row or an event, as the code does.
* Which roles may be assigned is configuration: `GiveRole` gives the role offered or the
  default one, whichever the hierarchy allows, and nothing where none is offered or its
  row is gone. `assignRole` throws on a name without a row, which is a `CrashRequest`.
* A schedule's list of recipients is a set of ids, perhaps empty; some may resolve to no
  user who can be notified, and a user who left does not come back.
* Dates are small numbers; `Lifetime`, `Window`, `Day` and `Hour` stand for the
  configured days. A schedule's time of day is within its day (`Hour`).

### Wizards, ValueGenerator, RecordEntry

A `Page` is a browser window on the wizard: the component's state as last sent,
the form mounted in it, and the calls that wait. Clicking Next makes the component
dispatch `saveStepForm`; the form saves and dispatches `stepFormSaved`; the wizard
advances or finishes. The user may click again before the answer (`impatient`).

| Code | Actions |
|---|---|
| `Wizard::mount`, the blade | `Open`, `Show`, `Mount` |
| `next`, `previous`, `finish`, `cancelKeep`, `confirmCancel` + `cancelDelete` | `Click`, then `ServerStep`: `HandleNext`, `HandlePrevious`, `Finish`, `Leave`, `CancelDelete` |
| `WizardForm::save` | `SaveForm`: `Create`, `Edit` (`WriteStatus`, `Start`) or `Refuse` |
| `handleStepFormSaved`, `advance` | `HandleStepFormSaved`, `Advance` |
| `completeWizard`, the rest of `finish` | `WritePending`, `LookForWorkflow`, `StartWorkflow`, `CompletionEnds`; `CompletionDies` between |
| a record deleted in a table, a reload, a lost answer | `DeleteRow`, `Close`, and the faults of `ServerStep` |
| `ValueGenerator::getNextSequence` | `FindRow`, `InsertRow`, `UpdateRow`, `ReadValue` |

Choices: every window of a user shares one session entry per wizard, written back
whole. The insert of a counter row that exists throws or adds a row without
effect, depending on the application's table. `cancelDelete` is one transaction.

* An edit writes every allowed field, and the status may be one of them (the docs'
  example configuration has it): as the form loaded it, as it was when the form created
  the record, or as the user chose. `WriteStatus` allows both, and Pending starts a
  workflow. Statuses other than Draft and Pending are not told apart.
* `start` looks for a pending workflow before it inserts one, so two windows may start two
  of a record; `workflow` counts them. The look and the insert of a form's auto-start are
  one step, inside the transaction of its save.
* A record deleted in a table is soft-deleted (`trashed`): forms still find and edit it,
  completion does not. Restoring it is not modelled.
* The wizard's primary model is that of step 0 and no other step's; the code compares
  model classes, so a wizard with two steps on one model is not covered.

### SidebarFilter, WorkspaceTabs, CommandPalette, Workspace

A call a window has dispatched waits (`MaxWaiting` in the palette) until the
component answers it, in order; a page that is left takes its calls along or
leaves them `adrift`. `flight` and `panel` of the palette are the request under
way and the component's own state, `input`, `visible`, `hidden` and `bound` the
browser's: `wire:model.live.debounce` binds what the field holds, and sends it, only
after the pause.

| Code | Actions |
|---|---|
| `openTab`, `switchTab`, `closeTab`, `reopenLastClosed`, `closeAllToRight`, `closeAll` | `Handle` inside `AnswerTabs` or `AnswerAdrift` |
| clicks, keys, context menu of `quicker-faster.js` | `ClickTab`, `PressTabKey`, `OpenWorkspaceTab`, `OpenFromSidebar` |
| `mount`, `livewire:navigated` | `LoadPage`, `LeavePage` |
| `applySidebarFilter`, its debounce, clear, Escape | `TypeFilter`, `FilterTimer`, `ClearFilter` |
| arrows, Enter, morphs | `MoveSidebarSelection`, `ActivateSidebarSelection`, `SidebarMorphed`, `SidebarReplaced` |
| `quick-actions.js` | `OpenPanel`, `ClosePanel`, `TypeQuery`, `FilterActions`, `MoveSelection`, `SelectAction`, `PressShortcut` |
| `QuickActionsPanel` | `After`, `AnswerPanel`, `UpdateQuery`, `ClickAction` |

Choices: tabs have the ids `uniqid` gives, never given twice. The palette's ranking is
one of a few given orders. `Blank` are the queries `empty(trim())` takes for none, "0"
among them. A shortcut's action may be one the registry does not know. `close-others` is
left out: the script sends it with `tabId` where the handler wants `keepTabId`, so it
always throws.

## 3. Runs

All on two TLC workers; every action of every module fires in a passing run.

| Run | Checks | Instance | States |
|---|---|---|---|
| `engine_serial` | `TypeOK`, `ApprovedEntityIsBacked`, `ImplementsLifecycle` | one request at a time, 2 users, 2 submissions (the second without tiers), a contextual role, a bypass user, an initiator tier, 1 role change, 1 killed request | 38 thousand |
| `engine_concurrent` | `TiersInOrder`, `EveryDecisionLogged`, `AllModeComplete`, `LastApprovalCloses` | 2 requests, 3 users, tiers any / all / any, static roles | 372 thousand |
| `export` | `TypeOK`, `FinalizingHasAllParts`, `SoleFinalizerCompletes`, `NeverRestarts`, `Settles` | 2 workers, up to 3 chunks, 1 fault, 1 change of the table | 308 thousand |
| `import` | `TypeOK`, `DoneMeansAllChunksDone`, `OutcomeStands`, `Settles` | 2 workers, up to 3 chunks, 1 fault | 92 thousand |
| `scheduled` | `InvitationTypeOK`, `AcceptedHasAccess`, `AccessIsTraceable`, `PendingWasMailed`, `RemindedOnce`, `ClosedStaysClosed`, `OverdueIsClosed`, `ReportTypeOK`, `ToldOnce`, `RunMeansAllTold`, `DueReportsAreSettled` | 2 invitations of one person into 2 companies, one to a role and one to none, 2 roles, 2 web requests, the commands, 1 crash or deleted role; 1 daily report to 2 recipients or nobody, 1 queue worker, 2 queued jobs, 1 killed job; 3 instants | 399 thousand |
| `entry` | `WizardTypeOK`, `OneLivePrimary`, `CompletionMeansSubmitted`, `NoStepSkipped`, `WorkflowMatchesRecord`, `ClicksAreAnswered`, `LaterIsLarger` | 2 windows, a wizard of 1 or 2 forms and a review step with or without a form, 5 clicks, 1 fault; 3 callers, 4 values | 326 thousand |
| `workspace` | `SidebarAgrees`, `TabsWellFormed`, `ActiveIsOpen`, `RefreshKeepsTabs`, `ChosenIsExecuted`, `PaletteAgrees` | 2 windows, room for 2 tabs and 2 closed ones, 3 pages, 4 events; 3 sidebar items; 2 actions of which a query finds one, and the query "0" | 1.7 million |
| `engine_duplicate`, `engine_rejection`, `engine_crash`, `export_race`, `import_partial` | one property each, violated | smaller | |

Why the bounds are enough. Every race in this code is between a request that has
read and another that writes, so two workers meet them all; two more would only
repeat the second one's part. Three users, two of whom hold each role, give an
"all" tier a first, a last and an outside approver; three tiers give a first, a
middle and a last. Three chunks give two that finish together while a third has
done so or is still to come. One fault is enough to reach every `failed()`; more
of them lead only to outcomes already ended. Deadlock checking is off because a
closed workflow and an ended job may rightly have nothing left to do.

In `scheduled`, `entry` and `workspace` parts that share nothing but the run are used
from different initial states, so that their states add up and do not multiply; each
part has its full bounds there. Two invitations of one person are the case in which the
access of one could be taken for the other's; two requests and the scheduler overlap in
every pair of handlers. Three instants take an invitation from sent over due to be
reminded to overdue. Room for two tabs with three pages makes every third opening evict;
a query that finds the second of two actions makes an index mean something else in
either list. The wizard's safety was also checked with two faults (615 thousand states),
the tabs by themselves with 5 events (4.2 million), and the palette with three actions.

What the properties say:

* `ImplementsLifecycle` is a refinement: with requests one at a time, whatever is
  killed in between, the rows go through the states of `ApprovalLifecycle` (in
  sequence, one outcome, one pending run per entity).
* `TiersInOrder` holds even for stale requests and overlapping transactions: an approval
  that commits after another request approved the tier, or rejected the workflow, skips
  no tier. What it says of a pending workflow is that the tiers before its current one
  are approved, not that the current one is open: `current_step` can move back (section 4).
* `AllModeComplete` compares sets where the code compares counts. It needs static,
  context-free roles and no bypass users, and is checked and proved under these:
  `approveAllMode` resolves the required users anew each time, outside the
  context, and counts a bypass user's approval like any other.
* `LastApprovalCloses`: once every required user has approved a pending tier, a
  request that will close it is alive. Checked without crashes; `engine_crash`
  shows what one does.
* `ApprovedEntityIsBacked` is claimed for requests one at a time, because the
  events of two overlapping ones may reach the entity in either order. The workflow
  behind an approved entity is approved, or was cancelled after it had been: nothing
  takes that back to the entity.
* `FinalizingHasAllParts` and `SoleFinalizerCompletes`: an export is handed to
  the finalizer with all its parts, and delivers them all when one finalizer was
  dispatched, under any mix of cancelling, clearing, kills and overruns. With
  two finalizers it may not (`export_race`).
* `NeverRestarts`, `OutcomeStands`: late jobs may replace one outcome by another
  (the code does) but bring nothing back to life, and never turn a stopped import
  into a success.
* `DoneMeansAllChunksDone`: nothing finishes after the totals were written.
* `Settles` (both pipelines): a job ends. For exports it is claimed while the
  exported table stands still: a chunk that finds its slice empty returns without
  a row and without checking, and the export then stays in progress.

* `AcceptedHasAccess` holds wherever `accept` dies, because the status is written
  last: the account, the company if one is named, and the offered or the default role
  as long as both have a row, if one was offered. `AccessIsTraceable` says the
  price: access can outlive a revocation, but the log, or a request that died, tells
  where it came from.
* `ClosedStaysClosed`: only a request that loaded the row while it was pending can
  overwrite a closed status (and those do: accept, revoke and expire overwrite each
  other). Revoking may close again what was closed otherwise.
* `OverdueIsClosed`: the scheduler closes what is overdue, whatever dies on the way.
* `ToldOnce`, `RunMeansAllTold`, `DueReportsAreSettled`: duplicates dispatched before
  the first job has run find the schedule not due any more; a failure in the middle
  never counts as a run, nor leaves the schedule due for ever. "All" are those on the
  list who can be notified when the run is recorded; the others are passed over in silence.
* `OneLivePrimary`: a second save edits what the first created, through reloads, lost
  answers and back and forth. Excepted is an impatient user one of whose records was
  deleted for good elsewhere: two forms can then be in create mode at once.
* `CompletionMeansSubmitted` excepts a record that a form wrote back to an older status.
* `NoStepSkipped` is claimed for a user who waits; a double click on Next skips a step.
* `WorkflowMatchesRecord`: a Pending record has exactly one pending workflow and no other
  record has any. They come apart only where `start` threw or died and was swallowed,
  where two starts overlapped, where `cancelDelete` overtook `finish`, or where a form
  wrote the status back.
* `LaterIsLarger`: overlapping callers may be given one value (below), later ones not.
* `ActiveIsOpen` excepts clicks that reached a tab another call had closed by then.
* `RefreshKeepsTabs` is about the window that wrote last; the others' changes are lost.
* `ChosenIsExecuted` is about clicks while no call is under way, also within the pause
  after a key; a click while the query is being answered picks by an index of a list no
  longer there.

**Fairness**, in the pipelines' `Settles`: weak fairness of what each worker does by
itself, and of the queue failing an abandoned job. The code justifies both by running
under `queue:work` with `retry_after`; nothing obliges a user to cancel or clear, and no
fault must happen. In `scheduled`: the scheduler starts `invitations:expire` and
`reports:generate-scheduled` again and again (`Console/Kernel.php` has them run daily
and hourly), a command that has begun goes on, and a queue worker works; web requests
may stop anywhere. In `entry`: the server answers a call it has received, unless it is
lost; nobody is obliged to click. The tabs, the sidebar, the palette and the generator
have no liveness property. The engine has no liveness property: nothing obliges a person
to approve.

Each property of a passing run has a mutant: a plausible slip in one mapped
definition (for instance `>=` for `>`, a status left out of a list, steps
ordered backwards) under which TLC finds the property violated.

## 4. Disagreements found

Each is a run that TLC must find violated.

* `engine_duplicate`: two submissions of an entity both pass the check that is to
  "prevent duplicate active workflows", made outside the transaction.
* `engine_rejection`: an approval that read the workflow before a rejection
  committed approves the rejected workflow.
* `engine_crash`: a request that dies between logging the last approval of an
  "all" tier and its transaction leaves the tier pending for good; everybody is
  told he has already approved.
* `export_race`: `checkAndFinalizeExport` lets a "finalizing" export through, so
  two chunks dispatch `FinalizeExportZip` each; the second overwrites the ZIP
  while the first deletes the parts.
* `import_partial`: a chunk that throws has no failed rows, so an import that lost
  it is "completed" and not "completed_with_errors".

Met while modelling, stated here without a run of their own; the properties of the
passing runs are worded around them:

* Engine: the docblock of `cancel` says it "restores the workflowable to a cancelled
  state" (`WorkflowEngine.php:438`); it updates the workflow alone, and nothing listens
  to the event. An approval on an earlier tier, read before and committed after one on a
  later tier, writes `current_step` back to a tier that is approved; nobody can approve
  there, and the workflow can only be recalled.
* Roles: the comment at `InvitationService.php:82` speaks of "the hierarchy of roles the
  inviting user is allowed to assign"; `:88` reads `$invitation->createdBy`, where the
  model has the relation `creator` and the column `created_by` (`Invitation.php:51-54`),
  so the inviter is null and the roles asked for are those of whoever is logged in where
  the link is opened. A role that has no row any more is passed over and the invitation
  accepted without it.
* Invitations: two overlapping acceptances both succeed; accept, revoke and expire
  overwrite each other from stale copies; a command that dies between the mail and
  `reminded_at` reminds twice; resending a closed invitation mails a link that does
  not work; an invitation that lapses when its link is opened gets no log row.
* Reports: a second queue worker may run a due report twice; a schedule once failed
  is never tried again; `calculateNextRun` adds a day to now, so a run after midnight
  skips one. A report that reached nobody counts as run.
* Record status: a form opened before a submission and saved after it writes Draft over
  Pending, and the workflow stays; a form that writes Pending may start a workflow beside
  the one of `completeWizard`, and `cancelDelete` cancels one of the two
  (`Wizard.php:299-303`).
* Wizards: see the exceptions named in section 3; besides, an answer lost between
  the save and the event leaves an orphan draft, and a first record deleted
  elsewhere shadows the second when the wizard completes, which stays a draft. Steps
  without a model between others, or reviewed forms before the last step, let the user
  skip a form (`FormsFirst`, section 5).
* `ValueGenerator.php:49-51` says the table "guarantees no collisions"; UPDATE and
  SELECT are separate statements, and two overlapping callers may read the same value.
  `:45` says "starting from 1"; the row is inserted at 1 and advanced before it is read.
* Tabs: "tabs survive page refreshes" (`docs/components/workspace-tabs.md`) fails for
  two windows, which overwrite each other's session; the tab evicted is the first one
  that is not active, not the least recently used.
* Sidebar: "the filter — including any active query — survives SPA navigation"
  (`docs/components/sidebar-filter.md:76`); the field is part of the page that is
  replaced (`SidebarReplaced`), and the new one is empty.
* Palette: "0" lists everything on the server while the script filters by it; the
  selected index outlives a close by the server, so Enter may run an action that is not
  highlighted; Enter inside the sidebar's debounce uses the old list.

## 5. Proofs

`tlapm` checks every proof of the eight proof modules, for any sets of users,
roles, entities, requests and workers and any bounds. The assumptions are those
of the modules on their constants (`ConstantsAssumption`, `QueueAssumption`,
`ExportAssumption`, `ImportAssumption`, `InvitationAssumption` and so on: what type
each has), evaluated by TLC in every run.

| Theorem | Says | Argument |
|---|---|---|
| `WorkflowEngineProofs!TypeCorrect` | `Spec => []TypeOK` | inductive as it stands |
| `WorkflowEngineProofs!TiersClearedInOrder` | `Spec => []TiersInOrder` | `OrderInv` |
| `WorkflowEngineProofs!DecisionsAreLogged` | `Spec => []EveryDecisionLogged` | `AuditInv` |
| `WorkflowRegimeProofs!AllModeNeedsEveryone` | `StaticRoles => (Spec => []AllModeComplete)` | `AllInv` |
| `WorkflowRegimeProofs!LastApproverCloses` | `NothingFails => (Spec => []LastApprovalCloses)` | `ClosingInv` |
| `WorkflowRegimeProofs!ApprovedEntitiesAreBacked` | `OneRequest => (Spec => []ApprovedEntityIsBacked)` | `SerialInv` |
| `WorkflowRegimeProofs!EngineImplementsLifecycle` | `OneRequest => (Spec => ImplementsLifecycle)` | refinement, below |
| `WorkflowRegimeProofs!OneActiveWhenSerial` | `OneRequest => (Spec => []OneActiveWorkflow)` | from the refinement |
| `WorkflowRegimeProofs!RejectionFinalWhenSerial` | `OneRequest => (Spec => RejectionIsFinal)` | from the refinement |
| `ExportPipelineProofs!ExportTypes` | `Spec => []TypeOK` | part of `IInv` |
| `ExportPipelineProofs!FinalizedWithAllParts` | `Spec => []FinalizingHasAllParts` | `IInv` |
| `ExportPipelineProofs!EndedExportsStayEnded` | `Spec => NeverRestarts` | from `IInv` and the guards |
| `ExportPipelineProofs!OneFinalizerCompletes` | `Spec => []SoleFinalizerCompletes` | `SoleInv` |
| `ImportPipelineProofs!ImportTypes` | `Spec => []TypeOK` | inductive with the queue's types |
| `ImportPipelineProofs!SuccessIsWhole` | `Spec => []DoneMeansAllChunksDone` | below |
| `ImportPipelineProofs!EndedImportsStand` | `Spec => OutcomeStands` | from the invariant and the locked guards |
| `ScheduledWorkProofs!InvitationTypes` | `InvitationSpec => []InvitationTypeOK` | part of `IInv` |
| `ScheduledWorkProofs!AcceptedAlwaysHasAccess` | `InvitationSpec => []AcceptedHasAccess` | `IInv` |
| `ScheduledWorkProofs!AccessAlwaysTraceable` | `InvitationSpec => []AccessIsTraceable` | `IInv` |
| `ScheduledWorkProofs!PendingAlwaysMailed` | `InvitationSpec => []PendingWasMailed` | `IInv` |
| `ScheduledWorkProofs!RemindedAtMostOnce` | `InvitationSpec => []RemindedOnce` | `IInv` |
| `ScheduledWorkProofs!ClosedInvitationsStayClosed` | `InvitationSpec => ClosedStaysClosed` | `ClosedInv` |
| `ScheduledWorkProofs!ReportTypes` | `ReportSpec => []ReportTypeOK` | with what each job is at |
| `ScheduledWorkProofs!ToldOnceByOneWorker` | `OneQueueWorker => (ReportSpec => []ToldOnce)` | `ReportInv` |
| `ScheduledWorkProofs!RunOnlyWhenAllTold` | `OneQueueWorker => (ReportSpec => RunMeansAllTold)` | from `ReportInv` |
| `ScheduledWorkProofs!EachPartIsImplemented` | `Spec => InvitationSpec /\ ReportSpec` | step by step |
| `WorkspaceProofs!FilterAgrees` | `SidebarSpec => []SidebarAgrees` | inductive with the types |
| `WorkspaceProofs!TabsAreWellFormed` | `TabsSpec => []TabsWellFormed` | `TabsInv` |
| `WorkspaceProofs!ActiveTabIsOpen` | `TabsSpec => []ActiveIsOpen` | part of `TabsInv` |
| `WorkspaceProofs!ReloadKeepsTabs` | `TabsSpec => []RefreshKeepsTabs` | with `TabsInv` |
| `WorkspaceProofs!ChosenActionRuns` | `PaletteSpec => []ChosenIsExecuted` | part of `PaletteInv` |
| `WorkspaceProofs!PaletteSettles` | `PaletteSpec => []PaletteAgrees` | from `PaletteInv` |
| `WorkspaceProofs!EachPartIsImplemented` | `Spec => SidebarSpec /\ TabsSpec /\ PaletteSpec` | step by step |
| `RecordEntryProofs!WizardTypes` | `WizardSpec => []WizardTypeOK` | part of `RecordInv` |
| `RecordEntryProofs!CompletionIsSubmission` | `WizardSpec => []CompletionMeansSubmitted` | `SubmitInv` |
| `RecordEntryProofs!WorkflowsMatchRecords` | `WizardSpec => []WorkflowMatchesRecord` | `MatchInv` |
| `RecordEntryProofs!NoStepIsSkipped` | `FormsFirst => (WizardSpec => []NoStepSkipped)` | `SkipInv` |
| `RecordEntryProofs!OneLivePrimaryRecord` | `WizardSpec => []OneLivePrimary` | `NewestInv` and `OneInv` |
| `RecordEntryProofs!LaterValuesAreLarger` | `GeneratorSpec => LaterIsLarger` | `GeneratorInv` |
| `RecordEntryProofs!EachPartIsImplemented` | `Spec => WizardSpec /\ GeneratorSpec` | step by step |

Some theorems have a hypothesis, and each is the condition under which the run checks
the property, because without it the code breaks it (section 4):

* `OneRequest`, one worker. `engine_duplicate`, `engine_rejection` and the events that
  may overtake each other take two. Role changes, retries and kills stay unlimited.
* `NothingFails`: no kills (`engine_crash` shows what one does) and no change of roles
  while tiers are open, since a role revoked may leave a tier with enough approvals and
  nobody about to count them. Any number of requests may overlap.
* `StaticRoles`: no role changes, no bypass users and no contextual roles; section 3
  says why.
* `OneQueueWorker`: as `GenerateReportJob`'s docblock has it; two may take one report.
* `FormsFirst`: the steps with a model come first, and only the last step of all may be
  both reviewed and a form. Otherwise the wizard does skip steps, also for a user who
  waits: a step without a model offers Finish wherever it stands (`wizard.blade.php`),
  and `next` goes on from a review step without saving its form. `Layouts` in the run
  are such wizards; TLC finds `NoStepSkipped` violated for others.

The arguments:

* *Order of tiers.* `TiersInOrder` is not inductive: a stale request could hold a
  tier that is yet to come, and an open transaction have read a tier that others approve
  before it commits. What saves the order is that a decided tier stays decided
  (`Forward`). So `OrderInv` adds that whatever was in front of the tier a request holds,
  and of the next one its transaction has read, is decided (`Behind`), and each commit
  prolongs what is decided without a gap (`PrefixStays`), though the current tier may go
  back within it.
* *The log.* A tier of "all" mode is approved by a transaction that writes no row of its
  own (`ApprovalRow`); `AuditInv` adds that its request wrote one before (`HasLogged`).
* *"All" mode.* Counting to the size of a set proves nothing about it unless one
  counts inside it. `AllInv` adds that every approver of a tier is among the users
  its roles resolve to, and that a request about to complete a tier has seen them
  all; `FS_Subset` then turns equal sizes into equal sets. `ClosingInv`, for the other
  direction, names for each tier that has all its approvals the request that will close it.
* *One request at a time.* `SerialInv` says that what a request has read is still so
  when it acts (`UpToDate`), and that the tiers from the current one on are pending
  (`InStep`), which overlapping transactions would break. Under it every commit is a
  step of `ApprovalLifecycle`, and every check, event, kill and change of roles a
  stutter; one lemma per action. What every step of `ApprovalLifecycle` keeps (one run
  at a time, outcomes final) then holds of the engine.
* *Parts of an export.* `IInv` adds that one `GenerateExport` at most is at work,
  that there are no chunks before it has counted, that every chunk and part after
  that is numbered within the count, and that parts are deleted only after the
  outcome has been written. So as many parts as the total are all of them, and
  they stay while the export is "finalizing".
* *One finalizer.* `SoleInv` adds that each chunk is dispatched, written and checked
  once (`ChunkOnce`), and each `FinalizeExportZip` likewise (`FinalizeOnce`). So as
  long as one was dispatched (`Sole`), that one finds the export not completed and all
  parts there, and nobody deletes them between its look and its ZIP (`SoleBuilds`).
* *Imports.* The invariant adds that one `ProcessImport` at most is at work, that there
  is no chunk before it has counted and none ahead of the one it is creating, that
  each is processed by one worker, whose row says so until its rows are stored, and
  that only a stopped import loses its chunks to the form.
* *Invitations.* Each process is somewhere its handler can be (`Steered`), an acceptance
  past a statement has what it gave (`Granted`; access is never taken away, but with a
  role that is deleted, and then no role is owed any more), an access given has a trace
  (`Traced`: the log row, a request past the user's save, or a death), the mail comes
  right after the insert (`MailFollows`), and the stamp right after the reminder
  (`StampFollows`: whoever is in the command's list was not reminded, or a command died
  over it). `ProgressKeeps` says once what a step of one process must show for the
  others' parts to survive it; there is one lemma per action. `ClosedInv` adds that a
  row is inserted once, by the only request that knows of it, and that accept and expire
  go on only with copies loaded while pending.
* *Reports.* `ReportInv` relates a job to what was told: it has told all it has not left
  to tell, those aside who cannot be notified (`ToldSoFar`), and unless a job of it died
  a due report has been told to nobody it still has to tell, or to nobody at all while
  no job of it runs (`Untold`).
* *Tabs.* The bounds and the distinctness of a list do not survive a call by themselves: a
  tab may be opened into a copy that another window wrote. `TabsInv` holds of every
  copy there is (the session, each window, and the component of a call adrift, whose
  answer is ignored), and adds that ids are given away in order and that the id of a tab
  still to be opened is in no copy and in no other call.
* *Palette.* A click sends an index. `PaletteInv` adds that a click while no call is under
  way is never kept waiting and that the component is as it was when it was sent, that
  the last call brings the query that is bound, and that the field differs from that
  query only within the pause, or because a close under way has emptied it.
* *Wizards.* A wizard has a copy in the session, one in each page, and one that each
  `finish()` under way works on. `RecordInv` says of all of them that what they list was
  saved, that a step's record is of that step and listed, and that none is past the
  first step without a primary record; and of each form and each `stepFormSaved` on its
  way that it names a record of its step. `SubmitInv` adds that a page at the end, or a
  `finish()` past its first statement, has a primary record that is no draft, or was
  written back (`NotYet`: what moved on once becomes a draft again in no other way).
  `MatchInv` names for each Pending record without a workflow the `finish()` about to
  start one (`Backed`), and says that what `finish()` works on exists and is Pending
  once written (`Held`), records with a start too few or too many aside (`Astray`).
* *A user who waits.* `PatientInv` says what waiting buys: one call or one save at a
  time, of the step on the screen, whose form edits the primary record as long as it
  lives. Each copy after a step comes from a copy before it (`CopiesDerived`), so
  `SkipInv` (no copy is past a step not saved) and `NewestInv` (only the record the
  form edits may live) are each shown once per way of coming about.
* *A user who does not wait.* `OneInv`: while nothing listed was deleted, all of a page's
  copy, forms and calls name one primary record, or one form is still to create it.
* *Value generator.* The counter never falls, is at least every value handed out, and
  a caller that has advanced it sees more than was handed out before it asked.
* *Compositions.* Every step of `ScheduledWork`, `RecordEntry` and `Workspace` is a step
  of each part or leaves it alone, so what is proved of a part holds in the whole;
  fairness is passed on as it is.

Checked by TLC only: liveness (`Settles`, `OverdueIsClosed`, `DueReportsAreSettled`,
`ClicksAreAnswered`), which is out of the prover's reach. Every invariant and every
action property of a passing run is a theorem.

## 6. What is not modelled

* Notifications, their recipients and channels: they change no state the
  properties speak of. That a throwing notification makes a committed transition
  look failed is a hazard without a property.
* Workspace scoping of approvers, the request list and the history view: filters
  on what is shown.
* The contents of parts, archives and error reports; row validation and
  conversion; downloads and the expiry of their tokens.
* Several exports or imports at once: they share no rows.
* Navigation, discovery, field types, printing, documents, views and the other
  console commands: functions of configuration, or scaffolding.
* Of the wizards: steps that are custom components, `saveDraft`, the checks of single
  fields. Of the generator: the MAX fallback used without a sequence table. Of the
  tabs: `close-others`, the context menu and the overflow layout. Of the palette:
  favourites, categories (which permute what is shown) and the ranking by use.
* Settings (a cached look-up whose one hazard is visible in its line), data tables
  and their forms (queries and rendering).
* All other JavaScript: `src/public/bootstrap` is a vendored dashboard theme with its
  plugins (three.js, amCharts, Leaflet, DataTables, jKanban and so on), third-party
  code that makes up almost all of the repository's JavaScript by lines. The library's
  own scripts, `quicker-faster.js` and `quick-actions.js`, are modelled but for the
  date picker, breadcrumbs and layout they set up.

## 7. Plan

Done: the engine with its abstract specification, the two pipelines over one
queue, invitations and scheduled reports, wizards and the value generator, and
what surrounds the pages (tabs, sidebar, palette), with proofs of every safety
property the runs check. Left, in this order:

1. `DataTables`: selection, filters, pages and bulk actions over changing rows.
2. The definition wizard: versions and hydration from the model.
