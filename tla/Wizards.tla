------------------------------- MODULE Wizards -------------------------------
(***************************************************************************)
(* Wizards: Http/Livewire/Wizards/Wizard.php and WizardForm.php, as        *)
(* wizard.blade.php puts them on a page.                                   *)
(*                                                                         *)
(* A page holds two Livewire components, the wizard and the form of the    *)
(* step it shows, that know of each other by events only.  Each answers    *)
(* its own calls one after the other; between the two, and between pages,  *)
(* anything may come first.  What the server keeps of a wizard is in the   *)
(* session and the records; the rest lives in the browser, so an answer    *)
(* that never arrives leaves the page as it was.                           *)
(***************************************************************************)
EXTENDS Naturals, Sequences, SequencesExt

CONSTANTS
    Page,           \* browser windows of one user, hence of one session
    Steps,          \* how many steps the wizard has, the first one primary
    Layouts,        \* which of them may be backed by a model
    Review,         \* those marked isReview
    MaxClicks,      \* bound: what the user does
    MaxFaults       \* bound: answers lost, requests killed, records deleted

Step == 0..(Steps - 1)
Id == 1..MaxClicks  \* a click creates one record at most

ASSUME WizardAssumption ==
    /\ Steps \in Nat \ {0}
    /\ \A models \in Layouts : 0 \in models /\ models \subseteq Step
    /\ Review \subseteq Step \ {0}
    /\ MaxClicks \in Nat
    /\ MaxFaults \in Nat

VARIABLES
    models,      \* the steps of this wizard that have a model
    page,        \* page[p]: the Wizard component as its page holds it
    forms,       \* forms[p]: the forms it has, the mounted one last
    calls,       \* calls[p]: the calls waiting for the wizard
    completing,  \* completing[p]: where finish() is, the component it works on
    session,     \* what the session keeps of the component
    record,      \* record[r]: its step and its status
    trashed,     \* the records that are soft-deleted
    workflow,    \* how many pending workflows each record has
    impatient,   \* somebody clicked before the last click was answered
    parted,      \* records whose workflow threw, died, or was not the only one,
                 \* and those deleted while finish() was at work on them
    setBack,     \* records a form wrote back from Pending to Draft
    clicks, faults

browser == <<page, forms, calls>>
database == <<record, trashed, workflow>>
ghosts == <<parted, setBack>>
wizardVars == <<models, browser, completing, session, database, impatient, ghosts, clicks, faults>>

Closed == [open |-> FALSE]
Fresh == [open |-> TRUE, step |-> 0, data |-> [k \in Step |-> 0], created |-> <<>>]
Wizard == [open : {TRUE}, step : 0..Steps, data : [Step -> Id \cup {0}], created : Seq(Id)]

\* A form edits its record, or creates it if that is 0.  Those that have left the
\* page stay as long as one of them has a save to do.
Form == [step : Step, record : Id \cup {0}, saves : Nat]

Absent == [step |-> 0, status |-> "absent"]
Status == {"absent", "Draft", "Pending", "deleted"}
Call == [name : {"next", "previous", "finish", "cancelKeep", "cancelDelete", "stepFormSaved"},
         record : Id \cup {0}, step : Step]

Idle == [at |-> "idle"]
Exists(r) == record[r].status \in {"Draft", "Pending"}
FormStep(k) == k \in models \ Review

WizardTypeOK ==
    /\ models \in Layouts
    /\ page \in [Page -> Wizard \cup {Closed}]
    /\ forms \in [Page -> Seq(Form)]
    /\ calls \in [Page -> Seq(Call)]
    /\ completing \in [Page -> [at : {"update", "look", "start"}, wizard : Wizard] \cup {Idle}]
    /\ session \in Wizard \cup {Closed}
    /\ record \in [Id -> [step : Step, status : Status]]
    /\ trashed \subseteq Id
    /\ workflow \in [Id -> Nat]
    /\ impatient \in BOOLEAN
    /\ parted \subseteq Id
    /\ setBack \subseteq Id
    /\ clicks \in 0..MaxClicks
    /\ faults \in 0..MaxFaults

WizardInit ==
    /\ models \in Layouts
    /\ page = [p \in Page |-> Closed]
    /\ forms = [p \in Page |-> <<>>]
    /\ calls = [p \in Page |-> <<>>]
    /\ completing = [p \in Page |-> Idle]
    /\ session = Closed
    /\ record = [r \in Id |-> Absent]
    /\ trashed = {}
    /\ workflow = [r \in Id |-> 0]
    /\ impatient = FALSE
    /\ parted = {}
    /\ setBack = {}
    /\ clicks \in {0, MaxClicks}
    /\ faults = 0
-----------------------------------------------------------------------------
(* Answers *)

\* The form of the step w is at, which creates a record if its own is gone; it
\* finds one that is only trashed.
Mount(w) ==
    LET r == w.data[w.step]
    IN  IF w.step \in models
        THEN <<[step |-> w.step, record |-> IF r # 0 /\ Exists(r) THEN r ELSE 0, saves |-> 0]>>
        ELSE <<>>

Saving(f) == f.saves > 0
Busy(fs) == \E i \in DOMAIN fs : Saving(fs[i])

\* The page shows w; another step brings a form of its own.
Show(p, w) ==
    /\ page' = [page EXCEPT ![p] = w]
    /\ forms' = IF w.step = page[p].step THEN forms
                ELSE [forms EXCEPT ![p] = (IF Busy(@) THEN @ ELSE <<>>) \o Mount(w)]

Fault == faults < MaxFaults /\ faults' = faults + 1

\* The wizard's call is over; its answer arrives or is lost.
Answer(p, w) ==
    /\ calls' = [calls EXCEPT ![p] = Tail(@)]
    /\ \/ Show(p, w) /\ UNCHANGED faults
       \/ Fault /\ UNCHANGED <<page, forms>>

\* The answer asks the form of the step to save.
AskToSave(p, w) ==
    /\ calls' = [calls EXCEPT ![p] = Tail(@)]
    /\ \/ /\ page' = [page EXCEPT ![p] = w]
          /\ forms' = [forms EXCEPT ![p][Len(forms[p])].saves = @ + 1]
          /\ UNCHANGED faults
       \/ Fault /\ UNCHANGED <<page, forms>>

\* Calls that wait are dropped with the page, those on their way are not.
Stranded(fs) == [i \in DOMAIN fs |-> [fs[i] EXCEPT !.saves = IF @ > 0 THEN 1 ELSE 0]]

Gone(p) ==
    /\ page' = [page EXCEPT ![p] = Closed]
    /\ calls' = [calls EXCEPT ![p] = <<>>]
    /\ forms' = [forms EXCEPT ![p] = Stranded(@)]

\* The answer sends the page elsewhere.
Leave(p) ==
    \/ Gone(p) /\ UNCHANGED faults
    \/ /\ Fault
       /\ calls' = [calls EXCEPT ![p] = Tail(@)]
       /\ UNCHANGED <<page, forms>>
-----------------------------------------------------------------------------
(* finish *)

\* Mutant: the last record created, of any model, is taken.
LastCreated(w) == IF w.created = <<>> THEN 0 ELSE Last(w.created)

\* getPrimaryModelData
PrimaryRecord(w) ==
    LET ours == {i \in DOMAIN w.created : record[w.created[i]].step = 0}
    IN  IF ours = {} THEN 0 ELSE w.created[Min(ours)]

\* Mutant: the form of a review step is asked to save every time.
NeedsSaveAlways(w) == w.step \in models

NeedsSave(w) == w.step \in models /\ w.data[w.step] = 0

\* find() does not see what is trashed.
IsDraft(r) == r # 0 /\ record[r].status = "Draft" /\ r \notin trashed

Completed(w) == [w EXCEPT !.step = Steps]

\* finish(), reached with the component w and the session s: the form of the
\* step saves first, or the record goes on to Pending, or there is nothing to do.
Finish(p, w, s) ==
    \/ /\ NeedsSave(w)
       /\ session' = s
       /\ AskToSave(p, w)
       /\ UNCHANGED completing
    \/ /\ ~NeedsSave(w)
       /\ IsDraft(PrimaryRecord(w))
       /\ completing' = [completing EXCEPT ![p] = [at |-> "update", wizard |-> w]]
       /\ UNCHANGED <<session, browser, faults>>
    \/ /\ ~NeedsSave(w)
       /\ ~IsDraft(PrimaryRecord(w))
       /\ session' = Closed
       /\ Answer(p, Completed(w))
       /\ UNCHANGED completing

\* completeWizard writes the status first, to a row trashed since as well; one
\* that is gone is not written.
WritePending(p) ==
    /\ completing[p].at = "update"
    /\ LET r == PrimaryRecord(completing[p].wizard)
       IN  record' = IF Exists(r) THEN [record EXCEPT ![r].status = "Pending"] ELSE record
    /\ completing' = [completing EXCEPT ![p].at = "look"]
    /\ UNCHANGED <<models, browser, session, trashed, workflow, impatient, ghosts, clicks, faults>>

\* Whatever start() throws is logged and forgotten.
CompletionEnds(p) ==
    /\ session' = Closed
    /\ completing' = [completing EXCEPT ![p] = Idle]
    /\ Answer(p, Completed(completing[p].wizard))

\* start() throws if it finds a pending workflow ...
LookForWorkflow(p) ==
    /\ completing[p].at = "look"
    /\ IF workflow[PrimaryRecord(completing[p].wizard)] > 0
       THEN CompletionEnds(p)
       ELSE /\ completing' = [completing EXCEPT ![p].at = "start"]
            /\ UNCHANGED <<session, browser, faults>>
    /\ UNCHANGED <<models, database, impatient, ghosts, clicks>>

\* One more workflow of r, unless the start throws
Start(r) ==
    \/ /\ workflow' = [workflow EXCEPT ![r] = @ + 1]
       /\ parted' = IF workflow[r] > 0 THEN parted \cup {r} ELSE parted
    \/ /\ workflow' = workflow
       /\ parted' = IF workflow[r] = 0 THEN parted \cup {r} ELSE parted

\* ... and starts one, also of a record that is gone or another started meanwhile.
StartWorkflow(p) ==
    /\ completing[p].at = "start"
    /\ Start(PrimaryRecord(completing[p].wizard))
    /\ CompletionEnds(p)
    /\ UNCHANGED <<models, record, trashed, impatient, setBack, clicks>>

\* Nothing of the call is left but what it wrote to the database.
CompletionDies(p) ==
    /\ completing[p] # Idle
    /\ Fault
    /\ parted' = IF completing[p].at = "update" THEN parted
                 ELSE parted \cup {PrimaryRecord(completing[p].wizard)}
    /\ completing' = [completing EXCEPT ![p] = Idle]
    /\ calls' = [calls EXCEPT ![p] = Tail(@)]
    /\ UNCHANGED <<models, page, forms, session, database, impatient, setBack, clicks>>
-----------------------------------------------------------------------------
(* The other calls of the wizard *)

\* advance(), with the session saved as s if it ends in finish()
Advance(p, w, s) ==
    \/ /\ w.step + 1 < Steps
       /\ LET v == [w EXCEPT !.step = @ + 1]
          IN  session' = v /\ Answer(p, v)
       /\ UNCHANGED completing
    \/ w.step + 1 >= Steps /\ Finish(p, w, s)

\* Mutant: the wizard moves on whatever becomes of the save.
MoveOn(p, w) == Advance(p, w, session)

HandleNext(p, w) ==
    \/ /\ FormStep(w.step)
       /\ AskToSave(p, w)
       /\ UNCHANGED <<session, completing>>
    \/ w.step \in Step /\ ~FormStep(w.step) /\ Advance(p, w, session)
    \/ w.step = Steps /\ Answer(p, w) /\ UNCHANGED <<session, completing>>

\* Mutant: nothing stops at the first step.
PreviousUnchecked(p, w) ==
    LET v == [w EXCEPT !.step = @ - 1]
    IN  session' = v /\ Answer(p, v) /\ UNCHANGED completing

HandlePrevious(p, w) ==
    LET v == IF w.step > 0 THEN [w EXCEPT !.step = @ - 1] ELSE w
    IN  /\ session' = IF w.step > 0 THEN v ELSE session
        /\ Answer(p, v)
        /\ UNCHANGED completing

\* createdRecords may list a record twice: the first place is all that is read.
HandleStepFormSaved(p, w, r, k) ==
    LET v == [w EXCEPT !.data[k] = r,
                       !.created = IF Contains(@, r) THEN @ ELSE Append(@, r)]
    IN  Advance(p, v, v)

Serve(p) ==
    LET w == page[p]
        call == Head(calls[p])
    IN  /\ calls[p] # <<>> /\ completing[p] = Idle
        /\ \/ call.name = "next" /\ HandleNext(p, w)
           \/ call.name = "previous" /\ HandlePrevious(p, w)
           \/ call.name = "finish" /\ Finish(p, w, session)
           \/ call.name = "stepFormSaved" /\ HandleStepFormSaved(p, w, call.record, call.step)
           \/ call.name = "cancelKeep" /\ Leave(p) /\ UNCHANGED <<session, completing>>
        /\ UNCHANGED <<models, database, impatient, ghosts, clicks>>

\* Records somebody's finish() is at work on
InHand == {PrimaryRecord(completing[p].wizard) : p \in {q \in Page : completing[q] # Idle}}

\* Mutant: the records go, their workflows stay.
DeleteOnly(created) ==
    /\ record' = [r \in Id |-> IF Contains(created, r)
                               THEN [record[r] EXCEPT !.status = "deleted"] ELSE record[r]]
    /\ UNCHANGED workflow

\* The transaction of cancelDelete, which cancels one workflow of each record
DeleteCreated(created) ==
    /\ record' = [r \in Id |-> IF Contains(created, r)
                               THEN [record[r] EXCEPT !.status = "deleted"] ELSE record[r]]
    /\ workflow' = [r \in Id |-> IF Contains(created, r) /\ Exists(r) /\ workflow[r] > 0
                                 THEN workflow[r] - 1 ELSE workflow[r]]

CancelDelete(p) ==
    /\ calls[p] # <<>> /\ completing[p] = Idle
    /\ Head(calls[p]).name = "cancelDelete"
    /\ DeleteCreated(page[p].created)
    /\ parted' = parted \cup (InHand \cap ToSet(page[p].created))
    /\ session' = Closed
    /\ Leave(p)
    /\ UNCHANGED <<models, completing, trashed, impatient, setBack, clicks>>
-----------------------------------------------------------------------------
(* The form *)

\* Mutant: the form does not remember the record it has created.
Forgets(p, i, r) ==
    /\ forms' = [forms EXCEPT ![p][i].saves = @ - 1]
    /\ calls' = IF page[p] = Closed THEN calls
                ELSE [calls EXCEPT ![p] = Append(@,
                    [name |-> "stepFormSaved", record |-> r, step |-> forms[p][i].step])]
    /\ UNCHANGED faults

\* Form i has saved r and tells the wizard, if their page is still there.
FormAnswer(p, i, r) ==
    \/ /\ forms' = [forms EXCEPT ![p][i].saves = @ - 1, ![p][i].record = r]
       /\ calls' = IF page[p] = Closed THEN calls
                   ELSE [calls EXCEPT ![p] = Append(@,
                       [name |-> "stepFormSaved", record |-> r, step |-> forms[p][i].step])]
       /\ UNCHANGED faults
    \/ /\ Fault
       /\ forms' = [forms EXCEPT ![p][i].saves = @ - 1]
       /\ UNCHANGED calls

NewId(r) == record[r] = Absent /\ \A i \in Id : i < r => record[i] # Absent

\* A new record is a Draft, whatever the form says.
Create(p, i) ==
    \E r \in Id :
        /\ NewId(r)
        /\ record' = [record EXCEPT ![r] = [step |-> forms[p][i].step, status |-> "Draft"]]
        /\ FormAnswer(p, i, r)
        /\ UNCHANGED <<workflow, parted, setBack>>

\* Nothing is saved: the fields do not validate, or the record is gone.
Refuse(p, i) ==
    /\ forms' = [forms EXCEPT ![p][i].saves = @ - 1]
    /\ UNCHANGED <<record, workflow, parted, setBack, calls, faults>>

\* The fields may include the status: as it was when the form was mounted, as
\* the form that created the record had it, or as the user chose.  Pending starts
\* a workflow; inside the transaction a pending one may not be seen.
WriteStatus(r) ==
    \E status \in {"Draft", "Pending"} :
        /\ record' = [record EXCEPT ![r].status = status]
        /\ setBack' = IF record[r].status = "Pending" /\ status = "Draft"
                      THEN setBack \cup {r} ELSE setBack
        /\ IF status = "Pending" THEN Start(r) ELSE UNCHANGED <<workflow, parted>>

Edit(p, i, r) ==
    /\ Exists(r)
    /\ WriteStatus(r) \/ UNCHANGED <<record, workflow, parted, setBack>>
    /\ FormAnswer(p, i, r)

SaveForm(p) ==
    /\ \E i \in DOMAIN forms[p] :
          LET r == forms[p][i].record
          IN  /\ Saving(forms[p][i])
              /\ \/ Refuse(p, i)
                 \/ r = 0 /\ Create(p, i)
                 \/ r # 0 /\ Edit(p, i, r)
    /\ UNCHANGED <<models, page, completing, session, trashed, impatient, clicks>>
-----------------------------------------------------------------------------
(* The user *)

Does == clicks < MaxClicks /\ clicks' = clicks + 1

\* mount, on a draft to resume or on what the session has
Open(p) ==
    /\ page[p] = Closed /\ ~Busy(forms[p])
    /\ Does
    /\ \E r \in Id \cup {0} :
          LET resumed == IsDraft(r) /\ record[r].step = 0
              w == IF resumed THEN [Fresh EXCEPT !.data[0] = r, !.created = <<r>>]
                   ELSE IF session # Closed THEN session ELSE Fresh
          IN  /\ r = 0 \/ resumed
              /\ page' = [page EXCEPT ![p] = w]
              /\ forms' = [forms EXCEPT ![p] = Mount(w)]
              /\ session' = IF resumed THEN w ELSE session
    /\ UNCHANGED <<models, calls, completing, database, impatient, ghosts, faults>>

Buttons(w) ==
    IF w.step = Steps THEN {}
    ELSE {"cancelKeep", "cancelDelete"}
         \cup (IF w.step > 0 THEN {"previous"} ELSE {})
         \cup (IF w.step \in models THEN {"next"} ELSE {"finish"})

Unanswered(p) == calls[p] # <<>> \/ Busy(forms[p])

Click(p) ==
    /\ page[p] # Closed
    /\ Does
    /\ \E b \in Buttons(page[p]) :
          calls' = [calls EXCEPT ![p] = Append(@, [name |-> b, record |-> 0, step |-> 0])]
    /\ impatient' = (impatient \/ Unanswered(p))
    /\ UNCHANGED <<models, page, forms, completing, session, database, ghosts, faults>>

\* The tab is closed or reloaded.
Close(p) ==
    /\ page[p] # Closed /\ completing[p] = Idle
    /\ Gone(p)
    /\ UNCHANGED <<models, completing, session, database, impatient, ghosts, clicks, faults>>

\* A record is deleted in a data table.
DeleteRow ==
    /\ Fault
    /\ \E r \in Id :
          /\ Exists(r) /\ r \notin trashed
          /\ trashed' = trashed \cup {r}
    /\ UNCHANGED <<models, browser, completing, session, record, workflow, impatient, ghosts, clicks>>

ServerStep(p) ==
    \/ Serve(p)
    \/ CancelDelete(p)
    \/ WritePending(p)
    \/ LookForWorkflow(p)
    \/ StartWorkflow(p)
    \/ SaveForm(p)

WizardStep ==
    \/ \E p \in Page : Open(p) \/ Click(p) \/ Close(p) \/ ServerStep(p) \/ CompletionDies(p)
    \/ DeleteRow

\* The server takes what the browser sends.
WizardFairness == \A p \in Page : WF_wizardVars(ServerStep(p))

WizardSpec == WizardInit /\ [][WizardStep]_wizardVars /\ WizardFairness
-----------------------------------------------------------------------------
(***************************************************************************)
(* However often Save is clicked, answers are lost and pages reloaded, a   *)
(* wizard never holds two records of its primary model that both exist: a  *)
(* second save edits what the first one created.  (When a record was       *)
(* deleted for good elsewhere two forms may each create another, if the    *)
(* user clicks without waiting.)                                           *)
(***************************************************************************)
OneLivePrimary ==
    \A p \in Page : page[p] # Closed =>
        LET ours == {r \in ToSet(page[p].created) : record[r].step = 0}
        IN  (~impatient \/ \A r \in ours : Exists(r)) =>
                \A r, s \in ours : Exists(r) /\ Exists(s) => r = s

(***************************************************************************)
(* The completion screen is shown only when the record the wizard is about *)
(* was saved and is no draft any more: it went on to Pending, here or in   *)
(* another window, or somebody deleted it -- unless a form that knew an    *)
(* older status wrote it back since.                                       *)
(***************************************************************************)
CompletionMeansSubmitted ==
    \A p \in Page : (page[p] # Closed /\ page[p].step = Steps) =>
        \E i \in DOMAIN page[p].created :
            /\ record[page[p].created[i]].step = 0
            /\ \A j \in DOMAIN page[p].created : j < i => record[page[p].created[j]].step # 0
            /\ IsDraft(page[p].created[i]) => page[p].created[i] \in setBack

(***************************************************************************)
(* A page is past a step with a model only if that step's record was       *)
(* saved, as long as nobody clicks before the last click is answered.      *)
(***************************************************************************)
NoStepSkipped ==
    \A p \in Page : page[p] # Closed /\ ~impatient =>
        \A k \in models : k < page[p].step => page[p].data[k] # 0

(***************************************************************************)
(* A record is Pending exactly when one workflow is pending for it, except *)
(* while finish() is between the two, where a start threw or died or was   *)
(* not the only one, and where the record was deleted under finish() or    *)
(* written back to Draft by a form.                                        *)
(***************************************************************************)
WorkflowMatchesRecord ==
    \A r \in Id \ (InHand \cup parted \cup setBack) :
        workflow[r] = IF record[r].status = "Pending" THEN 1 ELSE 0

(***************************************************************************)
(* Every click is answered: wizard and form never keep each other going.   *)
(***************************************************************************)
ClicksAreAnswered == \A p \in Page : Unanswered(p) ~> ~Unanswered(p)
=============================================================================
