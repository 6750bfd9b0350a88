-------------------------- MODULE RecordEntryProofs --------------------------
(***************************************************************************)
(* How records are entered, for every wizard, number of pages, clicks,     *)
(* faults and callers.                                                     *)
(*                                                                         *)
(* A wizard has many copies: the session's, each page's, the one finish()  *)
(* works on.  RecordInv says what all of them have to do with the          *)
(* records; the other invariants build on it.  For the proofs Serve is     *)
(* taken apart by what becomes of the call: the wizard Turns, Stays, Ends, *)
(* Asks the form to save, Begins to finish or Leaves.                      *)
(***************************************************************************)
EXTENDS RecordEntry, SequenceTheorems, WellFoundedInduction, TLAPS
-----------------------------------------------------------------------------
(* Records *)

Known(r) == record[r].status # "absent"

\* A record keeps its step, and one that is deleted for good stays so.
RecordsStand ==
    \A r \in Id : Known(r) =>
        /\ Known(r)'
        /\ record'[r].step = record[r].step
        /\ \/ record'[r].status \in {record[r].status, "deleted"}
           \/ Exists(r) /\ Exists(r)'

LEMMA NoRecordChanges ==
    ASSUME UNCHANGED record
    PROVE  RecordsStand
BY DEF RecordsStand, Known

\* What a save does to the records: nothing, or a new one, or another status
Adds(r) ==
    /\ ~Known(r) /\ record'[r].status = "Draft"
    /\ \A s \in Id \ {r} : record'[s] = record[s]
    /\ UNCHANGED <<workflow, parted, setBack>>

Rewrites(r) == Exists(r) /\ WriteStatus(r)

LEMMA SaveWrites ==
    ASSUME WizardTypeOK, NEW p \in Page, SaveForm(p)
    PROVE  \/ UNCHANGED <<record, workflow, parted, setBack>>
           \/ \E r \in Id : Adds(r) \/ Rewrites(r)
<1>1. PICK i \in DOMAIN forms[p] :
         \/ Refuse(p, i)
         \/ Create(p, i)
         \/ forms[p][i].record # 0 /\ Edit(p, i, forms[p][i].record)
  BY DEF SaveForm
<1>2. forms[p][i].record \in Id \cup {0}
  <2>1. forms[p] \in Seq(Form)
    BY DEF WizardTypeOK
  <2>2. forms[p][i] \in Form
    BY <2>1
  <2> QED
    BY <2>2 DEF Form
<1>3. CASE Refuse(p, i)
  BY <1>3 DEF Refuse
<1>4. CASE Create(p, i)
  <2>1. PICK r \in Id : /\ NewId(r)
                       /\ record' = [record EXCEPT ![r] = [step |-> forms[p][i].step, status |-> "Draft"]]
                       /\ UNCHANGED <<workflow, parted, setBack>>
    BY <1>4 DEF Create
  <2>2. Adds(r)
    BY <2>1 DEF Adds, NewId, Known, Absent, WizardTypeOK
  <2> QED
    BY <2>2
<1>5. CASE forms[p][i].record # 0 /\ Edit(p, i, forms[p][i].record)
  BY <1>2, <1>5 DEF Edit, Rewrites
<1> QED
  BY <1>1, <1>3, <1>4, <1>5

\* What writing the status does to r: one more workflow or none, and r is parted
\* unless its one workflow starts with its being Pending.
LEMMA RewriteEffect ==
    ASSUME WizardTypeOK, NEW r \in Id, Rewrites(r)
    PROVE  /\ Exists(r) /\ record'[r].status \in {"Draft", "Pending"}
           /\ record' \in [Id -> [step : Step, status : Status]]
           /\ record'[r].step = record[r].step
           /\ \A s \in Id \ {r} : record'[s] = record[s]
           /\ setBack \subseteq setBack' /\ setBack' \subseteq setBack \cup {r}
           /\ record[r].status = "Pending" /\ record'[r].status = "Draft" => r \in setBack'
           /\ record'[r].status = "Pending" => Start(r)
           /\ record'[r].status = "Draft" => UNCHANGED <<workflow, parted>>
<1>1. PICK status \in {"Draft", "Pending"} :
         /\ record' = [record EXCEPT ![r].status = status]
         /\ setBack' = IF record[r].status = "Pending" /\ status = "Draft"
                       THEN setBack \cup {r} ELSE setBack
         /\ IF status = "Pending" THEN Start(r) ELSE UNCHANGED <<workflow, parted>>
  BY DEF Rewrites, WriteStatus
<1>2. PICK e : e = [record[r] EXCEPT !.status = status]
  OBVIOUS
<1>3. e \in [step : Step, status : Status] /\ e.step = record[r].step /\ e.status = status
  BY <1>2 DEF WizardTypeOK, Status
<1>4. record' = [record EXCEPT ![r] = e]
  BY <1>1, <1>2
<1>5. /\ record' \in [Id -> [step : Step, status : Status]] /\ record'[r] = e
      /\ \A s \in Id \ {r} : record'[s] = record[s]
  BY <1>3, <1>4 DEF WizardTypeOK
<1>6. /\ setBack \subseteq setBack' /\ setBack' \subseteq setBack \cup {r}
      /\ record[r].status = "Pending" /\ status = "Draft" => r \in setBack'
  BY <1>1
<1> QED
  BY <1>1, <1>3, <1>5, <1>6 DEF Rewrites

LEMMA StartEffect ==
    ASSUME WizardTypeOK, NEW r \in Id, Start(r)
    PROVE  /\ workflow' \in [Id -> Nat] /\ parted' \subseteq Id /\ parted \subseteq parted'
           /\ \A s \in Id \ {r} : workflow'[s] = workflow[s]
           /\ r \notin parted' /\ workflow[r] \in {0, 1} => workflow'[r] = 1
<1>1. PICK n : n = workflow[r] + 1
  OBVIOUS
<1>2. workflow[r] \in Nat /\ n \in Nat
  BY <1>1 DEF WizardTypeOK
<1>3. CASE /\ workflow' = [workflow EXCEPT ![r] = n]
           /\ parted' = IF workflow[r] > 0 THEN parted \cup {r} ELSE parted
  <2>1. workflow' \in [Id -> Nat] /\ workflow'[r] = n /\ \A s \in Id \ {r} : workflow'[s] = workflow[s]
    BY <1>2, <1>3 DEF WizardTypeOK
  <2>2. parted' \subseteq Id /\ parted \subseteq parted'
    BY <1>3 DEF WizardTypeOK
  <2>3. r \notin parted' => workflow[r] = 0
    BY <1>2, <1>3
  <2> QED
    BY <1>1, <2>1, <2>2, <2>3
<1>4. CASE /\ workflow' = workflow
           /\ parted' = IF workflow[r] = 0 THEN parted \cup {r} ELSE parted
  <2>1. parted' \subseteq Id /\ parted \subseteq parted'
    BY <1>4 DEF WizardTypeOK
  <2>2. r \notin parted' => workflow[r] # 0
    BY <1>2, <1>4
  <2> QED
    BY <1>4, <2>1, <2>2 DEF WizardTypeOK
<1> QED
  BY <1>1, <1>3, <1>4 DEF Start

LEMMA StepKeepsRecords ==
    ASSUME WizardTypeOK, [WizardStep]_wizardVars
    PROVE  RecordsStand
<1>1. CASE UNCHANGED record
  BY <1>1, NoRecordChanges
<1>2. ASSUME NEW p \in Page, CancelDelete(p)
      PROVE  RecordsStand
  <2>1. \A r \in Id : record'[r].step = record[r].step
                      /\ record'[r].status \in {record[r].status, "deleted"}
    BY <1>2 DEF CancelDelete, DeleteCreated, WizardTypeOK
  <2> QED
    BY <2>1 DEF RecordsStand, Known
<1>3. ASSUME NEW p \in Page, WritePending(p)
      PROVE  RecordsStand
  <2>1. PICK r : record' = IF Exists(r) THEN [record EXCEPT ![r].status = "Pending"] ELSE record
    BY <1>3 DEF WritePending
  <2>2. \A s \in Id :
           /\ record'[s].step = record[s].step
           /\ \/ record'[s].status = record[s].status
              \/ Exists(s) /\ record'[s].status = "Pending"
    BY <2>1 DEF WizardTypeOK
  <2> QED
    BY <2>2 DEF RecordsStand, Known, Exists
<1>4. ASSUME NEW p \in Page, SaveForm(p)
      PROVE  RecordsStand
  <2>1. ASSUME NEW r \in Id, Adds(r)
        PROVE  RecordsStand
    BY <2>1 DEF Adds, RecordsStand, Known
  <2>2. ASSUME NEW r \in Id, Rewrites(r)
        PROVE  RecordsStand
    <3>1. /\ record'[r].step = record[r].step /\ Exists(r) /\ Exists(r)'
          /\ \A s \in Id \ {r} : record'[s] = record[s]
      BY <2>2, RewriteEffect DEF Exists
    <3> QED
      BY <3>1 DEF RecordsStand, Known, Exists
  <2> QED
    BY <1>1, <1>4, <2>1, <2>2, SaveWrites
<1> QED
  BY <1>1, <1>2, <1>3, <1>4
  DEF WizardStep, wizardVars, database, ServerStep, Open, Click, Close, CompletionDies, Serve,
      LookForWorkflow, StartWorkflow, DeleteRow

LEMMA LeastExists ==
    ASSUME NEW S \in SUBSET Nat, S # {}
    PROVE  \E j \in S : \A k \in S : j <= k
<1> DEFINE R == OpToRel(<, Nat)
<1>1. IsWellFoundedOn(R, Nat)
  BY NatLessThanWellFounded
<1>2. PICK j \in S : \A k \in S : ~(<<k, j>> \in R)
  <2> HIDE DEF R
  <2> QED
    BY <1>1, WFMin
<1>3. \A k \in S : ~(k < j)
  BY <1>2 DEF OpToRel
<1> QED
  BY <1>3

\* The first record of the primary model, if there is one
LEMMA PrimaryIsFirst ==
    ASSUME NEW w \in Wizard, NEW i \in DOMAIN w.created, record[w.created[i]].step = 0
    PROVE  \E j \in DOMAIN w.created :
              /\ PrimaryRecord(w) = w.created[j]
              /\ record[w.created[j]].step = 0
              /\ \A k \in DOMAIN w.created : k < j => record[w.created[k]].step # 0
<1> DEFINE ours == {k \in DOMAIN w.created : record[w.created[k]].step = 0}
<1>1. w.created \in Seq(Id) /\ DOMAIN w.created \subseteq Nat
  BY DEF Wizard
<1>2. ours # {} /\ ours \in SUBSET Nat /\ ours \subseteq DOMAIN w.created
  BY <1>1
<1>3. PrimaryRecord(w) = w.created[Min(ours)]
  BY <1>2 DEF PrimaryRecord
<1>4. \A k \in DOMAIN w.created \ ours : record[w.created[k]].step # 0
  OBVIOUS
<1>5. \A k \in ours : record[w.created[k]].step = 0
  OBVIOUS
<1> HIDE DEF ours
<1>6. \E j \in ours : \A k \in ours : j <= k
  BY <1>2, LeastExists
<1>7. Min(ours) \in ours /\ \A k \in ours : Min(ours) <= k
  BY <1>6 DEF Min
<1>8. PICK m \in ours : m = Min(ours)
  BY <1>7
<1>9. m \in Nat /\ \A k \in ours : m <= k /\ k \in Nat
  BY <1>2, <1>7, <1>8
<1>10. \A k \in DOMAIN w.created : k < m => record[w.created[k]].step # 0
  BY <1>1, <1>4, <1>9
<1> QED
  BY <1>2, <1>3, <1>5, <1>8, <1>10

LEMMA PrimaryNone ==
    ASSUME NEW w, \A i \in DOMAIN w.created : record[w.created[i]].step # 0
    PROVE  PrimaryRecord(w) = 0
BY DEF PrimaryRecord

LEMMA PrimaryStays ==
    ASSUME NEW w, \A i \in DOMAIN w.created :
                      record'[w.created[i]].step = record[w.created[i]].step
    PROVE  PrimaryRecord(w)' = PrimaryRecord(w)
<1>1. {i \in DOMAIN w.created : record'[w.created[i]].step = 0}
        = {i \in DOMAIN w.created : record[w.created[i]].step = 0}
  OBVIOUS
<1> QED
  BY <1>1 DEF PrimaryRecord
-----------------------------------------------------------------------------
(* What a page holds *)

\* The component once a call has been heard: stepFormSaved is written into it first.
Recorded(w, r, k) ==
    [w EXCEPT !.data[k] = r, !.created = IF Contains(@, r) THEN @ ELSE Append(@, r)]

Heard(p) ==
    IF Head(calls[p]).name = "stepFormSaved"
    THEN Recorded(page[p], Head(calls[p]).record, Head(calls[p]).step)
    ELSE page[p]

\* A page with a step that has a model shows the form of it, last of its forms.
Mounted(p) ==
    page[p] # Closed /\ page[p].step \in models =>
        forms[p] # <<>> /\ forms[p][Len(forms[p])].step = page[p].step

Placed(p) ==
    /\ page[p] = Closed => calls[p] = <<>> /\ completing[p] = Idle
    /\ completing[p] # Idle => calls[p] # <<>>
    /\ Mounted(p)
    /\ \A i \in DOMAIN calls[p] : calls[p][i].name = "stepFormSaved" => calls[p][i].record # 0

Shape ==
    /\ WizardTypeOK
    /\ session # Closed => session.step \in Step
    /\ \A p \in Page : Placed(p)

NewForm(w) ==
    LET r == w.data[w.step]
    IN  [step |-> w.step, record |-> IF r # 0 /\ Exists(r) THEN r ELSE 0, saves |-> 0]

LEMMA StepFacts ==
    /\ Steps \in Nat \ {0}
    /\ Step \subseteq Nat /\ 0 \in Step /\ Steps \notin Step
    /\ \A k \in Step : k + 1 < Steps => k + 1 \in Step
    /\ \A k \in 0..Steps : k # Steps => k \in Step
    /\ Step \subseteq 0..Steps
BY WizardAssumption DEF Step

LEMMA WizardFacts ==
    ASSUME NEW w \in Wizard
    PROVE  /\ w # Closed /\ w.step \in 0..Steps /\ w.data \in [Step -> Id \cup {0}]
           /\ w.created \in Seq(Id) /\ DOMAIN w.created = 1..Len(w.created)
           /\ \A k \in 0..Steps : /\ [w EXCEPT !.step = k] \in Wizard
                                 /\ [w EXCEPT !.step = k].step = k
                                 /\ [w EXCEPT !.step = k].data = w.data
                                 /\ [w EXCEPT !.step = k].created = w.created
<1>1. w.open \in {TRUE} /\ w.step \in 0..Steps /\ w.data \in [Step -> Id \cup {0}]
      /\ w.created \in Seq(Id)
  BY DEF Wizard
<1>2. w # Closed
  <2>1. w.open = TRUE
    BY <1>1
  <2>2. Closed.open = FALSE
    BY DEF Closed
  <2> QED
    BY <2>1, <2>2
<1>3. DOMAIN w.created = 1..Len(w.created)
  BY <1>1
<1>4. ASSUME NEW k \in 0..Steps
      PROVE  /\ [w EXCEPT !.step = k] \in Wizard
             /\ [w EXCEPT !.step = k].step = k
             /\ [w EXCEPT !.step = k].data = w.data
             /\ [w EXCEPT !.step = k].created = w.created
  <2>1. PICK v : v = [w EXCEPT !.step = k]
    OBVIOUS
  <2>2. v.step = k /\ v.data = w.data /\ v.created = w.created
    BY <2>1 DEF Wizard
  <2>3. v \in Wizard
    BY <2>1 DEF Wizard
  <2> QED
    BY <2>1, <2>2, <2>3
<1> QED
  BY <1>1, <1>2, <1>3, <1>4

LEMMA RecordedFacts ==
    ASSUME NEW w \in Wizard, NEW r \in Id, NEW k \in Step, NEW u, u = Recorded(w, r, k)
    PROVE  /\ u \in Wizard /\ u.step = w.step /\ u.data[k] = r
           /\ \A j \in Step \ {k} : u.data[j] = w.data[j]
           /\ \A i \in DOMAIN w.created : i \in DOMAIN u.created /\ u.created[i] = w.created[i]
           /\ \A i \in DOMAIN u.created :
                 \/ u.created[i] = r
                 \/ i \in DOMAIN w.created /\ u.created[i] = w.created[i]
           /\ \E i \in DOMAIN u.created : u.created[i] = r
<1>1. PICK s : s = w.created
  OBVIOUS
<1>2. s \in Seq(Id) /\ w.data \in [Step -> Id \cup {0}] /\ w.step \in 0..Steps /\ w.open \in {TRUE}
  BY <1>1 DEF Wizard
<1>3. PICK t : t = IF Contains(s, r) THEN s ELSE Append(s, r)
  OBVIOUS
<1>4. t \in Seq(Id) /\ (\A i \in DOMAIN s : i \in DOMAIN t /\ t[i] = s[i])
      /\ (\A i \in DOMAIN t : t[i] = r \/ (i \in DOMAIN s /\ t[i] = s[i]))
      /\ \E i \in DOMAIN t : t[i] = r
  <2>1. CASE Contains(s, r)
    BY <1>2, <1>3, <2>1 DEF Contains
  <2>2. CASE ~Contains(s, r)
    <3>1. t = Append(s, r)
      BY <1>3, <2>2
    <3>2. t \in Seq(Id) /\ Len(t) = Len(s) + 1 /\ t[Len(t)] = r
          /\ \A i \in 1..Len(s) : t[i] = s[i]
      BY <1>2, <3>1
    <3>3. DOMAIN s = 1..Len(s) /\ DOMAIN t = 1..Len(t) /\ Len(s) \in Nat
      BY <1>2, <3>2
    <3> QED
      BY <3>2, <3>3
  <2> QED
    BY <2>1, <2>2
<1>6. u = [w EXCEPT !.data[k] = r, !.created = t]
  BY <1>1, <1>3 DEF Recorded
<1>7. u.created = t /\ u.step = w.step /\ u.data = [w.data EXCEPT ![k] = r]
  BY <1>6 DEF Wizard
<1>8. u \in Wizard
  <2>1. PICK d : d = [w.data EXCEPT ![k] = r]
    OBVIOUS
  <2>2. d \in [Step -> Id \cup {0}] /\ u = [w EXCEPT !.data = d, !.created = t]
    BY <1>2, <1>6, <2>1
  <2> QED
    BY <1>2, <1>4, <2>2 DEF Wizard
<1>9. u.data[k] = r /\ \A j \in Step \ {k} : u.data[j] = w.data[j]
  BY <1>2, <1>7
<1> QED
  BY <1>1, <1>4, <1>7, <1>8, <1>9

LEMMA HeardFacts ==
    ASSUME Shape, NEW p \in Page, calls[p] # <<>>
    PROVE  /\ page[p] \in Wizard /\ page[p] # Closed /\ Head(calls[p]) \in Call
           /\ Heard(p) \in Wizard /\ Heard(p).step = page[p].step
           /\ Head(calls[p]).name = "stepFormSaved" =>
                 /\ Head(calls[p]).record \in Id /\ Head(calls[p]).step \in Step
                 /\ Heard(p) = Recorded(page[p], Head(calls[p]).record, Head(calls[p]).step)
           /\ Head(calls[p]).name # "stepFormSaved" => Heard(p) = page[p]
<1>1. page[p] \in Wizard \cup {Closed} /\ calls[p] \in Seq(Call) /\ Placed(p)
  BY DEF Shape, WizardTypeOK
<1>2. page[p] # Closed /\ page[p] \in Wizard
  BY <1>1 DEF Placed
<1>3. Head(calls[p]) \in Call /\ 1 \in DOMAIN calls[p] /\ Head(calls[p]) = calls[p][1]
  BY <1>1
<1>4. ASSUME Head(calls[p]).name = "stepFormSaved"
      PROVE  Head(calls[p]).record \in Id /\ Head(calls[p]).step \in Step
  BY <1>1, <1>3, <1>4 DEF Placed, Call
<1>5. CASE Head(calls[p]).name = "stepFormSaved"
  <2>1. Heard(p) = Recorded(page[p], Head(calls[p]).record, Head(calls[p]).step)
    BY <1>5 DEF Heard
  <2> QED
    BY <1>2, <1>3, <1>4, <1>5, <2>1, RecordedFacts
<1>6. CASE Head(calls[p]).name # "stepFormSaved"
  BY <1>2, <1>3, <1>6 DEF Heard
<1> QED
  BY <1>5, <1>6

\* What becomes of a call that Serve answers
FinishReached(p, u) == Head(calls[p]).name = "finish" \/ u.step + 1 >= Steps

Turns(p, u) ==
    /\ \E s \in Step :
          /\ \/ /\ s = u.step + 1
                /\ Head(calls[p]).name # "stepFormSaved" => ~FormStep(u.step)
             \/ s < u.step /\ u = page[p]
          /\ session' = [u EXCEPT !.step = s]
          /\ Answer(p, [u EXCEPT !.step = s])
    /\ UNCHANGED completing

Stays(p, u) == u = page[p] /\ Answer(p, u) /\ UNCHANGED <<session, completing>>

Ends(p, u) ==
    /\ FinishReached(p, u)
    /\ ~NeedsSave(u)
    /\ ~IsDraft(PrimaryRecord(u))
    /\ session' = Closed
    /\ Answer(p, Completed(u))
    /\ UNCHANGED completing

Asks(p, u) ==
    /\ u.step \in models
    /\ u = page[p] \/ NeedsSave(u)
    /\ session' \in {session, u}
    /\ AskToSave(p, u)
    /\ UNCHANGED completing

Begins(p, u) ==
    /\ FinishReached(p, u)
    /\ ~NeedsSave(u)
    /\ IsDraft(PrimaryRecord(u))
    /\ completing' = [completing EXCEPT ![p] = [at |-> "update", wizard |-> u]]
    /\ UNCHANGED <<session, browser, faults>>

Leaves(p) == Leave(p) /\ UNCHANGED <<session, completing>>

LEMMA FinishCases ==
    ASSUME NEW p, NEW u, NEW s \in {session, u}, Finish(p, u, s), FinishReached(p, u)
    PROVE  Asks(p, u) \/ Begins(p, u) \/ Ends(p, u)
BY DEF Finish, Asks, Begins, Ends, NeedsSave

LEMMA AdvanceCases ==
    ASSUME NEW p, NEW u \in Wizard, NEW s \in {session, u}, Advance(p, u, s),
           Head(calls[p]).name # "stepFormSaved" => ~FormStep(u.step)
    PROVE  Turns(p, u) \/ Asks(p, u) \/ Begins(p, u) \/ Ends(p, u)
<1>1. CASE u.step + 1 < Steps
  <2>1. u.step \in Nat /\ u.step + 1 \in Step
    BY <1>1, WizardFacts, StepFacts DEF Step
  <2>2. session' = [u EXCEPT !.step = u.step + 1] /\ Answer(p, [u EXCEPT !.step = u.step + 1])
        /\ UNCHANGED completing
    BY <1>1, <2>1, StepFacts DEF Advance
  <2> QED
    BY <2>1, <2>2 DEF Turns
<1>2. CASE u.step + 1 >= Steps
  BY <1>2, FinishCases, WizardFacts, StepFacts DEF Advance, FinishReached
<1> QED
  BY <1>1, <1>2 DEF Advance

LEMMA ServeCases ==
    ASSUME Shape, NEW p \in Page, Serve(p)
    PROVE  /\ calls[p] # <<>> /\ completing[p] = Idle
           /\ UNCHANGED <<models, database, impatient, ghosts, clicks>>
           /\ \/ Turns(p, Heard(p)) \/ Stays(p, Heard(p)) \/ Ends(p, Heard(p))
              \/ Asks(p, Heard(p)) \/ Begins(p, Heard(p)) \/ Leaves(p)
<1>1. /\ calls[p] # <<>> /\ completing[p] = Idle
      /\ UNCHANGED <<models, database, impatient, ghosts, clicks>>
  BY DEF Serve
<1>2. PICK w, call : w = page[p] /\ call = Head(calls[p])
  OBVIOUS
<1>3. /\ w \in Wizard /\ Heard(p) \in Wizard
      /\ call.name = "stepFormSaved" => Heard(p) = Recorded(w, call.record, call.step)
      /\ call.name # "stepFormSaved" => Heard(p) = w
  BY <1>1, <1>2, HeardFacts
<1>4. w.step \in 0..Steps
  BY <1>3, WizardFacts
<1>5. CASE call.name = "next" /\ HandleNext(p, w)
  <2>1. CASE FormStep(w.step) /\ AskToSave(p, w) /\ UNCHANGED <<session, completing>>
    BY <1>1, <1>2, <1>3, <1>5, <2>1 DEF Asks, FormStep
  <2>2. CASE ~FormStep(w.step) /\ Advance(p, w, session)
    BY <1>1, <1>2, <1>3, <1>5, <2>2, AdvanceCases
  <2>3. CASE Answer(p, w) /\ UNCHANGED <<session, completing>>
    BY <1>1, <1>2, <1>3, <1>5, <2>3 DEF Stays
  <2> QED
    BY <1>5, <2>1, <2>2, <2>3 DEF HandleNext
<1>6. CASE call.name = "previous" /\ HandlePrevious(p, w)
  <2>1. CASE w.step > 0
    <3>1. PICK s \in Step : s = w.step - 1 /\ s < w.step
      BY <1>4, <2>1, StepFacts DEF Step
    <3>2. [w EXCEPT !.step = @ - 1] = [w EXCEPT !.step = s]
      BY <3>1
    <3>3. session' = [w EXCEPT !.step = s] /\ Answer(p, [w EXCEPT !.step = s])
          /\ UNCHANGED completing
      BY <1>6, <2>1, <3>2 DEF HandlePrevious
    <3> QED
      BY <1>1, <1>2, <1>3, <1>6, <3>1, <3>3 DEF Turns
  <2>2. CASE ~(w.step > 0)
    BY <1>1, <1>2, <1>3, <1>6, <2>2 DEF HandlePrevious, Stays
  <2> QED
    BY <2>1, <2>2
<1>7. CASE call.name = "finish" /\ Finish(p, w, session)
  BY <1>1, <1>2, <1>3, <1>7, FinishCases DEF FinishReached
<1>8. CASE call.name = "stepFormSaved" /\ HandleStepFormSaved(p, w, call.record, call.step)
  <2>1. Advance(p, Heard(p), Heard(p))
    BY <1>3, <1>8 DEF HandleStepFormSaved, Recorded
  <2> QED
    BY <1>1, <1>2, <1>3, <1>8, <2>1, AdvanceCases
<1>9. CASE Leave(p) /\ UNCHANGED <<session, completing>>
  BY <1>1, <1>9 DEF Leaves
<1> QED
  BY <1>2, <1>5, <1>6, <1>7, <1>8, <1>9 DEF Serve

BrowserOK ==
    /\ page \in [Page -> Wizard \cup {Closed}]
    /\ forms \in [Page -> Seq(Form)]
    /\ calls \in [Page -> Seq(Call)]
    /\ faults \in 0..MaxFaults

\* The other pages are as they were.
OthersStand(p) ==
    \A q \in Page \ {p} : page'[q] = page[q] /\ forms'[q] = forms[q] /\ calls'[q] = calls[q]

\* The forms of p once it shows another step, that of w
FormsOf(p, w) ==
    /\ \A i \in DOMAIN forms'[p] :
          \/ i = Len(forms'[p]) /\ w.step \in models /\ forms'[p][i] = NewForm(w)
          \/ Busy(forms[p]) /\ i \in DOMAIN forms[p] /\ forms'[p][i] = forms[p][i]
    /\ w.step \in models => forms'[p] # <<>> /\ forms'[p][Len(forms'[p])] = NewForm(w)

LEMMA NewFormFacts ==
    ASSUME WizardTypeOK, NEW w \in Wizard, w.step \in models
    PROVE  /\ NewForm(w) \in Form /\ NewForm(w).step = w.step /\ ~Saving(NewForm(w))
           /\ NewForm(w).record # 0 => NewForm(w).record = w.data[w.step] /\ Exists(w.data[w.step])
           /\ NewForm(w).record = 0 => w.data[w.step] = 0 \/ ~Exists(w.data[w.step])
<1>1. w.step \in Step /\ w.data[w.step] \in Id \cup {0}
  BY WizardAssumption DEF Wizard, WizardTypeOK
<1>2. PICK r : r = IF w.data[w.step] # 0 /\ Exists(w.data[w.step]) THEN w.data[w.step] ELSE 0
  OBVIOUS
<1>3. NewForm(w) = [step |-> w.step, record |-> r, saves |-> 0]
  BY <1>2 DEF NewForm
<1>4. r \in Id \cup {0} /\ (r # 0 => r = w.data[w.step] /\ Exists(w.data[w.step]))
      /\ (r = 0 => w.data[w.step] = 0 \/ ~Exists(w.data[w.step]))
  BY <1>1, <1>2 DEF Id
<1> QED
  BY <1>1, <1>3, <1>4 DEF Form, Saving

LEMMA MountFacts ==
    ASSUME WizardTypeOK, NEW w \in Wizard
    PROVE  /\ Mount(w) \in Seq(Form)
           /\ w.step \in models => Len(Mount(w)) = 1 /\ Mount(w)[1] = NewForm(w)
           /\ w.step \notin models => Mount(w) = <<>>
<1>1. CASE w.step \in models
  <2>1. Mount(w) = <<NewForm(w)>>
    BY <1>1 DEF Mount, NewForm
  <2>2. NewForm(w) \in Form
    BY <1>1, NewFormFacts
  <2> QED
    BY <1>1, <2>1, <2>2
<1>2. CASE w.step \notin models
  BY <1>2 DEF Mount
<1> QED
  BY <1>1, <1>2

LEMMA ShowEffect ==
    ASSUME WizardTypeOK, NEW p \in Page, NEW w \in Wizard, Show(p, w)
    PROVE  /\ page' \in [Page -> Wizard \cup {Closed}]
           /\ forms' \in [Page -> Seq(Form)]
           /\ page'[p] = w
           /\ \A q \in Page \ {p} : page'[q] = page[q] /\ forms'[q] = forms[q]
           /\ w.step = page[p].step => forms'[p] = forms[p]
           /\ w.step # page[p].step => FormsOf(p, w)
<1>1. /\ page' \in [Page -> Wizard \cup {Closed}] /\ page'[p] = w
      /\ \A q \in Page \ {p} : page'[q] = page[q]
  BY DEF Show, WizardTypeOK
<1>2. CASE w.step = page[p].step
  BY <1>1, <1>2 DEF Show, WizardTypeOK
<1>3. CASE w.step # page[p].step
  <2>1. PICK a : a = IF Busy(forms[p]) THEN forms[p] ELSE <<>>
    OBVIOUS
  <2>2. PICK b : b = Mount(w)
    OBVIOUS
  <2>3. forms' = [forms EXCEPT ![p] = a \o b]
    BY <1>3, <2>1, <2>2 DEF Show
  <2>4. forms[p] \in Seq(Form)
    BY DEF WizardTypeOK
  <2>5. a \in Seq(Form) /\ b \in Seq(Form)
    BY <2>1, <2>2, <2>4, MountFacts
  <2>6. a \o b \in Seq(Form) /\ Len(a \o b) = Len(a) + Len(b)
        /\ (\A i \in 1..Len(a) : (a \o b)[i] = a[i])
        /\ \A i \in 1..Len(b) : (a \o b)[Len(a) + i] = b[i]
    BY <2>5, ConcatProperties
  <2>7. forms' \in [Page -> Seq(Form)] /\ forms'[p] = a \o b
        /\ \A q \in Page \ {p} : forms'[q] = forms[q]
    BY <2>3, <2>6 DEF WizardTypeOK
  <2>8. PICK c : c = a \o b
    OBVIOUS
  <2>9. /\ c \in Seq(Form) /\ Len(c) = Len(a) + Len(b) /\ DOMAIN c = 1..Len(c)
        /\ \A i \in 1..Len(a) : c[i] = a[i]
        /\ \A i \in 1..Len(b) : c[Len(a) + i] = b[i]
        /\ Len(a) \in Nat /\ DOMAIN a = 1..Len(a)
    BY <2>5, <2>6, <2>8
  <2>10. \A i \in 1..Len(a) : Busy(forms[p]) /\ i \in DOMAIN forms[p] /\ c[i] = forms[p][i]
    <3>1. CASE Busy(forms[p])
      BY <2>1, <2>9, <3>1
    <3>2. CASE ~Busy(forms[p])
      <4>1. Len(a) = 0
        BY <2>1, <3>2
      <4> QED
        BY <4>1
    <3> QED
      BY <3>1, <3>2
  <2>11. CASE w.step \in models
    <3>1. Len(b) = 1 /\ b[1] = NewForm(w)
      BY <2>2, <2>11, MountFacts
    <3>2. Len(c) = Len(a) + 1 /\ c[Len(c)] = NewForm(w) /\ c # <<>>
      BY <2>9, <3>1
    <3>3. \A i \in DOMAIN c : i = Len(c) \/ i \in 1..Len(a)
      BY <2>9, <3>2
    <3> QED
      BY <1>1, <1>3, <2>7, <2>8, <2>10, <2>11, <3>2, <3>3 DEF FormsOf
  <2>12. CASE w.step \notin models
    <3>1. Len(b) = 0
      BY <2>2, <2>12, MountFacts
    <3>2. \A i \in DOMAIN c : i \in 1..Len(a)
      BY <2>9, <3>1
    <3> QED
      BY <1>1, <1>3, <2>7, <2>8, <2>10, <2>12, <3>2 DEF FormsOf
  <2> QED
    BY <2>11, <2>12
<1> QED
  BY <1>2, <1>3

LEMMA AnswerEffect ==
    ASSUME WizardTypeOK, NEW p \in Page, NEW w \in Wizard, calls[p] # <<>>, Answer(p, w)
    PROVE  /\ BrowserOK' /\ OthersStand(p)
           /\ calls'[p] = Tail(calls[p])
           /\ \/ page'[p] = w /\ w.step = page[p].step /\ forms'[p] = forms[p]
              \/ page'[p] = w /\ w.step # page[p].step /\ FormsOf(p, w)
              \/ page'[p] = page[p] /\ forms'[p] = forms[p]
<1>1. calls[p] \in Seq(Call)
  BY DEF WizardTypeOK
<1>2. PICK t : t = Tail(calls[p])
  OBVIOUS
<1>3. t \in Seq(Call)
  BY <1>1, <1>2
<1>4. calls' = [calls EXCEPT ![p] = t]
  BY <1>2 DEF Answer
<1>5. calls' \in [Page -> Seq(Call)] /\ calls'[p] = t /\ \A q \in Page \ {p} : calls'[q] = calls[q]
  BY <1>3, <1>4 DEF WizardTypeOK
<1>6. CASE Show(p, w) /\ UNCHANGED faults
  <2>1. faults' \in 0..MaxFaults
    BY <1>6 DEF WizardTypeOK
  <2> QED
    BY <1>2, <1>5, <1>6, <2>1, ShowEffect DEF BrowserOK, OthersStand
<1>7. CASE Fault /\ UNCHANGED <<page, forms>>
  <2>1. faults' \in 0..MaxFaults
    BY <1>7, WizardAssumption DEF WizardTypeOK, Fault
  <2> QED
    BY <1>2, <1>5, <1>7, <2>1 DEF BrowserOK, OthersStand, WizardTypeOK
<1> QED
  BY <1>6, <1>7 DEF Answer

\* Saves asked of the last form, or of none if the answer is lost
LEMMA AskEffect ==
    ASSUME Shape, NEW p \in Page, NEW w \in Wizard, calls[p] # <<>>, w.step \in models,
           w.step = page[p].step, AskToSave(p, w)
    PROVE  /\ BrowserOK' /\ OthersStand(p)
           /\ calls'[p] = Tail(calls[p])
           /\ \/ /\ page'[p] = w
                 /\ DOMAIN forms'[p] = DOMAIN forms[p] /\ Len(forms'[p]) = Len(forms[p])
                 /\ forms[p] # <<>> /\ forms[p][Len(forms[p])].step = page[p].step
                 /\ \A i \in DOMAIN forms[p] :
                       /\ forms'[p][i].step = forms[p][i].step
                       /\ forms'[p][i].record = forms[p][i].record
                       /\ forms'[p][i].saves = IF i = Len(forms[p]) THEN forms[p][i].saves + 1
                                               ELSE forms[p][i].saves
              \/ page'[p] = page[p] /\ forms'[p] = forms[p]
<1>1. calls[p] \in Seq(Call) /\ WizardTypeOK /\ Placed(p)
  BY DEF WizardTypeOK, Shape
<1>2. PICK t : t = Tail(calls[p])
  OBVIOUS
<1>3. t \in Seq(Call)
  BY <1>1, <1>2
<1>4. calls' = [calls EXCEPT ![p] = t]
  BY <1>2 DEF AskToSave
<1>5. calls' \in [Page -> Seq(Call)] /\ calls'[p] = t /\ \A q \in Page \ {p} : calls'[q] = calls[q]
  BY <1>1, <1>3, <1>4 DEF WizardTypeOK
<1>6. ASSUME page' = [page EXCEPT ![p] = w],
             forms' = [forms EXCEPT ![p][Len(forms[p])].saves = @ + 1],
             UNCHANGED faults
      PROVE  /\ BrowserOK' /\ OthersStand(p) /\ page'[p] = w
             /\ DOMAIN forms'[p] = DOMAIN forms[p] /\ Len(forms'[p]) = Len(forms[p])
             /\ forms[p] # <<>> /\ forms[p][Len(forms[p])].step = page[p].step
             /\ \A i \in DOMAIN forms[p] :
                   /\ forms'[p][i].step = forms[p][i].step
                   /\ forms'[p][i].record = forms[p][i].record
                   /\ forms'[p][i].saves = IF i = Len(forms[p]) THEN forms[p][i].saves + 1
                                           ELSE forms[p][i].saves
  <2>1. forms[p] # <<>> /\ forms[p][Len(forms[p])].step = page[p].step
    BY <1>1 DEF Placed, Mounted
  <2>2. PICK s, n : s = forms[p] /\ n = Len(forms[p])
    OBVIOUS
  <2>3. s \in Seq(Form) /\ DOMAIN s = 1..Len(s) /\ n \in DOMAIN s /\ s[n] \in Form
    BY <1>1, <2>1, <2>2 DEF WizardTypeOK
  <2>4. PICK f : f = [s[n] EXCEPT !.saves = @ + 1]
    OBVIOUS
  <2>5. f \in Form /\ f.step = s[n].step /\ f.record = s[n].record /\ f.saves = s[n].saves + 1
    BY <2>3, <2>4 DEF Form
  <2>6. PICK u : u = [s EXCEPT ![n] = f]
    OBVIOUS
  <2>7. u \in Seq(Form) /\ DOMAIN u = DOMAIN s /\ Len(u) = Len(s) /\ u[n] = f
        /\ \A i \in DOMAIN s \ {n} : u[i] = s[i]
    BY <2>3, <2>5, <2>6
  <2>8. forms' = [forms EXCEPT ![p] = u]
    BY <1>6, <2>2, <2>4, <2>6
  <2>9. forms' \in [Page -> Seq(Form)] /\ forms'[p] = u /\ \A q \in Page \ {p} : forms'[q] = forms[q]
    BY <1>1, <2>7, <2>8 DEF WizardTypeOK
  <2>10. page' \in [Page -> Wizard \cup {Closed}] /\ page'[p] = w
         /\ \A q \in Page \ {p} : page'[q] = page[q]
    BY <1>1, <1>6 DEF WizardTypeOK
  <2>11. faults' \in 0..MaxFaults
    BY <1>1, <1>6 DEF WizardTypeOK
  <2>12. \A i \in DOMAIN s :
            /\ u[i].step = s[i].step
            /\ u[i].record = s[i].record
            /\ u[i].saves = IF i = n THEN s[i].saves + 1 ELSE s[i].saves
    BY <2>5, <2>7
  <2> QED
    BY <1>5, <2>1, <2>2, <2>7, <2>9, <2>10, <2>11, <2>12 DEF BrowserOK, OthersStand
<1>7. CASE Fault /\ UNCHANGED <<page, forms>>
  <2>1. faults' \in 0..MaxFaults
    BY <1>1, <1>7, WizardAssumption DEF WizardTypeOK, Fault
  <2> QED
    BY <1>1, <1>2, <1>5, <1>7, <2>1 DEF BrowserOK, OthersStand, WizardTypeOK
<1> QED
  BY <1>2, <1>5, <1>6, <1>7 DEF AskToSave

\* A page that is gone
LEMMA GoneEffect ==
    ASSUME WizardTypeOK, NEW p \in Page, Gone(p), UNCHANGED faults
    PROVE  /\ BrowserOK' /\ OthersStand(p)
           /\ page'[p] = Closed /\ calls'[p] = <<>>
           /\ DOMAIN forms'[p] = DOMAIN forms[p]
           /\ \A i \in DOMAIN forms[p] :
                 /\ forms'[p][i].step = forms[p][i].step
                 /\ forms'[p][i].record = forms[p][i].record
<1>1. PICK s : s = forms[p]
  OBVIOUS
<1>2. s \in Seq(Form)
  BY <1>1 DEF WizardTypeOK
<1>3. PICK u : u = Stranded(s)
  OBVIOUS
<1>4. u \in Seq(Form) /\ DOMAIN u = DOMAIN s
      /\ \A i \in DOMAIN s : u[i].step = s[i].step /\ u[i].record = s[i].record
  <2>1. DOMAIN u = 1..Len(s) /\ DOMAIN s = 1..Len(s) /\ Len(s) \in Nat
    BY <1>2, <1>3 DEF Stranded
  <2>2. ASSUME NEW i \in DOMAIN s
        PROVE  u[i] \in Form /\ u[i].step = s[i].step /\ u[i].record = s[i].record
    <3>1. s[i] \in Form /\ u[i] = [s[i] EXCEPT !.saves = IF @ > 0 THEN 1 ELSE 0]
      BY <1>2, <1>3, <2>2 DEF Stranded
    <3> QED
      BY <3>1 DEF Form
  <2>3. u = [i \in 1..Len(s) |-> u[i]]
    BY <1>3, <2>1 DEF Stranded
  <2>4. u \in Seq(Form)
    BY <2>1, <2>2, <2>3
  <2> QED
    BY <2>1, <2>2, <2>4
<1>5. forms' = [forms EXCEPT ![p] = u]
  BY <1>1, <1>3 DEF Gone
<1>6. forms' \in [Page -> Seq(Form)] /\ forms'[p] = u /\ \A q \in Page \ {p} : forms'[q] = forms[q]
  BY <1>4, <1>5 DEF WizardTypeOK
<1>7. /\ page' \in [Page -> Wizard \cup {Closed}] /\ page'[p] = Closed
      /\ \A q \in Page \ {p} : page'[q] = page[q]
  BY DEF Gone, WizardTypeOK
<1>8. /\ calls' \in [Page -> Seq(Call)] /\ calls'[p] = <<>>
      /\ \A q \in Page \ {p} : calls'[q] = calls[q]
  <2>1. <<>> \in Seq(Call)
    OBVIOUS
  <2> QED
    BY <2>1 DEF Gone, WizardTypeOK
<1> QED
  BY <1>1, <1>4, <1>6, <1>7, <1>8 DEF BrowserOK, OthersStand, WizardTypeOK

LEMMA LeaveEffect ==
    ASSUME WizardTypeOK, NEW p \in Page, calls[p] # <<>>, Leave(p)
    PROVE  \/ Gone(p) /\ UNCHANGED faults
           \/ /\ BrowserOK' /\ OthersStand(p)
              /\ page'[p] = page[p] /\ forms'[p] = forms[p] /\ calls'[p] = Tail(calls[p])
<1>1. CASE Gone(p) /\ UNCHANGED faults
  BY <1>1
<1>2. CASE Fault /\ calls' = [calls EXCEPT ![p] = Tail(@)] /\ UNCHANGED <<page, forms>>
  <2>1. PICK t : t = Tail(calls[p])
    OBVIOUS
  <2>2. t \in Seq(Call)
    BY <2>1 DEF WizardTypeOK
  <2>3. calls' = [calls EXCEPT ![p] = t]
    BY <1>2, <2>1
  <2>4. calls' \in [Page -> Seq(Call)] /\ calls'[p] = t /\ \A q \in Page \ {p} : calls'[q] = calls[q]
    BY <2>2, <2>3 DEF WizardTypeOK
  <2>5. faults' \in 0..MaxFaults
    BY <1>2, WizardAssumption DEF WizardTypeOK, Fault
  <2> QED
    BY <1>2, <2>1, <2>4, <2>5 DEF BrowserOK, OthersStand, WizardTypeOK
<1> QED
  BY <1>1, <1>2 DEF Leave

SavedCall(r, k) == [name |-> "stepFormSaved", record |-> r, step |-> k]

\* Form i of p has done one of its saves.
OneSaved(p, i) ==
    /\ DOMAIN forms'[p] = DOMAIN forms[p] /\ Len(forms'[p]) = Len(forms[p])
    /\ \A j \in DOMAIN forms[p] \ {i} : forms'[p][j] = forms[p][j]
    /\ forms'[p][i].step = forms[p][i].step
    /\ forms'[p][i].saves = forms[p][i].saves - 1

LEMMA FormChanged ==
    ASSUME WizardTypeOK, NEW p \in Page, NEW i \in DOMAIN forms[p], NEW f \in Form,
           f.step = forms[p][i].step, f.saves = forms[p][i].saves - 1,
           forms' = [forms EXCEPT ![p] = [forms[p] EXCEPT ![i] = f]]
    PROVE  /\ forms' \in [Page -> Seq(Form)] /\ \A q \in Page \ {p} : forms'[q] = forms[q]
           /\ OneSaved(p, i) /\ forms'[p][i] = f
<1>1. PICK s, u : s = forms[p] /\ u = [s EXCEPT ![i] = f]
  OBVIOUS
<1>2. s \in Seq(Form) /\ i \in DOMAIN s
  BY <1>1 DEF WizardTypeOK
<1>3. u \in Seq(Form) /\ DOMAIN u = DOMAIN s /\ Len(u) = Len(s) /\ u[i] = f
      /\ \A j \in DOMAIN s \ {i} : u[j] = s[j]
  BY <1>1, <1>2
<1>4. forms' = [forms EXCEPT ![p] = u]
  BY <1>1
<1>5. forms' \in [Page -> Seq(Form)] /\ forms'[p] = u /\ \A q \in Page \ {p} : forms'[q] = forms[q]
  BY <1>3, <1>4 DEF WizardTypeOK
<1> QED
  BY <1>1, <1>3, <1>5 DEF OneSaved

OneLess(p, i) == forms' = [forms EXCEPT ![p][i].saves = @ - 1]

LEMMA SavesDrop ==
    ASSUME WizardTypeOK, NEW p \in Page, NEW i \in DOMAIN forms[p], Saving(forms[p][i]),
           OneLess(p, i)
    PROVE  /\ forms' \in [Page -> Seq(Form)] /\ \A q \in Page \ {p} : forms'[q] = forms[q]
           /\ OneSaved(p, i) /\ forms'[p][i].record = forms[p][i].record
<1>1. PICK f : f = [forms[p][i] EXCEPT !.saves = @ - 1]
  OBVIOUS
<1>2. forms[p][i] \in Form
  BY DEF WizardTypeOK
<1>3. f \in Form /\ f.step = forms[p][i].step /\ f.saves = forms[p][i].saves - 1
      /\ f.record = forms[p][i].record
  BY <1>1, <1>2 DEF Form, Saving
<1>4. forms' = [forms EXCEPT ![p] = [forms[p] EXCEPT ![i] = f]]
  BY <1>1 DEF OneLess
<1>5. /\ forms' \in [Page -> Seq(Form)] /\ \A q \in Page \ {p} : forms'[q] = forms[q]
      /\ OneSaved(p, i) /\ forms'[p][i] = f
  BY <1>3, <1>4, FormChanged
<1> QED
  BY <1>3, <1>5

\* The form keeps r and tells its page, or the answer is lost.
Tells(p, i, r) ==
    /\ forms'[p][i].record = r
    /\ IF page[p] = Closed THEN calls' = calls
       ELSE calls'[p] = Append(calls[p], SavedCall(r, forms[p][i].step))

LEMMA FormAnswerEffect ==
    ASSUME WizardTypeOK, NEW p \in Page, NEW i \in DOMAIN forms[p], Saving(forms[p][i]),
           NEW r \in Id, FormAnswer(p, i, r), UNCHANGED page
    PROVE  /\ BrowserOK' /\ OthersStand(p) /\ OneSaved(p, i)
           /\ \/ Tells(p, i, r)
              \/ forms'[p][i].record = forms[p][i].record /\ calls' = calls
<1>1. forms[p] \in Seq(Form) /\ forms[p][i] \in Form
  BY DEF WizardTypeOK
<1>2. CASE /\ forms' = [forms EXCEPT ![p][i].saves = @ - 1, ![p][i].record = r]
           /\ calls' = IF page[p] = Closed THEN calls
                       ELSE [calls EXCEPT ![p] = Append(@,
                           [name |-> "stepFormSaved", record |-> r, step |-> forms[p][i].step])]
           /\ UNCHANGED faults
  <2>1. PICK f : f = [forms[p][i] EXCEPT !.saves = @ - 1, !.record = r]
    OBVIOUS
  <2>2. f \in Form /\ f.step = forms[p][i].step /\ f.saves = forms[p][i].saves - 1 /\ f.record = r
    <3>1. PICK n : n = forms[p][i].saves - 1
      OBVIOUS
    <3>2. n \in Nat
      BY <1>1, <3>1 DEF Form, Saving
    <3>3. f = [forms[p][i] EXCEPT !.saves = n, !.record = r]
      BY <2>1, <3>1
    <3>4. f.step = forms[p][i].step /\ f.saves = n /\ f.record = r
      BY <1>1, <3>3 DEF Form
    <3>5. f \in Form
      BY <1>1, <3>2, <3>3 DEF Form
    <3> QED
      BY <3>1, <3>4, <3>5
  <2>3. forms' = [forms EXCEPT ![p] = [forms[p] EXCEPT ![i] = f]]
    <3>1. DOMAIN forms = Page /\ p \in Page
      BY DEF WizardTypeOK
    <3> QED
      BY <1>2, <2>1, <3>1
  <2>4. /\ forms' \in [Page -> Seq(Form)] /\ \A q \in Page \ {p} : forms'[q] = forms[q]
        /\ OneSaved(p, i) /\ forms'[p][i] = f
    BY <2>2, <2>3, FormChanged
  <2>5. PICK c, t : c = SavedCall(r, forms[p][i].step) /\ t = Append(calls[p], c)
    OBVIOUS
  <2>6. c \in Call
    BY <1>1, <2>5 DEF Call, Form, SavedCall
  <2>7. t \in Seq(Call)
    BY <2>5, <2>6 DEF WizardTypeOK
  <2>8. CASE page[p] = Closed
    BY <1>2, <2>2, <2>4, <2>8 DEF BrowserOK, OthersStand, Tells, WizardTypeOK
  <2>9. CASE page[p] # Closed
    <3>1. calls' = [calls EXCEPT ![p] = t]
      BY <1>2, <2>5, <2>9 DEF SavedCall
    <3>2. calls' \in [Page -> Seq(Call)] /\ calls'[p] = t
          /\ \A q \in Page \ {p} : calls'[q] = calls[q]
      BY <2>7, <3>1 DEF WizardTypeOK
    <3>3. Tells(p, i, r)
      BY <2>2, <2>4, <2>5, <2>9, <3>2 DEF Tells
    <3> QED
      BY <1>2, <2>4, <3>2, <3>3 DEF BrowserOK, OthersStand, WizardTypeOK
  <2> QED
    BY <2>8, <2>9
<1>3. CASE Fault /\ forms' = [forms EXCEPT ![p][i].saves = @ - 1] /\ UNCHANGED calls
  <2>1. faults' \in 0..MaxFaults
    BY <1>3, WizardAssumption DEF WizardTypeOK, Fault
  <2> QED
    BY <1>3, <2>1, SavesDrop DEF OneLess, BrowserOK, OthersStand, WizardTypeOK
<1> QED
  BY <1>2, <1>3 DEF FormAnswer

\* A record stands as it did, but for its status
Alike(s) ==
    /\ record'[s].step = record[s].step
    /\ Known(s)' <=> Known(s)
    /\ Exists(s)' <=> Exists(s)

\* What a save of form i of p does
SaveDone(p, i) ==
    /\ Saving(forms[p][i])
    /\ BrowserOK' /\ OthersStand(p) /\ OneSaved(p, i)
    /\ \/ forms'[p][i].record = forms[p][i].record /\ calls' = calls
       \/ \E r \in Id :
             /\ Tells(p, i, r)
             /\ Known(r)' /\ record'[r].step = forms[p][i].step
             /\ \/ forms[p][i].record = r /\ Exists(r)
                \/ forms[p][i].record = 0 /\ ~Known(r)
    /\ record' \in [Id -> [step : Step, status : Status]]
    /\ \A s \in Id :
          \/ Alike(s)
          \/ /\ ~Known(s)
             /\ forms[p][i].record = 0
             /\ record'[s] = [step |-> forms[p][i].step, status |-> "Draft"]

LEMMA SaveEffect ==
    ASSUME WizardTypeOK, NEW p \in Page, SaveForm(p),
           \A i \in DOMAIN forms[p] : forms[p][i].record # 0 =>
                Known(forms[p][i].record) /\ record[forms[p][i].record].step = forms[p][i].step
    PROVE  /\ UNCHANGED <<models, page, completing, session, trashed, impatient, clicks>>
           /\ \E i \in DOMAIN forms[p] : SaveDone(p, i)
<1>1. UNCHANGED <<models, page, completing, session, trashed, impatient, clicks>>
  BY DEF SaveForm
<1>2. PICK i \in DOMAIN forms[p] :
          /\ Saving(forms[p][i])
          /\ \/ Refuse(p, i)
             \/ forms[p][i].record = 0 /\ Create(p, i)
             \/ forms[p][i].record # 0 /\ Edit(p, i, forms[p][i].record)
  BY DEF SaveForm
<1>3. forms[p][i] \in Form
  BY DEF WizardTypeOK
<1>4. CASE Refuse(p, i)
  <2>1. \A s \in Id : Alike(s)
    BY <1>4 DEF Refuse, Alike, Exists, Known
  <2> QED
    BY <1>1, <1>2, <1>4, <2>1, SavesDrop
    DEF OneLess, Refuse, SaveDone, BrowserOK, OthersStand, WizardTypeOK
<1>5. CASE forms[p][i].record = 0 /\ Create(p, i)
  <2>1. PICK r \in Id :
           /\ NewId(r)
           /\ record' = [record EXCEPT ![r] = [step |-> forms[p][i].step, status |-> "Draft"]]
           /\ FormAnswer(p, i, r)
    BY <1>5 DEF Create
  <2>2. ~Known(r)
    BY <2>1 DEF NewId, Known, Absent
  <2>3. PICK new : new = [step |-> forms[p][i].step, status |-> "Draft"]
    OBVIOUS
  <2>4. new \in [step : Step, status : Status] /\ new.step = forms[p][i].step /\ new.status = "Draft"
    BY <1>3, <2>3 DEF Form, Status
  <2>5. record' \in [Id -> [step : Step, status : Status]] /\ record'[r] = new
        /\ \A s \in Id \ {r} : record'[s] = record[s]
    BY <2>1, <2>3, <2>4 DEF WizardTypeOK
  <2>6. Known(r)' /\ record'[r].step = forms[p][i].step
    BY <2>4, <2>5 DEF Known
  <2>7. \A s \in Id :
          \/ Alike(s)
          \/ /\ ~Known(s)
             /\ forms[p][i].record = 0
             /\ record'[s] = [step |-> forms[p][i].step, status |-> "Draft"]
    BY <1>5, <2>2, <2>3, <2>5 DEF Alike, Exists, Known
  <2>8. /\ BrowserOK' /\ OthersStand(p) /\ OneSaved(p, i)
        /\ \/ Tells(p, i, r)
           \/ forms'[p][i].record = forms[p][i].record /\ calls' = calls
    BY <1>1, <1>2, <2>1, FormAnswerEffect
  <2> QED
    BY <1>1, <1>2, <1>5, <2>2, <2>5, <2>6, <2>7, <2>8 DEF SaveDone
<1>6. CASE forms[p][i].record # 0 /\ Edit(p, i, forms[p][i].record)
  <2>1. PICK r : r = forms[p][i].record
    OBVIOUS
  <2>2. /\ r \in Id /\ Exists(r) /\ FormAnswer(p, i, r) /\ Known(r)
        /\ record[r].step = forms[p][i].step
        /\ UNCHANGED record \/ Rewrites(r)
    BY <1>3, <1>6, <2>1 DEF Form, Edit, Rewrites
  <2>3. /\ BrowserOK' /\ OthersStand(p) /\ OneSaved(p, i)
        /\ \/ Tells(p, i, r)
           \/ forms'[p][i].record = forms[p][i].record /\ calls' = calls
    BY <1>1, <1>2, <2>2, FormAnswerEffect
  <2>4. record' \in [Id -> [step : Step, status : Status]] /\ \A s \in Id : Alike(s)
    <3>1. CASE UNCHANGED record
      BY <3>1 DEF Alike, Exists, Known, WizardTypeOK
    <3>2. CASE Rewrites(r)
      <4>1. /\ record' \in [Id -> [step : Step, status : Status]] /\ Exists(r) /\ Exists(r)'
            /\ record'[r].step = record[r].step
            /\ \A s \in Id \ {r} : record'[s] = record[s]
        BY <2>2, <3>2, RewriteEffect DEF Exists
      <4> QED
        BY <4>1 DEF Alike, Exists, Known
    <3> QED
      BY <2>2, <3>1, <3>2
  <2>5. Known(r)' /\ record'[r].step = forms[p][i].step
    BY <2>2, <2>4 DEF Alike
  <2> QED
    BY <1>1, <1>2, <2>1, <2>2, <2>3, <2>4, <2>5 DEF SaveDone
<1> QED
  BY <1>1, <1>2, <1>4, <1>5, <1>6

-----------------------------------------------------------------------------
(* What the copies of a wizard say of the records *)

Sound(w) ==
    /\ \A i \in DOMAIN w.created :
          Known(w.created[i]) /\ (record[w.created[i]].step = 0 => w.data[0] # 0)
    /\ \A k \in Step : w.data[k] # 0 =>
          (\E i \in DOMAIN w.created : w.created[i] = w.data[k]) /\ record[w.data[k]].step = k
    /\ w.step > 0 => w.data[0] # 0

FormsSound(p) ==
    \A i \in DOMAIN forms[p] :
        LET f == forms[p][i]
        IN  /\ f.record # 0 => Known(f.record) /\ record[f.record].step = f.step
            /\ page[p] # Closed /\ f.step > 0 => page[p].data[0] # 0

CallsSound(p) ==
    \A i \in DOMAIN calls[p] :
        LET call == calls[p][i]
        IN  call.name = "stepFormSaved" =>
                /\ Known(call.record) /\ record[call.record].step = call.step
                /\ call.step > 0 => page[p].data[0] # 0

Local(p) ==
    /\ Placed(p)
    /\ page[p] # Closed => Sound(page[p])
    /\ FormsSound(p)
    /\ CallsSound(p)
    /\ completing[p] # Idle =>
          Sound(completing[p].wizard) /\ PrimaryRecord(completing[p].wizard) # 0

SessionSound == session # Closed => session.step \in Step /\ Sound(session)

RecordInv == WizardTypeOK /\ SessionSound /\ \A p \in Page : Local(p)

LEMMA ShapeOfInv ==
    ASSUME RecordInv
    PROVE  Shape
BY DEF RecordInv, Shape, SessionSound, Local

LEMMA SoundStays ==
    ASSUME NEW w \in Wizard, Sound(w), RecordsStand
    PROVE  Sound(w)'
<1>1. w.created \in Seq(Id) /\ w.data \in [Step -> Id \cup {0}] /\ \A i \in DOMAIN w.created : w.created[i] \in Id
  BY WizardFacts
<1>2. \A i \in DOMAIN w.created :
         Known(w.created[i])' /\ record'[w.created[i]].step = record[w.created[i]].step
  BY <1>1 DEF Sound, RecordsStand
<1>3. \A k \in Step : w.data[k] # 0 =>
         (\E i \in DOMAIN w.created : w.created[i] = w.data[k]) /\ record'[w.data[k]].step = k
  BY <1>2 DEF Sound
<1> QED
  BY <1>2, <1>3 DEF Sound

\* Its primary record is one of those it has created.
LEMMA PrimaryFacts ==
    ASSUME NEW w \in Wizard, Sound(w)
    PROVE  /\ PrimaryRecord(w) \in Id \cup {0}
           /\ PrimaryRecord(w) # 0 <=> w.data[0] # 0
           /\ PrimaryRecord(w) # 0 => /\ Known(PrimaryRecord(w)) /\ record[PrimaryRecord(w)].step = 0
                                      /\ \E i \in DOMAIN w.created : w.created[i] = PrimaryRecord(w)
<1>1. w.created \in Seq(Id) /\ 0 \notin Id /\ \A i \in DOMAIN w.created : w.created[i] \in Id
  <2>1. 0 \notin Id
    BY WizardAssumption DEF Id
  <2>2. w.created \in Seq(Id)
    BY WizardFacts
  <2> QED
    BY <2>1, <2>2
<1>2. CASE \E i \in DOMAIN w.created : record[w.created[i]].step = 0
  <2>1. PICK j \in DOMAIN w.created :
            PrimaryRecord(w) = w.created[j] /\ record[w.created[j]].step = 0
    BY <1>2, PrimaryIsFirst
  <2> QED
    BY <1>1, <2>1 DEF Sound
<1>3. CASE \A i \in DOMAIN w.created : record[w.created[i]].step # 0
  <2>1. PrimaryRecord(w) = 0
    BY <1>3, PrimaryNone
  <2>2. w.data[0] = 0
    BY <1>3, StepFacts DEF Sound
  <2> QED
    BY <2>1, <2>2
<1> QED
  BY <1>2, <1>3

LEMMA PrimaryKept ==
    ASSUME NEW w \in Wizard, Sound(w), RecordsStand
    PROVE  PrimaryRecord(w)' = PrimaryRecord(w)
<1>1. \A i \in DOMAIN w.created : w.created[i] \in Id
  BY WizardFacts
<1> QED
  BY <1>1, PrimaryStays DEF Sound, RecordsStand

LEMMA FormsCarried ==
    ASSUME WizardTypeOK, NEW p \in Page, FormsSound(p), RecordsStand,
           NEW i \in DOMAIN forms[p], NEW r, r = forms[p][i].record, r # 0
    PROVE  Known(r)' /\ record'[r].step = forms[p][i].step
<1>1. forms[p] \in Seq(Form)
  BY DEF WizardTypeOK
<1>2. forms[p][i] \in Form
  BY <1>1
<1>3. r \in Id
  BY <1>2 DEF Form
<1> QED
  BY <1>3 DEF FormsSound, RecordsStand

LEMMA CallsCarried ==
    ASSUME WizardTypeOK, NEW p \in Page, Placed(p), CallsSound(p), RecordsStand,
           NEW i \in DOMAIN calls[p], calls[p][i].name = "stepFormSaved",
           NEW r, r = calls[p][i].record
    PROVE  Known(r)' /\ record'[r].step = calls[p][i].step
<1>1. calls[p] \in Seq(Call)
  BY DEF WizardTypeOK
<1>2. calls[p][i] \in Call /\ r # 0
  BY <1>1 DEF Placed
<1>3. r \in Id
  BY <1>2 DEF Call
<1> QED
  BY <1>3 DEF CallsSound, RecordsStand

LEMMA LocalStays ==
    ASSUME WizardTypeOK, NEW p \in Page, Local(p), RecordsStand, UNCHANGED models,
           page'[p] = page[p], forms'[p] = forms[p], calls'[p] = calls[p],
           completing'[p] = completing[p]
    PROVE  Local(p)'
<1>1. Placed(p)'
  BY DEF Local, Placed, Mounted
<1>2. ASSUME page[p] # Closed
      PROVE  Sound(page[p])'
  <2>1. PICK w \in Wizard : w = page[p]
    BY <1>2 DEF WizardTypeOK
  <2>2. Sound(w)'
    BY <1>2, <2>1, SoundStays DEF Local
  <2> QED
    BY <2>1, <2>2
<1>3. FormsSound(p)'
  BY FormsCarried DEF Local, FormsSound
<1>4. CallsSound(p)'
  BY CallsCarried DEF Local, CallsSound
<1>5. ASSUME completing[p] # Idle
      PROVE  (Sound(completing[p].wizard) /\ PrimaryRecord(completing[p].wizard) # 0)'
  <2>1. PICK w \in Wizard : w = completing[p].wizard
    BY <1>5 DEF WizardTypeOK
  <2>2. Sound(w) /\ PrimaryRecord(w) # 0
    BY <1>5, <2>1 DEF Local
  <2>3. Sound(w)' /\ PrimaryRecord(w)' # 0
    BY <2>2, SoundStays, PrimaryKept
  <2> QED
    BY <2>1, <2>3
<1> QED
  BY <1>1, <1>2, <1>3, <1>4, <1>5 DEF Local

LEMMA TailFacts ==
    ASSUME NEW S, NEW s \in Seq(S), s # <<>>
    PROVE  /\ Tail(s) \in Seq(S) /\ Len(Tail(s)) = Len(s) - 1
           /\ \A i \in DOMAIN Tail(s) : i + 1 \in DOMAIN s /\ Tail(s)[i] = s[i + 1]
           /\ 1 \in DOMAIN s /\ Head(s) = s[1]
OBVIOUS

\* A component the page may be answered with
LEMMA AnswerLocal ==
    ASSUME WizardTypeOK, NEW p \in Page, Local(p), UNCHANGED <<models, record>>, calls[p] # <<>>,
           NEW w \in Wizard, Sound(w), page[p].data[0] # 0 => w.data[0] # 0,
           Answer(p, w), completing'[p] = Idle
    PROVE  Local(p)' /\ BrowserOK' /\ OthersStand(p)
<1>1. /\ BrowserOK' /\ OthersStand(p)
      /\ calls'[p] = Tail(calls[p])
      /\ \/ page'[p] = w /\ w.step = page[p].step /\ forms'[p] = forms[p]
         \/ page'[p] = w /\ w.step # page[p].step /\ FormsOf(p, w)
         \/ page'[p] = page[p] /\ forms'[p] = forms[p]
  BY AnswerEffect
<1>2. page[p] \in Wizard /\ page[p] # Closed /\ w # Closed
  BY WizardFacts DEF Local, Placed, WizardTypeOK
<1>3. page'[p] # Closed /\ page'[p] \in {w, page[p]} /\ (page[p].data[0] # 0 => page'[p].data[0] # 0)
  BY <1>1, <1>2
<1>4. Sound(page[p])'
  <2>1. RecordsStand
    BY NoRecordChanges
  <2>2. Sound(w)'
    BY <2>1, SoundStays
  <2>3. PICK v \in Wizard : v = page[p] /\ Sound(v)
    BY <1>2 DEF Local
  <2>4. Sound(v)'
    BY <2>1, <2>3, SoundStays
  <2> QED
    BY <1>3, <2>2, <2>3, <2>4
<1>5. calls[p] \in Seq(Call)
  BY DEF WizardTypeOK
<1>6. \A i \in DOMAIN calls'[p] : i + 1 \in DOMAIN calls[p] /\ calls'[p][i] = calls[p][i + 1]
  BY <1>1, <1>5, TailFacts
<1>7. CallsSound(p)'
  BY <1>3, <1>6 DEF Local, CallsSound, Known
<1>8. CASE forms'[p] = forms[p] /\ (page'[p] = page[p] \/ w.step = page[p].step)
  <2>1. FormsSound(p)'
    BY <1>2, <1>3, <1>8 DEF Local, FormsSound, Known
  <2>2. Placed(p)'
    BY <1>2, <1>3, <1>6, <1>8 DEF Local, Placed, Mounted
  <2> QED
    BY <1>1, <1>4, <1>7, <2>1, <2>2 DEF Local
<1>9. CASE page'[p] = w /\ FormsOf(p, w)
  <2>1. w.step \in models => NewForm(w).step = w.step
    BY NewFormFacts
  <2>2. Placed(p)'
    BY <1>2, <1>3, <1>6, <1>9, <2>1 DEF Local, Placed, Mounted, FormsOf
  <2>3. ASSUME w.step \in models
        PROVE  LET f == NewForm(w)
               IN  /\ f.record # 0 => Known(f.record) /\ record[f.record].step = f.step
                   /\ f.step > 0 => w.data[0] # 0
    <3>1. w.step \in Step
      BY <2>3, WizardAssumption DEF WizardTypeOK
    <3>2. NewForm(w).record # 0 => NewForm(w).record = w.data[w.step]
      BY <2>3, NewFormFacts
    <3> QED
      BY <2>1, <2>3, <3>1, <3>2 DEF Sound
  <2>4. FormsSound(p)'
    BY <1>2, <1>3, <1>9, <2>3 DEF Local, FormsSound, FormsOf, Known
  <2> QED
    BY <1>1, <1>4, <1>7, <2>2, <2>4 DEF Local
<1> QED
  BY <1>1, <1>8, <1>9

LEMMA AskLocal ==
    ASSUME Shape, NEW p \in Page, Local(p), UNCHANGED <<models, record>>, calls[p] # <<>>,
           NEW w \in Wizard, Sound(w), page[p].data[0] # 0 => w.data[0] # 0,
           w.step \in models, w.step = page[p].step, AskToSave(p, w), completing'[p] = Idle
    PROVE  Local(p)' /\ BrowserOK' /\ OthersStand(p)
<1>1. /\ BrowserOK' /\ OthersStand(p)
      /\ calls'[p] = Tail(calls[p])
      /\ \/ /\ page'[p] = w
            /\ DOMAIN forms'[p] = DOMAIN forms[p] /\ Len(forms'[p]) = Len(forms[p])
            /\ forms[p] # <<>> /\ forms[p][Len(forms[p])].step = page[p].step
            /\ \A i \in DOMAIN forms[p] :
                  /\ forms'[p][i].step = forms[p][i].step
                  /\ forms'[p][i].record = forms[p][i].record
         \/ page'[p] = page[p] /\ forms'[p] = forms[p]
  BY AskEffect
<1>2. page[p] \in Wizard /\ page[p] # Closed /\ w # Closed /\ WizardTypeOK
  BY WizardFacts DEF Local, Placed, WizardTypeOK, Shape
<1>3. page'[p] # Closed /\ page'[p].step = page[p].step
      /\ (page[p].data[0] # 0 => page'[p].data[0] # 0)
  BY <1>1, <1>2
<1>4. Sound(page[p])'
  <2>1. RecordsStand
    BY NoRecordChanges
  <2>2. Sound(w)'
    BY <2>1, SoundStays
  <2>3. PICK v \in Wizard : v = page[p] /\ Sound(v)
    BY <1>2 DEF Local
  <2>4. Sound(v)'
    BY <2>1, <2>3, SoundStays
  <2> QED
    BY <1>1, <2>2, <2>3, <2>4
<1>5. calls[p] \in Seq(Call) /\ forms[p] \in Seq(Form)
  BY <1>2 DEF WizardTypeOK
<1>6. \A i \in DOMAIN calls'[p] : i + 1 \in DOMAIN calls[p] /\ calls'[p][i] = calls[p][i + 1]
  BY <1>1, <1>5, TailFacts
<1>7. CallsSound(p)'
  BY <1>3, <1>6 DEF Local, CallsSound, Known
<1>8. DOMAIN forms'[p] = DOMAIN forms[p]
      /\ \A i \in DOMAIN forms[p] : /\ forms'[p][i].step = forms[p][i].step
                                    /\ forms'[p][i].record = forms[p][i].record
  BY <1>1
<1>9. FormsSound(p)'
  BY <1>2, <1>3, <1>8 DEF Local, FormsSound, Known
<1>10. Mounted(p)'
  <2>1. CASE forms'[p] = forms[p]
    BY <1>2, <1>3, <2>1 DEF Local, Placed, Mounted
  <2>2. CASE Len(forms'[p]) = Len(forms[p]) /\ forms[p] # <<>>
             /\ forms[p][Len(forms[p])].step = page[p].step
    <3>1. Len(forms[p]) \in DOMAIN forms[p] /\ forms'[p] # <<>>
      BY <1>5, <1>8, <2>2
    <3> QED
      BY <1>3, <1>8, <2>2, <3>1 DEF Mounted
  <2> QED
    BY <1>1, <2>1, <2>2
<1>11. Placed(p)'
  BY <1>3, <1>6, <1>10 DEF Local, Placed
<1> QED
  BY <1>1, <1>4, <1>7, <1>9, <1>11 DEF Local

\* A call is taken off and that is all.
LEMMA TailLocal ==
    ASSUME WizardTypeOK, NEW p \in Page, Local(p), RecordsStand, UNCHANGED models, calls[p] # <<>>,
           page'[p] = page[p], forms'[p] = forms[p], calls'[p] = Tail(calls[p]),
           completing'[p] = Idle
    PROVE  Local(p)'
<1>1. calls[p] \in Seq(Call) /\ page[p] \in Wizard /\ page[p] # Closed
  BY DEF WizardTypeOK, Local, Placed
<1>2. \A i \in DOMAIN calls'[p] : i + 1 \in DOMAIN calls[p] /\ calls'[p][i] = calls[p][i + 1]
  BY <1>1, TailFacts
<1>3. Placed(p)'
  BY <1>1, <1>2 DEF Local, Placed, Mounted
<1>4. Sound(page[p])'
  <2>1. PICK w \in Wizard : w = page[p] /\ Sound(w)
    BY <1>1 DEF Local
  <2>2. Sound(w)'
    BY <2>1, SoundStays
  <2> QED
    BY <2>1, <2>2
<1>5. FormsSound(p)'
  BY FormsCarried DEF Local, FormsSound
<1>6. CallsSound(p)'
  <2>1. \A i \in DOMAIN calls[p] : calls[p][i].name = "stepFormSaved" =>
          \A r : r = calls[p][i].record => Known(r)' /\ record'[r].step = calls[p][i].step
    BY CallsCarried DEF Local
  <2> QED
    BY <1>2, <2>1 DEF Local, CallsSound
<1> QED
  BY <1>1, <1>3, <1>4, <1>5, <1>6 DEF Local

LEMMA GoneLocal ==
    ASSUME WizardTypeOK, NEW p \in Page, Local(p), RecordsStand, UNCHANGED <<models, faults>>,
           Gone(p), completing'[p] = Idle
    PROVE  Local(p)'
<1>1. /\ page'[p] = Closed /\ calls'[p] = <<>>
      /\ DOMAIN forms'[p] = DOMAIN forms[p]
      /\ \A i \in DOMAIN forms[p] :
            /\ forms'[p][i].step = forms[p][i].step
            /\ forms'[p][i].record = forms[p][i].record
  BY GoneEffect
<1>2. \A i \in DOMAIN forms[p] : forms[p][i].record # 0 =>
         \A r : r = forms[p][i].record => Known(r)' /\ record'[r].step = forms[p][i].step
  BY FormsCarried DEF Local
<1>3. FormsSound(p)'
  BY <1>1, <1>2 DEF FormsSound
<1>4. Placed(p)' /\ CallsSound(p)'
  BY <1>1 DEF Placed, Mounted, CallsSound
<1> QED
  BY <1>1, <1>3, <1>4 DEF Local

LEMMA LeaveLocal ==
    ASSUME WizardTypeOK, NEW p \in Page, Local(p), RecordsStand, UNCHANGED models, calls[p] # <<>>,
           Leave(p), completing'[p] = Idle
    PROVE  Local(p)' /\ BrowserOK' /\ OthersStand(p)
BY LeaveEffect, GoneEffect, GoneLocal, TailLocal

\* What a call brings is as sound as what the page has.
LEMMA HeardSound ==
    ASSUME Shape, NEW p \in Page, Local(p), calls[p] # <<>>
    PROVE  /\ Heard(p) \in Wizard /\ Heard(p).step = page[p].step /\ Sound(Heard(p))
           /\ page[p].data[0] # 0 => Heard(p).data[0] # 0
           /\ Head(calls[p]).name = "stepFormSaved" => Heard(p).data[0] # 0
<1>1. PICK w, call, u : w = page[p] /\ call = Head(calls[p]) /\ u = Heard(p)
  OBVIOUS
<1>2. /\ w \in Wizard /\ w # Closed /\ u \in Wizard /\ u.step = w.step
      /\ call.name = "stepFormSaved" => /\ call.record \in Id /\ call.step \in Step
                                        /\ u = Recorded(w, call.record, call.step)
      /\ call.name # "stepFormSaved" => u = w
  BY <1>1, HeardFacts
<1>3. Sound(w)
  BY <1>1, <1>2 DEF Local
<1>4. CASE call.name # "stepFormSaved"
  BY <1>1, <1>2, <1>3, <1>4
<1>5. CASE call.name = "stepFormSaved"
  <2>1. PICK r, k : r = call.record /\ k = call.step
    OBVIOUS
  <2>2. r \in Id /\ k \in Step /\ u = Recorded(w, r, k) /\ r # 0
    BY <1>2, <1>5, <2>1, WizardAssumption DEF Id
  <2>3. /\ u.data[k] = r
        /\ \A j \in Step \ {k} : u.data[j] = w.data[j]
        /\ \A i \in DOMAIN w.created : i \in DOMAIN u.created /\ u.created[i] = w.created[i]
        /\ \A i \in DOMAIN u.created :
              \/ u.created[i] = r
              \/ i \in DOMAIN w.created /\ u.created[i] = w.created[i]
        /\ \E i \in DOMAIN u.created : u.created[i] = r
    <3>1. w \in Wizard /\ r \in Id /\ k \in Step /\ u = Recorded(w, r, k)
      BY <1>2, <2>2
    <3>2. u.data[k] = r
      BY <3>1, RecordedFacts
    <3>3. \A j \in Step \ {k} : u.data[j] = w.data[j]
      BY <3>1, RecordedFacts
    <3>4. \A i \in DOMAIN w.created : i \in DOMAIN u.created /\ u.created[i] = w.created[i]
      BY <3>1, RecordedFacts
    <3>5. \A i \in DOMAIN u.created :
              \/ u.created[i] = r
              \/ i \in DOMAIN w.created /\ u.created[i] = w.created[i]
      BY <3>1, RecordedFacts
    <3>6. \E i \in DOMAIN u.created : u.created[i] = r
      BY <3>1, RecordedFacts
    <3> QED
      BY <3>2, <3>3, <3>4, <3>5, <3>6
  <2>4. Known(r) /\ record[r].step = k /\ (k > 0 => w.data[0] # 0)
    <3>1. calls[p] \in Seq(Call)
      BY DEF Shape, WizardTypeOK
    <3>2. 1 \in DOMAIN calls[p] /\ call = calls[p][1]
      BY <1>1, <3>1
    <3> QED
      BY <1>1, <1>5, <2>1, <3>2 DEF Local, CallsSound
  <2>5. u.data[0] # 0
    BY <2>2, <2>3, <2>4, StepFacts
  <2>6. \A i \in DOMAIN u.created :
           Known(u.created[i]) /\ (record[u.created[i]].step = 0 => u.data[0] # 0)
    BY <1>3, <2>3, <2>4, <2>5 DEF Sound
  <2>7. \A j \in Step : u.data[j] # 0 =>
           (\E i \in DOMAIN u.created : u.created[i] = u.data[j]) /\ record[u.data[j]].step = j
    <3> SUFFICES ASSUME NEW j \in Step, u.data[j] # 0
                 PROVE  (\E i \in DOMAIN u.created : u.created[i] = u.data[j])
                        /\ record[u.data[j]].step = j
      OBVIOUS
    <3>1. CASE j = k
      BY <2>3, <2>4, <3>1
    <3>2. CASE j # k
      <4>1. u.data[j] = w.data[j] /\ w.data[j] # 0
        BY <2>3, <3>2
      <4>2. (\E i \in DOMAIN w.created : w.created[i] = w.data[j]) /\ record[w.data[j]].step = j
        BY <1>3, <4>1 DEF Sound
      <4> QED
        BY <2>3, <4>1, <4>2
    <3> QED
      BY <3>1, <3>2
  <2>8. Sound(u)
    BY <2>5, <2>6, <2>7 DEF Sound
  <2> QED
    BY <1>1, <1>2, <2>5, <2>8
<1> QED
  BY <1>4, <1>5

LEMMA StepSound ==
    ASSUME NEW w \in Wizard, Sound(w), NEW k \in 0..Steps, k > 0 => w.data[0] # 0
    PROVE  Sound([w EXCEPT !.step = k])
<1>1. PICK v : v = [w EXCEPT !.step = k]
  OBVIOUS
<1>2. v.step = k /\ v.data = w.data /\ v.created = w.created
  BY <1>1, WizardFacts
<1>3. Sound(v)
  BY <1>2 DEF Sound
<1> QED
  BY <1>1, <1>3

LEMMA SessionStays ==
    ASSUME WizardTypeOK, SessionSound, RecordsStand, UNCHANGED session
    PROVE  SessionSound'
<1> SUFFICES ASSUME session # Closed
             PROVE  session.step \in Step /\ Sound(session)'
  BY DEF SessionSound
<1>1. PICK w \in Wizard : w = session /\ Sound(w) /\ w.step \in Step
  BY DEF WizardTypeOK, SessionSound
<1>2. Sound(w)'
  BY <1>1, SoundStays
<1> QED
  BY <1>1, <1>2

LEMMA OnePageMoves ==
    ASSUME RecordInv, WizardTypeOK', SessionSound', RecordsStand, UNCHANGED models,
           NEW p \in Page, OthersStand(p), Local(p)',
           \A q \in Page \ {p} : completing'[q] = completing[q]
    PROVE  RecordInv'
<1>1. ASSUME NEW q \in Page \ {p}
      PROVE  Local(q)'
  BY <1>1, LocalStays DEF RecordInv, OthersStand
<1> QED
  BY <1>1 DEF RecordInv

LEMMA ServeKeeps ==
    ASSUME RecordInv, NEW p \in Page, Serve(p)
    PROVE  RecordInv'
<1>1. Shape /\ Local(p) /\ WizardTypeOK /\ SessionSound
  BY ShapeOfInv DEF RecordInv
<1>2. /\ calls[p] # <<>> /\ completing[p] = Idle
      /\ UNCHANGED <<models, database, impatient, ghosts, clicks>>
      /\ \/ Turns(p, Heard(p)) \/ Stays(p, Heard(p)) \/ Ends(p, Heard(p))
         \/ Asks(p, Heard(p)) \/ Begins(p, Heard(p)) \/ Leaves(p)
  BY <1>1, ServeCases
<1>3. PICK u \in Wizard :
         /\ u = Heard(p) /\ u.step = page[p].step /\ Sound(u)
         /\ page[p].data[0] # 0 => u.data[0] # 0
         /\ Head(calls[p]).name = "stepFormSaved" => u.data[0] # 0
  BY <1>1, <1>2, HeardSound
<1>4. RecordsStand /\ UNCHANGED <<models, record, trashed, workflow, impatient, parted, setBack, clicks>>
  BY <1>2, NoRecordChanges DEF database, ghosts
<1>5. u.step \in 0..Steps /\ 0 \in models /\ Steps \notin models /\ models \subseteq Step
      /\ (u.step > 0 => u.data[0] # 0)
  BY <1>1, <1>3, WizardFacts, WizardAssumption, StepFacts DEF WizardTypeOK, Sound
<1>6. ASSUME BrowserOK', session' \in Wizard \cup {Closed},
             completing' \in [Page -> [at : {"update", "look", "start"}, wizard : Wizard] \cup {Idle}]
      PROVE  WizardTypeOK'
  BY <1>1, <1>4, <1>6 DEF WizardTypeOK, BrowserOK
<1>7. ASSUME NEW k \in 0..Steps, k > 0 => u.data[0] # 0, Answer(p, [u EXCEPT !.step = k]),
             UNCHANGED completing
      PROVE  Local(p)' /\ BrowserOK' /\ OthersStand(p)
  <2>1. PICK v : v = [u EXCEPT !.step = k]
    OBVIOUS
  <2>2. v \in Wizard /\ Sound(v) /\ v.data = u.data
    BY <1>3, <1>7, <2>1, WizardFacts, StepSound
  <2>3. Answer(p, v) /\ completing'[p] = Idle /\ UNCHANGED <<models, record>>
    BY <1>2, <1>4, <1>7, <2>1
  <2> QED
    BY <1>1, <1>2, <1>3, <2>2, <2>3, AnswerLocal
<1>8. CASE Turns(p, u)
  <2>1. PICK s \in Step :
           /\ \/ /\ s = u.step + 1
                 /\ Head(calls[p]).name # "stepFormSaved" => ~FormStep(u.step)
              \/ s < u.step /\ u = page[p]
           /\ session' = [u EXCEPT !.step = s]
           /\ Answer(p, [u EXCEPT !.step = s])
    BY <1>8 DEF Turns
  <2>2. UNCHANGED completing /\ s \in 0..Steps
    BY <1>8, StepFacts DEF Turns
  <2>3. s > 0 => u.data[0] # 0
    <3>1. CASE u.step > 0
      BY <1>5, <3>1
    <3>2. CASE u.step = 0
      <4>1. FormStep(0)
        BY <1>5, WizardAssumption DEF FormStep
      <4> QED
        BY <1>3, <2>1, <3>2, <4>1, StepFacts
    <3> QED
      BY <1>5, <3>1, <3>2
  <2>4. Local(p)' /\ BrowserOK' /\ OthersStand(p)
    BY <1>7, <2>1, <2>2, <2>3
  <2>5. PICK v : v = [u EXCEPT !.step = s]
    OBVIOUS
  <2>6. v \in Wizard /\ v.step = s /\ Sound(v)
    BY <1>3, <2>2, <2>3, <2>5, WizardFacts, StepSound
  <2>7. Sound(v)'
    BY <1>4, <2>6, SoundStays
  <2>8. SessionSound' /\ WizardTypeOK'
    BY <1>1, <1>6, <2>1, <2>2, <2>4, <2>5, <2>6, <2>7 DEF SessionSound, WizardTypeOK
  <2> QED
    BY <1>4, <2>2, <2>4, <2>8, OnePageMoves
<1>9. CASE Stays(p, u)
  <2>1. Local(p)' /\ BrowserOK' /\ OthersStand(p)
    BY <1>1, <1>2, <1>3, <1>4, <1>9, AnswerLocal DEF Stays
  <2>2. SessionSound' /\ WizardTypeOK'
    BY <1>1, <1>4, <1>6, <1>9, <2>1, SessionStays DEF Stays, WizardTypeOK
  <2> QED
    BY <1>4, <1>9, <2>1, <2>2, OnePageMoves DEF Stays
<1>10. CASE Ends(p, u)
  <2>1. u.data[0] # 0
    BY <1>5, <1>10 DEF Ends, NeedsSave
  <2>2. Answer(p, [u EXCEPT !.step = Steps]) /\ UNCHANGED completing /\ session' = Closed
        /\ Steps \in 0..Steps
    BY <1>10, StepFacts DEF Ends, Completed
  <2>3. Local(p)' /\ BrowserOK' /\ OthersStand(p)
    BY <1>7, <2>1, <2>2
  <2>4. SessionSound' /\ WizardTypeOK'
    BY <1>1, <1>6, <2>2, <2>3 DEF SessionSound, WizardTypeOK
  <2> QED
    BY <1>4, <2>2, <2>3, <2>4, OnePageMoves
<1>11. CASE Asks(p, u)
  <2>1. Local(p)' /\ BrowserOK' /\ OthersStand(p)
    BY <1>1, <1>2, <1>3, <1>4, <1>11, AskLocal DEF Asks
  <2>2. SessionSound'
    <3>1. CASE session' = session
      BY <1>1, <1>4, <3>1, SessionStays
    <3>2. CASE session' = u
      BY <1>3, <1>4, <1>5, <1>11, <3>2, SoundStays DEF SessionSound, Asks
    <3> QED
      BY <1>11, <3>1, <3>2 DEF Asks
  <2>3. WizardTypeOK'
    BY <1>1, <1>6, <1>11, <2>1 DEF Asks, WizardTypeOK
  <2> QED
    BY <1>4, <1>11, <2>1, <2>2, <2>3, OnePageMoves DEF Asks
<1>12. CASE Begins(p, u)
  <2>1. PICK c : c = [at |-> "update", wizard |-> u]
    OBVIOUS
  <2>2. /\ c \in [at : {"update", "look", "start"}, wizard : Wizard] /\ c.wizard = u /\ c # Idle
        /\ completing' = [completing EXCEPT ![p] = c]
    BY <1>12, <2>1 DEF Begins, Idle
  <2>3. UNCHANGED <<session, page, forms, calls, faults>>
    BY <1>12 DEF Begins, browser
  <2>4. /\ completing'[p] = c /\ \A q \in Page \ {p} : completing'[q] = completing[q]
        /\ completing' \in [Page -> [at : {"update", "look", "start"}, wizard : Wizard] \cup {Idle}]
    BY <1>1, <2>2 DEF WizardTypeOK
  <2>5. SessionSound' /\ BrowserOK' /\ OthersStand(p)
    BY <1>1, <1>4, <2>3, SessionStays DEF BrowserOK, OthersStand, WizardTypeOK
  <2>6. WizardTypeOK'
    BY <1>1, <1>6, <2>3, <2>4, <2>5 DEF WizardTypeOK
  <2>7. PrimaryRecord(u)' # 0 /\ Sound(u)'
    <3>1. PrimaryRecord(u) # 0
      BY <1>12 DEF Begins, IsDraft
    <3> QED
      BY <1>3, <1>4, <3>1, PrimaryKept, SoundStays
  <2>8. Placed(p)' /\ FormsSound(p)' /\ CallsSound(p)'
    BY <1>1, <1>2, <1>4, <2>3 DEF Local, Placed, Mounted, FormsSound, CallsSound, Known
  <2>9. page[p] # Closed /\ Sound(page[p])'
    <3>1. PICK w \in Wizard : w = page[p] /\ page[p] # Closed
      BY <1>1, <1>2 DEF Local, Placed, WizardTypeOK
    <3>2. Sound(w)
      BY <1>1, <3>1 DEF Local
    <3>3. Sound(w)'
      BY <1>4, <3>1, <3>2, SoundStays
    <3> QED
      BY <2>3, <3>1, <3>3
  <2>10. Local(p)'
    BY <2>2, <2>4, <2>7, <2>8, <2>9 DEF Local
  <2> QED
    BY <1>4, <2>4, <2>5, <2>6, <2>10, OnePageMoves
<1>13. CASE Leaves(p)
  <2>1. Local(p)' /\ BrowserOK' /\ OthersStand(p)
    BY <1>1, <1>2, <1>4, <1>13, LeaveLocal DEF Leaves
  <2>2. SessionSound' /\ WizardTypeOK'
    BY <1>1, <1>4, <1>6, <1>13, <2>1, SessionStays DEF Leaves, WizardTypeOK
  <2> QED
    BY <1>4, <1>13, <2>1, <2>2, OnePageMoves DEF Leaves
<1> QED
  BY <1>2, <1>3, <1>8, <1>9, <1>10, <1>11, <1>12, <1>13

LEMMA StepFromRecordInv ==
    ASSUME RecordInv, [WizardStep]_wizardVars
    PROVE  WizardTypeOK /\ SessionSound /\ Shape /\ RecordsStand /\ \A p \in Page : Local(p)
BY ShapeOfInv, StepKeepsRecords DEF RecordInv

LEMMA CreatedFacts ==
    ASSUME NEW w \in Wizard
    PROVE  /\ ToSet(w.created) \subseteq Id
           /\ \A r : Contains(w.created, r) <=> \E i \in DOMAIN w.created : w.created[i] = r
<1>1. w.created \in Seq(Id)
  BY WizardFacts
<1> QED
  BY <1>1 DEF ToSet, Contains

LEMMA CancelDeleteKeeps ==
    ASSUME RecordInv, NEW p \in Page, CancelDelete(p)
    PROVE  RecordInv'
<1>1. WizardTypeOK /\ SessionSound /\ RecordsStand /\ Local(p)
  BY StepFromRecordInv DEF WizardStep, ServerStep
<1>2. /\ calls[p] # <<>> /\ completing[p] = Idle /\ session' = Closed /\ Leave(p)
      /\ UNCHANGED <<models, completing, trashed, impatient, setBack, clicks>>
  BY DEF CancelDelete
<1>3. Local(p)' /\ BrowserOK' /\ OthersStand(p)
  BY <1>1, <1>2, LeaveLocal
<1>4. PICK w \in Wizard : w = page[p]
  BY <1>1, <1>2 DEF Local, Placed, WizardTypeOK
<1>5. parted' \subseteq Id
  BY <1>1, <1>4, CreatedFacts DEF CancelDelete, WizardTypeOK
<1>6. record' \in [Id -> [step : Step, status : Status]]
  BY <1>1 DEF CancelDelete, DeleteCreated, WizardTypeOK, Status
<1>7. workflow' \in [Id -> Nat]
  BY <1>1 DEF CancelDelete, DeleteCreated, WizardTypeOK
<1>8. WizardTypeOK' /\ SessionSound'
  BY <1>1, <1>2, <1>3, <1>5, <1>6, <1>7 DEF WizardTypeOK, BrowserOK, SessionSound
<1> QED
  BY <1>1, <1>2, <1>3, <1>8, OnePageMoves

\* finish() moves on to another of its statements, and the browser waits.
MovesOn(p, at) ==
    /\ at \in {"update", "look", "start"}
    /\ completing[p] # Idle /\ completing' = [completing EXCEPT ![p].at = at]
    /\ UNCHANGED <<models, page, forms, calls, session, trashed, workflow, impatient, parted,
                   setBack, clicks, faults>>

LEMMA MovesOnKeeps ==
    ASSUME RecordInv, RecordsStand, NEW p \in Page, NEW at, MovesOn(p, at),
           record' \in [Id -> [step : Step, status : Status]]
    PROVE  RecordInv'
<1>1. WizardTypeOK /\ SessionSound /\ RecordsStand /\ Local(p)
  BY DEF RecordInv
<1>2. /\ at \in {"update", "look", "start"} /\ completing[p] # Idle
      /\ completing' = [completing EXCEPT ![p].at = at]
      /\ UNCHANGED <<models, page, forms, calls, session, trashed, workflow, impatient, parted,
                     setBack, clicks, faults>>
  BY DEF MovesOn
<1>3. PICK c : c = completing[p]
  OBVIOUS
<1>4. c \in [at : {"update", "look", "start"}, wizard : Wizard] /\ c # Idle
  BY <1>1, <1>2, <1>3 DEF WizardTypeOK
<1>5. PICK d : d = [c EXCEPT !.at = at]
  OBVIOUS
<1>6. d \in [at : {"update", "look", "start"}, wizard : Wizard] /\ d.wizard = c.wizard
  BY <1>2, <1>4, <1>5
<1>7. /\ completing'[p] = d /\ \A q \in Page \ {p} : completing'[q] = completing[q]
      /\ completing' \in [Page -> [at : {"update", "look", "start"}, wizard : Wizard] \cup {Idle}]
  <2>1. completing' = [completing EXCEPT ![p] = d]
    BY <1>2, <1>3, <1>5
  <2> QED
    BY <1>1, <1>6, <2>1 DEF WizardTypeOK
<1>8. record' \in [Id -> [step : Step, status : Status]]
  OBVIOUS
<1>9. WizardTypeOK'
  BY <1>1, <1>2, <1>7, <1>8 DEF WizardTypeOK
<1>10. SessionSound' /\ OthersStand(p)
  BY <1>1, <1>2, SessionStays DEF OthersStand
<1>11. Sound(d.wizard)' /\ PrimaryRecord(d.wizard)' # 0
  <2>1. PICK w \in Wizard : w = d.wizard
    BY <1>6
  <2>2. Sound(w) /\ PrimaryRecord(w) # 0
    BY <1>1, <1>3, <1>4, <1>6, <2>1 DEF Local
  <2>3. Sound(w)' /\ PrimaryRecord(w)' # 0
    BY <1>1, <2>2, SoundStays, PrimaryKept
  <2>4. PrimaryRecord(d.wizard)' = PrimaryRecord(w)'
    BY <1>5, <2>1 DEF PrimaryRecord
  <2> QED
    BY <2>1, <2>3, <2>4
<1>12. page[p] # Closed /\ calls[p] # <<>>
  BY <1>1, <1>3, <1>4 DEF Local, Placed
<1>13. Placed(p)'
  BY <1>1, <1>2, <1>12 DEF Local, Placed, Mounted
<1>14. Sound(page[p])'
  <2>1. PICK w \in Wizard : w = page[p] /\ Sound(w)
    BY <1>1, <1>12 DEF Local, WizardTypeOK
  <2>2. Sound(w)'
    BY <1>1, <2>1, SoundStays
  <2> QED
    BY <1>2, <2>1, <2>2
<1>15. FormsSound(p)'
  BY <1>1, <1>2, FormsCarried DEF Local, FormsSound
<1>16. CallsSound(p)'
  BY <1>1, <1>2, CallsCarried DEF Local, CallsSound
<1>17. Local(p)'
  BY <1>7, <1>11, <1>12, <1>13, <1>14, <1>15, <1>16 DEF Local
<1> QED
  BY <1>1, <1>2, <1>7, <1>9, <1>10, <1>17, OnePageMoves

\* What a page whose finish() is under way holds
LEMMA CompletingFacts ==
    ASSUME RecordInv, NEW p \in Page, completing[p] # Idle
    PROVE  /\ completing[p] \in [at : {"update", "look", "start"}, wizard : Wizard]
           /\ calls[p] # <<>> /\ page[p] # Closed /\ page[p] \in Wizard
           /\ Sound(completing[p].wizard)
           /\ PrimaryRecord(completing[p].wizard) \in Id
           /\ completing[p].wizard.data[0] # 0
<1>1. completing[p] \in [at : {"update", "look", "start"}, wizard : Wizard]
      /\ calls[p] # <<>> /\ page[p] # Closed /\ page[p] \in Wizard
  BY DEF RecordInv, WizardTypeOK, Local, Placed
<1>2. PICK w \in Wizard : w = completing[p].wizard
  BY <1>1
<1>3. Sound(w) /\ PrimaryRecord(w) # 0
  BY <1>2 DEF RecordInv, Local
<1> QED
  BY <1>1, <1>2, <1>3, PrimaryFacts

LEMMA NotIdle ==
    ASSUME NEW c, c.at \in {"update", "look", "start"}
    PROVE  c # Idle
<1>1. Idle.at = "idle"
  BY DEF Idle
<1> QED
  BY <1>1

LEMMA WritePendingKeeps ==
    ASSUME RecordInv, NEW p \in Page, WritePending(p)
    PROVE  RecordInv'
<1>1. WizardTypeOK /\ RecordsStand /\ Local(p)
  BY StepFromRecordInv DEF WizardStep, ServerStep
<1>2. completing[p] # Idle
  BY NotIdle DEF WritePending
<1>3. PICK r \in Id : r = PrimaryRecord(completing[p].wizard)
  BY <1>2, CompletingFacts
<1>4. record' = IF Exists(r) THEN [record EXCEPT ![r].status = "Pending"] ELSE record
  BY <1>3 DEF WritePending
<1>5. record' \in [Id -> [step : Step, status : Status]]
  <2>1. PICK e : e = [record[r] EXCEPT !.status = "Pending"]
    OBVIOUS
  <2>2. e \in [step : Step, status : Status]
    BY <1>1, <2>1 DEF WizardTypeOK, Status
  <2>3. record' = IF Exists(r) THEN [record EXCEPT ![r] = e] ELSE record
    BY <1>4, <2>1
  <2> QED
    BY <1>1, <2>2, <2>3 DEF WizardTypeOK
<1>6. MovesOn(p, "look")
  BY <1>2 DEF WritePending, MovesOn, browser, ghosts
<1> QED
  BY <1>1, <1>5, <1>6, MovesOnKeeps

\* start() finds no pending workflow.
LookOn(p) == MovesOn(p, "start") /\ completing[p].at = "look" /\ UNCHANGED record

LEMMA LookCases ==
    ASSUME NEW p \in Page, LookForWorkflow(p)
    PROVE  /\ completing[p] # Idle /\ completing[p].at = "look"
           /\ UNCHANGED <<models, record, trashed, workflow, impatient, parted, setBack, clicks>>
           /\ \/ CompletionEnds(p) /\ workflow[PrimaryRecord(completing[p].wizard)] > 0
              \/ LookOn(p)
<1>1. /\ completing[p] # Idle /\ completing[p].at = "look"
      /\ UNCHANGED <<models, record, trashed, workflow, impatient, parted, setBack, clicks>>
  BY NotIdle DEF LookForWorkflow, database, ghosts
<1>2. CASE /\ completing' = [completing EXCEPT ![p].at = "start"]
           /\ UNCHANGED <<session, browser, faults>>
  BY <1>1, <1>2 DEF LookOn, MovesOn, browser
<1> QED
  BY <1>1, <1>2 DEF LookForWorkflow

\* finish() is over, its start() having thrown or not.
LEMMA CompletionEndsKeeps ==
    ASSUME RecordInv, RecordsStand, NEW p \in Page, CompletionEnds(p), completing[p] # Idle,
           workflow' \in [Id -> Nat], parted' \subseteq Id,
           UNCHANGED <<models, record, trashed, impatient, setBack, clicks>>
    PROVE  RecordInv'
<1>1. WizardTypeOK /\ SessionSound /\ Local(p)
  BY DEF RecordInv
<1>2. PICK w \in Wizard :
         /\ w = completing[p].wizard
         /\ Sound(w) /\ w.data[0] # 0 /\ calls[p] # <<>>
  BY CompletingFacts
<1>3. /\ session' = Closed
      /\ completing' = [completing EXCEPT ![p] = Idle]
      /\ Answer(p, [w EXCEPT !.step = Steps])
  BY <1>2 DEF CompletionEnds, Completed
<1>4. PICK v : v = [w EXCEPT !.step = Steps]
  OBVIOUS
<1>5. v \in Wizard /\ Sound(v) /\ v.data[0] # 0
  <2>1. Steps \in 0..Steps
    BY StepFacts
  <2>2. v \in Wizard /\ v.data = w.data
    BY <1>2, <1>4, <2>1, WizardFacts
  <2>3. Sound(v)
    BY <1>2, <1>4, <2>1, StepSound
  <2> QED
    BY <1>2, <2>2, <2>3
<1>6. completing'[p] = Idle /\ \A q \in Page \ {p} : completing'[q] = completing[q]
  BY <1>1, <1>3 DEF WizardTypeOK
<1>7. completing' \in [Page -> [at : {"update", "look", "start"}, wizard : Wizard] \cup {Idle}]
  BY <1>1, <1>3 DEF WizardTypeOK
<1>8. Local(p)' /\ BrowserOK' /\ OthersStand(p)
  <2>1. Answer(p, v)
    BY <1>3, <1>4
  <2> QED
    BY <1>1, <1>2, <1>5, <1>6, <2>1, AnswerLocal
<1>9. WizardTypeOK' /\ SessionSound'
  BY <1>1, <1>3, <1>7, <1>8 DEF WizardTypeOK, BrowserOK, SessionSound
<1> QED
  BY <1>6, <1>8, <1>9, OnePageMoves

LEMMA LookForWorkflowKeeps ==
    ASSUME RecordInv, NEW p \in Page, LookForWorkflow(p)
    PROVE  RecordInv'
<1>1. WizardTypeOK /\ RecordsStand
  BY StepFromRecordInv DEF WizardStep, ServerStep
<1>2. /\ completing[p] # Idle
      /\ UNCHANGED <<models, record, trashed, workflow, impatient, parted, setBack, clicks>>
  BY LookCases
<1>3. CASE CompletionEnds(p)
  BY <1>1, <1>2, <1>3, CompletionEndsKeeps DEF WizardTypeOK
<1>4. CASE LookOn(p)
  BY <1>1, <1>2, <1>4, MovesOnKeeps DEF LookOn, WizardTypeOK
<1> QED
  BY <1>3, <1>4, LookCases

LEMMA StartWorkflowKeeps ==
    ASSUME RecordInv, NEW p \in Page, StartWorkflow(p)
    PROVE  RecordInv'
<1>1. WizardTypeOK /\ RecordsStand
  BY StepFromRecordInv DEF WizardStep, ServerStep
<1>2. completing[p] # Idle
  BY NotIdle DEF StartWorkflow
<1>3. PICK r \in Id : r = PrimaryRecord(completing[p].wizard)
  BY <1>2, CompletingFacts
<1>4. workflow' \in [Id -> Nat] /\ parted' \subseteq Id
  BY <1>1, <1>3, StartEffect DEF StartWorkflow
<1> QED
  BY <1>1, <1>2, <1>4, CompletionEndsKeeps DEF StartWorkflow

LEMMA CompletionDiesKeeps ==
    ASSUME RecordInv, NEW p \in Page, CompletionDies(p)
    PROVE  RecordInv'
<1>1. WizardTypeOK /\ SessionSound /\ RecordsStand /\ Local(p)
  BY StepFromRecordInv DEF WizardStep
<1>2. completing[p] # Idle /\ Fault
      /\ completing' = [completing EXCEPT ![p] = Idle]
      /\ calls' = [calls EXCEPT ![p] = Tail(@)]
      /\ UNCHANGED <<models, page, forms, session, record, trashed, workflow, impatient, setBack, clicks>>
  BY DEF CompletionDies, database
<1>3. PICK r \in Id : r = PrimaryRecord(completing[p].wizard)
  BY <1>2, CompletingFacts
<1>4. parted' \subseteq Id
  BY <1>1, <1>3 DEF WizardTypeOK, CompletionDies
<1>5. calls[p] # <<>>
  BY <1>2, CompletingFacts
<1>6. PICK t : t = Tail(calls[p])
  OBVIOUS
<1>7. t \in Seq(Call)
  BY <1>1, <1>5, <1>6 DEF WizardTypeOK
<1>8. calls' = [calls EXCEPT ![p] = t]
  BY <1>2, <1>6
<1>9. calls' \in [Page -> Seq(Call)] /\ calls'[p] = t /\ \A q \in Page \ {p} : calls'[q] = calls[q]
  BY <1>1, <1>7, <1>8 DEF WizardTypeOK
<1>10. completing'[p] = Idle /\ \A q \in Page \ {p} : completing'[q] = completing[q]
  BY <1>1, <1>2 DEF WizardTypeOK
<1>11. completing' \in [Page -> [at : {"update", "look", "start"}, wizard : Wizard] \cup {Idle}]
  BY <1>1, <1>2 DEF WizardTypeOK
<1>12. faults' \in 0..MaxFaults
  BY <1>1, <1>2, WizardAssumption DEF WizardTypeOK, Fault
<1>13. WizardTypeOK'
  BY <1>1, <1>2, <1>4, <1>9, <1>11, <1>12 DEF WizardTypeOK
<1>14. Local(p)'
  BY <1>1, <1>2, <1>5, <1>6, <1>9, <1>10, TailLocal
<1>15. OthersStand(p)
  BY <1>2, <1>9 DEF OthersStand
<1>16. SessionSound'
  BY <1>1, <1>2, SessionStays
<1> QED
  BY <1>1, <1>2, <1>10, <1>13, <1>14, <1>15, <1>16, OnePageMoves

LEMMA SaveFormKeeps ==
    ASSUME RecordInv, NEW p \in Page, SaveForm(p)
    PROVE  RecordInv'
<1>1. WizardTypeOK /\ SessionSound /\ RecordsStand /\ Local(p)
  BY StepFromRecordInv DEF WizardStep, ServerStep
<1>2. PICK i \in DOMAIN forms[p] : SaveDone(p, i)
  BY <1>1, SaveEffect DEF Local, FormsSound
<1>3. UNCHANGED <<models, page, completing, session, trashed, impatient, clicks>>
  BY DEF SaveForm
<1>4. WizardTypeOK'
  <2>1. workflow' \in [Id -> Nat] /\ parted' \subseteq Id /\ setBack' \subseteq Id
    <3>1. CASE UNCHANGED <<record, workflow, parted, setBack>>
      BY <1>1, <3>1 DEF WizardTypeOK
    <3>2. ASSUME NEW r \in Id, Adds(r)
          PROVE  workflow' \in [Id -> Nat] /\ parted' \subseteq Id /\ setBack' \subseteq Id
      BY <1>1, <3>2 DEF Adds, WizardTypeOK
    <3>3. ASSUME NEW r \in Id, Rewrites(r)
          PROVE  workflow' \in [Id -> Nat] /\ parted' \subseteq Id /\ setBack' \subseteq Id
      <4>1. setBack' \subseteq Id /\ (Start(r) \/ UNCHANGED <<workflow, parted>>)
        BY <1>1, <3>3, RewriteEffect DEF WizardTypeOK
      <4> QED
        BY <1>1, <4>1, StartEffect DEF WizardTypeOK
    <3> QED
      BY <1>1, <3>1, <3>2, <3>3, SaveWrites
  <2> QED
    BY <1>1, <1>2, <1>3, <2>1 DEF WizardTypeOK, SaveDone, BrowserOK
<1>5. forms[p] \in Seq(Form) /\ calls[p] \in Seq(Call)
  BY <1>1 DEF WizardTypeOK
<1>6. PICK f : f = forms[p][i]
  OBVIOUS
<1>7. f \in Form
  BY <1>5, <1>6
<1>8. /\ DOMAIN forms'[p] = DOMAIN forms[p] /\ Len(forms'[p]) = Len(forms[p])
      /\ \A j \in DOMAIN forms[p] \ {i} : forms'[p][j] = forms[p][j]
      /\ forms'[p][i].step = f.step
  BY <1>2, <1>6 DEF SaveDone, OneSaved
<1>9. \/ forms'[p][i].record = f.record /\ calls' = calls
      \/ \E r \in Id : Tells(p, i, r) /\ Known(r)' /\ record'[r].step = f.step
  BY <1>2, <1>6 DEF SaveDone
<1>10. page[p] # Closed /\ f.step > 0 => page[p].data[0] # 0
  BY <1>1, <1>6 DEF Local, FormsSound
<1>11. FormsSound(p)'
  <2> SUFFICES ASSUME NEW j \in DOMAIN forms[p]
               PROVE  /\ forms'[p][j].record # 0 =>
                            \A r : r = forms'[p][j].record => Known(r)' /\ record'[r].step = forms'[p][j].step
                      /\ page[p] # Closed /\ forms'[p][j].step > 0 => page[p].data[0] # 0
    BY <1>3, <1>8 DEF FormsSound
  <2>1. CASE j # i
    <3>1. forms'[p][j] = forms[p][j]
      BY <1>8, <2>1
    <3>2. forms[p][j].record # 0 =>
             \A r : r = forms[p][j].record => Known(r)' /\ record'[r].step = forms[p][j].step
      BY <1>1, FormsCarried DEF Local
    <3>3. page[p] # Closed /\ forms[p][j].step > 0 => page[p].data[0] # 0
      BY <1>1 DEF Local, FormsSound
    <3> QED
      BY <3>1, <3>2, <3>3
  <2>2. CASE j = i /\ forms'[p][i].record = f.record
    <3>1. f.record # 0 => \A r : r = f.record => Known(r)' /\ record'[r].step = f.step
      BY <1>1, <1>6, FormsCarried DEF Local
    <3> QED
      BY <1>8, <1>10, <2>2, <3>1
  <2>3. CASE j = i /\ \E r \in Id : Tells(p, i, r) /\ Known(r)' /\ record'[r].step = f.step
    BY <1>8, <1>10, <2>3 DEF Tells
  <2> QED
    BY <1>9, <2>1, <2>2, <2>3
<1>12. \A j \in DOMAIN calls[p] : calls[p][j].name = "stepFormSaved" =>
          /\ \A r : r = calls[p][j].record => Known(r)' /\ record'[r].step = calls[p][j].step
          /\ calls[p][j].record # 0
          /\ calls[p][j].step > 0 => page[p].data[0] # 0
  BY <1>1, CallsCarried DEF Local, CallsSound, Placed
<1>13. CallsSound(p)' /\ Placed(p)'
  <2>1. Mounted(p)'
    BY <1>1, <1>3, <1>5, <1>6, <1>8 DEF Local, Placed, Mounted
  <2>2. CASE calls'[p] = calls[p]
    BY <1>1, <1>3, <1>12, <2>1, <2>2 DEF CallsSound, Placed, Local
  <2>3. CASE page[p] # Closed /\ calls'[p] # calls[p]
    <3>1. PICK r \in Id : /\ calls'[p] = Append(calls[p], SavedCall(r, f.step))
                          /\ Known(r)' /\ record'[r].step = f.step
      BY <1>6, <1>9, <2>3 DEF Tells
    <3>2. PICK s, t, c : s = calls[p] /\ t = calls'[p] /\ c = SavedCall(r, f.step)
      OBVIOUS
    <3>3. c.name = "stepFormSaved" /\ c.record = r /\ c.step = f.step /\ r # 0
      BY <3>2, WizardAssumption DEF SavedCall, Id
    <3>4. t = Append(s, c) /\ s \in Seq(Call)
      BY <1>5, <3>1, <3>2
    <3>5. t # <<>> /\ \A j \in DOMAIN t : t[j] = c \/ (j \in DOMAIN s /\ t[j] = s[j])
      BY <3>4
    <3>6. \A j \in DOMAIN t : t[j].name = "stepFormSaved" =>
            /\ \A x : x = t[j].record => Known(x)' /\ record'[x].step = t[j].step
            /\ t[j].record # 0
            /\ t[j].step > 0 => page[p].data[0] # 0
      BY <1>10, <1>12, <2>3, <3>1, <3>2, <3>3, <3>5
    <3> QED
      BY <1>1, <1>3, <2>1, <2>3, <3>2, <3>5, <3>6 DEF CallsSound, Placed, Local
  <2>4. page[p] = Closed => calls'[p] = calls[p]
    BY <1>9 DEF Tells
  <2> QED
    BY <2>2, <2>3, <2>4
<1>14. ASSUME page[p] # Closed
       PROVE  Sound(page[p])'
  <2>1. PICK w \in Wizard : w = page[p] /\ Sound(w)
    BY <1>1, <1>14 DEF Local, WizardTypeOK
  <2>2. Sound(w)'
    BY <1>1, <2>1, SoundStays
  <2> QED
    BY <1>3, <2>1, <2>2
<1>15. ASSUME completing[p] # Idle
       PROVE  (Sound(completing[p].wizard) /\ PrimaryRecord(completing[p].wizard) # 0)'
  <2>1. PICK w \in Wizard : w = completing[p].wizard
    BY <1>15, CompletingFacts
  <2>2. Sound(w) /\ PrimaryRecord(w) # 0
    BY <1>1, <1>15, <2>1 DEF Local
  <2>3. Sound(w)' /\ PrimaryRecord(w)' # 0
    BY <1>1, <2>2, SoundStays, PrimaryKept
  <2> QED
    BY <1>3, <2>1, <2>3
<1>16. Local(p)'
  BY <1>3, <1>11, <1>13, <1>14, <1>15 DEF Local
<1>17. SessionSound' /\ OthersStand(p)
  BY <1>1, <1>2, <1>3, SessionStays DEF SaveDone
<1> QED
  BY <1>1, <1>3, <1>4, <1>16, <1>17, OnePageMoves

Resumed(r) == [Fresh EXCEPT !.data[0] = r, !.created = <<r>>]

LEMMA FreshFacts ==
    /\ Fresh \in Wizard /\ Fresh.step = 0 /\ Fresh.created = <<>> /\ Sound(Fresh)
    /\ \A k \in Step : Fresh.data[k] = 0
<1>1. PICK d : d = [k \in Step |-> 0]
  OBVIOUS
<1>2. d \in [Step -> Id \cup {0}] /\ \A k \in Step : d[k] = 0
  BY <1>1
<1>3. Fresh = [open |-> TRUE, step |-> 0, data |-> d, created |-> <<>>]
  BY <1>1 DEF Fresh
<1>4. <<>> \in Seq(Id)
  OBVIOUS
<1>5. 0 \in 0..Steps
  BY StepFacts
<1>6. Fresh \in Wizard
  BY <1>2, <1>3, <1>4, <1>5 DEF Wizard
<1>7. Fresh.step = 0 /\ Fresh.created = <<>> /\ Fresh.data = d
  BY <1>3
<1>8. Sound(Fresh)
  BY <1>2, <1>7 DEF Sound
<1> QED
  BY <1>2, <1>6, <1>7, <1>8

LEMMA ResumedFacts ==
    ASSUME NEW r \in Id, NEW w, w = Resumed(r)
    PROVE  /\ w \in Wizard /\ w.step = 0 /\ w.data[0] = r /\ \A k \in Step \ {0} : w.data[k] = 0
           /\ DOMAIN w.created = {1} /\ w.created[1] = r
<1>1. PICK d : d = [k \in Step |-> IF k = 0 THEN r ELSE 0]
  OBVIOUS
<1>2. d \in [Step -> Id \cup {0}] /\ d[0] = r /\ \A k \in Step \ {0} : d[k] = 0
  BY <1>1, StepFacts
<1>3. Fresh.data \in [Step -> Id \cup {0}] /\ Fresh \in Wizard /\ \A k \in Step : Fresh.data[k] = 0
  BY FreshFacts DEF Wizard
<1>4. [Fresh.data EXCEPT ![0] = r] = d
  <2>1. \A k \in Step : [Fresh.data EXCEPT ![0] = r][k] = d[k]
    BY <1>1, <1>3
  <2> QED
    BY <1>1, <1>3, <2>1
<1>5. PICK s : s = <<r>>
  OBVIOUS
<1>6. s \in Seq(Id) /\ DOMAIN s = {1} /\ s[1] = r
  BY <1>5
<1>7. w = [Fresh EXCEPT !.data = d, !.created = s]
  BY <1>4, <1>5 DEF Resumed
<1>8. w = [open |-> Fresh.open, step |-> Fresh.step, data |-> d, created |-> s]
  BY <1>3, <1>7 DEF Wizard
<1>9. w \in Wizard
  <2>1. PICK o, n : o = Fresh.open /\ n = Fresh.step
    OBVIOUS
  <2>2. o \in {TRUE} /\ n \in 0..Steps
    BY <1>3, <2>1 DEF Wizard
  <2>3. w = [open |-> o, step |-> n, data |-> d, created |-> s]
    BY <1>8, <2>1
  <2> QED
    BY <1>2, <1>6, <2>2, <2>3 DEF Wizard
<1> QED
  BY <1>2, <1>6, <1>8, <1>9, FreshFacts

\* The component a page is opened with
LEMMA OpenEffect ==
    ASSUME RecordInv, NEW p \in Page, Open(p)
    PROVE  /\ page[p] = Closed /\ ~Busy(forms[p]) /\ calls[p] = <<>>
           /\ UNCHANGED <<models, calls, completing, database, impatient, ghosts, faults>>
           /\ clicks' \in 0..MaxClicks
           /\ \E w \in Wizard :
                 /\ \/ \E r \in Id : /\ w = Resumed(r) /\ IsDraft(r) /\ record[r].step = 0
                                     /\ session' = w
                    \/ session # Closed /\ w = session /\ UNCHANGED session
                    \/ session = Closed /\ w = Fresh /\ UNCHANGED session
                 /\ w.step \in Step /\ Sound(w) /\ page'[p] = w /\ forms'[p] = Mount(w)
           /\ page' \in [Page -> Wizard \cup {Closed}] /\ forms' \in [Page -> Seq(Form)]
           /\ \A q \in Page \ {p} : page'[q] = page[q] /\ forms'[q] = forms[q]
<1>1. /\ page[p] = Closed /\ ~Busy(forms[p]) /\ calls[p] = <<>>
      /\ UNCHANGED <<models, calls, completing, database, impatient, ghosts, faults>>
  BY DEF Open, RecordInv, Local, Placed
<1>2. clicks' \in 0..MaxClicks
  BY WizardAssumption DEF Open, Does, RecordInv, WizardTypeOK
<1>3. PICK r, w :
         /\ r \in Id \cup {0}
         /\ w = IF IsDraft(r) /\ record[r].step = 0 THEN Resumed(r)
                ELSE IF session # Closed THEN session ELSE Fresh
         /\ page' = [page EXCEPT ![p] = w]
         /\ forms' = [forms EXCEPT ![p] = Mount(w)]
         /\ session' = IF IsDraft(r) /\ record[r].step = 0 THEN w ELSE session
  BY DEF Open, Resumed
<1>4. /\ w \in Wizard /\ w.step \in Step /\ Sound(w)
      /\ \/ \E x \in Id : /\ w = Resumed(x) /\ IsDraft(x) /\ record[x].step = 0
                          /\ session' = w
         \/ session # Closed /\ w = session /\ UNCHANGED session
         \/ session = Closed /\ w = Fresh /\ UNCHANGED session
  <2>1. CASE IsDraft(r) /\ record[r].step = 0
    <3>1. r \in Id /\ Known(r) /\ w = Resumed(r) /\ session' = w /\ r # 0
      BY <1>3, <2>1 DEF IsDraft, Known
    <3>2. /\ w \in Wizard /\ w.step = 0 /\ w.data[0] = r /\ \A k \in Step \ {0} : w.data[k] = 0
          /\ DOMAIN w.created = {1} /\ w.created[1] = r
      BY <3>1, ResumedFacts
    <3>3. Sound(w)
      BY <2>1, <3>1, <3>2, StepFacts DEF Sound
    <3> QED
      BY <2>1, <3>1, <3>2, <3>3, StepFacts
  <2>2. CASE ~(IsDraft(r) /\ record[r].step = 0) /\ session # Closed
    BY <1>3, <2>2 DEF RecordInv, SessionSound, WizardTypeOK
  <2>3. CASE ~(IsDraft(r) /\ record[r].step = 0) /\ session = Closed
    BY <1>3, <2>3, FreshFacts, StepFacts
  <2> QED
    BY <2>1, <2>2, <2>3
<1>5. PICK m : m = Mount(w)
  OBVIOUS
<1>6. m \in Seq(Form)
  BY <1>4, <1>5, MountFacts DEF RecordInv
<1>7. forms' = [forms EXCEPT ![p] = m]
  BY <1>3, <1>5
<1>8. /\ forms' \in [Page -> Seq(Form)] /\ forms'[p] = m
      /\ \A q \in Page \ {p} : forms'[q] = forms[q]
  BY <1>6, <1>7 DEF RecordInv, WizardTypeOK
<1>9. /\ page' \in [Page -> Wizard \cup {Closed}] /\ page'[p] = w
      /\ \A q \in Page \ {p} : page'[q] = page[q]
  BY <1>3, <1>4 DEF RecordInv, WizardTypeOK
<1> QED
  BY <1>1, <1>2, <1>4, <1>5, <1>8, <1>9

LEMMA OpenKeeps ==
    ASSUME RecordInv, NEW p \in Page, Open(p)
    PROVE  RecordInv'
<1>1. WizardTypeOK /\ SessionSound /\ RecordsStand /\ Local(p)
  BY StepFromRecordInv DEF WizardStep
<1>2. PICK w \in Wizard :
         /\ \/ \E r \in Id : /\ w = Resumed(r) /\ IsDraft(r) /\ record[r].step = 0
                             /\ session' = w
            \/ session # Closed /\ w = session /\ UNCHANGED session
            \/ session = Closed /\ w = Fresh /\ UNCHANGED session
         /\ w.step \in Step /\ Sound(w) /\ page'[p] = w /\ forms'[p] = Mount(w)
  BY OpenEffect
<1>3. /\ page[p] = Closed /\ calls[p] = <<>>
      /\ UNCHANGED <<models, calls, completing, database, impatient, ghosts, faults>>
      /\ clicks' \in 0..MaxClicks
      /\ page' \in [Page -> Wizard \cup {Closed}] /\ forms' \in [Page -> Seq(Form)]
      /\ \A q \in Page \ {p} : page'[q] = page[q] /\ forms'[q] = forms[q]
  BY OpenEffect
<1>4. UNCHANGED <<record, trashed, workflow, parted, setBack>>
  BY <1>3 DEF database, ghosts
<1>5. WizardTypeOK' /\ OthersStand(p)
  <2>1. session' \in Wizard \cup {Closed}
    BY <1>1, <1>2 DEF WizardTypeOK
  <2> QED
    BY <1>1, <1>3, <1>4, <2>1 DEF WizardTypeOK, OthersStand
<1>6. Sound(w)' /\ w # Closed
  BY <1>1, <1>2, SoundStays, WizardFacts
<1>7. SessionSound'
  BY <1>2, <1>6 DEF SessionSound
<1>8. completing'[p] = Idle /\ calls'[p] = <<>>
  BY <1>1, <1>3 DEF Local, Placed
<1>9. /\ w.step \in models => Len(Mount(w)) = 1 /\ Mount(w)[1] = NewForm(w)
      /\ w.step \notin models => Mount(w) = <<>>
      /\ Mount(w) \in Seq(Form)
  BY <1>1, MountFacts
<1>10. \A k \in Step : (w.step > 0 => w.data[0] # 0)
         /\ (w.data[k] # 0 => Known(w.data[k])' /\ record'[w.data[k]].step = k)
  BY <1>4, <1>6 DEF Sound
<1>11. CASE w.step \in models
  <2>1. PICK f : f = NewForm(w)
    OBVIOUS
  <2>2. f.step = w.step /\ (f.record # 0 => f.record = w.data[w.step])
    BY <1>1, <1>11, <2>1, NewFormFacts
  <2>3. forms'[p] # <<>> /\ Len(forms'[p]) = 1 /\ DOMAIN forms'[p] = {1} /\ forms'[p][1] = f
    BY <1>2, <1>9, <1>11, <2>1
  <2>4. Mounted(p)'
    BY <1>2, <2>2, <2>3 DEF Mounted
  <2>5. FormsSound(p)'
    BY <1>2, <1>10, <2>2, <2>3 DEF FormsSound
  <2>6. Local(p)'
    BY <1>2, <1>6, <1>8, <2>4, <2>5 DEF Local, Placed, CallsSound
  <2> QED
    BY <1>1, <1>3, <1>5, <1>7, <2>6, OnePageMoves
<1>12. CASE w.step \notin models
  <2>1. forms'[p] = <<>>
    BY <1>2, <1>9, <1>12
  <2>2. Mounted(p)' /\ FormsSound(p)'
    BY <1>2, <1>3, <1>12, <2>1 DEF Mounted, FormsSound
  <2>3. Local(p)'
    BY <1>2, <1>6, <1>8, <2>2 DEF Local, Placed, CallsSound
  <2> QED
    BY <1>1, <1>3, <1>5, <1>7, <2>3, OnePageMoves
<1> QED
  BY <1>11, <1>12

LEMMA ClickEffect ==
    ASSUME WizardTypeOK, NEW p \in Page, Click(p)
    PROVE  /\ page[p] # Closed
           /\ \E c \in Call : c.name \in Buttons(page[p]) /\ calls'[p] = Append(calls[p], c)
           /\ calls' \in [Page -> Seq(Call)]
           /\ \A q \in Page \ {p} : calls'[q] = calls[q]
           /\ clicks' \in 0..MaxClicks
           /\ impatient' = (impatient \/ Unanswered(p))
           /\ UNCHANGED <<models, page, forms, completing, session, database, ghosts, faults>>
<1>1. PICK b \in Buttons(page[p]) :
         calls' = [calls EXCEPT ![p] = Append(@, [name |-> b, record |-> 0, step |-> 0])]
  BY DEF Click
<1>2. PICK c : c = [name |-> b, record |-> 0, step |-> 0]
  OBVIOUS
<1>3. b \in {"next", "previous", "finish", "cancelKeep", "cancelDelete"}
  BY DEF Buttons
<1>4. c \in Call /\ c.name = b
  BY <1>2, <1>3, StepFacts DEF Call
<1>5. PICK t : t = Append(calls[p], c)
  OBVIOUS
<1>6. t \in Seq(Call)
  BY <1>4, <1>5 DEF WizardTypeOK
<1>7. calls' = [calls EXCEPT ![p] = t]
  BY <1>1, <1>2, <1>5
<1>8. calls' \in [Page -> Seq(Call)] /\ calls'[p] = t /\ \A q \in Page \ {p} : calls'[q] = calls[q]
  BY <1>6, <1>7 DEF WizardTypeOK
<1>9. clicks' \in 0..MaxClicks
  BY WizardAssumption DEF Click, Does, WizardTypeOK
<1>10. c.name \in Buttons(page[p])
  BY <1>1, <1>4
<1> QED
  BY <1>4, <1>5, <1>8, <1>9, <1>10 DEF Click

LEMMA AppendFacts ==
    ASSUME NEW S, NEW s \in Seq(S), NEW c \in S
    PROVE  /\ Append(s, c) # <<>> /\ Len(Append(s, c)) = Len(s) + 1
           /\ DOMAIN Append(s, c) = 1..(Len(s) + 1)
           /\ Append(s, c)[Len(s) + 1] = c
           /\ \A j \in DOMAIN s : j \in DOMAIN Append(s, c) /\ Append(s, c)[j] = s[j]
           /\ \A j \in DOMAIN Append(s, c) :
                 \/ j = Len(s) + 1 /\ Append(s, c)[j] = c
                 \/ j \in DOMAIN s /\ Append(s, c)[j] = s[j]
OBVIOUS

LEMMA ClickKeeps ==
    ASSUME RecordInv, NEW p \in Page, Click(p)
    PROVE  RecordInv'
<1>1. WizardTypeOK /\ SessionSound /\ RecordsStand /\ Local(p)
  BY StepFromRecordInv DEF WizardStep
<1>2. PICK c \in Call : c.name \in Buttons(page[p]) /\ calls'[p] = Append(calls[p], c)
  BY <1>1, ClickEffect
<1>3. /\ page[p] # Closed
      /\ calls' \in [Page -> Seq(Call)]
      /\ \A q \in Page \ {p} : calls'[q] = calls[q]
      /\ clicks' \in 0..MaxClicks
      /\ impatient' = (impatient \/ Unanswered(p))
      /\ UNCHANGED <<models, page, forms, completing, session, database, ghosts, faults>>
  BY <1>1, ClickEffect
<1>4. UNCHANGED <<record, trashed, workflow, parted, setBack>>
  BY <1>3 DEF database, ghosts
<1>5. impatient' \in BOOLEAN
  BY <1>1, <1>3 DEF WizardTypeOK, Unanswered, Busy
<1>6. WizardTypeOK' /\ OthersStand(p)
  BY <1>1, <1>3, <1>4, <1>5 DEF WizardTypeOK, OthersStand
<1>7. c.name # "stepFormSaved"
  BY <1>2 DEF Buttons
<1>8. PICK s, t : s = calls[p] /\ t = calls'[p]
  OBVIOUS
<1>9. s \in Seq(Call) /\ t = Append(s, c)
  BY <1>1, <1>2, <1>8 DEF WizardTypeOK
<1>10. t # <<>> /\ \A j \in DOMAIN t : t[j] = c \/ (j \in DOMAIN s /\ t[j] = s[j])
  BY <1>9, AppendFacts
<1>11. Placed(p)' /\ CallsSound(p)'
  BY <1>1, <1>3, <1>4, <1>7, <1>8, <1>10 DEF Local, Placed, Mounted, CallsSound, Known
<1>12. Local(p)'
  <2>1. FormsSound(p)'
    BY <1>1, <1>3, <1>4 DEF Local, FormsSound, Known
  <2>2. Sound(page[p])'
    <3>1. PICK w \in Wizard : w = page[p] /\ Sound(w)
      BY <1>1, <1>3 DEF Local, WizardTypeOK
    <3>2. Sound(w)'
      BY <1>1, <3>1, SoundStays
    <3> QED
      BY <1>3, <3>1, <3>2
  <2>3. ASSUME completing[p] # Idle
        PROVE  (Sound(completing[p].wizard) /\ PrimaryRecord(completing[p].wizard) # 0)'
    <3>1. PICK w \in Wizard : w = completing[p].wizard
      BY <2>3, CompletingFacts
    <3>2. Sound(w) /\ PrimaryRecord(w) # 0
      BY <1>1, <2>3, <3>1 DEF Local
    <3>3. Sound(w)' /\ PrimaryRecord(w)' # 0
      BY <1>1, <3>2, SoundStays, PrimaryKept
    <3> QED
      BY <1>3, <3>1, <3>3
  <2> QED
    BY <1>3, <1>11, <2>1, <2>2, <2>3 DEF Local
<1>13. SessionSound'
  BY <1>1, <1>3, SessionStays
<1> QED
  BY <1>1, <1>3, <1>6, <1>12, <1>13, OnePageMoves

LEMMA CloseKeeps ==
    ASSUME RecordInv, NEW p \in Page, Close(p)
    PROVE  RecordInv'
<1>1. WizardTypeOK /\ SessionSound /\ RecordsStand /\ Local(p)
  BY StepFromRecordInv DEF WizardStep
<1>2. /\ completing[p] = Idle /\ Gone(p)
      /\ UNCHANGED <<models, completing, session, record, trashed, workflow, impatient, parted,
                     setBack, clicks, faults>>
  BY DEF Close, database, ghosts
<1>3. BrowserOK' /\ OthersStand(p) /\ Local(p)'
  BY <1>1, <1>2, GoneEffect, GoneLocal
<1>4. WizardTypeOK' /\ SessionSound'
  BY <1>1, <1>2, <1>3, SessionStays DEF WizardTypeOK, BrowserOK
<1> QED
  BY <1>1, <1>2, <1>3, <1>4, OnePageMoves

LEMMA DeleteRowKeeps ==
    ASSUME RecordInv, DeleteRow
    PROVE  RecordInv'
<1>1. WizardTypeOK /\ SessionSound /\ RecordsStand /\ \A p \in Page : Local(p)
  BY StepFromRecordInv DEF WizardStep
<1>2. Fault /\ UNCHANGED <<models, page, forms, calls, completing, session, record, workflow,
                           impatient, parted, setBack, clicks>>
  BY DEF DeleteRow, browser, ghosts
<1>3. trashed' \subseteq Id
  BY <1>1 DEF DeleteRow, WizardTypeOK
<1>5. faults' \in 0..MaxFaults
  BY <1>1, <1>2, WizardAssumption DEF WizardTypeOK, Fault
<1>6. WizardTypeOK' /\ SessionSound'
  BY <1>1, <1>2, <1>3, <1>5, SessionStays DEF WizardTypeOK
<1>7. \A p \in Page : Local(p)'
  BY <1>1, <1>2, LocalStays
<1> QED
  BY <1>6, <1>7 DEF RecordInv

LEMMA NextRecordInv ==
    ASSUME RecordInv, [WizardStep]_wizardVars
    PROVE  RecordInv'
<1>1. CASE UNCHANGED wizardVars
  <2>1. UNCHANGED <<models, page, forms, calls, completing, session, record, trashed, workflow,
                    impatient, parted, setBack, clicks, faults>>
    BY <1>1 DEF wizardVars, browser, database, ghosts
  <2>2. WizardTypeOK /\ SessionSound /\ RecordsStand /\ \A p \in Page : Local(p)
    BY StepFromRecordInv
  <2>3. WizardTypeOK' /\ SessionSound'
    BY <2>1, <2>2, SessionStays DEF WizardTypeOK
  <2>4. \A p \in Page : Local(p)'
    BY <2>1, <2>2, LocalStays
  <2> QED
    BY <2>3, <2>4 DEF RecordInv
<1>2. CASE DeleteRow
  BY <1>2, DeleteRowKeeps
<1>3. ASSUME NEW p \in Page, Open(p) \/ Click(p) \/ Close(p) \/ CompletionDies(p)
      PROVE  RecordInv'
  BY <1>3, OpenKeeps, ClickKeeps, CloseKeeps, CompletionDiesKeeps
<1>4. ASSUME NEW p \in Page, ServerStep(p)
      PROVE  RecordInv'
  BY <1>4, ServeKeeps, CancelDeleteKeeps, WritePendingKeeps, LookForWorkflowKeeps,
     StartWorkflowKeeps, SaveFormKeeps DEF ServerStep
<1> QED
  BY <1>1, <1>2, <1>3, <1>4 DEF WizardStep

LEMMA InitRecordInv ==
    ASSUME WizardInit
    PROVE  RecordInv
<1>1. WizardTypeOK
  <2>1. <<>> \in Seq(Form) /\ <<>> \in Seq(Call)
    OBVIOUS
  <2>2. Absent \in [step : Step, status : Status]
    BY StepFacts DEF Absent, Status
  <2>3. clicks \in 0..MaxClicks /\ faults \in 0..MaxFaults
    BY WizardAssumption DEF WizardInit
  <2>4. forms \in [Page -> Seq(Form)] /\ calls \in [Page -> Seq(Call)]
    BY <2>1 DEF WizardInit
  <2>5. record \in [Id -> [step : Step, status : Status]]
    BY <2>2 DEF WizardInit
  <2> QED
    BY <2>3, <2>4, <2>5 DEF WizardInit, WizardTypeOK
<1>2. SessionSound
  BY DEF WizardInit, SessionSound
<1>3. \A p \in Page : Local(p)
  BY DEF WizardInit, Local, Placed, Mounted, FormsSound, CallsSound
<1> QED
  BY <1>1, <1>2, <1>3 DEF RecordInv

(***************************************************************************)
(* Whatever the user clicks, loses and reloads, every reachable state is   *)
(* well formed.                                                            *)
(***************************************************************************)
THEOREM WizardTypes == WizardSpec => []WizardTypeOK
<1>1. RecordInv => WizardTypeOK
  BY DEF RecordInv
<1> QED
  BY InitRecordInv, NextRecordInv, <1>1, PTL DEF WizardSpec

-----------------------------------------------------------------------------
(* The completion screen *)

\* A draft that was never anything else
NotYet(r) == IsDraft(r) /\ r \notin setBack

Submitted(p) ==
    page[p] # Closed /\ page[p].step = Steps =>
        PrimaryRecord(page[p]) # 0 /\ ~NotYet(PrimaryRecord(page[p]))

Written(p) ==
    completing[p].at \in {"look", "start"} => ~NotYet(PrimaryRecord(completing[p].wizard))

\* A page that shows the end has a primary record that went on from Draft, and so
\* has a finish() past its first statement.
SubmitInv == RecordInv /\ \A p \in Page : Submitted(p) /\ Written(p)

\* What went on from Draft is a draft again only where a form wrote it back.
LEMMA StepMovesOn ==
    ASSUME WizardTypeOK, [WizardStep]_wizardVars, NEW r \in Id, Known(r), ~NotYet(r)
    PROVE  ~NotYet(r)'
<1>1. ASSUME record'[r].status = "Draft" => record[r].status = "Draft",
             trashed \subseteq trashed', setBack \subseteq setBack'
      PROVE  ~NotYet(r)'
  BY <1>1 DEF NotYet, IsDraft
<1>2. CASE UNCHANGED <<record, trashed, setBack>>
  BY <1>1, <1>2
<1>3. ASSUME NEW p \in Page, CancelDelete(p)
      PROVE  ~NotYet(r)'
  BY <1>1, <1>3 DEF CancelDelete, DeleteCreated, WizardTypeOK
<1>4. ASSUME NEW p \in Page, WritePending(p)
      PROVE  ~NotYet(r)'
  <2>1. PICK s : record' = IF Exists(s) THEN [record EXCEPT ![s].status = "Pending"] ELSE record
    BY <1>4 DEF WritePending
  <2>2. record'[r].status = "Draft" => record[r].status = "Draft"
    BY <2>1 DEF WizardTypeOK
  <2> QED
    BY <1>1, <1>4, <2>2 DEF WritePending, ghosts
<1>5. ASSUME NEW p \in Page, SaveForm(p)
      PROVE  ~NotYet(r)'
  <2>1. UNCHANGED trashed
    BY <1>5 DEF SaveForm
  <2>2. ASSUME NEW s \in Id, Adds(s)
        PROVE  ~NotYet(r)'
    BY <1>1, <2>1, <2>2 DEF Adds
  <2>3. ASSUME NEW s \in Id, Rewrites(s)
        PROVE  ~NotYet(r)'
    <3>1. /\ Exists(s) /\ record'[s].status \in {"Draft", "Pending"}
          /\ \A x \in Id \ {s} : record'[x] = record[x]
          /\ setBack \subseteq setBack'
          /\ record[s].status = "Pending" /\ record'[s].status = "Draft" => s \in setBack'
      BY <2>3, RewriteEffect
    <3>2. CASE r \in setBack'
      BY <3>2 DEF NotYet
    <3>3. CASE r \notin setBack'
      BY <1>1, <2>1, <3>1, <3>3 DEF Exists
    <3> QED
      BY <3>2, <3>3
  <2> QED
    BY <1>2, <1>5, <2>1, <2>2, <2>3, SaveWrites
<1>6. CASE DeleteRow
  BY <1>1, <1>6 DEF DeleteRow, ghosts
<1> QED
  BY <1>2, <1>3, <1>4, <1>5, <1>6
  DEF WizardStep, wizardVars, database, ghosts, ServerStep, Open, Click, Close, CompletionDies,
      Serve, LookForWorkflow, StartWorkflow

LEMMA MovedOnForGood ==
    ASSUME WizardTypeOK, [WizardStep]_wizardVars,
           NEW w \in Wizard, Sound(w), ~NotYet(PrimaryRecord(w))
    PROVE  ~NotYet(PrimaryRecord(w))'
<1>1. RecordsStand
  BY StepKeepsRecords
<1>2. PICK r : r = PrimaryRecord(w)
  OBVIOUS
<1>3. r \in Id \cup {0} /\ (r # 0 => Known(r)) /\ r = PrimaryRecord(w)'
  BY <1>1, <1>2, PrimaryFacts, PrimaryKept
<1>4. ~NotYet(r)'
  <2>1. CASE r = 0
    BY <2>1 DEF NotYet, IsDraft
  <2>2. CASE r # 0
    BY <1>2, <1>3, <2>2, StepMovesOn
  <2> QED
    BY <2>1, <2>2
<1> QED
  BY <1>3, <1>4 DEF NotYet, IsDraft

\* How a page comes to show something else
Ended(p, u) ==
    /\ Sound(u) /\ u.data[0] # 0 /\ ~NotYet(PrimaryRecord(u))
    /\ page'[p] = Completed(u)
    /\ UNCHANGED record

PageTurns(p) ==
    \/ page'[p] \in {page[p], Closed}
    \/ page'[p].step \in Step
    \/ \E u \in Wizard : Ended(p, u)

CompletingTurns(p) ==
    \/ completing'[p] \in {completing[p], Idle}
    \/ completing'[p].at = "update"
    \/ WritePending(p)
    \/ LookOn(p)

LEMMA ServeTurns ==
    ASSUME RecordInv, NEW p \in Page, Serve(p)
    PROVE  PageTurns(p) /\ CompletingTurns(p)
<1>1. Shape /\ Local(p) /\ WizardTypeOK
  BY ShapeOfInv DEF RecordInv
<1>2. /\ calls[p] # <<>> /\ completing[p] = Idle
      /\ UNCHANGED <<models, database, impatient, ghosts, clicks>>
      /\ \/ Turns(p, Heard(p)) \/ Stays(p, Heard(p)) \/ Ends(p, Heard(p))
         \/ Asks(p, Heard(p)) \/ Begins(p, Heard(p)) \/ Leaves(p)
  BY <1>1, ServeCases
<1>3. PICK u \in Wizard :
         /\ u = Heard(p) /\ u.step = page[p].step /\ Sound(u)
  BY <1>1, <1>2, HeardSound
<1>4. models \subseteq Step /\ 0 \in models
  BY <1>1, WizardAssumption DEF WizardTypeOK
<1>5. CASE Turns(p, u)
  <2>1. PICK s \in Step : Answer(p, [u EXCEPT !.step = s])
    BY <1>5 DEF Turns
  <2>2. PICK v : v = [u EXCEPT !.step = s]
    OBVIOUS
  <2>3. v \in Wizard /\ v.step = s
    BY <2>2, WizardFacts, StepFacts
  <2>4. page'[p] = v \/ page'[p] = page[p]
    BY <1>1, <1>2, <2>1, <2>2, <2>3, AnswerEffect
  <2> QED
    BY <1>5, <2>3, <2>4 DEF PageTurns, CompletingTurns, Turns
<1>6. CASE Stays(p, u)
  <2>1. page'[p] = page[p]
    BY <1>1, <1>2, <1>6, AnswerEffect DEF Stays
  <2> QED
    BY <1>6, <2>1 DEF PageTurns, CompletingTurns, Stays
<1>7. CASE Ends(p, u)
  <2>1. PICK v : v = [u EXCEPT !.step = Steps]
    OBVIOUS
  <2>2. v \in Wizard
    <3>1. Steps \in 0..Steps
      BY StepFacts
    <3> QED
      BY <2>1, <3>1, WizardFacts
  <2>3. page'[p] = v \/ page'[p] = page[p]
    BY <1>1, <1>2, <1>7, <2>1, <2>2, AnswerEffect DEF Ends, Completed
  <2>4. u.data[0] # 0
    <3>1. u.step \in 0..Steps
      BY WizardFacts
    <3> QED
      BY <1>3, <1>4, <1>7, <3>1, StepFacts DEF Ends, NeedsSave, Sound
  <2>5. page'[p] = v => Ended(p, u)
    BY <1>2, <1>3, <1>7, <2>1, <2>4 DEF Ended, Ends, Completed, database, NotYet
  <2> QED
    BY <1>7, <2>3, <2>5 DEF PageTurns, CompletingTurns, Ends
<1>8. CASE Asks(p, u)
  <2>1. page'[p] = u \/ page'[p] = page[p]
    BY <1>1, <1>2, <1>3, <1>8, AskEffect DEF Asks
  <2> QED
    BY <1>4, <1>8, <2>1 DEF PageTurns, CompletingTurns, Asks
<1>9. CASE Begins(p, u)
  <2>1. page' = page /\ completing' = [completing EXCEPT ![p] = [at |-> "update", wizard |-> u]]
    BY <1>9 DEF Begins, browser
  <2>2. completing'[p].at = "update"
    BY <1>1, <2>1 DEF WizardTypeOK
  <2> QED
    BY <2>1, <2>2 DEF PageTurns, CompletingTurns
<1>10. CASE Leaves(p)
  <2>1. page'[p] \in {page[p], Closed}
    BY <1>1, <1>2, <1>10, LeaveEffect, GoneEffect DEF Leaves
  <2> QED
    BY <1>10, <2>1 DEF PageTurns, CompletingTurns, Leaves
<1> QED
  BY <1>2, <1>3, <1>5, <1>6, <1>7, <1>8, <1>9, <1>10

LEMMA EndTurns ==
    ASSUME SubmitInv, NEW p \in Page, CompletionEnds(p), UNCHANGED record,
           completing[p].at \in {"look", "start"}
    PROVE  PageTurns(p) /\ CompletingTurns(p)
<1>1. RecordInv /\ Written(p) /\ completing[p] # Idle
  BY NotIdle DEF SubmitInv
<1>2. PICK w \in Wizard :
         /\ w = completing[p].wizard
         /\ Sound(w) /\ w.data[0] # 0 /\ calls[p] # <<>>
  BY <1>1, CompletingFacts
<1>3. completing' = [completing EXCEPT ![p] = Idle] /\ Answer(p, Completed(w))
  BY <1>2 DEF CompletionEnds
<1>4. ~NotYet(PrimaryRecord(w))
  BY <1>1, <1>2 DEF Written
<1>5. PICK v : v = [w EXCEPT !.step = Steps]
  OBVIOUS
<1>6. v \in Wizard
  <2>1. Steps \in 0..Steps
    BY StepFacts
  <2> QED
    BY <1>5, <2>1, WizardFacts
<1>7. page'[p] = v \/ page'[p] = page[p]
  BY <1>1, <1>2, <1>3, <1>5, <1>6, AnswerEffect DEF RecordInv, Completed
<1>8. page'[p] = v => Ended(p, w)
  BY <1>2, <1>3, <1>4, <1>5 DEF Ended, Completed
<1>9. completing'[p] = Idle
  BY <1>1, <1>3 DEF RecordInv, WizardTypeOK
<1> QED
  BY <1>7, <1>8, <1>9 DEF PageTurns, CompletingTurns

\* The other pages stand, and so does what finish() does for them.
LEMMA ServerTurnsOne ==
    ASSUME SubmitInv, NEW p \in Page, ServerStep(p), NEW q \in Page
    PROVE  PageTurns(q) /\ CompletingTurns(q)
<1>1. RecordInv /\ WizardTypeOK /\ Local(p)
  BY DEF SubmitInv, RecordInv
<1>2. CASE Serve(p)
  <2>1. CASE q = p
    BY <1>1, <1>2, <2>1, ServeTurns
  <2>2. CASE q # p
    <3>1. calls[p] # <<>> /\ completing[p] = Idle
          /\ \/ Turns(p, Heard(p)) \/ Stays(p, Heard(p)) \/ Ends(p, Heard(p))
             \/ Asks(p, Heard(p)) \/ Begins(p, Heard(p)) \/ Leaves(p)
      BY <1>1, <1>2, ShapeOfInv, ServeCases
    <3>2. \/ \E w : calls' = [calls EXCEPT ![p] = Tail(@)] /\ Answer(p, w)
          \/ \E w : AskToSave(p, w)
          \/ page' = page
          \/ Leave(p)
      BY <3>1 DEF Turns, Stays, Ends, Asks, Begins, Leaves, Answer, browser
    <3>3. page'[q] = page[q]
      BY <1>1, <2>2, <3>2 DEF Answer, Show, AskToSave, Leave, Gone, WizardTypeOK
    <3>4. completing'[q] = completing[q]
      BY <1>1, <2>2, <3>1 DEF Turns, Stays, Ends, Asks, Begins, Leaves, WizardTypeOK
    <3> QED
      BY <3>3, <3>4 DEF PageTurns, CompletingTurns
  <2> QED
    BY <2>1, <2>2
<1>3. CASE CancelDelete(p)
  <2>1. page'[q] \in {page[q], Closed}
    BY <1>1, <1>3 DEF CancelDelete, Leave, Gone, WizardTypeOK
  <2> QED
    BY <1>3, <2>1 DEF PageTurns, CompletingTurns, CancelDelete
<1>4. CASE WritePending(p)
  <2>1. page' = page /\ (q = p \/ completing'[q] = completing[q])
    BY <1>1, <1>4 DEF WritePending, browser, WizardTypeOK
  <2> QED
    BY <1>4, <2>1 DEF PageTurns, CompletingTurns
<1>5. CASE CompletionEnds(p) /\ UNCHANGED record /\ completing[p].at \in {"look", "start"}
  <2>1. CASE q = p
    BY <1>5, <2>1, EndTurns
  <2>2. CASE q # p
    BY <1>1, <1>5, <2>2
    DEF CompletionEnds, Answer, Show, PageTurns, CompletingTurns, WizardTypeOK
  <2> QED
    BY <2>1, <2>2
<1>6. CASE LookOn(p)
  <2>1. page' = page /\ (q = p \/ completing'[q] = completing[q])
    BY <1>1, <1>6 DEF LookOn, MovesOn, WizardTypeOK
  <2> QED
    BY <1>6, <2>1 DEF PageTurns, CompletingTurns
<1>7. CASE SaveForm(p)
  BY <1>7 DEF SaveForm, PageTurns, CompletingTurns
<1> QED
  BY <1>2, <1>3, <1>4, <1>5, <1>6, <1>7, LookCases DEF ServerStep, StartWorkflow

LEMMA StepTurns ==
    ASSUME SubmitInv, [WizardStep]_wizardVars, NEW q \in Page
    PROVE  PageTurns(q) /\ CompletingTurns(q)
<1>1. RecordInv /\ WizardTypeOK
  BY DEF SubmitInv, RecordInv
<1>2. ASSUME NEW p \in Page, Open(p)
      PROVE  PageTurns(q) /\ CompletingTurns(q)
  BY <1>1, <1>2, OpenEffect DEF PageTurns, CompletingTurns
<1>3. ASSUME NEW p \in Page, Click(p)
      PROVE  PageTurns(q) /\ CompletingTurns(q)
  BY <1>3 DEF Click, PageTurns, CompletingTurns
<1>4. ASSUME NEW p \in Page, Close(p)
      PROVE  PageTurns(q) /\ CompletingTurns(q)
  BY <1>1, <1>4 DEF Close, Gone, PageTurns, CompletingTurns, WizardTypeOK
<1>5. ASSUME NEW p \in Page, CompletionDies(p)
      PROVE  PageTurns(q) /\ CompletingTurns(q)
  BY <1>1, <1>5 DEF CompletionDies, PageTurns, CompletingTurns, WizardTypeOK
<1>6. CASE DeleteRow \/ UNCHANGED wizardVars
  BY <1>6 DEF DeleteRow, wizardVars, browser, PageTurns, CompletingTurns
<1> QED
  BY <1>2, <1>3, <1>4, <1>5, <1>6, ServerTurnsOne DEF WizardStep

LEMMA PendingWritten ==
    ASSUME RecordInv, NEW p \in Page, WritePending(p)
    PROVE  Written(p)'
<1>1. completing[p] # Idle /\ WizardTypeOK
  BY NotIdle DEF WritePending, RecordInv
<1>2. PICK w \in Wizard, r \in Id : w = completing[p].wizard /\ r = PrimaryRecord(w) /\ Sound(w)
  BY <1>1, CompletingFacts
<1>3. RecordsStand
  BY StepFromRecordInv DEF WizardStep, ServerStep
<1>4. PrimaryRecord(w)' = r
  BY <1>2, <1>3, PrimaryKept
<1>5. record' = IF Exists(r) THEN [record EXCEPT ![r].status = "Pending"] ELSE record
  BY <1>2 DEF WritePending
<1>6. ~NotYet(r)'
  BY <1>1, <1>5 DEF NotYet, IsDraft, Exists, WizardTypeOK
<1>7. completing'[p].wizard = w
  BY <1>1, <1>2 DEF WritePending, WizardTypeOK
<1>8. PICK d : d = completing'[p]
  OBVIOUS
<1>9. ~NotYet(PrimaryRecord(w))'
  BY <1>4, <1>6 DEF NotYet, IsDraft
<1> QED
  BY <1>7, <1>9 DEF Written

LEMMA LookedWritten ==
    ASSUME SubmitInv, NEW p \in Page, LookOn(p), [WizardStep]_wizardVars
    PROVE  Written(p)'
<1>1. completing[p] # Idle /\ WizardTypeOK /\ RecordInv /\ completing[p].at = "look"
  BY DEF LookOn, MovesOn, SubmitInv, RecordInv
<1>2. PICK w \in Wizard : w = completing[p].wizard /\ Sound(w)
  BY <1>1, CompletingFacts
<1>3. ~NotYet(PrimaryRecord(w))
  BY <1>1, <1>2 DEF SubmitInv, Written
<1>4. ~NotYet(PrimaryRecord(w))'
  BY <1>1, <1>2, <1>3, MovedOnForGood
<1>5. completing'[p].wizard = w
  BY <1>1, <1>2 DEF LookOn, MovesOn, WizardTypeOK
<1> QED
  BY <1>4, <1>5 DEF Written

LEMMA NextSubmitInv ==
    ASSUME SubmitInv, [WizardStep]_wizardVars
    PROVE  SubmitInv'
<1>1. RecordInv /\ RecordInv' /\ RecordsStand /\ WizardTypeOK
  BY NextRecordInv, StepFromRecordInv DEF SubmitInv
<1>2. ASSUME NEW p \in Page
      PROVE  Submitted(p)'
  <2>1. CASE page'[p] = page[p] /\ page[p] # Closed /\ page[p].step = Steps
    <3>1. PICK w \in Wizard : w = page[p]
      BY <1>1, <2>1 DEF WizardTypeOK
    <3>2. Sound(w) /\ PrimaryRecord(w) # 0 /\ ~NotYet(PrimaryRecord(w))
      BY <2>1, <3>1 DEF SubmitInv, RecordInv, Local, Submitted
    <3>3. PrimaryRecord(w)' # 0 /\ ~NotYet(PrimaryRecord(w))'
      BY <1>1, <3>2, PrimaryKept, MovedOnForGood
    <3> QED
      BY <2>1, <3>1, <3>3 DEF Submitted
  <2>2. CASE page'[p] = Closed \/ page'[p].step \in Step
    BY <2>2, StepFacts DEF Submitted
  <2>3. ASSUME NEW u \in Wizard, Ended(p, u)
        PROVE  Submitted(p)'
    <3>1. PICK v : v = [u EXCEPT !.step = Steps]
      OBVIOUS
    <3>2. v.created = u.created /\ page'[p] = v
      BY <2>3, <3>1, WizardFacts, StepFacts DEF Ended, Completed
    <3>3. PrimaryRecord(u) # 0 /\ PrimaryRecord(u)' = PrimaryRecord(u)
      BY <1>1, <2>3, PrimaryFacts, PrimaryKept DEF Ended
    <3>4. ~NotYet(PrimaryRecord(u))'
      BY <1>1, <2>3, MovedOnForGood DEF Ended
    <3>5. PrimaryRecord(v)' = PrimaryRecord(u)'
      BY <3>2 DEF PrimaryRecord
    <3>6. PrimaryRecord(v)' # 0 /\ ~NotYet(PrimaryRecord(v))'
      BY <3>3, <3>4, <3>5 DEF NotYet, IsDraft
    <3> QED
      BY <3>2, <3>6 DEF Submitted
  <2>4. PageTurns(p)
    BY StepTurns
  <2> QED
    BY <2>1, <2>2, <2>3, <2>4 DEF PageTurns, Submitted
<1>3. ASSUME NEW p \in Page
      PROVE  Written(p)'
  <2>1. CASE completing'[p] = completing[p] /\ completing[p].at \in {"look", "start"}
    <3>1. PICK w \in Wizard : w = completing[p].wizard /\ Sound(w)
      BY <1>1, <2>1, NotIdle, CompletingFacts
    <3>2. ~NotYet(PrimaryRecord(w))
      BY <2>1, <3>1 DEF SubmitInv, Written
    <3>3. ~NotYet(PrimaryRecord(w))'
      BY <1>1, <3>1, <3>2, MovedOnForGood
    <3> QED
      BY <2>1, <3>1, <3>3 DEF Written
  <2>2. CASE completing'[p] = Idle \/ completing'[p].at = "update"
    BY <2>2 DEF Written, Idle
  <2>3. CASE WritePending(p)
    BY <1>1, <2>3, PendingWritten
  <2>4. CASE LookOn(p)
    BY <2>4, LookedWritten
  <2>5. CompletingTurns(p)
    BY StepTurns
  <2> QED
    BY <2>1, <2>2, <2>3, <2>4, <2>5 DEF CompletingTurns, Written
<1> QED
  BY <1>1, <1>2, <1>3 DEF SubmitInv

LEMMA InitSubmitInv ==
    ASSUME WizardInit
    PROVE  SubmitInv
<1>1. \A p \in Page : Submitted(p) /\ Written(p)
  BY DEF WizardInit, Submitted, Written, Idle
<1> QED
  BY <1>1, InitRecordInv DEF SubmitInv

LEMMA SubmitInvImplies ==
    ASSUME SubmitInv
    PROVE  CompletionMeansSubmitted
<1> SUFFICES ASSUME NEW p \in Page, page[p] # Closed, page[p].step = Steps
             PROVE  \E i \in DOMAIN page[p].created :
                       /\ record[page[p].created[i]].step = 0
                       /\ \A j \in DOMAIN page[p].created :
                             j < i => record[page[p].created[j]].step # 0
                       /\ IsDraft(page[p].created[i]) => page[p].created[i] \in setBack
  BY DEF CompletionMeansSubmitted
<1>1. PICK w \in Wizard : w = page[p]
  BY DEF SubmitInv, RecordInv, WizardTypeOK
<1>2. PrimaryRecord(w) # 0 /\ ~NotYet(PrimaryRecord(w))
  BY <1>1 DEF SubmitInv, Submitted
<1>3. PICK i \in DOMAIN w.created : record[w.created[i]].step = 0
  BY <1>2, PrimaryNone
<1>4. PICK j \in DOMAIN w.created :
         /\ PrimaryRecord(w) = w.created[j]
         /\ record[w.created[j]].step = 0
         /\ \A k \in DOMAIN w.created : k < j => record[w.created[k]].step # 0
  BY <1>3, PrimaryIsFirst
<1> QED
  BY <1>1, <1>2, <1>4 DEF NotYet

(***************************************************************************)
(* For every wizard, number of pages, clicks and faults: the completion    *)
(* screen is shown only when the record the wizard is about was saved and  *)
(* is no draft any more, unless a form wrote it back since.                *)
(***************************************************************************)
THEOREM CompletionIsSubmission == WizardSpec => []CompletionMeansSubmitted
<1>1. SubmitInv => CompletionMeansSubmitted
  BY SubmitInvImplies
<1> QED
  BY InitSubmitInv, NextSubmitInv, <1>1, PTL DEF WizardSpec

-----------------------------------------------------------------------------
(* Records and their workflows *)

\* The record that finish() is at work on for p
Hand(p) == PrimaryRecord(completing[p].wizard)

Under(p, r) == completing[p].at \in {"look", "start"} /\ Hand(p) = r

\* Records of which the property says nothing
Astray(r) == r \in parted \cup setBack

\* A record has one pending workflow if it is Pending and none if not, or it waits
\* for a finish() that is about to start it.
Backed(r) ==
    \/ Astray(r)
    \/ workflow[r] = IF record[r].status = "Pending" THEN 1 ELSE 0
    \/ record[r].status = "Pending" /\ workflow[r] = 0 /\ \E p \in Page : Under(p, r)

\* finish() works on a record that is there, and writes Pending first.
Held(p) ==
    completing[p] # Idle =>
        \/ Astray(Hand(p))
        \/ /\ Exists(Hand(p))
           /\ completing[p].at \in {"look", "start"} => record[Hand(p)].status = "Pending"

MatchInv ==
    /\ RecordInv
    /\ \A r \in Id : Backed(r)
    /\ \A p \in Page : Held(p)

\* What a step may do to a record without finish() losing hold of it
Holds(r) ==
    /\ Astray(r) => Astray(r)'
    /\ \/ Astray(r)'
       \/ /\ Exists(r) => Exists(r)'
          /\ record[r].status = "Pending" => record'[r].status = "Pending"

LEMMA HandFacts ==
    ASSUME RecordInv, NEW p \in Page, completing[p] # Idle
    PROVE  Hand(p) \in Id /\ Hand(p) \in InHand
BY CompletingFacts DEF Hand, InHand

LEMMA HandKept ==
    ASSUME RecordInv, RecordsStand, NEW p \in Page, completing[p] # Idle,
           completing'[p].wizard = completing[p].wizard
    PROVE  Hand(p)' = Hand(p)
<1>1. PICK w \in Wizard : w = completing[p].wizard /\ Sound(w)
  BY CompletingFacts
<1>2. PrimaryRecord(w)' = PrimaryRecord(w)
  BY <1>1, PrimaryKept
<1> QED
  BY <1>1, <1>2 DEF Hand

LEMMA UnderStays ==
    ASSUME RecordInv, RecordsStand, NEW p \in Page, completing'[p] = completing[p],
           NEW r, Under(p, r)
    PROVE  Under(p, r)'
BY NotIdle, HandKept DEF Under

LEMMA HeldStays ==
    ASSUME RecordInv, RecordsStand, NEW p \in Page, Held(p), completing'[p] = completing[p],
           \A r \in InHand : Holds(r)
    PROVE  Held(p)'
<1> SUFFICES ASSUME completing[p] # Idle
             PROVE  Held(p)'
  BY DEF Held
<1>1. PICK r \in Id : r = Hand(p) /\ r = Hand(p)' /\ r \in InHand
  BY HandFacts, HandKept
<1>2. \/ Astray(r)
      \/ Exists(r) /\ (completing[p].at \in {"look", "start"} => record[r].status = "Pending")
  BY <1>1 DEF Held
<1>3. \/ Astray(r)'
      \/ Exists(r)' /\ (completing[p].at \in {"look", "start"} => record'[r].status = "Pending")
  BY <1>1, <1>2 DEF Holds
<1> QED
  BY <1>1, <1>3 DEF Held, Exists, Astray

\* Nothing of this is touched.
LEMMA MatchQuiet ==
    ASSUME MatchInv, RecordInv', RecordsStand, UNCHANGED <<record, workflow, parted, setBack>>,
           \A q \in Page : completing'[q] = completing[q]
    PROVE  MatchInv'
<1>1. RecordInv /\ (\A r \in Id : Backed(r)) /\ \A q \in Page : Held(q)
  BY DEF MatchInv
<1>2. \A q \in Page : Held(q)'
  <2>1. \A r \in InHand : Holds(r)
    BY DEF Holds, Exists, Astray
  <2> QED
    BY <1>1, <2>1, HeldStays
<1>3. ASSUME NEW r \in Id
      PROVE  Backed(r)'
  BY <1>1, UnderStays DEF Backed, Astray
<1> QED
  BY <1>2, <1>3 DEF MatchInv

LEMMA ServeMatches ==
    ASSUME MatchInv, RecordInv', NEW p \in Page, Serve(p)
    PROVE  MatchInv'
<1>1. RecordInv /\ WizardTypeOK /\ RecordsStand /\ Shape /\ (\A r \in Id : Backed(r))
      /\ \A q \in Page : Held(q)
  BY StepFromRecordInv DEF MatchInv, WizardStep, ServerStep
<1>2. /\ calls[p] # <<>> /\ completing[p] = Idle
      /\ UNCHANGED <<record, workflow, parted, setBack>>
      /\ \/ Turns(p, Heard(p)) \/ Stays(p, Heard(p)) \/ Ends(p, Heard(p))
         \/ Asks(p, Heard(p)) \/ Begins(p, Heard(p)) \/ Leaves(p)
  BY <1>1, ServeCases DEF database, ghosts
<1>3. PICK u \in Wizard : u = Heard(p) /\ Sound(u)
  BY <1>1, <1>2, HeardSound DEF RecordInv
<1>4. CASE UNCHANGED completing
  BY <1>1, <1>2, <1>4, MatchQuiet
<1>5. CASE Begins(p, u)
  <2>1. PICK c : c = [at |-> "update", wizard |-> u]
    OBVIOUS
  <2>2. c.at = "update" /\ c.wizard = u
    BY <2>1
  <2>3. completing'[p] = c /\ \A q \in Page \ {p} : completing'[q] = completing[q]
    BY <1>1, <1>5, <2>1 DEF Begins, WizardTypeOK
  <2>4. PICK r : r = PrimaryRecord(u) /\ IsDraft(r)
    BY <1>5 DEF Begins
  <2>5. r = PrimaryRecord(u)'
    BY <1>1, <1>3, <2>4, PrimaryKept
  <2>6. Hand(p)' = r
    BY <2>2, <2>3, <2>5 DEF Hand
  <2>7. Exists(r)'
    BY <1>2, <2>4 DEF IsDraft, Exists
  <2>8. Held(p)'
    BY <2>2, <2>3, <2>6, <2>7 DEF Held, Exists
  <2>9. \A q \in Page : Held(q)'
    <3>1. \A x \in InHand : Holds(x)
      BY <1>2 DEF Holds, Exists, Astray
    <3> QED
      BY <1>1, <1>2, <2>3, <2>8, <3>1, HeldStays
  <2>10. \A x : ~Under(p, x)
    BY <1>2, NotIdle DEF Under
  <2>11. ASSUME NEW x \in Id
         PROVE  Backed(x)'
    BY <1>1, <1>2, <2>3, <2>10, UnderStays DEF Backed, Astray
  <2> QED
    BY <2>9, <2>11 DEF MatchInv
<1> QED
  BY <1>2, <1>3, <1>4, <1>5 DEF Turns, Stays, Ends, Asks, Leaves

LEMMA CancelDeleteMatches ==
    ASSUME MatchInv, RecordInv', NEW p \in Page, CancelDelete(p)
    PROVE  MatchInv'
<1>1. RecordInv /\ WizardTypeOK /\ RecordsStand /\ Local(p) /\ (\A r \in Id : Backed(r))
      /\ \A q \in Page : Held(q)
  BY StepFromRecordInv DEF MatchInv, WizardStep, ServerStep
<1>2. PICK w \in Wizard : w = page[p]
  BY <1>1 DEF CancelDelete, Local, Placed, WizardTypeOK
<1>3. /\ DeleteCreated(w.created)
      /\ parted' = parted \cup (InHand \cap ToSet(w.created))
      /\ UNCHANGED <<completing, setBack>>
  BY <1>2 DEF CancelDelete
<1>4. PICK gone : gone = {r \in Id : Contains(w.created, r)}
  OBVIOUS
<1>5. \A r \in Id : r \in gone <=> r \in ToSet(w.created)
  <2>1. w.created \in Seq(Id)
    BY WizardFacts
  <2> QED
    BY <1>4, <2>1 DEF Contains, ToSet
<1>6. \A r \in Id :
         /\ record'[r].status = IF r \in gone THEN "deleted" ELSE record[r].status
         /\ workflow'[r] = IF r \in gone /\ Exists(r) /\ workflow[r] > 0 THEN workflow[r] - 1
                           ELSE workflow[r]
  BY <1>1, <1>3, <1>4 DEF DeleteCreated, WizardTypeOK
<1>7. \A q \in Page : Held(q)'
  <2>1. InHand \subseteq Id
    BY <1>1, CompletingFacts DEF InHand
  <2>2. \A r \in InHand : Holds(r)
    BY <1>3, <1>5, <1>6, <2>1 DEF Holds, Exists, Astray
  <2> QED
    BY <1>1, <1>3, <2>2, HeldStays
<1>8. ASSUME NEW r \in Id
      PROVE  Backed(r)'
  <2>1. \A q \in Page : Under(q, r) => Under(q, r)'
    BY <1>1, <1>3, UnderStays
  <2>2. CASE r \notin gone
    BY <1>1, <1>3, <1>6, <2>1, <2>2 DEF Backed, Astray
  <2>3. CASE r \in gone /\ r \in InHand
    BY <1>3, <1>5, <2>3 DEF Backed, Astray
  <2>4. CASE r \in gone /\ r \notin InHand
    <3>1. \A q \in Page : ~Under(q, r)
      BY <1>1, <2>4, NotIdle, HandFacts DEF Under
    <3>2. Astray(r) \/ workflow[r] = IF record[r].status = "Pending" THEN 1 ELSE 0
      BY <1>1, <3>1 DEF Backed
    <3>3. ~Astray(r) => workflow'[r] = 0
      BY <1>6, <2>4, <3>2 DEF Exists
    <3> QED
      BY <1>3, <1>6, <2>4, <3>3 DEF Backed, Astray
  <2> QED
    BY <2>2, <2>3, <2>4
<1> QED
  BY <1>7, <1>8 DEF MatchInv

LEMMA WritePendingMatches ==
    ASSUME MatchInv, RecordInv', NEW p \in Page, WritePending(p)
    PROVE  MatchInv'
<1>1. RecordInv /\ WizardTypeOK /\ RecordsStand /\ (\A r \in Id : Backed(r))
      /\ (\A q \in Page : Held(q)) /\ completing[p] # Idle
  <2>1. completing[p] # Idle
    BY NotIdle DEF WritePending
  <2> QED
    BY <2>1, StepFromRecordInv DEF MatchInv, WizardStep, ServerStep
<1>2. PICK r \in Id : r = Hand(p)
  BY <1>1, HandFacts
<1>3. /\ record' = IF Exists(r) THEN [record EXCEPT ![r].status = "Pending"] ELSE record
      /\ completing' = [completing EXCEPT ![p].at = "look"]
      /\ UNCHANGED <<workflow, parted, setBack>>
  BY <1>2 DEF WritePending, Hand, ghosts
<1>4. completing[p] \in [at : {"update", "look", "start"}, wizard : Wizard]
  BY <1>1, CompletingFacts
<1>5. /\ completing'[p].at = "look" /\ completing'[p].wizard = completing[p].wizard
      /\ \A q \in Page \ {p} : completing'[q] = completing[q]
  BY <1>1, <1>3, <1>4 DEF WizardTypeOK
<1>6. Hand(p)' = r
  BY <1>1, <1>2, <1>5, HandKept
<1>7. \A x \in Id : record'[x].status = IF x = r /\ Exists(r) THEN "Pending" ELSE record[x].status
  BY <1>1, <1>2, <1>3 DEF WizardTypeOK
<1>8. Held(p)'
  <2>1. Astray(r) \/ Exists(r)
    BY <1>1, <1>2 DEF Held
  <2>2. Exists(r) => record'[r].status = "Pending"
    BY <1>2, <1>7
  <2> QED
    BY <1>3, <1>6, <2>1, <2>2 DEF Held, Exists, Astray
<1>9. \A q \in Page \ {p} : Held(q)'
  <2>1. InHand \subseteq Id
    BY <1>1, CompletingFacts DEF InHand
  <2>2. \A x \in InHand : Holds(x)
    BY <1>3, <1>7, <2>1 DEF Holds, Exists, Astray
  <2> QED
    BY <1>1, <1>5, <2>2, HeldStays
<1>10. ASSUME NEW x \in Id
       PROVE  Backed(x)'
  <2>1. CASE x = r
    <3>1. Under(p, x)'
      BY <1>5, <1>6, <2>1 DEF Under
    <3>2. Astray(r) \/ Exists(r)
      BY <1>1, <1>2 DEF Held
    <3>3. Astray(r) \/ workflow[r] = 1 \/ workflow[r] = 0
      BY <1>1 DEF Backed
    <3>4. Astray(r) \/ (record'[r].status = "Pending" /\ workflow'[r] \in {0, 1})
      BY <1>3, <1>7, <3>2, <3>3
    <3> QED
      BY <1>3, <2>1, <3>1, <3>4 DEF Backed, Astray
  <2>2. CASE x # r
    <3>1. \A q \in Page : Under(q, x) => Under(q, x)'
      BY <1>1, <1>2, <1>5, <2>2, UnderStays DEF Under
    <3> QED
      BY <1>1, <1>3, <1>7, <2>2, <3>1 DEF Backed, Astray
  <2> QED
    BY <2>1, <2>2
<1> QED
  BY <1>8, <1>9, <1>10 DEF MatchInv

LEMMA LookOnMatches ==
    ASSUME MatchInv, RecordInv', RecordsStand, NEW p \in Page, LookOn(p)
    PROVE  MatchInv'
<1>1. RecordInv /\ WizardTypeOK /\ (\A r \in Id : Backed(r)) /\ (\A q \in Page : Held(q))
  BY DEF MatchInv, RecordInv
<1>2. /\ completing[p] # Idle /\ completing[p].at = "look"
      /\ completing' = [completing EXCEPT ![p].at = "start"]
      /\ UNCHANGED <<record, workflow, parted, setBack>>
  BY DEF LookOn, MovesOn
<1>3. PICK r \in Id : r = Hand(p)
  BY <1>1, <1>2, HandFacts
<1>4. completing[p] \in [at : {"update", "look", "start"}, wizard : Wizard]
  BY <1>1, <1>2, CompletingFacts
<1>5. /\ completing'[p].at = "start" /\ completing'[p].wizard = completing[p].wizard
      /\ \A q \in Page \ {p} : completing'[q] = completing[q]
  BY <1>1, <1>2, <1>4 DEF WizardTypeOK
<1>6. Hand(p)' = r
  BY <1>1, <1>2, <1>3, <1>5, HandKept
<1>7. Held(p)'
  <2>1. Astray(r) \/ (Exists(r) /\ record[r].status = "Pending")
    BY <1>1, <1>2, <1>3 DEF Held
  <2> QED
    BY <1>2, <1>6, <2>1 DEF Held, Exists, Astray
<1>8. \A q \in Page \ {p} : Held(q)'
  <2>1. \A x \in InHand : Holds(x)
    BY <1>2 DEF Holds, Exists, Astray
  <2> QED
    BY <1>1, <1>5, <2>1, HeldStays
<1>9. ASSUME NEW x \in Id
      PROVE  Backed(x)'
  <2>1. \A q \in Page : Under(q, x) => Under(q, x)'
    BY <1>1, <1>3, <1>5, <1>6, UnderStays DEF Under
  <2> QED
    BY <1>1, <1>2, <2>1 DEF Backed, Astray
<1> QED
  BY <1>7, <1>8, <1>9 DEF MatchInv

\* finish() lets go of its record.
LEMMA HandLeft ==
    ASSUME MatchInv, RecordInv', RecordsStand, NEW p \in Page, completing[p] # Idle,
           completing' = [completing EXCEPT ![p] = Idle], UNCHANGED <<record, setBack>>,
           parted \subseteq parted'
    PROVE  /\ \A q \in Page : Held(q)'
           /\ \A r \in Id, q \in Page : Under(q, r) => Under(q, r)' \/ q = p
<1>1. RecordInv /\ WizardTypeOK /\ \A q \in Page : Held(q)
  BY DEF MatchInv, RecordInv
<1>2. completing'[p] = Idle /\ \A q \in Page \ {p} : completing'[q] = completing[q]
  BY <1>1 DEF WizardTypeOK
<1>3. \A r \in InHand : Holds(r)
  BY DEF Holds, Exists, Astray
<1>4. \A q \in Page \ {p} : Held(q)'
  BY <1>1, <1>2, <1>3, HeldStays
<1>5. Held(p)'
  BY <1>2 DEF Held
<1> QED
  BY <1>1, <1>2, <1>4, <1>5, UnderStays

\* That is one with a pending workflow already,
LEMMA FoundMatches ==
    ASSUME MatchInv, RecordInv', RecordsStand, NEW p \in Page, completing[p] # Idle,
           completing' = [completing EXCEPT ![p] = Idle],
           UNCHANGED <<record, workflow, parted, setBack>>, workflow[Hand(p)] > 0
    PROVE  MatchInv'
<1>1. RecordInv /\ (\A r \in Id : Backed(r))
  BY DEF MatchInv
<1>2. /\ \A q \in Page : Held(q)'
      /\ \A x \in Id, q \in Page : Under(q, x) => Under(q, x)' \/ q = p
  BY HandLeft
<1>3. \A x \in Id : Under(p, x) => workflow[x] > 0
  BY DEF Under
<1>4. ASSUME NEW x \in Id
      PROVE  Backed(x)'
  BY <1>1, <1>2, <1>3, <1>4 DEF Backed, Astray
<1> QED
  BY <1>2, <1>4 DEF MatchInv

\* or one that has started one now.
LEMMA StartWorkflowMatches ==
    ASSUME MatchInv, RecordInv', NEW p \in Page, StartWorkflow(p)
    PROVE  MatchInv'
<1>1. RecordInv /\ WizardTypeOK /\ RecordsStand /\ (\A r \in Id : Backed(r))
      /\ Held(p) /\ completing[p] # Idle /\ completing[p].at = "start"
  <2>1. completing[p] # Idle /\ completing[p].at = "start"
    BY NotIdle DEF StartWorkflow
  <2> QED
    BY <2>1, StepFromRecordInv DEF MatchInv, WizardStep, ServerStep
<1>2. PICK r \in Id : r = Hand(p)
  BY <1>1, HandFacts
<1>3. /\ Start(r)
      /\ completing' = [completing EXCEPT ![p] = Idle]
      /\ UNCHANGED <<record, setBack>>
  BY <1>2 DEF StartWorkflow, CompletionEnds, Hand
<1>4. /\ parted \subseteq parted' /\ (Astray(r)' \/ workflow'[r] = 1)
      /\ \A x \in Id \ {r} : workflow'[x] = workflow[x]
  <2>1. Astray(r) \/ workflow[r] \in {0, 1}
    BY <1>1 DEF Backed
  <2> QED
    BY <1>1, <1>3, <2>1, StartEffect DEF Astray
<1>5. /\ \A q \in Page : Held(q)'
      /\ \A x \in Id, q \in Page : Under(q, x) => Under(q, x)' \/ q = p
  BY <1>1, <1>3, <1>4, HandLeft
<1>6. record[r].status = "Pending" \/ Astray(r)
  BY <1>1, <1>2 DEF Held
<1>7. \A x \in Id : Under(p, x) => x = r
  BY <1>2 DEF Under
<1>8. ASSUME NEW x \in Id
      PROVE  Backed(x)'
  <2>1. CASE x = r
    BY <1>3, <1>4, <1>6, <2>1 DEF Backed, Astray
  <2>2. CASE x # r
    BY <1>1, <1>3, <1>4, <1>5, <1>7, <2>2 DEF Backed, Astray
  <2> QED
    BY <2>1, <2>2
<1> QED
  BY <1>5, <1>8 DEF MatchInv

LEMMA LookForWorkflowMatches ==
    ASSUME MatchInv, RecordInv', NEW p \in Page, LookForWorkflow(p)
    PROVE  MatchInv'
<1>1. RecordsStand
  BY StepFromRecordInv DEF MatchInv, WizardStep, ServerStep
<1>2. CASE CompletionEnds(p) /\ workflow[Hand(p)] > 0
  BY <1>1, <1>2, LookCases, FoundMatches DEF CompletionEnds
<1>3. CASE LookOn(p)
  BY <1>1, <1>3, LookOnMatches
<1> QED
  BY <1>2, <1>3, LookCases DEF Hand

LEMMA CompletionDiesMatches ==
    ASSUME MatchInv, RecordInv', NEW p \in Page, CompletionDies(p)
    PROVE  MatchInv'
<1>1. RecordInv /\ RecordsStand /\ (\A r \in Id : Backed(r)) /\ completing[p] # Idle
  BY StepFromRecordInv DEF MatchInv, WizardStep, CompletionDies
<1>2. /\ parted' = IF completing[p].at = "update" THEN parted ELSE parted \cup {Hand(p)}
      /\ completing' = [completing EXCEPT ![p] = Idle]
      /\ UNCHANGED <<record, workflow, setBack>>
  BY DEF CompletionDies, Hand, database
<1>3. /\ \A q \in Page : Held(q)'
      /\ \A x \in Id, q \in Page : Under(q, x) => Under(q, x)' \/ q = p
  BY <1>1, <1>2, HandLeft
<1>4. \A x \in Id : Under(p, x) => x \in parted'
  BY <1>2 DEF Under
<1>5. ASSUME NEW x \in Id
      PROVE  Backed(x)'
  BY <1>1, <1>2, <1>3, <1>4 DEF Backed, Astray
<1> QED
  BY <1>3, <1>5 DEF MatchInv

LEMMA SaveFormMatches ==
    ASSUME MatchInv, RecordInv', NEW p \in Page, SaveForm(p)
    PROVE  MatchInv'
<1>1. RecordInv /\ RecordsStand /\ (\A r \in Id : Backed(r)) /\ (\A q \in Page : Held(q))
      /\ WizardTypeOK /\ InHand \subseteq Id
  <2>1. RecordInv /\ RecordsStand
    BY StepFromRecordInv DEF MatchInv, WizardStep, ServerStep
  <2>2. InHand \subseteq Id
    BY <2>1, CompletingFacts DEF InHand
  <2> QED
    BY <2>1, <2>2 DEF MatchInv, RecordInv
<1>2. UNCHANGED completing
  BY DEF SaveForm
<1>3. ASSUME \A x \in Id : Holds(x)
      PROVE  \A q \in Page : Held(q)'
  <2>1. \A x \in InHand : Holds(x)
    BY <1>1, <1>3
  <2> QED
    BY <1>1, <1>2, <2>1, HeldStays
<1>4. \A x \in Id, q \in Page : Under(q, x) => Under(q, x)'
  BY <1>1, <1>2, UnderStays
<1>5. CASE UNCHANGED <<record, workflow, parted, setBack>>
  BY <1>1, <1>2, <1>5, MatchQuiet
<1>6. ASSUME NEW r \in Id, Adds(r)
      PROVE  MatchInv'
  <2>1. /\ record[r].status = "absent" /\ record'[r].status = "Draft"
        /\ \A s \in Id \ {r} : record'[s] = record[s]
        /\ UNCHANGED <<workflow, parted, setBack>>
    BY <1>6 DEF Adds, Known
  <2>2. \A x \in Id : Holds(x)
    BY <2>1 DEF Holds, Exists, Astray
  <2>3. \A x \in Id : Backed(x)'
    BY <1>1, <1>4, <2>1 DEF Backed, Astray
  <2> QED
    BY <1>3, <2>2, <2>3 DEF MatchInv
<1>7. ASSUME NEW r \in Id, Rewrites(r)
      PROVE  MatchInv'
  <2>1. /\ Exists(r) /\ record'[r].status \in {"Draft", "Pending"}
        /\ \A s \in Id \ {r} : record'[s] = record[s]
        /\ setBack \subseteq setBack' /\ setBack' \subseteq setBack \cup {r}
        /\ record[r].status = "Pending" /\ record'[r].status = "Draft" => r \in setBack'
        /\ record'[r].status = "Pending" => Start(r)
        /\ record'[r].status = "Draft" => UNCHANGED <<workflow, parted>>
    BY <1>1, <1>7, RewriteEffect
  <2>2. /\ parted \subseteq parted' /\ (\A s \in Id \ {r} : workflow'[s] = workflow[s])
        /\ record'[r].status = "Pending" => Astray(r)' \/ workflow'[r] = 1
    <3>1. Astray(r) \/ workflow[r] \in {0, 1}
      BY <1>1 DEF Backed
    <3>2. CASE record'[r].status = "Pending"
      BY <1>1, <2>1, <3>1, <3>2, StartEffect DEF Astray
    <3>3. CASE record'[r].status = "Draft"
      BY <2>1, <3>3
    <3> QED
      BY <2>1, <3>2, <3>3
  <2>3. \A x \in Id : Holds(x)
    BY <2>1, <2>2 DEF Holds, Exists, Astray
  <2>4. Backed(r)'
    <3>1. CASE record'[r].status = "Pending"
      BY <2>2, <3>1 DEF Backed, Astray
    <3>2. CASE record'[r].status = "Draft" /\ record[r].status = "Pending"
      BY <2>1, <3>2 DEF Backed, Astray
    <3>3. CASE record'[r].status = "Draft" /\ record[r].status = "Draft"
      <4>1. Astray(r) \/ workflow[r] = 0
        BY <1>1, <3>3 DEF Backed
      <4> QED
        BY <2>1, <3>3, <4>1 DEF Backed, Astray
    <3> QED
      BY <2>1, <3>1, <3>2, <3>3 DEF Exists
  <2>5. ASSUME NEW x \in Id \ {r}
        PROVE  Backed(x)'
    <3>1. Backed(x) /\ record'[x] = record[x] /\ workflow'[x] = workflow[x]
          /\ (Astray(x) => Astray(x)')
      BY <1>1, <2>1, <2>2 DEF Astray
    <3> QED
      BY <1>4, <3>1 DEF Backed
  <2>6. \A x \in Id : Backed(x)'
    BY <2>4, <2>5
  <2> QED
    BY <1>3, <2>3, <2>6 DEF MatchInv
<1> QED
  BY <1>1, <1>5, <1>6, <1>7, SaveWrites

LEMMA NextMatchInv ==
    ASSUME MatchInv, [WizardStep]_wizardVars
    PROVE  MatchInv'
<1>1. RecordInv /\ RecordInv' /\ RecordsStand
  BY NextRecordInv, StepFromRecordInv DEF MatchInv
<1>2. CASE UNCHANGED <<record, workflow, parted, setBack, completing>>
  BY <1>1, <1>2, MatchQuiet
<1>3. ASSUME NEW p \in Page, ServerStep(p) \/ CompletionDies(p)
      PROVE  MatchInv'
  BY <1>1, <1>3, ServeMatches, CancelDeleteMatches, WritePendingMatches, LookForWorkflowMatches,
     StartWorkflowMatches, SaveFormMatches, CompletionDiesMatches
  DEF ServerStep
<1> QED
  BY <1>2, <1>3
  DEF WizardStep, wizardVars, database, ghosts, Open, Click, Close, DeleteRow

LEMMA InitMatchInv ==
    ASSUME WizardInit
    PROVE  MatchInv
<1>1. \A r \in Id : record[r].status = "absent" /\ workflow[r] = 0
  BY DEF WizardInit, Absent
<1>2. \A p \in Page : completing[p] = Idle
  BY DEF WizardInit
<1> QED
  BY <1>1, <1>2, InitRecordInv DEF MatchInv, Backed, Held

(***************************************************************************)
(* For every wizard, number of pages, clicks and faults: a record is       *)
(* Pending exactly when one workflow is pending for it, except while       *)
(* finish() is between the two, where a start threw or died or was not the *)
(* only one, and where the record was deleted under finish() or written    *)
(* back to Draft by a form.                                                *)
(***************************************************************************)
THEOREM WorkflowsMatchRecords == WizardSpec => []WorkflowMatchesRecord
<1>1. MatchInv => WorkflowMatchesRecord
  <2> SUFFICES ASSUME MatchInv, NEW r \in Id, r \notin InHand, r \notin parted, r \notin setBack
               PROVE  workflow[r] = IF record[r].status = "Pending" THEN 1 ELSE 0
    BY DEF WorkflowMatchesRecord
  <2>1. \A p \in Page : ~Under(p, r)
    BY NotIdle, HandFacts DEF Under, MatchInv
  <2> QED
    BY <2>1 DEF MatchInv, Backed, Astray
<1> QED
  BY InitMatchInv, NextMatchInv, <1>1, PTL DEF WizardSpec

-----------------------------------------------------------------------------
(* Where the copies of a wizard come from *)

\* What the server makes of a component: it stays, goes back, goes on or ends.
Told(p, w) ==
    /\ calls[p] # <<>>
    /\ \E k \in 0..Steps :
          /\ w = [Heard(p) EXCEPT !.step = k]
          /\ \/ k = page[p].step
             \/ k < page[p].step /\ Heard(p) = page[p]
             \/ /\ k = page[p].step + 1 /\ k < Steps
                /\ Head(calls[p]).name # "stepFormSaved" => ~FormStep(page[p].step)
             \/ k = Steps /\ FinishReached(p, page[p]) /\ ~NeedsSave(Heard(p))

Derived(w) ==
    \/ w \in {Fresh, session}
    \/ \E r \in Id : w = Resumed(r) /\ IsDraft(r) /\ record[r].step = 0
    \/ \E p \in Page :
          \/ w = page[p]
          \/ Told(p, w)
          \/ completing[p] # Idle /\ w = Completed(completing[p].wizard)

\* What finish() sets to work on
TakenUp(p, w) ==
    \/ completing[p] # Idle /\ w = completing[p].wizard
    \/ calls[p] # <<>> /\ w = Heard(p) /\ FinishReached(p, page[p]) /\ ~NeedsSave(w)

CopiesDerived ==
    /\ session' # Closed => Derived(session')
    /\ \A p \in Page : page'[p] # Closed => Derived(page'[p])
    /\ \A p \in Page : completing'[p] # Idle => TakenUp(p, completing'[p].wizard)

LEMMA SameStep ==
    ASSUME NEW w \in Wizard
    PROVE  w = [w EXCEPT !.step = w.step]
BY DEF Wizard

\* What Serve makes of the component, and where it goes
LEMMA ServeDerives ==
    ASSUME RecordInv, NEW p \in Page, Serve(p)
    PROVE  /\ \/ page'[p] \in {page[p], Closed}
              \/ Told(p, page'[p])
           /\ session' \in {session, Closed} \/ Told(p, session')
           /\ completing'[p] # Idle => TakenUp(p, completing'[p].wizard)
           /\ \A q \in Page \ {p} : completing'[q] = completing[q]
<1>1. Shape /\ Local(p) /\ WizardTypeOK
  BY ShapeOfInv DEF RecordInv
<1>2. /\ calls[p] # <<>> /\ completing[p] = Idle
      /\ UNCHANGED <<models, database, impatient, ghosts, clicks>>
      /\ \/ Turns(p, Heard(p)) \/ Stays(p, Heard(p)) \/ Ends(p, Heard(p))
         \/ Asks(p, Heard(p)) \/ Begins(p, Heard(p)) \/ Leaves(p)
  BY <1>1, ServeCases
<1>3. PICK u \in Wizard : u = Heard(p) /\ u.step = page[p].step
  BY <1>1, <1>2, HeardSound
<1>4. u.step \in 0..Steps /\ Steps \in 0..Steps /\ (FinishReached(p, u) => FinishReached(p, page[p]))
  BY <1>3, WizardFacts, StepFacts DEF FinishReached
<1>5. CASE Turns(p, u)
  <2>1. PICK s \in Step :
           /\ \/ /\ s = u.step + 1
                 /\ Head(calls[p]).name # "stepFormSaved" => ~FormStep(u.step)
              \/ s < u.step /\ u = page[p]
           /\ session' = [u EXCEPT !.step = s]
           /\ Answer(p, [u EXCEPT !.step = s])
    BY <1>5 DEF Turns
  <2>2. PICK v : v = [u EXCEPT !.step = s]
    OBVIOUS
  <2>3. s \in 0..Steps /\ s < Steps
    BY StepFacts DEF Step
  <2>4. v \in Wizard
    BY <2>2, <2>3, WizardFacts
  <2>5. Told(p, v)
    BY <1>2, <1>3, <2>1, <2>2, <2>3 DEF Told
  <2>6. page'[p] = v \/ page'[p] = page[p]
    BY <1>1, <1>2, <2>1, <2>2, <2>4, AnswerEffect
  <2> QED
    BY <1>2, <1>5, <2>1, <2>2, <2>5, <2>6 DEF Turns
<1>6. CASE Stays(p, u)
  <2>1. page'[p] = page[p]
    BY <1>1, <1>2, <1>6, AnswerEffect DEF Stays
  <2> QED
    BY <1>2, <1>6, <2>1 DEF Stays
<1>7. CASE Ends(p, u)
  <2>1. PICK v : v = [u EXCEPT !.step = Steps]
    OBVIOUS
  <2>2. v \in Wizard
    BY <1>4, <2>1, WizardFacts
  <2>3. page'[p] = v \/ page'[p] = page[p]
    BY <1>1, <1>2, <1>7, <2>1, <2>2, AnswerEffect DEF Ends, Completed
  <2>4. Told(p, v)
    BY <1>2, <1>3, <1>4, <1>7, <2>1 DEF Told, Ends
  <2> QED
    BY <1>2, <1>7, <2>3, <2>4 DEF Ends
<1>8. CASE Asks(p, u)
  <2>1. page'[p] = u \/ page'[p] = page[p]
    BY <1>1, <1>2, <1>3, <1>8, AskEffect DEF Asks
  <2>2. Told(p, u)
    BY <1>2, <1>3, <1>4, SameStep DEF Told
  <2> QED
    BY <1>2, <1>8, <2>1, <2>2 DEF Asks
<1>9. CASE Begins(p, u)
  <2>1. PICK c : c = [at |-> "update", wizard |-> u]
    OBVIOUS
  <2>2. c.wizard = u /\ UNCHANGED <<page, session>>
        /\ completing'[p] = c /\ \A q \in Page \ {p} : completing'[q] = completing[q]
    BY <1>1, <1>9, <2>1 DEF Begins, browser, WizardTypeOK
  <2>3. TakenUp(p, u)
    BY <1>2, <1>3, <1>4, <1>9 DEF TakenUp, Begins
  <2> QED
    BY <2>2, <2>3
<1>10. CASE Leaves(p)
  <2>1. page'[p] \in {page[p], Closed}
    BY <1>1, <1>2, <1>10, LeaveEffect, GoneEffect DEF Leaves
  <2> QED
    BY <1>2, <1>10, <2>1 DEF Leaves
<1> QED
  BY <1>2, <1>3, <1>5, <1>6, <1>7, <1>8, <1>9, <1>10

LEMMA EndDerives ==
    ASSUME RecordInv, NEW p \in Page, CompletionEnds(p), completing[p] # Idle
    PROVE  /\ page'[p] = page[p] \/ (completing[p] # Idle /\ page'[p] = Completed(completing[p].wizard))
           /\ session' = Closed
           /\ completing'[p] = Idle /\ \A q \in Page \ {p} : completing'[q] = completing[q]
<1>1. completing[p] # Idle
  OBVIOUS
<1>2. PICK w \in Wizard : w = completing[p].wizard /\ calls[p] # <<>>
  BY <1>1, CompletingFacts
<1>3. Answer(p, Completed(w)) /\ session' = Closed /\ completing' = [completing EXCEPT ![p] = Idle]
  BY <1>2 DEF CompletionEnds
<1>4. PICK v : v = [w EXCEPT !.step = Steps]
  OBVIOUS
<1>5. v \in Wizard
  <2>1. Steps \in 0..Steps
    BY StepFacts
  <2> QED
    BY <1>4, <2>1, WizardFacts
<1>6. page'[p] = v \/ page'[p] = page[p]
  BY <1>2, <1>3, <1>4, <1>5, AnswerEffect DEF RecordInv, Completed
<1> QED
  BY <1>1, <1>2, <1>3, <1>4, <1>6 DEF Completed, RecordInv, WizardTypeOK

\* A page whose neighbour p moves
LEMMA ServerMovesOne ==
    ASSUME RecordInv, NEW p \in Page, ServerStep(p)
    PROVE  OthersStand(p)
<1>1. RecordInv /\ WizardTypeOK /\ Local(p) /\ Shape
  BY ShapeOfInv DEF RecordInv
<1>2. CASE Serve(p)
  <2>1. calls[p] # <<>>
        /\ \/ Turns(p, Heard(p)) \/ Stays(p, Heard(p)) \/ Ends(p, Heard(p))
           \/ Asks(p, Heard(p)) \/ Begins(p, Heard(p)) \/ Leaves(p)
    BY <1>1, <1>2, ServeCases
  <2>2. \/ \E w : Answer(p, w)
        \/ \E w : AskToSave(p, w)
        \/ UNCHANGED <<page, forms, calls>>
        \/ Leave(p)
    BY <2>1 DEF Turns, Stays, Ends, Asks, Begins, Leaves, browser
  <2> QED
    BY <1>1, <2>2 DEF Answer, Show, AskToSave, Leave, Gone, WizardTypeOK, OthersStand
<1>3. CASE CancelDelete(p)
  BY <1>1, <1>3 DEF CancelDelete, Leave, Gone, WizardTypeOK, OthersStand
<1>4. CASE WritePending(p)
  BY <1>4 DEF WritePending, browser, OthersStand
<1>5. CASE CompletionEnds(p)
  BY <1>1, <1>5 DEF CompletionEnds, Answer, Show, WizardTypeOK, OthersStand
<1>6. CASE LookOn(p)
  BY <1>6 DEF LookOn, MovesOn, OthersStand
<1>7. CASE SaveForm(p)
  BY <1>1, <1>7, SaveEffect DEF Local, FormsSound, SaveDone
<1> QED
  BY <1>2, <1>3, <1>4, <1>5, <1>6, <1>7, LookCases DEF ServerStep, StartWorkflow

LEMMA StepDerives ==
    ASSUME RecordInv, [WizardStep]_wizardVars
    PROVE  CopiesDerived
<1>1. RecordInv /\ WizardTypeOK
  BY DEF RecordInv
<1>2. \A p \in Page : Derived(page[p])
  BY DEF Derived
<1>3. Derived(session)
  BY DEF Derived
<1>4. \A p \in Page : completing[p] # Idle => TakenUp(p, completing[p].wizard)
  BY DEF TakenUp
<1>5. ASSUME NEW p \in Page, Serve(p)
      PROVE  CopiesDerived
  <2>1. /\ page'[p] \in {page[p], Closed} \/ Told(p, page'[p])
        /\ session' \in {session, Closed} \/ Told(p, session')
        /\ completing'[p] # Idle => TakenUp(p, completing'[p].wizard)
        /\ \A q \in Page \ {p} : completing'[q] = completing[q]
    BY <1>5, ServeDerives
  <2>2. \A w : Told(p, w) => Derived(w)
    BY DEF Derived
  <2>3. \A q \in Page \ {p} : page'[q] = page[q]
    BY <1>5, ServerMovesOne DEF ServerStep, OthersStand
  <2> QED
    BY <1>2, <1>3, <1>4, <2>1, <2>2, <2>3 DEF CopiesDerived
<1>6. ASSUME NEW p \in Page, ServerStep(p), CompletionEnds(p), completing[p] # Idle
      PROVE  CopiesDerived
  <2>1. /\ page'[p] = page[p] \/ (completing[p] # Idle /\ page'[p] = Completed(completing[p].wizard))
        /\ session' = Closed
        /\ completing'[p] = Idle /\ \A q \in Page \ {p} : completing'[q] = completing[q]
    BY <1>6, EndDerives
  <2>2. completing[p] # Idle => Derived(Completed(completing[p].wizard))
    BY DEF Derived
  <2>3. \A q \in Page \ {p} : page'[q] = page[q]
    BY <1>6, ServerMovesOne DEF OthersStand
  <2> QED
    BY <1>2, <1>4, <2>1, <2>2, <2>3 DEF CopiesDerived
<1>7. ASSUME NEW p \in Page, Open(p)
      PROVE  CopiesDerived
  <2>1. PICK w \in Wizard :
           /\ \/ \E r \in Id : /\ w = Resumed(r) /\ IsDraft(r) /\ record[r].step = 0
                               /\ session' = w
              \/ session # Closed /\ w = session /\ UNCHANGED session
              \/ session = Closed /\ w = Fresh /\ UNCHANGED session
           /\ page'[p] = w
    BY <1>7, OpenEffect
  <2>2. Derived(w) /\ Derived(session')
    BY <2>1 DEF Derived
  <2>3. UNCHANGED completing /\ \A q \in Page \ {p} : page'[q] = page[q]
    BY <1>7, OpenEffect
  <2> QED
    BY <1>2, <1>4, <2>1, <2>2, <2>3 DEF CopiesDerived
<1>8. ASSUME NEW p \in Page, CancelDelete(p) \/ Close(p)
      PROVE  CopiesDerived
  <2>1. \A q \in Page : page'[q] \in {page[q], Closed}
    BY <1>1, <1>8 DEF CancelDelete, Close, Leave, Gone, WizardTypeOK
  <2>2. UNCHANGED completing /\ session' \in {session, Closed}
    BY <1>8 DEF CancelDelete, Close
  <2> QED
    BY <1>2, <1>3, <1>4, <2>1, <2>2 DEF CopiesDerived
<1>9. ASSUME NEW p \in Page, WritePending(p) \/ LookOn(p)
      PROVE  CopiesDerived
  <2>1. completing[p] # Idle
    BY <1>9, NotIdle DEF WritePending, LookOn, MovesOn
  <2>2. completing[p] \in [at : {"update", "look", "start"}, wizard : Wizard]
    BY <2>1, CompletingFacts
  <2>3. completing'[p].wizard = completing[p].wizard
        /\ \A q \in Page \ {p} : completing'[q] = completing[q]
    BY <1>1, <1>9, <2>2 DEF WritePending, LookOn, MovesOn, WizardTypeOK
  <2>4. UNCHANGED <<page, session>>
    BY <1>9 DEF WritePending, LookOn, MovesOn, browser
  <2> QED
    BY <1>2, <1>3, <1>4, <2>1, <2>3, <2>4 DEF CopiesDerived
<1>10. ASSUME NEW p \in Page, CompletionDies(p)
       PROVE  CopiesDerived
  <2>1. /\ \A q \in Page : completing'[q] \in {completing[q], Idle}
        /\ UNCHANGED <<page, session>>
    BY <1>1, <1>10 DEF CompletionDies, WizardTypeOK
  <2> QED
    BY <1>2, <1>3, <1>4, <2>1 DEF CopiesDerived
<1>11. CASE UNCHANGED <<page, session, completing>>
  BY <1>2, <1>3, <1>4, <1>11 DEF CopiesDerived
<1>12. ASSUME NEW p \in Page, LookForWorkflow(p) \/ StartWorkflow(p)
       PROVE  CopiesDerived
  <2>1. completing[p] # Idle /\ (CompletionEnds(p) \/ LookOn(p))
    BY <1>12, LookCases, NotIdle DEF StartWorkflow
  <2> QED
    BY <1>6, <1>9, <1>12, <2>1 DEF ServerStep
<1> QED
  BY <1>5, <1>7, <1>8, <1>9, <1>10, <1>11, <1>12
  DEF WizardStep, ServerStep, SaveForm, Click, DeleteRow, wizardVars, browser

-----------------------------------------------------------------------------
(* A user who waits for the screen *)

\* One call or one save at a time, of the step the page shows
Patient(p) ==
    page[p] # Closed =>
        /\ Len(calls[p]) <= 1
        /\ \/ forms[p] = <<>>
           \/ /\ page[p].step \in models
              /\ Len(forms[p]) = 1 /\ forms[p][1].step = page[p].step /\ forms[p][1].saves <= 1
        /\ calls[p] # <<>> => ~Busy(forms[p])
        /\ \A i \in DOMAIN calls[p] :
              /\ calls[p][i].name = "stepFormSaved" => calls[p][i].step = page[p].step
              /\ calls[p][i].name = "finish" => page[p].step \notin models

\* As long as the primary record lives, the form edits it and saves nothing else.
Current(p) ==
    page[p] # Closed /\ page[p].data[0] # 0 /\ Exists(page[p].data[0]) =>
        /\ \A i \in DOMAIN forms[p] :
              forms[p][i].step = 0 => forms[p][i].record = page[p].data[0]
        /\ \A i \in DOMAIN calls[p] :
              calls[p][i].name = "stepFormSaved" /\ calls[p][i].step = 0 =>
                  calls[p][i].record = page[p].data[0]

\* Both, until somebody does not wait
PatientInv == RecordInv /\ (impatient \/ \A p \in Page : Patient(p) /\ Current(p))

LEMMA OneCall ==
    ASSUME WizardTypeOK, NEW p \in Page, Patient(p), page[p] # Closed, calls[p] # <<>>
    PROVE  Tail(calls[p]) = <<>> /\ Head(calls[p]) = calls[p][1] /\ 1 \in DOMAIN calls[p]
<1>1. PICK s : s = calls[p]
  OBVIOUS
<1>2. s \in Seq(Call) /\ Len(s) <= 1 /\ s # <<>>
  BY <1>1 DEF WizardTypeOK, Patient
<1>3. Len(s) \in Nat /\ Len(s) # 0
  BY <1>2
<1>4. Len(s) = 1
  <2>1. PICK n \in Nat : n = Len(s)
    BY <1>3
  <2>2. n <= 1 /\ n # 0
    BY <1>2, <1>3, <2>1
  <2>3. n = 1
    BY <2>2
  <2> QED
    BY <2>1, <2>3
<1>5. /\ Tail(s) \in Seq(Call) /\ Len(Tail(s)) = Len(s) - 1
      /\ 1 \in DOMAIN s /\ Head(s) = s[1]
  BY <1>2, TailFacts
<1>6. Tail(s) = <<>>
  <2>1. PICK t : t = Tail(s)
    OBVIOUS
  <2>2. t \in Seq(Call) /\ Len(t) = 0
    BY <1>4, <1>5, <2>1
  <2>3. t = <<>>
    BY <2>2
  <2> QED
    BY <2>1, <2>3
<1> QED
  BY <1>1, <1>5, <1>6

\* The primary record of a page is the same as long as it is there.
LEMMA LivedBefore ==
    ASSUME WizardTypeOK, RecordsStand, NEW w \in Wizard, Sound(w),
           NEW r, r = w.data[0], r # 0, Exists(r)'
    PROVE  r \in Id /\ Known(r) /\ Exists(r)
<1>1. r \in Id
  BY WizardFacts, StepFacts
<1>2. Known(r)
  <2>1. \E i \in DOMAIN w.created : w.created[i] = r
    BY StepFacts DEF Sound
  <2> QED
    BY <2>1 DEF Sound
<1> QED
  BY <1>1, <1>2 DEF RecordsStand, Exists, Known

LEMMA NotBusy ==
    ASSUME WizardTypeOK, NEW p \in Page, ~Busy(forms[p]), NEW i \in DOMAIN forms[p]
    PROVE  forms[p][i].saves = 0
<1>1. forms[p] \in Seq(Form)
  BY DEF WizardTypeOK
<1>2. forms[p][i] \in Form
  BY <1>1
<1> QED
  BY <1>2 DEF Busy, Saving, Form

LEMMA PatientAnswer ==
    ASSUME RecordInv, NEW p \in Page, calls[p] # <<>>, UNCHANGED <<models, record>>,
           Patient(p), Current(p), NEW w \in Wizard, Answer(p, w),
           w.step = page[p].step => w = page[p] \/ w.step \notin models
    PROVE  Patient(p)' /\ Current(p)'
<1>1. WizardTypeOK /\ Local(p) /\ page[p] # Closed /\ w # Closed
  BY WizardFacts DEF RecordInv, Local, Placed
<1>2. /\ BrowserOK'
      /\ calls'[p] = Tail(calls[p])
      /\ \/ page'[p] = w /\ w.step = page[p].step /\ forms'[p] = forms[p]
         \/ page'[p] = w /\ w.step # page[p].step /\ FormsOf(p, w)
         \/ page'[p] = page[p] /\ forms'[p] = forms[p]
  BY <1>1, AnswerEffect
<1>3. calls'[p] = <<>> /\ ~Busy(forms[p])
  BY <1>1, <1>2, OneCall DEF Patient
<1>4. CASE page'[p] = page[p] /\ forms'[p] = forms[p]
  BY <1>1, <1>3, <1>4 DEF Patient, Current, Exists
<1>5. CASE page'[p] = w /\ w.step = page[p].step /\ w.step \notin models /\ forms'[p] = forms[p]
  <2>1. forms'[p] = <<>>
    BY <1>1, <1>5 DEF Patient
  <2> QED
    BY <1>3, <2>1 DEF Patient, Current
<1>6. CASE page'[p] = w /\ FormsOf(p, w)
  <2>1. forms'[p] \in Seq(Form)
    BY <1>2 DEF BrowserOK
  <2>2. \A i \in DOMAIN forms'[p] :
           i = Len(forms'[p]) /\ w.step \in models /\ forms'[p][i] = NewForm(w)
    BY <1>3, <1>6 DEF FormsOf
  <2>3. PICK s : s = forms'[p]
    OBVIOUS
  <2>4. s = <<>> \/ (Len(s) = 1 /\ s[1] = NewForm(w) /\ w.step \in models)
    <3>1. s \in Seq(Form) /\ \A i \in DOMAIN s : i = Len(s) /\ w.step \in models /\ s[i] = NewForm(w)
      BY <2>1, <2>2, <2>3
    <3>2. CASE s # <<>>
      <4>1. 1 \in DOMAIN s
        BY <3>1, <3>2
      <4> QED
        BY <3>1, <4>1
    <3> QED
      BY <3>2
  <2>5. CASE s = <<>>
    BY <1>3, <2>3, <2>5 DEF Patient, Current
  <2>6. CASE Len(s) = 1 /\ s[1] = NewForm(w) /\ w.step \in models
    <3>1. PICK f : f = NewForm(w)
      OBVIOUS
    <3>2. f \in Form /\ f.step = w.step /\ ~Saving(f)
          /\ (f.record # 0 => f.record = w.data[w.step])
          /\ (f.record = 0 => w.data[w.step] = 0 \/ ~Exists(w.data[w.step]))
      BY <1>1, <2>6, <3>1, NewFormFacts
    <3>3. f.saves <= 1
      BY <3>2 DEF Form, Saving
    <3>4. DOMAIN s = {1} /\ s[1] = f
      BY <2>1, <2>3, <2>6, <3>1
    <3>5. Patient(p)'
      BY <1>3, <1>6, <2>3, <2>6, <3>2, <3>3, <3>4 DEF Patient
    <3>6. Current(p)'
      BY <1>3, <1>6, <2>3, <3>2, <3>4 DEF Current, Exists
    <3> QED
      BY <3>5, <3>6
  <2> QED
    BY <2>4, <2>5, <2>6
<1> QED
  BY <1>2, <1>4, <1>5, <1>6

LEMMA PatientAsk ==
    ASSUME RecordInv, NEW p \in Page, calls[p] # <<>>, UNCHANGED <<models, record>>,
           Patient(p), Current(p), NEW w \in Wizard, AskToSave(p, w),
           w.step \in models, w.step = page[p].step, w.data[0] = page[p].data[0]
    PROVE  Patient(p)' /\ Current(p)'
<1>1. WizardTypeOK /\ Local(p) /\ page[p] # Closed /\ w # Closed /\ Shape
  BY WizardFacts, ShapeOfInv DEF RecordInv, Local, Placed
<1>2. /\ calls'[p] = Tail(calls[p])
      /\ \/ /\ page'[p] = w
            /\ DOMAIN forms'[p] = DOMAIN forms[p] /\ Len(forms'[p]) = Len(forms[p])
            /\ forms[p] # <<>> /\ forms[p][Len(forms[p])].step = page[p].step
            /\ \A i \in DOMAIN forms[p] :
                  /\ forms'[p][i].step = forms[p][i].step
                  /\ forms'[p][i].record = forms[p][i].record
                  /\ forms'[p][i].saves = IF i = Len(forms[p]) THEN forms[p][i].saves + 1
                                          ELSE forms[p][i].saves
         \/ page'[p] = page[p] /\ forms'[p] = forms[p]
  BY <1>1, AskEffect
<1>3. calls'[p] = <<>> /\ ~Busy(forms[p])
  BY <1>1, <1>2, OneCall DEF Patient
<1>4. CASE page'[p] = page[p] /\ forms'[p] = forms[p]
  BY <1>1, <1>3, <1>4 DEF Patient, Current, Exists
<1>5. CASE /\ page'[p] = w
           /\ DOMAIN forms'[p] = DOMAIN forms[p] /\ Len(forms'[p]) = Len(forms[p])
           /\ forms[p] # <<>>
           /\ \A i \in DOMAIN forms[p] :
                 /\ forms'[p][i].step = forms[p][i].step
                 /\ forms'[p][i].record = forms[p][i].record
                 /\ forms'[p][i].saves = IF i = Len(forms[p]) THEN forms[p][i].saves + 1
                                         ELSE forms[p][i].saves
  <2>1. Len(forms[p]) = 1 /\ forms[p][1].step = page[p].step
    BY <1>1, <1>5 DEF Patient
  <2>2. 1 \in DOMAIN forms[p]
    BY <1>1, <2>1 DEF WizardTypeOK
  <2>3. forms[p][1].saves = 0
    BY <1>1, <1>3, <2>2, NotBusy
  <2>4. Len(forms'[p]) = 1 /\ forms'[p][1].step = w.step /\ forms'[p][1].saves <= 1
    BY <1>5, <2>1, <2>2, <2>3
  <2>5. Patient(p)'
    BY <1>3, <1>5, <2>4 DEF Patient
  <2>6. Current(p)'
    BY <1>1, <1>3, <1>5 DEF Current, Exists
  <2> QED
    BY <2>5, <2>6
<1> QED
  BY <1>2, <1>4, <1>5

\* Taken off, or as it was
LEMMA PatientStays ==
    ASSUME RecordInv, NEW p \in Page, RecordsStand, UNCHANGED models, Patient(p), Current(p),
           page'[p] = page[p], forms'[p] = forms[p],
           calls'[p] = calls[p] \/ (calls[p] # <<>> /\ calls'[p] = Tail(calls[p]))
    PROVE  Patient(p)' /\ Current(p)'
<1>1. CASE page[p] = Closed
  BY <1>1 DEF Patient, Current
<1>2. CASE page[p] # Closed
  <2>1. PICK w \in Wizard : w = page[p] /\ Sound(w)
    BY <1>2 DEF RecordInv, WizardTypeOK, Local
  <2>2. calls'[p] \in {calls[p], <<>>}
    BY <1>2, OneCall DEF RecordInv
  <2>3. Patient(p)'
    BY <1>2, <2>2 DEF Patient
  <2>4. PICK r : r = w.data[0]
    OBVIOUS
  <2>5. r # 0 /\ Exists(r)' => Exists(r)
    BY <2>1, <2>4, LivedBefore DEF RecordInv
  <2>6. Current(p)'
    BY <1>2, <2>1, <2>2, <2>4, <2>5 DEF Current, Exists
  <2> QED
    BY <2>3, <2>6
<1> QED
  BY <1>1, <1>2

LEMMA PatientSave ==
    ASSUME RecordInv, NEW p \in Page, SaveForm(p), Patient(p), Current(p)
    PROVE  Patient(p)' /\ Current(p)'
<1>1. WizardTypeOK /\ Local(p) /\ RecordsStand
  BY StepFromRecordInv DEF RecordInv, WizardStep, ServerStep
<1>2. PICK i \in DOMAIN forms[p] : SaveDone(p, i)
  BY <1>1, SaveEffect DEF Local, FormsSound
<1>3. UNCHANGED <<models, page>>
  BY DEF SaveForm
<1>4. CASE page[p] = Closed
  BY <1>3, <1>4 DEF Patient, Current
<1>5. CASE page[p] # Closed
  <2>1. PICK w \in Wizard : w = page[p] /\ Sound(w)
    BY <1>1, <1>5 DEF WizardTypeOK, Local
  <2>2. forms[p] \in Seq(Form) /\ calls[p] \in Seq(Call)
    BY <1>1 DEF WizardTypeOK
  <2>3. Busy(forms[p]) /\ calls[p] = <<>>
    BY <1>2, <1>5 DEF SaveDone, Busy, Patient
  <2>4. forms[p] # <<>>
    BY <1>2, <2>2
  <2>5. /\ w.step \in models /\ Len(forms[p]) = 1 /\ forms[p][1].step = w.step
        /\ forms[p][1].saves <= 1
    BY <1>5, <2>1, <2>4 DEF Patient
  <2>6. i = 1 /\ DOMAIN forms[p] = {1}
    BY <2>2, <2>5
  <2>7. PICK f : f = forms[p][1]
    OBVIOUS
  <2>8. f \in Form /\ f.saves > 0 /\ f.saves <= 1 /\ f.step = w.step
    BY <1>2, <2>2, <2>5, <2>6, <2>7 DEF SaveDone, Saving
  <2>9. /\ DOMAIN forms'[p] = {1} /\ Len(forms'[p]) = 1
        /\ forms'[p][1].step = w.step /\ forms'[p][1].saves = 0
    <3>1. f.saves - 1 = 0
      BY <2>8 DEF Form
    <3> QED
      BY <1>2, <2>5, <2>6, <2>7, <3>1 DEF SaveDone, OneSaved
  <2>10. ~Busy(forms[p])'
    BY <2>9 DEF Busy, Saving
  <2>11. \/ forms'[p][1].record = f.record /\ calls'[p] = <<>>
         \/ \E r \in Id :
               /\ forms'[p][1].record = r /\ calls'[p] = <<SavedCall(r, w.step)>>
               /\ \/ f.record = r /\ Exists(r)
                  \/ f.record = 0 /\ ~Known(r)
    BY <1>2, <1>5, <2>3, <2>6, <2>7, <2>8 DEF SaveDone, Tells
  <2>12. /\ Len(calls'[p]) <= 1
         /\ \A j \in DOMAIN calls'[p] :
               /\ calls'[p][j].name = "stepFormSaved" /\ calls'[p][j].step = w.step
               /\ calls'[p][j].record = forms'[p][1].record
               /\ f.record = calls'[p][j].record \/ f.record = 0
    <3>1. CASE calls'[p] = <<>>
      BY <3>1
    <3>2. ASSUME NEW r \in Id, forms'[p][1].record = r, calls'[p] = <<SavedCall(r, w.step)>>,
                 f.record = r \/ f.record = 0
          PROVE  /\ Len(calls'[p]) <= 1
                 /\ \A j \in DOMAIN calls'[p] :
                       /\ calls'[p][j].name = "stepFormSaved" /\ calls'[p][j].step = w.step
                       /\ calls'[p][j].record = forms'[p][1].record
                       /\ f.record = calls'[p][j].record \/ f.record = 0
      <4>1. PICK c, t : c = SavedCall(r, w.step) /\ t = <<c>>
        OBVIOUS
      <4>2. c.name = "stepFormSaved" /\ c.record = r /\ c.step = w.step
        BY <4>1 DEF SavedCall
      <4>3. DOMAIN t = {1} /\ t[1] = c /\ Len(t) = 1 /\ calls'[p] = t
        BY <3>2, <4>1
      <4> QED
        BY <3>2, <4>2, <4>3
    <3> QED
      BY <2>11, <3>1, <3>2
  <2>14. Patient(p)'
    BY <1>3, <2>1, <2>5, <2>9, <2>10, <2>12 DEF Patient
  <2>15. PICK d : d = w.data[0]
    OBVIOUS
  <2>16. ASSUME d # 0, Exists(d)', w.step = 0
         PROVE  /\ forms'[p][1].record = d
                /\ \A j \in DOMAIN calls'[p] : calls'[p][j].record = d
    <3>1. Exists(d)
      BY <1>1, <2>1, <2>15, <2>16, LivedBefore
    <3>2. f.record = d
      BY <1>5, <2>1, <2>6, <2>7, <2>8, <2>15, <2>16, <3>1 DEF Current
    <3>3. forms'[p][1].record = d
      BY <2>11, <2>16, <3>2
    <3> QED
      BY <2>12, <3>3
  <2>17. Current(p)'
    BY <1>3, <2>1, <2>9, <2>12, <2>15, <2>16 DEF Current, Exists
  <2> QED
    BY <2>14, <2>17
<1> QED
  BY <1>4, <1>5

LEMMA PatientClick ==
    ASSUME RecordInv, NEW p \in Page, Click(p), ~impatient', Patient(p), Current(p)
    PROVE  Patient(p)' /\ Current(p)'
<1>1. WizardTypeOK
  BY DEF RecordInv
<1>2. PICK c \in Call : c.name \in Buttons(page[p]) /\ calls'[p] = Append(calls[p], c)
  BY <1>1, ClickEffect
<1>3. /\ page[p] # Closed /\ UNCHANGED <<models, page, forms, record>>
      /\ calls[p] = <<>> /\ ~Busy(forms[p])
  <2>1. /\ page[p] # Closed /\ UNCHANGED <<models, page, forms, database>>
        /\ impatient' = (impatient \/ Unanswered(p))
    BY <1>1, ClickEffect
  <2> QED
    BY <2>1 DEF Unanswered, database
<1>4. calls'[p] = <<c>>
  BY <1>2, <1>3
<1>5. c.name # "stepFormSaved" /\ (c.name = "finish" => page[p].step \notin models)
  BY <1>2 DEF Buttons
<1>6. Len(calls'[p]) = 1 /\ \A j \in DOMAIN calls'[p] : calls'[p][j] = c
  BY <1>4
<1>7. ~Busy(forms[p])'
  BY <1>3 DEF Busy, Saving
<1>8. Patient(p)'
  BY <1>3, <1>5, <1>6, <1>7 DEF Patient
<1>9. Current(p)'
  BY <1>3, <1>5, <1>6 DEF Current, Exists
<1> QED
  BY <1>8, <1>9

LEMMA PatientOpen ==
    ASSUME RecordInv, NEW p \in Page, Open(p)
    PROVE  Patient(p)' /\ Current(p)'
<1>1. WizardTypeOK
  BY DEF RecordInv
<1>2. PICK w \in Wizard : page'[p] = w /\ forms'[p] = Mount(w)
  BY OpenEffect
<1>3. calls[p] = <<>> /\ UNCHANGED <<models, calls, record>>
  <2>1. calls[p] = <<>> /\ UNCHANGED <<models, calls, database>>
    BY OpenEffect
  <2> QED
    BY <2>1 DEF database
<1>4. /\ w.step \in models => Len(Mount(w)) = 1 /\ Mount(w)[1] = NewForm(w)
      /\ w.step \notin models => Mount(w) = <<>>
      /\ Mount(w) \in Seq(Form)
  BY <1>1, MountFacts
<1>5. CASE w.step \notin models
  <2>1. forms'[p] = <<>>
    BY <1>2, <1>4, <1>5
  <2> QED
    BY <1>2, <1>3, <2>1 DEF Patient, Current
<1>6. CASE w.step \in models
  <2>1. PICK f, s : f = NewForm(w) /\ s = Mount(w)
    OBVIOUS
  <2>2. f \in Form /\ f.step = w.step /\ ~Saving(f)
        /\ (f.record # 0 => f.record = w.data[w.step])
        /\ (f.record = 0 => w.data[w.step] = 0 \/ ~Exists(w.data[w.step]))
    BY <1>1, <1>6, <2>1, NewFormFacts
  <2>3. f.saves <= 1
    BY <2>2 DEF Form, Saving
  <2>4. Len(s) = 1 /\ DOMAIN s = {1} /\ s[1] = f /\ forms'[p] = s
    BY <1>2, <1>4, <1>6, <2>1
  <2>5. Patient(p)'
    BY <1>2, <1>3, <1>6, <2>2, <2>3, <2>4 DEF Patient
  <2>6. Current(p)'
    BY <1>2, <1>3, <2>2, <2>4 DEF Current, Exists
  <2> QED
    BY <2>5, <2>6
<1> QED
  BY <1>5, <1>6

LEMMA PatientLeave ==
    ASSUME RecordInv, NEW p \in Page, RecordsStand, UNCHANGED models, Patient(p), Current(p),
           calls[p] # <<>>, Leave(p)
    PROVE  Patient(p)' /\ Current(p)'
<1>1. \/ Gone(p) /\ UNCHANGED faults
      \/ page'[p] = page[p] /\ forms'[p] = forms[p] /\ calls'[p] = Tail(calls[p])
  BY LeaveEffect DEF RecordInv
<1>2. CASE Gone(p) /\ UNCHANGED faults
  <2>1. page'[p] = Closed
    BY <1>2, GoneEffect DEF RecordInv
  <2> QED
    BY <2>1 DEF Patient, Current
<1> QED
  BY <1>1, <1>2, PatientStays

\* With one call at a time the save that is heard is that of the step shown.
LEMMA PatientHeard ==
    ASSUME RecordInv, NEW p \in Page, calls[p] # <<>>, Patient(p)
    PROVE  /\ Head(calls[p]).name = "stepFormSaved" =>
                 /\ Head(calls[p]).step = page[p].step
                 /\ Head(calls[p]).record \in Id /\ Head(calls[p]).record # 0
                 /\ Heard(p) = Recorded(page[p], Head(calls[p]).record, page[p].step)
                 /\ Heard(p).data[page[p].step] = Head(calls[p]).record
           /\ Head(calls[p]).name # "stepFormSaved" => Heard(p) = page[p]
           /\ Head(calls[p]).name = "finish" => page[p].step \notin models
<1>1. Shape /\ page[p] # Closed /\ WizardTypeOK
  BY ShapeOfInv DEF RecordInv, Local, Placed
<1>2. Head(calls[p]) = calls[p][1] /\ 1 \in DOMAIN calls[p]
  BY <1>1, OneCall
<1>3. /\ Head(calls[p]).name = "stepFormSaved" => Head(calls[p]).step = page[p].step
      /\ Head(calls[p]).name = "finish" => page[p].step \notin models
  BY <1>1, <1>2 DEF Patient
<1>4. /\ Head(calls[p]).name = "stepFormSaved" =>
            /\ Head(calls[p]).record \in Id /\ Head(calls[p]).step \in Step
            /\ Heard(p) = Recorded(page[p], Head(calls[p]).record, Head(calls[p]).step)
      /\ Head(calls[p]).name # "stepFormSaved" => Heard(p) = page[p]
  BY <1>1, HeardFacts
<1>5. ASSUME Head(calls[p]).name = "stepFormSaved"
      PROVE  Head(calls[p]).record # 0 /\ Heard(p).data[page[p].step] = Head(calls[p]).record
  <2>1. PICK w, r, k, u :
           /\ w \in Wizard /\ r \in Id /\ k \in Step
           /\ w = page[p] /\ r = Head(calls[p]).record /\ k = Head(calls[p]).step /\ u = Heard(p)
    BY <1>1, <1>4, <1>5 DEF WizardTypeOK
  <2>2. u = Recorded(w, r, k) /\ k = w.step
    BY <1>3, <1>4, <1>5, <2>1
  <2>3. u.data[k] = r
    BY <2>1, <2>2, RecordedFacts
  <2>4. r # 0
    BY <2>1, WizardAssumption DEF Id
  <2> QED
    BY <2>1, <2>2, <2>3, <2>4
<1> QED
  BY <1>3, <1>4, <1>5

LEMMA PatientServe ==
    ASSUME RecordInv, NEW p \in Page, Serve(p), Patient(p), Current(p)
    PROVE  Patient(p)' /\ Current(p)'
<1>1. Shape /\ Local(p) /\ WizardTypeOK /\ RecordsStand
  BY ShapeOfInv, StepFromRecordInv DEF RecordInv, WizardStep, ServerStep
<1>2. /\ calls[p] # <<>> /\ UNCHANGED <<models, record>>
      /\ \/ Turns(p, Heard(p)) \/ Stays(p, Heard(p)) \/ Ends(p, Heard(p))
         \/ Asks(p, Heard(p)) \/ Begins(p, Heard(p)) \/ Leaves(p)
  BY <1>1, ServeCases DEF database
<1>3. PICK u \in Wizard : u = Heard(p) /\ u.step = page[p].step
  BY <1>1, <1>2, HeardSound
<1>4. models \subseteq Step /\ Steps \notin models /\ Steps \in 0..Steps
  BY <1>1, WizardAssumption, StepFacts DEF WizardTypeOK
<1>5. CASE Turns(p, u)
  <2>1. PICK s \in Step : (s = u.step + 1 \/ s < u.step) /\ Answer(p, [u EXCEPT !.step = s])
    BY <1>5 DEF Turns
  <2>2. PICK v : v = [u EXCEPT !.step = s]
    OBVIOUS
  <2>3. v \in Wizard /\ v.step = s
    BY <2>2, WizardFacts, StepFacts
  <2>4. s # page[p].step
    <3>1. u.step \in Nat
      BY WizardFacts, StepFacts
    <3> QED
      BY <1>3, <2>1, <3>1
  <2> QED
    BY <1>2, <2>1, <2>2, <2>3, <2>4, PatientAnswer
<1>6. CASE Stays(p, u)
  BY <1>2, <1>6, PatientAnswer DEF Stays
<1>7. CASE Ends(p, u)
  <2>1. PICK v : v = [u EXCEPT !.step = Steps]
    OBVIOUS
  <2>2. v \in Wizard /\ v.step = Steps
    BY <1>4, <2>1, WizardFacts
  <2> QED
    BY <1>2, <1>4, <1>7, <2>1, <2>2, PatientAnswer DEF Ends, Completed
<1>8. CASE Asks(p, u)
  <2>1. u = page[p]
    BY <1>2, <1>3, <1>8, PatientHeard DEF Asks, NeedsSave
  <2> QED
    BY <1>2, <1>3, <1>8, <2>1, PatientAsk DEF Asks
<1>9. CASE Begins(p, u)
  BY <1>1, <1>2, <1>9, PatientStays DEF Begins, browser
<1>10. CASE Leaves(p)
  BY <1>1, <1>2, <1>10, PatientLeave DEF Leaves
<1> QED
  BY <1>2, <1>3, <1>5, <1>6, <1>7, <1>8, <1>9, <1>10

LEMMA PatientEnd ==
    ASSUME RecordInv, NEW p \in Page, CompletionEnds(p), completing[p] # Idle,
           UNCHANGED <<models, record>>, Patient(p), Current(p)
    PROVE  Patient(p)' /\ Current(p)'
<1>1. completing[p] # Idle
  OBVIOUS
<1>2. PICK w \in Wizard : w = completing[p].wizard /\ calls[p] # <<>>
  BY <1>1, CompletingFacts
<1>3. Answer(p, Completed(w)) /\ UNCHANGED <<models, record>>
  BY <1>2 DEF CompletionEnds
<1>4. PICK v : v = [w EXCEPT !.step = Steps]
  OBVIOUS
<1>5. Steps \in 0..Steps /\ Steps \notin models
  BY WizardAssumption, StepFacts DEF RecordInv, WizardTypeOK
<1>6. v \in Wizard /\ v.step = Steps
  BY <1>4, <1>5, WizardFacts
<1> QED
  BY <1>2, <1>3, <1>4, <1>5, <1>6, PatientAnswer DEF Completed

LEMMA Impatience ==
    ASSUME [WizardStep]_wizardVars, ~impatient'
    PROVE  ~impatient
BY DEF WizardStep, wizardVars, ServerStep, Open, Click, Close, CompletionDies, DeleteRow, Serve,
       CancelDelete, WritePending, LookForWorkflow, StartWorkflow, SaveForm

LEMMA NextPatientInv ==
    ASSUME PatientInv, [WizardStep]_wizardVars
    PROVE  PatientInv'
<1>1. RecordInv /\ RecordInv' /\ RecordsStand /\ WizardTypeOK
  BY NextRecordInv, StepFromRecordInv DEF PatientInv
<1> SUFFICES ASSUME ~impatient', NEW q \in Page
             PROVE  Patient(q)' /\ Current(q)'
  BY <1>1 DEF PatientInv
<1>2. Patient(q) /\ Current(q)
  BY Impatience DEF PatientInv
<1>3. CASE UNCHANGED <<models, page, forms, calls>>
  BY <1>1, <1>2, <1>3, PatientStays
<1>4. ASSUME NEW p \in Page, OthersStand(p), UNCHANGED models, q # p
      PROVE  Patient(q)' /\ Current(q)'
  BY <1>1, <1>2, <1>4, PatientStays DEF OthersStand
<1>5. ASSUME NEW p \in Page, ServerStep(p)
      PROVE  Patient(q)' /\ Current(q)'
  <2>1. OthersStand(p) /\ UNCHANGED models
    BY <1>1, <1>5, ServerMovesOne
    DEF ServerStep, Serve, CancelDelete, WritePending, LookForWorkflow, StartWorkflow, SaveForm
  <2>2. CASE CancelDelete(q)
    BY <1>1, <1>2, <2>1, <2>2, PatientLeave DEF CancelDelete
  <2>3. CASE WritePending(q)
    BY <1>3, <2>3 DEF WritePending, browser
  <2>4. CASE LookForWorkflow(q) \/ StartWorkflow(q)
    <3>1. completing[q] # Idle /\ UNCHANGED <<models, record>>
          /\ (CompletionEnds(q) \/ LookOn(q))
      BY <2>4, LookCases, NotIdle DEF StartWorkflow
    <3>2. CASE LookOn(q)
      BY <1>3, <3>2 DEF LookOn, MovesOn
    <3> QED
      BY <1>1, <1>2, <3>1, <3>2, PatientEnd
  <2> QED
    BY <1>1, <1>2, <1>4, <1>5, <2>1, <2>2, <2>3, <2>4, PatientServe, PatientSave
    DEF ServerStep
<1>6. ASSUME NEW p \in Page, Open(p)
      PROVE  Patient(q)' /\ Current(q)'
  <2>1. OthersStand(p) /\ UNCHANGED models
    BY <1>1, <1>6, OpenEffect DEF OthersStand
  <2> QED
    BY <1>1, <1>4, <1>6, <2>1, PatientOpen
<1>7. ASSUME NEW p \in Page, Click(p)
      PROVE  Patient(q)' /\ Current(q)'
  <2>1. OthersStand(p) /\ UNCHANGED models
    BY <1>1, <1>7, ClickEffect DEF OthersStand
  <2> QED
    BY <1>1, <1>2, <1>4, <1>7, <2>1, PatientClick
<1>8. ASSUME NEW p \in Page, Close(p)
      PROVE  Patient(q)' /\ Current(q)'
  <2>1. OthersStand(p) /\ page'[p] = Closed /\ UNCHANGED models
    BY <1>1, <1>8, GoneEffect DEF Close
  <2> QED
    BY <1>4, <2>1 DEF Patient, Current
<1>9. ASSUME NEW p \in Page, CompletionDies(p)
      PROVE  Patient(q)' /\ Current(q)'
  <2>1. UNCHANGED <<models, page, forms>> /\ calls' = [calls EXCEPT ![p] = Tail(@)]
        /\ calls[p] # <<>>
    BY <1>1, <1>9, CompletingFacts DEF CompletionDies
  <2>2. calls'[q] = calls[q] \/ (calls[q] # <<>> /\ calls'[q] = Tail(calls[q]))
    BY <1>1, <2>1 DEF WizardTypeOK
  <2> QED
    BY <1>1, <1>2, <2>1, <2>2, PatientStays
<1> QED
  BY <1>3, <1>5, <1>6, <1>7, <1>8, <1>9 DEF WizardStep, DeleteRow, wizardVars, browser

LEMMA InitPatientInv ==
    ASSUME WizardInit
    PROVE  PatientInv
<1>1. \A p \in Page : Patient(p) /\ Current(p)
  BY DEF WizardInit, Patient, Current
<1> QED
  BY <1>1, InitRecordInv DEF PatientInv

-----------------------------------------------------------------------------
(* No step is skipped *)

\* The steps with a model come first, and only the last step of all may be one
\* that is reviewed and has a model.
FormsFirst ==
    \A layout \in Layouts :
        /\ layout \cap Review \subseteq {Steps - 1}
        /\ \A j \in layout, k \in Step : k < j => k \in layout

NoSkip(w) == \A k \in models : k < w.step => w.data[k] # 0

AllSaved(w) == \A k \in models : w.data[k] # 0

SkipFree ==
    /\ session # Closed => NoSkip(session)
    /\ \A p \in Page : page[p] # Closed => NoSkip(page[p])
    /\ \A p \in Page : completing[p] # Idle => AllSaved(completing[p].wizard)

SkipInv == PatientInv /\ (impatient \/ SkipFree)

LEMMA ModelSteps ==
    ASSUME RecordInv, FormsFirst
    PROVE  /\ models \subseteq Step /\ models \subseteq Nat /\ 0 \in models
           /\ models \cap Review \subseteq {Steps - 1}
           /\ \A j \in models, k \in Step : k < j => k \in models
<1>1. models \in Layouts
  BY DEF RecordInv, WizardTypeOK
<1>2. models \subseteq Step /\ 0 \in models
  BY <1>1, WizardAssumption
<1>3. models \cap Review \subseteq {Steps - 1}
      /\ \A j \in models, k \in Step : k < j => k \in models
  BY <1>1 DEF FormsFirst
<1> QED
  BY <1>2, <1>3, StepFacts

\* What a call brings loses no record.
LEMMA HeardKeeps ==
    ASSUME RecordInv, NEW p \in Page, calls[p] # <<>>
    PROVE  /\ Heard(p) \in Wizard /\ Heard(p).step = page[p].step /\ page[p] # Closed
           /\ \A k \in Step : page[p].data[k] # 0 => Heard(p).data[k] # 0
<1>1. Shape
  BY ShapeOfInv
<1>2. PICK w \in Wizard, u \in Wizard : w = page[p] /\ u = Heard(p) /\ w # Closed /\ u.step = w.step
  BY <1>1, HeardFacts
<1>3. CASE Head(calls[p]).name = "stepFormSaved"
  <2>1. PICK r \in Id, k \in Step : u = Recorded(w, r, k)
    BY <1>1, <1>2, <1>3, HeardFacts
  <2>2. u.data[k] = r
    BY <2>1, RecordedFacts
  <2>3. \A j \in Step \ {k} : u.data[j] = w.data[j]
    BY <2>1, RecordedFacts
  <2>4. r # 0
    BY WizardAssumption DEF Id
  <2> QED
    BY <1>2, <2>2, <2>3, <2>4
<1>4. CASE Head(calls[p]).name # "stepFormSaved"
  BY <1>1, <1>2, <1>4, HeardFacts
<1> QED
  BY <1>3, <1>4

LEMMA ToldNoSkip ==
    ASSUME RecordInv, FormsFirst, NEW p \in Page, Patient(p), NoSkip(page[p]),
           NEW w, Told(p, w)
    PROVE  NoSkip(w)
<1>1. calls[p] # <<>>
  BY DEF Told
<1>2. PICK k \in 0..Steps :
         /\ w = [Heard(p) EXCEPT !.step = k]
         /\ \/ k = page[p].step
            \/ k < page[p].step /\ Heard(p) = page[p]
            \/ /\ k = page[p].step + 1 /\ k < Steps
               /\ Head(calls[p]).name # "stepFormSaved" => ~FormStep(page[p].step)
            \/ k = Steps /\ FinishReached(p, page[p]) /\ ~NeedsSave(Heard(p))
  BY DEF Told
<1>3. PICK u \in Wizard : u = Heard(p) /\ u.step = page[p].step
  BY <1>1, HeardKeeps
<1>4. \A j \in Step : page[p].data[j] # 0 => u.data[j] # 0
  BY <1>1, <1>3, HeardKeeps
<1>5. PICK n \in 0..Steps : n = page[p].step
  BY <1>3, WizardFacts
<1>6. w.step = k /\ w.data = u.data
  BY <1>2, <1>3, WizardFacts
<1>7. /\ models \subseteq Step /\ models \subseteq Nat
      /\ models \cap Review \subseteq {Steps - 1}
      /\ \A j \in models, i \in Step : i < j => i \in models
      /\ Steps \in Nat \ {0}
  BY ModelSteps, StepFacts
<1>8. \A j \in models : j < n => u.data[j] # 0
  BY <1>4, <1>5, <1>7 DEF NoSkip
<1>9. CASE k <= n
  <2>1. \A j \in models : j < k => j < n
    BY <1>5, <1>7, <1>9
  <2> QED
    BY <1>6, <1>8, <2>1 DEF NoSkip
<1>10. CASE k = n + 1 /\ k < Steps
            /\ (Head(calls[p]).name # "stepFormSaved" => ~FormStep(n))
  <2>1. n \in models => u.data[n] # 0
    <3>1. CASE Head(calls[p]).name = "stepFormSaved"
      BY <1>1, <1>3, <1>5, <3>1, PatientHeard
    <3>2. CASE ~FormStep(n)
      BY <1>5, <1>7, <1>10, <3>2 DEF FormStep
    <3> QED
      BY <1>10, <3>1, <3>2
  <2>2. \A j \in models : j < k => j < n \/ j = n
    BY <1>5, <1>7, <1>10
  <2> QED
    BY <1>6, <1>8, <2>1, <2>2 DEF NoSkip
<1>11. CASE k = Steps /\ FinishReached(p, page[p]) /\ ~NeedsSave(u)
  <2>1. n \in models => u.data[n] # 0
    BY <1>3, <1>5, <1>11 DEF NeedsSave
  <2>2. \A j \in models : j < n \/ j = n
    <3>1. CASE Head(calls[p]).name = "finish"
      <4>1. n \notin models
        BY <1>1, <1>5, <3>1, PatientHeard
      <4>2. ASSUME NEW j \in models, n < j
            PROVE  FALSE
        <5>1. n \in Step
          BY <1>5, <1>7, <4>2 DEF Step
        <5> QED
          BY <1>7, <4>1, <4>2, <5>1
      <4> QED
        BY <1>5, <1>7, <4>2
    <3>2. CASE n + 1 >= Steps
      BY <1>5, <1>7, <3>2 DEF Step
    <3> QED
      BY <1>5, <1>11, <3>1, <3>2 DEF FinishReached
  <2> QED
    BY <1>6, <1>8, <2>1, <2>2 DEF NoSkip
<1> QED
  BY <1>2, <1>3, <1>5, <1>9, <1>10, <1>11

LEMMA TakenUpSaved ==
    ASSUME RecordInv, FormsFirst, SkipFree, NEW p \in Page, Patient(p), NEW w, TakenUp(p, w)
    PROVE  AllSaved(w)
<1>1. CASE completing[p] # Idle /\ w = completing[p].wizard
  BY <1>1 DEF SkipFree
<1>2. CASE calls[p] # <<>> /\ w = Heard(p) /\ FinishReached(p, page[p]) /\ ~NeedsSave(w)
  <2>1. w \in Wizard /\ page[p] # Closed
    BY <1>2, HeardKeeps
  <2>2. PICK v : v = [w EXCEPT !.step = Steps]
    OBVIOUS
  <2>3. Steps \in 0..Steps /\ \A j \in models : j < Steps
    BY ModelSteps, StepFacts DEF Step
  <2>4. Told(p, v)
    BY <1>2, <2>2, <2>3 DEF Told
  <2>5. NoSkip(v)
    BY <2>1, <2>4, ToldNoSkip DEF SkipFree
  <2>6. v.data = w.data /\ v.step = Steps
    BY <2>1, <2>2, <2>3, WizardFacts
  <2> QED
    BY <2>3, <2>5, <2>6 DEF NoSkip, AllSaved
<1> QED
  BY <1>1, <1>2 DEF TakenUp

LEMMA DerivedNoSkip ==
    ASSUME RecordInv, FormsFirst, SkipFree, \A p \in Page : Patient(p),
           NEW w, Derived(w), w # Closed
    PROVE  NoSkip(w)
<1>1. \A k \in models : ~(k < 0)
  <2>1. models \subseteq Nat
    BY ModelSteps
  <2> QED
    BY <2>1
<1>2. CASE w = Fresh
  <2>1. w.step = 0
    BY <1>2, FreshFacts
  <2> QED
    BY <1>1, <2>1 DEF NoSkip
<1>3. ASSUME NEW r \in Id, w = Resumed(r)
      PROVE  NoSkip(w)
  <2>1. w.step = 0
    BY <1>3, ResumedFacts
  <2> QED
    BY <1>1, <2>1 DEF NoSkip
<1>4. CASE w = session
  BY <1>4 DEF SkipFree
<1>5. ASSUME NEW p \in Page, w = page[p]
      PROVE  NoSkip(w)
  BY <1>5 DEF SkipFree
<1>6. ASSUME NEW p \in Page, Told(p, w)
      PROVE  NoSkip(w)
  <2>1. page[p] # Closed
    BY <1>6, HeardKeeps DEF Told
  <2> QED
    BY <1>6, <2>1, ToldNoSkip DEF SkipFree
<1>7. ASSUME NEW p \in Page, completing[p] # Idle, w = Completed(completing[p].wizard)
      PROVE  NoSkip(w)
  <2>1. PICK c \in Wizard : c = completing[p].wizard
    BY <1>7, CompletingFacts
  <2>2. w.data = c.data
    <3>1. Steps \in 0..Steps
      BY StepFacts
    <3> QED
      BY <1>7, <2>1, <3>1, WizardFacts DEF Completed
  <2> QED
    BY <1>7, <2>1, <2>2 DEF SkipFree, AllSaved, NoSkip
<1> QED
  BY <1>2, <1>3, <1>4, <1>5, <1>6, <1>7 DEF Derived

LEMMA ModelsStay ==
    ASSUME [WizardStep]_wizardVars
    PROVE  UNCHANGED models
BY DEF WizardStep, wizardVars, ServerStep, Open, Click, Close, CompletionDies, DeleteRow, Serve,
       CancelDelete, WritePending, LookForWorkflow, StartWorkflow, SaveForm

LEMMA NextSkipInv ==
    ASSUME FormsFirst, SkipInv, [WizardStep]_wizardVars
    PROVE  SkipInv'
<1>1. PatientInv /\ PatientInv' /\ RecordInv /\ UNCHANGED models
  BY NextPatientInv, ModelsStay DEF SkipInv, PatientInv
<1> SUFFICES ASSUME ~impatient'
             PROVE  SkipFree'
  BY <1>1 DEF SkipInv
<1>2. SkipFree /\ \A p \in Page : Patient(p)
  BY Impatience DEF SkipInv, PatientInv
<1>3. CopiesDerived
  BY <1>1, StepDerives
<1>4. \A w : Derived(w) /\ w # Closed => NoSkip(w)
  BY <1>1, <1>2, DerivedNoSkip
<1>5. \A p \in Page : \A w : TakenUp(p, w) => AllSaved(w)
  BY <1>1, <1>2, TakenUpSaved
<1>6. session' # Closed => NoSkip(session)'
  BY <1>1, <1>3, <1>4 DEF CopiesDerived, NoSkip
<1>7. \A p \in Page : page'[p] # Closed => NoSkip(page[p])'
  BY <1>1, <1>3, <1>4 DEF CopiesDerived, NoSkip
<1>8. \A p \in Page : completing'[p] # Idle => AllSaved(completing[p].wizard)'
  BY <1>1, <1>3, <1>5 DEF CopiesDerived, AllSaved
<1> QED
  BY <1>6, <1>7, <1>8 DEF SkipFree

(***************************************************************************)
(* For every wizard whose steps with a model come first, number of pages,  *)
(* clicks and faults: a page is past such a step only if its record was    *)
(* saved, as long as nobody clicks before the last click is answered.      *)
(***************************************************************************)
THEOREM NoStepIsSkipped ==
    ASSUME FormsFirst
    PROVE  WizardSpec => []NoStepSkipped
<1>1. WizardInit => SkipInv
  <2> SUFFICES ASSUME WizardInit
               PROVE  SkipInv
    OBVIOUS
  <2>1. SkipFree
    BY DEF WizardInit, SkipFree
  <2> QED
    BY <2>1, InitPatientInv DEF SkipInv
<1>2. SkipInv /\ [WizardStep]_wizardVars => SkipInv'
  BY NextSkipInv
<1>3. SkipInv => NoStepSkipped
  BY DEF SkipInv, SkipFree, NoSkip, NoStepSkipped
<1> QED
  BY <1>1, <1>2, <1>3, PTL DEF WizardSpec

-----------------------------------------------------------------------------
(* One live record of the primary model *)

\* The only record of the primary model that may live is the one the form edits.
Newest(w) ==
    \A i \in DOMAIN w.created :
        LET r == w.created[i]
        IN  r \in Id /\ Known(r) /\ (record[r].step = 0 /\ Exists(r) => r = w.data[0])

NewestFree ==
    /\ session # Closed => Newest(session)
    /\ \A p \in Page : page[p] # Closed => Newest(page[p])
    /\ \A p \in Page : completing[p] # Idle => Newest(completing[p].wizard)

NewestInv == PatientInv /\ (impatient \/ NewestFree)

LEMMA NewestStays ==
    ASSUME RecordsStand, NEW w, Newest(w)
    PROVE  Newest(w)'
<1>1. ASSUME NEW r \in Id, Known(r)
      PROVE  Known(r)' /\ record'[r].step = record[r].step /\ (Exists(r)' => Exists(r))
  BY <1>1 DEF RecordsStand, Known, Exists
<1> QED
  BY <1>1 DEF Newest

LEMMA HeardNewest ==
    ASSUME RecordInv, NEW p \in Page, calls[p] # <<>>, Current(p), Newest(page[p])
    PROVE  Newest(Heard(p))
<1>1. Shape /\ Local(p) /\ WizardTypeOK
  BY ShapeOfInv DEF RecordInv
<1>2. PICK w \in Wizard, u \in Wizard : w = page[p] /\ u = Heard(p) /\ w # Closed
  BY <1>1, HeardFacts
<1>3. CASE Head(calls[p]).name = "stepFormSaved"
  <2>1. PICK r \in Id, k \in Step :
           u = Recorded(w, r, k) /\ r = Head(calls[p]).record /\ k = Head(calls[p]).step
    BY <1>1, <1>2, <1>3, HeardFacts
  <2>2. \A j \in Step \ {k} : u.data[j] = w.data[j]
    BY <2>1, RecordedFacts
  <2>3. u.data[k] = r
    BY <2>1, RecordedFacts
  <2>4. \A i \in DOMAIN u.created :
           \/ u.created[i] = r
           \/ i \in DOMAIN w.created /\ u.created[i] = w.created[i]
    BY <2>1, RecordedFacts
  <2>5. 1 \in DOMAIN calls[p] /\ Head(calls[p]) = calls[p][1]
    <3>1. calls[p] \in Seq(Call) /\ calls[p] # <<>>
      BY <1>1 DEF WizardTypeOK
    <3> QED
      BY <3>1, TailFacts
  <2>6. Known(r) /\ record[r].step = k
    BY <1>1, <1>3, <2>1, <2>5 DEF Local, CallsSound
  <2>7. k = 0 /\ w.data[0] # 0 /\ Exists(w.data[0]) => r = w.data[0]
    BY <1>2, <1>3, <2>1, <2>5 DEF Current
  <2>8. ASSUME NEW i \in DOMAIN w.created, record[w.created[i]].step = 0, Exists(w.created[i])
        PROVE  w.created[i] = u.data[0]
    <3>1. w.created[i] = w.data[0] /\ w.data[0] \in Id
      BY <1>2, <2>8 DEF Newest
    <3>2. w.data[0] # 0
      BY <3>1, WizardAssumption DEF Id
    <3> QED
      BY <2>2, <2>3, <2>7, <2>8, <3>1, <3>2, StepFacts
  <2>9. record[r].step = 0 => r = u.data[0]
    BY <2>3, <2>6
  <2> QED
    BY <1>2, <2>4, <2>6, <2>8, <2>9 DEF Newest
<1>4. CASE Head(calls[p]).name # "stepFormSaved"
  BY <1>1, <1>2, <1>4, HeardFacts
<1> QED
  BY <1>3, <1>4

LEMMA NewestStep ==
    ASSUME NEW w \in Wizard, Newest(w), NEW k \in 0..Steps
    PROVE  Newest([w EXCEPT !.step = k])
<1>1. PICK v : v = [w EXCEPT !.step = k]
  OBVIOUS
<1>2. v.created = w.created /\ v.data = w.data
  BY <1>1, WizardFacts
<1>3. Newest(v)
  BY <1>2 DEF Newest
<1> QED
  BY <1>1, <1>3

LEMMA DerivedNewest ==
    ASSUME RecordInv, NewestFree, \A p \in Page : Current(p), NEW w, Derived(w), w # Closed
    PROVE  Newest(w)
<1>1. CASE w = Fresh
  <2>1. DOMAIN w.created = {}
    BY <1>1, FreshFacts
  <2> QED
    BY <2>1 DEF Newest
<1>2. ASSUME NEW r \in Id, w = Resumed(r), IsDraft(r)
      PROVE  Newest(w)
  <2>1. w.data[0] = r
    BY <1>2, ResumedFacts
  <2>2. DOMAIN w.created = {1} /\ w.created[1] = r
    BY <1>2, ResumedFacts
  <2>3. Known(r)
    BY <1>2 DEF IsDraft, Known
  <2> QED
    BY <2>1, <2>2, <2>3 DEF Newest
<1>3. CASE w = session
  BY <1>3 DEF NewestFree
<1>4. ASSUME NEW p \in Page, w = page[p]
      PROVE  Newest(w)
  BY <1>4 DEF NewestFree
<1>5. ASSUME NEW p \in Page, Told(p, w)
      PROVE  Newest(w)
  <2>1. PICK k \in 0..Steps : w = [Heard(p) EXCEPT !.step = k]
    BY <1>5 DEF Told
  <2>2. calls[p] # <<>>
    BY <1>5 DEF Told
  <2>3. Heard(p) \in Wizard /\ page[p] # Closed
    BY <2>2, HeardKeeps
  <2>4. Newest(Heard(p))
    BY <2>2, <2>3, HeardNewest DEF NewestFree
  <2> QED
    BY <2>1, <2>3, <2>4, NewestStep
<1>6. ASSUME NEW p \in Page, completing[p] # Idle, w = Completed(completing[p].wizard)
      PROVE  Newest(w)
  <2>1. PICK c \in Wizard : c = completing[p].wizard
    BY <1>6, CompletingFacts
  <2>2. Steps \in 0..Steps
    BY StepFacts
  <2> QED
    BY <1>6, <2>1, <2>2, NewestStep DEF NewestFree, Completed
<1> QED
  BY <1>1, <1>2, <1>3, <1>4, <1>5, <1>6 DEF Derived

LEMMA NextNewestInv ==
    ASSUME NewestInv, [WizardStep]_wizardVars
    PROVE  NewestInv'
<1>1. PatientInv /\ PatientInv' /\ RecordInv /\ RecordsStand
  BY NextPatientInv, StepFromRecordInv DEF NewestInv, PatientInv
<1> SUFFICES ASSUME ~impatient'
             PROVE  NewestFree'
  BY <1>1 DEF NewestInv
<1>2. NewestFree /\ \A p \in Page : Current(p)
  BY Impatience DEF NewestInv, PatientInv
<1>3. CopiesDerived
  BY <1>1, StepDerives
<1>4. \A w : Derived(w) /\ w # Closed => Newest(w)
  BY <1>1, <1>2, DerivedNewest
<1>5. \A p \in Page : \A w : TakenUp(p, w) => Newest(w)
  <2> SUFFICES ASSUME NEW p \in Page, NEW w, TakenUp(p, w)
               PROVE  Newest(w)
    OBVIOUS
  <2>1. CASE completing[p] # Idle /\ w = completing[p].wizard
    BY <1>2, <2>1 DEF NewestFree
  <2>2. CASE calls[p] # <<>> /\ w = Heard(p)
    BY <1>1, <1>2, <2>2, HeardNewest, HeardKeeps DEF NewestFree
  <2> QED
    BY <2>1, <2>2 DEF TakenUp
<1>6. session' # Closed => Newest(session)'
  <2>1. PICK w : w = session'
    OBVIOUS
  <2>2. w # Closed => Newest(w)'
    BY <1>1, <1>3, <1>4, <2>1, NewestStays DEF CopiesDerived
  <2> QED
    BY <2>1, <2>2 DEF Newest
<1>7. ASSUME NEW p \in Page, page'[p] # Closed
      PROVE  Newest(page[p])'
  <2>1. PICK w : w = page'[p]
    OBVIOUS
  <2>2. Newest(w)'
    BY <1>1, <1>3, <1>4, <1>7, <2>1, NewestStays DEF CopiesDerived
  <2> QED
    BY <2>1, <2>2 DEF Newest
<1>8. ASSUME NEW p \in Page, completing'[p] # Idle
      PROVE  Newest(completing[p].wizard)'
  <2>1. PICK w : w = completing'[p].wizard
    OBVIOUS
  <2>2. Newest(w)'
    BY <1>1, <1>3, <1>5, <1>8, <2>1, NewestStays DEF CopiesDerived
  <2> QED
    BY <2>1, <2>2 DEF Newest
<1> QED
  BY <1>6, <1>7, <1>8 DEF NewestFree

LEMMA InitNewestInv ==
    ASSUME WizardInit
    PROVE  NewestInv
<1>1. NewestFree
  BY DEF WizardInit, NewestFree
<1> QED
  BY <1>1, InitPatientInv DEF NewestInv

\* The user who does not wait: while nothing was deleted, all there is agrees on
\* one record of the primary model, or on one form that is to create it.
AllExist(w) ==
    \A i \in DOMAIN w.created : record[w.created[i]].step = 0 => Exists(w.created[i])

Names(w, s) ==
    \A i \in DOMAIN w.created : record[w.created[i]].step = 0 => w.created[i] = s

Agree(p, w, s) ==
    /\ Names(w, s)
    /\ \A i \in DOMAIN forms[p] : forms[p][i].step = 0 => forms[p][i].record = s
    /\ \A i \in DOMAIN calls[p] :
          calls[p][i].name = "stepFormSaved" /\ calls[p][i].step = 0 => calls[p][i].record = s
    /\ s = 0 => \A i, j \in DOMAIN forms[p] :
                    forms[p][i].step = 0 /\ forms[p][j].step = 0 => i = j

One(p, w) == AllExist(w) => \E s \in Id \cup {0} : Agree(p, w, s)

Single(w) == AllExist(w) => \E s \in Id \cup {0} : Names(w, s)

SessionOne == session # Closed => Single(session)

PageOne(p) ==
    /\ page[p] # Closed => One(p, page[p])
    /\ completing[p] # Idle => One(p, completing[p].wizard)

OneInv == RecordInv /\ SessionOne /\ \A p \in Page : PageOne(p)

LEMMA AllExistBefore ==
    ASSUME RecordsStand, NEW w \in Wizard, Sound(w)
    PROVE  /\ AllExist(w)' => AllExist(w)
           /\ \A s : Names(w, s) => Names(w, s)'
<1>1. \A i \in DOMAIN w.created : w.created[i] \in Id /\ Known(w.created[i])
  BY WizardFacts DEF Sound
<1>2. ASSUME NEW r \in Id, Known(r)
      PROVE  Known(r)' /\ record'[r].step = record[r].step /\ (Exists(r)' => Exists(r))
  BY <1>2 DEF RecordsStand, Known, Exists
<1> QED
  BY <1>1, <1>2 DEF AllExist, Names

LEMMA SingleStays ==
    ASSUME RecordsStand, NEW w \in Wizard, Sound(w), Single(w)
    PROVE  Single(w)'
BY AllExistBefore DEF Single

\* The forms are as they were, and nothing was said that was not said before.
LEMMA OneCarried ==
    ASSUME RecordsStand, NEW p \in Page, NEW w \in Wizard, Sound(w), One(p, w),
           DOMAIN forms'[p] = DOMAIN forms[p],
           \A i \in DOMAIN forms[p] : /\ forms'[p][i].step = forms[p][i].step
                                      /\ forms'[p][i].record = forms[p][i].record,
           \A i \in DOMAIN calls'[p] : calls'[p][i].name = "stepFormSaved" =>
               \E j \in DOMAIN calls[p] : calls'[p][i] = calls[p][j]
    PROVE  One(p, w)'
<1> SUFFICES ASSUME AllExist(w)'
             PROVE  \E s \in Id \cup {0} : Agree(p, w, s)'
  BY DEF One
<1>1. PICK s \in Id \cup {0} : Agree(p, w, s)
  BY AllExistBefore DEF One
<1>2. Names(w, s)'
  BY <1>1, AllExistBefore DEF Agree
<1>3. \A i \in DOMAIN forms'[p] : forms'[p][i].step = 0 => forms'[p][i].record = s
  BY <1>1 DEF Agree
<1>4. \A i \in DOMAIN calls'[p] :
         calls'[p][i].name = "stepFormSaved" /\ calls'[p][i].step = 0 => calls'[p][i].record = s
  BY <1>1 DEF Agree
<1>5. s = 0 => \A i, j \in DOMAIN forms'[p] :
                   forms'[p][i].step = 0 /\ forms'[p][j].step = 0 => i = j
  BY <1>1 DEF Agree
<1>6. Agree(p, w, s)'
  BY <1>2, <1>3, <1>4, <1>5 DEF Agree
<1> QED
  BY <1>6

\* Another step is shown, and with it perhaps the form of the first one.
LEMMA OneShown ==
    ASSUME RecordInv, UNCHANGED record, NEW p \in Page, NEW w \in Wizard, Sound(w), One(p, w),
           w.data[0] # 0, FormsOf(p, w),
           \A i \in DOMAIN calls'[p] : \E j \in DOMAIN calls[p] : calls'[p][i] = calls[p][j]
    PROVE  One(p, w)'
<1> SUFFICES ASSUME AllExist(w)'
             PROVE  \E s \in Id \cup {0} : Agree(p, w, s)'
  BY DEF One
<1>1. AllExist(w) /\ WizardTypeOK
  BY DEF AllExist, Exists, RecordInv
<1>2. PICK s \in Id \cup {0} : Agree(p, w, s)
  BY <1>1 DEF One
<1>3. PICK d : d = w.data[0]
  OBVIOUS
<1>4. d # 0 /\ (\E i \in DOMAIN w.created : w.created[i] = d) /\ record[d].step = 0
  BY <1>3, StepFacts DEF Sound
<1>5. d = s /\ Exists(d)
  BY <1>1, <1>2, <1>4 DEF Agree, Names, AllExist
<1>6. w.step \in models /\ w.step = 0 => NewForm(w).record = s
  BY <1>1, <1>3, <1>4, <1>5, NewFormFacts
<1>7. w.step \in models => NewForm(w).step = w.step
  BY <1>1, NewFormFacts
<1>8. \A i \in DOMAIN forms'[p] : forms'[p][i].step = 0 => forms'[p][i].record = s
  BY <1>2, <1>6, <1>7 DEF Agree, FormsOf
<1>9. \A i \in DOMAIN calls'[p] :
         calls'[p][i].name = "stepFormSaved" /\ calls'[p][i].step = 0 => calls'[p][i].record = s
  BY <1>2 DEF Agree
<1>10. Names(w, s)' /\ s # 0
  BY <1>2, <1>4, <1>5 DEF Agree, Names
<1>11. Agree(p, w, s)'
  BY <1>8, <1>9, <1>10 DEF Agree
<1> QED
  BY <1>11

LEMMA TailSays ==
    ASSUME WizardTypeOK, NEW p \in Page, calls[p] # <<>>, calls'[p] = Tail(calls[p])
    PROVE  \A i \in DOMAIN calls'[p] : \E j \in DOMAIN calls[p] : calls'[p][i] = calls[p][j]
<1>1. calls[p] \in Seq(Call)
  BY DEF WizardTypeOK
<1>2. \A i \in DOMAIN calls'[p] : i + 1 \in DOMAIN calls[p] /\ calls'[p][i] = calls[p][i + 1]
  BY <1>1, TailFacts
<1> QED
  BY <1>2

LEMMA OneAnswer ==
    ASSUME RecordInv, UNCHANGED record, NEW p \in Page, calls[p] # <<>>,
           NEW w \in Wizard, Sound(w), One(p, w), page[p].data[0] # 0 => w.data[0] # 0,
           Answer(p, w), One(p, page[p])
    PROVE  One(p, page[p])'
<1>1. WizardTypeOK /\ Local(p) /\ RecordsStand
  BY NoRecordChanges DEF RecordInv
<1>2. PICK v \in Wizard : v = page[p] /\ Sound(v)
  BY <1>1 DEF Local, Placed, WizardTypeOK
<1>3. /\ calls'[p] = Tail(calls[p])
      /\ \/ page'[p] = w /\ w.step = v.step /\ forms'[p] = forms[p]
         \/ page'[p] = w /\ w.step # v.step /\ FormsOf(p, w)
         \/ page'[p] = v /\ forms'[p] = forms[p]
  BY <1>1, <1>2, AnswerEffect
<1>4. \A i \in DOMAIN calls'[p] : \E j \in DOMAIN calls[p] : calls'[p][i] = calls[p][j]
  BY <1>1, <1>3, TailSays
<1>5. CASE page'[p] = w /\ forms'[p] = forms[p]
  <2>1. One(p, w)'
    BY <1>1, <1>4, <1>5, OneCarried
  <2> QED
    BY <1>5, <2>1 DEF One, AllExist, Agree, Names
<1>6. CASE page'[p] = v /\ forms'[p] = forms[p]
  <2>1. One(p, v)
    BY <1>2
  <2>2. One(p, v)'
    BY <1>1, <1>2, <1>4, <1>6, <2>1, OneCarried
  <2> QED
    BY <1>6, <2>2 DEF One, AllExist, Agree, Names
<1>7. CASE page'[p] = w /\ w.step # v.step /\ FormsOf(p, w)
  <2>1. w.step \in Nat /\ v.step \in Nat
    BY WizardFacts, StepFacts
  <2>2. w.data[0] # 0
    BY <1>2, <1>7, <2>1 DEF Sound
  <2>3. One(p, w)'
    BY <1>4, <1>7, <2>2, OneShown
  <2> QED
    BY <1>7, <2>3 DEF One, AllExist, Agree, Names
<1> QED
  BY <1>3, <1>5, <1>6, <1>7

LEMMA OneHeard ==
    ASSUME RecordInv, NEW p \in Page, calls[p] # <<>>, One(p, page[p])
    PROVE  One(p, Heard(p))
<1>1. Shape /\ Local(p) /\ WizardTypeOK
  BY ShapeOfInv DEF RecordInv
<1>2. PICK w \in Wizard, u \in Wizard : w = page[p] /\ u = Heard(p) /\ w # Closed
  BY <1>1, HeardFacts
<1>3. CASE Head(calls[p]).name = "stepFormSaved"
  <2>1. PICK r \in Id, k \in Step :
           u = Recorded(w, r, k) /\ r = Head(calls[p]).record /\ k = Head(calls[p]).step
    BY <1>1, <1>2, <1>3, HeardFacts
  <2>2. \A i \in DOMAIN u.created :
           \/ u.created[i] = r
           \/ i \in DOMAIN w.created /\ u.created[i] = w.created[i]
    BY <2>1, RecordedFacts
  <2>3. \A i \in DOMAIN w.created : i \in DOMAIN u.created /\ u.created[i] = w.created[i]
    BY <2>1, RecordedFacts
  <2>4. 1 \in DOMAIN calls[p] /\ Head(calls[p]) = calls[p][1]
    <3>1. calls[p] \in Seq(Call) /\ calls[p] # <<>>
      BY <1>1 DEF WizardTypeOK
    <3> QED
      BY <3>1, TailFacts
  <2>5. record[r].step = k
    BY <1>1, <1>3, <2>1, <2>4 DEF Local, CallsSound
  <2>6. AllExist(u) => AllExist(w)
    BY <2>3 DEF AllExist
  <2>7. ASSUME AllExist(u)
        PROVE  \E s \in Id \cup {0} : Agree(p, u, s)
    <3>1. PICK s \in Id \cup {0} : Agree(p, w, s)
      BY <1>2, <2>6, <2>7 DEF One
    <3>2. k = 0 => r = s
      BY <1>3, <2>1, <2>4, <3>1 DEF Agree
    <3>3. Names(u, s)
      BY <2>2, <2>5, <3>1, <3>2 DEF Agree, Names
    <3> QED
      BY <3>1, <3>3 DEF Agree
  <2> QED
    BY <1>2, <2>7 DEF One
<1>4. CASE Head(calls[p]).name # "stepFormSaved"
  BY <1>1, <1>2, <1>4, HeardFacts
<1> QED
  BY <1>3, <1>4

LEMMA OneStep ==
    ASSUME NEW p \in Page, NEW w \in Wizard, One(p, w), NEW k \in 0..Steps
    PROVE  One(p, [w EXCEPT !.step = k])
<1>1. PICK v : v = [w EXCEPT !.step = k]
  OBVIOUS
<1>2. v.created = w.created
  BY <1>1, WizardFacts
<1>3. One(p, v)
  BY <1>2 DEF One, AllExist, Agree, Names
<1> QED
  BY <1>1, <1>3

LEMMA OneSave ==
    ASSUME RecordInv, NEW p \in Page, SaveForm(p), page[p] # Closed,
           NEW w \in Wizard, Sound(w), One(p, w)
    PROVE  One(p, w)'
<1>1. WizardTypeOK /\ Local(p) /\ RecordsStand
  BY StepFromRecordInv DEF RecordInv, WizardStep, ServerStep
<1> SUFFICES ASSUME AllExist(w)'
             PROVE  \E s \in Id \cup {0} : Agree(p, w, s)'
  BY DEF One
<1>2. PICK s \in Id \cup {0} : Agree(p, w, s)
  BY <1>1, AllExistBefore DEF One
<1>3. PICK i \in DOMAIN forms[p] : SaveDone(p, i)
  BY <1>1, SaveEffect DEF Local, FormsSound
<1>4. PICK f : f = forms[p][i]
  OBVIOUS
<1>5. /\ DOMAIN forms'[p] = DOMAIN forms[p]
      /\ \A j \in DOMAIN forms[p] \ {i} : forms'[p][j] = forms[p][j]
      /\ forms'[p][i].step = f.step
  BY <1>3, <1>4 DEF SaveDone, OneSaved
<1>6. Names(w, s)'
  BY <1>1, <1>2, AllExistBefore DEF Agree
<1>7. CASE forms'[p][i].record = f.record /\ calls' = calls
  <2>1. \A j \in DOMAIN forms[p] : /\ forms'[p][j].step = forms[p][j].step
                                   /\ forms'[p][j].record = forms[p][j].record
    BY <1>4, <1>5, <1>7
  <2>2. One(p, w)'
    BY <1>1, <1>5, <1>7, <2>1, OneCarried
  <2> QED
    BY <2>2 DEF One
<1>8. ASSUME NEW r \in Id, Tells(p, i, r),
             \/ f.record = r /\ Exists(r)
             \/ f.record = 0 /\ ~Known(r)
      PROVE  \E x \in Id \cup {0} : Agree(p, w, x)'
  <2>1. PICK c, t, new : c = calls[p] /\ new = SavedCall(r, f.step) /\ t = calls'[p]
    OBVIOUS
  <2>2. t = Append(c, new) /\ forms'[p][i].record = r
    BY <1>4, <1>8, <2>1 DEF Tells
  <2>3. c \in Seq(Call) /\ f \in Form
    BY <1>1, <1>4, <2>1 DEF WizardTypeOK
  <2>4. new \in Call /\ new.name = "stepFormSaved" /\ new.record = r /\ new.step = f.step
    BY <2>1, <2>3 DEF SavedCall, Call, Form
  <2>5. \A j \in DOMAIN t : t[j] = new \/ (j \in DOMAIN c /\ t[j] = c[j])
    BY <2>2, <2>3, <2>4, AppendFacts
  <2>6. 0 \notin Id
    BY WizardAssumption DEF Id
  <2>7. CASE f.step # 0 \/ s = r
    <3>1. \A j \in DOMAIN forms'[p] : forms'[p][j].step = 0 => forms'[p][j].record = s
      BY <1>2, <1>5, <2>2, <2>7 DEF Agree
    <3>2. \A j \in DOMAIN t : t[j].name = "stepFormSaved" /\ t[j].step = 0 => t[j].record = s
      BY <1>2, <2>1, <2>4, <2>5, <2>7 DEF Agree
    <3>3. s = 0 => \A j, k \in DOMAIN forms'[p] :
                       forms'[p][j].step = 0 /\ forms'[p][k].step = 0 => j = k
      <4>1. \A j \in DOMAIN forms[p] : forms'[p][j].step = forms[p][j].step
        BY <1>4, <1>5
      <4> QED
        BY <1>2, <1>5, <4>1 DEF Agree
    <3>4. Agree(p, w, s)'
      BY <1>6, <2>1, <3>1, <3>2, <3>3 DEF Agree
    <3> QED
      BY <3>4
  <2>8. CASE f.step = 0 /\ s # r
    <3>1. f.record = s
      BY <1>2, <1>4, <2>8 DEF Agree
    <3>2. s = 0
      BY <1>8, <2>8, <3>1
    <3>3. \A j \in DOMAIN forms[p] : forms[p][j].step = 0 => j = i
      BY <1>2, <1>4, <2>8, <3>2 DEF Agree
    <3>4. \A j \in DOMAIN forms'[p] : forms'[p][j].step = 0 => forms'[p][j].record = r
      BY <1>5, <2>2, <3>3
    <3>5. \A j \in DOMAIN c : c[j].name = "stepFormSaved" => c[j].record # 0
      BY <1>1, <2>1 DEF Local, Placed
    <3>6. \A j \in DOMAIN t : t[j].name = "stepFormSaved" /\ t[j].step = 0 => t[j].record = r
      BY <1>2, <2>1, <2>4, <2>5, <3>2, <3>5 DEF Agree
    <3>7. Names(w, r)'
      <4>1. \A j \in DOMAIN w.created : w.created[j] \in Id
        BY WizardFacts
      <4> QED
        BY <1>6, <2>6, <3>2, <4>1 DEF Names
    <3>8. Agree(p, w, r)'
      BY <2>1, <2>6, <3>4, <3>6, <3>7 DEF Agree
    <3> QED
      BY <3>8
  <2> QED
    BY <2>7, <2>8
<1>9. \/ forms'[p][i].record = f.record /\ calls' = calls
      \/ \E r \in Id :
            /\ Tells(p, i, r)
            /\ \/ f.record = r /\ Exists(r)
               \/ f.record = 0 /\ ~Known(r)
  BY <1>3, <1>4 DEF SaveDone
<1> QED
  BY <1>7, <1>8, <1>9

\* No form is taken away and none added, no record is told of.
NothingNew(p) ==
    /\ DOMAIN forms'[p] = DOMAIN forms[p]
    /\ \A i \in DOMAIN forms[p] : /\ forms'[p][i].step = forms[p][i].step
                                  /\ forms'[p][i].record = forms[p][i].record
    /\ \A i \in DOMAIN calls'[p] : calls'[p][i].name = "stepFormSaved" =>
           \E j \in DOMAIN calls[p] : calls'[p][i] = calls[p][j]

LEMMA PageOneQuiet ==
    ASSUME RecordInv, RecordsStand, NEW p \in Page, PageOne(p), NothingNew(p),
           page'[p] \in {page[p], Closed},
           completing'[p] # Idle =>
               completing[p] # Idle /\ completing'[p].wizard = completing[p].wizard
    PROVE  PageOne(p)'
<1>1. WizardTypeOK /\ Local(p)
  BY DEF RecordInv
<1>2. ASSUME page'[p] # Closed
      PROVE  One(p, page[p])'
  <2>1. PICK w \in Wizard : w = page[p] /\ page'[p] = w
    BY <1>1, <1>2 DEF WizardTypeOK
  <2>2. Sound(w) /\ One(p, w)
    BY <1>1, <1>2, <2>1 DEF Local, PageOne
  <2>3. One(p, w)'
    BY <2>2, OneCarried DEF NothingNew
  <2> QED
    BY <2>1, <2>3 DEF One, AllExist, Agree, Names
<1>3. ASSUME completing'[p] # Idle
      PROVE  One(p, completing[p].wizard)'
  <2>1. PICK w \in Wizard : w = completing[p].wizard /\ completing'[p].wizard = w /\ Sound(w)
    BY <1>3, CompletingFacts
  <2>2. One(p, w)
    BY <1>3, <2>1 DEF PageOne
  <2>3. One(p, w)'
    BY <2>1, <2>2, OneCarried DEF NothingNew
  <2> QED
    BY <2>1, <2>3 DEF One, AllExist, Agree, Names
<1> QED
  BY <1>2, <1>3 DEF PageOne

LEMMA LeavePageOne ==
    ASSUME RecordInv, RecordsStand, NEW p \in Page, calls[p] # <<>>, Leave(p), completing'[p] = Idle,
           PageOne(p)
    PROVE  PageOne(p)'
<1>1. WizardTypeOK
  BY DEF RecordInv
<1>2. CASE Gone(p) /\ UNCHANGED faults
  <2>1. page'[p] = Closed
    BY <1>1, <1>2, GoneEffect
  <2> QED
    BY <2>1 DEF PageOne
<1>3. CASE page'[p] = page[p] /\ forms'[p] = forms[p] /\ calls'[p] = Tail(calls[p])
  <2>1. NothingNew(p)
    BY <1>1, <1>3, TailSays DEF NothingNew
  <2> QED
    BY <1>3, <2>1, PageOneQuiet
<1> QED
  BY <1>1, <1>2, <1>3, LeaveEffect

LEMMA ServePageOne ==
    ASSUME RecordInv, NEW p \in Page, Serve(p), PageOne(p)
    PROVE  PageOne(p)'
<1>1. Shape /\ Local(p) /\ WizardTypeOK /\ RecordsStand
  BY ShapeOfInv, StepFromRecordInv DEF RecordInv, WizardStep, ServerStep
<1>2. /\ calls[p] # <<>> /\ completing[p] = Idle /\ UNCHANGED <<models, record>>
      /\ \/ Turns(p, Heard(p)) \/ Stays(p, Heard(p)) \/ Ends(p, Heard(p))
         \/ Asks(p, Heard(p)) \/ Begins(p, Heard(p)) \/ Leaves(p)
  BY <1>1, ServeCases DEF database
<1>3. PICK u \in Wizard : u = Heard(p) /\ u.step = page[p].step /\ Sound(u)
                          /\ (page[p].data[0] # 0 => u.data[0] # 0)
                          /\ (Head(calls[p]).name = "stepFormSaved" => u.data[0] # 0)
  BY <1>1, <1>2, HeardSound
<1>4. page[p] # Closed /\ One(p, page[p])
  BY <1>1, <1>2, HeardFacts DEF PageOne
<1>5. One(p, u)
  BY <1>2, <1>3, <1>4, OneHeard
<1>6. ASSUME NEW k \in 0..Steps, Answer(p, [u EXCEPT !.step = k]), k > 0 => u.data[0] # 0
      PROVE  One(p, page[p])'
  <2>1. PICK v : v = [u EXCEPT !.step = k]
    OBVIOUS
  <2>2. v \in Wizard /\ v.data = u.data
    BY <2>1, WizardFacts
  <2>3. Sound(v)
    BY <1>3, <1>6, <2>1, StepSound
  <2>4. One(p, v)
    BY <1>5, <2>1, OneStep
  <2>5. page[p].data[0] # 0 => v.data[0] # 0
    BY <1>3, <2>2
  <2> QED
    BY <1>2, <1>4, <1>6, <2>1, <2>2, <2>3, <2>4, <2>5, OneAnswer
<1>7. u.step \in 0..Steps /\ 0 \in models /\ (u.step > 0 => u.data[0] # 0)
  BY <1>1, <1>3, WizardFacts, WizardAssumption, StepFacts DEF WizardTypeOK, Sound
<1>8. CASE Turns(p, u)
  <2>1. PICK s \in Step :
           /\ \/ /\ s = u.step + 1
                 /\ Head(calls[p]).name # "stepFormSaved" => ~FormStep(u.step)
              \/ s < u.step /\ u = page[p]
           /\ Answer(p, [u EXCEPT !.step = s])
    BY <1>8 DEF Turns
  <2>2. UNCHANGED completing /\ s \in 0..Steps
    BY <1>8, StepFacts DEF Turns
  <2>3. s > 0 => u.data[0] # 0
    <3>1. CASE u.step > 0
      BY <1>7, <3>1
    <3>2. CASE u.step = 0
      <4>1. FormStep(0)
        BY <1>7, WizardAssumption DEF FormStep
      <4> QED
        BY <1>3, <2>1, <3>2, <4>1, StepFacts
    <3> QED
      BY <1>7, <3>1, <3>2
  <2>4. One(p, page[p])'
    BY <1>6, <2>1, <2>2, <2>3
  <2> QED
    BY <1>2, <2>2, <2>4 DEF PageOne
<1>9. CASE Stays(p, u)
  <2>1. One(p, page[p])'
    BY <1>2, <1>3, <1>4, <1>5, <1>9, OneAnswer DEF Stays
  <2> QED
    BY <1>2, <1>9, <2>1 DEF Stays, PageOne
<1>10. CASE Ends(p, u)
  <2>1. u.data[0] # 0
    BY <1>7, <1>10 DEF Ends, NeedsSave
  <2>2. Answer(p, [u EXCEPT !.step = Steps]) /\ UNCHANGED completing /\ Steps \in 0..Steps
    BY <1>10, StepFacts DEF Ends, Completed
  <2>3. One(p, page[p])'
    BY <1>6, <2>1, <2>2
  <2> QED
    BY <1>2, <2>2, <2>3 DEF PageOne
<1>11. CASE Asks(p, u)
  <2>1. /\ calls'[p] = Tail(calls[p])
        /\ \/ /\ page'[p] = u
              /\ DOMAIN forms'[p] = DOMAIN forms[p]
              /\ \A i \in DOMAIN forms[p] :
                    /\ forms'[p][i].step = forms[p][i].step
                    /\ forms'[p][i].record = forms[p][i].record
           \/ page'[p] = page[p] /\ forms'[p] = forms[p]
    BY <1>1, <1>2, <1>3, <1>11, AskEffect DEF Asks
  <2>2. NothingNew(p) /\ completing'[p] = Idle
    BY <1>1, <1>2, <1>11, <2>1, TailSays DEF NothingNew, Asks
  <2>3. CASE page'[p] = u
    <3>1. One(p, u)'
      BY <1>1, <1>3, <1>5, <2>2, OneCarried DEF NothingNew
    <3>2. One(p, page[p])'
      BY <2>3, <3>1 DEF One, AllExist, Agree, Names
    <3> QED
      BY <2>2, <3>2 DEF PageOne
  <2>4. CASE page'[p] = page[p]
    BY <1>1, <2>2, <2>4, PageOneQuiet
  <2> QED
    BY <2>1, <2>3, <2>4
<1>12. CASE Begins(p, u)
  <2>1. PICK c : c = [at |-> "update", wizard |-> u]
    OBVIOUS
  <2>2. UNCHANGED <<page, forms, calls>> /\ completing'[p] = c /\ c.wizard = u
    BY <1>1, <1>12, <2>1 DEF Begins, browser, WizardTypeOK
  <2>3. NothingNew(p)
    BY <2>2 DEF NothingNew
  <2>4. One(p, u)'
    BY <1>1, <1>3, <1>5, <2>3, OneCarried DEF NothingNew
  <2>5. One(p, completing[p].wizard)'
    BY <2>2, <2>4 DEF One, AllExist, Agree, Names
  <2>6. PICK v \in Wizard : v = page[p] /\ Sound(v) /\ One(p, v)
    BY <1>1, <1>4 DEF Local, WizardTypeOK
  <2>7. One(p, v)'
    BY <1>1, <2>3, <2>6, OneCarried DEF NothingNew
  <2>8. One(p, page[p])'
    BY <2>2, <2>6, <2>7 DEF One, AllExist, Agree, Names
  <2> QED
    BY <2>5, <2>8 DEF PageOne
<1>13. CASE Leaves(p)
  BY <1>1, <1>2, <1>13, LeavePageOne DEF Leaves
<1> QED
  BY <1>2, <1>3, <1>8, <1>9, <1>11, <1>12, <1>13, <1>10

LEMMA EndPageOne ==
    ASSUME RecordInv, NEW p \in Page, CompletionEnds(p), completing[p] # Idle, UNCHANGED record,
           PageOne(p)
    PROVE  PageOne(p)'
<1>1. completing[p] # Idle
  OBVIOUS
<1>2. PICK w \in Wizard : /\ w = completing[p].wizard /\ Sound(w) /\ w.data[0] # 0
                          /\ calls[p] # <<>> /\ page[p] # Closed
  BY <1>1, CompletingFacts
<1>3. Answer(p, [w EXCEPT !.step = Steps]) /\ UNCHANGED record /\ completing'[p] = Idle
  BY <1>2 DEF CompletionEnds, Completed, RecordInv, WizardTypeOK
<1>4. PICK v : v = [w EXCEPT !.step = Steps]
  OBVIOUS
<1>5. Steps \in 0..Steps
  BY StepFacts
<1>6. v \in Wizard /\ v.data = w.data
  BY <1>4, <1>5, WizardFacts
<1>7. Sound(v)
  BY <1>2, <1>4, <1>5, StepSound
<1>8. One(p, w) /\ One(p, page[p])
  BY <1>1, <1>2 DEF PageOne
<1>9. One(p, v)
  BY <1>4, <1>5, <1>8, OneStep
<1>10. One(p, page[p])'
  BY <1>2, <1>3, <1>4, <1>6, <1>7, <1>8, <1>9, OneAnswer
<1> QED
  BY <1>3, <1>10 DEF PageOne

LEMMA SavePageOne ==
    ASSUME RecordInv, NEW p \in Page, SaveForm(p), PageOne(p)
    PROVE  PageOne(p)'
<1>1. UNCHANGED <<page, completing>> /\ WizardTypeOK /\ Local(p)
  BY DEF SaveForm, RecordInv
<1>2. ASSUME page[p] # Closed
      PROVE  One(p, page[p])'
  <2>1. PICK w \in Wizard : w = page[p] /\ Sound(w) /\ One(p, w)
    BY <1>1, <1>2 DEF Local, PageOne, WizardTypeOK
  <2>2. One(p, w)'
    BY <1>2, <2>1, OneSave
  <2> QED
    BY <1>1, <2>1, <2>2 DEF One, AllExist, Agree, Names
<1>3. ASSUME completing[p] # Idle
      PROVE  One(p, completing[p].wizard)'
  <2>1. PICK w \in Wizard : w = completing[p].wizard /\ Sound(w) /\ One(p, w)
    BY <1>3, CompletingFacts DEF PageOne
  <2>2. page[p] # Closed
    BY <1>3, CompletingFacts
  <2>3. One(p, w)'
    BY <2>1, <2>2, OneSave
  <2> QED
    BY <1>1, <2>1, <2>3 DEF One, AllExist, Agree, Names
<1> QED
  BY <1>1, <1>2, <1>3 DEF PageOne

\* Whatever a page is opened with, its form edits the record there is.
LEMMA OpenPageOne ==
    ASSUME RecordInv, SessionOne, NEW p \in Page, Open(p)
    PROVE  PageOne(p)'
<1>1. WizardTypeOK /\ Local(p)
  BY DEF RecordInv
<1>2. /\ page[p] = Closed /\ calls[p] = <<>>
      /\ UNCHANGED <<models, calls, completing, record>>
  BY OpenEffect DEF database
<1>3. PICK w \in Wizard :
         /\ \/ \E r \in Id : w = Resumed(r)
            \/ session # Closed /\ w = session
            \/ w = Fresh
         /\ Sound(w) /\ page'[p] = w /\ forms'[p] = Mount(w)
  BY OpenEffect
<1>4. completing'[p] = Idle /\ calls'[p] = <<>>
  BY <1>1, <1>2 DEF Local, Placed
<1>5. Single(w)
  <2>1. ASSUME NEW r \in Id, w = Resumed(r)
        PROVE  Single(w)
    <3>1. DOMAIN w.created = {1} /\ w.created[1] = r
      BY <2>1, ResumedFacts
    <3> QED
      BY <3>1 DEF Single, Names
  <2>2. CASE w = Fresh
    <3>1. DOMAIN w.created = {}
      BY <2>2, FreshFacts
    <3> QED
      BY <3>1 DEF Single, Names
  <2> QED
    BY <1>3, <2>1, <2>2 DEF SessionOne
<1>6. PICK d : d = w.data[0]
  OBVIOUS
<1>7. d \in Id \cup {0} /\ 0 \notin Id
  BY <1>6, WizardFacts, StepFacts, WizardAssumption DEF Id
<1>8. ASSUME AllExist(w)
      PROVE  Names(w, d) /\ (d # 0 => Exists(d))
  <2>1. PICK s : Names(w, s)
    BY <1>5, <1>8 DEF Single
  <2>2. CASE d = 0
    BY <1>3, <1>6, <2>2 DEF Sound, Names
  <2>3. CASE d # 0
    <3>1. (\E i \in DOMAIN w.created : w.created[i] = d) /\ record[d].step = 0
      BY <1>3, <1>6, <2>3, StepFacts DEF Sound
    <3>2. d = s /\ Exists(d)
      BY <1>8, <2>1, <3>1 DEF Names, AllExist
    <3> QED
      BY <2>1, <3>2
  <2> QED
    BY <2>2, <2>3
<1>9. One(p, w)'
  <2> SUFFICES ASSUME AllExist(w)'
               PROVE  Agree(p, w, d)'
    BY <1>7 DEF One
  <2>1. AllExist(w)
    BY <1>2 DEF AllExist, Exists
  <2>2. Names(w, d)'
    BY <1>2, <1>8, <2>1 DEF Names
  <2>3. CASE w.step \in models
    <3>1. PICK f : f = NewForm(w)
      OBVIOUS
    <3>2. Len(Mount(w)) = 1 /\ Mount(w)[1] = f /\ Mount(w) \in Seq(Form)
      BY <1>1, <2>3, <3>1, MountFacts
    <3>3. DOMAIN forms'[p] = {1} /\ forms'[p][1] = f
      BY <1>3, <3>2
    <3>4. f.step = w.step /\ (f.record # 0 => f.record = w.data[w.step])
          /\ (f.record = 0 => w.data[w.step] = 0 \/ ~Exists(w.data[w.step]))
      BY <1>1, <2>3, <3>1, NewFormFacts
    <3>5. f.step = 0 => f.record = d
      BY <1>6, <1>8, <2>1, <3>4
    <3> QED
      BY <1>4, <2>2, <3>3, <3>5 DEF Agree
  <2>4. CASE w.step \notin models
    <3>1. DOMAIN forms'[p] = {}
      BY <1>1, <1>3, <2>4, MountFacts
    <3> QED
      BY <1>4, <2>2, <3>1 DEF Agree
  <2> QED
    BY <2>3, <2>4
<1>10. One(p, page[p])'
  BY <1>3, <1>9 DEF One, AllExist, Agree, Names
<1> QED
  BY <1>4, <1>10 DEF PageOne

LEMMA ClickPageOne ==
    ASSUME RecordInv, NEW p \in Page, Click(p), PageOne(p)
    PROVE  PageOne(p)'
<1>1. WizardTypeOK /\ RecordsStand
  BY StepFromRecordInv DEF RecordInv, WizardStep
<1>2. PICK c \in Call : c.name \in Buttons(page[p]) /\ calls'[p] = Append(calls[p], c)
  BY <1>1, ClickEffect
<1>3. UNCHANGED <<page, forms, completing>>
  BY <1>1, ClickEffect
<1>4. PICK s, t : s = calls[p] /\ t = calls'[p]
  OBVIOUS
<1>5. s \in Seq(Call) /\ t = Append(s, c) /\ c.name # "stepFormSaved"
  BY <1>1, <1>2, <1>4 DEF WizardTypeOK, Buttons
<1>6. \A j \in DOMAIN t : t[j] = c \/ (j \in DOMAIN s /\ t[j] = s[j])
  BY <1>5, AppendFacts
<1>7. NothingNew(p)
  BY <1>3, <1>4, <1>5, <1>6 DEF NothingNew
<1> QED
  BY <1>1, <1>3, <1>7, PageOneQuiet

LEMMA ToldSingle ==
    ASSUME RecordInv, NEW p \in Page, PageOne(p), NEW w, Told(p, w)
    PROVE  Single(w)
<1>1. PICK k \in 0..Steps : w = [Heard(p) EXCEPT !.step = k]
  BY DEF Told
<1>2. calls[p] # <<>>
  BY DEF Told
<1>3. PICK u \in Wizard : u = Heard(p) /\ page[p] # Closed
  BY <1>2, HeardKeeps
<1>4. One(p, u)
  BY <1>2, <1>3, OneHeard DEF PageOne
<1>5. w.created = u.created
  BY <1>1, <1>3, WizardFacts
<1> QED
  BY <1>4, <1>5 DEF One, Single, Agree, AllExist, Names

LEMMA SessionOneStays ==
    ASSUME RecordInv, RecordsStand, SessionOne, session' \in {session, Closed}
    PROVE  SessionOne'
<1> SUFFICES ASSUME session # Closed, session' = session
             PROVE  Single(session)'
  BY DEF SessionOne
<1>1. PICK w \in Wizard : w = session /\ Sound(w) /\ Single(w)
  BY DEF RecordInv, WizardTypeOK, SessionSound, SessionOne
<1>2. Single(w)'
  BY <1>1, SingleStays
<1> QED
  BY <1>1, <1>2 DEF Single, AllExist, Names

LEMMA ServeSessionOne ==
    ASSUME RecordInv, SessionOne, NEW p \in Page, PageOne(p), Serve(p)
    PROVE  SessionOne'
<1>1. RecordsStand /\ UNCHANGED record
  BY StepFromRecordInv DEF WizardStep, ServerStep, Serve, database
<1>2. CASE session' \in {session, Closed}
  BY <1>1, <1>2, SessionOneStays
<1>3. CASE Told(p, session')
  <2>1. PICK w : w = session'
    OBVIOUS
  <2>2. Single(w)
    BY <1>3, <2>1, ToldSingle
  <2> QED
    BY <1>1, <2>1, <2>2 DEF SessionOne, Single, AllExist, Names, Exists
<1> QED
  BY <1>2, <1>3, ServeDerives

LEMMA OpenSessionOne ==
    ASSUME RecordInv, SessionOne, NEW p \in Page, Open(p)
    PROVE  SessionOne'
<1>1. RecordsStand
  BY StepFromRecordInv DEF WizardStep
<1>2. CASE UNCHANGED session
  BY <1>1, <1>2, SessionOneStays
<1>3. ASSUME NEW w \in Wizard, NEW r \in Id, w = Resumed(r), session' = w
      PROVE  SessionOne'
  <2>1. DOMAIN w.created = {1} /\ w.created[1] = r
    BY <1>3, ResumedFacts
  <2> QED
    BY <1>3, <2>1 DEF SessionOne, Single, Names
<1> QED
  BY <1>2, <1>3, OpenEffect

LEMMA NextOneInv ==
    ASSUME OneInv, [WizardStep]_wizardVars
    PROVE  OneInv'
<1>1. RecordInv /\ RecordInv' /\ RecordsStand /\ WizardTypeOK /\ SessionOne
      /\ \A p \in Page : PageOne(p)
  BY NextRecordInv, StepFromRecordInv DEF OneInv
<1> SUFFICES SessionOne' /\ \A q \in Page : PageOne(q)'
  BY <1>1 DEF OneInv
<1>2. ASSUME NEW q \in Page, page'[q] = page[q], forms'[q] = forms[q], calls'[q] = calls[q],
             completing'[q] = completing[q]
      PROVE  PageOne(q)'
  <2>1. NothingNew(q)
    BY <1>2 DEF NothingNew
  <2> QED
    BY <1>1, <1>2, <2>1, PageOneQuiet
<1>3. ASSUME NEW p \in Page, OthersStand(p), PageOne(p)',
             \A q \in Page \ {p} : completing'[q] = completing[q]
      PROVE  \A q \in Page : PageOne(q)'
  BY <1>2, <1>3 DEF OthersStand
<1>4. CASE UNCHANGED <<page, forms, calls, completing, session>>
  BY <1>1, <1>2, <1>4, SessionOneStays
<1>5. ASSUME NEW p \in Page, Serve(p)
      PROVE  SessionOne' /\ \A q \in Page : PageOne(q)'
  <2>1. OthersStand(p) /\ \A q \in Page \ {p} : completing'[q] = completing[q]
    BY <1>1, <1>5, ServerMovesOne, ServeDerives DEF ServerStep
  <2> QED
    BY <1>1, <1>3, <1>5, <2>1, ServePageOne, ServeSessionOne
<1>6. ASSUME NEW p \in Page, CancelDelete(p)
      PROVE  SessionOne' /\ \A q \in Page : PageOne(q)'
  <2>1. OthersStand(p)
    BY <1>1, <1>6, ServerMovesOne DEF ServerStep
  <2>2. /\ calls[p] # <<>> /\ completing[p] = Idle /\ UNCHANGED completing
        /\ session' = Closed /\ Leave(p)
    BY <1>6 DEF CancelDelete
  <2>3. PageOne(p)'
    BY <1>1, <2>2, LeavePageOne
  <2> QED
    BY <1>1, <1>3, <2>1, <2>2, <2>3, SessionOneStays
<1>7. ASSUME NEW p \in Page, WritePending(p) \/ LookOn(p)
      PROVE  SessionOne' /\ \A q \in Page : PageOne(q)'
  <2>1. PICK at : /\ completing' = [completing EXCEPT ![p].at = at]
                  /\ UNCHANGED <<page, forms, calls, session>>
    BY <1>7 DEF WritePending, LookOn, MovesOn, browser
  <2>2. completing[p] # Idle
    BY <1>7, NotIdle DEF WritePending, LookOn, MovesOn
  <2>3. PICK c, d :
           /\ c \in [at : {"update", "look", "start"}, wizard : Wizard]
           /\ c = completing[p] /\ d = [c EXCEPT !.at = at]
    BY <1>1, <2>2, CompletingFacts
  <2>4. d.wizard = c.wizard /\ completing' = [completing EXCEPT ![p] = d]
    BY <2>1, <2>3
  <2>5. completing'[p] = d /\ \A q \in Page \ {p} : completing'[q] = completing[q]
    BY <1>1, <2>4 DEF WizardTypeOK
  <2>6. NothingNew(p) /\ OthersStand(p)
    BY <2>1 DEF NothingNew, OthersStand
  <2>7. PageOne(p)'
    BY <1>1, <2>1, <2>2, <2>3, <2>4, <2>5, <2>6, PageOneQuiet
  <2> QED
    BY <1>1, <1>3, <2>1, <2>5, <2>6, <2>7, SessionOneStays
<1>8. ASSUME NEW p \in Page, LookForWorkflow(p) \/ StartWorkflow(p)
      PROVE  SessionOne' /\ \A q \in Page : PageOne(q)'
  <2>1. completing[p] # Idle /\ UNCHANGED record /\ (CompletionEnds(p) \/ LookOn(p))
    BY <1>8, LookCases, NotIdle DEF StartWorkflow
  <2>2. CASE CompletionEnds(p)
    <3>1. OthersStand(p)
      BY <1>1, <1>8, ServerMovesOne DEF ServerStep
    <3>2. session' = Closed /\ \A q \in Page \ {p} : completing'[q] = completing[q]
      BY <1>1, <2>1, <2>2, EndDerives
    <3> QED
      BY <1>1, <1>3, <2>1, <2>2, <3>1, <3>2, EndPageOne, SessionOneStays
  <2> QED
    BY <1>7, <2>1, <2>2
<1>9. ASSUME NEW p \in Page, SaveForm(p)
      PROVE  SessionOne' /\ \A q \in Page : PageOne(q)'
  <2>1. OthersStand(p)
    BY <1>1, <1>9, ServerMovesOne DEF ServerStep
  <2>2. UNCHANGED <<session, completing>>
    BY <1>9 DEF SaveForm
  <2> QED
    BY <1>1, <1>3, <1>9, <2>1, <2>2, SavePageOne, SessionOneStays
<1>10. ASSUME NEW p \in Page, Open(p)
       PROVE  SessionOne' /\ \A q \in Page : PageOne(q)'
  <2>1. OthersStand(p) /\ UNCHANGED completing
    BY <1>1, <1>10, OpenEffect DEF OthersStand
  <2> QED
    BY <1>1, <1>3, <1>10, <2>1, OpenPageOne, OpenSessionOne
<1>11. ASSUME NEW p \in Page, Click(p)
       PROVE  SessionOne' /\ \A q \in Page : PageOne(q)'
  <2>1. OthersStand(p) /\ UNCHANGED <<completing, session>>
    BY <1>1, <1>11, ClickEffect DEF OthersStand
  <2> QED
    BY <1>1, <1>3, <1>11, <2>1, ClickPageOne, SessionOneStays
<1>12. ASSUME NEW p \in Page, Close(p)
       PROVE  SessionOne' /\ \A q \in Page : PageOne(q)'
  <2>1. completing[p] = Idle /\ UNCHANGED <<completing, session, faults>> /\ Gone(p)
    BY <1>12 DEF Close
  <2>2. page'[p] = Closed /\ OthersStand(p)
    BY <1>1, <2>1, GoneEffect
  <2>3. PageOne(p)'
    BY <2>1, <2>2 DEF PageOne
  <2> QED
    BY <1>1, <1>3, <2>1, <2>2, <2>3, SessionOneStays
<1>13. ASSUME NEW p \in Page, CompletionDies(p)
       PROVE  SessionOne' /\ \A q \in Page : PageOne(q)'
  <2>1. UNCHANGED <<page, forms, session>> /\ calls' = [calls EXCEPT ![p] = Tail(@)]
        /\ completing' = [completing EXCEPT ![p] = Idle] /\ calls[p] # <<>>
    BY <1>1, <1>13, CompletingFacts DEF CompletionDies
  <2>2. /\ calls'[p] = Tail(calls[p]) /\ completing'[p] = Idle
        /\ \A q \in Page \ {p} : calls'[q] = calls[q] /\ completing'[q] = completing[q]
    BY <1>1, <2>1 DEF WizardTypeOK
  <2>3. OthersStand(p) /\ NothingNew(p)
    BY <1>1, <2>1, <2>2, TailSays DEF OthersStand, NothingNew
  <2>4. PageOne(p)'
    BY <1>1, <2>1, <2>2, <2>3, PageOneQuiet
  <2> QED
    BY <1>1, <1>3, <2>1, <2>2, <2>3, <2>4, SessionOneStays
<1>14. CASE DeleteRow
  BY <1>4, <1>14 DEF DeleteRow, browser
<1> QED
  BY <1>4, <1>5, <1>6, <1>7, <1>8, <1>9, <1>10, <1>11, <1>12, <1>13, <1>14
  DEF WizardStep, ServerStep, wizardVars, browser

LEMMA InitOneInv ==
    ASSUME WizardInit
    PROVE  OneInv
BY InitRecordInv DEF WizardInit, OneInv, SessionOne, PageOne

LEMMA OneInvImplies ==
    ASSUME NewestInv, OneInv
    PROVE  OneLivePrimary
<1> SUFFICES ASSUME NEW p \in Page, page[p] # Closed,
                    NEW r \in ToSet(page[p].created), NEW s \in ToSet(page[p].created),
                    record[r].step = 0, record[s].step = 0, Exists(r), Exists(s),
                    ~impatient \/ \A x \in ToSet(page[p].created) : record[x].step = 0 => Exists(x)
             PROVE  r = s
  BY DEF OneLivePrimary
<1>1. PICK w \in Wizard : w = page[p]
  BY DEF OneInv, RecordInv, WizardTypeOK
<1>2. PICK i \in DOMAIN w.created, j \in DOMAIN w.created : w.created[i] = r /\ w.created[j] = s
  BY <1>1 DEF ToSet
<1>3. CASE ~impatient
  BY <1>1, <1>2, <1>3 DEF NewestInv, NewestFree, Newest
<1>4. CASE \A x \in ToSet(page[p].created) : record[x].step = 0 => Exists(x)
  <2>1. AllExist(w)
    BY <1>1, <1>4 DEF AllExist, ToSet
  <2>2. PICK x : Names(w, x)
    BY <1>1, <2>1 DEF OneInv, PageOne, One, Agree
  <2> QED
    BY <1>2, <2>2 DEF Names
<1> QED
  BY <1>3, <1>4

(***************************************************************************)
(* For every wizard, number of pages, clicks and faults: however often     *)
(* Save is clicked, answers are lost and pages reloaded, a wizard never    *)
(* holds two live records of its primary model, unless one was deleted     *)
(* elsewhere and the user does not wait.                                   *)
(***************************************************************************)
THEOREM OneLivePrimaryRecord == WizardSpec => []OneLivePrimary
<1>1. WizardInit => NewestInv /\ OneInv
  BY InitNewestInv, InitOneInv
<1>2. NewestInv /\ OneInv /\ [WizardStep]_wizardVars => (NewestInv /\ OneInv)'
  BY NextNewestInv, NextOneInv
<1>3. NewestInv /\ OneInv => OneLivePrimary
  BY OneInvImplies
<1> QED
  BY <1>1, <1>2, <1>3, PTL DEF WizardSpec

-----------------------------------------------------------------------------
(* The value generator *)

\* No value is given that the row has not reached, and a caller about to read
\* has itself moved the row past every value given before it asked.
GeneratorInv ==
    /\ GeneratorTypeOK
    /\ given <= current
    /\ \A c \in Caller :
          /\ before[c] <= given
          /\ caller[c] = "read" => before[c] < current
LEMMA InitGeneratorInv == GeneratorInit => GeneratorInv
BY GeneratorAssumption DEF GeneratorInit, GeneratorInv, GeneratorTypeOK

LEMMA NextGeneratorInv == GeneratorInv /\ [GeneratorStep]_generatorVars => GeneratorInv'
<1> SUFFICES ASSUME GeneratorInv, [GeneratorStep]_generatorVars PROVE GeneratorInv'
  OBVIOUS
<1> USE GeneratorAssumption DEF GeneratorInv, GeneratorTypeOK, GoTo
<1>1. CASE UNCHANGED generatorVars
  BY <1>1 DEF generatorVars
<1>2. ASSUME NEW c \in Caller, FindRow(c) PROVE GeneratorInv'
  <2>1. GeneratorTypeOK'
    BY <1>2 DEF FindRow
  <2>2. before'[c] = given /\ caller'[c] # "read" /\ UNCHANGED <<current, given>>
    BY <1>2 DEF FindRow
  <2>3. \A d \in Caller \ {c} : before'[d] = before[d] /\ caller'[d] = caller[d]
    BY <1>2 DEF FindRow
  <2> QED BY <2>1, <2>2, <2>3
<1>3. ASSUME NEW c \in Caller, InsertRow(c) PROVE GeneratorInv'
  <2>1. GeneratorTypeOK' /\ current' >= current /\ UNCHANGED <<given, before>>
    BY <1>3 DEF InsertRow
  <2>2. \A d \in Caller : caller'[d] = "read" => caller[d] = "read"
    BY <1>3 DEF InsertRow
  <2> QED BY <2>1, <2>2
<1>4. ASSUME NEW c \in Caller, UpdateRow(c) PROVE GeneratorInv'
  BY <1>4 DEF UpdateRow
<1>5. ASSUME NEW c \in Caller, ReadValue(c) PROVE GeneratorInv'
  <2>1. GeneratorTypeOK' /\ given' <= current /\ given' >= given
    BY <1>5 DEF ReadValue
  <2>2. \A d \in Caller : caller'[d] = "read" => caller[d] = "read"
    BY <1>5 DEF ReadValue
  <2> QED BY <1>5, <2>1, <2>2 DEF ReadValue
<1> QED BY <1>1, <1>2, <1>3, <1>4, <1>5 DEF GeneratorStep

(***************************************************************************)
(* Whoever overlaps with whom, every reachable state is well formed.       *)
(***************************************************************************)
THEOREM GeneratorTypes == GeneratorSpec => []GeneratorTypeOK
<1>1. GeneratorInv => GeneratorTypeOK
  BY DEF GeneratorInv
<1> QED BY InitGeneratorInv, NextGeneratorInv, <1>1, PTL DEF GeneratorSpec

\* Only reading gives a value, and what is read lies above what was known.
LEMMA StepIsLarger ==
    GeneratorInv /\ [GeneratorStep]_generatorVars =>
        [\A c \in Caller : value'[c] # value[c] => value'[c] > before[c]]_generatorVars
<1> SUFFICES ASSUME GeneratorInv, [GeneratorStep]_generatorVars,
                    NEW d \in Caller, value'[d] # value[d]
             PROVE  value'[d] > before[d]
  OBVIOUS
<1>1. PICK c \in Caller : ReadValue(c)
  BY DEF GeneratorStep, generatorVars, FindRow, InsertRow, UpdateRow
<1>2. c = d /\ value'[d] = current /\ caller[d] = "read"
  BY <1>1 DEF ReadValue, GeneratorInv, GeneratorTypeOK
<1> QED BY <1>2 DEF GeneratorInv, GeneratorTypeOK

(***************************************************************************)
(* Any number of callers: a value is larger than every one handed out      *)
(* before its caller asked.                                                *)
(***************************************************************************)
THEOREM LaterValuesAreLarger == GeneratorSpec => LaterIsLarger
<1> QED BY InitGeneratorInv, NextGeneratorInv, StepIsLarger, PTL DEF GeneratorSpec, LaterIsLarger

-----------------------------------------------------------------------------
(* The wizard and the generator *)

(***************************************************************************)
(* Each of the two runs as it does alone, the wizard with its fairness.    *)
(***************************************************************************)
THEOREM EachPartIsImplemented == Spec => WizardSpec /\ GeneratorSpec
<1>1. Init => WizardInit /\ GeneratorInit
  BY DEF Init
<1>2. [Next]_vars => [WizardStep]_wizardVars /\ [GeneratorStep]_generatorVars
  BY DEF Next, vars
<1> QED
  BY <1>1, <1>2, PTL DEF Spec, WizardSpec, GeneratorSpec

(***************************************************************************)
(* So what is proved of the wizard and of the generator holds of them      *)
(* together.                                                               *)
(***************************************************************************)
THEOREM RecordEntryKeepsPromises ==
    ASSUME FormsFirst
    PROVE  Spec => /\ []CompletionMeansSubmitted /\ []WorkflowMatchesRecord
                   /\ []NoStepSkipped /\ []OneLivePrimary /\ LaterIsLarger
BY EachPartIsImplemented, CompletionIsSubmission, WorkflowsMatchRecords, NoStepIsSkipped,
   OneLivePrimaryRecord, LaterValuesAreLarger, PTL
=============================================================================
