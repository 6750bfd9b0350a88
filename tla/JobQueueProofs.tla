--------------------------- MODULE JobQueueProofs ---------------------------
(* Type lemmas about JobQueue, for any job kinds and program counters. *)
EXTENDS JobQueue, TLAPS

\* A worker that is not idle holds a well-typed job: the form every handler
\* reads its job from.
LEMMA BusyJob ==
    ASSUME NEW Kind, NEW PC, QueueTypeOK(Kind, PC), NEW w \in Worker,
           running[w].pc # "idle"
    PROVE  /\ running[w] \in [pc : PC, job : [kind : Kind, n : Nat], next : Nat]
           /\ running[w].job \in [kind : Kind, n : Nat]
           /\ running[w].next \in Nat
BY DEF QueueTypeOK, Idle

\* Starting with one waiting job is well typed.
LEMMA QueueInitTypes ==
    ASSUME NEW Kind, NEW PC, NEW first \in [kind : Kind, n : Nat],
           MaxFaults \in Nat, QueueInit(first)
    PROVE  QueueTypeOK(Kind, PC)
BY DEF QueueTypeOK, QueueInit, Idle

\* Reserving a job keeps the queue well typed when every kind of job is also the
\* name of the step it starts at.
LEMMA ReserveTypes ==
    ASSUME NEW Kind, NEW PC, Kind \subseteq PC, QueueTypeOK(Kind, PC),
           NEW w \in Worker, Reserve(w)
    PROVE  QueueTypeOK(Kind, PC)'
<1>1. PICK j \in waiting :
          /\ waiting' = waiting \ {j}
          /\ reserved' = reserved \cup {j}
          /\ running' = [running EXCEPT ![w] = [pc |-> j.kind, job |-> j, next |-> 1]]
  BY DEF Reserve
<1>2. j \in [kind : Kind, n : Nat] /\ j.kind \in PC
  BY DEF QueueTypeOK
<1>3. [pc |-> j.kind, job |-> j, next |-> 1]
          \in [pc : PC, job : [kind : Kind, n : Nat], next : Nat]
  BY <1>2
<1> QED BY <1>1, <1>2, <1>3 DEF QueueTypeOK, Reserve

\* So does going on to another step,
LEMMA GoToTypes ==
    ASSUME NEW Kind, NEW PC, QueueTypeOK(Kind, PC), NEW w \in Worker,
           running[w].pc # "idle", NEW pc \in PC, NEW next \in Nat,
           GoTo(w, pc, next), NEW new \in SUBSET [kind : Kind, n : Nat],
           waiting' = waiting \cup new, UNCHANGED <<reserved, faults>>
    PROVE  QueueTypeOK(Kind, PC)'
<1>1. running[w] \in [pc : PC, job : [kind : Kind, n : Nat], next : Nat]
  BY BusyJob
<1>2. [running[w] EXCEPT !.pc = pc, !.next = next]
          \in [pc : PC, job : [kind : Kind, n : Nat], next : Nat]
  BY <1>1
<1>3. running' = [running EXCEPT ![w] = [running[w] EXCEPT !.pc = pc, !.next = next]]
  BY <1>1 DEF GoTo, QueueTypeOK
<1> QED BY <1>2, <1>3 DEF QueueTypeOK

LEMMA ContinueTypes ==
    ASSUME NEW Kind, NEW PC, QueueTypeOK(Kind, PC), NEW w \in Worker,
           running[w].pc # "idle", NEW pc \in PC, Continue(w, pc)
    PROVE  QueueTypeOK(Kind, PC)'
<1>1. PICK next \in Nat : next = running[w].next
  BY BusyJob
<1>2. GoTo(w, pc, next)
  BY <1>1 DEF Continue, GoTo
<1>3. {} \in SUBSET [kind : Kind, n : Nat]
  OBVIOUS
<1>4. waiting' = waiting \cup {} /\ UNCHANGED <<reserved, faults>>
  BY DEF Continue
<1> QED BY ONLY QueueTypeOK(Kind, PC), running[w].pc # "idle", w \in Worker, pc \in PC,
                <1>1, <1>2, <1>3, <1>4, GoToTypes

\* and returning, whatever well-typed jobs are pushed.
LEMMA ReturnTypes ==
    ASSUME NEW Kind, NEW PC, QueueTypeOK(Kind, PC), NEW w \in Worker,
           NEW new \in SUBSET [kind : Kind, n : Nat], Return(w, new)
    PROVE  QueueTypeOK(Kind, PC)'
BY DEF QueueTypeOK, Return, Idle

\* Whatever goes wrong, the queue stays well typed.
LEMMA FaultTypes ==
    ASSUME NEW Kind, NEW PC, QueueTypeOK(Kind, PC), MaxFaults \in Nat,
           \/ \E w \in Worker : Throw(w) \/ Kill(w)
           \/ FailAbandoned
           \/ FailOverrun
    PROVE  QueueTypeOK(Kind, PC)'
<1>1. ASSUME NEW w \in Worker, Throw(w) PROVE QueueTypeOK(Kind, PC)'
  BY <1>1 DEF QueueTypeOK, Throw, Idle
<1>2. ASSUME NEW w \in Worker, Kill(w) PROVE QueueTypeOK(Kind, PC)'
  BY <1>2 DEF QueueTypeOK, Kill, Idle
<1>3. CASE FailAbandoned
  BY <1>3 DEF QueueTypeOK, FailAbandoned
<1>4. CASE FailOverrun
  BY <1>4 DEF QueueTypeOK, FailOverrun
<1> QED BY <1>1, <1>2, <1>3, <1>4
=============================================================================
