------------------------------ MODULE JobQueue ------------------------------
(***************************************************************************)
(* The queue the background jobs of src/Jobs run on, as those jobs use it: *)
(* every one of them is ShouldQueue with tries = 1, and the connection is  *)
(* the consuming application's (ui-library.features.queue_connection).     *)
(* The queue is Laravel's, so this module is external to the library.      *)
(*                                                                         *)
(* A worker reserves a waiting job, runs it and removes it.  A worker that *)
(* is killed leaves its job reserved; once retry_after has passed the      *)
(* queue hands the job out again, and, tries being 1, calls its failed()   *)
(* instead of its handle().  retry_after may also pass while the job is    *)
(* still running (its default is shorter than the jobs' timeouts): then    *)
(* failed() runs and the first attempt goes on.                            *)
(***************************************************************************)
EXTENDS Naturals, FiniteSets

CONSTANTS
    Worker,
    MaxFaults     \* bound: kills, overruns and exceptions

ASSUME QueueAssumption == MaxFaults \in Nat

VARIABLES
    waiting,      \* jobs pushed and not yet reserved
    reserved,     \* jobs reserved and not yet removed
    running,      \* what each worker is in the middle of
    faults

queue == <<waiting, reserved, running, faults>>

Idle == [pc |-> "idle"]
Busy(w) == running[w] # Idle
Job(kind, n) == [kind |-> kind, n |-> n]

QueueTypeOK(Kind, PC) ==
    LET Jobs == [kind : Kind, n : Nat]
    IN  /\ waiting \subseteq Jobs
        /\ reserved \subseteq Jobs
        /\ running \in [Worker -> {Idle} \cup [pc : PC, job : Jobs, next : Nat]]
        /\ faults \in 0..MaxFaults

QueueInit(first) ==
    /\ waiting = {first}
    /\ reserved = {}
    /\ running = [w \in Worker |-> Idle]
    /\ faults = 0

\* A free worker reserves a job and is about to call its handle().
Reserve(w) ==
    /\ running[w] = Idle
    /\ \E j \in waiting :
          /\ waiting' = waiting \ {j}
          /\ reserved' = reserved \cup {j}
          /\ running' = [running EXCEPT ![w] = [pc |-> j.kind, job |-> j, next |-> 1]]
    /\ UNCHANGED faults

At(w, pc) == running[w].pc = pc

\* handle() goes on to its next step, or returns, pushing the jobs in new.
GoTo(w, pc, next) ==
    running' = [running EXCEPT ![w].pc = pc, ![w].next = next]

Continue(w, pc) ==
    /\ GoTo(w, pc, running[w].next)
    /\ UNCHANGED <<waiting, reserved, faults>>

Return(w, new) ==
    /\ waiting' = waiting \cup new
    /\ reserved' = reserved \ {running[w].job}
    /\ running' = [running EXCEPT ![w] = Idle]
    /\ UNCHANGED faults

\* handle() throws: the queue removes the job and calls its failed().
Throw(w) ==
    /\ Busy(w)
    /\ faults < MaxFaults
    /\ faults' = faults + 1
    /\ reserved' = reserved \ {running[w].job}
    /\ running' = [running EXCEPT ![w] = Idle]
    /\ UNCHANGED waiting

\* The worker is killed in the middle of handle().
Kill(w) ==
    /\ Busy(w)
    /\ faults < MaxFaults
    /\ faults' = faults + 1
    /\ running' = [running EXCEPT ![w] = Idle]
    /\ UNCHANGED <<waiting, reserved>>

\* A reserved job nobody runs any more is handed out again: failed() runs.
Abandoned == reserved \ {running[w].job : w \in {v \in Worker : Busy(v)}}

FailAbandoned ==
    /\ \E j \in Abandoned : reserved' = reserved \ {j}
    /\ UNCHANGED <<waiting, running, faults>>

\* So is one whose worker is only slow.
FailOverrun ==
    /\ faults < MaxFaults
    /\ faults' = faults + 1
    /\ \E j \in reserved \ Abandoned : reserved' = reserved \ {j}
    /\ UNCHANGED <<waiting, running>>
=============================================================================
