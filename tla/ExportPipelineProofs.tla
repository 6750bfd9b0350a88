------------------------ MODULE ExportPipelineProofs ------------------------
(***************************************************************************)
(* ExportPipeline for every number of workers, chunks, faults and changes  *)
(* of the exported table: type correctness, that no job restarts an export *)
(* that has ended, that an export is finalized with all of its parts, and  *)
(* that a sole finalizer leaves a complete archive.                        *)
(***************************************************************************)
EXTENDS ExportPipeline, JobQueueProofs, FiniteSetTheorems

Kind == {"generate", "chunk", "finalize"}
Jobs == [kind : Kind, n : Nat]

Generating(w) == running[w].pc \in {"generate", "count", "dispatch"}
Chunking(w) == running[w].pc \in {"chunk", "write", "check"}

\* GenerateExport has not set total_chunks yet.
Uncounted ==
    \/ \E j \in waiting : j.kind = "generate"
    \/ \E w \in Worker : running[w].pc \in {"generate", "count"}

\* One GenerateExport at most is waiting or running, and has dispatched nothing
\* before it counts;
OneGenerator ==
    /\ \A v, w \in Worker : Generating(v) /\ Generating(w) => v = w
    /\ \A j \in waiting : j.kind = "generate" =>
          j = Job("generate", 0) /\ \A w \in Worker : ~Generating(w)
    /\ \A w \in Worker : running[w].pc \in {"generate", "count"} => running[w].next = 1

\* there is no chunk before it has counted,
ChunksAfterCount ==
    Uncounted =>
        /\ parts = {}
        /\ status # "finalizing"
        /\ \A j \in waiting : j.kind # "chunk"
        /\ \A w \in Worker : ~Chunking(w)

\* and every chunk after that has a number within the count.
ChunksInRange ==
    /\ parts \subseteq 1..total
    /\ \A j \in waiting : j.kind = "chunk" => j.n \in 1..total
    /\ \A w \in Worker :
          /\ Chunking(w) => running[w].job.n \in 1..total
          /\ running[w].pc = "dispatch" => running[w].next \in 1..total

\* Parts are deleted once the outcome of the export is written.
CleanedAfterwards ==
    \A w \in Worker : running[w].pc = "clean" => status \in Settled

IInv ==
    /\ TypeOK
    /\ OneGenerator
    /\ ChunksAfterCount
    /\ ChunksInRange
    /\ CleanedAfterwards
    /\ FinalizingHasAllParts

others == <<status, total, parts, archive, finalizers, env>>
-----------------------------------------------------------------------------
(* What the queue operators do to the running workers. *)

LEMMA KindsStart == Kind \subseteq PC
BY DEF Kind, PC

LEMMA ContinueEffect ==
    ASSUME TypeOK, NEW w \in Worker, running[w].pc # "idle",
           NEW pc \in PC, Continue(w, pc)
    PROVE  /\ QueueTypeOK(Kind, PC)'
           /\ running'[w].pc = pc
           /\ running'[w].job = running[w].job
           /\ running'[w].next = running[w].next
           /\ \A v \in Worker \ {w} : running'[v] = running[v]
           /\ waiting' = waiting
<1>1. QueueTypeOK(Kind, PC)
  BY DEF TypeOK, Kind
<1>2. QueueTypeOK(Kind, PC)'
  BY <1>1, ContinueTypes
<1>3. running[w] \in [pc : PC, job : Jobs, next : Nat] /\ running \in [Worker -> {Idle} \cup [pc : PC, job : Jobs, next : Nat]]
  BY <1>1, BusyJob DEF Jobs, QueueTypeOK
<1> QED BY <1>2, <1>3 DEF Continue, GoTo

LEMMA ReturnEffect ==
    ASSUME TypeOK, NEW w \in Worker, NEW new \in SUBSET Jobs, Return(w, new)
    PROVE  /\ QueueTypeOK(Kind, PC)'
           /\ running'[w].pc = "idle"
           /\ \A v \in Worker \ {w} : running'[v] = running[v]
           /\ waiting' = waiting \cup new
<1>1. QueueTypeOK(Kind, PC)
  BY DEF TypeOK, Kind
<1>2. QueueTypeOK(Kind, PC)'
  BY <1>1, ReturnTypes DEF Jobs
<1>3. running \in [Worker -> {Idle} \cup [pc : PC, job : Jobs, next : Nat]]
  BY <1>1 DEF Jobs, QueueTypeOK
<1> QED BY <1>2, <1>3 DEF Return, Idle

\* Faults only make workers idle and pull jobs out of the queue's hands.
LEMMA FaultEffect ==
    ASSUME TypeOK,
           (\E w \in Worker : Throw(w) \/ Kill(w)) \/ FailAbandoned \/ FailOverrun
    PROVE  /\ QueueTypeOK(Kind, PC)'
           /\ \A v \in Worker : running'[v] = running[v] \/ running'[v].pc = "idle"
           /\ waiting' = waiting
<1>1. QueueTypeOK(Kind, PC)
  BY DEF TypeOK, Kind
<1>2. QueueTypeOK(Kind, PC)'
  BY <1>1, FaultTypes, QueueAssumption
<1>3. running \in [Worker -> {Idle} \cup [pc : PC, job : Jobs, next : Nat]]
  BY <1>1 DEF Jobs, QueueTypeOK
<1> QED BY <1>2, <1>3 DEF Throw, Kill, FailAbandoned, FailOverrun, Idle
-----------------------------------------------------------------------------
(* The invariant. *)

LEMMA InitIInv == Init => IInv
<1> SUFFICES ASSUME Init PROVE IInv
  OBVIOUS
<1>1. Job("generate", 0) \in Jobs
  BY DEF Jobs, Kind, Job
<1>2. QueueTypeOK(Kind, PC)
  BY <1>1, QueueInitTypes, QueueAssumption DEF Init, Jobs
<1>3. waiting = {Job("generate", 0)} /\ \A w \in Worker : running[w].pc = "idle"
  BY DEF Init, QueueInit, Idle
<1>4. TypeOK
  BY <1>2, ExportAssumption DEF TypeOK, Init, Kind, InProgress
<1> QED BY <1>3, <1>4 DEF IInv, Init, OneGenerator, ChunksAfterCount, ChunksInRange,
        CleanedAfterwards, FinalizingHasAllParts, Generating, Chunking, Job

\* The user and the application leave the queue alone.
LEMMA UserIInv ==
    ASSUME IInv, CancelChecked \/ CancelWritten \/ Clear \/ ChangeRows
    PROVE  IInv'
<1> USE DEF IInv, queue, env
<1>1. QueueTypeOK(Kind, PC)' /\ UNCHANGED <<waiting, running>>
  BY DEF TypeOK, Kind, QueueTypeOK, CancelChecked, CancelWritten, Clear, ChangeRows
<1>2. TypeOK'
  <2>1. /\ status' \in InProgress \cup Settled
        /\ parts' \subseteq parts /\ archive' \subseteq archive
        /\ UNCHANGED <<total, finalizers>>
    BY DEF TypeOK, CancelChecked, CancelWritten, Clear, ChangeRows, SetStatus, Settled
  <2>2. /\ cancelling' \in {"no", "checked", "done"}
        /\ slices' \in 0..MaxChunks
        /\ rowChanges' \in 0..MaxRowChanges
    BY ExportAssumption DEF TypeOK, CancelChecked, CancelWritten, Clear, ChangeRows
  <2> QED BY <1>1, <2>1, <2>2 DEF TypeOK, Kind
<1>3. OneGenerator'
  BY <1>1 DEF OneGenerator, Generating
<1>4. (Uncounted' <=> Uncounted) /\ \A w \in Worker : Chunking(w)' <=> Chunking(w)
  BY <1>1 DEF Uncounted, Chunking
<1>5. /\ total' = total /\ parts' \subseteq parts
      /\ parts' = parts \/ status' = "deleted"
      /\ status' = "finalizing" => status = "finalizing"
      /\ status \in Settled => status' \in Settled
  BY DEF CancelChecked, CancelWritten, Clear, ChangeRows, SetStatus, Settled
<1>6. ChunksAfterCount'
  BY <1>1, <1>4, <1>5 DEF ChunksAfterCount
<1>7. ChunksInRange'
  BY <1>1, <1>4, <1>5 DEF ChunksInRange
<1>8. CleanedAfterwards' /\ FinalizingHasAllParts'
  BY <1>1, <1>5 DEF CleanedAfterwards, FinalizingHasAllParts
<1> QED BY <1>2, <1>3, <1>6, <1>7, <1>8

\* Faults leave the parts alone and only fail the export.
LEMMA FaultIInv ==
    ASSUME IInv,
           \/ \E w \in Worker : JobFails(w) \/ WorkerDies(w)
           \/ AbandonedJobFails \/ SlowJobFails
    PROVE  IInv'
<1> USE DEF IInv, env
<1>1. /\ UNCHANGED <<total, parts, archive, finalizers, env>>
      /\ status' = status \/ (status' = "failed" /\ status # "deleted")
      /\ (\E w \in Worker : Throw(w) \/ Kill(w)) \/ FailAbandoned \/ FailOverrun
  BY DEF JobFails, WorkerDies, AbandonedJobFails, SlowJobFails, SetStatus
<1>2. /\ QueueTypeOK(Kind, PC)'
      /\ \A v \in Worker : running'[v] = running[v] \/ running'[v].pc = "idle"
      /\ waiting' = waiting
  BY <1>1, FaultEffect
<1>3. TypeOK'
  BY <1>1, <1>2 DEF TypeOK, Kind, Settled
<1>4. OneGenerator'
  BY <1>2 DEF OneGenerator, Generating
<1>5. (Uncounted' => Uncounted) /\ \A w \in Worker : Chunking(w)' => Chunking(w)
  BY <1>2 DEF Uncounted, Chunking
<1>6. ChunksAfterCount'
  BY <1>1, <1>2, <1>5 DEF ChunksAfterCount
<1>7. ChunksInRange'
  BY <1>1, <1>2, <1>5 DEF ChunksInRange, Chunking
<1>8. CleanedAfterwards' /\ FinalizingHasAllParts'
  BY <1>1, <1>2 DEF CleanedAfterwards, FinalizingHasAllParts, Settled
<1> QED BY <1>3, <1>4, <1>6, <1>7, <1>8

LEMMA TakeJobIInv ==
    ASSUME IInv, NEW w \in Worker, TakeJob(w)
    PROVE  IInv'
<1> USE DEF IInv, env
<1>1. QueueTypeOK(Kind, PC)
  BY DEF TypeOK, Kind
<1>2. QueueTypeOK(Kind, PC)'
  BY <1>1, ReserveTypes, KindsStart DEF TakeJob
<1>3. PICK j \in waiting :
         /\ waiting' = waiting \ {j}
         /\ running[w] = Idle
         /\ running' = [running EXCEPT ![w] = [pc |-> j.kind, job |-> j, next |-> 1]]
  BY DEF TakeJob, Reserve
<1>4. /\ j \in Jobs
      /\ running'[w] = [pc |-> j.kind, job |-> j, next |-> 1]
      /\ \A v \in Worker \ {w} : running'[v] = running[v]
  BY <1>1, <1>3 DEF QueueTypeOK, Jobs
<1>5. UNCHANGED others
  BY DEF TakeJob, others
<1> HIDE DEF IInv
<1>6. TypeOK'
  BY <1>2, <1>5 DEF TypeOK, Kind, others, IInv
<1>7. OneGenerator'
  BY <1>3, <1>4 DEF OneGenerator, Generating, Jobs, Kind, IInv
<1>8. (Uncounted' => Uncounted) /\ \A v \in Worker \ {w} : Chunking(v)' <=> Chunking(v)
  BY <1>3, <1>4 DEF Uncounted, Chunking, Jobs, Kind
<1>9. Chunking(w)' => j.kind = "chunk"
  BY <1>4 DEF Chunking, Jobs, Kind
<1>10. ChunksAfterCount'
  BY <1>3, <1>5, <1>8, <1>9 DEF ChunksAfterCount, others, IInv
<1>11. ChunksInRange'
  BY <1>3, <1>4, <1>5, <1>8, <1>9 DEF ChunksInRange, Jobs, Kind, others, IInv
<1>12. CleanedAfterwards' /\ FinalizingHasAllParts'
  BY <1>4, <1>5 DEF CleanedAfterwards, FinalizingHasAllParts, Jobs, Kind, others, IInv
<1> QED BY <1>6, <1>7, <1>10, <1>11, <1>12 DEF IInv

\* A step of one worker that counts nothing and pushes no chunk keeps the chunks
\* in range: the part of the invariant most handlers cannot disturb.
LEMMA ChunksKept ==
    ASSUME IInv, NEW w \in Worker,
           \A v \in Worker \ {w} : running'[v] = running[v],
           \A j \in waiting' \ waiting : j.kind = "finalize",
           Generating(w)' => Generating(w) /\ running[w].pc # "dispatch",
           running'[w].pc \in {"generate", "count"} =>
               running[w].pc \in {"generate", "count"} /\ running'[w].next = running[w].next,
           running'[w].pc # "dispatch",
           Chunking(w)' => Chunking(w) /\ running'[w].job = running[w].job,
           total' = total,
           parts' \subseteq 1..total,
           Uncounted => parts' = {} /\ status' # "finalizing"
    PROVE  OneGenerator' /\ ChunksAfterCount' /\ ChunksInRange'
<1>1. OneGenerator'
  BY DEF OneGenerator, Generating, IInv
<1>2. Uncounted' => Uncounted
  BY DEF Uncounted
<1>3. ChunksAfterCount'
  BY <1>2 DEF ChunksAfterCount, Chunking, IInv
<1>4. ChunksInRange'
  BY DEF ChunksInRange, Chunking, IInv
<1> QED BY <1>1, <1>3, <1>4

\* Returning, perhaps after failing the export, keeps the invariant;
LEMMA ReturnIInv ==
    ASSUME IInv, NEW w \in Worker, Return(w, {}), status' \in {status, "failed"},
           UNCHANGED <<total, parts, archive, finalizers, env>>
    PROVE  IInv'
<1>1. TypeOK
  BY DEF IInv
<1>2. /\ QueueTypeOK(Kind, PC)' /\ running'[w].pc = "idle" /\ waiting' = waiting \cup {}
      /\ \A v \in Worker \ {w} : running'[v] = running[v]
  BY <1>1, ReturnEffect
<1>3. OneGenerator' /\ ChunksAfterCount' /\ ChunksInRange'
  BY <1>2, ChunksKept DEF Generating, Chunking, ChunksInRange, ChunksAfterCount, IInv
<1>4. TypeOK'
  BY <1>1, <1>2 DEF TypeOK, Kind, Settled, env
<1>5. CleanedAfterwards' /\ FinalizingHasAllParts'
  BY <1>2 DEF CleanedAfterwards, FinalizingHasAllParts, Settled, IInv
<1> QED BY <1>3, <1>4, <1>5 DEF IInv

\* and so does going on with a chunk or with the finalizer.
LEMMA ContinueIInv ==
    ASSUME IInv, NEW w \in Worker, running[w].pc # "idle",
           NEW pc \in {"write", "check", "build", "complete", "clean"}, Continue(w, pc),
           pc \in {"write", "check"} => Chunking(w),
           UNCHANGED <<total, finalizers, env>>,
           parts' \subseteq 1..total, archive' \subseteq 1..MaxChunks,
           status' \in {status, "completed"},
           Uncounted => parts' = {},
           pc = "clean" => status' \in Settled,
           status' = "finalizing" => parts' = 1..total
    PROVE  IInv'
<1>1. TypeOK /\ pc \in PC
  BY DEF IInv, PC
<1>2. /\ QueueTypeOK(Kind, PC)' /\ running'[w].pc = pc /\ waiting' = waiting
      /\ running'[w].job = running[w].job
      /\ \A v \in Worker \ {w} : running'[v] = running[v]
  BY <1>1, ContinueEffect
<1>3. OneGenerator' /\ ChunksAfterCount' /\ ChunksInRange'
  BY <1>2, ChunksKept DEF Generating, Chunking, ChunksAfterCount, IInv
<1>4. parts' \subseteq 1..MaxChunks
  BY <1>1, ExportAssumption DEF TypeOK
<1>5. TypeOK'
  BY <1>1, <1>2, <1>4 DEF TypeOK, Kind, Settled, env
<1>6. CleanedAfterwards' /\ FinalizingHasAllParts'
  BY <1>2 DEF CleanedAfterwards, FinalizingHasAllParts, Settled, IInv
<1> QED BY <1>3, <1>5, <1>6 DEF IInv

(* GenerateExport *)

LEMMA ClaimExportIInv ==
    ASSUME IInv, NEW w \in Worker, ClaimExport(w)
    PROVE  IInv'
<1>1. TypeOK /\ running[w].pc = "generate"
  BY DEF IInv, ClaimExport, At
<1>2. UNCHANGED <<total, parts, archive, finalizers, env>>
  BY DEF ClaimExport
<1>3. CASE status = "pending"
  <2>1. status' = "processing" /\ Continue(w, "count")
    BY <1>3 DEF ClaimExport
  <2>2. /\ QueueTypeOK(Kind, PC)' /\ running'[w].pc = "count" /\ waiting' = waiting
        /\ running'[w].next = running[w].next
        /\ \A v \in Worker \ {w} : running'[v] = running[v]
    BY <1>1, <2>1, ContinueEffect DEF PC
  <2>3. OneGenerator' /\ ChunksAfterCount' /\ ChunksInRange'
    BY <1>1, <1>2, <2>1, <2>2, ChunksKept DEF Generating, Chunking, ChunksInRange,
       ChunksAfterCount, IInv
  <2>4. TypeOK'
    BY <1>1, <1>2, <2>1, <2>2 DEF TypeOK, Kind, InProgress, env
  <2>5. CleanedAfterwards' /\ FinalizingHasAllParts'
    BY <1>3, <2>1, <2>2 DEF CleanedAfterwards, FinalizingHasAllParts, Settled, IInv
  <2> QED BY <2>3, <2>4, <2>5 DEF IInv
<1>4. CASE status # "pending"
  BY <1>2, <1>4, ReturnIInv DEF ClaimExport
<1> QED BY <1>3, <1>4

LEMMA CountRowsIInv ==
    ASSUME IInv, NEW w \in Worker, CountRows(w)
    PROVE  IInv'
<1>1. TypeOK /\ running[w].pc = "count"
  BY DEF IInv, CountRows, At
<1>2. UNCHANGED <<parts, archive, finalizers, env>>
  BY DEF CountRows
<1>3. CASE slices = 0
  BY <1>2, <1>3, ReturnIInv DEF CountRows, SetStatus
<1>4. CASE slices # 0
  <2>1. total' = slices /\ Continue(w, "dispatch") /\ UNCHANGED status
    BY <1>4 DEF CountRows
  <2>2. /\ QueueTypeOK(Kind, PC)' /\ running'[w].pc = "dispatch" /\ waiting' = waiting
        /\ running'[w].next = running[w].next
        /\ \A v \in Worker \ {w} : running'[v] = running[v]
    BY <1>1, <2>1, ContinueEffect DEF PC
  <2>3. /\ Uncounted /\ parts = {} /\ status # "finalizing"
        /\ \A j \in waiting : j.kind # "chunk"
        /\ \A v \in Worker : ~Chunking(v)
    BY <1>1 DEF Uncounted, ChunksAfterCount, IInv
  <2>4. OneGenerator'
    BY <1>1, <2>2 DEF OneGenerator, Generating, IInv
  <2>5. ~Uncounted'
    BY <1>1, <2>2, <2>4 DEF Uncounted, OneGenerator, Generating, IInv
  <2>6. \A v \in Worker \ {w} : running'[v].pc # "dispatch"
    BY <2>2, <2>4 DEF OneGenerator, Generating
  <2>7. running[w].next \in 1..slices
    BY <1>1, <1>4 DEF OneGenerator, TypeOK, IInv
  <2>8. ChunksInRange'
    BY <1>2, <2>1, <2>2, <2>3, <2>6, <2>7 DEF ChunksInRange, Chunking
  <2>9. TypeOK'
    BY <1>1, <1>2, <2>1, <2>2 DEF TypeOK, Kind, env
  <2>10. CleanedAfterwards' /\ FinalizingHasAllParts'
    BY <2>1, <2>2, <2>3 DEF CleanedAfterwards, FinalizingHasAllParts, IInv
  <2> QED BY <2>4, <2>5, <2>8, <2>9, <2>10 DEF IInv, ChunksAfterCount
<1> QED BY <1>3, <1>4

LEMMA DispatchChunkIInv ==
    ASSUME IInv, NEW w \in Worker, DispatchChunk(w)
    PROVE  IInv'
<1>1. /\ TypeOK /\ QueueTypeOK(Kind, PC) /\ running[w].pc = "dispatch"
      /\ running[w].next \in 1..total /\ total \in Nat
  BY ExportAssumption DEF IInv, DispatchChunk, At, ChunksInRange, TypeOK, Kind
<1>2. UNCHANGED others
  BY DEF DispatchChunk, others
<1>3. PICK i \in 1..total : i = running[w].next
  BY <1>1
<1>4. Job("chunk", i) \in Jobs
  BY <1>1 DEF Jobs, Kind, Job
<1>5. ~Uncounted
  BY <1>1 DEF Uncounted, OneGenerator, Generating, IInv
<1>6. /\ QueueTypeOK(Kind, PC)' /\ waiting' = waiting \cup {Job("chunk", i)}
      /\ \A v \in Worker \ {w} : running'[v] = running[v]
      /\ \/ running'[w].pc = "idle"
         \/ running'[w].pc = "dispatch" /\ running'[w].next \in 1..total
  <2>1. CASE i = total
    <3>1. Return(w, {Job("chunk", i)})
      BY <1>3, <2>1 DEF DispatchChunk
    <3> QED BY <1>1, <1>4, <3>1, ReturnEffect
  <2>2. CASE i # total
    <3>1. /\ waiting' = waiting \cup {Job("chunk", i)}
          /\ GoTo(w, "dispatch", i + 1)
          /\ UNCHANGED <<reserved, faults>>
      BY <1>3, <2>2 DEF DispatchChunk
    <3>2. i + 1 \in 1..total /\ i + 1 \in Nat /\ "dispatch" \in PC
      BY <1>1, <2>2 DEF PC
    <3>3. QueueTypeOK(Kind, PC)'
      BY ONLY <1>1, <1>4, <3>1, <3>2, GoToTypes, w \in Worker DEF Jobs
    <3>4. /\ running[w] \in [pc : PC, job : Jobs, next : Nat]
          /\ running \in [Worker -> {Idle} \cup [pc : PC, job : Jobs, next : Nat]]
      BY <1>1, BusyJob DEF Jobs, QueueTypeOK
    <3> QED BY <3>1, <3>2, <3>3, <3>4 DEF GoTo
  <2> QED BY <2>1, <2>2
<1>7. OneGenerator'
  BY <1>1, <1>6 DEF OneGenerator, Generating, Job, IInv
<1>8. ~Uncounted'
  BY <1>5, <1>6 DEF Uncounted, Job
<1>9. ChunksInRange'
  BY <1>2, <1>6 DEF ChunksInRange, Chunking, Job, others, IInv
<1>10. TypeOK'
  BY <1>1, <1>2, <1>6 DEF TypeOK, Kind, others, env
<1>11. CleanedAfterwards' /\ FinalizingHasAllParts'
  BY <1>2, <1>6 DEF CleanedAfterwards, FinalizingHasAllParts, others, IInv
<1> QED BY <1>7, <1>8, <1>9, <1>10, <1>11 DEF IInv, ChunksAfterCount

(* ExportChunk *)

LEMMA LoadExportIInv ==
    ASSUME IInv, NEW w \in Worker, LoadExport(w)
    PROVE  IInv'
<1>1. running[w].pc = "chunk" /\ UNCHANGED <<status, total, parts, archive, finalizers, env>>
  BY DEF LoadExport, At
<1>2. CASE Return(w, {})
  BY <1>1, <1>2, ReturnIInv
<1>3. CASE Continue(w, "write")
  BY <1>1, <1>3, ContinueIInv DEF IInv, TypeOK, Chunking, ChunksInRange, ChunksAfterCount,
     FinalizingHasAllParts
<1> QED BY <1>2, <1>3 DEF LoadExport

LEMMA WritePartIInv ==
    ASSUME IInv, NEW w \in Worker, WritePart(w)
    PROVE  IInv'
<1>1. running[w].pc = "write" /\ UNCHANGED <<status, total, archive, finalizers, env>>
  BY DEF WritePart, At
<1>2. CASE Return(w, {}) /\ UNCHANGED parts
  BY <1>1, <1>2, ReturnIInv
<1>3. CASE parts' = parts \cup {running[w].job.n} /\ Continue(w, "check")
  <2>1. Chunking(w) /\ ~Uncounted /\ running[w].job.n \in 1..total
    BY <1>1 DEF Chunking, ChunksAfterCount, ChunksInRange, IInv
  <2>2. parts' \subseteq 1..total /\ (status' = "finalizing" => parts' = 1..total)
    BY <1>1, <1>3, <2>1 DEF IInv, ChunksInRange, FinalizingHasAllParts
  <2> QED BY <1>1, <1>3, <2>1, <2>2, ContinueIInv DEF IInv, TypeOK
<1> QED BY <1>2, <1>3 DEF WritePart

\* As many parts as chunks, within the count, are all the parts.
LEMMA EnoughIsAll ==
    ASSUME total \in Nat, parts \subseteq 1..total, AllPartsWritten
    PROVE  parts = 1..total
<1>1. IsFiniteSet(1..total) /\ Cardinality(1..total) = total
  BY FS_Interval
<1>2. IsFiniteSet(parts) /\ Cardinality(parts) \in Nat
  BY <1>1, FS_Subset, FS_CardinalityType
<1>3. Cardinality(parts) <= total /\ (Cardinality(parts) = total => parts = 1..total)
  BY <1>1, FS_Subset
<1> QED BY <1>2, <1>3 DEF AllPartsWritten

LEMMA CheckAndFinalizeIInv ==
    ASSUME IInv, NEW w \in Worker, CheckAndFinalize(w)
    PROVE  IInv'
<1>1. running[w].pc = "check" /\ UNCHANGED <<total, parts, archive, env>>
  BY DEF CheckAndFinalize, At
<1>2. CASE Return(w, {}) /\ UNCHANGED <<status, finalizers>>
  BY <1>1, <1>2, ReturnIInv
<1>3. CASE /\ status \notin Settled /\ AllPartsWritten /\ status' = "finalizing"
           /\ finalizers' = finalizers \cup {running[w].job.n}
           /\ Return(w, {Job("finalize", running[w].job.n)})
  <2>1. /\ TypeOK /\ ~Uncounted /\ running[w].job.n \in 1..total /\ total \in Nat
        /\ running[w].job.n \in 1..MaxChunks
    BY <1>1, ExportAssumption DEF Chunking, ChunksAfterCount, ChunksInRange, TypeOK, IInv
  <2>2. PICK j \in Jobs : j = Job("finalize", running[w].job.n)
    <3>1. running[w].job.n \in Nat
      BY <2>1
    <3>2. Job("finalize", running[w].job.n) \in Jobs
      BY <3>1 DEF Jobs, Kind, Job
    <3> QED BY <3>2
  <2>3. j.kind = "finalize" /\ Return(w, {j})
    BY <1>3, <2>2 DEF Job
  <2>4. /\ QueueTypeOK(Kind, PC)' /\ running'[w].pc = "idle" /\ waiting' = waiting \cup {j}
        /\ \A v \in Worker \ {w} : running'[v] = running[v]
    BY <2>1, <2>3, ReturnEffect
  <2>5. OneGenerator' /\ ChunksAfterCount' /\ ChunksInRange'
    BY <1>1, <2>1, <2>3, <2>4, ChunksKept DEF Generating, Chunking, ChunksInRange, IInv
  <2>6. TypeOK'
    BY <1>1, <1>3, <2>1, <2>4 DEF TypeOK, Kind, InProgress, env
  <2>7. parts = 1..total
    BY <1>3, <2>1, EnoughIsAll DEF IInv, ChunksInRange
  <2>8. CleanedAfterwards' /\ FinalizingHasAllParts'
    BY <1>1, <1>3, <2>4, <2>7 DEF CleanedAfterwards, FinalizingHasAllParts, IInv
  <2> QED BY <2>5, <2>6, <2>8 DEF IInv
<1> QED BY <1>2, <1>3 DEF CheckAndFinalize

(* FinalizeExportZip *)

LEMMA FinalizerIInv ==
    ASSUME IInv, NEW w \in Worker,
           CheckStatus(w) \/ BuildArchive(w) \/ Complete(w) \/ CleanUp(w)
    PROVE  IInv'
<1>1. /\ TypeOK /\ parts \subseteq 1..total /\ total \in 0..MaxChunks
      /\ status = "finalizing" => parts = 1..total
      /\ Uncounted => parts = {}
  BY DEF IInv, TypeOK, ChunksInRange, ChunksAfterCount, FinalizingHasAllParts
<1>2. CASE CheckStatus(w)
  <2>1. running[w].pc # "idle" /\ UNCHANGED <<status, total, parts, archive, finalizers, env>>
    BY <1>2 DEF CheckStatus, At
  <2>2. CASE Return(w, {})
    BY <2>1, <2>2, ReturnIInv
  <2>3. CASE Continue(w, "build")
    BY <1>1, <2>1, <2>3, ContinueIInv DEF TypeOK
  <2> QED BY <1>2, <2>2, <2>3 DEF CheckStatus
<1>3. CASE BuildArchive(w)
  <2>1. running[w].pc # "idle" /\ UNCHANGED <<total, parts, finalizers, env>>
    BY <1>3 DEF BuildArchive, At
  <2>2. CASE parts = {}
    BY <1>3, <2>1, <2>2, ReturnIInv DEF BuildArchive, SetStatus
  <2>3. CASE parts # {}
    <3>1. archive' = parts /\ Continue(w, "complete") /\ UNCHANGED status
      BY <1>3, <2>3 DEF BuildArchive
    <3>2. archive' \subseteq 1..MaxChunks
      BY <1>1, <3>1 DEF TypeOK
    <3> QED BY <1>1, <2>1, <3>1, <3>2, ContinueIInv
  <2> QED BY <2>2, <2>3
<1>4. CASE Complete(w)
  <2>1. /\ running[w].pc # "idle" /\ Continue(w, "clean")
        /\ UNCHANGED <<total, parts, archive, finalizers, env>>
        /\ status' = IF status = "deleted" THEN status ELSE "completed"
    BY <1>4 DEF Complete, At, SetStatus
  <2> QED BY <1>1, <2>1, ContinueIInv DEF TypeOK, Settled
<1>5. CASE CleanUp(w)
  <2>1. /\ running[w].pc = "clean" /\ status \in Settled
        /\ UNCHANGED <<status, total, archive, finalizers, env>>
    BY <1>5 DEF CleanUp, At, CleanedAfterwards, IInv
  <2>2. CASE parts = {}
    BY <1>5, <2>1, <2>2, ReturnIInv DEF CleanUp
  <2>3. CASE parts # {}
    <3>1. parts' \subseteq parts /\ Continue(w, "clean")
      BY <1>5, <2>3 DEF CleanUp
    <3>2. status' # "finalizing"
      BY <2>1 DEF Settled
    <3> QED BY <1>1, <2>1, <3>1, <3>2, ContinueIInv DEF TypeOK
  <2> QED BY <2>2, <2>3
<1> QED BY <1>2, <1>3, <1>4, <1>5

LEMMA StepIInv == IInv /\ [Next]_vars => IInv'
<1> SUFFICES ASSUME IInv, [Next]_vars PROVE IInv'
  OBVIOUS
<1>1. ASSUME NEW w \in Worker, Work(w) PROVE IInv'
  BY <1>1, TakeJobIInv, ClaimExportIInv, CountRowsIInv, DispatchChunkIInv, LoadExportIInv,
     WritePartIInv, CheckAndFinalizeIInv, FinalizerIInv DEF Work
<1>2. CASE UNCHANGED vars
  BY <1>2 DEF vars, queue, env, IInv, TypeOK, QueueTypeOK, OneGenerator, ChunksAfterCount,
     ChunksInRange, CleanedAfterwards, FinalizingHasAllParts, Generating, Chunking, Uncounted
<1> QED BY <1>1, <1>2, UserIInv, FaultIInv DEF Next

LEMMA Invariance == Spec => []IInv
BY InitIInv, StepIInv, PTL DEF Spec
-----------------------------------------------------------------------------
\* Every reachable state of an export and its jobs is well formed.
THEOREM ExportTypes == Spec => []TypeOK
<1>1. IInv => TypeOK
  BY DEF IInv
<1> QED BY <1>1, Invariance, PTL

\* Whoever finds the chunks complete, an export is handed to FinalizeExportZip with
\* all of its parts written, and none is deleted before its outcome is.
THEOREM FinalizedWithAllParts == Spec => []FinalizingHasAllParts
<1>1. IInv => FinalizingHasAllParts
  BY DEF IInv
<1> QED BY <1>1, Invariance, PTL

\* No job, however late, puts an export that has ended back in progress.
THEOREM EndedExportsStayEnded == Spec => NeverRestarts
<1>1. ASSUME [Next]_vars PROVE [(status \in Settled) => (status' \in Settled)]_vars
  <2> SUFFICES ASSUME Next, status \in Settled PROVE status' \in Settled
    BY <1>1 DEF Settled
  <2>1. ASSUME NEW w \in Worker, Work(w) PROVE status' \in Settled
    BY <2>1 DEF Work, TakeJob, ClaimExport, CountRows, DispatchChunk, LoadExport, WritePart,
       CheckAndFinalize, CheckStatus, BuildArchive, Complete, CleanUp, SetStatus, Settled
  <2>2. ASSUME NEW w \in Worker, JobFails(w) \/ WorkerDies(w) PROVE status' \in Settled
    BY <2>2 DEF JobFails, WorkerDies, SetStatus, Settled
  <2> QED BY <2>1, <2>2 DEF Next, AbandonedJobFails, SlowJobFails, CancelChecked,
          CancelWritten, Clear, ChangeRows, SetStatus, Settled
<1> QED BY <1>1, PTL DEF Spec, NeverRestarts
-----------------------------------------------------------------------------
(* One finalizer. *)

Finalizing(w) == running[w].pc \in {"finalize", "build", "complete", "clean"}
Number(w) == running[w].job.n
Queued(kind, n) == \E j \in waiting : j.kind = kind /\ j.n = n

\* Each chunk is dispatched, written and checked once,
ChunkOnce ==
    /\ \A v, w \in Worker : Chunking(v) /\ Chunking(w) /\ Number(v) = Number(w) => v = w
    /\ \A w \in Worker : Chunking(w) => ~Queued("chunk", Number(w)) /\ Number(w) \notin finalizers
    /\ \A n \in finalizers : ~Queued("chunk", n)
    /\ \A w \in Worker : running[w].pc = "dispatch" =>
          /\ \A n \in finalizers : n < running[w].next
          /\ \A j \in waiting : j.kind = "chunk" => j.n < running[w].next
          /\ \A v \in Worker : Chunking(v) => Number(v) < running[w].next

\* and so is each FinalizeExportZip, which puts an end to the processing.
FinalizeOnce ==
    /\ \A v, w \in Worker : Finalizing(v) /\ Finalizing(w) /\ Number(v) = Number(w) => v = w
    /\ \A w \in Worker : Finalizing(w) =>
          Number(w) \in finalizers /\ ~Queued("finalize", Number(w))
    /\ \A j \in waiting : j.kind = "finalize" => j.n \in finalizers
    /\ finalizers # {} => ~Uncounted /\ status \in {"finalizing"} \cup Settled
    /\ status = "completed" => finalizers # {}

Sole == \A m, n \in finalizers : m = n

\* The only one finds the export not completed and all parts there, and what it
\* has put into the archive stays.
SoleBuilds ==
    Sole =>
        /\ status = "completed" => archive = 1..total
        /\ \A j \in waiting : j.kind = "finalize" => status # "completed"
        /\ \A w \in Worker :
              /\ running[w].pc \in {"finalize", "build"} => status # "completed"
              /\ running[w].pc = "build" => parts = 1..total \/ status = "deleted"
              /\ running[w].pc = "complete" => archive = 1..total \/ status = "deleted"

SoleInv == IInv /\ ChunkOnce /\ FinalizeOnce /\ SoleBuilds

\* A worker that takes up no chunk, no finalizer and no dispatching.
Recedes(v) ==
    /\ Chunking(v)' => Chunking(v) /\ Number(v)' = Number(v)
    /\ Finalizing(v)' => Finalizing(v) /\ Number(v)' = Number(v)
    /\ running'[v].pc = "dispatch" =>
          running[v].pc = "dispatch" /\ running'[v].next = running[v].next

LEMMA OnceKept ==
    ASSUME ChunkOnce, FinalizeOnce, \A v \in Worker : Recedes(v),
           waiting' = waiting, finalizers' = finalizers, Uncounted' => Uncounted,
           finalizers # {} => status' \in {"finalizing"} \cup Settled,
           status' = "completed" => finalizers # {}
    PROVE  ChunkOnce' /\ FinalizeOnce'
<1>1. \A kind, n : Queued(kind, n)' <=> Queued(kind, n)
  BY DEF Queued
<1>2. ChunkOnce'
  BY <1>1 DEF ChunkOnce, Recedes
<1>3. FinalizeOnce'
  BY <1>1 DEF FinalizeOnce, Recedes
<1> QED BY <1>2, <1>3

\* What the others do cannot disturb the finalizer: parts are only added, and a
\* deleted export stays deleted.
LEMMA BuildsKept ==
    ASSUME SoleBuilds, finalizers' = finalizers,
           \A v \in Worker : running'[v].pc \in {"finalize", "build", "complete"} =>
                                 running'[v].pc = running[v].pc,
           \A j \in waiting' : j.kind = "finalize" => j \in waiting,
           status' = "completed" => status = "completed",
           status = "deleted" => status' = "deleted",
           status' = "deleted" \/ (archive' = archive /\ (parts = 1..total => parts' = 1..total)),
           total' = total
    PROVE  SoleBuilds'
<1>1. Sole' => Sole
  BY DEF Sole
<1>2. CASE status' = "deleted"
  BY <1>2 DEF SoleBuilds
<1>3. CASE status' # "deleted"
  BY <1>1, <1>3 DEF SoleBuilds
<1> QED BY <1>2, <1>3

LEMMA SoleTyped ==
    ASSUME SoleInv
    PROVE  /\ TypeOK /\ QueueTypeOK(Kind, PC) /\ waiting \subseteq Jobs
           /\ finalizers \subseteq 1..MaxChunks /\ finalizers \in SUBSET Nat
           /\ total \in Nat /\ parts \subseteq 1..total
           /\ \A w \in Worker : running[w].pc # "idle" =>
                 running[w] \in [pc : PC, job : Jobs, next : Nat] /\ Number(w) \in Nat
<1>1. TypeOK /\ QueueTypeOK(Kind, PC) /\ parts \subseteq 1..total
  BY DEF SoleInv, IInv, TypeOK, Kind, ChunksInRange
<1>2. waiting \subseteq Jobs /\ finalizers \subseteq 1..MaxChunks /\ total \in Nat
  BY <1>1, ExportAssumption DEF QueueTypeOK, TypeOK, Jobs
<1>3. \A w \in Worker : running[w].pc # "idle" => running[w] \in [pc : PC, job : Jobs, next : Nat]
  BY <1>1, BusyJob DEF Jobs
<1>4. \A w \in Worker : running[w].pc # "idle" => Number(w) \in Nat
  BY <1>3 DEF Number, Jobs
<1>5. finalizers \in SUBSET Nat
  BY <1>2, ExportAssumption
<1> QED BY <1>1, <1>2, <1>3, <1>4, <1>5

\* A job with nothing to push ends, and going on keeps its number.
LEMMA ReturnRecedes ==
    ASSUME SoleInv, NEW w \in Worker, Return(w, {})
    PROVE  /\ running'[w].pc = "idle" /\ waiting' = waiting /\ (Uncounted' => Uncounted)
           /\ \A v \in Worker \ {w} : running'[v] = running[v]
           /\ \A v \in Worker : Recedes(v)
<1>1. /\ running'[w].pc = "idle" /\ waiting' = waiting
      /\ \A v \in Worker \ {w} : running'[v] = running[v]
  BY SoleTyped, ReturnEffect
<1>2. Uncounted' => Uncounted
  BY <1>1 DEF Uncounted
<1> QED BY <1>1, <1>2 DEF Recedes, Chunking, Finalizing, Number

LEMMA ContinueRecedes ==
    ASSUME SoleInv, NEW w \in Worker, running[w].pc # "idle", NEW pc \in PC, Continue(w, pc),
           pc \notin {"generate", "dispatch"},
           pc = "count" => running[w].pc = "generate",
           pc \in {"chunk", "write", "check"} => Chunking(w),
           pc \in {"finalize", "build", "complete", "clean"} => Finalizing(w)
    PROVE  /\ running'[w].pc = pc /\ Number(w)' = Number(w) /\ waiting' = waiting
           /\ (Uncounted' => Uncounted)
           /\ \A v \in Worker \ {w} : running'[v] = running[v]
           /\ \A v \in Worker : Recedes(v)
<1>1. /\ running'[w].pc = pc /\ Number(w)' = Number(w) /\ waiting' = waiting
      /\ \A v \in Worker \ {w} : running'[v] = running[v]
  BY SoleTyped, ContinueEffect DEF Number
<1>2. Uncounted' => Uncounted
  BY <1>1 DEF Uncounted
<1> QED BY <1>1, <1>2 DEF Recedes, Chunking, Finalizing, Number

\* A step of one worker that is not the finalizer's
LEMMA OtherKept ==
    ASSUME SoleInv, \A v \in Worker : Recedes(v),
           \A v \in Worker : running'[v].pc \in {"finalize", "build", "complete"} =>
                                 running'[v].pc = running[v].pc,
           waiting' = waiting, finalizers' = finalizers, Uncounted' => Uncounted, total' = total,
           status' = "completed" => status = "completed",
           status = "deleted" => status' = "deleted",
           finalizers # {} => status' \in {"finalizing"} \cup Settled,
           status' = "deleted" \/ (archive' = archive /\ (parts = 1..total => parts' = 1..total))
    PROVE  ChunkOnce' /\ FinalizeOnce' /\ SoleBuilds'
<1>1. status' = "completed" => finalizers # {}
  BY DEF SoleInv, FinalizeOnce
<1>2. ChunkOnce' /\ FinalizeOnce'
  BY <1>1, OnceKept DEF SoleInv
<1> QED BY <1>2, BuildsKept DEF SoleInv

LEMMA UserSole ==
    ASSUME SoleInv, CancelChecked \/ CancelWritten \/ Clear \/ ChangeRows
    PROVE  ChunkOnce' /\ FinalizeOnce' /\ SoleBuilds'
<1>1. UNCHANGED <<waiting, running, total, finalizers>>
  BY DEF CancelChecked, CancelWritten, Clear, ChangeRows, queue, env
<1>2. /\ \A v \in Worker : Recedes(v)
      /\ Uncounted' => Uncounted
  BY <1>1 DEF Recedes, Chunking, Finalizing, Number, Uncounted
<1>3. /\ status' = "completed" => status = "completed"
      /\ status = "deleted" => status' = "deleted"
      /\ status' \in {status} \cup Settled
      /\ status' = "deleted" \/ UNCHANGED <<archive, parts>>
  BY DEF CancelChecked, CancelWritten, Clear, ChangeRows, SetStatus, Settled
<1>4. finalizers # {} => status' \in {"finalizing"} \cup Settled
  BY <1>3 DEF SoleInv, FinalizeOnce
<1> QED BY <1>1, <1>2, <1>3, <1>4, OtherKept

LEMMA FaultSole ==
    ASSUME SoleInv,
           \/ \E w \in Worker : JobFails(w) \/ WorkerDies(w)
           \/ AbandonedJobFails \/ SlowJobFails
    PROVE  ChunkOnce' /\ FinalizeOnce' /\ SoleBuilds'
<1>1. /\ UNCHANGED <<total, parts, archive, finalizers>>
      /\ status' = status \/ (status' = "failed" /\ status # "deleted")
      /\ (\E w \in Worker : Throw(w) \/ Kill(w)) \/ FailAbandoned \/ FailOverrun
  BY DEF JobFails, WorkerDies, AbandonedJobFails, SlowJobFails, SetStatus
<1>2. /\ \A v \in Worker : running'[v] = running[v] \/ running'[v].pc = "idle"
      /\ waiting' = waiting
  BY <1>1, FaultEffect, SoleTyped
<1>3. /\ \A v \in Worker : Recedes(v)
      /\ Uncounted' => Uncounted
  BY <1>2 DEF Recedes, Chunking, Finalizing, Number, Uncounted
<1>4. finalizers # {} => status' \in {"finalizing"} \cup Settled
  BY <1>1 DEF SoleInv, FinalizeOnce, Settled
<1> QED BY <1>1, <1>2, <1>3, <1>4, OtherKept

LEMMA TakeJobSole ==
    ASSUME SoleInv, NEW w \in Worker, TakeJob(w)
    PROVE  ChunkOnce' /\ FinalizeOnce' /\ SoleBuilds'
<1>1. PICK j \in waiting :
         /\ waiting' = waiting \ {j}
         /\ running[w] = Idle
         /\ running' = [running EXCEPT ![w] = [pc |-> j.kind, job |-> j, next |-> 1]]
  BY DEF TakeJob, Reserve
<1>2. /\ j \in Jobs
      /\ running'[w] = [pc |-> j.kind, job |-> j, next |-> 1]
      /\ \A v \in Worker \ {w} : running'[v] = running[v]
  BY <1>1, SoleTyped DEF QueueTypeOK, Jobs
<1>3. UNCHANGED <<status, total, parts, archive, finalizers>>
  BY DEF TakeJob
<1>4. running[w].pc = "idle" /\ Number(w)' = j.n /\ running'[w].pc = j.kind
  BY <1>1, <1>2 DEF Idle, Number
<1>5. j.kind \in {"generate", "chunk", "finalize"}
  BY <1>2 DEF Jobs, Kind
<1>6. /\ Chunking(w)' <=> j.kind = "chunk"
      /\ Finalizing(w)' <=> j.kind = "finalize"
      /\ ~Chunking(w) /\ ~Finalizing(w) /\ running'[w].pc # "dispatch"
  BY <1>4, <1>5 DEF Chunking, Finalizing
<1>7. \A v \in Worker \ {w} :
         /\ Chunking(v)' <=> Chunking(v)
         /\ Finalizing(v)' <=> Finalizing(v)
         /\ Number(v)' = Number(v)
  BY <1>2 DEF Chunking, Finalizing, Number
<1>8. \A k \in waiting : k.kind = j.kind /\ k.n = j.n => k = j
  BY <1>2, SoleTyped DEF Jobs
<1>9. /\ \A kind, n : Queued(kind, n)' => Queued(kind, n)
      /\ Queued(j.kind, j.n) /\ ~Queued(j.kind, j.n)'
  BY <1>1, <1>8 DEF Queued
<1>10. ChunkOnce'
  BY <1>1, <1>2, <1>3, <1>4, <1>6, <1>7, <1>9 DEF SoleInv, ChunkOnce
<1>11. Uncounted' => Uncounted
  BY <1>1, <1>2, <1>5 DEF Uncounted
<1>12. FinalizeOnce'
  BY <1>1, <1>3, <1>4, <1>6, <1>7, <1>9, <1>11 DEF SoleInv, FinalizeOnce
<1>13. SoleBuilds'
  <2>1. Sole' => Sole
    BY <1>3 DEF Sole
  <2>2. j.kind = "finalize" /\ Sole => status # "completed"
    BY DEF SoleInv, SoleBuilds
  <2> QED BY <1>1, <1>2, <1>3, <1>4, <1>5, <2>1, <2>2 DEF SoleInv, SoleBuilds
<1> QED BY <1>10, <1>12, <1>13

LEMMA GenerateSole ==
    ASSUME SoleInv, NEW w \in Worker, ClaimExport(w) \/ CountRows(w)
    PROVE  ChunkOnce' /\ FinalizeOnce' /\ SoleBuilds'
<1>1. running[w].pc \in {"generate", "count"} /\ UNCHANGED <<parts, archive, finalizers>>
  BY DEF ClaimExport, CountRows, At
<1>2. Uncounted
  BY <1>1 DEF Uncounted
<1>3. finalizers = {} /\ status # "completed"
  BY <1>2 DEF SoleInv, FinalizeOnce
<1>4. /\ \A v \in Worker : ~Finalizing(v) /\ ~Chunking(v)
      /\ \A j \in waiting : j.kind # "finalize" /\ j.kind # "chunk"
  BY <1>2, <1>3 DEF SoleInv, FinalizeOnce, IInv, ChunksAfterCount
<1>5. PICK pc \in {"idle", "count", "dispatch"} :
         /\ waiting' = waiting /\ status' # "completed"
         /\ running'[w].pc = pc
         /\ \A v \in Worker \ {w} : running'[v] = running[v]
  <2>1. CASE Return(w, {})
    BY <1>3, <2>1, ReturnRecedes DEF ClaimExport, CountRows, SetStatus
  <2>2. CASE Continue(w, "count") \/ Continue(w, "dispatch")
    BY <1>1, <1>3, <2>2, ContinueEffect, SoleTyped DEF ClaimExport, CountRows, SetStatus, PC
  <2> QED BY <2>1, <2>2 DEF ClaimExport, CountRows
<1>6. \A v \in Worker : ~Finalizing(v)' /\ ~Chunking(v)'
  BY <1>4, <1>5 DEF Finalizing, Chunking
<1>7. ChunkOnce' /\ FinalizeOnce'
  BY <1>1, <1>3, <1>4, <1>5, <1>6 DEF ChunkOnce, FinalizeOnce, Queued
<1>8. SoleBuilds'
  BY <1>4, <1>5, <1>6 DEF SoleBuilds, Finalizing
<1> QED BY <1>7, <1>8

LEMMA QueuedPushed ==
    ASSUME NEW k, waiting' = waiting \cup {k}, NEW kind, NEW n
    PROVE  Queued(kind, n)' <=> (Queued(kind, n) \/ (k.kind = kind /\ k.n = n))
BY DEF Queued

LEMMA DispatchSole ==
    ASSUME SoleInv, NEW w \in Worker, DispatchChunk(w)
    PROVE  ChunkOnce' /\ FinalizeOnce' /\ SoleBuilds'
<1>1. running[w].pc = "dispatch" /\ UNCHANGED <<status, total, parts, archive, finalizers>>
  BY DEF DispatchChunk, At
<1>2. PICK i \in Nat : i = running[w].next
  BY <1>1, SoleTyped
<1>3. /\ waiting' = waiting \cup {Job("chunk", i)}
      /\ \A v \in Worker \ {w} : running'[v] = running[v]
      /\ \/ running'[w].pc = "idle"
         \/ running'[w].pc = "dispatch" /\ running'[w].next = i + 1
  <2>1. CASE i = total
    <3>1. Return(w, {Job("chunk", i)}) /\ {Job("chunk", i)} \in SUBSET Jobs
      BY <1>2, <2>1 DEF DispatchChunk, Jobs, Kind, Job
    <3> QED BY <3>1, ReturnEffect, SoleTyped
  <2>2. CASE i # total
    <3>1. /\ waiting' = waiting \cup {Job("chunk", i)}
          /\ GoTo(w, "dispatch", i + 1)
      BY <1>2, <2>2 DEF DispatchChunk
    <3>2. /\ running[w] \in [pc : PC, job : Jobs, next : Nat]
          /\ running \in [Worker -> {Idle} \cup [pc : PC, job : Jobs, next : Nat]]
      BY <1>1, SoleTyped DEF Jobs, QueueTypeOK
    <3> QED BY <3>1, <3>2 DEF GoTo
  <2> QED BY <2>1, <2>2
<1>4. /\ \A v \in Worker \ {w} : running[v].pc # "dispatch"
      /\ ~Uncounted
  BY <1>1 DEF SoleInv, IInv, OneGenerator, Generating, Uncounted
<1>5. \A v \in Worker \ {w} :
         /\ Chunking(v)' <=> Chunking(v)
         /\ Finalizing(v)' <=> Finalizing(v)
         /\ Number(v)' = Number(v)
         /\ running'[v].pc # "dispatch"
  BY <1>3, <1>4 DEF Chunking, Finalizing, Number
<1>6. ~Chunking(w) /\ ~Finalizing(w) /\ ~Chunking(w)' /\ ~Finalizing(w)'
  BY <1>1, <1>3 DEF Chunking, Finalizing
<1>7. /\ Job("chunk", i).kind = "chunk" /\ Job("chunk", i).n = i
      /\ \A n : Queued("chunk", n)' <=> (Queued("chunk", n) \/ n = i)
      /\ \A n : Queued("finalize", n)' <=> Queued("finalize", n)
  <2>1. Job("chunk", i).kind = "chunk" /\ Job("chunk", i).n = i
    BY DEF Job
  <2> QED BY <1>3, <2>1, QueuedPushed
<1>8. /\ \A n \in finalizers : n < i
      /\ \A j \in waiting : j.kind = "chunk" => j.n < i
      /\ \A v \in Worker : Chunking(v) => Number(v) < i
  BY <1>1, <1>2 DEF SoleInv, ChunkOnce
<1>9. /\ \A n \in finalizers : n \in Nat
      /\ \A j \in waiting : j.n \in Nat
      /\ \A v \in Worker : Chunking(v) => Number(v) \in Nat
  BY SoleTyped DEF Jobs, Chunking
<1>10. ChunkOnce'
  <2>1. \A v, u \in Worker : Chunking(v)' /\ Chunking(u)' /\ Number(v)' = Number(u)' => v = u
    BY <1>5, <1>6 DEF SoleInv, ChunkOnce
  <2>2. \A v \in Worker : Chunking(v)' => ~Queued("chunk", Number(v))' /\ Number(v)' \notin finalizers'
    BY <1>1, <1>2, <1>5, <1>6, <1>7, <1>8, <1>9 DEF SoleInv, ChunkOnce
  <2>3. \A n \in finalizers' : ~Queued("chunk", n)'
    BY <1>1, <1>2, <1>7, <1>8, <1>9 DEF SoleInv, ChunkOnce
  <2>4. ASSUME NEW v \in Worker, running'[v].pc = "dispatch"
        PROVE  /\ \A n \in finalizers' : n < running'[v].next
               /\ \A j \in waiting' : j.kind = "chunk" => j.n < running'[v].next
               /\ \A u \in Worker : Chunking(u)' => Number(u)' < running'[v].next
    <3>1. v = w /\ running'[v].next = i + 1
      BY <1>3, <1>5, <2>4
    <3>2. \A n \in Nat : n < i => n < i + 1
      BY <1>2
    <3> QED BY <1>1, <1>2, <1>3, <1>5, <1>6, <1>7, <1>8, <1>9, <3>1, <3>2
  <2> QED BY <2>1, <2>2, <2>3, <2>4 DEF ChunkOnce
<1>11. ~Uncounted'
  BY <1>3, <1>4, <1>7 DEF Uncounted
<1>12. FinalizeOnce'
  BY <1>1, <1>3, <1>5, <1>6, <1>7, <1>11 DEF SoleInv, FinalizeOnce
<1>13. SoleBuilds'
  BY <1>1, <1>3, <1>7, BuildsKept DEF SoleInv
<1> QED BY <1>10, <1>12, <1>13

LEMMA ChunkSole ==
    ASSUME SoleInv, NEW w \in Worker, LoadExport(w) \/ WritePart(w)
    PROVE  ChunkOnce' /\ FinalizeOnce' /\ SoleBuilds'
<1>1. /\ running[w].pc \in {"chunk", "write"} /\ Chunking(w)
      /\ UNCHANGED <<status, total, archive, finalizers>>
  BY DEF LoadExport, WritePart, At, Chunking
<1>2. parts = 1..total => parts' = 1..total
  <2>1. Number(w) \in 1..total
    BY <1>1 DEF SoleInv, IInv, ChunksInRange, Number
  <2> QED BY <2>1 DEF LoadExport, WritePart, Number
<1>3. /\ waiting' = waiting /\ (Uncounted' => Uncounted)
      /\ \A v \in Worker : Recedes(v)
      /\ \A v \in Worker : running'[v].pc \in {"finalize", "build", "complete"} =>
                                 running'[v].pc = running[v].pc
  <2>1. CASE Return(w, {})
    BY <2>1, ReturnRecedes
  <2>2. CASE Continue(w, "write") \/ Continue(w, "check")
    BY <1>1, <2>2, ContinueRecedes DEF PC
  <2> QED BY <2>1, <2>2 DEF LoadExport, WritePart
<1>4. finalizers # {} => status' \in {"finalizing"} \cup Settled
  BY <1>1 DEF SoleInv, FinalizeOnce
<1> QED BY <1>1, <1>2, <1>3, <1>4, OtherKept

LEMMA CheckSole ==
    ASSUME SoleInv, NEW w \in Worker, CheckAndFinalize(w)
    PROVE  ChunkOnce' /\ FinalizeOnce' /\ SoleBuilds'
<1>1. /\ running[w].pc = "check" /\ Chunking(w) /\ ~Finalizing(w)
      /\ UNCHANGED <<total, parts, archive>>
  BY DEF CheckAndFinalize, At, Chunking, Finalizing
<1>2. CASE Return(w, {}) /\ UNCHANGED <<status, finalizers>>
  <2>1. finalizers # {} => status' \in {"finalizing"} \cup Settled
    BY <1>2 DEF SoleInv, FinalizeOnce
  <2> QED BY <1>1, <1>2, <2>1, ReturnRecedes, OtherKept
<1>3. CASE /\ status \notin Settled /\ AllPartsWritten /\ status' = "finalizing"
           /\ finalizers' = finalizers \cup {running[w].job.n}
           /\ Return(w, {Job("finalize", running[w].job.n)})
  <2>1. PICK n \in Nat : n = Number(w)
    BY <1>1, SoleTyped
  <2>2. n \notin finalizers /\ ~Queued("chunk", n) /\ ~Uncounted
    BY <1>1, <2>1 DEF SoleInv, ChunkOnce, IInv, ChunksAfterCount
  <2>3. /\ running'[w].pc = "idle" /\ waiting' = waiting \cup {Job("finalize", n)}
        /\ \A v \in Worker \ {w} : running'[v] = running[v]
    <3>1. {Job("finalize", n)} \in SUBSET Jobs
      BY DEF Jobs, Kind, Job
    <3> QED BY <1>3, <2>1, <3>1, ReturnEffect, SoleTyped DEF Number
  <2>4. finalizers' = finalizers \cup {n}
    BY <1>3, <2>1 DEF Number
  <2>5. /\ \A v \in Worker \ {w} :
             /\ Chunking(v)' <=> Chunking(v)
             /\ Finalizing(v)' <=> Finalizing(v)
             /\ Number(v)' = Number(v)
        /\ ~Chunking(w)' /\ ~Finalizing(w)' /\ running'[w].pc # "dispatch"
    BY <2>3 DEF Chunking, Finalizing, Number
  <2>6. /\ Job("finalize", n).kind = "finalize" /\ Job("finalize", n).n = n
        /\ \A m : Queued("chunk", m)' <=> Queued("chunk", m)
        /\ \A m : Queued("finalize", m)' <=> (Queued("finalize", m) \/ m = n)
    <3>1. Job("finalize", n).kind = "finalize" /\ Job("finalize", n).n = n
      BY DEF Job
    <3> QED BY <2>3, <3>1, QueuedPushed
  <2>7. \A v \in Worker \ {w} : Chunking(v) => Number(v) # n
    BY <1>1, <2>1 DEF SoleInv, ChunkOnce
  <2>8. \A v \in Worker : Finalizing(v) => Number(v) # n
    BY <2>2 DEF SoleInv, FinalizeOnce
  <2>9. ChunkOnce'
    <3>1. \A v, u \in Worker : Chunking(v)' /\ Chunking(u)' /\ Number(v)' = Number(u)' => v = u
      BY <2>5 DEF SoleInv, ChunkOnce
    <3>2. \A v \in Worker : Chunking(v)' => ~Queued("chunk", Number(v))' /\ Number(v)' \notin finalizers'
      BY <2>4, <2>5, <2>6, <2>7 DEF SoleInv, ChunkOnce
    <3>3. \A m \in finalizers' : ~Queued("chunk", m)'
      BY <2>2, <2>4, <2>6 DEF SoleInv, ChunkOnce
    <3>4. ASSUME NEW v \in Worker, running'[v].pc = "dispatch"
          PROVE  /\ \A m \in finalizers' : m < running'[v].next
                 /\ \A j \in waiting' : j.kind = "chunk" => j.n < running'[v].next
                 /\ \A u \in Worker : Chunking(u)' => Number(u)' < running'[v].next
      <4>1. v # w /\ running'[v] = running[v]
        BY <2>3, <2>5, <3>4
      <4>2. n < running[v].next
        BY <1>1, <2>1, <3>4, <4>1 DEF SoleInv, ChunkOnce
      <4> QED BY <2>3, <2>4, <2>5, <2>6, <3>4, <4>1, <4>2 DEF SoleInv, ChunkOnce
    <3> QED BY <3>1, <3>2, <3>3, <3>4 DEF ChunkOnce
  <2>10. ~Uncounted'
    BY <2>2, <2>3, <2>6 DEF Uncounted
  <2>11. FinalizeOnce'
    <3>1. \A v, u \in Worker : Finalizing(v)' /\ Finalizing(u)' /\ Number(v)' = Number(u)' => v = u
      BY <2>5 DEF SoleInv, FinalizeOnce
    <3>2. \A v \in Worker : Finalizing(v)' =>
             Number(v)' \in finalizers' /\ ~Queued("finalize", Number(v))'
      BY <2>4, <2>5, <2>6, <2>8 DEF SoleInv, FinalizeOnce
    <3>3. \A j \in waiting' : j.kind = "finalize" => j.n \in finalizers'
      BY <2>3, <2>4, <2>6 DEF SoleInv, FinalizeOnce
    <3> QED BY <1>3, <2>4, <2>10, <3>1, <3>2, <3>3 DEF FinalizeOnce
  <2>12. SoleBuilds'
    <3>1. Sole' => finalizers = {}
      BY <2>2, <2>4 DEF Sole
    <3>2. finalizers = {} => \A v \in Worker : ~Finalizing(v)
      BY DEF SoleInv, FinalizeOnce
    <3>3. Sole' => \A v \in Worker : ~Finalizing(v)'
      BY <2>5, <3>1, <3>2
    <3> QED BY <1>3, <3>3 DEF SoleBuilds, Finalizing
  <2> QED BY <2>9, <2>11, <2>12
<1> QED BY <1>2, <1>3 DEF CheckAndFinalize

\* The only finalizer is alone with the archive.
LEMMA AloneWhenSole ==
    ASSUME SoleInv, Sole, NEW w \in Worker, Finalizing(w)
    PROVE  /\ \A v \in Worker \ {w} : ~Finalizing(v)
           /\ \A j \in waiting : j.kind # "finalize"
<1>1. Number(w) \in finalizers /\ ~Queued("finalize", Number(w))
  BY DEF SoleInv, FinalizeOnce
<1>2. ASSUME NEW v \in Worker, Finalizing(v) PROVE v = w
  <2>1. Number(v) \in finalizers
    BY <1>2 DEF SoleInv, FinalizeOnce
  <2> QED BY <1>1, <1>2, <2>1 DEF Sole, SoleInv, FinalizeOnce
<1>3. ASSUME NEW j \in waiting, j.kind = "finalize" PROVE FALSE
  <2>1. j.n \in finalizers
    BY <1>3 DEF SoleInv, FinalizeOnce
  <2> QED BY <1>1, <1>3, <2>1 DEF Sole, Queued
<1> QED BY <1>2, <1>3

LEMMA FinalizerSole ==
    ASSUME SoleInv, NEW w \in Worker,
           CheckStatus(w) \/ BuildArchive(w) \/ Complete(w) \/ CleanUp(w)
    PROVE  ChunkOnce' /\ FinalizeOnce' /\ SoleBuilds'
<1>1. /\ Finalizing(w) /\ running[w].pc # "idle" /\ UNCHANGED <<total, finalizers>>
      /\ Number(w) \in finalizers
  BY DEF CheckStatus, BuildArchive, Complete, CleanUp, At, Finalizing, SoleInv, FinalizeOnce
<1>2. PICK pc \in {"idle", "build", "complete", "clean"} :
         /\ running'[w].pc = pc
         /\ waiting' = waiting /\ (Uncounted' => Uncounted)
         /\ \A v \in Worker \ {w} : running'[v] = running[v]
         /\ \A v \in Worker : Recedes(v)
         /\ pc = "build" => CheckStatus(w) /\ status \in {"finalizing", "processing"}
         /\ pc = "complete" => BuildArchive(w) /\ parts # {}
  <2>1. CASE Return(w, {})
    BY <2>1, ReturnRecedes
  <2>2. CASE CheckStatus(w) /\ ~Return(w, {})
    <3>1. Continue(w, "build") /\ status \in {"finalizing", "processing"}
      BY <2>2 DEF CheckStatus
    <3> QED BY <1>1, <2>2, <3>1, ContinueRecedes DEF PC
  <2>3. CASE BuildArchive(w) /\ ~Return(w, {})
    <3>1. Continue(w, "complete") /\ parts # {}
      BY <2>3 DEF BuildArchive
    <3> QED BY <1>1, <2>3, <3>1, ContinueRecedes DEF PC
  <2>4. CASE (Complete(w) \/ CleanUp(w)) /\ ~Return(w, {})
    <3>1. Continue(w, "clean")
      BY <2>4 DEF Complete, CleanUp
    <3> QED BY <1>1, <3>1, ContinueRecedes DEF PC
  <2> QED BY <2>1, <2>2, <2>3, <2>4
<1>3. /\ status' \in {status, "failed", "completed"}
      /\ status = "deleted" => status' = "deleted"
      /\ status' = "completed" => status = "completed" \/ running[w].pc = "complete"
      /\ archive' = archive \/ (archive' = parts /\ running[w].pc = "build" /\ status' = status)
  BY DEF CheckStatus, BuildArchive, Complete, CleanUp, SetStatus, At
<1>4. ChunkOnce' /\ FinalizeOnce'
  <2>1. finalizers # {} => status' \in {"finalizing"} \cup Settled
    BY <1>3 DEF SoleInv, FinalizeOnce, Settled
  <2> QED BY <1>1, <1>2, <2>1, OnceKept DEF SoleInv
<1>5. ASSUME Sole
      PROVE  /\ status' = "completed" => archive' = 1..total
             /\ \A j \in waiting' : j.kind = "finalize" => status' # "completed"
             /\ \A v \in Worker :
                   /\ running'[v].pc \in {"finalize", "build"} => status' # "completed"
                   /\ running'[v].pc = "build" => parts' = 1..total \/ status' = "deleted"
                   /\ running'[v].pc = "complete" => archive' = 1..total \/ status' = "deleted"
  <2>1. /\ \A v \in Worker \ {w} : ~Finalizing(v)
        /\ \A j \in waiting : j.kind # "finalize"
    BY <1>1, <1>5, AloneWhenSole
  <2>2. \A v \in Worker \ {w} : running'[v].pc \notin {"finalize", "build", "complete"}
    BY <1>2, <2>1 DEF Finalizing
  <2>3. status' = "completed" => archive' = 1..total
    BY <1>3, <1>5 DEF SoleInv, SoleBuilds
  <2>4. running'[w].pc = "build" => status' # "completed" /\ parts' = 1..total
    <3> SUFFICES ASSUME running'[w].pc = "build"
                 PROVE  status' # "completed" /\ parts' = 1..total
      OBVIOUS
    <3>1. UNCHANGED <<status, parts>> /\ status = "finalizing"
      BY <1>1, <1>2 DEF CheckStatus, SoleInv, FinalizeOnce, Settled
    <3> QED BY <3>1 DEF SoleInv, IInv, FinalizingHasAllParts
  <2>5. running'[w].pc = "complete" => archive' = 1..total \/ status' = "deleted"
    <3> SUFFICES ASSUME running'[w].pc = "complete"
                 PROVE  archive' = 1..total \/ status' = "deleted"
      OBVIOUS
    <3>1. running[w].pc = "build" /\ archive' = parts /\ status' = status
      BY <1>2 DEF BuildArchive, At
    <3> QED BY <1>5, <3>1 DEF SoleInv, SoleBuilds
  <2> QED BY <1>2, <2>1, <2>2, <2>3, <2>4, <2>5
<1>6. SoleBuilds'
  BY <1>1, <1>5 DEF SoleBuilds, Sole
<1> QED BY <1>4, <1>6

LEMMA StepSole == SoleInv /\ [Next]_vars => SoleInv'
<1> SUFFICES ASSUME SoleInv, [Next]_vars PROVE SoleInv'
  OBVIOUS
<1>1. IInv'
  BY StepIInv DEF SoleInv
<1>2. ChunkOnce' /\ FinalizeOnce' /\ SoleBuilds'
  <2>1. ASSUME NEW w \in Worker, Work(w) PROVE ChunkOnce' /\ FinalizeOnce' /\ SoleBuilds'
    BY <2>1, TakeJobSole, GenerateSole, DispatchSole, ChunkSole, CheckSole, FinalizerSole DEF Work
  <2>2. CASE UNCHANGED vars
    BY <2>2 DEF vars, queue, SoleInv, ChunkOnce, FinalizeOnce, SoleBuilds, Sole, Queued, Uncounted,
       Chunking, Finalizing, Number
  <2> QED BY <2>1, <2>2, UserSole, FaultSole DEF Next
<1> QED BY <1>1, <1>2 DEF SoleInv

LEMMA InitSole == Init => SoleInv
<1> SUFFICES ASSUME Init PROVE SoleInv
  OBVIOUS
<1>1. waiting = {Job("generate", 0)} /\ \A w \in Worker : running[w].pc = "idle"
  BY DEF Init, QueueInit, Idle
<1> QED BY <1>1, InitIInv DEF Init, SoleInv, ChunkOnce, FinalizeOnce, SoleBuilds, Chunking,
        Finalizing, Job, Settled

\* As long as one FinalizeExportZip was dispatched, the ZIP of a completed export
\* holds every part, whatever is killed, overrun, cancelled, cleared, handed out
\* again or changed meanwhile; only a second one can spoil it (export_race).
THEOREM OneFinalizerCompletes == Spec => []SoleFinalizerCompletes
<1>1. ASSUME SoleInv, Cardinality(finalizers) <= 1 PROVE Sole
  <2> SUFFICES ASSUME NEW m \in finalizers, NEW n \in finalizers, m # n PROVE FALSE
    BY DEF Sole
  <2>1. IsFiniteSet(finalizers)
    <3>1. IsFiniteSet(1..MaxChunks)
      BY FS_Interval, ExportAssumption
    <3>2. finalizers \in SUBSET (1..MaxChunks)
      BY <1>1, SoleTyped
    <3> QED BY <3>1, <3>2, FS_Subset
  <2>2. IsFiniteSet({m}) /\ Cardinality({m}) = 1
    BY FS_Singleton
  <2>3. Cardinality({m} \cup {n}) = 2
    BY <2>2, FS_AddElement
  <2>4. {m} \cup {n} \in SUBSET finalizers /\ Cardinality(finalizers) \in Nat
    BY <2>1, FS_CardinalityType
  <2> QED BY <1>1, <2>1, <2>3, <2>4, FS_Subset
<1>2. SoleInv => SoleFinalizerCompletes
  BY <1>1 DEF SoleFinalizerCompletes, CompleteArchive, SoleInv, SoleBuilds
<1> QED BY <1>2, InitSole, StepSole, PTL DEF Spec
=============================================================================
