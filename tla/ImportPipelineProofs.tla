------------------------ MODULE ImportPipelineProofs ------------------------
(***************************************************************************)
(* ImportPipeline for every number of workers, chunks and faults: type     *)
(* correctness, that a successful import has none of its chunks left, and  *)
(* that no late job turns an ended import round.                           *)
(***************************************************************************)
EXTENDS ImportPipeline, JobQueueProofs, FiniteSetTheorems

Kind == {"import", "chunk"}
Jobs == [kind : Kind, n : Nat]
Running == [pc : PC, job : Jobs, next : Nat]
Done == {"completed", "failed"}

Importing(w) == running[w].pc \in {"import", "read", "create"}
InChunk(w) == running[w].pc \in {"chunk", "rows"}

\* ProcessImport has not counted the chunks yet.
Uncounted ==
    \/ \E j \in waiting : j.kind = "import"
    \/ \E w \in Worker : running[w].pc \in {"import", "read"}

\* One ProcessImport at most is waiting or running.
OneImporter ==
    /\ \A v, w \in Worker : Importing(v) /\ Importing(w) => v = w
    /\ \A j \in waiting : j.kind = "import" =>
          j = Job("import", 0) /\ \A w \in Worker : ~Importing(w)
    /\ \A w \in Worker : running[w].pc \in {"import", "read"} => running[w].next = 1

\* There is no chunk before the count,
NothingBeforeCount ==
    Uncounted =>
        /\ total = 0
        /\ status \notin Success
        /\ \A i \in Chunk : chunk[i] = "none"
        /\ \A j \in waiting : j.kind # "chunk"
        /\ \A w \in Worker : running[w].pc \notin {"chunk", "rows", "finalize"}

\* every one after it has a number within the count,
ChunksInRange ==
    /\ \A i \in Chunk : chunk[i] # "none" => i <= total
    /\ \A j \in waiting : j.kind = "chunk" => j.n \in 1..total
    /\ \A w \in Worker :
          /\ InChunk(w) => running[w].job.n \in 1..total
          /\ running[w].pc = "create" => running[w].next \in 1..total

\* those still to be created are nowhere,
NoneAhead ==
    \A w \in Worker : running[w].pc = "create" =>
        /\ \A i \in Chunk : i >= running[w].next => chunk[i] = "none"
        /\ \A j \in waiting : j.kind = "chunk" => j.n < running[w].next
        /\ \A v \in Worker : InChunk(v) => running[v].job.n < running[w].next

\* and each is processed once.
EachChunkOnce ==
    /\ \A v, w \in Worker :
          InChunk(v) /\ InChunk(w) /\ running[v].job.n = running[w].job.n => v = w
    /\ \A j \in waiting : j.kind = "chunk" =>
          \A w \in Worker : InChunk(w) => running[w].job.n # j.n

\* Its row is "processing" until its rows are stored.
RowsOfProcessing ==
    \A w \in Worker :
        running[w].pc = "rows" => chunk[running[w].job.n] \in {"processing", "none"}

\* The form drops the chunks of an import it has stopped.
DroppedWhenStopped == cancelling = "dropChunks" => status \in {"cancelled", "failed", "deleted"}

JobsInv ==
    /\ OneImporter
    /\ NothingBeforeCount
    /\ ChunksInRange
    /\ NoneAhead
    /\ EachChunkOnce

IInv ==
    /\ TypeOK
    /\ JobsInv
    /\ RowsOfProcessing
    /\ DroppedWhenStopped
    /\ DoneMeansAllChunksDone

user == <<file, length, cancelling>>
-----------------------------------------------------------------------------
(* What the queue operators do to the running workers. *)

LEMMA KindsStart == Kind \subseteq PC
BY DEF Kind, PC

LEMMA QueueTyped ==
    ASSUME TypeOK
    PROVE  QueueTypeOK(Kind, PC) /\ running \in [Worker -> {Idle} \cup Running]
BY DEF TypeOK, Kind, QueueTypeOK, Running, Jobs

LEMMA ContinueEffect ==
    ASSUME TypeOK, NEW w \in Worker, running[w].pc # "idle",
           NEW pc \in PC, Continue(w, pc)
    PROVE  /\ QueueTypeOK(Kind, PC)'
           /\ running'[w].pc = pc
           /\ running'[w].job = running[w].job
           /\ running'[w].next = running[w].next
           /\ \A v \in Worker \ {w} : running'[v] = running[v]
           /\ waiting' = waiting
<1>1. QueueTypeOK(Kind, PC) /\ running \in [Worker -> {Idle} \cup Running]
  BY QueueTyped
<1>2. QueueTypeOK(Kind, PC)'
  BY <1>1, ContinueTypes
<1>3. running[w] \in Running
  BY <1>1, BusyJob DEF Running, Jobs
<1> QED BY <1>1, <1>2, <1>3 DEF Continue, GoTo, Running

LEMMA ReturnEffect ==
    ASSUME TypeOK, NEW w \in Worker, NEW new \in SUBSET Jobs, Return(w, new)
    PROVE  /\ QueueTypeOK(Kind, PC)'
           /\ running'[w].pc = "idle"
           /\ \A v \in Worker \ {w} : running'[v] = running[v]
           /\ waiting' = waiting \cup new
<1>1. QueueTypeOK(Kind, PC) /\ running \in [Worker -> {Idle} \cup Running]
  BY QueueTyped
<1>2. QueueTypeOK(Kind, PC)'
  BY <1>1, ReturnTypes DEF Jobs
<1> QED BY <1>1, <1>2 DEF Return, Idle

\* Faults only make workers idle and pull jobs out of the queue's hands.
LEMMA FaultEffect ==
    ASSUME TypeOK,
           (\E w \in Worker : Throw(w) \/ Kill(w)) \/ FailAbandoned \/ FailOverrun
    PROVE  /\ QueueTypeOK(Kind, PC)'
           /\ \A v \in Worker : running'[v] = running[v] \/ running'[v].pc = "idle"
           /\ waiting' = waiting
<1>1. QueueTypeOK(Kind, PC) /\ running \in [Worker -> {Idle} \cup Running]
  BY QueueTyped
<1>2. QueueTypeOK(Kind, PC)'
  BY <1>1, FaultTypes, QueueAssumption
<1> QED BY <1>1, <1>2 DEF Throw, Kill, FailAbandoned, FailOverrun, Idle
-----------------------------------------------------------------------------
(* Jobs that stop, or go on with the same chunk *)

Winds(v) ==
    \/ running'[v] = running[v]
    \/ running'[v].pc = "idle"
    \/ running[v].pc = "rows" /\ running'[v].pc = "finalize"
    \/ /\ running[v].pc = "import" /\ running'[v].pc = "read"
       /\ running'[v].next = running[v].next
    \/ /\ running[v].pc = "chunk" /\ running'[v].pc = "rows"
       /\ running'[v].job = running[v].job

\* disturb nothing of what is known of the jobs, as long as no chunk is created.
LEMMA JobsKept ==
    ASSUME JobsInv, waiting' = waiting, total' = total,
           \A v \in Worker : Winds(v),
           \A i \in Chunk : chunk'[i] # "none" => chunk[i] # "none",
           Uncounted => status' \notin Success
    PROVE  JobsInv'
<1>1. \A v \in Worker :
         /\ Importing(v)' => Importing(v)
         /\ running'[v].pc \in {"import", "read"} =>
               running[v].pc \in {"import", "read"} /\ running'[v].next = running[v].next
         /\ running'[v].pc = "create" => running'[v] = running[v]
         /\ InChunk(v)' => InChunk(v) /\ running'[v].job = running[v].job
         /\ running'[v].pc = "finalize" => running[v].pc \in {"rows", "finalize"}
  BY DEF Winds, Importing, InChunk
<1>2. OneImporter'
  BY <1>1 DEF JobsInv, OneImporter
<1>3. Uncounted' => Uncounted
  BY <1>1 DEF Uncounted
<1>4. NothingBeforeCount'
  BY <1>1, <1>3 DEF JobsInv, NothingBeforeCount, InChunk
<1>5. ChunksInRange'
  BY <1>1 DEF JobsInv, ChunksInRange
<1>6. NoneAhead'
  BY <1>1 DEF JobsInv, NoneAhead
<1>7. EachChunkOnce'
  BY <1>1 DEF JobsInv, EachChunkOnce
<1> QED BY <1>2, <1>4, <1>5, <1>6, <1>7 DEF JobsInv

LEMMA InitIInv == Init => IInv
<1> SUFFICES ASSUME Init PROVE IInv
  OBVIOUS
<1>1. Job("import", 0) \in Jobs
  BY DEF Jobs, Kind, Job
<1>2. QueueTypeOK(Kind, PC)
  BY <1>1, QueueInitTypes, QueueAssumption DEF Init, Jobs
<1>3. waiting = {Job("import", 0)} /\ \A w \in Worker : running[w].pc = "idle"
  BY DEF Init, QueueInit, Idle
<1>4. TypeOK
  <2>1. reported \in BOOLEAN /\ file \in BOOLEAN
    BY DEF Init
  <2>2. chunk \in [Chunk -> ChunkStatus] /\ refused \subseteq Chunk
    BY DEF Init, ChunkStatus
  <2>3. status \in InProgress \cup Settled /\ total \in 0..MaxChunks /\ length \in 0..MaxChunks
    BY ImportAssumption DEF Init, InProgress
  <2> QED BY <1>2, <2>1, <2>2, <2>3 DEF TypeOK, Init, Kind
<1>5. JobsInv
  BY <1>3 DEF Init, JobsInv, OneImporter, NothingBeforeCount, ChunksInRange, NoneAhead,
     EachChunkOnce, Importing, InChunk, Job, Success
<1> QED BY <1>3, <1>4, <1>5 DEF IInv, Init, RowsOfProcessing, DroppedWhenStopped,
        DoneMeansAllChunksDone, Success

\* Cancelling and clearing leave the queue alone.
LEMMA UserIInv ==
    ASSUME IInv,
           \/ CancelChecked \/ CancelUnlinked \/ CancelWritten
           \/ CancelFormWritten \/ CancelFormDropped \/ Clear
    PROVE  IInv'
<1>1. /\ UNCHANGED <<waiting, reserved, running, faults, total, reported>>
      /\ status' = status \/ status' \in {"cancelled", "deleted"}
      /\ status = "deleted" => status' = "deleted"
      /\ \/ UNCHANGED <<chunk, refused>>
         \/ /\ chunk' = [i \in Chunk |-> "none"] /\ refused' = {}
            /\ status' \notin Success
      /\ status' \in Success => UNCHANGED <<chunk, refused>>
  BY DEF IInv, DroppedWhenStopped, CancelChecked, CancelUnlinked, CancelWritten,
     CancelFormWritten, CancelFormDropped, Clear, queue, import, SetStatus, Success
<1>2. TypeOK'
  <2>1. QueueTypeOK(Kind, PC)'
    BY <1>1, QueueTyped DEF IInv, QueueTypeOK
  <2>2. /\ file' \in BOOLEAN /\ length' \in 0..MaxChunks
        /\ cancelling' \in {"check", "unlink", "cancel", "cancelForm", "dropChunks", "done"}
    BY DEF IInv, TypeOK, CancelChecked, CancelUnlinked, CancelWritten,
       CancelFormWritten, CancelFormDropped, Clear
  <2> QED BY <1>1, <2>1, <2>2 DEF IInv, TypeOK, Kind, Settled, ChunkStatus
<1>3. JobsInv'
  <2>1. \A i \in Chunk : chunk'[i] # "none" => chunk[i] # "none"
    BY <1>1
  <2>2. Uncounted => status' \notin Success
    BY <1>1 DEF IInv, JobsInv, NothingBeforeCount, Success
  <2> QED BY <1>1, <2>1, <2>2, JobsKept DEF IInv, Winds
<1>4. RowsOfProcessing'
  <2> SUFFICES ASSUME NEW w \in Worker, running[w].pc = "rows"
               PROVE  chunk'[running[w].job.n] \in {"processing", "none"}
    BY <1>1 DEF RowsOfProcessing
  <2>1. running[w].job.n \in Chunk
    BY ImportAssumption DEF IInv, JobsInv, ChunksInRange, InChunk, TypeOK, Chunk
  <2> QED BY <1>1, <2>1 DEF IInv, RowsOfProcessing
<1>5. DroppedWhenStopped'
  BY DEF IInv, DroppedWhenStopped, CancelChecked, CancelUnlinked, CancelWritten,
     CancelFormWritten, CancelFormDropped, Clear, SetStatus, import
<1>6. DoneMeansAllChunksDone'
  BY <1>1 DEF IInv, DoneMeansAllChunksDone, Success
<1> QED BY <1>2, <1>3, <1>4, <1>5, <1>6 DEF IInv

\* Returning, perhaps after failing the import, keeps the invariant,
LEMMA StopIInv ==
    ASSUME IInv, QueueTypeOK(Kind, PC)',
           \A v \in Worker : running'[v] = running[v] \/ running'[v].pc = "idle",
           waiting' = waiting,
           status' = status \/ (status # "deleted" /\ status' = "failed"),
           UNCHANGED <<total, chunk, refused, reported, user>>
    PROVE  IInv'
<1>1. TypeOK'
  BY DEF IInv, TypeOK, Kind, Settled, user
<1>2. JobsInv'
  BY JobsKept DEF IInv, Winds, JobsInv, NothingBeforeCount, Success
<1>3. RowsOfProcessing'
  BY DEF IInv, RowsOfProcessing
<1>4. DroppedWhenStopped' /\ DoneMeansAllChunksDone'
  BY DEF IInv, DroppedWhenStopped, DoneMeansAllChunksDone, Success, user
<1> QED BY <1>1, <1>2, <1>3, <1>4 DEF IInv

LEMMA ReturnIInv ==
    ASSUME IInv, NEW w \in Worker, Return(w, {}),
           status' = status \/ (status # "deleted" /\ status' = "failed"),
           UNCHANGED <<total, chunk, refused, reported, user>>
    PROVE  IInv'
<1>1. /\ QueueTypeOK(Kind, PC)' /\ running'[w].pc = "idle" /\ waiting' = waiting \cup {}
      /\ \A v \in Worker \ {w} : running'[v] = running[v]
  BY ReturnEffect DEF IInv
<1> QED BY <1>1, StopIInv

\* and so do faults.
LEMMA FaultIInv ==
    ASSUME IInv,
           \/ \E w \in Worker : JobFails(w) \/ WorkerDies(w)
           \/ AbandonedJobFails \/ SlowJobFails
    PROVE  IInv'
<1>1. /\ UNCHANGED <<total, chunk, refused, reported, user>>
      /\ status' = status \/ (status # "deleted" /\ status' = "failed")
      /\ (\E w \in Worker : Throw(w) \/ Kill(w)) \/ FailAbandoned \/ FailOverrun
  BY DEF JobFails, WorkerDies, AbandonedJobFails, SlowJobFails, SetStatus, import, user
<1>2. /\ QueueTypeOK(Kind, PC)'
      /\ \A v \in Worker : running'[v] = running[v] \/ running'[v].pc = "idle"
      /\ waiting' = waiting
  BY <1>1, FaultEffect DEF IInv
<1> QED BY <1>1, <1>2, StopIInv

LEMMA TakeJobIInv ==
    ASSUME IInv, NEW w \in Worker, TakeJob(w)
    PROVE  IInv'
<1>1. QueueTypeOK(Kind, PC) /\ running \in [Worker -> {Idle} \cup Running]
  BY QueueTyped DEF IInv
<1>2. QueueTypeOK(Kind, PC)'
  BY <1>1, ReserveTypes, KindsStart DEF TakeJob
<1>3. UNCHANGED <<status, total, chunk, refused, reported, user>>
  BY DEF TakeJob, import, user
<1>4. PICK j \in waiting :
         /\ waiting' = waiting \ {j}
         /\ running[w] = Idle
         /\ running' = [running EXCEPT ![w] = [pc |-> j.kind, job |-> j, next |-> 1]]
  BY DEF TakeJob, Reserve
<1>5. /\ j \in Jobs
      /\ running'[w] = [pc |-> j.kind, job |-> j, next |-> 1]
      /\ \A v \in Worker \ {w} : running'[v] = running[v]
  BY <1>1, <1>4 DEF QueueTypeOK, Jobs
<1>6. /\ running'[w].pc = j.kind /\ running'[w].job = j /\ running'[w].next = 1
      /\ j.kind \in {"import", "chunk"}
  BY <1>5 DEF Jobs, Kind
<1>7. OneImporter'
  BY <1>4, <1>5, <1>6 DEF IInv, JobsInv, OneImporter, Importing
<1>8. Uncounted' => Uncounted
  BY <1>4, <1>5, <1>6 DEF Uncounted
<1>9. NothingBeforeCount'
  BY <1>3, <1>4, <1>5, <1>6, <1>8 DEF IInv, JobsInv, NothingBeforeCount
<1>10. ChunksInRange'
  BY <1>3, <1>4, <1>5, <1>6 DEF IInv, JobsInv, ChunksInRange, InChunk
<1>11. NoneAhead'
  BY <1>3, <1>4, <1>5, <1>6 DEF IInv, JobsInv, NoneAhead, InChunk
<1>12. EachChunkOnce'
  <2>1. \A i \in waiting \ {j} : i.kind = "chunk" /\ j.kind = "chunk" => i.n # j.n
    BY <1>1, <1>4 DEF QueueTypeOK, Jobs
  <2> QED BY <1>4, <1>5, <1>6, <2>1 DEF IInv, JobsInv, EachChunkOnce, InChunk
<1>13. RowsOfProcessing'
  BY <1>3, <1>5, <1>6 DEF IInv, RowsOfProcessing
<1>14. TypeOK'
  BY <1>2, <1>3 DEF IInv, TypeOK, Kind, user
<1>15. DroppedWhenStopped' /\ DoneMeansAllChunksDone'
  BY <1>3 DEF IInv, DroppedWhenStopped, DoneMeansAllChunksDone, user
<1> QED BY <1>7, <1>9, <1>10, <1>11, <1>12, <1>13, <1>14, <1>15 DEF IInv, JobsInv
-----------------------------------------------------------------------------
(* ProcessImport *)

LEMMA ClaimImportIInv ==
    ASSUME IInv, NEW w \in Worker, ClaimImport(w)
    PROVE  IInv'
<1>1. TypeOK /\ running[w].pc = "import"
  BY DEF IInv, ClaimImport, At
<1>2. UNCHANGED <<total, chunk, refused, reported, user>>
  BY DEF ClaimImport, user
<1>3. CASE status = "pending"
  <2>1. status' = "processing" /\ Continue(w, "read")
    BY <1>3 DEF ClaimImport
  <2>2. /\ QueueTypeOK(Kind, PC)' /\ running'[w].pc = "read" /\ waiting' = waiting
        /\ running'[w].next = running[w].next
        /\ \A v \in Worker \ {w} : running'[v] = running[v]
    BY <1>1, <2>1, ContinueEffect DEF PC
  <2>3. JobsInv'
    BY <1>1, <1>2, <2>1, <2>2, JobsKept DEF IInv, Winds, Success
  <2>4. TypeOK'
    BY <1>1, <1>2, <2>1, <2>2 DEF TypeOK, Kind, InProgress, user
  <2>5. RowsOfProcessing' /\ DroppedWhenStopped' /\ DoneMeansAllChunksDone'
    BY <1>2, <1>3, <2>1, <2>2 DEF IInv, RowsOfProcessing, DroppedWhenStopped,
       DoneMeansAllChunksDone, Success, user
  <2> QED BY <2>3, <2>4, <2>5 DEF IInv
<1>4. CASE status # "pending"
  BY <1>2, <1>4, ReturnIInv DEF ClaimImport
<1> QED BY <1>3, <1>4

LEMMA ReadFileIInv ==
    ASSUME IInv, NEW w \in Worker, ReadFile(w)
    PROVE  IInv'
<1>1. TypeOK /\ running[w].pc = "read"
  BY DEF IInv, ReadFile, At
<1>2. UNCHANGED <<chunk, refused, reported, user>>
  BY DEF ReadFile, user
<1>3. CASE ~file \/ length = 0
  BY <1>2, <1>3, ReturnIInv DEF ReadFile, SetStatus
<1>4. CASE ~(~file \/ length = 0)
  <2>1. total' = length /\ Continue(w, "create") /\ UNCHANGED status
    BY <1>4 DEF ReadFile
  <2>2. /\ QueueTypeOK(Kind, PC)' /\ running'[w].pc = "create" /\ waiting' = waiting
        /\ running'[w].next = running[w].next
        /\ \A v \in Worker \ {w} : running'[v] = running[v]
    BY <1>1, <2>1, ContinueEffect DEF PC
  <2>3. /\ status \notin Success
        /\ \A i \in Chunk : chunk[i] = "none"
        /\ \A j \in waiting : j.kind # "chunk"
        /\ \A v \in Worker : running[v].pc \notin {"chunk", "rows", "finalize"}
    BY <1>1 DEF Uncounted, NothingBeforeCount, JobsInv, IInv
  <2>4. OneImporter'
    BY <1>1, <2>2 DEF OneImporter, Importing, JobsInv, IInv
  <2>5. ~Uncounted'
    BY <1>1, <2>2 DEF Uncounted, OneImporter, Importing, JobsInv, IInv
  <2>6. \A v \in Worker : running'[v].pc = "create" => v = w
    BY <2>2, <2>4 DEF OneImporter, Importing
  <2>7. running[w].next \in 1..length
    BY <1>1, <1>4 DEF OneImporter, TypeOK, JobsInv, IInv
  <2>8. ChunksInRange' /\ NoneAhead' /\ EachChunkOnce'
    BY <1>2, <2>1, <2>2, <2>3, <2>6, <2>7 DEF ChunksInRange, NoneAhead, EachChunkOnce, InChunk
  <2>9. TypeOK'
    BY <1>1, <1>2, <2>1, <2>2 DEF TypeOK, Kind, user
  <2>10. RowsOfProcessing' /\ DroppedWhenStopped' /\ DoneMeansAllChunksDone'
    BY <1>2, <2>1, <2>2, <2>3 DEF IInv, RowsOfProcessing, DroppedWhenStopped,
       DoneMeansAllChunksDone, user
  <2> QED BY <2>4, <2>5, <2>8, <2>9, <2>10 DEF IInv, JobsInv, NothingBeforeCount
<1> QED BY <1>3, <1>4

\* The chunk that is created is the first of those ahead.
LEMMA CreateChunkIInv ==
    ASSUME IInv, NEW w \in Worker, CreateChunk(w)
    PROVE  IInv'
<1>1. /\ TypeOK /\ QueueTypeOK(Kind, PC) /\ running[w].pc = "create"
      /\ running[w].next \in 1..total /\ total \in 0..MaxChunks /\ total \in Nat
      /\ chunk \in [Chunk -> ChunkStatus]
  BY ImportAssumption, QueueTyped DEF IInv, JobsInv, CreateChunk, At, ChunksInRange, TypeOK
<1>2. UNCHANGED <<status, total, refused, reported, user>>
  BY DEF CreateChunk, user
<1>3. PICK i \in 1..total : i = running[w].next
  BY <1>1
<1>4. CASE status = "deleted"
  <2>1. Return(w, {}) /\ UNCHANGED chunk
    BY <1>4 DEF CreateChunk
  <2> QED BY <1>2, <2>1, ReturnIInv
<1>5. CASE status # "deleted"
  <2>1. /\ chunk' = [chunk EXCEPT ![i] = "pending"]
        /\ IF i = total
           THEN Return(w, {Job("chunk", i)})
           ELSE /\ waiting' = waiting \cup {Job("chunk", i)}
                /\ GoTo(w, "create", i + 1)
                /\ UNCHANGED <<reserved, faults>>
    BY <1>3, <1>5 DEF CreateChunk
  <2>2. i \in Chunk /\ i \in Nat /\ chunk[i] = "none"
    BY <1>1, <1>3, ImportAssumption DEF Chunk, IInv, JobsInv, NoneAhead
  <2>3. Job("chunk", i) \in Jobs /\ Job("chunk", i).kind = "chunk" /\ Job("chunk", i).n = i
    BY <2>2 DEF Jobs, Kind, Job
  <2>4. PICK job \in Jobs : job = Job("chunk", i)
    BY <2>3
  <2>5. job.kind = "chunk" /\ job.n = i
    BY <2>3, <2>4
  <2>6. /\ QueueTypeOK(Kind, PC)' /\ waiting' = waiting \cup {job}
        /\ \A v \in Worker \ {w} : running'[v] = running[v]
        /\ \/ running'[w].pc = "idle"
           \/ running'[w].pc = "create" /\ running'[w].next = i + 1 /\ i + 1 \in 1..total
    <3>1. CASE i = total
      <4>1. Return(w, {job})
        BY <2>1, <2>4, <3>1
      <4> QED BY <1>1, <4>1, ReturnEffect
    <3>2. CASE i # total
      <4>1. /\ waiting' = waiting \cup {job}
            /\ GoTo(w, "create", i + 1)
            /\ UNCHANGED <<reserved, faults>>
        BY <2>1, <2>4, <3>2
      <4>2. i + 1 \in 1..total /\ i + 1 \in Nat /\ "create" \in PC
        BY <1>1, <2>2, <3>2 DEF PC
      <4>3. {job} \in SUBSET [kind : Kind, n : Nat] /\ running[w].pc # "idle"
        BY <1>1 DEF Jobs
      <4>4. QueueTypeOK(Kind, PC)'
        BY ONLY <1>1, <4>1, <4>2, <4>3, GoToTypes, w \in Worker
      <4>5. running[w] \in Running /\ running \in [Worker -> {Idle} \cup Running]
        BY <1>1, BusyJob, QueueTyped DEF Jobs, Running
      <4> QED BY <4>1, <4>2, <4>4, <4>5 DEF GoTo, Running
    <3> QED BY <3>1, <3>2
  <2>7. ~Uncounted
    BY <1>1 DEF Uncounted, OneImporter, Importing, JobsInv, IInv
  <2>8. ~Uncounted'
    BY <2>5, <2>6, <2>7 DEF Uncounted
  <2>9. OneImporter'
    BY <1>1, <2>5, <2>6 DEF OneImporter, Importing, JobsInv, IInv
  <2>10. \A v \in Worker : InChunk(v)' => InChunk(v) /\ v # w /\ running'[v] = running[v]
    BY <2>6 DEF InChunk
  <2>11. ChunksInRange'
    BY <1>1, <1>2, <2>1, <2>2, <2>5, <2>6, <2>10 DEF ChunksInRange, JobsInv, IInv
  <2>12. \A v \in Worker : running'[v].pc = "create" => v = w
    BY <1>1, <2>6 DEF OneImporter, Importing, JobsInv, IInv
  <2>13. /\ \A k \in Chunk : k >= i => chunk[k] = "none"
         /\ \A j \in waiting : j.kind = "chunk" => j.n < i
         /\ \A v \in Worker : InChunk(v) => running[v].job.n < i
    BY <1>1, <1>3 DEF NoneAhead, JobsInv, IInv
  <2>14. NoneAhead'
    <3> SUFFICES ASSUME running'[w].pc = "create"
                 PROVE  /\ \A k \in Chunk : k >= i + 1 => chunk'[k] = "none"
                        /\ \A j \in waiting' : j.kind = "chunk" => j.n < i + 1
                        /\ \A v \in Worker : InChunk(v)' => running'[v].job.n < i + 1
      BY <2>6, <2>12 DEF NoneAhead
    <3>1. \A k \in Chunk : k >= i + 1 => chunk'[k] = "none"
      BY <1>1, <2>1, <2>2, <2>13 DEF Chunk
    <3>2. \A j \in waiting : j.kind = "chunk" => j.n < i + 1
      BY <1>1, <2>2, <2>13 DEF ChunksInRange, JobsInv, IInv
    <3>3. \A v \in Worker : InChunk(v)' => running'[v].job.n < i + 1
      BY <1>1, <2>2, <2>10, <2>13 DEF ChunksInRange, JobsInv, IInv
    <3> QED BY <2>2, <2>5, <2>6, <3>1, <3>2, <3>3
  <2>15. EachChunkOnce'
    <3>1. \A v \in Worker : InChunk(v) => running[v].job.n # i
      BY <1>1, <2>2, <2>13 DEF ChunksInRange, JobsInv, IInv
    <3> QED BY <2>5, <2>6, <2>10, <3>1 DEF EachChunkOnce, JobsInv, IInv
  <2>16. RowsOfProcessing'
    <3> SUFFICES ASSUME NEW v \in Worker, running'[v].pc = "rows"
                 PROVE  chunk'[running'[v].job.n] \in {"processing", "none"}
      BY DEF RowsOfProcessing
    <3>1. InChunk(v)' /\ InChunk(v) /\ running'[v] = running[v]
      BY <2>10 DEF InChunk
    <3>2. running[v].job.n \in 1..total /\ running[v].job.n < i
      BY <2>13, <3>1 DEF ChunksInRange, JobsInv, IInv
    <3>3. chunk'[running[v].job.n] = chunk[running[v].job.n]
      BY <1>1, <2>1, <2>2, <3>2 DEF Chunk
    <3> QED BY <3>1, <3>3 DEF RowsOfProcessing, IInv
  <2>17. TypeOK'
    BY <1>1, <1>2, <2>1, <2>6 DEF TypeOK, Kind, user, ChunkStatus
  <2>18. DroppedWhenStopped'
    BY <1>2 DEF DroppedWhenStopped, IInv, user
  <2>19. DoneMeansAllChunksDone'
    BY <1>2, <2>2 DEF DoneMeansAllChunksDone, IInv
  <2> QED BY <2>8, <2>9, <2>11, <2>14, <2>15, <2>16, <2>17, <2>18, <2>19
          DEF IInv, JobsInv, NothingBeforeCount
<1> QED BY <1>4, <1>5
-----------------------------------------------------------------------------
(* ProcessImportChunk *)

\* Going on with one's own chunk disturbs no other.
LEMMA OwnChunk ==
    ASSUME IInv, NEW w \in Worker, InChunk(w), NEW i, i = running[w].job.n,
           NEW s \in ChunkStatus \ {"none"}, SetChunk(i, s),
           NEW pc \in {"rows", "finalize"}, Continue(w, pc),
           pc = "rows" => running[w].pc = "chunk" /\ s = "processing",
           pc = "finalize" => running[w].pc = "rows",
           UNCHANGED <<status, total, user>>
    PROVE  /\ QueueTypeOK(Kind, PC)' /\ JobsInv' /\ RowsOfProcessing' /\ DroppedWhenStopped'
           /\ chunk' \in [Chunk -> ChunkStatus]
           /\ i \in Chunk /\ i \in 1..total
<1>1. TypeOK /\ chunk \in [Chunk -> ChunkStatus] /\ pc \in PC /\ running[w].pc # "idle"
  BY DEF IInv, TypeOK, PC, InChunk
<1>2. i \in 1..total /\ i \in Chunk
  BY ImportAssumption DEF IInv, JobsInv, ChunksInRange, TypeOK, Chunk
<1>3. /\ QueueTypeOK(Kind, PC)' /\ running'[w].pc = pc /\ waiting' = waiting
      /\ running'[w].job = running[w].job
      /\ \A v \in Worker \ {w} : running'[v] = running[v]
  BY <1>1, ContinueEffect
<1>4. /\ chunk' \in [Chunk -> ChunkStatus]
      /\ \A k \in Chunk : chunk'[k] = chunk[k] \/ (k = i /\ chunk[i] # "none" /\ chunk'[i] = s)
  BY <1>1, <1>2 DEF SetChunk
<1>5. JobsInv'
  BY <1>3, <1>4, JobsKept DEF IInv, Winds, JobsInv, NothingBeforeCount
<1>6. RowsOfProcessing'
  <2> SUFFICES ASSUME NEW v \in Worker, running'[v].pc = "rows"
               PROVE  chunk'[running'[v].job.n] \in {"processing", "none"}
    BY DEF RowsOfProcessing
  <2>1. CASE v = w
    <3>1. s = "processing" /\ running'[v].job.n = i
      BY <1>3, <2>1
    <3>2. chunk'[i] = "none" \/ chunk'[i] = s
      BY <1>1, <1>2, <1>4, <3>1 DEF SetChunk
    <3> QED BY <3>1, <3>2
  <2>2. CASE v # w
    <3>1. running'[v] = running[v] /\ InChunk(v)
      BY <1>3, <2>2 DEF InChunk
    <3>2. running[v].job.n # i /\ running[v].job.n \in Chunk
      BY <2>2, <3>1, ImportAssumption DEF IInv, JobsInv, EachChunkOnce, ChunksInRange, TypeOK, Chunk
    <3>3. chunk'[running[v].job.n] = chunk[running[v].job.n]
      BY <1>4, <3>2
    <3> QED BY <3>1, <3>3 DEF IInv, RowsOfProcessing
  <2> QED BY <2>1, <2>2
<1>7. DroppedWhenStopped'
  BY DEF IInv, DroppedWhenStopped, user
<1> QED BY <1>2, <1>3, <1>4, <1>5, <1>6, <1>7

LEMMA ClaimChunkIInv ==
    ASSUME IInv, NEW w \in Worker, ClaimChunk(w)
    PROVE  IInv'
<1>1. TypeOK /\ InChunk(w) /\ running[w].pc = "chunk" /\ chunk \in [Chunk -> ChunkStatus]
  BY DEF IInv, ClaimChunk, At, InChunk, TypeOK
<1>2. UNCHANGED <<status, total, refused, reported, user>>
  BY DEF ClaimChunk, user
<1>3. PICK i : i = running[w].job.n
  OBVIOUS
<1>4. CASE status \in {"cancelled", "deleted"}
  <2>1. SetChunk(i, "cancelled") /\ Return(w, {})
    BY <1>3, <1>4 DEF ClaimChunk
  <2>2. /\ QueueTypeOK(Kind, PC)' /\ running'[w].pc = "idle" /\ waiting' = waiting \cup {}
        /\ \A v \in Worker \ {w} : running'[v] = running[v]
    BY <1>1, <2>1, ReturnEffect
  <2>3. /\ chunk' \in [Chunk -> ChunkStatus]
        /\ \A k \in Chunk : chunk'[k] # "none" => chunk[k] # "none"
        /\ \A k \in Chunk : k # i => chunk'[k] = chunk[k]
    BY <1>1, <2>1 DEF SetChunk, ChunkStatus
  <2>4. JobsInv'
    BY <1>2, <1>4, <2>2, <2>3, JobsKept DEF IInv, Winds, Success
  <2>5. RowsOfProcessing'
    <3> SUFFICES ASSUME NEW v \in Worker, running'[v].pc = "rows"
                 PROVE  chunk'[running'[v].job.n] \in {"processing", "none"}
      BY DEF RowsOfProcessing
    <3>1. v # w /\ running'[v] = running[v] /\ InChunk(v)
      BY <2>2 DEF InChunk
    <3>2. running[v].job.n # i /\ running[v].job.n \in Chunk
      BY <1>1, <1>3, <3>1, ImportAssumption
         DEF IInv, JobsInv, EachChunkOnce, ChunksInRange, TypeOK, Chunk
    <3> QED BY <2>3, <3>1, <3>2 DEF IInv, RowsOfProcessing
  <2>6. TypeOK'
    BY <1>1, <1>2, <2>2, <2>3 DEF TypeOK, Kind, user
  <2>7. DroppedWhenStopped' /\ DoneMeansAllChunksDone'
    BY <1>2, <1>4 DEF IInv, DroppedWhenStopped, DoneMeansAllChunksDone, Success, user
  <2> QED BY <2>4, <2>5, <2>6, <2>7 DEF IInv
<1>5. CASE status \notin {"cancelled", "deleted"} /\ chunk[i] \in Skipped
  <2>1. Return(w, {}) /\ UNCHANGED chunk
    BY <1>3, <1>5 DEF ClaimChunk
  <2> QED BY <1>2, <2>1, ReturnIInv
<1>6. CASE status \notin {"cancelled", "deleted"} /\ chunk[i] \notin Skipped
  <2>1. SetChunk(i, "processing") /\ Continue(w, "rows")
    BY <1>3, <1>6 DEF ClaimChunk
  <2>2. /\ QueueTypeOK(Kind, PC)' /\ JobsInv' /\ RowsOfProcessing' /\ DroppedWhenStopped'
        /\ chunk' \in [Chunk -> ChunkStatus] /\ i \in 1..total
    BY <1>1, <1>2, <1>3, <2>1, OwnChunk DEF ChunkStatus
  <2>3. TypeOK'
    BY <1>1, <1>2, <2>2 DEF TypeOK, Kind, user
  <2>4. DoneMeansAllChunksDone'
    BY <1>2, <1>6, <2>2 DEF IInv, DoneMeansAllChunksDone, Skipped
  <2> QED BY <2>2, <2>3, <2>4 DEF IInv
<1> QED BY <1>4, <1>5, <1>6

LEMMA ProcessRowsIInv ==
    ASSUME IInv, NEW w \in Worker, ProcessRows(w)
    PROVE  IInv'
<1>1. TypeOK /\ InChunk(w) /\ running[w].pc = "rows"
  BY DEF IInv, ProcessRows, At, InChunk
<1>2. UNCHANGED <<status, total, reported, user>> /\ Continue(w, "finalize")
  BY DEF ProcessRows, user
<1>3. PICK i : i = running[w].job.n
  OBVIOUS
<1>4. PICK s \in Done : SetChunk(i, s)
  BY <1>3 DEF ProcessRows, Done
<1>5. /\ QueueTypeOK(Kind, PC)' /\ JobsInv' /\ RowsOfProcessing' /\ DroppedWhenStopped'
      /\ chunk' \in [Chunk -> ChunkStatus] /\ i \in 1..total /\ i \in Chunk
  BY <1>1, <1>2, <1>3, <1>4, OwnChunk DEF Done, ChunkStatus
<1>6. refused' \in {refused, refused \cup {i}}
  BY <1>3 DEF ProcessRows
<1>7. TypeOK'
  BY <1>1, <1>2, <1>5, <1>6 DEF TypeOK, Kind, user
\* A chunk that is done, as all those of a successful import are, is not processed.
<1>8. status \notin Success
  <2>1. chunk[i] \in {"processing", "none"}
    BY <1>1, <1>3 DEF IInv, RowsOfProcessing
  <2> QED BY <1>5, <2>1 DEF IInv, DoneMeansAllChunksDone
<1>9. DoneMeansAllChunksDone'
  BY <1>2, <1>8 DEF DoneMeansAllChunksDone
<1> QED BY <1>5, <1>7, <1>9 DEF IInv

\* As many chunks done as there are, within the count, are all of them.
LEMMA EnoughIsAll ==
    ASSUME total \in Nat, AllChunksDone, \A i \in Chunk : chunk[i] # "none" => i <= total,
           ImportAssumption, total <= MaxChunks
    PROVE  \A i \in 1..total : chunk[i] \in Done
<1> DEFINE S == {i \in Chunk : chunk[i] = "completed"}
           T == {i \in Chunk : chunk[i] = "failed"}
<1>1. S \in SUBSET (1..total) /\ T \in SUBSET (1..total) /\ S \cap T = {}
  BY DEF Chunk
<1>2. Cardinality(S) + Cardinality(T) >= total
  BY DEF AllChunksDone, ChunksIn
<1>3. \A i \in S \cup T : chunk[i] \in Done
  BY DEF Done
<1> HIDE DEF S, T
<1>4. IsFiniteSet(1..total) /\ Cardinality(1..total) = total
  BY FS_Interval
<1>5. IsFiniteSet(S) /\ IsFiniteSet(T)
  BY <1>1, <1>4, FS_Subset
<1>6. Cardinality({}) = 0 /\ Cardinality(S) \in Nat /\ Cardinality(T) \in Nat
  BY <1>5, FS_CardinalityType, FS_EmptySet
<1>7. Cardinality(S \cup T) = Cardinality(S) + Cardinality(T) - Cardinality(S \cap T)
  BY <1>5, FS_Union
<1>8. Cardinality(S \cup T) >= total
  <2>1. Cardinality(S \cap T) = 0
    BY <1>1, <1>6
  <2> QED BY <1>2, <1>6, <1>7, <2>1
<1>9. S \cup T \in SUBSET (1..total)
  BY <1>1
<1>10. Cardinality(S \cup T) <= total /\ (total = Cardinality(S \cup T) => 1..total = S \cup T)
  BY <1>4, <1>9, FS_Subset
<1>11. Cardinality(S \cup T) \in Nat
  BY <1>4, <1>9, FS_Subset, FS_CardinalityType
<1>12. 1..total = S \cup T
  BY <1>8, <1>10, <1>11
<1> QED BY <1>3, <1>12

LEMMA FinalizeIfCompleteIInv ==
    ASSUME IInv, NEW w \in Worker, FinalizeIfComplete(w)
    PROVE  IInv'
<1>1. UNCHANGED <<total, chunk, refused, user>> /\ Return(w, {})
  BY DEF FinalizeIfComplete, user
<1>2. CASE ~(status \notin Finalized /\ AllChunksDone)
  BY <1>1, <1>2, ReturnIInv DEF FinalizeIfComplete
<1>3. CASE status \notin Finalized /\ AllChunksDone
  <2>1. status' \in Success /\ (reported' <=> refused # {}) /\ reported' \in BOOLEAN
    BY <1>3 DEF FinalizeIfComplete, Success
  <2>2. /\ QueueTypeOK(Kind, PC)' /\ running'[w].pc = "idle" /\ waiting' = waiting \cup {}
        /\ \A v \in Worker \ {w} : running'[v] = running[v]
    BY <1>1, ReturnEffect DEF IInv
  <2>3. TypeOK'
    BY <1>1, <2>1, <2>2 DEF IInv, TypeOK, Kind, Settled, user
  <2>4. ~Uncounted
    BY <1>3 DEF AllChunksDone, IInv, JobsInv, NothingBeforeCount
  <2>5. JobsInv'
    BY <1>1, <2>2, <2>4, JobsKept DEF IInv, Winds
  <2>6. RowsOfProcessing'
    BY <1>1, <2>2 DEF IInv, RowsOfProcessing
  <2>7. DroppedWhenStopped'
    BY <1>1, <1>3 DEF IInv, DroppedWhenStopped, Finalized, user
  <2>8. \A i \in 1..total : chunk[i] \in Done
    BY <1>3, EnoughIsAll, ImportAssumption DEF IInv, TypeOK, JobsInv, ChunksInRange
  <2>9. DoneMeansAllChunksDone'
    BY <1>1, <2>1, <2>8 DEF DoneMeansAllChunksDone, Done
  <2> QED BY <2>3, <2>5, <2>6, <2>7, <2>9 DEF IInv
<1> QED BY <1>2, <1>3
-----------------------------------------------------------------------------
LEMMA NextIInv == IInv /\ [Next]_vars => IInv'
<1> SUFFICES ASSUME IInv, [Next]_vars PROVE IInv'
  OBVIOUS
<1>1. CASE UNCHANGED vars
  BY <1>1, QueueTyped DEF vars, queue, import, IInv, TypeOK, Kind, QueueTypeOK, JobsInv,
     OneImporter, NothingBeforeCount, ChunksInRange, NoneAhead, EachChunkOnce,
     RowsOfProcessing, DroppedWhenStopped, DoneMeansAllChunksDone, Importing, InChunk, Uncounted
<1>2. ASSUME NEW w \in Worker, Work(w) PROVE IInv'
  BY <1>2, TakeJobIInv, ClaimImportIInv, ReadFileIInv, CreateChunkIInv, ClaimChunkIInv,
     ProcessRowsIInv, FinalizeIfCompleteIInv DEF Work
<1>3. CASE \/ \E w \in Worker : JobFails(w) \/ WorkerDies(w)
           \/ AbandonedJobFails \/ SlowJobFails
  BY <1>3, FaultIInv
<1>4. CASE \/ CancelChecked \/ CancelUnlinked \/ CancelWritten
           \/ CancelFormWritten \/ CancelFormDropped \/ Clear
  BY <1>4, UserIInv
<1> QED BY <1>1, <1>2, <1>3, <1>4 DEF Next

(***************************************************************************)
(* Every reachable state of an import, its jobs and its workers is well    *)
(* formed.                                                                 *)
(***************************************************************************)
THEOREM ImportTypes == Spec => []TypeOK
<1>1. IInv => TypeOK
  BY DEF IInv
<1> QED BY InitIInv, NextIInv, <1>1, PTL DEF Spec

(***************************************************************************)
(* For any number of workers, chunks and faults: an import reported as     *)
(* done has no chunk left to process, and its totals count them all.       *)
(***************************************************************************)
THEOREM SuccessIsWhole == Spec => []DoneMeansAllChunksDone
<1>1. IInv => DoneMeansAllChunksDone
  BY DEF IInv
<1> QED BY InitIInv, NextIInv, <1>1, PTL DEF Spec

LEMMA StepOutcomeStands ==
    [Next]_vars =>
        [/\ status \in Settled => status' \in Settled
         /\ status \in Settled \ Success => status' \notin Success]_vars
<1> SUFFICES ASSUME Next
             PROVE  /\ status \in Settled => status' \in Settled
                    /\ status \in Settled \ Success => status' \notin Success
  OBVIOUS
<1> USE DEF Settled, Success, SetStatus
<1>1. ASSUME NEW w \in Worker, Work(w)
      PROVE  /\ status \in Settled => status' \in Settled
             /\ status \in Settled \ Success => status' \notin Success
  BY <1>1 DEF Work, TakeJob, ClaimImport, ReadFile, CreateChunk, ClaimChunk, ProcessRows,
     FinalizeIfComplete, Finalized, import
<1>2. CASE \/ \E w \in Worker : JobFails(w) \/ WorkerDies(w)
           \/ AbandonedJobFails \/ SlowJobFails
  BY <1>2 DEF JobFails, WorkerDies, AbandonedJobFails, SlowJobFails, import
<1>3. CASE \/ CancelChecked \/ CancelUnlinked \/ CancelWritten
           \/ CancelFormWritten \/ CancelFormDropped \/ Clear
  BY <1>3 DEF CancelChecked, CancelUnlinked, CancelWritten, CancelFormWritten,
     CancelFormDropped, Clear, import
<1> QED BY <1>1, <1>2, <1>3 DEF Next

(***************************************************************************)
(* No job that comes late, and nobody who cancels or clears late, turns an *)
(* import that was stopped into a successful one or starts it again.       *)
(***************************************************************************)
THEOREM EndedImportsStand == Spec => OutcomeStands
<1> QED BY StepOutcomeStands, PTL DEF Spec, OutcomeStands
=============================================================================
