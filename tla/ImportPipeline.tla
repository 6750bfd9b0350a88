--------------------------- MODULE ImportPipeline ---------------------------
(***************************************************************************)
(* One background import: the Import row, its import_chunks rows and the   *)
(* jobs ProcessImport and ProcessImportChunk, run by the workers of        *)
(* JobQueue, beside a user who cancels or clears it.                       *)
(*                                                                         *)
(* A locked transaction is one step; so is everything between two reads of *)
(* the database or of the uploaded file that others can tell apart.  Of a  *)
(* chunk's rows we keep only whether some of them were refused.            *)
(***************************************************************************)
EXTENDS JobQueue

CONSTANTS
    MaxChunks     \* bound: chunks of chunk_size rows the file may hold

ASSUME ImportAssumption == MaxChunks \in Nat

VARIABLES
    status,       \* Import.status, "deleted" once the row is gone
    total,        \* Import.total_chunks, 0 for null
    chunk,        \* ImportChunk.status, "none" when there is no row
    refused,      \* chunks whose failed_rows is positive
    reported,     \* Import.failed_rows > 0
    file,         \* the uploaded file is still there
    length,       \* its length in chunks
    cancelling    \* cancelImport: what it does next, "done" at last

import == <<status, total, chunk, refused, reported>>
vars == <<queue, import, file, length, cancelling>>

Chunk == 1..MaxChunks
InProgress == {"pending", "processing"}
Success == {"completed", "completed_with_errors"}
Settled == Success \cup {"failed", "cancelled", "deleted"}
ChunkStatus == {"none", "pending", "processing", "completed", "failed", "cancelled"}
PC == {"import", "read", "create", "chunk", "rows", "finalize"}

Init ==
    /\ QueueInit(Job("import", 0))
    /\ status = "pending"
    /\ total = 0
    /\ chunk = [i \in Chunk |-> "none"]
    /\ refused = {}
    /\ reported = FALSE
    /\ file = TRUE
    /\ length \in 0..MaxChunks
    /\ cancelling = "check"

\* An UPDATE by key touches nothing once the row is deleted.
SetStatus(s) == status' = IF status = "deleted" THEN status ELSE s
SetChunk(i, s) ==
    chunk' = IF chunk[i] = "none" THEN chunk ELSE [chunk EXCEPT ![i] = s]

-----------------------------------------------------------------------------
(* ProcessImport::handle *)

ClaimImport(w) ==
    /\ At(w, "import")
    /\ IF status = "pending"
       THEN status' = "processing" /\ Continue(w, "read")
       ELSE Return(w, {}) /\ UNCHANGED status
    /\ UNCHANGED <<total, chunk, refused, reported, file, length, cancelling>>

\* Mutant: the header row is counted too.
ReadFileWithHeader(w) ==
    /\ At(w, "read")
    /\ IF ~file
       THEN SetStatus("failed") /\ Return(w, {}) /\ UNCHANGED total
       ELSE total' = length + 1 /\ Continue(w, "create") /\ UNCHANGED status
    /\ UNCHANGED <<chunk, refused, reported, file, length, cancelling>>

\* The catch block and failed() alike mark the import failed: an unreadable or
\* empty file ends the import, whatever its status has become.
ReadFile(w) ==
    /\ At(w, "read")
    /\ IF ~file \/ length = 0
       THEN SetStatus("failed") /\ Return(w, {}) /\ UNCHANGED total
       ELSE total' = length /\ Continue(w, "create") /\ UNCHANGED status
    /\ UNCHANGED <<chunk, refused, reported, file, length, cancelling>>

\* A chunk row of a deleted import breaks its foreign key, and failed() finds
\* no import.
CreateChunk(w) ==
    /\ At(w, "create")
    /\ LET i == running[w].next
       IN  IF status = "deleted"
           THEN Return(w, {}) /\ UNCHANGED chunk
           ELSE /\ chunk' = [chunk EXCEPT ![i] = "pending"]
                /\ IF i = total
                   THEN Return(w, {Job("chunk", i)})
                   ELSE /\ waiting' = waiting \cup {Job("chunk", i)}
                        /\ GoTo(w, "create", i + 1)
                        /\ UNCHANGED <<reserved, faults>>
    /\ UNCHANGED <<status, total, refused, reported, file, length, cancelling>>

-----------------------------------------------------------------------------
(* ProcessImportChunk::handle *)

Skipped == {"none", "completed", "failed"}

\* Both rows are locked; a failed import does not stop its chunks.
ClaimChunk(w) ==
    /\ At(w, "chunk")
    /\ LET i == running[w].job.n
       IN  IF status \in {"cancelled", "deleted"}
           THEN SetChunk(i, "cancelled") /\ Return(w, {})
           ELSE IF chunk[i] \in Skipped
           THEN Return(w, {}) /\ UNCHANGED chunk
           ELSE SetChunk(i, "processing") /\ Continue(w, "rows")
    /\ UNCHANGED <<status, total, refused, reported, file, length, cancelling>>

\* The slice is read and its rows are stored one by one.  A file that is gone
\* fails the chunk, and so may anything its rows or the check for cancellation
\* (made every 100 rows) throw: failed_rows keeps its default, 0.
ProcessRows(w) ==
    /\ At(w, "rows")
    /\ LET i == running[w].job.n
       IN  \/ SetChunk(i, "failed") /\ UNCHANGED refused
           \/ /\ file
              /\ SetChunk(i, "completed")
              /\ \/ UNCHANGED refused
                 \/ chunk[i] # "none" /\ refused' = refused \cup {i}
    /\ Continue(w, "finalize")
    /\ UNCHANGED <<status, total, reported, file, length, cancelling>>

ChunksIn(s) == Cardinality({i \in Chunk : chunk[i] = s})

\* Mutants: the last chunk is not waited for; failed chunks are not counted.
AllButOneDone == total > 0 /\ ChunksIn("completed") + ChunksIn("failed") >= total - 1
AllChunksCompleted == total > 0 /\ ChunksIn("completed") >= total

AllChunksDone == total > 0 /\ ChunksIn("completed") + ChunksIn("failed") >= total

\* Mutant: a cancelled import is finalized all the same.
FinalizedUnlessCancelled == {"completed", "failed", "deleted"}

Finalized == {"completed", "failed", "cancelled", "deleted"}

\* finalizeIfComplete, under a lock on the Import row.
FinalizeIfComplete(w) ==
    /\ At(w, "finalize")
    /\ IF status \notin Finalized /\ AllChunksDone
       THEN /\ status' = IF refused # {} THEN "completed_with_errors" ELSE "completed"
            /\ reported' = (refused # {})
       ELSE UNCHANGED <<status, reported>>
    /\ Return(w, {})
    /\ UNCHANGED <<total, chunk, refused, file, length, cancelling>>

-----------------------------------------------------------------------------
JobFails(w) ==
    /\ Throw(w)
    /\ SetStatus("failed")
    /\ UNCHANGED <<total, chunk, refused, reported, file, length, cancelling>>

AbandonedJobFails ==
    /\ FailAbandoned
    /\ SetStatus("failed")
    /\ UNCHANGED <<total, chunk, refused, reported, file, length, cancelling>>

SlowJobFails ==
    /\ FailOverrun
    /\ SetStatus("failed")
    /\ UNCHANGED <<total, chunk, refused, reported, file, length, cancelling>>

WorkerDies(w) ==
    /\ Kill(w)
    /\ UNCHANGED <<import, file, length, cancelling>>

\* RecentImports::cancelImport reads the row and tests it, deletes the file,
\* then updates the row, all without a lock.
CancelChecked ==
    /\ cancelling = "check" /\ status \in InProgress
    /\ cancelling' \in {"unlink", "cancelForm"}
    /\ UNCHANGED <<queue, import, file, length>>

CancelUnlinked ==
    /\ cancelling = "unlink"
    /\ file' = FALSE
    /\ cancelling' = "cancel"
    /\ UNCHANGED <<queue, import, length>>

CancelWritten ==
    /\ cancelling = "cancel"
    /\ SetStatus("cancelled")
    /\ cancelling' = "done"
    /\ UNCHANGED <<queue, total, chunk, refused, reported, file, length>>

\* ImportForm::cancelImport makes the same test, updates the row and deletes
\* the chunks, not the file.
CancelFormWritten ==
    /\ cancelling = "cancelForm"
    /\ SetStatus("cancelled")
    /\ cancelling' = "dropChunks"
    /\ UNCHANGED <<queue, total, chunk, refused, reported, file, length>>

CancelFormDropped ==
    /\ cancelling = "dropChunks"
    /\ chunk' = [i \in Chunk |-> "none"]
    /\ refused' = {}
    /\ cancelling' = "done"
    /\ UNCHANGED <<queue, status, total, reported, file, length>>

\* performClearAll: the row, its chunks (by cascade) and its files.  An import
\* completed with errors is not among those it clears.
Clear ==
    /\ status \in {"completed", "failed", "cancelled"}
    /\ status' = "deleted"
    /\ chunk' = [i \in Chunk |-> "none"]
    /\ refused' = {}
    /\ file' = FALSE
    /\ UNCHANGED <<queue, total, reported, length, cancelling>>

TakeJob(w) ==
    /\ Reserve(w)
    /\ UNCHANGED <<import, file, length, cancelling>>

\* What a worker does by itself.
Work(w) ==
    \/ TakeJob(w)
    \/ ClaimImport(w) \/ ReadFile(w) \/ CreateChunk(w)
    \/ ClaimChunk(w) \/ ProcessRows(w) \/ FinalizeIfComplete(w)

Next ==
    \/ \E w \in Worker : Work(w) \/ JobFails(w) \/ WorkerDies(w)
    \/ AbandonedJobFails \/ SlowJobFails
    \/ CancelChecked \/ CancelUnlinked \/ CancelWritten
    \/ CancelFormWritten \/ CancelFormDropped
    \/ Clear

\* A queue worker keeps taking jobs and running them, and the queue hands out
\* again what was abandoned; nobody has to cancel, clear or fail anything.
Fairness ==
    /\ \A w \in Worker : WF_vars(Work(w))
    /\ WF_vars(AbandonedJobFails)

Spec == Init /\ [][Next]_vars
FairSpec == Spec /\ Fairness

-----------------------------------------------------------------------------
TypeOK ==
    /\ QueueTypeOK({"import", "chunk"}, PC)
    /\ status \in InProgress \cup Settled
    /\ total \in 0..MaxChunks
    /\ chunk \in [Chunk -> ChunkStatus]
    /\ refused \subseteq Chunk
    /\ reported \in BOOLEAN
    /\ file \in BOOLEAN
    /\ length \in 0..MaxChunks
    /\ cancelling \in {"check", "unlink", "cancel", "cancelForm", "dropChunks", "done"}

\* An import reported as done has none of its chunks left to process, and its
\* totals are those of all its chunks: nothing finishes after the last count
\* (finalizeIfComplete and the guard of ProcessImportChunk).
DoneMeansAllChunksDone ==
    status \in Success =>
        /\ \A i \in 1..total : chunk[i] \in {"completed", "failed"}
        /\ reported <=> refused # {}

\* Chunks that come late never turn an import that was cancelled, failed or
\* cleared into a successful one, nor any ended import back into a running one.
OutcomeStands ==
    [][/\ status \in Settled => status' \in Settled
       /\ status \in Settled \ Success => status' \notin Success]_vars

\* An import does not stay "processing" for ever, whatever is killed, deleted
\* or thrown: the promise of the failed() hooks.
Settles == status \in InProgress ~> status \in Settled

\* The success a user reads means that every chunk was imported.
CompletedMeansImported ==
    status = "completed" => \A i \in 1..total : chunk[i] = "completed"
=============================================================================
