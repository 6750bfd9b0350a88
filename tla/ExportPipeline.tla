--------------------------- MODULE ExportPipeline ---------------------------
(***************************************************************************)
(* One background export: the Export row, its export_chunks rows and the   *)
(* jobs GenerateExport, ExportChunk and FinalizeExportZip, run by the      *)
(* workers of JobQueue, beside a user who cancels or clears it and an      *)
(* application that goes on changing the exported table.                   *)
(*                                                                         *)
(* A locked transaction is one step; so is everything between two reads of *)
(* the database that others can tell apart.  Of the data we keep only how  *)
(* many slices of chunk_size rows the query still finds.                   *)
(***************************************************************************)
EXTENDS JobQueue

CONSTANTS
    MaxChunks,        \* bound: slices the query may find
    MaxRowChanges     \* bound: times the exported table changes

ASSUME ExportAssumption == MaxChunks \in Nat /\ MaxRowChanges \in Nat

VARIABLES
    status,       \* Export.status, "deleted" once the row is gone
    total,        \* Export.total_chunks, 0 for null
    parts,        \* the export_chunks rows, each with its part file
    archive,      \* the parts in export.zip
    finalizers,   \* history: chunks whose check dispatched FinalizeExportZip
    cancelling,   \* cancelExport: "no", "checked" after its read, "done"
    slices,       \* slices of rows the query finds now
    rowChanges

env == <<cancelling, slices, rowChanges>>
vars == <<queue, status, total, parts, archive, finalizers, env>>

InProgress == {"pending", "processing", "finalizing"}
Settled == {"completed", "failed", "cancelled", "deleted"}
PC == {"generate", "count", "dispatch", "chunk", "write", "check",
       "finalize", "build", "complete", "clean"}

Init ==
    /\ QueueInit(Job("generate", 0))
    /\ status = "pending"
    /\ total = 0
    /\ parts = {}
    /\ archive = {}
    /\ finalizers = {}
    /\ cancelling = "no"
    /\ slices \in 0..MaxChunks
    /\ rowChanges = 0

\* An UPDATE by key touches nothing once the row is deleted.
SetStatus(s) == status' = IF status = "deleted" THEN status ELSE s

-----------------------------------------------------------------------------
(* GenerateExport::handle *)

ClaimExport(w) ==
    /\ At(w, "generate")
    /\ IF status = "pending"
       THEN status' = "processing" /\ Continue(w, "count")
       ELSE Return(w, {}) /\ UNCHANGED status
    /\ UNCHANGED <<total, parts, archive, finalizers, env>>

\* Mutant: a chunk too many when the rows fill the last one.
CountOneTooMany(w) ==
    /\ At(w, "count")
    /\ IF slices = 0
       THEN SetStatus("failed") /\ Return(w, {}) /\ UNCHANGED total
       ELSE total' = slices + 1 /\ Continue(w, "dispatch") /\ UNCHANGED status
    /\ UNCHANGED <<parts, archive, finalizers, env>>

CountRows(w) ==
    /\ At(w, "count")
    /\ IF slices = 0
       THEN SetStatus("failed") /\ Return(w, {}) /\ UNCHANGED total
       ELSE total' = slices /\ Continue(w, "dispatch") /\ UNCHANGED status
    /\ UNCHANGED <<parts, archive, finalizers, env>>

DispatchChunk(w) ==
    /\ At(w, "dispatch")
    /\ LET i == running[w].next
       IN  IF i = total
           THEN Return(w, {Job("chunk", i)})
           ELSE /\ waiting' = waiting \cup {Job("chunk", i)}
                /\ GoTo(w, "dispatch", i + 1)
                /\ UNCHANGED <<reserved, faults>>
    /\ UNCHANGED <<status, total, parts, archive, finalizers, env>>

-----------------------------------------------------------------------------
(* ExportChunk::handle *)

LoadExport(w) ==
    /\ At(w, "chunk")
    /\ IF status \in {"cancelled", "deleted"} THEN Return(w, {})
                                              ELSE Continue(w, "write")
    /\ UNCHANGED <<status, total, parts, archive, finalizers, env>>

\* An empty slice returns at once, leaving no row and checking nothing; the
\* row of a deleted export breaks a foreign key, and failed() finds no export.
WritePart(w) ==
    /\ At(w, "write")
    /\ IF running[w].job.n > slices \/ status = "deleted"
       THEN Return(w, {}) /\ UNCHANGED parts
       ELSE parts' = parts \cup {running[w].job.n} /\ Continue(w, "check")
    /\ UNCHANGED <<status, total, archive, finalizers, env>>

\* Mutants: the last part is not waited for; any part will do; one part more
\* than there are is waited for.
AllButOneWritten == Cardinality(parts) >= total - 1
SomePartWritten == parts # {}
MorePartsWritten == Cardinality(parts) > total

AllPartsWritten == Cardinality(parts) >= total

\* Mutant: only a completed export is left alone.
CheckAndFinalizeAgain(w) ==
    /\ At(w, "check")
    /\ IF status \notin {"completed", "deleted"} /\ AllPartsWritten
       THEN /\ status' = "finalizing"
            /\ finalizers' = finalizers \cup {running[w].job.n}
            /\ Return(w, {Job("finalize", running[w].job.n)})
       ELSE Return(w, {}) /\ UNCHANGED <<status, finalizers>>
    /\ UNCHANGED <<total, parts, archive, env>>

\* checkAndFinalizeExport, under a lock on the Export row.  Each FinalizeExportZip
\* is numbered by the chunk whose check dispatched it.
CheckAndFinalize(w) ==
    /\ At(w, "check")
    /\ IF status \notin Settled /\ AllPartsWritten
       THEN /\ status' = "finalizing"
            /\ finalizers' = finalizers \cup {running[w].job.n}
            /\ Return(w, {Job("finalize", running[w].job.n)})
       ELSE Return(w, {}) /\ UNCHANGED <<status, finalizers>>
    /\ UNCHANGED <<total, parts, archive, env>>

-----------------------------------------------------------------------------
(* FinalizeExportZip::handle *)

CheckStatus(w) ==
    /\ At(w, "finalize")
    /\ IF status \in {"finalizing", "processing"} THEN Continue(w, "build")
                                                  ELSE Return(w, {})
    /\ UNCHANGED <<status, total, parts, archive, finalizers, env>>

\* Overwrites the zip with the parts whose rows and files are there now.
BuildArchive(w) ==
    /\ At(w, "build")
    /\ IF parts = {}
       THEN SetStatus("failed") /\ Return(w, {}) /\ UNCHANGED archive
       ELSE archive' = parts /\ Continue(w, "complete") /\ UNCHANGED status
    /\ UNCHANGED <<total, parts, finalizers, env>>

Complete(w) ==
    /\ At(w, "complete")
    /\ SetStatus("completed")
    /\ Continue(w, "clean")
    /\ UNCHANGED <<total, parts, archive, finalizers, env>>

\* Deletes the parts one by one, file and row.
CleanUp(w) ==
    /\ At(w, "clean")
    /\ IF parts = {}
       THEN Return(w, {}) /\ UNCHANGED parts
       ELSE /\ \E i \in parts : parts' = parts \ {i}
            /\ Continue(w, "clean")
    /\ UNCHANGED <<status, total, archive, finalizers, env>>

-----------------------------------------------------------------------------
\* Every catch block marks the export failed and rethrows, and every failed()
\* marks it failed whatever its status: an exception and a failed() are alike.
JobFails(w) ==
    /\ Throw(w)
    /\ SetStatus("failed")
    /\ UNCHANGED <<total, parts, archive, finalizers, env>>

AbandonedJobFails ==
    /\ FailAbandoned
    /\ SetStatus("failed")
    /\ UNCHANGED <<total, parts, archive, finalizers, env>>

SlowJobFails ==
    /\ FailOverrun
    /\ SetStatus("failed")
    /\ UNCHANGED <<total, parts, archive, finalizers, env>>

WorkerDies(w) ==
    /\ Kill(w)
    /\ UNCHANGED <<status, total, parts, archive, finalizers, env>>

\* cancelExport reads the row, tests its status, then updates it, unlocked.
CancelChecked ==
    /\ cancelling = "no"
    /\ status \in {"pending", "processing"}
    /\ cancelling' = "checked"
    /\ UNCHANGED <<queue, status, total, parts, archive, finalizers, slices, rowChanges>>

CancelWritten ==
    /\ cancelling = "checked"
    /\ cancelling' = "done"
    /\ SetStatus("cancelled")
    /\ UNCHANGED <<queue, total, parts, archive, finalizers, slices, rowChanges>>

\* performClearAllExports: the row, its chunks (by cascade) and its directory.
Clear ==
    /\ status \in {"completed", "failed"}
    /\ status' = "deleted"
    /\ parts' = {}
    /\ archive' = {}
    /\ UNCHANGED <<queue, total, finalizers, env>>

ChangeRows ==
    /\ rowChanges < MaxRowChanges
    /\ rowChanges' = rowChanges + 1
    /\ \E n \in 0..MaxChunks : n # slices /\ slices' = n
    /\ UNCHANGED <<queue, status, total, parts, archive, finalizers, cancelling>>

TakeJob(w) ==
    /\ Reserve(w)
    /\ UNCHANGED <<status, total, parts, archive, finalizers, env>>

\* What a worker does by itself.
Work(w) ==
    \/ TakeJob(w)
    \/ ClaimExport(w) \/ CountRows(w) \/ DispatchChunk(w)
    \/ LoadExport(w) \/ WritePart(w) \/ CheckAndFinalize(w)
    \/ CheckStatus(w) \/ BuildArchive(w) \/ Complete(w) \/ CleanUp(w)

Next ==
    \/ \E w \in Worker : Work(w) \/ JobFails(w) \/ WorkerDies(w)
    \/ AbandonedJobFails \/ SlowJobFails
    \/ CancelChecked \/ CancelWritten \/ Clear \/ ChangeRows

\* A queue worker keeps taking jobs and running them, and the queue hands out
\* again what was abandoned; nobody has to cancel, clear or fail anything.
Fairness ==
    /\ \A w \in Worker : WF_vars(Work(w))
    /\ WF_vars(AbandonedJobFails)

Spec == Init /\ [][Next]_vars
FairSpec == Spec /\ Fairness

-----------------------------------------------------------------------------
TypeOK ==
    /\ QueueTypeOK({"generate", "chunk", "finalize"}, PC)
    /\ status \in InProgress \cup Settled
    /\ total \in 0..MaxChunks
    /\ parts \subseteq 1..MaxChunks
    /\ archive \subseteq 1..MaxChunks
    /\ finalizers \subseteq 1..MaxChunks
    /\ cancelling \in {"no", "checked", "done"}
    /\ slices \in 0..MaxChunks
    /\ rowChanges \in 0..MaxRowChanges

\* An export is handed to the finalizer with every one of its parts written,
\* and keeps them for as long as it is finalizing (checkAndFinalizeExport).
FinalizingHasAllParts == status = "finalizing" => parts = 1..total

\* The ZIP of a completed export holds every part.  The comments of ExportChunk
\* and FinalizeExportZip claim it; two workers break it.
CompleteArchive == status = "completed" => archive = 1..total

\* It does whenever one FinalizeExportZip was dispatched, whatever is killed,
\* cancelled, cleared or handed out again meanwhile.
SoleFinalizerCompletes == Cardinality(finalizers) <= 1 => CompleteArchive

\* A job that comes late never brings back to life an export that has ended
\* or is gone: only another outcome may overwrite an outcome.
NeverRestarts == [][(status \in Settled) => (status' \in Settled)]_vars

\* An export whose rows stay where they are does not stay "processing" for
\* ever, whatever fails: the promise of the failed() hooks.
Settles == status \in InProgress ~> (status \in Settled \/ rowChanges > 0)
=============================================================================
