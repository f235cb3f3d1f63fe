--------------------------- MODULE ShapefileImport --------------------------
(***************************************************************************)
(* The import of a shapefile ZIP into PostGIS: the import, retry and cancel *)
(* requests, dispatch_shapefile_import, import_shapefile_task and          *)
(* import_shapefile_to_postgis, with the deletion of the layer.            *)
(*                                                                         *)
(* The worker commits after it creates a staging table, after each batch   *)
(* and after the index; the staging tables become the final ones in one    *)
(* transaction.  The names of both depend on the upload only: every task   *)
(* of an upload works on the same tables.                                  *)
(***************************************************************************)
EXTENDS Naturals, FiniteSets

CONSTANTS
    Requests,      \* API requests that can be in progress at once
    Workers,       \* Celery worker processes
    None,          \* no row, no layer, no table, no task
    NumDatasets,   \* shapefiles in the ZIP
    NumBatches,    \* batches of features in each
    MaxRequests,   \* bound: requests made; a task has its request's number
    MaxRetries,    \* the task's max_retries
    MaxFailures    \* bound: failures of the broker, a task, a worker or the API

ASSUME ConstantsAssumption ==
    /\ NumDatasets \in Nat \ {0}
    /\ NumBatches \in Nat \ {0}
    /\ MaxRequests \in Nat \ {0}
    /\ MaxRetries \in Nat
    /\ MaxFailures \in Nat
    /\ None \notin 1 .. MaxRequests

VARIABLES
    row,           \* the session's import columns; None once it is deleted
    layer,         \* the layer: None, without or with the imported tables
    stage,         \* each staging table, and how often it holds each batch
    final,         \* each final table
    kept,          \* staging tables left by a cleanup that failed
    req,           \* where each request is, its number, what it has loaded
    work,          \* where each worker is, its message, dataset and batch
    queue,         \* messages the broker holds
    revoked,       \* tasks a cancel has revoked
    requests,      \* requests made so far
    failures,      \* failures so far
    overlap,       \* two tasks of the upload were once under way together
    stray,         \* an import was left to no task: see Strays
    deleted        \* the layer has been deleted

vars == <<row, layer, stage, final, kept, req, work, queue, revoked, requests,
          failures, overlap, stray, deleted>>

-----------------------------------------------------------------------------
Ids == 1 .. MaxRequests
Datasets == 1 .. NumDatasets
Batches == 1 .. NumBatches
ImportStatus == {"not_applicable", "pending", "processing", "completed", "failed",
                 "cancelled"}
Row == [status : ImportStatus, task : Ids \cup {None}]
Message == [id : Ids, tries : 0 .. MaxRetries]
\* How often a table holds each batch.
Table == [Batches -> Nat]
RequestPc == {"queue", "send", "refused", "cancel", "drop", "tables", "row"}
ImportPc == {"start", "check", "stage", "batch", "progress", "index", "rename",
             "record", "complete"}
EndPc == {"clean", "cancelled", "fail", "failed", "retry"}
Idle == [pc |-> "idle"]

Request == [pc : RequestPc, id : Ids, seen : Row]
Task == [pc : ImportPc \cup EndPc, msg : Message, seen : ImportStatus, dataset : Datasets,
         batch : Batches, staged : SUBSET Datasets, stopped : BOOLEAN, retried : BOOLEAN]

TypeOK ==
    /\ row \in Row \cup {None}
    /\ layer \in {None, "plain", "postgis"}
    /\ stage \in [Datasets -> Table \cup {None}]
    /\ final \in [Datasets -> Table \cup {None}]
    /\ kept \subseteq Datasets
    /\ req \in [Requests -> {Idle} \cup Request]
    /\ work \in [Workers -> {Idle} \cup Task]
    /\ queue \subseteq Message
    /\ revoked \subseteq Ids
    /\ requests \in 0 .. MaxRequests
    /\ failures \in 0 .. MaxFailures
    /\ overlap \in BOOLEAN
    /\ stray \in BOOLEAN
    /\ deleted \in BOOLEAN

\* The upload is assembled or done; it may have been tiled before.
Init ==
    /\ row = [status |-> "not_applicable", task |-> None]
    /\ layer \in {None, "plain"}
    /\ stage = [d \in Datasets |-> None]
    /\ final = [d \in Datasets |-> None]
    /\ kept = {}
    /\ req = [r \in Requests |-> Idle]
    /\ work = [w \in Workers |-> Idle]
    /\ queue = {}
    /\ revoked = {}
    /\ requests = 0
    /\ failures = 0
    /\ overlap = FALSE
    /\ stray = FALSE
    /\ deleted = FALSE

-----------------------------------------------------------------------------
HasRow == row # None
Is(status) == HasRow /\ row.status = status
SetStatus(status) == row' = IF HasRow THEN [row EXCEPT !.status = status] ELSE row
Absent(tables) == [d \in Datasets |-> IF d \in tables THEN None ELSE stage[d]]
Drops(tables) == stage' = Absent(tables) /\ kept' = kept \ tables
Whole(table) == \A b \in Batches : table[b] = 1

At(r, pc) == req[r].pc = pc
Go(r, pc) == req' = [req EXCEPT ![r].pc = pc]
Answer(r) == req' = [req EXCEPT ![r] = Idle]
Opens(r, pc) ==
    /\ At(r, "idle")
    /\ HasRow
    /\ requests < MaxRequests
    /\ requests' = requests + 1
    /\ req' = [req EXCEPT ![r] = [pc |-> pc, id |-> requests + 1, seen |-> row]]

On(w, pc) == work[w].pc = pc
Step(w, pc) == work' = [work EXCEPT ![w].pc = pc]
End(w) == work' = [work EXCEPT ![w] = Idle]
Busy == {w \in Workers : work[w] # Idle}
Fails == failures < MaxFailures /\ failures' = failures + 1

\* An import is left to no task: the API dies between the queueing and the
\* sending, a cancel kills the task, a message finds it cancelled or deleted, or
\* a task ends outside its handlers before it has written a last status.
Strays == stray' = TRUE

tableVars == <<stage, final, kept>>
taskVars == <<work, queue, revoked>>
history == <<failures, overlap, stray, deleted>>

-----------------------------------------------------------------------------
(* POST .../import and .../import/retry: one shows the status it starts    *)
(* from, both queue a task on the row they have loaded.                    *)

ImportRead(r) ==
    /\ Is("not_applicable") \/ Is("failed")
    /\ Opens(r, "queue")
    /\ UNCHANGED <<row, layer, tableVars, taskVars, history>>

Queue(r) ==
    /\ At(r, "queue")
    /\ row' = IF HasRow THEN [status |-> "pending", task |-> req[r].id] ELSE row
    /\ Go(r, "send")
    /\ UNCHANGED <<layer, tableVars, taskVars, requests, history>>

Send(r) ==
    /\ At(r, "send")
    /\ queue' = queue \cup {[id |-> req[r].id, tries |-> 0]}
    /\ overlap' = (overlap \/ queue # {} \/ Busy # {})
    /\ Answer(r)
    /\ UNCHANGED <<row, layer, tableVars, work, revoked, requests, failures, stray, deleted>>

SendRaises(r) ==
    /\ At(r, "send")
    /\ Fails
    /\ Go(r, "refused")
    /\ UNCHANGED <<row, layer, tableVars, taskVars, requests, overlap, stray, deleted>>

Refused(r) ==
    /\ At(r, "refused")
    /\ SetStatus("failed")
    /\ Answer(r)
    /\ UNCHANGED <<layer, tableVars, taskVars, requests, history>>

-----------------------------------------------------------------------------
(* DELETE .../import: the status, then the revocation of the task the row  *)
(* named, then the staging tables.                                         *)

CancelRead(r) ==
    /\ Is("pending") \/ Is("processing")
    /\ Opens(r, "cancel")
    /\ UNCHANGED <<row, layer, tableVars, taskVars, history>>

CancelWrite(r) ==
    /\ At(r, "cancel")
    /\ SetStatus("cancelled")
    /\ revoked' = revoked \cup ({req[r].seen.task} \ {None})
    /\ Go(r, "drop")
    /\ UNCHANGED <<layer, tableVars, work, queue, requests, history>>

CancelDrop(r) ==
    /\ At(r, "drop")
    /\ Drops(Datasets)
    /\ Answer(r)
    /\ UNCHANGED <<row, layer, final, taskVars, requests, history>>

-----------------------------------------------------------------------------
(* DELETE /layers/{id}: the tables the layer lists, then the rows.         *)

DeleteRead(r) ==
    /\ layer # None
    /\ Opens(r, IF layer = "postgis" THEN "tables" ELSE "row")
    /\ UNCHANGED <<row, layer, tableVars, taskVars, history>>

DeleteTables(r) ==
    /\ At(r, "tables")
    /\ final' = [d \in Datasets |-> None]
    /\ deleted' = TRUE
    /\ Go(r, "row")
    /\ UNCHANGED <<row, layer, stage, kept, taskVars, requests, failures, overlap, stray>>

DeleteRow(r) ==
    /\ At(r, "row")
    /\ layer' = None
    /\ row' = None
    /\ deleted' = TRUE
    /\ Answer(r)
    /\ UNCHANGED <<tableVars, taskVars, requests, failures, overlap, stray>>

-----------------------------------------------------------------------------
(* import_shapefile_task                                                   *)

Take(w) ==
    /\ work[w] = Idle
    /\ \E m \in queue :
          /\ queue' = queue \ {m}
          /\ IF ~HasRow \/ Is("cancelled")
                THEN Strays /\ UNCHANGED work
                ELSE /\ work' = [work EXCEPT ![w] =
                                   [pc |-> "start", msg |-> m, seen |-> row.status,
                                    dataset |-> 1, batch |-> 1, staged |-> {},
                                    stopped |-> FALSE, retried |-> TRUE]]
                     /\ UNCHANGED stray
    /\ UNCHANGED <<row, layer, tableVars, req, revoked, requests, failures, overlap, deleted>>

\* The status is written when it differs from the loaded one.
Start(w) ==
    /\ On(w, "start")
    /\ IF work[w].seen = "processing" THEN UNCHANGED row ELSE SetStatus("processing")
    /\ Step(w, "check")
    /\ UNCHANGED <<layer, tableVars, req, queue, revoked, requests, history>>

\* Every final table is there: an earlier attempt has published them.
\* With some of them only it gives up, without retry.
Check(w) ==
    /\ On(w, "check")
    /\ IF \A d \in Datasets : final[d] # None THEN Step(w, "record")
       ELSE IF \A d \in Datasets : final[d] = None THEN Step(w, "stage")
       ELSE work' = [work EXCEPT ![w].pc = "clean", ![w].retried = FALSE]
    /\ UNCHANGED <<row, layer, tableVars, req, queue, revoked, requests, history>>

\* The archive, its features or their geometries are refused, without retry.
Invalid(w) ==
    /\ work[w].pc \in {"check", "stage", "batch"}
    /\ Fails
    /\ work' = [work EXCEPT ![w].pc = "clean", ![w].retried = FALSE]
    /\ UNCHANGED <<row, layer, tableVars, req, queue, revoked, requests, overlap, stray, deleted>>

\* Mutant of Stage: a staging table an earlier attempt has left is used again.
StageKept(w) ==
    /\ On(w, "stage")
    /\ stage' = IF stage[work[w].dataset] # None THEN stage
                ELSE [stage EXCEPT ![work[w].dataset] = [b \in Batches |-> 0]]
    /\ kept' = kept \ {work[w].dataset}
    /\ work' = [work EXCEPT ![w].pc = "batch", ![w].batch = 1,
                            ![w].staged = @ \cup {work[w].dataset}]
    /\ UNCHANGED <<row, layer, final, req, queue, revoked, requests, history>>

Stage(w) ==
    /\ On(w, "stage")
    /\ stage' = [stage EXCEPT ![work[w].dataset] = [b \in Batches |-> 0]]
    /\ kept' = kept \ {work[w].dataset}
    /\ work' = [work EXCEPT ![w].pc = "batch", ![w].batch = 1,
                            ![w].staged = @ \cup {work[w].dataset}]
    /\ UNCHANGED <<row, layer, final, req, queue, revoked, requests, history>>

HasStage(w) == stage[work[w].dataset] # None

Batch(w) ==
    /\ On(w, "batch")
    /\ HasStage(w)
    /\ stage' = [stage EXCEPT ![work[w].dataset][work[w].batch] = @ + 1]
    /\ Step(w, "progress")
    /\ UNCHANGED <<row, layer, final, kept, req, queue, revoked, requests, history>>

\* The progress callback stops a cancelled import.
Progress(w) ==
    /\ On(w, "progress")
    /\ IF Is("cancelled") THEN work' = [work EXCEPT ![w].pc = "clean", ![w].stopped = TRUE]
       ELSE IF work[w].batch < NumBatches
          THEN work' = [work EXCEPT ![w].pc = "batch", ![w].batch = @ + 1]
          ELSE Step(w, "index")
    /\ UNCHANGED <<row, layer, tableVars, req, queue, revoked, requests, history>>

\* The index is named after the final table, and goes where that table goes.
Index(w) ==
    /\ On(w, "index")
    /\ HasStage(w)
    /\ final[work[w].dataset] = None
    /\ work' = IF work[w].dataset < NumDatasets
                  THEN [work EXCEPT ![w].pc = "stage", ![w].dataset = @ + 1]
                  ELSE [work EXCEPT ![w].pc = "rename"]
    /\ UNCHANGED <<row, layer, tableVars, req, queue, revoked, requests, history>>

Rename(w) ==
    /\ On(w, "rename")
    /\ \A d \in Datasets : stage[d] # None /\ final[d] = None
    /\ final' = stage
    /\ Drops(Datasets)
    /\ Step(w, "record")
    /\ UNCHANGED <<row, layer, req, queue, revoked, requests, history>>

\* Mutant of Record: the metadata of a layer that exists is left as it is.
RecordNew(w) ==
    /\ On(w, "record")
    /\ HasRow
    /\ layer' = IF layer = None THEN "postgis" ELSE layer
    /\ Step(w, "complete")
    /\ UNCHANGED <<row, tableVars, req, queue, revoked, requests, history>>

Record(w) ==
    /\ On(w, "record")
    /\ HasRow
    /\ layer' = "postgis"
    /\ Step(w, "complete")
    /\ UNCHANGED <<row, tableVars, req, queue, revoked, requests, history>>

\* Completed is written whatever the status has become.
Complete(w) ==
    /\ On(w, "complete")
    /\ SetStatus("completed")
    /\ End(w)
    /\ UNCHANGED <<layer, tableVars, req, queue, revoked, requests, history>>

-----------------------------------------------------------------------------
(* Failures and the cancellation                                           *)

\* A table another task has dropped or published, a session that is gone, or
\* the database itself.
Lost(w) ==
    \/ work[w].pc \in {"batch", "index"} /\ ~HasStage(w)
    \/ work[w].pc = "index" /\ final[work[w].dataset] # None
    \/ work[w].pc = "rename" /\ \E d \in Datasets : stage[d] = None \/ final[d] # None
    \/ work[w].pc = "record" /\ ~HasRow

\* The import itself cleans up after its failure; the rows come after it.
Raises(w) ==
    /\ work[w].pc \in ImportPc \ {"start"}
    /\ \/ Lost(w) /\ UNCHANGED failures
       \/ Fails
    /\ Step(w, IF work[w].pc \in {"record", "complete"} THEN "fail" ELSE "clean")
    /\ UNCHANGED <<row, layer, tableVars, req, queue, revoked, requests, overlap, stray, deleted>>


\* The task drops the staging tables it has named, whoever fills them now.
Clean(w) ==
    /\ On(w, "clean")
    /\ Drops(work[w].staged)
    /\ Step(w, IF work[w].stopped THEN "cancelled" ELSE "fail")
    /\ UNCHANGED <<row, layer, final, req, queue, revoked, requests, history>>

\* The drop has its own failures, which are swallowed: the tables stay.
CleanFails(w) ==
    /\ On(w, "clean")
    /\ Fails
    /\ kept' = kept \cup work[w].staged
    /\ Step(w, IF work[w].stopped THEN "cancelled" ELSE "fail")
    /\ UNCHANGED <<row, layer, stage, final, req, queue, revoked, requests, overlap,
                   stray, deleted>>

Stopped(w) ==
    /\ On(w, "cancelled")
    /\ SetStatus("cancelled")
    /\ End(w)
    /\ UNCHANGED <<layer, tableVars, req, queue, revoked, requests, history>>

FailRead(w) ==
    /\ On(w, "fail")
    /\ Step(w, IF HasRow /\ ~Is("cancelled") THEN "failed" ELSE "retry")
    /\ UNCHANGED <<row, layer, tableVars, req, queue, revoked, requests, history>>

\* Mutant of FailWrite: a failure that is retried is not recorded, nor the last.
FailWriteNot(w) ==
    /\ On(w, "failed")
    /\ Step(w, "retry")
    /\ UNCHANGED <<row, layer, tableVars, req, queue, revoked, requests, history>>

FailWrite(w) ==
    /\ On(w, "failed")
    /\ SetStatus("failed")
    /\ Step(w, "retry")
    /\ UNCHANGED <<layer, tableVars, req, queue, revoked, requests, history>>

FailRetry(w) ==
    /\ On(w, "retry")
    /\ queue' = IF work[w].retried /\ work[w].msg.tries < MaxRetries
                   THEN queue \cup {[work[w].msg EXCEPT !.tries = @ + 1]}
                   ELSE queue
    /\ End(w)
    /\ UNCHANGED <<row, layer, tableVars, req, revoked, requests, history>>

\* The first write comes before the try, the handlers' own after it: a failure
\* there ends the task with no status, one of the retry's message loses the retry.
Escapes(w) ==
    /\ work[w].pc \in {"start", "cancelled", "fail", "failed", "retry"}
    /\ Fails
    /\ stray' = (stray \/ work[w].pc # "retry")
    /\ End(w)
    /\ UNCHANGED <<row, layer, tableVars, req, queue, revoked, requests, overlap, deleted>>

\* The message of a worker that dies is given back; its tables stay.
WorkerDies(w) ==
    /\ work[w] # Idle
    /\ Fails
    /\ queue' = queue \cup {work[w].msg}
    /\ End(w)
    /\ UNCHANGED <<row, layer, tableVars, req, revoked, requests, overlap, stray, deleted>>

Revoke ==
    /\ \/ \E m \in queue : m.id \in revoked /\ queue' = queue \ {m} /\ UNCHANGED work
       \/ \E w \in Busy : work[w].msg.id \in revoked /\ End(w) /\ UNCHANGED queue
    /\ Strays
    /\ UNCHANGED <<row, layer, tableVars, req, revoked, requests, failures, overlap, deleted>>

ApiDies ==
    /\ \E r \in Requests : ~At(r, "idle")
    /\ Fails
    /\ Strays
    /\ req' = [r \in Requests |-> Idle]
    /\ UNCHANGED <<row, layer, tableVars, taskVars, requests, overlap, deleted>>

-----------------------------------------------------------------------------
RequestStep(r) ==
    \/ Queue(r) \/ Send(r) \/ SendRaises(r) \/ Refused(r)
    \/ CancelWrite(r) \/ CancelDrop(r) \/ DeleteTables(r) \/ DeleteRow(r)

WorkerStep(w) ==
    \/ Take(w) \/ Start(w) \/ Check(w) \/ Invalid(w) \/ Stage(w) \/ Batch(w)
    \/ Progress(w) \/ Index(w) \/ Rename(w) \/ Record(w) \/ Complete(w)
    \/ Raises(w) \/ Clean(w) \/ CleanFails(w) \/ Stopped(w) \/ FailRead(w)
    \/ FailWrite(w) \/ FailRetry(w) \/ Escapes(w)

Next ==
    \/ \E r \in Requests : ImportRead(r) \/ CancelRead(r) \/ DeleteRead(r) \/ RequestStep(r)
    \/ \E w \in Workers : WorkerStep(w) \/ WorkerDies(w)
    \/ Revoke
    \/ ApiDies

Spec == Init /\ [][Next]_vars

\* A request that has begun runs on, and so does a worker that has a message.
FairSpec ==
    /\ Spec
    /\ \A r \in Requests : WF_vars(RequestStep(r))
    /\ \A w \in Workers : WF_vars(WorkerStep(w))

-----------------------------------------------------------------------------
(* Properties                                                              *)

\* One task at a time: each feature is in the final table once, whatever
\* crashes, retries and cancellations the import has been through.
SingleImportIsWhole ==
    ~overlap => \A d \in Datasets : final[d] # None => Whole(final[d])

\* A completed import has its tables, and its layer lists them: a retry finds
\* them, and no other task, late cleanup or cancel takes them away.
CompletedHasTables ==
    Is("completed") /\ ~deleted => layer = "postgis" /\ \A d \in Datasets : final[d] # None

\* An import that is pending or processing comes to an end, unless it is left to
\* no task: by a crash of the API before it sends, a revocation, a message that
\* finds it cancelled, or a failed write outside the task's try.
ImportEnds == Is("pending") \/ Is("processing")
                 ~> ~(Is("pending") \/ Is("processing")) \/ stray

=============================================================================
