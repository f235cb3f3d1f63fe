--------------------------- MODULE LayerCatalogue ---------------------------
(***************************************************************************)
(* One external layer of the catalogue: its row, its record in the CSW      *)
(* catalogue and the directory of its Esri download.  The row's             *)
(* file_metadata is one JSON value with a key for the download's progress   *)
(* and keys that PATCH, the kodefikasi and the bbox requests edit: every    *)
(* handler and the worker read it, work, and write the whole of it back.    *)
(***************************************************************************)
EXTENDS Naturals, FiniteSets

CONSTANTS
    Requests,      \* API requests that can be in progress at once
    Workers,       \* Celery worker processes
    None,          \* no row, no record, no task
    NumSublayers,  \* sublayers of the service
    MaxRequests,   \* bound: requests made; a task has its request's number
    MaxRetries,    \* the download task's max_retries
    MaxFailures    \* bound: failures of the broker, the service, a worker or the API

ASSUME ConstantsAssumption ==
    /\ NumSublayers \in Nat \ {0}
    /\ MaxRequests \in Nat \ {0}
    /\ MaxRetries \in Nat
    /\ MaxFailures \in Nat
    /\ None \notin 0 .. MaxRequests

VARIABLES
    row,           \* the layer's file_metadata; None once the layer is deleted
    record,        \* the description in the CSW record; None without a record
    dir,           \* sublayers whose files are in the download directory
    req,           \* where each request is, its number and its copy of the row
    work,          \* where each worker is, its message, sublayer, copy and manifest
    queue,         \* messages the broker holds
    requests,      \* requests made so far
    failures,      \* failures so far
    stale,         \* a write was made from a copy that was out of date
    cut,           \* a request ended half done: no broker, or the API died
    missed,        \* the last making or removal of the record failed
    mixed          \* two requests, or two tasks, or a deletion and a task, overlapped

vars == <<row, record, dir, req, work, queue, requests, failures, stale, cut, missed,
          mixed>>

-----------------------------------------------------------------------------
Ids == 1 .. MaxRequests
Sublayers == 1 .. NumSublayers
Status == {"none", "pending", "processing", "done", "failed", "cancelled"}
\* errors: the sublayers that the manifest of a done download has an error for.
Process == [status : Status, task : Ids \cup {None}, errors : SUBSET Sublayers]
\* info: the number of the PATCH that wrote the description; code: that of the
\* kodefikasi mapping, 0 without one.
Row == [download : Process, info : 0 .. MaxRequests, code : 0 .. MaxRequests]
Message == [id : Ids, tries : 0 .. MaxRetries]
RequestPc == {"patch", "sync", "code", "uncode", "bbox", "pending", "send", "task",
              "cancel", "files", "row", "record"}
WorkPc == {"start", "clear", "fetch", "report", "reported", "finish", "cancelled",
           "failed", "retry"}
Idle == [pc |-> "idle"]

Request == [pc : RequestPc, id : Ids, saw : Row]
Task == [pc : WorkPc, msg : Message, sub : Sublayers, saw : Row \cup {None},
         errors : SUBSET Sublayers, retried : BOOLEAN]

ASSUME NoneAssumption == \A x \in Row : x # None

TypeOK ==
    /\ row \in Row \cup {None}
    /\ record \in 0 .. MaxRequests \cup {None}
    /\ dir \subseteq Sublayers
    /\ req \in [Requests -> {Idle} \cup Request]
    /\ work \in [Workers -> {Idle} \cup Task]
    /\ queue \subseteq Message
    /\ requests \in 0 .. MaxRequests
    /\ failures \in 0 .. MaxFailures
    /\ stale \in BOOLEAN
    /\ cut \in BOOLEAN
    /\ missed \in BOOLEAN
    /\ mixed \in BOOLEAN

\* The layer has been added and its record made.
Init ==
    /\ row = [download |-> [status |-> "none", task |-> None, errors |-> {}],
              info |-> 0, code |-> 0]
    /\ record = 0
    /\ dir = {}
    /\ req = [r \in Requests |-> Idle]
    /\ work = [w \in Workers |-> Idle]
    /\ queue = {}
    /\ requests = 0
    /\ failures = 0
    /\ stale = FALSE
    /\ cut = FALSE
    /\ missed = FALSE
    /\ mixed = FALSE

-----------------------------------------------------------------------------
HasRow == row # None
Is(status) == HasRow /\ row.download.status = status
Active == Is("pending") \/ Is("processing")

\* A copy of the row, with one key changed, replaces the row.
Writes(copy, new) ==
    /\ row' = IF HasRow THEN new ELSE None
    /\ stale' = (stale \/ (HasRow /\ row # copy))

At(r, pc) == req[r].pc = pc
Go(r, pc) == req' = [req EXCEPT ![r].pc = pc]
Answer(r) == req' = [req EXCEPT ![r] = Idle]
InProgress == {r \in Requests : ~At(r, "idle")}
Busy == {w \in Workers : work[w] # Idle}
Tasks == queue # {} \/ Busy # {}
Opens(r, pc) ==
    /\ At(r, "idle")
    /\ HasRow
    /\ requests < MaxRequests
    /\ requests' = requests + 1
    /\ req' = [req EXCEPT ![r] = [pc |-> pc, id |-> requests + 1, saw |-> row]]
    /\ mixed' = (mixed \/ InProgress # {} \/ (pc = "files" /\ Tasks))
    /\ UNCHANGED <<row, record, dir, work, queue, failures, stale, cut, missed>>

On(w, pc) == work[w].pc = pc
Step(w, pc) == work' = [work EXCEPT ![w].pc = pc]
End(w) == work' = [work EXCEPT ![w] = Idle]
Fails == failures < MaxFailures /\ failures' = failures + 1

\* A request that writes the row; only the last ones go on.
Edits(r, pc, new, then) ==
    /\ At(r, pc)
    /\ Writes(req[r].saw, new)
    /\ IF HasRow /\ then # "answer"
          THEN req' = [req EXCEPT ![r].pc = then, ![r].saw = new]
          ELSE Answer(r)

requestRest == <<record, dir, work, queue, requests, failures, missed, mixed>>

-----------------------------------------------------------------------------
(* The requests that edit the metadata                                     *)

\* PATCH /layers/{id}: the sublayers are read from the service before the write,
\* the record is made after it.
PatchRead(r) == Opens(r, "patch")
PatchWrite(r) ==
    /\ Edits(r, "patch", [req[r].saw EXCEPT !.info = req[r].id], "sync")
    /\ UNCHANGED <<requestRest, cut>>

\* sync_layer: the record is deleted and inserted from the request's copy.
SyncRecord(r) ==
    /\ At(r, "sync")
    /\ record' = req[r].saw.info
    /\ missed' = FALSE
    /\ Answer(r)
    /\ UNCHANGED <<row, dir, work, queue, requests, failures, stale, cut, mixed>>

\* It raises, on the database or on metadata it cannot write, after the row's
\* commit: the transaction rolls back, the record stays, the answer is a 500.
RecordRaises(r) ==
    /\ At(r, "sync") \/ At(r, "record")
    /\ Fails
    /\ missed' = TRUE
    /\ Answer(r)
    /\ UNCHANGED <<row, record, dir, work, queue, requests, stale, cut, mixed>>

\* POST .../sync-bbox writes the metadata as it was before the extraction.
BboxRead(r) == Opens(r, "bbox")
BboxWrite(r) ==
    /\ Edits(r, "bbox", req[r].saw, "sync")
    /\ UNCHANGED <<requestRest, cut>>

\* PATCH .../kodefikasi
CodeRead(r) == Opens(r, "code")
CodeWrite(r) ==
    /\ Edits(r, "code", [req[r].saw EXCEPT !.code = req[r].id], "answer")
    /\ UNCHANGED <<requestRest, cut>>

\* DELETE .../kodefikasi: the key is dropped from a copy that is then merged with
\* the metadata, where it still is.
UncodeRead(r) == Opens(r, "uncode")
UncodeWrite(r) ==
    /\ Edits(r, "uncode", req[r].saw, "answer")
    /\ UNCHANGED <<requestRest, cut>>

-----------------------------------------------------------------------------
(* POST and DELETE .../download                                            *)

Downloads(r, process) == [req[r].saw EXCEPT !.download = process]
Pending(task) == [status |-> "pending", task |-> task, errors |-> {}]

TriggerRead(r) == ~Active /\ Opens(r, "pending")
TriggerWrite(r) ==
    /\ Edits(r, "pending", Downloads(r, Pending(None)), "send")
    /\ UNCHANGED <<requestRest, cut>>

Send(r) ==
    /\ At(r, "send")
    /\ queue' = queue \cup {[id |-> req[r].id, tries |-> 0]}
    /\ mixed' = (mixed \/ Tasks)
    /\ Go(r, "task")
    /\ UNCHANGED <<row, record, dir, work, requests, failures, stale, cut, missed>>

\* The broker refuses the task: nothing takes the pending status back.
SendRaises(r) ==
    /\ At(r, "send")
    /\ Fails
    /\ cut' = TRUE
    /\ Answer(r)
    /\ UNCHANGED <<row, record, dir, work, queue, requests, stale, missed, mixed>>

\* The second write names the task; it is pending again.
TriggerTask(r) ==
    /\ Edits(r, "task", Downloads(r, Pending(req[r].id)), "answer")
    /\ UNCHANGED <<requestRest, cut>>

CancelRead(r) == Active /\ Opens(r, "cancel")
CancelWrite(r) ==
    /\ Edits(r, "cancel",
             Downloads(r, [req[r].saw.download EXCEPT !.status = "cancelled"]), "answer")
    /\ UNCHANGED <<requestRest, cut>>

-----------------------------------------------------------------------------
(* DELETE /layers/{id}                                                     *)

DeleteRead(r) == Opens(r, "files")

\* Mutant of DeleteFiles: the downloaded data stays on disk.
DeleteFilesNot(r) ==
    /\ At(r, "files")
    /\ Go(r, "row")
    /\ UNCHANGED <<row, record, dir, work, queue, requests, failures, stale, cut, missed, mixed>>

DeleteFiles(r) ==
    /\ At(r, "files")
    /\ dir' = {}
    /\ Go(r, "row")
    /\ UNCHANGED <<row, record, work, queue, requests, failures, stale, cut, missed, mixed>>

DeleteRow(r) ==
    /\ At(r, "row")
    /\ row' = None
    /\ Go(r, "record")
    /\ UNCHANGED <<record, dir, work, queue, requests, failures, stale, cut, missed, mixed>>

DeleteRecord(r) ==
    /\ At(r, "record")
    /\ record' = None
    /\ missed' = FALSE
    /\ Answer(r)
    /\ UNCHANGED <<row, dir, work, queue, requests, failures, stale, cut, mixed>>

-----------------------------------------------------------------------------
(* download_esri_layer_task                                                *)

workRest == <<record, req, requests, cut, missed, mixed>>

\* The worker's copy; a layer that is gone or cancelled is let be.
Take(w) ==
    /\ work[w] = Idle
    /\ \E m \in queue :
          /\ queue' = queue \ {m}
          /\ work' = IF ~HasRow \/ Is("cancelled") THEN work
                     ELSE [work EXCEPT ![w] = [pc |-> "start", msg |-> m, sub |-> 1,
                                               saw |-> row, errors |-> {},
                                               retried |-> FALSE]]
    /\ UNCHANGED <<row, dir, failures, stale, workRest>>

Says(w, status, errors) ==
    [status |-> status, task |-> work[w].msg.id, errors |-> errors]
Reports(w) == [work[w].saw EXCEPT !.download = Says(w, "processing", {})]

Start(w) ==
    /\ On(w, "start")
    /\ Writes(work[w].saw, Reports(w))
    /\ Step(w, "clear")
    /\ UNCHANGED <<dir, queue, failures, workRest>>

\* download_all_sublayers removes the directory and makes it again.
Clear(w) ==
    /\ On(w, "clear")
    /\ dir' = {}
    /\ Step(w, "fetch")
    /\ UNCHANGED <<row, queue, failures, stale, workRest>>

\* See EsriFetch; the files of a sublayer are written, then its progress.
Fetch(w) ==
    /\ On(w, "fetch")
    /\ dir' = dir \cup {work[w].sub}
    /\ Step(w, "report")
    /\ UNCHANGED <<row, queue, failures, stale, workRest>>

\* Its object IDs and its pages have both failed with an EsriDownloadError: the
\* manifest gets an error entry and the download goes on.
FetchSkips(w) ==
    /\ On(w, "fetch")
    /\ Fails
    /\ work' = [work EXCEPT ![w].pc = "report", ![w].errors = @ \cup {work[w].sub}]
    /\ UNCHANGED <<row, dir, queue, stale, workRest>>

\* Mutant of Report: the callback does not look for a cancellation.
ReportBlind(w) ==
    /\ On(w, "report")
    /\ work' = [work EXCEPT ![w].pc = "reported", ![w].saw = row]
    /\ UNCHANGED <<row, dir, queue, failures, stale, workRest>>

\* The callback reads the progress and stops a cancelled download.
Report(w) ==
    /\ On(w, "report")
    /\ work' = IF Is("cancelled") THEN [work EXCEPT ![w].pc = "cancelled"]
               ELSE [work EXCEPT ![w].pc = "reported", ![w].saw = row]
    /\ UNCHANGED <<row, dir, queue, failures, stale, workRest>>

\* Mutant of Reported: the last sublayer is not waited for.
ReportedEarly(w) ==
    /\ On(w, "reported")
    /\ IF work[w].saw = None THEN UNCHANGED <<row, stale>>
                             ELSE Writes(work[w].saw, Reports(w))
    /\ work' = IF work[w].sub + 1 < NumSublayers
                  THEN [work EXCEPT ![w].pc = "fetch", ![w].sub = @ + 1]
                  ELSE [work EXCEPT ![w].pc = "finish"]
    /\ UNCHANGED <<dir, queue, failures, workRest>>

\* Then it writes the row back, over what has been written since.
Reported(w) ==
    /\ On(w, "reported")
    /\ IF work[w].saw = None THEN UNCHANGED <<row, stale>>
                             ELSE Writes(work[w].saw, Reports(w))
    /\ work' = IF work[w].sub < NumSublayers
                  THEN [work EXCEPT ![w].pc = "fetch", ![w].sub = @ + 1]
                  ELSE [work EXCEPT ![w].pc = "finish"]
    /\ UNCHANGED <<dir, queue, failures, workRest>>

Ends(w, status, errors) ==
    row' = IF HasRow THEN [row EXCEPT !.download = Says(w, status, errors)] ELSE None

\* Done is written whatever the status has become.
Finish(w) ==
    /\ On(w, "finish")
    /\ Ends(w, "done", work[w].errors)
    /\ End(w)
    /\ UNCHANGED <<dir, queue, failures, stale, workRest>>

Stopped(w) ==
    /\ On(w, "cancelled")
    /\ Ends(w, "cancelled", {})
    /\ End(w)
    /\ UNCHANGED <<dir, queue, failures, stale, workRest>>

\* An exception of the download; only an EsriDownloadError is tried again, and only
\* one from before the sublayers gets here.
Raises(w) ==
    /\ work[w].pc \in {"clear", "fetch", "report", "finish"}
    /\ Fails
    /\ \E again \in {FALSE, On(w, "clear")} :
          work' = [work EXCEPT ![w].pc = "failed", ![w].retried = again]
    /\ UNCHANGED <<row, dir, queue, stale, workRest>>

Fail(w) ==
    /\ On(w, "failed")
    /\ Ends(w, "failed", {})
    /\ Step(w, "retry")
    /\ UNCHANGED <<dir, queue, failures, stale, workRest>>

Retry(w) ==
    /\ On(w, "retry")
    /\ queue' = IF work[w].retried /\ work[w].msg.tries < MaxRetries
                   THEN queue \cup {[work[w].msg EXCEPT !.tries = @ + 1]}
                   ELSE queue
    /\ End(w)
    /\ UNCHANGED <<row, dir, failures, stale, workRest>>

-----------------------------------------------------------------------------
(* Crashes                                                                 *)

\* The first write is made before the try, the others in its handlers: a failure
\* there ends the task, and the row keeps its status.
Escapes(w) ==
    /\ work[w].pc \in {"start", "cancelled", "failed", "retry"}
    /\ Fails
    /\ End(w)
    /\ UNCHANGED <<row, dir, queue, stale, workRest>>

WorkerDies(w) ==
    /\ work[w] # Idle
    /\ Fails
    /\ queue' = queue \cup {work[w].msg}
    /\ End(w)
    /\ UNCHANGED <<row, dir, stale, workRest>>

\* Mutant of ApiRestarts: the records are not made again.
ApiRestartsBare ==
    /\ InProgress # {}
    /\ Fails
    /\ req' = [r \in Requests |-> Idle]
    /\ cut' = TRUE
    /\ missed' = FALSE
    /\ UNCHANGED <<row, record, dir, work, queue, requests, stale, mixed>>

\* The requests are lost; the start makes every layer's record again.  It gives up
\* when the table cannot be made and passes over a layer whose record cannot.
ApiRestarts ==
    /\ InProgress # {}
    /\ Fails
    /\ req' = [r \in Requests |-> Idle]
    /\ \/ record' = (IF HasRow THEN row.info ELSE record) /\ missed' = FALSE
       \/ UNCHANGED record /\ missed' = TRUE
    /\ cut' = TRUE
    /\ UNCHANGED <<row, dir, work, queue, requests, stale, mixed>>

-----------------------------------------------------------------------------
RequestOpens(r) ==
    \/ PatchRead(r) \/ BboxRead(r) \/ CodeRead(r) \/ UncodeRead(r)
    \/ TriggerRead(r) \/ CancelRead(r) \/ DeleteRead(r)

RequestStep(r) ==
    \/ PatchWrite(r) \/ SyncRecord(r) \/ RecordRaises(r) \/ BboxWrite(r) \/ CodeWrite(r)
    \/ UncodeWrite(r)
    \/ TriggerWrite(r) \/ Send(r) \/ SendRaises(r) \/ TriggerTask(r) \/ CancelWrite(r)
    \/ DeleteFiles(r) \/ DeleteRow(r) \/ DeleteRecord(r)

WorkerStep(w) ==
    \/ Take(w) \/ Start(w) \/ Clear(w) \/ Fetch(w) \/ FetchSkips(w) \/ Report(w)
    \/ Reported(w) \/ Finish(w) \/ Stopped(w) \/ Raises(w) \/ Fail(w) \/ Retry(w)
    \/ Escapes(w)

Next ==
    \/ \E r \in Requests : RequestOpens(r) \/ RequestStep(r)
    \/ \E w \in Workers : WorkerStep(w) \/ WorkerDies(w)
    \/ ApiRestarts

Spec == Init /\ [][Next]_vars

\* A request that has begun runs on, and so does a worker that has a message.
FairSpec ==
    /\ Spec
    /\ \A r \in Requests : WF_vars(RequestStep(r))
    /\ \A w \in Workers : WF_vars(WorkerStep(w))

-----------------------------------------------------------------------------
(* Properties                                                              *)

AtRest == ~Tasks /\ InProgress = {}

\* A download that is done has the files its manifest lists and no others: each
\* sublayer is on disk or has an error entry in the row, through retries and
\* redeliveries, where each attempt starts from an empty directory and manifest.
\* (A deletion cut short between the files and the row leaves a layer without them.)
DoneHasFiles ==
    Is("done") /\ ~mixed /\ ~cut /\ InProgress = {} => dir = Sublayers \ row.download.errors

\* Requests that do not overlap keep the catalogue in step with the layer, also
\* when the API dies between the row and its record, unless a write from an old
\* copy took the description back or the last making of the record has failed: a
\* later one mends it.
RecordIsCurrent == AtRest /\ ~mixed /\ ~stale /\ ~missed /\ HasRow => record = row.info

\* A cancellation that comes before the last callback is heard: the download stops,
\* also when its worker dies, and no task writes over it, unless it fails first.
CancelIsHeard ==
    (Is("cancelled") /\ \A w \in Workers : work[w].pc \notin {"finish", "failed"})
        ~> (~Tasks /\ Is("cancelled")) \/ Is("failed") \/ stale \/ mixed \/ ~HasRow

\* A layer that is deleted while nothing else goes on leaves nothing behind, when its
\* deletion comes to its end.
DeletedIsGone == AtRest /\ ~mixed /\ ~cut /\ ~missed /\ ~HasRow => dir = {} /\ record = None
=============================================================================
