----------------------------- MODULE UploadTasks ----------------------------
(***************************************************************************)
(* One upload session from "uploaded" on: the requests that tile, publish, *)
(* save, retry, cancel and retile it and that delete its layer, and the    *)
(* Celery tasks behind them (process_tiling_task, publish_geoserver_task). *)
(*                                                                         *)
(* A request is a coroutine: a step is the code from one await to the      *)
(* next.  A task is a step for each of its database transactions; a status *)
(* that is tested before it is written is read in a step of its own.  A    *)
(* unit of work writes the status only when it differs from the one it has *)
(* loaded ("seen").                                                        *)
(*                                                                         *)
(* The source is a local file or an artifact of the Upload API, pinned by  *)
(* leases.  A worker releases none: _release_artifact_lease first counts   *)
(* the users of the source, the count subscripts an integer and raises,    *)
(* and the handler keeps the lease.                                        *)
(***************************************************************************)
EXTENDS Naturals, FiniteSets

CONSTANTS
    Requests,      \* API requests that can be in progress at once
    Workers,       \* Celery worker processes
    None,          \* no row, no layer, no task, no lease
    MaxRequests,   \* bound: requests made; a task has its request's number
    MaxRetries,    \* the tasks' max_retries
    MaxFailures    \* bound: failures of the broker, a task, a worker or the API

ASSUME ConstantsAssumption ==
    /\ MaxRequests \in Nat \ {0}
    /\ MaxRetries \in Nat
    /\ MaxFailures \in Nat
    /\ None \notin 0 .. MaxRequests

VARIABLES
    artifact,      \* the source is an artifact, not a local file
    row,           \* the upload session; None before it is staged, once deleted
    file,          \* the local source is on disk
    layer,         \* the session's layer; None when there is no row
    tiles,         \* the layer's tile directory
    leases,        \* leases held at the Upload API, each numbered as its request
    batch,         \* a batch that uses the session (module MapBatches)
    req,           \* where each request is, its task, the status it has loaded
    work,          \* where each worker is, its message, the status it has loaded
    queue,         \* messages the broker holds
    revoked,       \* tasks a cancel has revoked
    requests,      \* requests made so far
    failures,      \* failures so far
    stray,         \* a processing status was left to no task (see Strays)
    deleted        \* a deletion of the layer has removed files

vars == <<artifact, row, file, layer, tiles, leases, batch, req, work, queue,
          revoked, requests, failures, stray, deleted>>

-----------------------------------------------------------------------------
Ids == 1 .. MaxRequests
Leases == 0 .. MaxRequests
Status == {"uploaded", "processing", "done", "failed", "cancelled"}
Message == [id : Ids, kind : {"tile", "publish"}, tries : 0 .. MaxRetries]
RequestPc == {"handoff", "start", "publish", "send", "task", "save", "saved",
              "cancel", "lease", "retile", "drop", "files", "row", "source", "session"}
TilePc == {"mark", "place", "tiling", "finish", "link", "stop"}
PublishPc == {"start", "publishing", "published"}
FailPc == {"fail", "failed", "retry"}
Idle == [pc |-> "idle"]

Row == [status : Status, task : Ids \cup {None}, lease : Leases \cup {None}]
Request == [pc : RequestPc, id : Leases, seen : Status]
Task == [pc : TilePc \cup PublishPc \cup FailPc, msg : Message, seen : Status \cup {None}]

Urls == {"placeholder", "tiles", "wms", "file"}

ASSUME NoneAssumption ==
    /\ \A x \in Row : x # None
    /\ \A x \in Urls : x # None

TypeOK ==
    /\ artifact \in BOOLEAN
    /\ row \in Row \cup {None}
    /\ file \in BOOLEAN
    /\ layer \in Urls \cup {None}
    /\ tiles \in {"none", "partial", "holed", "whole"}
    /\ leases \subseteq Leases
    /\ batch \in {"none", "active", "settled"}
    /\ req \in [Requests -> {Idle} \cup Request]
    /\ work \in [Workers -> {Idle} \cup Task]
    /\ queue \subseteq Message
    /\ revoked \subseteq Ids
    /\ requests \in 0 .. MaxRequests
    /\ failures \in 0 .. MaxFailures
    /\ stray \in BOOLEAN
    /\ deleted \in BOOLEAN

Staged(lease) == [status |-> "uploaded", task |-> None, lease |-> lease]

\* A chunked upload has just been assembled; or an artifact is handed off, with
\* lease 0, or still to be.
Init ==
    /\ artifact \in BOOLEAN
    /\ row \in IF artifact THEN {None, Staged(0)} ELSE {Staged(None)}
    /\ file = ~artifact
    /\ layer = None
    /\ tiles = "none"
    /\ leases = IF row = None THEN {} ELSE {row.lease} \ {None}
    /\ batch = "none"
    /\ req = [r \in Requests |-> Idle]
    /\ work = [w \in Workers |-> Idle]
    /\ queue = {}
    /\ revoked = {}
    /\ requests = 0
    /\ failures = 0
    /\ stray = FALSE
    /\ deleted = FALSE

-----------------------------------------------------------------------------
HasRow == row # None
Is(status) == HasRow /\ row.status = status
Available == artifact \/ file
Ready == HasRow /\ row.status \in {"uploaded", "failed"}

At(r, pc) == req[r].pc = pc
Go(r, pc) == req' = [req EXCEPT ![r].pc = pc]
Opens(r) ==
    /\ At(r, "idle")
    /\ requests < MaxRequests
    /\ requests' = requests + 1
Begin(r, pc, id) == req' = [req EXCEPT ![r] = [pc |-> pc, id |-> id, seen |-> row.status]]
Answer(r) == req' = [req EXCEPT ![r] = Idle]

\* A status is written by its row's id; a row that is gone is left alone.
SetStatus(status) == row' = IF HasRow THEN [row EXCEPT !.status = status] ELSE row
SetIfSeen(seen, status) == IF seen = status THEN UNCHANGED row ELSE SetStatus(status)

Fails == failures < MaxFailures /\ failures' = failures + 1
Send(id, kind) == queue' = queue \cup {[id |-> id, kind |-> kind, tries |-> 0]}

On(w, pc) == work[w].pc = pc
Step(w, pc) == work' = [work EXCEPT ![w].pc = pc]
End(w) == work' = [work EXCEPT ![w] = Idle]
Running(id) == {w \in Workers : work[w] # Idle /\ work[w].msg.id = id}
Outstanding == queue # {} \/ \E w \in Workers : work[w] # Idle

\* Task id is still to write a status that ends "processing".
WillSettle(id) ==
    \/ \E m \in queue : m.id = id
    \/ \E w \in Running(id) : /\ work[w].pc \notin {"link"}
                              /\ work[w].pc = "retry" => work[w].msg.tries < MaxRetries

\* Every way the code leaves a session processing with no task to end it:
\* start_tiling after its task has ended, a broker that refuses a publication,
\* a task killed by a cancel whose status write is then overwritten, a task that
\* an exception ends outside its handler (Escapes), or an API process that dies.
Strays(cond) == stray' = (stray \/ cond)

tileVars == <<layer, tiles>>
sourceVars == <<artifact, file, leases, batch>>
taskVars == <<work, queue, revoked>>
history == <<failures, stray, deleted>>

-----------------------------------------------------------------------------
(* POST /uploads/artifact: lease the artifact, then insert the session.    *)

Handoff(r) ==
    /\ artifact /\ row = None /\ ~deleted
    /\ Opens(r)
    /\ req' = [req EXCEPT ![r] = [pc |-> "handoff", id |-> requests + 1, seen |-> "uploaded"]]
    /\ leases' = leases \cup {requests + 1}
    /\ UNCHANGED <<artifact, row, file, batch, tileVars, taskVars, history>>

HandoffRejected(r) ==
    /\ At(r, "handoff")
    /\ Fails
    /\ leases' = leases \ {req[r].id}
    /\ Answer(r)
    /\ UNCHANGED <<requests, artifact, row, file, batch, tileVars, taskVars, stray, deleted>>

\* Mutant of HandoffCreate: the lease is released whatever comes of the session.
HandoffCreateReleases(r) ==
    /\ At(r, "handoff")
    /\ row' = IF HasRow THEN row ELSE Staged(req[r].id)
    /\ leases' = leases \ {req[r].id}
    /\ Answer(r)
    /\ UNCHANGED <<requests, artifact, file, batch, tileVars, taskVars, history>>

\* The hand-off id is unique: a second session is refused, and its lease kept,
\* because the compensating delete meets the failed transaction.
HandoffCreate(r) ==
    /\ At(r, "handoff")
    /\ row' = IF HasRow THEN row ELSE Staged(req[r].id)
    /\ Answer(r)
    /\ UNCHANGED <<requests, sourceVars, tileVars, taskVars, history>>

-----------------------------------------------------------------------------
(* Tile, retry and retile send a tiling task; start_tiling follows.        *)

TileSend(r) ==
    /\ Opens(r)
    /\ Ready /\ Available
    /\ Send(requests + 1, "tile")
    /\ Begin(r, "start", requests + 1)
    /\ UNCHANGED <<row, sourceVars, tileVars, work, revoked, history>>

StartTiling(r) ==
    /\ At(r, "start")
    /\ row' = IF ~HasRow THEN row
              ELSE [row EXCEPT !.task = req[r].id,
                               !.status = IF req[r].seen = "processing" THEN @ ELSE "processing"]
    /\ Strays(~WillSettle(req[r].id))
    /\ Answer(r)
    /\ UNCHANGED <<requests, sourceVars, tileVars, taskVars, failures, deleted>>

\* The retry takes local sources only, and leaves the row to its task.
Retry(r) ==
    /\ Opens(r)
    /\ Ready /\ file
    /\ Send(requests + 1, "tile")
    /\ UNCHANGED <<row, sourceVars, tileVars, req, work, revoked, history>>

\* A retile asks for no status; one of an artifact first takes a new lease,
\* which replaces the one the row names.
Retile(r) ==
    /\ Opens(r)
    /\ layer # None /\ HasRow /\ Available
    /\ \/ ~artifact /\ Send(requests + 1, "tile") /\ Begin(r, "start", requests + 1) /\ UNCHANGED leases
       \/ /\ artifact
          /\ Begin(r, "lease", requests + 1)
          /\ leases' = leases \cup {requests + 1}
          /\ UNCHANGED queue
    /\ UNCHANGED <<artifact, row, file, batch, tileVars, work, revoked, history>>

RetileLease(r) ==
    /\ At(r, "lease")
    /\ row' = IF HasRow THEN [row EXCEPT !.lease = req[r].id] ELSE row
    /\ Go(r, "retile")
    /\ UNCHANGED <<requests, sourceVars, tileVars, taskVars, history>>

RetileSend(r) ==
    /\ At(r, "retile")
    /\ Send(req[r].id, "tile")
    /\ Go(r, "start")
    /\ UNCHANGED <<requests, row, sourceVars, tileVars, work, revoked, history>>

RetileFails(r) ==
    /\ At(r, "retile")
    /\ Fails
    /\ leases' = leases \ {req[r].id}
    /\ Go(r, "drop")
    /\ UNCHANGED <<requests, artifact, row, file, batch, tileVars, taskVars, stray, deleted>>

RetileDrop(r) ==
    /\ At(r, "drop")
    /\ row' = IF HasRow THEN [row EXCEPT !.lease = None] ELSE row
    /\ Answer(r)
    /\ UNCHANGED <<requests, sourceVars, tileVars, taskVars, history>>

-----------------------------------------------------------------------------
(* Publish marks the session, then sends; save copies the source itself.   *)

PublishRead(r) ==
    /\ Opens(r)
    /\ Ready /\ Available
    /\ Begin(r, "publish", requests + 1)
    /\ UNCHANGED <<row, sourceVars, tileVars, taskVars, history>>

PublishMark(r) ==
    /\ At(r, "publish")
    /\ SetStatus("processing")
    /\ Go(r, "send")
    /\ UNCHANGED <<requests, sourceVars, tileVars, taskVars, history>>

PublishSend(r) ==
    /\ At(r, "send")
    /\ Send(req[r].id, "publish")
    /\ Go(r, "task")
    /\ UNCHANGED <<requests, row, sourceVars, tileVars, work, revoked, history>>

PublishRefused(r) ==
    /\ At(r, "send")
    /\ Fails
    /\ Strays(TRUE)
    /\ Answer(r)
    /\ UNCHANGED <<requests, row, sourceVars, tileVars, taskVars, deleted>>

PublishTask(r) ==
    /\ At(r, "task")
    /\ row' = IF HasRow THEN [row EXCEPT !.task = req[r].id] ELSE row
    /\ Answer(r)
    /\ UNCHANGED <<requests, sourceVars, tileVars, taskVars, history>>

SaveRead(r) ==
    /\ Opens(r)
    /\ Ready /\ Available
    /\ Begin(r, "save", requests + 1)
    /\ UNCHANGED <<row, sourceVars, tileVars, taskVars, history>>

\* The layer is looked up, then created or updated: another insert, or a
\* session that is gone, makes it fail.
SaveLayer(r) ==
    /\ At(r, "save")
    /\ \/ HasRow /\ layer' = "file" /\ Go(r, "saved") /\ UNCHANGED failures
       \/ ~HasRow /\ Answer(r) /\ UNCHANGED <<layer, failures>>
       \/ HasRow /\ Fails /\ Answer(r) /\ UNCHANGED layer
    /\ UNCHANGED <<requests, row, sourceVars, tiles, taskVars, stray, deleted>>

SaveDone(r) ==
    /\ At(r, "saved")
    /\ SetStatus("done")
    /\ Answer(r)
    /\ UNCHANGED <<requests, sourceVars, tileVars, taskVars, history>>

-----------------------------------------------------------------------------
(* Cancel revokes the task the row names, then writes the status.          *)

CancelRead(r) ==
    /\ Opens(r)
    /\ \/ Is("uploaded")
       \/ Is("processing")
    /\ revoked' = revoked \cup ({row.task} \ {None})
    /\ Begin(r, "cancel", requests + 1)
    /\ UNCHANGED <<row, sourceVars, tileVars, work, queue, history>>

CancelWrite(r) ==
    /\ At(r, "cancel")
    /\ SetStatus("cancelled")
    /\ Answer(r)
    /\ UNCHANGED <<requests, sourceVars, tileVars, taskVars, history>>

-----------------------------------------------------------------------------
(* DELETE /layers/{id}: whether the source is kept is decided first, and   *)
(* the files, the row, the source and the session go one after another.    *)

DeleteRead(r) ==
    /\ Opens(r)
    /\ layer # None /\ HasRow
    /\ Begin(r, "files", IF batch = "active" THEN 0 ELSE requests + 1)
    /\ UNCHANGED <<row, sourceVars, tileVars, taskVars, history>>

\* Decided when the request read the row: it is numbered 0.
Keeps(r) == req[r].id = 0

DeleteFiles(r) ==
    /\ At(r, "files")
    /\ tiles' = "none"
    /\ deleted' = TRUE
    /\ Go(r, "row")
    /\ UNCHANGED <<requests, row, sourceVars, layer, taskVars, failures, stray>>

DeleteRow(r) ==
    /\ At(r, "row")
    /\ layer' = None
    /\ IF Keeps(r) THEN Answer(r) ELSE Go(r, "source")
    /\ UNCHANGED <<requests, row, sourceVars, tiles, taskVars, history>>

\* The lease stays: see _release_artifact_lease above.
DeleteSource(r) ==
    /\ At(r, "source")
    /\ file' = FALSE
    /\ Go(r, "session")
    /\ UNCHANGED <<requests, artifact, row, leases, batch, tileVars, taskVars, history>>

\* A row that a layer or a batch references cannot be deleted.
DeleteSession(r) ==
    /\ At(r, "session")
    /\ row' = IF layer = None /\ batch = "none" THEN None ELSE row
    /\ Answer(r)
    /\ UNCHANGED <<requests, sourceVars, tileVars, taskVars, history>>

BatchStarts ==
    /\ HasRow /\ Available /\ batch = "none"
    /\ batch' = "active"
    /\ UNCHANGED <<requests, artifact, row, file, leases, tileVars, req, taskVars, history>>

BatchSettles ==
    /\ batch = "active"
    /\ batch' = "settled"
    /\ UNCHANGED <<requests, artifact, row, file, leases, tileVars, req, taskVars, history>>

-----------------------------------------------------------------------------
(* process_tiling_task                                                     *)

Take(w, m, pc) ==
    /\ work[w] = Idle
    /\ queue' = queue \ {m}
    /\ work' = [work EXCEPT ![w] = [pc |-> pc, msg |-> m,
                                    seen |-> IF HasRow THEN row.status ELSE None]]

TileTake(w) ==
    /\ \E m \in {n \in queue : n.kind = "tile"} :
          IF Is("cancelled")
             THEN work[w] = Idle /\ queue' = queue \ {m} /\ UNCHANGED work
             ELSE Take(w, m, "mark")
    /\ UNCHANGED <<requests, row, sourceVars, tileVars, req, revoked, history>>

TileMark(w) ==
    /\ On(w, "mark")
    /\ SetIfSeen(work[w].seen, "processing")
    /\ Step(w, "place")
    /\ UNCHANGED <<requests, sourceVars, tileVars, req, queue, revoked, history>>

\* A placeholder that cannot be created is done without.
TilePlace(w) ==
    /\ On(w, "place")
    /\ \/ layer' = (IF layer = None /\ HasRow THEN "placeholder" ELSE layer) /\ UNCHANGED failures
       \/ Fails /\ UNCHANGED layer
    /\ Step(w, "tiling")
    /\ UNCHANGED <<requests, row, sourceVars, tiles, req, queue, revoked, stray, deleted>>

\* Some tiles are written; the callback that follows sees no cancellation.
TileSome(w) ==
    /\ On(w, "tiling")
    /\ Available
    /\ ~Is("cancelled")
    /\ tiles = "none" /\ tiles' = "partial"
    /\ UNCHANGED <<requests, row, sourceVars, layer, req, taskVars, history>>

\* The tiler goes through every tile.  One that cannot be rendered, encoded or
\* written is skipped without an error: the directory then has holes.
TileAll(w) ==
    /\ On(w, "tiling")
    /\ Available
    /\ ~Is("cancelled")
    /\ tiles' \in {"whole", "holed"}
    /\ Step(w, "finish")
    /\ UNCHANGED <<requests, row, sourceVars, layer, req, queue, revoked, history>>

\* Mutant of TileStop: the callback's exception is swallowed with the others.
TileStopSwallowed(w) ==
    /\ On(w, "tiling")
    /\ Is("cancelled")
    /\ tiles' = IF tiles = "none" THEN "partial" ELSE tiles
    /\ Step(w, "finish")
    /\ UNCHANGED <<requests, row, sourceVars, layer, req, queue, revoked, history>>

\* The callback sees the cancellation: a vector tiler passes its exception on,
\* the raster tiler turns it into a failure.
TileStop(w) ==
    /\ On(w, "tiling")
    /\ Is("cancelled")
    /\ tiles' = IF tiles = "none" THEN "partial" ELSE tiles
    /\ \E pc \in {"stop", "fail"} : Step(w, pc)
    /\ UNCHANGED <<requests, row, sourceVars, layer, req, queue, revoked, history>>

TileStopped(w) ==
    /\ On(w, "stop")
    /\ SetStatus("cancelled")
    /\ End(w)
    /\ UNCHANGED <<requests, sourceVars, tileVars, req, queue, revoked, history>>

\* Done is written whatever the status has become, and before the layer.
TileFinish(w) ==
    /\ On(w, "finish")
    /\ SetStatus("done")
    /\ Step(w, "link")
    /\ UNCHANGED <<requests, sourceVars, tileVars, req, queue, revoked, history>>

\* Mutant of TileLink: a layer that exists is left as it is.
TileLinkNew(w) ==
    /\ On(w, "link")
    /\ layer' = IF HasRow /\ layer = None THEN "tiles" ELSE layer
    /\ End(w)
    /\ UNCHANGED <<requests, row, sourceVars, tiles, req, queue, revoked, history>>

TileLink(w) ==
    /\ On(w, "link")
    /\ layer' = IF HasRow THEN "tiles" ELSE layer
    /\ End(w)
    /\ UNCHANGED <<requests, row, sourceVars, tiles, req, queue, revoked, history>>

-----------------------------------------------------------------------------
(* publish_geoserver_task                                                  *)

PublishTake(w) ==
    /\ \E m \in {n \in queue : n.kind = "publish"} :
          IF HasRow
             THEN Take(w, m, "start")
             ELSE work[w] = Idle /\ queue' = queue \ {m} /\ UNCHANGED work
    /\ UNCHANGED <<requests, row, sourceVars, tileVars, req, revoked, history>>

\* No test of a cancellation.
PublishStart(w) ==
    /\ On(w, "start")
    /\ SetIfSeen(work[w].seen, "processing")
    /\ Step(w, "publishing")
    /\ UNCHANGED <<requests, sourceVars, tileVars, req, queue, revoked, history>>

PublishLayer(w) ==
    /\ On(w, "publishing")
    /\ Available /\ HasRow
    /\ layer' = "wms"
    /\ Step(w, "published")
    /\ UNCHANGED <<requests, row, sourceVars, tiles, req, queue, revoked, history>>

PublishDone(w) ==
    /\ On(w, "published")
    /\ SetStatus("done")
    /\ End(w)
    /\ UNCHANGED <<requests, sourceVars, tileVars, req, queue, revoked, history>>

-----------------------------------------------------------------------------
(* The failure of either task, and what happens to its message.            *)

\* The source, GeoServer or the database fails inside the try.
Raises(w) ==
    /\ work[w].pc \in {"tiling", "finish", "link", "start", "publishing", "published"}
    /\ \/ Fails
       \/ work[w].pc \in {"tiling", "publishing"} /\ ~(Available /\ HasRow) /\ UNCHANGED failures
    /\ Step(w, "fail")
    /\ UNCHANGED <<requests, row, sourceVars, tileVars, req, queue, revoked, stray, deleted>>

FailRead(w) ==
    /\ On(w, "fail")
    /\ Step(w, IF ~HasRow \/ Is("cancelled") THEN "retry" ELSE "failed")
    /\ UNCHANGED <<requests, row, sourceVars, tileVars, req, queue, revoked, history>>

\* Mutant of FailWrite: only the last attempt records the failure, off by one.
FailWriteLast(w) ==
    /\ On(w, "failed")
    /\ IF work[w].msg.tries > MaxRetries THEN SetStatus("failed") ELSE UNCHANGED row
    /\ Step(w, "retry")
    /\ UNCHANGED <<requests, sourceVars, tileVars, req, queue, revoked, history>>

FailWrite(w) ==
    /\ On(w, "failed")
    /\ SetStatus("failed")
    /\ Step(w, "retry")
    /\ UNCHANGED <<requests, sourceVars, tileVars, req, queue, revoked, history>>

FailRetry(w) ==
    /\ On(w, "retry")
    /\ queue' = IF work[w].msg.tries < MaxRetries
                   THEN queue \cup {[work[w].msg EXCEPT !.tries = @ + 1]}
                   ELSE queue
    /\ End(w)
    /\ UNCHANGED <<requests, row, sourceVars, tileVars, req, revoked, history>>

\* The database fails outside the try: in the first steps of a tiling, which
\* come before it, or in a handler.  The exception ends the task, its message is
\* acknowledged, no failure is written and no retry sent.
Escapes(w) ==
    /\ work[w].pc \in {"mark", "place", "stop", "fail", "failed", "retry"}
    /\ Fails
    /\ Strays(TRUE)
    /\ End(w)
    /\ UNCHANGED <<requests, row, sourceVars, tileVars, req, queue, revoked, deleted>>

\* A message is acknowledged when its task ends: a worker that dies gives it back.
WorkerDies(w) ==
    /\ work[w] # Idle
    /\ Fails
    /\ queue' = queue \cup {work[w].msg}
    /\ End(w)
    /\ UNCHANGED <<requests, row, sourceVars, tileVars, req, revoked, stray, deleted>>

\* A revoked task is dropped from the queue or killed where it runs.
Revoke ==
    /\ \/ \E m \in queue : m.id \in revoked /\ queue' = queue \ {m} /\ UNCHANGED work
       \/ \E w \in Workers :
             work[w] # Idle /\ work[w].msg.id \in revoked /\ End(w) /\ UNCHANGED queue
    /\ Strays(TRUE)
    /\ UNCHANGED <<requests, row, sourceVars, tileVars, req, revoked, failures, deleted>>

ApiDies ==
    /\ \E r \in Requests : req[r] # Idle
    /\ Fails
    /\ Strays(TRUE)
    /\ req' = [r \in Requests |-> Idle]
    /\ UNCHANGED <<requests, row, sourceVars, tileVars, taskVars, deleted>>

-----------------------------------------------------------------------------
RequestBegins(r) ==
    \/ Handoff(r) \/ TileSend(r) \/ Retry(r) \/ Retile(r) \/ PublishRead(r)
    \/ SaveRead(r) \/ CancelRead(r) \/ DeleteRead(r)

RequestStep(r) ==
    \/ HandoffRejected(r) \/ HandoffCreate(r) \/ StartTiling(r)
    \/ RetileLease(r) \/ RetileSend(r) \/ RetileFails(r) \/ RetileDrop(r)
    \/ PublishMark(r) \/ PublishSend(r) \/ PublishRefused(r) \/ PublishTask(r)
    \/ SaveLayer(r) \/ SaveDone(r) \/ CancelWrite(r)
    \/ DeleteFiles(r) \/ DeleteRow(r) \/ DeleteSource(r) \/ DeleteSession(r)

WorkerStep(w) ==
    \/ TileTake(w) \/ TileMark(w) \/ TilePlace(w) \/ TileSome(w) \/ TileAll(w)
    \/ TileStop(w) \/ TileStopped(w) \/ TileFinish(w) \/ TileLink(w)
    \/ PublishTake(w) \/ PublishStart(w) \/ PublishLayer(w) \/ PublishDone(w)
    \/ Raises(w) \/ FailRead(w) \/ FailWrite(w) \/ FailRetry(w) \/ Escapes(w)

Next ==
    \/ \E r \in Requests : RequestBegins(r)
    \/ \E r \in Requests : RequestStep(r)
    \/ \E w \in Workers : WorkerStep(w) \/ WorkerDies(w)
    \/ BatchStarts
    \/ BatchSettles
    \/ Revoke
    \/ ApiDies

Spec == Init /\ [][Next]_vars

\* A request that has begun runs on, and so does a worker that has a message.
FairSpec ==
    /\ Spec
    /\ \A r \in Requests : WF_vars(RequestStep(r))
    /\ \A w \in Workers : WF_vars(WorkerStep(w))

-----------------------------------------------------------------------------
(* Properties                                                              *)

\* A layer whose URL serves tiles has a directory that a tiling has gone through
\* to its last tile: a cancelled, failed or crashed tiling, or a retile on top of
\* served tiles, never shows a partial one (a deletion takes the files first).
\* Single tiles may be missing: their errors are swallowed
\* (tiling_service.py:353-364, 441-452) and the session is done all the same.
TilesAreFinished == layer = "tiles" /\ ~deleted => tiles \in {"whole", "holed"}

\* A session that is done has a layer with a URL, or a task that is still to
\* give it one: status and layer are written in two transactions.
DoneHasLayer ==
    Is("done") /\ ~deleted /\ ~stray => layer \in {"tiles", "wms", "file"} \/ Outstanding

\* While a task is outstanding for a session of an artifact, a lease pins it.
ArtifactIsPinned == artifact /\ Outstanding => leases # {}

\* A session that is processing comes to an end, over failures of the source,
\* of GeoServer and of the database inside a task's try, crashes of workers and
\* retries.  Excepted is a session that has been left to no task (see Strays):
\* the first writes of a tiling and those of a failure handler are unprotected
\* (tasks.py:370-381, 519-523), and the API writes and sends in separate steps.
ProcessingEnds == Is("processing") ~> ~Is("processing") \/ stray
=============================================================================
