----------------------------- MODULE MapBatches -----------------------------
(***************************************************************************)
(* The batch life cycle of app/application/map_batches.py: one uploaded    *)
(* ZIP is inspected, configured and processed into one layer per selected  *)
(* dataset and, in group mode, one published layer group.  API requests    *)
(* (the clients) and Celery tasks (the workers) share the database rows of *)
(* app/infrastructure/db/catalog.py and a task queue with late             *)
(* acknowledgement; a task token fences the tasks of earlier attempts.     *)
(*                                                                         *)
(* A transaction is two steps.  The first reads the aggregate, runs the    *)
(* checks of the handler and, when they let it go on, keeps what it read   *)
(* in snap[p]; the second writes.  Other processes act in between: the     *)
(* sessions of SyncStore are READ COMMITTED and take no row locks, so a    *)
(* transaction may write over rows that changed after it read them.  The   *)
(* history variable crossed says whether one has.                          *)
(***************************************************************************)
EXTENDS Naturals, FiniteSets

CONSTANTS
    Datasets,      \* the valid shapefiles of the ZIP (an invalid one is never selected)
    Clients,       \* API requests that can be in progress at once
    Workers,       \* Celery worker slots
    None,          \* no transaction, no dataset
    MaxTokens,     \* bound: task tokens issued in a behaviour
    MaxCrashes     \* bound: processes killed in a behaviour

ASSUME ConstantsAssumption ==
    /\ None \notin Datasets
    /\ Clients \cap Workers = {}
    /\ MaxTokens \in Nat
    /\ MaxCrashes \in Nat

VARIABLES
    batch,         \* the row of "batches"; status "absent" before the first inspect
    items,         \* the rows of "datasets"
    group,         \* the row of "layer_groups" with its members
    layers,        \* datasets whose row of "layers" exists
    queue,         \* unacknowledged task messages
    issued,        \* task tokens issued so far (uuid4: always fresh)
    client,        \* where each request is
    worker,        \* where each task is
    snap,          \* what the open transaction of a process has read
    crashes,       \* processes killed so far
    crossed        \* a transaction has written over rows it had not read

rows == <<batch, items, group, layers>>
vars == <<batch, items, group, layers, queue, issued, client, worker, snap, crashes, crossed>>

Procs == Clients \cup Workers

-----------------------------------------------------------------------------
(* Types                                                                   *)

BatchStatus == {"absent", "inspecting", "inspecting_running", "ready", "pending",
                "processing", "done", "failed", "cancelled", "inspection_failed"}
ItemStatus == {"absent", "detected", "pending", "processing", "done", "failed",
               "cancelled"}
GroupStatus == {"absent", "draft", "published", "failed"}
Actions == {"inspect", "process"}

Batch == [status : BatchStatus, token : 0 .. MaxTokens, grouped : BOOLEAN]
Item == [selected : BOOLEAN, status : ItemStatus]
Group == [status : GroupStatus, members : SUBSET Datasets]
Message == [token : 0 .. MaxTokens, action : Actions]
Snapshot == [batch : Batch, items : [Datasets -> Item], group : Group,
             layers : SUBSET Datasets]

ClientPc == {"idle", "inspect", "configure", "cancel", "retry", "dispatch", "undo", "drop"}
WorkerPc == {"idle", "start", "inspect", "loop", "progress", "render", "save",
             "failitem", "final", "fail"}
Client == [pc : ClientPc, token : 0 .. MaxTokens, action : Actions, cur : Datasets \cup {None}]
Worker == [pc : WorkerPc, token : 0 .. MaxTokens, action : Actions,
           todo : SUBSET Datasets, cur : Datasets \cup {None}]

NoGroup == [status |-> "absent", members |-> {}]
IdleClient == [pc |-> "idle", token |-> 0, action |-> "inspect", cur |-> None]
IdleWorker == [pc |-> "idle", token |-> 0, action |-> "inspect",
               todo |-> {}, cur |-> None]

TypeOK ==
    /\ batch \in Batch
    /\ items \in [Datasets -> Item]
    /\ group \in Group
    /\ layers \in SUBSET Datasets
    /\ queue \in SUBSET Message
    /\ issued \in 0 .. MaxTokens
    /\ client \in [Clients -> Client]
    /\ worker \in [Workers -> Worker]
    /\ snap \in [Procs -> Snapshot \cup {None}]
    /\ crashes \in 0 .. MaxCrashes
    /\ crossed \in BOOLEAN

Init ==
    /\ batch = [status |-> "absent", token |-> 0, grouped |-> FALSE]
    /\ items = [d \in Datasets |-> [selected |-> FALSE, status |-> "absent"]]
    /\ group = NoGroup
    /\ layers = {}
    /\ queue = {}
    /\ issued = 0
    /\ client = [c \in Clients |-> IdleClient]
    /\ worker = [w \in Workers |-> IdleWorker]
    /\ snap = [p \in Procs |-> None]
    /\ crashes = 0
    /\ crossed = FALSE

-----------------------------------------------------------------------------
(* Transactions                                                            *)

MayOpen(p) == snap[p] = None

\* Only a task with no dataset left to do reads the group and its layers.
Last(p) == p \in Workers /\ worker[p].pc = "loop" /\ worker[p].todo = {}
Open(p) == snap' = [snap EXCEPT ![p] = [batch |-> batch, items |-> items,
                                        group |-> IF Last(p) THEN group ELSE NoGroup,
                                        layers |-> IF Last(p) THEN layers ELSE {}]]
Close(p) == snap' = [snap EXCEPT ![p] = None]
InTxn(p) == snap[p] # None

\* The rows a transaction has read are no longer what it has read.
Overtaken(p) ==
    \/ snap[p].batch # batch \/ snap[p].items # items
    \/ p \in Workers /\ worker[p].pc = "final" /\ snap[p].group # group

Commit(p) ==
    /\ Close(p)
    /\ crossed' = (crossed \/ Overtaken(p))

\* A column as the flush leaves it: written when the value differs from the
\* row the session holds, left as it is in the table otherwise.
Flushed(read, new, now) == IF new = read THEN now ELSE new

\* Saving a batch fetches its row again before the update.  If that fetch
\* already sees what others committed since the transaction read the batch,
\* every column is put to the value of the aggregate; if it does not, and the
\* update waited for their commit, only the columns the handler changed are.
SaveBatch(p, b) ==
    \/ batch' = b
    \/ LET r == snap[p].batch IN
       batch' = [status  |-> Flushed(r.status, b.status, batch.status),
                 token   |-> Flushed(r.token, b.token, batch.token),
                 grouped |-> Flushed(r.grouped, b.grouped, batch.grouped)]

\* The dataset rows follow, after the row lock of the batch: all columns of
\* every dataset the aggregate holds are written.
SaveItems(new) ==
    items' = [d \in Datasets |-> IF new[d].status = "absent" THEN items[d] ELSE new[d]]

Unfinished(rs) == {d \in Datasets : rs[d].selected /\ rs[d].status # "done"}

\* The datasets in S get status s, the others keep theirs.
Marked(rs, S, s) == [d \in Datasets |-> IF d \in S THEN [rs[d] EXCEPT !.status = s] ELSE rs[d]]

-----------------------------------------------------------------------------
(* Requests                                                                *)

GoClient(c, pc) == client' = [client EXCEPT ![c].pc = pc]
EndClient(c) == client' = [client EXCEPT ![c] = IdleClient]

\* A request that will enqueue a task draws the token of the new attempt.
OpenAttempt(c, pc, action) ==
    /\ client[c].pc = "idle"
    /\ MayOpen(c)
    /\ issued < MaxTokens
    /\ issued' = issued + 1
    /\ Open(c)
    /\ client' = [client EXCEPT ![c] = [pc |-> pc, token |-> issued + 1, action |-> action,
                                           cur |-> None]]
    /\ UNCHANGED <<rows, queue, worker, crashes, crossed>>

Attempt(c, status, grouped) ==
    [status |-> status, token |-> client[c].token, grouped |-> grouped]

\* POST /batches/inspect: any other previous batch is returned as it is.
InspectOpen(c) ==
    /\ batch.status \in {"absent", "inspection_failed"}
    /\ OpenAttempt(c, "inspect", "inspect")

InspectCommit(c) ==
    /\ client[c].pc = "inspect" /\ InTxn(c)
    /\ SaveBatch(c, Attempt(c, "inspecting", FALSE))
    /\ snap[c].batch.status = "absent" =>
           \/ batch.status = "absent"
           \/ batch' = Attempt(c, "inspecting", FALSE)
    /\ GoClient(c, "dispatch")
    /\ Commit(c)
    /\ UNCHANGED <<items, group, layers, queue, issued, worker, crashes>>

\* POST /batches/{id}/configure with a selection S, mode "group" iff g.
ConfigureOpen(c) ==
    /\ batch.status = "ready"
    /\ OpenAttempt(c, "configure", "process")

ConfigureCommit(c) ==
    /\ client[c].pc = "configure" /\ InTxn(c)
    /\ \E S \in (SUBSET Datasets) \ {{}}, g \in BOOLEAN :
           /\ SaveBatch(c, Attempt(c, "pending", g \/ snap[c].batch.grouped))
           /\ SaveItems([d \in Datasets |-> IF d \in S
                                            THEN [selected |-> TRUE, status |-> "pending"]
                                            ELSE snap[c].items[d]])
           /\ group' = IF g THEN [status |-> "draft", members |-> S] ELSE group
    /\ GoClient(c, "dispatch")
    /\ Commit(c)
    /\ UNCHANGED <<layers, queue, issued, worker, crashes>>

\* A row with the same key inserted since the read rolls the request back: the
\* batch itself, or a code reservation or group of another configuration.
UniqueViolation(c) ==
    /\ InTxn(c)
    /\ \/ /\ client[c].pc = "inspect"
          /\ snap[c].batch.status = "absent" /\ batch.status # "absent"
       \/ /\ client[c].pc = "configure"
          /\ batch.token # snap[c].batch.token
    /\ EndClient(c)
    /\ Close(c)
    /\ UNCHANGED <<rows, queue, issued, worker, crashes, crossed>>

\* POST /batches/{id}/cancel keeps the token: the running task sees the status.
CancelOpen(c) ==
    /\ client[c].pc = "idle" /\ MayOpen(c)
    /\ batch.status \in {"pending", "processing"}
    /\ GoClient(c, "cancel")
    /\ Open(c)
    /\ UNCHANGED <<rows, queue, issued, worker, crashes, crossed>>

CancelCommit(c) ==
    /\ client[c].pc = "cancel" /\ InTxn(c)
    /\ SaveBatch(c, [snap[c].batch EXCEPT !.status = "cancelled"])
    /\ SaveItems(Marked(snap[c].items, Unfinished(snap[c].items), "cancelled"))
    /\ EndClient(c)
    /\ Commit(c)
    /\ UNCHANGED <<group, layers, queue, issued, worker, crashes>>

\* POST /batches/{id}/retry resumes with the unfinished datasets.
RetryOpen(c) ==
    /\ batch.status \in {"failed", "cancelled", "inspection_failed"}
    /\ OpenAttempt(c, "retry",
                   IF batch.status = "inspection_failed" THEN "inspect" ELSE "process")

\* Mutant of RetryCommit: every selected dataset is reset, done or not.
RetryCommitResetsAll(c) ==
    /\ client[c].pc = "retry" /\ InTxn(c)
    /\ SaveBatch(c, Attempt(c, IF client[c].action = "inspect" THEN "inspecting" ELSE "pending",
                            snap[c].batch.grouped))
    /\ SaveItems(Marked(snap[c].items, {d \in Datasets : snap[c].items[d].selected}, "pending"))
    /\ GoClient(c, "dispatch")
    /\ Commit(c)
    /\ UNCHANGED <<group, layers, queue, issued, worker, crashes>>

RetryCommit(c) ==
    /\ client[c].pc = "retry" /\ InTxn(c)
    /\ SaveBatch(c, Attempt(c, IF client[c].action = "inspect" THEN "inspecting" ELSE "pending",
                            snap[c].batch.grouped))
    /\ SaveItems(Marked(snap[c].items, Unfinished(snap[c].items), "pending"))
    /\ GoClient(c, "dispatch")
    /\ Commit(c)
    /\ UNCHANGED <<group, layers, queue, issued, worker, crashes>>

\* The task is enqueued after the commit.
Dispatch(c) ==
    /\ client[c].pc = "dispatch"
    /\ queue' = queue \cup {[token |-> client[c].token, action |-> client[c].action]}
    /\ EndClient(c)
    /\ UNCHANGED <<rows, issued, worker, snap, crashes, crossed>>

\* Mutant of DispatchRaises: the exception is swallowed.
DispatchRaisesSwallowed(c) ==
    /\ client[c].pc = "dispatch"
    /\ EndClient(c)
    /\ UNCHANGED <<rows, queue, issued, worker, snap, crashes, crossed>>

\* The broker raises; the message may have reached it all the same.
DispatchRaises(c) ==
    /\ client[c].pc = "dispatch"
    /\ \/ UNCHANGED queue
       \/ queue' = queue \cup {[token |-> client[c].token, action |-> client[c].action]}
    /\ GoClient(c, "undo")
    /\ UNCHANGED <<rows, issued, worker, snap, crashes, crossed>>

UndoOpen(c) ==
    /\ client[c].pc = "undo" /\ MayOpen(c)
    /\ IF batch.token = client[c].token
       THEN Open(c) /\ UNCHANGED client
       ELSE EndClient(c) /\ UNCHANGED snap
    /\ UNCHANGED <<rows, queue, issued, worker, crashes, crossed>>

UndoCommit(c) ==
    /\ client[c].pc = "undo" /\ InTxn(c)
    /\ SaveBatch(c, [snap[c].batch EXCEPT !.status =
                        IF client[c].action = "inspect" THEN "inspection_failed" ELSE "failed"])
    /\ SaveItems(snap[c].items)
    /\ EndClient(c)
    /\ Commit(c)
    /\ UNCHANGED <<group, layers, queue, issued, worker, crashes>>

\* DELETE /batches/{group}/group leaves the batch's group_id in place.
DeleteGroup(c) ==
    /\ client[c].pc = "idle" /\ MayOpen(c)
    /\ group.status # "absent"
    /\ group' = NoGroup
    /\ UNCHANGED <<batch, items, layers, queue, issued, client, worker, snap, crashes, crossed>>


\* DELETE /layers/{id}: a layer of a group is kept.  The guard has a transaction
\* of its own; tables and files are dropped before the row is.
DeleteLayerOpen(c) ==
    /\ client[c].pc = "idle" /\ MayOpen(c)
    /\ \E d \in layers :
           /\ group.status = "absent" \/ d \notin group.members
           /\ client' = [client EXCEPT ![c].pc = "drop", ![c].cur = d]
    /\ UNCHANGED <<rows, queue, issued, worker, snap, crashes, crossed>>

DeleteLayerCommit(c) ==
    /\ client[c].pc = "drop"
    /\ layers' = layers \ {client[c].cur}
    /\ EndClient(c)
    /\ UNCHANGED <<batch, items, group, queue, issued, worker, snap, crashes, crossed>>

-----------------------------------------------------------------------------
(* Tasks                                                                   *)

GoWorker(w, pc) == worker' = [worker EXCEPT ![w].pc = pc]

\* Mutant of EndTask: the message is never acknowledged.
EndTaskUnacknowledged(w) ==
    /\ worker' = [worker EXCEPT ![w] = IdleWorker]
    /\ UNCHANGED queue

\* The task returns and its message is acknowledged.
EndTask(w) ==
    /\ worker' = [worker EXCEPT ![w] = IdleWorker]
    /\ queue' = {m \in queue : m.token # worker[w].token}

Current(w) == batch.token = worker[w].token
Wanted(w) == Current(w) /\ batch.status # "cancelled"

\* Opens a transaction that goes on at pc when ok, and ends the task when not.
OpenOrEnd(w, ok, pc) ==
    /\ MayOpen(w)
    /\ IF ok THEN Open(w) /\ GoWorker(w, pc) /\ UNCHANGED queue
             ELSE EndTask(w) /\ UNCHANGED snap
    /\ UNCHANGED <<rows, issued, client, crashes, crossed>>

\* A message stays in the queue until its task returns (task_acks_late), so a
\* lost worker or a lost broker connection delivers it again.
Deliver(w) ==
    /\ worker[w].pc = "idle"
    /\ \E m \in queue :
           worker' = [worker EXCEPT ![w] = [pc |-> "start", token |-> m.token,
                                            action |-> m.action, todo |-> {}, cur |-> None]]
    /\ UNCHANGED <<rows, queue, issued, client, snap, crashes, crossed>>

\* Mutant of StartOpen: the status is not compared.
StartOpenAnyStatus(w) ==
    /\ worker[w].pc = "start"
    /\ OpenOrEnd(w, Current(w), "start")

StartOpen(w) ==
    /\ worker[w].pc = "start"
    /\ OpenOrEnd(w, /\ Current(w)
                    /\ batch.status = IF worker[w].action = "inspect" THEN "inspecting"
                                                                     ELSE "pending",
                 "start")

StartCommit(w) ==
    /\ worker[w].pc = "start" /\ InTxn(w)
    /\ SaveItems(snap[w].items)
    /\ IF worker[w].action = "inspect"
       THEN /\ SaveBatch(w, [snap[w].batch EXCEPT !.status = "inspecting_running"])
            /\ GoWorker(w, "inspect")
       ELSE /\ SaveBatch(w, [snap[w].batch EXCEPT !.status = "processing"])
            /\ worker' = [worker EXCEPT ![w].pc = "loop",
                                        ![w].todo = Unfinished(snap[w].items)]
    /\ Commit(w)
    /\ UNCHANGED <<group, layers, queue, issued, client, crashes>>

\* renderer.inspect returned: the detected datasets replace what the rows say.
InspectedOpen(w) ==
    /\ worker[w].pc = "inspect"
    /\ OpenOrEnd(w, Current(w), "inspect")

InspectedCommit(w) ==
    /\ worker[w].pc = "inspect" /\ InTxn(w)
    /\ SaveBatch(w, [snap[w].batch EXCEPT !.status = "ready"])
    /\ SaveItems([d \in Datasets |-> [selected |-> FALSE, status |-> "detected"]])
    /\ EndTask(w)
    /\ Commit(w)
    /\ UNCHANGED <<group, layers, issued, client, crashes>>

\* Mutant of InspectRaises: the failure is not recorded.
InspectRaisesSilently(w) ==
    /\ worker[w].pc = "inspect" /\ ~InTxn(w)
    /\ EndTask(w)
    /\ UNCHANGED <<rows, issued, client, snap, crashes, crossed>>

InspectRaises(w) ==
    /\ worker[w].pc = "inspect" /\ ~InTxn(w)
    /\ GoWorker(w, "fail")
    /\ UNCHANGED <<rows, queue, issued, client, snap, crashes, crossed>>

\* The next dataset of the loop, up to the _progress call that starts it.
NextItem(w) ==
    /\ worker[w].pc = "loop"
    /\ MayOpen(w)
    /\ \E d \in worker[w].todo :
           IF Wanted(w)
           THEN /\ Open(w)
                /\ worker' = [worker EXCEPT ![w].pc = "progress", ![w].cur = d,
                                            ![w].todo = @ \ {d}]
                /\ UNCHANGED queue
           ELSE EndTask(w) /\ UNCHANGED snap
    /\ UNCHANGED <<rows, issued, client, crashes, crossed>>

\* A progress callback of the renderer.
ProgressOpen(w) ==
    /\ worker[w].pc = "render"
    /\ OpenOrEnd(w, Wanted(w), "progress")

ProgressCommit(w) ==
    /\ worker[w].pc = "progress" /\ InTxn(w)
    /\ SaveBatch(w, snap[w].batch)
    /\ SaveItems(Marked(snap[w].items, {worker[w].cur}, "processing"))
    /\ GoWorker(w, "render")
    /\ Commit(w)
    /\ UNCHANGED <<group, layers, queue, issued, client, crashes>>

\* Mutant of RenderedOpen: the token is not compared.
RenderedOpenAnyToken(w) ==
    /\ worker[w].pc = "render"
    /\ OpenOrEnd(w, TRUE, "save")

\* The renderer returned: the layer and the dataset's "done" commit together.
\* Only the token is compared, so a cancelled batch keeps a late result.
RenderedOpen(w) ==
    /\ worker[w].pc = "render"
    /\ OpenOrEnd(w, Current(w), "save")

RenderedCommit(w) ==
    /\ worker[w].pc = "save" /\ InTxn(w)
    /\ layers' = layers \cup {worker[w].cur}
    /\ SaveBatch(w, snap[w].batch)
    /\ SaveItems(Marked(snap[w].items, {worker[w].cur}, "done"))
    /\ GoWorker(w, "loop")
    /\ Commit(w)
    /\ UNCHANGED <<group, queue, issued, client, crashes>>

RenderRaisesOpen(w) ==
    /\ worker[w].pc = "render"
    /\ OpenOrEnd(w, Wanted(w), "failitem")

RenderRaisesCommit(w) ==
    /\ worker[w].pc = "failitem" /\ InTxn(w)
    /\ SaveBatch(w, snap[w].batch)
    /\ SaveItems(Marked(snap[w].items, {worker[w].cur}, "failed"))
    /\ GoWorker(w, "loop")
    /\ Commit(w)
    /\ UNCHANGED <<group, layers, queue, issued, client, crashes>>

Complete(s) == Unfinished(s.items) = {}

\* Mutant of FinalOpen: a cancelled batch is completed.
FinalOpenCancelled(w) ==
    /\ worker[w].pc = "loop" /\ worker[w].todo = {}
    /\ OpenOrEnd(w, Current(w), "final")

\* The last transaction reads the group too; a deleted one raises.
FinalOpen(w) ==
    /\ worker[w].pc = "loop" /\ worker[w].todo = {}
    /\ IF /\ Wanted(w) /\ Unfinished(items) = {}
          /\ batch.grouped /\ group.status = "absent"
       THEN /\ MayOpen(w)
            /\ GoWorker(w, "fail")
            /\ UNCHANGED <<rows, queue, issued, client, snap, crashes, crossed>>
       ELSE OpenOrEnd(w, Wanted(w), "final")

\* GeoServer is called inside the transaction and may refuse the group.
FinalCommit(w) ==
    LET s == snap[w]
        publishes == Complete(s) /\ s.batch.grouped
    IN  /\ worker[w].pc = "final" /\ InTxn(w)
        /\ \E accepted \in BOOLEAN :
               LET published == accepted /\ s.group.members \subseteq s.layers IN
               /\ group' = IF ~publishes THEN group
                           ELSE [s.group EXCEPT !.status = IF published THEN "published"
                                                                        ELSE "failed"]
               /\ SaveBatch(w, [s.batch EXCEPT !.status =
                                   IF Complete(s) /\ (publishes => published)
                                   THEN "done" ELSE "failed"])
        /\ SaveItems(s.items)
        /\ EndTask(w)
        /\ Commit(w)
        /\ UNCHANGED <<layers, issued, client, crashes>>

\* Updating a group row that is gone aborts the transaction.
FinalAborts(w) ==
    /\ worker[w].pc = "final" /\ InTxn(w)
    /\ snap[w].group.status # "absent" /\ group.status = "absent"
    /\ Complete(snap[w]) /\ snap[w].batch.grouped
    /\ GoWorker(w, "fail")
    /\ Close(w)
    /\ UNCHANGED <<rows, queue, issued, client, crashes, crossed>>

FailOpen(w) ==
    /\ worker[w].pc = "fail"
    /\ OpenOrEnd(w, Wanted(w), "fail")

FailCommit(w) ==
    /\ worker[w].pc = "fail" /\ InTxn(w)
    /\ SaveBatch(w, [snap[w].batch EXCEPT !.status =
                        IF worker[w].action = "inspect" THEN "inspection_failed" ELSE "failed"])
    /\ SaveItems(snap[w].items)
    /\ EndTask(w)
    /\ Commit(w)
    /\ UNCHANGED <<group, layers, issued, client, crashes>>

-----------------------------------------------------------------------------
(* Crashes: an open transaction rolls back, a task's message survives.     *)

ClientCrash(c) ==
    /\ crashes < MaxCrashes
    /\ client[c].pc # "idle"
    /\ crashes' = crashes + 1
    /\ EndClient(c)
    /\ Close(c)
    /\ UNCHANGED <<rows, queue, issued, worker, crossed>>

WorkerCrash(w) ==
    /\ crashes < MaxCrashes
    /\ worker[w].pc # "idle"
    /\ crashes' = crashes + 1
    /\ worker' = [worker EXCEPT ![w] = IdleWorker]
    /\ Close(w)
    /\ UNCHANGED <<rows, queue, issued, client, crossed>>

-----------------------------------------------------------------------------
ClientStep(c) ==
    \/ InspectCommit(c) \/ ConfigureCommit(c) \/ UniqueViolation(c)
    \/ CancelCommit(c) \/ RetryCommit(c)
    \/ Dispatch(c) \/ DispatchRaises(c) \/ UndoOpen(c) \/ UndoCommit(c)
    \/ DeleteLayerCommit(c)

Request(c) ==
    \/ InspectOpen(c) \/ ConfigureOpen(c) \/ CancelOpen(c) \/ RetryOpen(c)
    \/ DeleteGroup(c) \/ DeleteLayerOpen(c)

TaskStep(w) ==
    \/ StartOpen(w) \/ StartCommit(w)
    \/ InspectedOpen(w) \/ InspectedCommit(w) \/ InspectRaises(w)
    \/ NextItem(w) \/ ProgressOpen(w) \/ ProgressCommit(w)
    \/ RenderedOpen(w) \/ RenderedCommit(w)
    \/ RenderRaisesOpen(w) \/ RenderRaisesCommit(w)
    \/ FinalOpen(w) \/ FinalCommit(w) \/ FinalAborts(w)
    \/ FailOpen(w) \/ FailCommit(w)

Next ==
    \/ \E c \in Clients : Request(c) \/ ClientStep(c) \/ ClientCrash(c)
    \/ \E w \in Workers : Deliver(w) \/ TaskStep(w) \/ WorkerCrash(w)

Spec == Init /\ [][Next]_vars

(***************************************************************************)
(* Fairness.  Requests that are in progress and tasks that run take their  *)
(* next step: nobody waits for another's transaction but for the short     *)
(* time of a row lock.  A renderer reports progress finitely often, hence  *)
(* SF on its return.  Users need not send requests and crashes need not    *)
(* happen.                                                                 *)
(***************************************************************************)
Fairness ==
    /\ \A c \in Clients : WF_vars(ClientStep(c))
    /\ \A w \in Workers :
           /\ WF_vars(Deliver(w))
           /\ WF_vars(TaskStep(w))
           /\ SF_vars(RenderedOpen(w) \/ RenderRaisesOpen(w))

FairSpec == Spec /\ Fairness

-----------------------------------------------------------------------------
(* Properties.  The store neither locks nor compares, so what follows is   *)
(* promised only until a transaction writes over rows it has not read, and *)
(* says so with crossed.                                                   *)

(***************************************************************************)
(* No attempt is lost without a crash: a batch that waits for a task has a *)
(* message in the queue, or the request that will send it (or record that  *)
(* it could not) is still running; a batch that is being worked on has a   *)
(* task of its current token.  (A start that crosses a cancellation and    *)
(* its retry leaves the new token "processing" with nobody at work.)       *)
(***************************************************************************)
WorkIsNotLost == crashes = 0 /\ ~crossed =>
    /\ batch.status \in {"inspecting", "pending"} =>
           \/ \E m \in queue : m.token = batch.token
           \/ \E c \in Clients : /\ client[c].pc \in {"dispatch", "undo"}
                                 /\ client[c].token = batch.token
    /\ batch.status \in {"inspecting_running", "processing"} =>
           \E w \in Workers : /\ worker[w].token = batch.token
                              /\ worker[w].pc \notin {"idle", "start"}

(***************************************************************************)
(* At most one task is past the start of the batch's attempt, whatever is  *)
(* delivered twice or again after a crash, and none while the batch waits  *)
(* for its task or is done.  (Two starts that cross both read "pending".)  *)
(***************************************************************************)
Started(w) == worker[w].pc \notin {"idle", "start"}
OneTask == ~crossed =>
    /\ batch.status \in {"inspecting", "pending", "done"} =>
           \A w \in Workers : ~(Started(w) /\ Current(w))
    /\ \A v, w \in Workers : Started(v) /\ Current(v) /\ Started(w) /\ Current(w) => v = w

(***************************************************************************)
(* A task whose token is no longer the batch's changes nothing: neither    *)
(* rows nor layers nor the group, whatever it was doing when the token     *)
(* was replaced.  The one exception is a transaction that was open when    *)
(* the token was replaced, and that counts as a crossing.                  *)
(***************************************************************************)
StaleTaskIsFenced ==
    [][\A w \in Workers :
           worker'[w] # worker[w] /\ worker[w].token # batch.token =>
               crossed' \/ UNCHANGED rows]_vars

(***************************************************************************)
(* Cancelling sticks: a cancelled batch is resumed by a retry only, and    *)
(* what still runs neither restarts nor completes it, across retries, late *)
(* results, a failing broker and redeliveries, unless transactions cross.  *)
(* (docs/plans/multi-shapefile-layer-groups.md:91 asks for the race to be  *)
(* handled, and the code does not: a start that has read "pending" writes  *)
(* "processing" over a cancellation that committed meanwhile,              *)
(* map_batches.py:131-139, and that is such a crossing.)                   *)
(***************************************************************************)
CancelHolds ==
    [][batch.status = "cancelled" /\ ~crossed' =>
           batch'.status \in {"cancelled", "pending", "failed"}]_vars


(***************************************************************************)
(* Every attempt settles when nothing crashes: the batch waits for the     *)
(* user (to configure, or to retry) or is done, unless transactions cross. *)
(***************************************************************************)
Settled == {"absent", "ready", "done", "failed", "cancelled", "inspection_failed"}
EveryAttemptSettles ==
    (batch.status \notin Settled) ~> (batch.status \in Settled \/ crossed \/ crashes > 0)

(***************************************************************************)
(* A cancelled batch that nobody retries comes to rest: every task, of     *)
(* this attempt or an earlier one, sees the cancellation and returns, and  *)
(* no message is delivered over and over.                                  *)
(***************************************************************************)
CancelStopsTheWork ==
    <>[](batch.status = "cancelled") => <>[](\A w \in Workers : worker[w].pc = "idle")

-----------------------------------------------------------------------------
(* The batch as the job its user sees.                                     *)
Phase ==
    CASE batch.status = "absent" -> "new"
      [] batch.status \in {"inspecting", "inspecting_running"} -> "inspecting"
      [] batch.status = "inspection_failed" -> "refused"
      [] batch.status = "ready" -> "ready"
      [] batch.status \in {"pending", "processing"} -> "working"
      [] batch.status \in {"failed", "cancelled"} -> "stopped"
      [] batch.status = "done" -> "finished"

Job == INSTANCE BatchJob WITH
    phase   <- Phase,
    chosen  <- {d \in Datasets : items[d].selected},
    results <- {d \in Datasets : items[d].status = "done"},
    public  <- group.status = "published",
    upset   <- crossed

(***************************************************************************)
(* Whatever tokens, redeliveries, crashes and failing brokers do, and      *)
(* until two transactions cross, the batch behaves as a job: choices are   *)
(* made once, results accumulate, and done and published mean complete.    *)
(***************************************************************************)
ImplementsJob == Job!JobSpec
=============================================================================
