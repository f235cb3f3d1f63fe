--------------------------- MODULE OverlayAnalysis ---------------------------
(***************************************************************************)
(* Overlay analyses: a run computes a layer from one or two layers, in the  *)
(* request or in a Celery task, and keeps a row of its result, a row of its *)
(* layer and a directory of files.  The user saves or discards the result;  *)
(* the cleanup removes the results nobody saved.  Every statement commits   *)
(* on its own, and the files are no part of any transaction.                *)
(*                                                                          *)
(* A row is read and updated in one step: SQLAlchemy writes the columns     *)
(* that changed, and a row that is gone by then raises (see Raises).        *)
(***************************************************************************)
EXTENDS Naturals, FiniteSets

CONSTANTS
    Runs,          \* runs that can be asked for
    Requests,      \* API requests that can be in progress at once
    Workers,       \* Celery worker processes
    None,          \* no row
    MaxCalls,      \* bound: saves, discards and cleanups
    MaxRetries,    \* run_analysis_task's max_retries
    MaxFailures    \* bound: failures

ASSUME ConstantsAssumption ==
    /\ Requests \cap Workers = {}
    /\ MaxCalls \in Nat
    /\ MaxRetries \in Nat
    /\ MaxFailures \in Nat

VARIABLES
    started,       \* runs that were asked for
    area,          \* runs that measure areas and keep a snapshot of their sources
    result,        \* the row of each run's result; None without one
    layer,         \* the row of its layer: none, empty until it is filled, or whole
    files,         \* the files in its directory
    old,           \* runs whose result is older than the time to live
    at,            \* where each process is, and its run
    queue,         \* messages the broker holds
    calls,         \* saves, discards and cleanups so far
    failures,      \* failures so far
    saved,         \* runs whose saving was answered, and not discarded since
    crossed,       \* runs saved or removed while another process had them
    left,          \* runs whose worker died or failed with files its row does not name
    cut,           \* a request failed or died half way
    stuck          \* runs that were not sent, or whose last attempt failed outside its handler

vars == <<started, area, result, layer, files, old, at, queue, calls, failures, saved,
          crossed, left, cut, stuck>>

-----------------------------------------------------------------------------
Processes == Requests \cup Workers
Files == {"result", "sources"}
ResultStatus == {"pending", "processing", "done", "failed"}
Result == [status : ResultStatus, path : BOOLEAN, ephemeral : BOOLEAN]
Message == [run : Runs, tries : 0 .. MaxRetries]
RunPc == {"load", "compute", "store", "sources", "layer", "result", "fill", "place", "pend",
          "send", "fail", "drop", "retry", "mark", "files", "rows"}
ASSUME NoneAssumption == None \notin Result
Idle == [pc |-> "idle"]
OnRun == [pc : RunPc, msg : Message, path : BOOLEAN]
OnList == [pc : {"sweep"}, list : SUBSET Runs, todo : SUBSET Runs, paths : SUBSET Runs]

TypeOK ==
    /\ {started, area, old, saved, crossed, left, stuck} \subseteq SUBSET Runs
    /\ result \in [Runs -> Result \cup {None}]
    /\ layer \in [Runs -> {"none", "empty", "whole"}]
    /\ files \in [Runs -> SUBSET Files]
    /\ at \in [Processes -> {Idle} \cup OnRun \cup OnList]
    /\ queue \subseteq Message
    /\ calls \in 0 .. MaxCalls
    /\ failures \in 0 .. MaxFailures
    /\ cut \in BOOLEAN

Init ==
    /\ started = {}
    /\ area = {}
    /\ result = [r \in Runs |-> None]
    /\ layer = [r \in Runs |-> "none"]
    /\ files = [r \in Runs |-> {}]
    /\ old = {}
    /\ at = [p \in Processes |-> Idle]
    /\ queue = {}
    /\ calls = 0
    /\ failures = 0
    /\ saved = {}
    /\ crossed = {}
    /\ left = {}
    /\ cut = FALSE
    /\ stuck = {}

-----------------------------------------------------------------------------
On(p, pc) == at[p].pc = pc
Run(p) == at[p].msg.run
Goes(p, pc) == at' = [at EXCEPT ![p].pc = pc]
Ends(p) == at' = [at EXCEPT ![p] = Idle]
Enters(p, pc, msg) == at' = [at EXCEPT ![p] = [pc |-> pc, msg |-> msg, path |-> FALSE]]
First(r) == [run |-> r, tries |-> 0]
Fails == failures < MaxFailures /\ failures' = failures + 1

HasResult(r) == result[r] # None
Is(r, status) == HasResult(r) /\ result[r].status = status
Has(p, r) == at[p] # Idle /\ IF On(p, "sweep") THEN r \in at[p].list ELSE Run(p) = r
Waits(r) == \E m \in queue : m.run = r
AtRest(r) == ~Waits(r) /\ \A p \in Processes : ~Has(p, r)

\* A result that is gone is let be.
Sets(r, new) == result' = IF HasResult(r) THEN [result EXCEPT ![r] = new] ELSE result

history == <<started, area, old, calls, saved, crossed, left>>
rows == <<result, layer>>

-----------------------------------------------------------------------------
(* POST /analysis/run                                                      *)

Begins(q, r, pc) ==
    /\ On(q, "idle")
    /\ r \notin started
    /\ started' = started \cup {r}
    /\ area' \in {area, area \cup {r}}
    /\ Enters(q, pc, First(r))
    /\ UNCHANGED <<rows, files, old, queue, calls, failures, saved, crossed, left, cut, stuck>>

RunSync(q, r) == Begins(q, r, "load")
RunAsync(q, r) == Begins(q, r, "place")

\* The row of the layer, without a URL yet; then that of the result.
Place(q) ==
    /\ On(q, "place")
    /\ layer' = [layer EXCEPT ![Run(q)] = "empty"]
    /\ Goes(q, "pend")
    /\ UNCHANGED <<result, files, queue, failures, history, cut, stuck>>

Pend(q) ==
    /\ On(q, "pend")
    /\ result' = [result EXCEPT ![Run(q)] =
                     [status |-> "pending", path |-> FALSE, ephemeral |-> TRUE]]
    /\ Goes(q, "send")
    /\ UNCHANGED <<layer, files, queue, failures, history, cut, stuck>>

\* The task's ID is written to its column afterwards.
Send(q) ==
    /\ On(q, "send")
    /\ queue' = queue \cup {at[q].msg}
    /\ Ends(q)
    /\ UNCHANGED <<rows, files, failures, history, cut, stuck>>

\* In the request the layer is made whole, before its result.
SyncLayer(q) ==
    /\ On(q, "layer")
    /\ layer' = [layer EXCEPT ![Run(q)] = "whole"]
    /\ Goes(q, "result")
    /\ UNCHANGED <<result, files, queue, failures, history, cut, stuck>>

SyncResult(q) ==
    /\ q \in Requests
    /\ On(q, "result")
    /\ result' = [result EXCEPT ![Run(q)] =
                     [status |-> "done", path |-> TRUE, ephemeral |-> TRUE]]
    /\ Ends(q)
    /\ UNCHANGED <<layer, files, queue, failures, history, cut, stuck>>

-----------------------------------------------------------------------------
(* _execute, in the request or in the task                                 *)

\* The inputs are loaded and checked, and the operation computed.
Load(p) ==
    /\ On(p, "load")
    /\ Goes(p, "compute")
    /\ UNCHANGED <<rows, files, queue, failures, history, cut, stuck>>

Compute(p) ==
    /\ On(p, "compute")
    /\ Goes(p, "store")
    /\ UNCHANGED <<rows, files, queue, failures, history, cut, stuck>>

Stored(p) == IF p \in Requests THEN "layer" ELSE "result"

Store(p) ==
    /\ On(p, "store")
    /\ files' = [files EXCEPT ![Run(p)] = @ \cup {"result"}]
    /\ Goes(p, IF Run(p) \in area THEN "sources" ELSE Stored(p))
    /\ UNCHANGED <<rows, queue, failures, history, cut, stuck>>

Sources(p) ==
    /\ On(p, "sources")
    /\ files' = [files EXCEPT ![Run(p)] = @ \cup {"sources"}]
    /\ Goes(p, Stored(p))
    /\ UNCHANGED <<rows, queue, failures, history, cut, stuck>>

\* Mutant of SourcesFail: a snapshot that cannot be written is given up.
SourcesFailKept(p) ==
    /\ On(p, "sources")
    /\ Fails
    /\ Goes(p, Stored(p))
    /\ UNCHANGED <<rows, files, queue, history, cut, stuck>>

\* The directory is removed again, and the run fails.
SourcesFail(p) ==
    /\ On(p, "sources")
    /\ Fails
    /\ files' = [files EXCEPT ![Run(p)] = {}]
    /\ IF p \in Requests THEN Ends(p) ELSE Goes(p, "fail")
    /\ UNCHANGED <<rows, queue, history, cut, stuck>>

\* The places of a worker whose failures no handler turns into a failed run: its first
\* write, those after the execution, and the handler's own.
Unhandled == {"mark", "result", "fill", "fail"}

\* An input that cannot be loaded, a check, the computation, the storage or the
\* database raises; so does a removal, when the session happens to delete the layer
\* before the result that refers to it.  The request answers with an error; the task
\* has a handler only for what the execution raises.
Raises(p) ==
    /\ at[p].pc \in {"load", "compute", "store", "layer", "place", "pend", "send", "rows",
                     "sweep"} \cup Unhandled
    /\ Fails
    /\ at' = [at EXCEPT ![p] =
                 IF p \in Requests THEN Idle
                 ELSE [@ EXCEPT !.pc = IF at[p].pc \in Unhandled THEN "retry" ELSE "fail"]]
    /\ IF p \in Requests
          THEN /\ cut' = (cut \/ at[p].pc \notin {"load", "compute", "store"})
               /\ stuck' = IF On(p, "send") THEN stuck \cup {Run(p)} ELSE stuck
               /\ UNCHANGED left
          ELSE /\ stuck' = IF at[p].pc \in Unhandled /\ at[p].msg.tries = MaxRetries
                              THEN stuck \cup {Run(p)} ELSE stuck
               /\ left' = IF On(p, "result") THEN left \cup {Run(p)} ELSE left
               /\ UNCHANGED cut
    /\ UNCHANGED <<rows, files, queue, started, area, old, calls, saved, crossed>>

-----------------------------------------------------------------------------
(* run_analysis_task                                                       *)


Take(w) ==
    /\ at[w] = Idle
    /\ \E m \in queue :
          /\ queue' = queue \ {m}
          /\ Enters(w, "mark", m)
    /\ UNCHANGED <<rows, files, failures, history, cut, stuck>>

Mark(w) ==
    /\ On(w, "mark")
    /\ Sets(Run(w), [result[Run(w)] EXCEPT !.status = "processing"])
    /\ Goes(w, "load")
    /\ UNCHANGED <<layer, files, queue, failures, history, cut, stuck>>

Finish(w) ==
    /\ w \in Workers
    /\ On(w, "result")
    /\ Sets(Run(w), [result[Run(w)] EXCEPT !.status = "done", !.path = TRUE])
    /\ Goes(w, "fill")
    /\ UNCHANGED <<layer, files, queue, failures, history, cut, stuck>>

Fill(w) ==
    /\ On(w, "fill")
    /\ layer' = [layer EXCEPT ![Run(w)] = IF @ = "none" THEN "none" ELSE "whole"]
    /\ Ends(w)
    /\ UNCHANGED <<result, files, queue, failures, history, cut, stuck>>

Fail(w) ==
    /\ On(w, "fail")
    /\ Sets(Run(w), [result[Run(w)] EXCEPT !.status = "failed"])
    /\ Goes(w, "drop")
    /\ UNCHANGED <<layer, files, queue, failures, history, cut, stuck>>

\* The handler deletes the layer, as docs/features/vector-overlay-analysis.md:146 says
\* ("Result row marked `failed`, placeholder layer deleted"), and the foreign key of
\* its result forbids it: the deletion raises in place of the failure it handles, and
\* the layer stays.
Drop(w) ==
    /\ On(w, "drop")
    /\ layer' = IF Run(w) \in area \/ HasResult(Run(w)) THEN layer
                ELSE [layer EXCEPT ![Run(w)] = "none"]
    /\ Goes(w, "retry")
    /\ UNCHANGED <<result, files, queue, failures, history, cut, stuck>>

Retry(w) ==
    /\ On(w, "retry")
    /\ queue' = IF at[w].msg.tries < MaxRetries
                   THEN queue \cup {[at[w].msg EXCEPT !.tries = @ + 1]} ELSE queue
    /\ Ends(w)
    /\ UNCHANGED <<rows, files, failures, history, cut, stuck>>

-----------------------------------------------------------------------------
(* Saving, discarding and cleaning up                                      *)

Calls == calls < MaxCalls /\ calls' = calls + 1

\* A result is saved whatever its status.  The layer's metadata are copied too
\* shallowly for the change of their flag to be seen and written.
Save(q, r) ==
    /\ On(q, "idle")
    /\ HasResult(r)
    /\ Calls
    /\ Sets(r, [result[r] EXCEPT !.ephemeral = FALSE])
    /\ saved' = saved \cup {r}
    /\ crossed' = IF AtRest(r) THEN crossed ELSE crossed \cup {r}
    /\ UNCHANGED <<started, area, layer, files, old, at, queue, failures, left, cut, stuck>>

DiscardRead(q, r) ==
    /\ On(q, "idle")
    /\ HasResult(r)
    /\ Calls
    /\ at' = [at EXCEPT ![q] = [pc |-> "files", msg |-> First(r), path |-> result[r].path]]
    /\ saved' = saved \ {r}
    /\ crossed' = IF AtRest(r) THEN crossed ELSE crossed \cup {r}
    /\ UNCHANGED <<started, area, rows, files, old, queue, failures, left, cut, stuck>>

\* Mutant of DiscardFiles: the result's file only.
DiscardFilesOne(q) ==
    /\ On(q, "files")
    /\ files' = IF at[q].path THEN [files EXCEPT ![Run(q)] = @ \ {"result"}] ELSE files
    /\ Goes(q, "rows")
    /\ UNCHANGED <<rows, queue, failures, history, cut, stuck>>

\* The directory of the result's file, if the row that was read has one.
DiscardFiles(q) ==
    /\ On(q, "files")
    /\ files' = IF at[q].path /\ "result" \in files[Run(q)]
                   THEN [files EXCEPT ![Run(q)] = {}] ELSE files
    /\ Goes(q, "rows")
    /\ UNCHANGED <<rows, queue, failures, history, cut, stuck>>

DiscardRows(q) ==
    /\ On(q, "rows")
    /\ result' = [result EXCEPT ![Run(q)] = None]
    /\ layer' = [layer EXCEPT ![Run(q)] = "none"]
    /\ Ends(q)
    /\ UNCHANGED <<files, queue, failures, history, cut, stuck>>

Age(r) ==
    /\ HasResult(r)
    /\ r \notin old
    /\ old' = old \cup {r}
    /\ UNCHANGED <<started, area, rows, files, at, queue, calls, failures, saved, crossed, left, cut, stuck>>

Lists(q, list) ==
    /\ On(q, "idle")
    /\ list # {}
    /\ Calls
    /\ at' = [at EXCEPT ![q] = [pc |-> "sweep", list |-> list, todo |-> list,
                                paths |-> {r \in list : result[r].path}]]
    /\ crossed' = crossed \cup {r \in list : ~AtRest(r)}
    /\ UNCHANGED <<started, area, rows, files, old, queue, failures, saved, left, cut, stuck>>

\* Mutant of SweepList: saved results too.
SweepListAll(q) == Lists(q, {r \in old : HasResult(r)})

\* cleanup_ephemeral: the rows as they are when they are listed.
SweepList(q) == Lists(q, {r \in old : HasResult(r) /\ result[r].ephemeral})

SweepFiles(q) ==
    /\ On(q, "sweep")
    /\ \E r \in at[q].todo :
          /\ files' = IF r \in at[q].paths /\ "result" \in files[r]
                         THEN [files EXCEPT ![r] = {}] ELSE files
          /\ at' = [at EXCEPT ![q].todo = @ \ {r}]
    /\ UNCHANGED <<rows, queue, failures, history, cut, stuck>>

\* One commit deletes all the rows.
SweepRows(q) ==
    /\ On(q, "sweep")
    /\ at[q].todo = {}
    /\ result' = [r \in Runs |-> IF r \in at[q].list THEN None ELSE result[r]]
    /\ layer' = [r \in Runs |-> IF r \in at[q].list THEN "none" ELSE layer[r]]
    /\ Ends(q)
    /\ UNCHANGED <<files, queue, failures, history, cut, stuck>>

-----------------------------------------------------------------------------
(* Crashes                                                                 *)

\* An unacknowledged message is delivered again; files that were stored stay.
WorkerDies(w) ==
    /\ at[w] # Idle
    /\ Fails
    /\ queue' = queue \cup {at[w].msg}
    /\ left' = IF at[w].pc \in {"sources", "result"} THEN left \cup {Run(w)} ELSE left
    /\ Ends(w)
    /\ UNCHANGED <<rows, files, started, area, old, calls, saved, crossed, cut, stuck>>

RequestDies(q) ==
    /\ at[q] # Idle
    /\ Fails
    /\ cut' = TRUE
    /\ stuck' = IF On(q, "send") THEN stuck \cup {Run(q)} ELSE stuck
    /\ Ends(q)
    /\ UNCHANGED <<rows, files, queue, history>>

-----------------------------------------------------------------------------
Executes(p) ==
    Load(p) \/ Compute(p) \/ Store(p) \/ Sources(p) \/ SourcesFail(p) \/ Raises(p)

RequestStep(q) ==
    \/ Executes(q) \/ Place(q) \/ Pend(q) \/ Send(q) \/ SyncLayer(q) \/ SyncResult(q)
    \/ DiscardFiles(q) \/ DiscardRows(q) \/ SweepFiles(q) \/ SweepRows(q)

WorkerStep(w) ==
    \/ Executes(w) \/ Take(w) \/ Mark(w) \/ Finish(w) \/ Fill(w) \/ Fail(w) \/ Drop(w)
    \/ Retry(w)

Next ==
    \/ \E q \in Requests :
          \/ RequestStep(q) \/ RequestDies(q) \/ SweepList(q)
          \/ \E r \in Runs : RunSync(q, r) \/ RunAsync(q, r) \/ Save(q, r) \/ DiscardRead(q, r)
    \/ \E w \in Workers : WorkerStep(w) \/ WorkerDies(w)
    \/ \E r \in Runs : Age(r)

Spec == Init /\ [][Next]_vars

\* A request that has begun runs on, and so does a worker that has a message.
FairSpec ==
    /\ Spec
    /\ \A q \in Requests : WF_vars(RequestStep(q))
    /\ \A w \in Workers : WF_vars(WorkerStep(w))

-----------------------------------------------------------------------------
(* Properties                                                              *)

Removing(r) == \E q \in Requests : Has(q, r) /\ at[q].pc \in {"rows", "sweep"}
Complete(r) == IF r \in area THEN Files ELSE {"result"}

\* A result has its layer, and one that is done has its files, the snapshot of its
\* sources too, through failing attempts, the deletions their handlers try, retries
\* and redeliveries, until it is being removed.  A failed run has its layer too: the
\* code does not do what docs/features/vector-overlay-analysis.md:146 says, "Result
\* row marked `failed`, placeholder layer deleted" (see Drop).
ResultIsWhole ==
    \A r \in Runs :
        /\ HasResult(r) => layer[r] # "none"
        /\ Is(r, "done") /\ ~Removing(r) /\ ~cut => Complete(r) \subseteq files[r]

\* A result that was saved stays until it is discarded, unless a cleanup or a
\* discard had already read it when it was saved.
SavedIsKept == \A r \in saved : HasResult(r) \/ r \in crossed

\* What is discarded or cleaned up leaves no row and no file behind, when its task
\* was not running and nothing died half way.  (A worker that dies after storing the
\* files leaves them to its message's next delivery: when that one fails, the row
\* names no file, and neither a discard nor a cleanup finds them.)
RemovedIsGone ==
    \A r \in started :
        AtRest(r) /\ ~HasResult(r) /\ ~cut /\ r \notin crossed \cup left
            => files[r] = {} /\ layer[r] = "none"

=============================================================================
