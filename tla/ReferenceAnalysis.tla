-------------------------- MODULE ReferenceAnalysis -------------------------
(***************************************************************************)
(* The temporary analysis workspace of app/application/reference_analysis.py: *)
(* a browser uploads an input, starts one job on it against a reference    *)
(* layer, a Celery task executes the job, and the beat schedule sweeps     *)
(* jobs that take too long and inputs that have expired.  Results may be   *)
(* saved as permanent layers.                                              *)
(*                                                                         *)
(* Requests, tasks and the sweep are processes.  Between them stand an     *)
(* advisory lock (capacity), the row locks of SELECT ... FOR UPDATE on     *)
(* jobs and layers, foreign keys, and a file system that no transaction    *)
(* protects.  A lock is held by a process until its transaction ends.      *)
(* Each input has at most one job (a unique column), so jobs are named by  *)
(* their inputs.                                                           *)
(***************************************************************************)
EXTENDS Naturals, FiniteSets

CONSTANTS
    Inputs,        \* uploads, each with a fresh identity
    Layers,        \* layers that may be analysis references
    Requests,      \* API requests that can be in progress at once
    Workers,       \* Celery worker slots
    Sweeper,       \* the cleanup task of the one beat schedule
    None,          \* nobody, nothing
    MaxStored,     \* ANALYSIS_MAX_STORED_INPUTS
    MaxActive,     \* ANALYSIS_MAX_ACTIVE_JOBS
    MaxFailures    \* bound: crashes, broker errors, failing deletions of files

ASSUME ConstantsAssumption ==
    /\ None \notin Inputs \cup Layers \cup Requests \cup Workers \cup {Sweeper}
    /\ Requests \cap Workers = {}
    /\ Sweeper \notin Requests \cup Workers
    /\ MaxStored \in Nat
    /\ MaxActive \in Nat
    /\ MaxFailures \in Nat

VARIABLES
    upload,        \* the life of each input; its row exists while "stored"
    expired,       \* inputs whose expires_at has passed
    job,           \* the job on each input
    overdue,       \* active jobs past the time the sweep allows
    source,        \* the reference layer of each job
    pins,          \* rows of "active_analysis_sources"
    layer,         \* layers, and whether they are configured as references
    dir,           \* inputs with a directory in the workspace
    results,       \* inputs with result files in their directory
    saved,         \* inputs whose result has a row in "layers"
    files,         \* inputs whose result has a permanent file
    queue,         \* unacknowledged task messages
    at,            \* where each process is, and on what it works
    sweep,         \* the identities the sweep has listed
    capacity,      \* who holds the advisory lock
    jobLock,       \* who holds the row lock of each job
    layerLock,     \* who holds the row lock of each layer
    failures       \* failures so far

inputVars == <<upload, expired, dir, results>>
jobVars == <<job, overdue, source, pins>>
savedVars == <<saved, files>>
locks == <<capacity, jobLock, layerLock>>
vars == <<inputVars, jobVars, savedVars, layer, queue, at, sweep, locks, failures>>

Procs == Requests \cup Workers \cup {Sweeper}
Active == {"pending", "processing"}
ActiveJobs == {i \in Inputs : job[i] \in Active}
Stored == {i \in Inputs : upload[i] = "stored"}

-----------------------------------------------------------------------------
JobStatus == {"none", "pending", "processing", "done", "failed"}
RequestPc == {"idle", "upload", "start", "enqueue", "undo", "files", "rows",
              "copy", "insert", "unlink", "delete"}
WorkerPc == {"idle", "claim", "load", "export", "finish", "fail"}
SweeperPc == {"idle", "jobs", "uploads", "files", "rows"}
Place(pcs) == [pc : pcs, input : Inputs \cup {None}, layer : Layers \cup {None}]
Idle == [pc |-> "idle", input |-> None, layer |-> None]

TypeOK ==
    /\ upload \in [Inputs -> {"unused", "uploading", "stored", "gone"}]
    /\ job \in [Inputs -> JobStatus]
    /\ source \in [Inputs -> Layers \cup {None}]
    /\ layer \in [Layers -> {"plain", "reference", "gone"}]
    /\ \A S \in {expired, overdue, pins, dir, results, saved, files, queue} : S \subseteq Inputs
    /\ \A r \in Requests : at[r] \in Place(RequestPc)
    /\ \A w \in Workers : at[w] \in Place(WorkerPc)
    /\ at[Sweeper] \in Place(SweeperPc)
    /\ DOMAIN at = Procs
    /\ sweep \in [jobs : SUBSET Inputs, uploads : SUBSET Inputs]
    /\ capacity \in Procs \cup {None}
    /\ jobLock \in [Inputs -> Procs \cup {None}]
    /\ layerLock \in [Layers -> Procs \cup {None}]
    /\ failures \in 0 .. MaxFailures

Init ==
    /\ upload = [i \in Inputs |-> "unused"]
    /\ job = [i \in Inputs |-> "none"]
    /\ source = [i \in Inputs |-> None]
    /\ layer = [l \in Layers |-> "plain"]
    /\ expired = {} /\ overdue = {} /\ pins = {} /\ dir = {} /\ results = {}
    /\ saved = {} /\ files = {} /\ queue = {}
    /\ at = [p \in Procs |-> Idle]
    /\ sweep = [jobs |-> {}, uploads |-> {}]
    /\ capacity = None
    /\ jobLock = [i \in Inputs |-> None]
    /\ layerLock = [l \in Layers |-> None]
    /\ failures = 0

-----------------------------------------------------------------------------
(* Processes and their locks                                               *)

At(p, pc) == at[p].pc = pc
Go(p, pc) == at' = [at EXCEPT ![p].pc = pc]
Work(p, pc, i, l) == at' = [at EXCEPT ![p] = [pc |-> pc, input |-> i, layer |-> l]]
End(p) == at' = [at EXCEPT ![p] = Idle]

Free(lock, p) == lock \in {None, p}
Unlocked(lock, p) == [x \in DOMAIN lock |-> IF lock[x] = p THEN None ELSE lock[x]]

\* A commit or rollback releases all locks of the process.
Release(p) ==
    /\ capacity' = IF capacity = p THEN None ELSE capacity
    /\ jobLock' = Unlocked(jobLock, p)
    /\ layerLock' = Unlocked(layerLock, p)

Fails == failures < MaxFailures /\ failures' = failures + 1

-----------------------------------------------------------------------------
(* Time                                                                    *)

Expire(i) ==
    /\ i \in Stored \ expired
    /\ expired' = expired \cup {i}
    /\ UNCHANGED <<upload, dir, results, jobVars, savedVars, layer, queue, at, sweep, locks,
                   failures>>

\* Queue timeout of a pending job, job timeout and grace of a processing one.
\* A task is not assumed to have stopped by then.
RunLate(i) ==
    /\ i \in ActiveJobs \ overdue
    /\ overdue' = overdue \cup {i}
    /\ UNCHANGED <<inputVars, job, source, pins, savedVars, layer, queue, at, sweep, locks,
                   failures>>

-----------------------------------------------------------------------------
(* Uploads                                                                 *)

\* The capacity lock is held while the file is read and unpacked.
UploadOpen(r, i) ==
    /\ At(r, "idle") /\ upload[i] = "unused"
    /\ capacity = None
    /\ Cardinality(Stored) < MaxStored
    /\ capacity' = r
    /\ upload' = [upload EXCEPT ![i] = "uploading"]
    /\ dir' = dir \cup {i}
    /\ Work(r, "upload", i, None)
    /\ UNCHANGED <<expired, results, jobVars, savedVars, layer, queue, sweep, jobLock,
                   layerLock, failures>>

UploadCommit(r) ==
    /\ At(r, "upload")
    /\ upload' = [upload EXCEPT ![at[r].input] = "stored"]
    /\ End(r) /\ Release(r)
    /\ UNCHANGED <<expired, dir, results, jobVars, savedVars, layer, queue, sweep, failures>>

\* A file that is too large or not one shapefile.
UploadFails(r) ==
    /\ At(r, "upload")
    /\ upload' = [upload EXCEPT ![at[r].input] = "gone"]
    /\ dir' = dir \ {at[r].input}
    /\ End(r) /\ Release(r)
    /\ UNCHANGED <<expired, results, jobVars, savedVars, layer, queue, sweep, failures>>

-----------------------------------------------------------------------------
(* Starting a job                                                          *)

\* Mutant of StartOpen: only the jobs that wait are counted.
StartOpenPending(r, i, l) ==
    /\ At(r, "idle")
    /\ capacity = None
    /\ i \in Stored \ expired /\ job[i] = "none"
    /\ layer[l] = "reference" /\ layerLock[l] = None
    /\ Cardinality({j \in Inputs : job[j] = "pending"}) < MaxActive
    /\ capacity' = r
    /\ layerLock' = [layerLock EXCEPT ![l] = r]
    /\ Work(r, "start", i, l)
    /\ UNCHANGED <<inputVars, jobVars, savedVars, layer, queue, sweep, jobLock, failures>>

StartOpen(r, i, l) ==
    /\ At(r, "idle")
    /\ capacity = None
    /\ i \in Stored \ expired /\ job[i] = "none"
    /\ layer[l] = "reference" /\ layerLock[l] = None
    /\ Cardinality(ActiveJobs) < MaxActive
    /\ capacity' = r
    /\ layerLock' = [layerLock EXCEPT ![l] = r]
    /\ Work(r, "start", i, l)
    /\ UNCHANGED <<inputVars, jobVars, savedVars, layer, queue, sweep, jobLock, failures>>

\* The job and its pin are committed together, then the task is enqueued.
StartCommit(r) ==
    LET i == at[r].input IN
    /\ At(r, "start")
    /\ job' = [job EXCEPT ![i] = "pending"]
    /\ source' = [source EXCEPT ![i] = at[r].layer]
    /\ pins' = pins \cup {i}
    /\ Go(r, "enqueue") /\ Release(r)
    /\ UNCHANGED <<inputVars, overdue, savedVars, layer, queue, sweep, failures>>

Enqueue(r) ==
    /\ At(r, "enqueue")
    /\ queue' = queue \cup {at[r].input}
    /\ End(r)
    /\ UNCHANGED <<inputVars, jobVars, savedVars, layer, sweep, locks, failures>>

\* The broker raises; the message may have reached it all the same.
EnqueueRaises(r) ==
    /\ At(r, "enqueue")
    /\ Fails
    /\ queue' \in {queue, queue \cup {at[r].input}}
    /\ Go(r, "undo")
    /\ UNCHANGED <<inputVars, jobVars, savedVars, layer, sweep, locks>>

-----------------------------------------------------------------------------
(* The end of a job                                                        *)

\* finish: status, a new time to live for the input, and the pin in one commit.
Settle(i, status) ==
    /\ job' = [job EXCEPT ![i] = status]
    /\ overdue' = overdue \ {i}
    /\ expired' = expired \ {i}
    /\ pins' = pins \ {i}
    /\ UNCHANGED source

KeepJob == UNCHANGED <<jobVars, expired>>

\* fail: only an active job fails.
SettleFailed(i) == IF i \in ActiveJobs THEN Settle(i, "failed") ELSE KeepJob

Undo(r) ==
    /\ At(r, "undo") /\ jobLock[at[r].input] = None
    /\ SettleFailed(at[r].input)
    /\ End(r)
    /\ UNCHANGED <<upload, dir, results, savedVars, layer, queue, sweep, locks, failures>>

-----------------------------------------------------------------------------
(* The task                                                                *)

EndTask(w) == End(w) /\ queue' = queue \ {at[w].input}

\* Late acknowledgement: a message may be delivered again while its task runs.
Deliver(w, i) ==
    /\ At(w, "idle") /\ i \in queue
    /\ Work(w, "claim", i, None)
    /\ UNCHANGED <<inputVars, jobVars, savedVars, layer, queue, sweep, locks, failures>>

\* The job's time starts again, and its task goes on only if it was pending.
Claim(w) ==
    LET i == at[w].input IN
    /\ At(w, "claim") /\ jobLock[i] = None
    /\ IF job[i] = "pending"
       THEN /\ job' = [job EXCEPT ![i] = "processing"]
            /\ overdue' = overdue \ {i}
            /\ Go(w, "load")
            /\ UNCHANGED queue
       ELSE EndTask(w) /\ UNCHANGED <<job, overdue>>
    /\ UNCHANGED <<inputVars, source, pins, savedVars, layer, sweep, locks, failures>>

\* The reference is read under the layer's row lock, and the job's row updated.
\* The layer, or a job that was swept and removed, may be gone.
Load(w) ==
    LET i == at[w].input IN
    /\ At(w, "load") /\ jobLock[i] = None
    /\ source[i] # None => layerLock[source[i]] = None
    /\ IF job[i] # "none" /\ layer[source[i]] # "gone" THEN Go(w, "export") ELSE Go(w, "fail")
    /\ UNCHANGED <<inputVars, jobVars, savedVars, layer, queue, sweep, locks, failures>>

\* The analysis runs without locks and writes into the input's directory.
Export(w) ==
    LET i == at[w].input IN
    /\ At(w, "export")
    /\ IF i \in dir
       THEN results' = results \cup {i} /\ Go(w, "finish")
       ELSE Go(w, "fail") /\ UNCHANGED results
    /\ UNCHANGED <<upload, expired, dir, jobVars, savedVars, layer, queue, sweep, locks,
                   failures>>

\* A broken source, an invalid geometry, a limit, or the soft time limit.
TaskRaises(w) ==
    /\ at[w].pc \in {"load", "export"}
    /\ Go(w, "fail")
    /\ UNCHANGED <<inputVars, jobVars, savedVars, layer, queue, sweep, locks, failures>>

\* Mutant of Finish: the status is not read again.
FinishUnchecked(w) ==
    LET i == at[w].input IN
    /\ At(w, "finish") /\ jobLock[i] = None
    /\ IF job[i] # "none" THEN Settle(i, "done") ELSE KeepJob
    /\ EndTask(w)
    /\ UNCHANGED <<upload, dir, results, savedVars, layer, sweep, locks, failures>>

\* The row is locked and read again: the sweep may have failed the job.
Finish(w) ==
    LET i == at[w].input IN
    /\ At(w, "finish") /\ jobLock[i] = None
    /\ IF job[i] = "processing" THEN Settle(i, "done") ELSE KeepJob
    /\ EndTask(w)
    /\ UNCHANGED <<upload, dir, results, savedVars, layer, sweep, locks, failures>>

TaskFails(w) ==
    /\ At(w, "fail") /\ jobLock[at[w].input] = None
    /\ SettleFailed(at[w].input)
    /\ EndTask(w)
    /\ UNCHANGED <<upload, dir, results, savedVars, layer, sweep, locks, failures>>

-----------------------------------------------------------------------------
(* Removal of an input with its job, by its user or by the sweep           *)

\* Mutant of MayRemove: the status of the job is not looked at.
MayRemoveActive(p, i) == Free(capacity, p) /\ i \in Stored

\* remove_upload takes the capacity lock and refuses while the job is active.
MayRemove(p, i) == Free(capacity, p) /\ i \in Stored /\ i \notin ActiveJobs

RemoveOpen(r, i) ==
    /\ At(r, "idle")
    /\ MayRemove(r, i)
    /\ capacity' = r
    /\ Work(r, "files", i, None)
    /\ UNCHANGED <<inputVars, jobVars, savedVars, layer, queue, sweep, jobLock, layerLock,
                   failures>>

\* Where a removal returns to: the sweep goes on with the next input.
Return(p) == IF p = Sweeper THEN Work(p, "uploads", None, None) ELSE End(p)

RemoveFiles(p) ==
    /\ At(p, "files")
    /\ dir' = dir \ {at[p].input}
    /\ results' = results \ {at[p].input}
    /\ Go(p, "rows")
    /\ UNCHANGED <<upload, expired, jobVars, savedVars, layer, queue, sweep, locks, failures>>

\* The directory can not be deleted: its rows are left for another attempt.
RemoveFails(p) ==
    /\ At(p, "files")
    /\ Fails
    /\ Return(p) /\ Release(p)
    /\ UNCHANGED <<inputVars, jobVars, savedVars, layer, queue, sweep>>

RemoveRows(p) ==
    LET i == at[p].input IN
    /\ At(p, "rows")
    /\ upload' = [upload EXCEPT ![i] = "gone"]
    /\ expired' = expired \ {i}
    /\ job' = [job EXCEPT ![i] = "none"]
    /\ Return(p) /\ Release(p)
    /\ UNCHANGED <<dir, results, overdue, source, pins, savedVars, layer, queue, sweep,
                   failures>>

-----------------------------------------------------------------------------
(* The sweep                                                               *)

SweepOpen ==
    /\ At(Sweeper, "idle") /\ capacity = None
    /\ capacity' = Sweeper
    /\ sweep' = [jobs |-> ActiveJobs, uploads |-> {}]
    /\ Go(Sweeper, "jobs")
    /\ UNCHANGED <<inputVars, jobVars, savedVars, layer, queue, jobLock, layerLock, failures>>

\* Mutant of SweepJob: only jobs that no task has claimed are timed.
SweepJobPending(i) ==
    /\ At(Sweeper, "jobs") /\ i \in sweep.jobs
    /\ sweep' = [sweep EXCEPT !.jobs = @ \ {i}]
    /\ IF i \in overdue /\ job[i] = "pending"
       THEN Settle(i, "failed") /\ Release(Sweeper)
       ELSE KeepJob /\ UNCHANGED locks
    /\ UNCHANGED <<upload, dir, results, savedVars, layer, queue, at, failures>>

\* The job is locked and read again.  An active one that is late is failed,
\* and the commit of finish releases every lock, the capacity lock included;
\* the others stay locked until some commit.
SweepJob(i) ==
    /\ At(Sweeper, "jobs") /\ i \in sweep.jobs
    /\ sweep' = [sweep EXCEPT !.jobs = @ \ {i}]
    /\ IF i \in overdue
       THEN Settle(i, "failed") /\ Release(Sweeper)
       ELSE /\ jobLock' = [jobLock EXCEPT ![i] = IF job[i] = "none" THEN @ ELSE Sweeper]
            /\ KeepJob
            /\ UNCHANGED <<capacity, layerLock>>
    /\ UNCHANGED <<upload, dir, results, savedVars, layer, queue, at, failures>>

SweepList ==
    /\ At(Sweeper, "jobs") /\ sweep.jobs = {}
    /\ sweep' = [sweep EXCEPT !.uploads = Stored \cap expired]
    /\ Go(Sweeper, "uploads")
    /\ UNCHANGED <<inputVars, jobVars, savedVars, layer, queue, locks, failures>>

\* Mutant of SweepUpload: inputs with a job are left alone.
SweepUploadUnused(i) ==
    /\ At(Sweeper, "uploads") /\ i \in sweep.uploads
    /\ sweep' = [sweep EXCEPT !.uploads = @ \ {i}]
    /\ IF job[i] = "none" /\ MayRemove(Sweeper, i)
       THEN capacity' = Sweeper /\ Work(Sweeper, "files", i, None) /\ UNCHANGED <<jobLock, layerLock>>
       ELSE UNCHANGED <<at, locks>>
    /\ UNCHANGED <<inputVars, jobVars, savedVars, layer, queue, failures>>

\* An active job keeps its input.  Whether the input is still expired is not
\* read again.  One that is gone meanwhile raises, and the transaction rolls
\* back: inside the loop's try the sweep goes on, but reading the row outside
\* of it, after a commit has expired what was loaded, ends the sweep.
SweepUpload(i) ==
    /\ At(Sweeper, "uploads") /\ i \in sweep.uploads
    /\ sweep' = [sweep EXCEPT !.uploads = @ \ {i}]
    /\ \/ /\ MayRemove(Sweeper, i)
          /\ capacity' = Sweeper
          /\ Work(Sweeper, "files", i, None)
          /\ UNCHANGED <<jobLock, layerLock>>
       \/ /\ i \in ActiveJobs
          /\ UNCHANGED <<at, locks>>
       \/ /\ i \notin Stored
          /\ Release(Sweeper)
          /\ UNCHANGED at \/ End(Sweeper)
    /\ UNCHANGED <<inputVars, jobVars, savedVars, layer, queue, failures>>

\* Directories without a row go once they are older than the time to live.
SweepOrphans ==
    /\ At(Sweeper, "uploads") /\ sweep.uploads = {}
    /\ \E old \in SUBSET {i \in dir : upload[i] = "gone"} : dir' = dir \ old
    /\ End(Sweeper) /\ Release(Sweeper)
    /\ UNCHANGED <<upload, expired, results, jobVars, savedVars, layer, queue, sweep, failures>>

-----------------------------------------------------------------------------
(* Saving a result as a permanent layer                                    *)

SaveOpen(r, i) ==
    /\ At(r, "idle")
    /\ job[i] = "done" /\ i \notin saved /\ i \in results
    /\ Work(r, "copy", i, None)
    /\ UNCHANGED <<inputVars, jobVars, savedVars, layer, queue, sweep, locks, failures>>

SaveCopy(r) ==
    LET i == at[r].input IN
    /\ At(r, "copy")
    /\ IF i \in results THEN files' = files \cup {i} /\ Go(r, "insert")
                        ELSE UNCHANGED files /\ End(r)
    /\ UNCHANGED <<inputVars, jobVars, saved, layer, queue, sweep, locks, failures>>

\* The identities are the job's: a second insert fails and deletes the file.
SaveInsert(r) ==
    LET i == at[r].input IN
    /\ At(r, "insert")
    /\ IF i \in saved THEN files' = files \ {i} /\ UNCHANGED saved
                      ELSE saved' = saved \cup {i} /\ UNCHANGED files
    /\ End(r)
    /\ UNCHANGED <<inputVars, jobVars, layer, queue, sweep, locks, failures>>

-----------------------------------------------------------------------------
(* Reference layers                                                        *)

Pinned(l) == \E i \in pins : source[i] = l

Configure(l) ==
    /\ layerLock[l] = None /\ layer[l] = "plain"
    /\ layer' = [layer EXCEPT ![l] = "reference"]
    /\ UNCHANGED <<inputVars, jobVars, savedVars, queue, at, sweep, locks, failures>>

RemoveReference(l) ==
    /\ layerLock[l] = None /\ layer[l] = "reference"
    /\ layer' = [layer EXCEPT ![l] = "plain"]
    /\ UNCHANGED <<inputVars, jobVars, savedVars, queue, at, sweep, locks, failures>>

\* DELETE of a layer: the guard locks its row ...
DeleteGuard(r, l) ==
    /\ At(r, "idle") /\ layerLock[l] = None
    /\ layer[l] = "plain" /\ ~Pinned(l)
    /\ layerLock' = [layerLock EXCEPT ![l] = r]
    /\ Work(r, "unlink", None, l)
    /\ UNCHANGED <<inputVars, jobVars, savedVars, layer, queue, sweep, capacity, jobLock,
                   failures>>

\* ... unlink_layer commits, which releases the lock ...
DeleteUnlink(r) ==
    /\ At(r, "unlink")
    /\ Go(r, "delete") /\ Release(r)
    /\ UNCHANGED <<inputVars, jobVars, savedVars, layer, queue, sweep, failures>>

\* Mutant of DeleteRow: without the foreign key of the pins.
DeleteRowPinned(r) ==
    LET l == at[r].layer IN
    /\ At(r, "delete") /\ layerLock[l] = None
    /\ layer' = IF layer[l] = "plain" THEN [layer EXCEPT ![l] = "gone"] ELSE layer
    /\ End(r)
    /\ UNCHANGED <<inputVars, jobVars, savedVars, queue, sweep, locks, failures>>

\* ... and the row is deleted unless a reference or a pin points at it by then.
DeleteRow(r) ==
    LET l == at[r].layer IN
    /\ At(r, "delete") /\ layerLock[l] = None
    /\ layer' = IF layer[l] = "plain" /\ ~Pinned(l) THEN [layer EXCEPT ![l] = "gone"] ELSE layer
    /\ End(r)
    /\ UNCHANGED <<inputVars, jobVars, savedVars, queue, sweep, locks, failures>>

-----------------------------------------------------------------------------
(* A process dies: its transaction rolls back, files stay as they are.     *)
Crash(p) ==
    /\ ~At(p, "idle")
    /\ Fails
    /\ upload' = IF At(p, "upload") THEN [upload EXCEPT ![at[p].input] = "gone"] ELSE upload
    /\ End(p) /\ Release(p)
    /\ UNCHANGED <<expired, dir, results, jobVars, savedVars, layer, queue, sweep>>

-----------------------------------------------------------------------------
RequestStep(r) ==
    \/ UploadCommit(r) \/ UploadFails(r)
    \/ StartCommit(r) \/ Enqueue(r) \/ EnqueueRaises(r) \/ Undo(r)
    \/ RemoveFiles(r) \/ RemoveFails(r) \/ RemoveRows(r)
    \/ SaveCopy(r) \/ SaveInsert(r)
    \/ DeleteUnlink(r) \/ DeleteRow(r)

Request(r) ==
    \/ \E i \in Inputs : UploadOpen(r, i) \/ RemoveOpen(r, i) \/ SaveOpen(r, i)
    \/ \E i \in Inputs, l \in Layers : StartOpen(r, i, l)
    \/ \E l \in Layers : DeleteGuard(r, l)

TaskStep(w) ==
    \/ Claim(w) \/ Load(w) \/ Export(w) \/ TaskRaises(w) \/ Finish(w) \/ TaskFails(w)

SweepStep ==
    \/ SweepList \/ SweepOrphans
    \/ \E i \in Inputs : SweepJob(i) \/ SweepUpload(i)
    \/ RemoveFiles(Sweeper) \/ RemoveFails(Sweeper) \/ RemoveRows(Sweeper)

Next ==
    \/ \E i \in Inputs : Expire(i) \/ RunLate(i)
    \/ \E l \in Layers : Configure(l) \/ RemoveReference(l)
    \/ \E r \in Requests : Request(r) \/ RequestStep(r)
    \/ \E w \in Workers : TaskStep(w) \/ \E i \in Inputs : Deliver(w, i)
    \/ SweepOpen \/ SweepStep
    \/ \E p \in Procs : Crash(p)

Spec == Init /\ [][Next]_vars

(***************************************************************************)
(* Fairness.  Time passes, the beat schedule goes on sending the sweep     *)
(* whatever became of the last one, and what is in progress goes on; locks *)
(* are granted fairly, hence SF where a step waits for one.  Users need    *)
(* not send requests, and tasks may never be delivered.                    *)
(***************************************************************************)
Fairness ==
    /\ \A i \in Inputs : WF_vars(RunLate(i)) /\ WF_vars(Expire(i))
    /\ \A r \in Requests : SF_vars(RequestStep(r))
    /\ SF_vars(SweepOpen) /\ SF_vars(SweepStep)

FairSpec == Spec /\ Fairness

-----------------------------------------------------------------------------
(* Properties                                                              *)

(***************************************************************************)
(* The limits hold although counting and inserting are two steps, and      *)
(* although the sweep loses the capacity lock on its way.                  *)
(***************************************************************************)
WithinLimits ==
    /\ Cardinality(ActiveJobs) <= MaxActive
    /\ Cardinality(Stored) <= MaxStored

(***************************************************************************)
(* A source is pinned exactly as long as its job is active, whoever ends   *)
(* it, and a pinned source exists: a deletion whose guard was passed       *)
(* before, and whose row lock is lost on the way, does not reach it.       *)
(***************************************************************************)
ActiveIsPinned ==
    /\ pins = ActiveJobs
    /\ \A i \in pins : layer[source[i]] # "gone"

(***************************************************************************)
(* An active job keeps its input and the files in it, expired or not,      *)
(* against its user's DELETE and against the sweep.  (A removal that dies  *)
(* between files and rows leaves an input without files, on which a job    *)
(* can still be started: it has nothing to keep, and fails.)               *)
(***************************************************************************)
InputIsKept ==
    [][\A i \in ActiveJobs : i \in Stored' /\ (i \in dir => i \in dir')]_vars

(***************************************************************************)
(* A job that is done has its results for as long as its directory exists. *)
(***************************************************************************)
DoneHasResults == \A i \in dir : job[i] = "done" => i \in results

(***************************************************************************)
(* A job settles once: what a late task or a late sweep concludes does not *)
(* change a job that is done or failed, until it is removed.               *)
(***************************************************************************)
SettlesOnce ==
    [][\A i \in Inputs : job[i] \in {"done", "failed"} => job'[i] \in {job[i], "none"}]_vars

(***************************************************************************)
(* Every job settles, so its pin is released, even when its task is never  *)
(* delivered, dies, or its request dies before enqueuing it.               *)
(***************************************************************************)
EveryJobSettles == \A i \in Inputs : job[i] \in Active ~> job[i] \notin Active

(***************************************************************************)
(* Every input is removed in the end, with its job and its files.          *)
(***************************************************************************)
InputsAreRemoved == \A i \in Inputs : upload[i] = "stored" ~> upload[i] = "gone"
=============================================================================
