----------------------- MODULE ReferenceAnalysisProofs ----------------------
(***************************************************************************)
(* Proofs about ReferenceAnalysis for every number of inputs, layers,      *)
(* requests and workers, all limits, and any number of failures.           *)
(***************************************************************************)
EXTENDS ReferenceAnalysis, FiniteSetTheorems, TLAPS

\* Where a process works on an input, and where on a layer.
OnInput == {"upload", "start", "enqueue", "undo", "files", "rows", "copy", "insert",
            "claim", "load", "export", "finish", "fail"}
OnLayer == {"start", "unlink", "delete"}

\* What a process works on exists.
Places ==
    /\ \A p \in Procs : at[p].pc \in OnInput =>
           at[p].input \in Inputs /\ upload[at[p].input] # "unused"
    /\ \A p \in Procs : at[p].pc \in OnLayer => at[p].layer \in Layers
    /\ \A i \in queue : upload[i] # "unused"

\* Admission and removal happen under the capacity lock.
CapacityIsHeld ==
    \A p \in Procs : at[p].pc \in {"upload", "start", "files", "rows"} => capacity = p

\* What was checked under the lock is still so when it is used.
Admitted ==
    /\ \A r \in Requests : At(r, "upload") => upload[at[r].input] = "uploading"
    /\ \A r \in Requests : At(r, "start") =>
           /\ job[at[r].input] = "none" /\ upload[at[r].input] = "stored"
           /\ layerLock[at[r].layer] = r /\ layer[at[r].layer] = "reference"
    /\ \A p \in Procs : at[p].pc \in {"files", "rows"} => at[p].input \notin ActiveJobs

\* Jobs belong to inputs that were uploaded, active ones to inputs that are stored.
JobsHaveInputs ==
    /\ \A i \in Inputs : job[i] # "none" => upload[i] # "unused"
    /\ ActiveJobs \subseteq Stored
    /\ overdue \subseteq ActiveJobs

\* A task that is about to report its results has them, unless they are removed.
Exported == \A w \in Workers : At(w, "finish") /\ at[w].input \in dir => at[w].input \in results

Inv ==
    /\ TypeOK /\ Places /\ CapacityIsHeld /\ Admitted /\ JobsHaveInputs
    /\ ActiveIsPinned /\ DoneHasResults /\ Exported

\* There is room for what has been admitted.
Limits ==
    /\ WithinLimits
    /\ IsFiniteSet(ActiveJobs) /\ IsFiniteSet(Stored)
    /\ \A r \in Requests : At(r, "start") => Cardinality(ActiveJobs) < MaxActive
    /\ \A r \in Requests : At(r, "upload") => Cardinality(Stored) < MaxStored

-----------------------------------------------------------------------------
(* Every step preserves the invariant.                                     *)

(* Time touches what has expired or is late, and nothing else.             *)
LEMMA ClockInv ==
    ASSUME Inv, NEW i \in Inputs, Expire(i) \/ RunLate(i)
    PROVE  Inv'
<1> USE ConstantsAssumption DEF Inv, At, Procs, Stored, Active, ActiveJobs, inputVars,
        jobVars, savedVars, locks
<1>1. ASSUME Expire(i) PROVE Inv'
  <2>1. TypeOK'
    BY <1>1 DEF Expire, TypeOK, Place, Places, OnInput, OnLayer, RequestPc, WorkerPc,
                SweeperPc, JobStatus
  <2>2. (Places /\ CapacityIsHeld /\ Admitted)'
    BY <1>1 DEF Expire, TypeOK, Place, Places, OnInput, OnLayer, JobsHaveInputs,
                CapacityIsHeld, Admitted
  <2>3. (JobsHaveInputs /\ ActiveIsPinned)'
    BY <1>1 DEF Expire, TypeOK, Place, JobsHaveInputs, ActiveIsPinned, Admitted, Places,
                OnInput, OnLayer
  <2>4. (DoneHasResults /\ Exported)'
    BY <1>1 DEF Expire, TypeOK, Place, WorkerPc, DoneHasResults, JobsHaveInputs, Places,
                OnInput, Exported
  <2> QED BY <2>1, <2>2, <2>3, <2>4
<1>2. ASSUME RunLate(i) PROVE Inv'
  <2>1. TypeOK'
    BY <1>2 DEF RunLate, TypeOK, Place, Places, OnInput, OnLayer, RequestPc, WorkerPc,
                SweeperPc, JobStatus
  <2>2. (Places /\ CapacityIsHeld /\ Admitted)'
    BY <1>2 DEF RunLate, TypeOK, Place, Places, OnInput, OnLayer, JobsHaveInputs,
                CapacityIsHeld, Admitted
  <2>3. (JobsHaveInputs /\ ActiveIsPinned)'
    BY <1>2 DEF RunLate, TypeOK, Place, JobsHaveInputs, ActiveIsPinned, Admitted, Places,
                OnInput, OnLayer
  <2>4. (DoneHasResults /\ Exported)'
    BY <1>2 DEF RunLate, TypeOK, Place, WorkerPc, DoneHasResults, JobsHaveInputs, Places,
                OnInput, Exported
  <2> QED BY <2>1, <2>2, <2>3, <2>4
<1> QED BY <1>1, <1>2

(* References come and go only while nobody holds the layer's row.         *)
LEMMA LayerInv ==
    ASSUME Inv, NEW l \in Layers, Configure(l) \/ RemoveReference(l)
    PROVE  Inv'
<1> USE ConstantsAssumption DEF Inv, At, Procs, Stored, Active, ActiveJobs, inputVars,
        jobVars, savedVars, locks
<1>1. ASSUME Configure(l) PROVE Inv'
  <2>1. TypeOK'
    BY <1>1 DEF Configure, TypeOK, Place, Places, OnInput, OnLayer, RequestPc, WorkerPc,
                SweeperPc, JobStatus
  <2>2. (Places /\ CapacityIsHeld /\ Admitted)'
    BY <1>1 DEF Configure, TypeOK, Place, Places, OnInput, OnLayer, JobsHaveInputs,
                CapacityIsHeld, Admitted
  <2>3. (JobsHaveInputs /\ ActiveIsPinned)'
    BY <1>1 DEF Configure, TypeOK, Place, JobsHaveInputs, ActiveIsPinned, Admitted, Places,
                OnInput, OnLayer
  <2>4. (DoneHasResults /\ Exported)'
    BY <1>1 DEF Configure, TypeOK, Place, WorkerPc, DoneHasResults, JobsHaveInputs, Places,
                OnInput, Exported
  <2> QED BY <2>1, <2>2, <2>3, <2>4
<1>2. ASSUME RemoveReference(l) PROVE Inv'
  <2>1. TypeOK'
    BY <1>2 DEF RemoveReference, TypeOK, Place, Places, OnInput, OnLayer, RequestPc, WorkerPc,
                SweeperPc, JobStatus
  <2>2. (Places /\ CapacityIsHeld /\ Admitted)'
    BY <1>2 DEF RemoveReference, TypeOK, Place, Places, OnInput, OnLayer, JobsHaveInputs,
                CapacityIsHeld, Admitted
  <2>3. (JobsHaveInputs /\ ActiveIsPinned)'
    BY <1>2 DEF RemoveReference, TypeOK, Place, JobsHaveInputs, ActiveIsPinned, Admitted,
                Places, OnInput, OnLayer
  <2>4. (DoneHasResults /\ Exported)'
    BY <1>2 DEF RemoveReference, TypeOK, Place, WorkerPc, DoneHasResults, JobsHaveInputs,
                Places, OnInput, Exported
  <2> QED BY <2>1, <2>2, <2>3, <2>4
<1> QED BY <1>1, <1>2

(* A layer that is pinned by the time its row is deleted stays.            *)
LEMMA DeleteInv ==
    ASSUME Inv, NEW r \in Requests,
           (\E l \in Layers : DeleteGuard(r, l)) \/ DeleteUnlink(r) \/ DeleteRow(r)
    PROVE  Inv'
<1> USE ConstantsAssumption DEF Inv, At, Procs, Work, Go, End, Idle, Release, Unlocked,
        Pinned, Stored, Active, ActiveJobs, inputVars, jobVars, savedVars, locks
<1>1. ASSUME NEW l \in Layers, DeleteGuard(r, l) PROVE Inv'
  <2>1. TypeOK'
    BY <1>1 DEF DeleteGuard, TypeOK, Place, Places, OnInput, OnLayer, RequestPc, WorkerPc,
                SweeperPc, JobStatus
  <2>2. (Places /\ CapacityIsHeld /\ Admitted)'
    BY <1>1 DEF DeleteGuard, TypeOK, Place, Places, OnInput, OnLayer, JobsHaveInputs,
                CapacityIsHeld, Admitted
  <2>3. (JobsHaveInputs /\ ActiveIsPinned)'
    BY <1>1 DEF DeleteGuard, TypeOK, Place, JobsHaveInputs, ActiveIsPinned, Admitted, Places,
                OnInput, OnLayer
  <2>4. (DoneHasResults /\ Exported)'
    BY <1>1 DEF DeleteGuard, TypeOK, Place, WorkerPc, DoneHasResults, JobsHaveInputs, Places,
                OnInput, Exported
  <2> QED BY <2>1, <2>2, <2>3, <2>4
<1>2. ASSUME DeleteUnlink(r) PROVE Inv'
  <2>1. TypeOK'
    BY <1>2 DEF DeleteUnlink, TypeOK, Place, Places, OnInput, OnLayer, RequestPc, WorkerPc,
                SweeperPc, JobStatus
  <2>2. (Places /\ CapacityIsHeld /\ Admitted)'
    BY <1>2 DEF DeleteUnlink, TypeOK, Place, Places, OnInput, OnLayer, JobsHaveInputs,
                CapacityIsHeld, Admitted
  <2>3. (JobsHaveInputs /\ ActiveIsPinned)'
    BY <1>2 DEF DeleteUnlink, TypeOK, Place, JobsHaveInputs, ActiveIsPinned, Admitted, Places,
                OnInput, OnLayer
  <2>4. (DoneHasResults /\ Exported)'
    BY <1>2 DEF DeleteUnlink, TypeOK, Place, WorkerPc, DoneHasResults, JobsHaveInputs, Places,
                OnInput, Exported
  <2> QED BY <2>1, <2>2, <2>3, <2>4
<1>3. ASSUME DeleteRow(r) PROVE Inv'
  <2>1. TypeOK'
    BY <1>3 DEF DeleteRow, TypeOK, Place, Places, OnInput, OnLayer, RequestPc, WorkerPc,
                SweeperPc, JobStatus
  <2>2. (Places /\ CapacityIsHeld /\ Admitted)'
    BY <1>3 DEF DeleteRow, TypeOK, Place, Places, OnInput, OnLayer, JobsHaveInputs,
                CapacityIsHeld, Admitted
  <2>3. (JobsHaveInputs /\ ActiveIsPinned)'
    BY <1>3 DEF DeleteRow, TypeOK, Place, JobsHaveInputs, ActiveIsPinned, Admitted, Places,
                OnInput, OnLayer
  <2>4. (DoneHasResults /\ Exported)'
    BY <1>3 DEF DeleteRow, TypeOK, Place, WorkerPc, DoneHasResults, JobsHaveInputs, Places,
                OnInput, Exported
  <2> QED BY <2>1, <2>2, <2>3, <2>4
<1> QED BY <1>1, <1>2, <1>3

(* Uploads.                                                                *)
LEMMA UploadInv ==
    ASSUME Inv, NEW r \in Requests,
           (\E i \in Inputs : UploadOpen(r, i)) \/ UploadCommit(r) \/ UploadFails(r)
    PROVE  Inv'
<1> USE ConstantsAssumption DEF Inv, At, Procs, Work, Go, End, Idle, Release, Unlocked,
        Stored, Active, ActiveJobs, inputVars, jobVars, savedVars, locks
<1>1. ASSUME NEW i \in Inputs, UploadOpen(r, i) PROVE Inv'
  <2>1. TypeOK'
    BY <1>1 DEF UploadOpen, TypeOK, Place, Places, OnInput, OnLayer, RequestPc, WorkerPc,
                SweeperPc, JobStatus
  <2>2. (Places /\ CapacityIsHeld /\ Admitted)'
    BY <1>1 DEF UploadOpen, TypeOK, Place, Places, OnInput, OnLayer, JobsHaveInputs,
                CapacityIsHeld, Admitted
  <2>3. (JobsHaveInputs /\ ActiveIsPinned)'
    BY <1>1 DEF UploadOpen, TypeOK, Place, JobsHaveInputs, ActiveIsPinned, Admitted, Places,
                OnInput, OnLayer
  <2>4. (DoneHasResults /\ Exported)'
    BY <1>1 DEF UploadOpen, TypeOK, Place, WorkerPc, DoneHasResults, JobsHaveInputs, Places,
                OnInput, Exported
  <2> QED BY <2>1, <2>2, <2>3, <2>4
<1>2. ASSUME UploadCommit(r) PROVE Inv'
  <2>1. TypeOK'
    BY <1>2 DEF UploadCommit, TypeOK, Place, Places, OnInput, OnLayer, RequestPc, WorkerPc,
                SweeperPc, JobStatus
  <2>2. (Places /\ CapacityIsHeld /\ Admitted)'
    BY <1>2 DEF UploadCommit, TypeOK, Place, Places, OnInput, OnLayer, JobsHaveInputs,
                CapacityIsHeld, Admitted
  <2>3. (JobsHaveInputs /\ ActiveIsPinned)'
    BY <1>2 DEF UploadCommit, TypeOK, Place, JobsHaveInputs, ActiveIsPinned, Admitted, Places,
                OnInput, OnLayer
  <2>4. (DoneHasResults /\ Exported)'
    BY <1>2 DEF UploadCommit, TypeOK, Place, WorkerPc, DoneHasResults, JobsHaveInputs, Places,
                OnInput, Exported
  <2> QED BY <2>1, <2>2, <2>3, <2>4
<1>3. ASSUME UploadFails(r) PROVE Inv'
  <2>1. TypeOK'
    BY <1>3 DEF UploadFails, TypeOK, Place, Places, OnInput, OnLayer, RequestPc, WorkerPc,
                SweeperPc, JobStatus
  <2>2. (Places /\ CapacityIsHeld /\ Admitted)'
    BY <1>3 DEF UploadFails, TypeOK, Place, Places, OnInput, OnLayer, JobsHaveInputs,
                CapacityIsHeld, Admitted
  <2>3. (JobsHaveInputs /\ ActiveIsPinned)'
    BY <1>3 DEF UploadFails, TypeOK, Place, JobsHaveInputs, ActiveIsPinned, Admitted, Places,
                OnInput, OnLayer
  <2>4. (DoneHasResults /\ Exported)'
    BY <1>3 DEF UploadFails, TypeOK, Place, WorkerPc, DoneHasResults, JobsHaveInputs, Places,
                OnInput, Exported
  <2> QED BY <2>1, <2>2, <2>3, <2>4
<1> QED BY <1>1, <1>2, <1>3

(* Admission of a job, and what follows its commit.                        *)
LEMMA StartInv ==
    ASSUME Inv, NEW r \in Requests,
           (\E i \in Inputs, l \in Layers : StartOpen(r, i, l)) \/ StartCommit(r)
               \/ Enqueue(r) \/ EnqueueRaises(r) \/ Undo(r)
    PROVE  Inv'
<1> USE ConstantsAssumption DEF Inv, At, Procs, Work, Go, End, Idle, Release, Unlocked,
        Fails, Settle, SettleFailed, KeepJob, Stored, Active, ActiveJobs, inputVars,
        jobVars, savedVars, locks
<1>1. ASSUME NEW i \in Inputs, NEW l \in Layers, StartOpen(r, i, l) PROVE Inv'
  <2>1. TypeOK'
    BY <1>1 DEF StartOpen, TypeOK, Place, Places, OnInput, OnLayer, RequestPc, WorkerPc,
                SweeperPc, JobStatus
  <2>2. (Places /\ CapacityIsHeld /\ Admitted)'
    BY <1>1 DEF StartOpen, TypeOK, Place, Places, OnInput, OnLayer, JobsHaveInputs,
                CapacityIsHeld, Admitted
  <2>3. (JobsHaveInputs /\ ActiveIsPinned)'
    BY <1>1 DEF StartOpen, TypeOK, Place, JobsHaveInputs, ActiveIsPinned, Admitted, Places,
                OnInput, OnLayer
  <2>4. (DoneHasResults /\ Exported)'
    BY <1>1 DEF StartOpen, TypeOK, Place, WorkerPc, DoneHasResults, JobsHaveInputs, Places,
                OnInput, Exported
  <2> QED BY <2>1, <2>2, <2>3, <2>4
<1>2. ASSUME StartCommit(r) PROVE Inv'
  <2>1. TypeOK'
    BY <1>2 DEF StartCommit, TypeOK, Place, Places, OnInput, OnLayer, RequestPc, WorkerPc,
                SweeperPc, JobStatus
  <2>2. (Places /\ CapacityIsHeld /\ Admitted)'
    BY <1>2 DEF StartCommit, TypeOK, Place, Places, OnInput, OnLayer, JobsHaveInputs,
                CapacityIsHeld, Admitted
  <2>3. (JobsHaveInputs /\ ActiveIsPinned)'
    BY <1>2 DEF StartCommit, TypeOK, Place, JobsHaveInputs, ActiveIsPinned, Admitted, Places,
                OnInput, OnLayer
  <2>4. (DoneHasResults /\ Exported)'
    BY <1>2 DEF StartCommit, TypeOK, Place, WorkerPc, DoneHasResults, JobsHaveInputs, Places,
                OnInput, Exported
  <2> QED BY <2>1, <2>2, <2>3, <2>4
<1>3. ASSUME Enqueue(r) PROVE Inv'
  <2>1. TypeOK'
    BY <1>3 DEF Enqueue, TypeOK, Place, Places, OnInput, OnLayer, RequestPc, WorkerPc,
                SweeperPc, JobStatus
  <2>2. (Places /\ CapacityIsHeld /\ Admitted)'
    BY <1>3 DEF Enqueue, TypeOK, Place, Places, OnInput, OnLayer, JobsHaveInputs,
                CapacityIsHeld, Admitted
  <2>3. (JobsHaveInputs /\ ActiveIsPinned)'
    BY <1>3 DEF Enqueue, TypeOK, Place, JobsHaveInputs, ActiveIsPinned, Admitted, Places,
                OnInput, OnLayer
  <2>4. (DoneHasResults /\ Exported)'
    BY <1>3 DEF Enqueue, TypeOK, Place, WorkerPc, DoneHasResults, JobsHaveInputs, Places,
                OnInput, Exported
  <2> QED BY <2>1, <2>2, <2>3, <2>4
<1>4. ASSUME EnqueueRaises(r) PROVE Inv'
  <2>1. TypeOK'
    BY <1>4 DEF EnqueueRaises, TypeOK, Place, Places, OnInput, OnLayer, RequestPc, WorkerPc,
                SweeperPc, JobStatus
  <2>2. (Places /\ CapacityIsHeld /\ Admitted)'
    BY <1>4 DEF EnqueueRaises, TypeOK, Place, Places, OnInput, OnLayer, JobsHaveInputs,
                CapacityIsHeld, Admitted
  <2>3. (JobsHaveInputs /\ ActiveIsPinned)'
    BY <1>4 DEF EnqueueRaises, TypeOK, Place, JobsHaveInputs, ActiveIsPinned, Admitted,
                Places, OnInput, OnLayer
  <2>4. (DoneHasResults /\ Exported)'
    BY <1>4 DEF EnqueueRaises, TypeOK, Place, WorkerPc, DoneHasResults, JobsHaveInputs,
                Places, OnInput, Exported
  <2> QED BY <2>1, <2>2, <2>3, <2>4
<1>5. ASSUME Undo(r) PROVE Inv'
  <2>1. TypeOK'
    BY <1>5 DEF Undo, TypeOK, Place, Places, OnInput, OnLayer, RequestPc, WorkerPc, SweeperPc,
                JobStatus
  <2>2. (Places /\ CapacityIsHeld /\ Admitted)'
    BY <1>5 DEF Undo, TypeOK, Place, Places, OnInput, OnLayer, JobsHaveInputs, CapacityIsHeld,
                Admitted
  <2>3. (JobsHaveInputs /\ ActiveIsPinned)'
    BY <1>5 DEF Undo, TypeOK, Place, JobsHaveInputs, ActiveIsPinned, Admitted, Places,
                OnInput, OnLayer
  <2>4. (DoneHasResults /\ Exported)'
    BY <1>5 DEF Undo, TypeOK, Place, WorkerPc, DoneHasResults, JobsHaveInputs, Places,
                OnInput, Exported
  <2> QED BY <2>1, <2>2, <2>3, <2>4
<1> QED BY <1>1, <1>2, <1>3, <1>4, <1>5

(* Saving touches only files that no other step reads.                     *)
LEMMA SaveInv ==
    ASSUME Inv, NEW r \in Requests,
           (\E i \in Inputs : SaveOpen(r, i)) \/ SaveCopy(r) \/ SaveInsert(r)
    PROVE  Inv'
<1> USE ConstantsAssumption DEF Inv, At, Procs, Work, Go, End, Idle, Stored, Active,
        ActiveJobs, inputVars, jobVars, savedVars, locks
<1>1. ASSUME NEW i \in Inputs, SaveOpen(r, i) PROVE Inv'
  <2>1. TypeOK'
    BY <1>1 DEF SaveOpen, TypeOK, Place, Places, OnInput, OnLayer, RequestPc, WorkerPc,
                SweeperPc, JobStatus
  <2>2. (Places /\ CapacityIsHeld /\ Admitted)'
    BY <1>1 DEF SaveOpen, TypeOK, Place, Places, OnInput, OnLayer, JobsHaveInputs,
                CapacityIsHeld, Admitted
  <2>3. (JobsHaveInputs /\ ActiveIsPinned)'
    BY <1>1 DEF SaveOpen, TypeOK, Place, JobsHaveInputs, ActiveIsPinned, Admitted, Places,
                OnInput, OnLayer
  <2>4. (DoneHasResults /\ Exported)'
    BY <1>1 DEF SaveOpen, TypeOK, Place, WorkerPc, DoneHasResults, JobsHaveInputs, Places,
                OnInput, Exported
  <2> QED BY <2>1, <2>2, <2>3, <2>4
<1>2. ASSUME SaveCopy(r) PROVE Inv'
  <2>1. TypeOK'
    BY <1>2 DEF SaveCopy, TypeOK, Place, Places, OnInput, OnLayer, RequestPc, WorkerPc,
                SweeperPc, JobStatus
  <2>2. (Places /\ CapacityIsHeld /\ Admitted)'
    BY <1>2 DEF SaveCopy, TypeOK, Place, Places, OnInput, OnLayer, JobsHaveInputs,
                CapacityIsHeld, Admitted
  <2>3. (JobsHaveInputs /\ ActiveIsPinned)'
    BY <1>2 DEF SaveCopy, TypeOK, Place, JobsHaveInputs, ActiveIsPinned, Admitted, Places,
                OnInput, OnLayer
  <2>4. (DoneHasResults /\ Exported)'
    BY <1>2 DEF SaveCopy, TypeOK, Place, WorkerPc, DoneHasResults, JobsHaveInputs, Places,
                OnInput, Exported
  <2> QED BY <2>1, <2>2, <2>3, <2>4
<1>3. ASSUME SaveInsert(r) PROVE Inv'
  <2>1. TypeOK'
    BY <1>3 DEF SaveInsert, TypeOK, Place, Places, OnInput, OnLayer, RequestPc, WorkerPc,
                SweeperPc, JobStatus
  <2>2. (Places /\ CapacityIsHeld /\ Admitted)'
    BY <1>3 DEF SaveInsert, TypeOK, Place, Places, OnInput, OnLayer, JobsHaveInputs,
                CapacityIsHeld, Admitted
  <2>3. (JobsHaveInputs /\ ActiveIsPinned)'
    BY <1>3 DEF SaveInsert, TypeOK, Place, JobsHaveInputs, ActiveIsPinned, Admitted, Places,
                OnInput, OnLayer
  <2>4. (DoneHasResults /\ Exported)'
    BY <1>3 DEF SaveInsert, TypeOK, Place, WorkerPc, DoneHasResults, JobsHaveInputs, Places,
                OnInput, Exported
  <2> QED BY <2>1, <2>2, <2>3, <2>4
<1> QED BY <1>1, <1>2, <1>3

(* The task.                                                               *)
LEMMA TaskInv ==
    ASSUME Inv, NEW w \in Workers, (\E i \in Inputs : Deliver(w, i)) \/ TaskStep(w)
    PROVE  Inv'
<1> USE ConstantsAssumption DEF Inv, At, Procs, Work, Go, End, EndTask, Idle, Settle,
        SettleFailed, KeepJob, Stored, Active, ActiveJobs, inputVars, jobVars,
        savedVars, locks
<1>1. ASSUME NEW i \in Inputs, Deliver(w, i) PROVE Inv'
  <2>1. TypeOK'
    BY <1>1 DEF Deliver, TypeOK, Place, Places, OnInput, OnLayer, RequestPc, WorkerPc,
                SweeperPc, JobStatus
  <2>2. (Places /\ CapacityIsHeld /\ Admitted)'
    BY <1>1 DEF Deliver, TypeOK, Place, Places, OnInput, OnLayer, JobsHaveInputs,
                CapacityIsHeld, Admitted
  <2>3. (JobsHaveInputs /\ ActiveIsPinned)'
    BY <1>1 DEF Deliver, TypeOK, Place, JobsHaveInputs, ActiveIsPinned, Admitted, Places,
                OnInput, OnLayer
  <2>4. (DoneHasResults /\ Exported)'
    BY <1>1 DEF Deliver, TypeOK, Place, WorkerPc, DoneHasResults, JobsHaveInputs, Places,
                OnInput, Exported
  <2> QED BY <2>1, <2>2, <2>3, <2>4
<1>2. ASSUME Claim(w) PROVE Inv'
  <2>1. TypeOK'
    BY <1>2 DEF Claim, TypeOK, Place, Places, OnInput, OnLayer, RequestPc, WorkerPc,
                SweeperPc, JobStatus
  <2>2. (Places /\ CapacityIsHeld /\ Admitted)'
    BY <1>2 DEF Claim, TypeOK, Place, Places, OnInput, OnLayer, JobsHaveInputs,
                CapacityIsHeld, Admitted
  <2>3. (JobsHaveInputs /\ ActiveIsPinned)'
    BY <1>2 DEF Claim, TypeOK, Place, JobsHaveInputs, ActiveIsPinned, Admitted, Places,
                OnInput, OnLayer
  <2>4. (DoneHasResults /\ Exported)'
    BY <1>2 DEF Claim, TypeOK, Place, WorkerPc, DoneHasResults, JobsHaveInputs, Places,
                OnInput, Exported
  <2> QED BY <2>1, <2>2, <2>3, <2>4
<1>3. ASSUME Load(w) PROVE Inv'
  <2>1. TypeOK'
    BY <1>3 DEF Load, TypeOK, Place, Places, OnInput, OnLayer, RequestPc, WorkerPc, SweeperPc,
                JobStatus
  <2>2. (Places /\ CapacityIsHeld /\ Admitted)'
    BY <1>3 DEF Load, TypeOK, Place, Places, OnInput, OnLayer, JobsHaveInputs, CapacityIsHeld,
                Admitted
  <2>3. (JobsHaveInputs /\ ActiveIsPinned)'
    BY <1>3 DEF Load, TypeOK, Place, JobsHaveInputs, ActiveIsPinned, Admitted, Places,
                OnInput, OnLayer
  <2>4. (DoneHasResults /\ Exported)'
    BY <1>3 DEF Load, TypeOK, Place, WorkerPc, DoneHasResults, JobsHaveInputs, Places,
                OnInput, Exported
  <2> QED BY <2>1, <2>2, <2>3, <2>4
<1>4. ASSUME Export(w) PROVE Inv'
  <2>1. TypeOK'
    BY <1>4 DEF Export, TypeOK, Place, Places, OnInput, OnLayer, RequestPc, WorkerPc,
                SweeperPc, JobStatus
  <2>2. (Places /\ CapacityIsHeld /\ Admitted)'
    BY <1>4 DEF Export, TypeOK, Place, Places, OnInput, OnLayer, JobsHaveInputs,
                CapacityIsHeld, Admitted
  <2>3. (JobsHaveInputs /\ ActiveIsPinned)'
    BY <1>4 DEF Export, TypeOK, Place, JobsHaveInputs, ActiveIsPinned, Admitted, Places,
                OnInput, OnLayer
  <2>4. (DoneHasResults /\ Exported)'
    BY <1>4 DEF Export, TypeOK, Place, WorkerPc, DoneHasResults, JobsHaveInputs, Places,
                OnInput, Exported
  <2> QED BY <2>1, <2>2, <2>3, <2>4
<1>5. ASSUME TaskRaises(w) PROVE Inv'
  <2>1. TypeOK'
    BY <1>5 DEF TaskRaises, TypeOK, Place, Places, OnInput, OnLayer, RequestPc, WorkerPc,
                SweeperPc, JobStatus
  <2>2. (Places /\ CapacityIsHeld /\ Admitted)'
    BY <1>5 DEF TaskRaises, TypeOK, Place, Places, OnInput, OnLayer, JobsHaveInputs,
                CapacityIsHeld, Admitted
  <2>3. (JobsHaveInputs /\ ActiveIsPinned)'
    BY <1>5 DEF TaskRaises, TypeOK, Place, JobsHaveInputs, ActiveIsPinned, Admitted, Places,
                OnInput, OnLayer
  <2>4. (DoneHasResults /\ Exported)'
    BY <1>5 DEF TaskRaises, TypeOK, Place, WorkerPc, DoneHasResults, JobsHaveInputs, Places,
                OnInput, Exported
  <2> QED BY <2>1, <2>2, <2>3, <2>4
<1>6. ASSUME Finish(w) PROVE Inv'
  <2>1. TypeOK'
    BY <1>6 DEF Finish, TypeOK, Place, Places, OnInput, OnLayer, RequestPc, WorkerPc,
                SweeperPc, JobStatus
  <2>2. (Places /\ CapacityIsHeld /\ Admitted)'
    BY <1>6 DEF Finish, TypeOK, Place, Places, OnInput, OnLayer, JobsHaveInputs,
                CapacityIsHeld, Admitted
  <2>3. (JobsHaveInputs /\ ActiveIsPinned)'
    BY <1>6 DEF Finish, TypeOK, Place, JobsHaveInputs, ActiveIsPinned, Admitted, Places,
                OnInput, OnLayer
  <2>4. (DoneHasResults /\ Exported)'
    BY <1>6 DEF Finish, TypeOK, Place, WorkerPc, DoneHasResults, JobsHaveInputs, Places,
                OnInput, Exported
  <2> QED BY <2>1, <2>2, <2>3, <2>4
<1>7. ASSUME TaskFails(w) PROVE Inv'
  <2>1. TypeOK'
    BY <1>7 DEF TaskFails, TypeOK, Place, Places, OnInput, OnLayer, RequestPc, WorkerPc,
                SweeperPc, JobStatus
  <2>2. (Places /\ CapacityIsHeld /\ Admitted)'
    BY <1>7 DEF TaskFails, TypeOK, Place, Places, OnInput, OnLayer, JobsHaveInputs,
                CapacityIsHeld, Admitted
  <2>3. (JobsHaveInputs /\ ActiveIsPinned)'
    BY <1>7 DEF TaskFails, TypeOK, Place, JobsHaveInputs, ActiveIsPinned, Admitted, Places,
                OnInput, OnLayer
  <2>4. (DoneHasResults /\ Exported)'
    BY <1>7 DEF TaskFails, TypeOK, Place, WorkerPc, DoneHasResults, JobsHaveInputs, Places,
                OnInput, Exported
  <2> QED BY <2>1, <2>2, <2>3, <2>4
<1> QED BY <1>1, <1>2, <1>3, <1>4, <1>5, <1>6, <1>7 DEF TaskStep

(* A removal, by a user or by the sweep.                                   *)
LEMMA RemoveInv ==
    ASSUME Inv, NEW p \in Requests \cup {Sweeper},
           (p \in Requests /\ \E i \in Inputs : RemoveOpen(p, i))
               \/ RemoveFiles(p) \/ RemoveFails(p) \/ RemoveRows(p)
    PROVE  Inv'
<1> USE ConstantsAssumption DEF Inv, At, Procs, Work, Go, End, Idle, Return, Release,
        Unlocked, Fails, Free, MayRemove, Stored, Active, ActiveJobs, inputVars,
        jobVars, savedVars, locks
<1>1. ASSUME NEW i \in Inputs, p \in Requests, RemoveOpen(p, i) PROVE Inv'
  <2>1. TypeOK'
    BY <1>1 DEF RemoveOpen, TypeOK, Place, Places, OnInput, OnLayer, RequestPc, WorkerPc,
                SweeperPc, JobStatus
  <2>2. (Places /\ CapacityIsHeld /\ Admitted)'
    BY <1>1 DEF RemoveOpen, TypeOK, Place, Places, OnInput, OnLayer, JobsHaveInputs,
                CapacityIsHeld, Admitted
  <2>3. (JobsHaveInputs /\ ActiveIsPinned)'
    BY <1>1 DEF RemoveOpen, TypeOK, Place, JobsHaveInputs, ActiveIsPinned, Admitted, Places,
                OnInput, OnLayer
  <2>4. (DoneHasResults /\ Exported)'
    BY <1>1 DEF RemoveOpen, TypeOK, Place, WorkerPc, DoneHasResults, JobsHaveInputs, Places,
                OnInput, Exported
  <2> QED BY <2>1, <2>2, <2>3, <2>4
<1>2. ASSUME RemoveFiles(p) PROVE Inv'
  <2>1. TypeOK'
    BY <1>2 DEF RemoveFiles, TypeOK, Place, Places, OnInput, OnLayer, RequestPc, WorkerPc,
                SweeperPc, JobStatus
  <2>2. (Places /\ CapacityIsHeld /\ Admitted)'
    BY <1>2 DEF RemoveFiles, TypeOK, Place, Places, OnInput, OnLayer, JobsHaveInputs,
                CapacityIsHeld, Admitted
  <2>3. (JobsHaveInputs /\ ActiveIsPinned)'
    BY <1>2 DEF RemoveFiles, TypeOK, Place, JobsHaveInputs, ActiveIsPinned, Admitted, Places,
                OnInput, OnLayer
  <2>4. (DoneHasResults /\ Exported)'
    BY <1>2 DEF RemoveFiles, TypeOK, Place, WorkerPc, DoneHasResults, JobsHaveInputs, Places,
                OnInput, Exported
  <2> QED BY <2>1, <2>2, <2>3, <2>4
<1>3. ASSUME RemoveFails(p) PROVE Inv'
  <2>1. TypeOK'
    BY <1>3 DEF RemoveFails, TypeOK, Place, Places, OnInput, OnLayer, RequestPc, WorkerPc,
                SweeperPc, JobStatus
  <2>2. (Places /\ CapacityIsHeld /\ Admitted)'
    BY <1>3 DEF RemoveFails, TypeOK, Place, Places, OnInput, OnLayer, JobsHaveInputs,
                CapacityIsHeld, Admitted
  <2>3. (JobsHaveInputs /\ ActiveIsPinned)'
    BY <1>3 DEF RemoveFails, TypeOK, Place, JobsHaveInputs, ActiveIsPinned, Admitted, Places,
                OnInput, OnLayer
  <2>4. (DoneHasResults /\ Exported)'
    BY <1>3 DEF RemoveFails, TypeOK, Place, WorkerPc, DoneHasResults, JobsHaveInputs, Places,
                OnInput, Exported
  <2> QED BY <2>1, <2>2, <2>3, <2>4
<1>4. ASSUME RemoveRows(p) PROVE Inv'
  <2>1. TypeOK'
    BY <1>4 DEF RemoveRows, TypeOK, Place, Places, OnInput, OnLayer, RequestPc, WorkerPc,
                SweeperPc, JobStatus
  <2>2. (Places /\ CapacityIsHeld /\ Admitted)'
    BY <1>4 DEF RemoveRows, TypeOK, Place, Places, OnInput, OnLayer, JobsHaveInputs,
                CapacityIsHeld, Admitted
  <2>3. (JobsHaveInputs /\ ActiveIsPinned)'
    BY <1>4 DEF RemoveRows, TypeOK, Place, JobsHaveInputs, ActiveIsPinned, Admitted, Places,
                OnInput, OnLayer
  <2>4. (DoneHasResults /\ Exported)'
    BY <1>4 DEF RemoveRows, TypeOK, Place, WorkerPc, DoneHasResults, JobsHaveInputs, Places,
                OnInput, Exported
  <2> QED BY <2>1, <2>2, <2>3, <2>4
<1> QED BY <1>1, <1>2, <1>3, <1>4

(* The sweep, but for the removals.                                        *)
LEMMA SweepInv ==
    ASSUME Inv, SweepOpen \/ SweepList \/ SweepOrphans
               \/ \E i \in Inputs : SweepJob(i) \/ SweepUpload(i)
    PROVE  Inv'
<1> USE ConstantsAssumption DEF Inv, At, Procs, Work, Go, End, Idle, Release, Unlocked,
        Free, MayRemove, Settle, KeepJob, Stored, Active, ActiveJobs, inputVars,
        jobVars, savedVars, locks
<1>1. ASSUME SweepOpen PROVE Inv'
  <2>1. TypeOK'
    BY <1>1 DEF SweepOpen, TypeOK, Place, Places, OnInput, OnLayer, RequestPc, WorkerPc,
                SweeperPc, JobStatus
  <2>2. (Places /\ CapacityIsHeld /\ Admitted)'
    BY <1>1 DEF SweepOpen, TypeOK, Place, Places, OnInput, OnLayer, JobsHaveInputs,
                CapacityIsHeld, Admitted
  <2>3. (JobsHaveInputs /\ ActiveIsPinned)'
    BY <1>1 DEF SweepOpen, TypeOK, Place, JobsHaveInputs, ActiveIsPinned, Admitted, Places,
                OnInput, OnLayer
  <2>4. (DoneHasResults /\ Exported)'
    BY <1>1 DEF SweepOpen, TypeOK, Place, WorkerPc, DoneHasResults, JobsHaveInputs, Places,
                OnInput, Exported
  <2> QED BY <2>1, <2>2, <2>3, <2>4
<1>2. ASSUME SweepList PROVE Inv'
  <2>1. TypeOK'
    BY <1>2 DEF SweepList, TypeOK, Place, Places, OnInput, OnLayer, RequestPc, WorkerPc,
                SweeperPc, JobStatus
  <2>2. (Places /\ CapacityIsHeld /\ Admitted)'
    BY <1>2 DEF SweepList, TypeOK, Place, Places, OnInput, OnLayer, JobsHaveInputs,
                CapacityIsHeld, Admitted
  <2>3. (JobsHaveInputs /\ ActiveIsPinned)'
    BY <1>2 DEF SweepList, TypeOK, Place, JobsHaveInputs, ActiveIsPinned, Admitted, Places,
                OnInput, OnLayer
  <2>4. (DoneHasResults /\ Exported)'
    BY <1>2 DEF SweepList, TypeOK, Place, WorkerPc, DoneHasResults, JobsHaveInputs, Places,
                OnInput, Exported
  <2> QED BY <2>1, <2>2, <2>3, <2>4
<1>3. ASSUME SweepOrphans PROVE Inv'
  <2>1. TypeOK'
    BY <1>3 DEF SweepOrphans, TypeOK, Place, Places, OnInput, OnLayer, RequestPc, WorkerPc,
                SweeperPc, JobStatus
  <2>2. (Places /\ CapacityIsHeld /\ Admitted)'
    BY <1>3 DEF SweepOrphans, TypeOK, Place, Places, OnInput, OnLayer, JobsHaveInputs,
                CapacityIsHeld, Admitted
  <2>3. (JobsHaveInputs /\ ActiveIsPinned)'
    BY <1>3 DEF SweepOrphans, TypeOK, Place, JobsHaveInputs, ActiveIsPinned, Admitted, Places,
                OnInput, OnLayer
  <2>4. (DoneHasResults /\ Exported)'
    BY <1>3 DEF SweepOrphans, TypeOK, Place, WorkerPc, DoneHasResults, JobsHaveInputs, Places,
                OnInput, Exported
  <2> QED BY <2>1, <2>2, <2>3, <2>4
<1>4. ASSUME NEW i \in Inputs, SweepJob(i) PROVE Inv'
  <2>1. TypeOK'
    BY <1>4 DEF SweepJob, TypeOK, Place, Places, OnInput, OnLayer, RequestPc, WorkerPc,
                SweeperPc, JobStatus
  <2>2. (Places /\ CapacityIsHeld /\ Admitted)'
    BY <1>4 DEF SweepJob, TypeOK, Place, Places, OnInput, OnLayer, JobsHaveInputs,
                CapacityIsHeld, Admitted
  <2>3. (JobsHaveInputs /\ ActiveIsPinned)'
    BY <1>4 DEF SweepJob, TypeOK, Place, JobsHaveInputs, ActiveIsPinned, Admitted, Places,
                OnInput, OnLayer
  <2>4. (DoneHasResults /\ Exported)'
    BY <1>4 DEF SweepJob, TypeOK, Place, WorkerPc, DoneHasResults, JobsHaveInputs, Places,
                OnInput, Exported
  <2> QED BY <2>1, <2>2, <2>3, <2>4
<1>5. ASSUME NEW i \in Inputs, SweepUpload(i) PROVE Inv'
  <2>1. TypeOK'
    BY <1>5 DEF SweepUpload, TypeOK, Place, Places, OnInput, OnLayer, RequestPc, WorkerPc,
                SweeperPc, JobStatus
  <2>2. (Places /\ CapacityIsHeld /\ Admitted)'
    BY <1>5 DEF SweepUpload, TypeOK, Place, Places, OnInput, OnLayer, JobsHaveInputs,
                CapacityIsHeld, Admitted
  <2>3. (JobsHaveInputs /\ ActiveIsPinned)'
    BY <1>5 DEF SweepUpload, TypeOK, Place, JobsHaveInputs, ActiveIsPinned, Admitted, Places,
                OnInput, OnLayer
  <2>4. (DoneHasResults /\ Exported)'
    BY <1>5 DEF SweepUpload, TypeOK, Place, WorkerPc, DoneHasResults, JobsHaveInputs, Places,
                OnInput, Exported
  <2> QED BY <2>1, <2>2, <2>3, <2>4
<1> QED BY <1>1, <1>2, <1>3, <1>4, <1>5

(* A process dies.                                                         *)
LEMMA CrashInv ==
    ASSUME Inv, NEW p \in Procs, Crash(p)
    PROVE  Inv'
<1> USE ConstantsAssumption DEF Inv, At, Procs, End, Idle, Release, Unlocked, Fails,
        Stored, Active, ActiveJobs, inputVars, jobVars, savedVars, locks
<1>1. ASSUME Crash(p) PROVE Inv'
  <2>1. TypeOK'
    BY <1>1 DEF Crash, TypeOK, Place, Places, OnInput, OnLayer, RequestPc, WorkerPc,
                SweeperPc, JobStatus
  <2>2. (Places /\ CapacityIsHeld /\ Admitted)'
    BY <1>1 DEF Crash, TypeOK, Place, Places, OnInput, OnLayer, JobsHaveInputs,
                CapacityIsHeld, Admitted
  <2>3. (JobsHaveInputs /\ ActiveIsPinned)'
    <3>1. p \in Requests /\ at[p].pc = "upload" => upload[at[p].input] = "uploading"
      BY DEF Admitted
    <3>2. at[p].pc = "upload" => p \in Requests
      BY DEF TypeOK, Place, WorkerPc, SweeperPc
    <3>3. Stored' = Stored
      BY <1>1, <3>1, <3>2 DEF Crash, TypeOK
    <3>4. \A i \in Inputs : upload[i] # "unused" => upload'[i] # "unused"
      BY <1>1 DEF Crash, TypeOK
    <3>5. UNCHANGED <<job, overdue, pins, source, layer>>
      BY <1>1 DEF Crash
    <3> HIDE DEF Stored
    <3> QED BY <3>3, <3>4, <3>5 DEF JobsHaveInputs, ActiveIsPinned
  <2>4. (DoneHasResults /\ Exported)'
    BY <1>1 DEF Crash, TypeOK, Place, WorkerPc, DoneHasResults, JobsHaveInputs, Places,
                OnInput, Exported
  <2> QED BY <2>1, <2>2, <2>3, <2>4
<1> QED BY <1>1

LEMMA StepInv == ASSUME Inv, [Next]_vars PROVE Inv'
<1>1. CASE Next
  <2>1. ASSUME NEW r \in Requests, Request(r) PROVE Inv'
    BY <2>1, UploadInv, RemoveInv, SaveInv, StartInv, DeleteInv DEF Request
  <2>2. ASSUME NEW r \in Requests, RequestStep(r) PROVE Inv'
    BY <2>2, UploadInv, RemoveInv, SaveInv, StartInv, DeleteInv DEF RequestStep
  <2>3. ASSUME NEW w \in Workers, TaskStep(w) \/ \E i \in Inputs : Deliver(w, i) PROVE Inv'
    BY <2>3, TaskInv
  <2>4. CASE SweepOpen \/ SweepStep
    BY <2>4, SweepInv, RemoveInv DEF SweepStep
  <2> QED BY <1>1, <2>1, <2>2, <2>3, <2>4, ClockInv, LayerInv, CrashInv DEF Next
<1>2. CASE UNCHANGED vars
  BY <1>2 DEF vars, inputVars, jobVars, savedVars, locks, Inv, TypeOK, Places, CapacityIsHeld,
              Admitted, JobsHaveInputs, ActiveIsPinned, DoneHasResults, Exported, At, Active,
              ActiveJobs, Stored
<1> QED BY <1>1, <1>2

LEMMA InitInv == Init => Inv /\ Limits
<1> SUFFICES ASSUME Init PROVE Inv /\ Limits
  OBVIOUS
<1> USE ConstantsAssumption DEF Init, At, Idle, Procs, Active, ActiveJobs, Stored
<1>1. TypeOK
  BY DEF TypeOK, Place, RequestPc, WorkerPc, SweeperPc, JobStatus
<1>2. Places /\ CapacityIsHeld /\ Admitted
  BY DEF Places, OnInput, OnLayer, CapacityIsHeld, Admitted
<1>3. JobsHaveInputs /\ ActiveIsPinned /\ DoneHasResults /\ Exported
  BY DEF JobsHaveInputs, ActiveIsPinned, DoneHasResults, Exported
<1>4. Limits
  <2>1. ActiveJobs = {} /\ Stored = {}
    OBVIOUS
  <2>2. IsFiniteSet({}) /\ Cardinality({}) = 0
    BY FS_EmptySet
  <2>3. \A r \in Requests : ~At(r, "start") /\ ~At(r, "upload")
    OBVIOUS
  <2> HIDE DEF At, ActiveJobs, Stored, Init
  <2> QED BY <2>1, <2>2, <2>3 DEF Limits, WithinLimits
<1> QED BY <1>1, <1>2, <1>3, <1>4 DEF Inv

-----------------------------------------------------------------------------
(* The limits.                                                             *)

(* Only the commit of a start makes a job active.                          *)
LEMMA ActiveJobsGrow ==
    ASSUME Inv, Next
    PROVE  ActiveJobs' \subseteq ActiveJobs \/ \E r \in Requests : StartCommit(r)
<1> USE ConstantsAssumption DEF Inv, TypeOK, JobsHaveInputs, ActiveJobs, Active, Settle,
                                SettleFailed, KeepJob, jobVars
<1>1. ASSUME NEW i \in Inputs, Expire(i) \/ RunLate(i) PROVE ActiveJobs' = ActiveJobs
  BY <1>1 DEF Expire, RunLate
<1>2. ASSUME NEW l \in Layers, Configure(l) \/ RemoveReference(l) PROVE ActiveJobs' = ActiveJobs
  BY <1>2 DEF Configure, RemoveReference
<1>3. ASSUME NEW r \in Requests, Request(r) PROVE ActiveJobs' = ActiveJobs
  BY <1>3 DEF Request, UploadOpen, RemoveOpen, SaveOpen, StartOpen, DeleteGuard
<1>4. ASSUME NEW r \in Requests, RequestStep(r), ~StartCommit(r)
      PROVE  ActiveJobs' \subseteq ActiveJobs
  BY <1>4 DEF RequestStep, UploadCommit, UploadFails, Enqueue, EnqueueRaises, Undo,
              RemoveFiles, RemoveFails, RemoveRows, SaveCopy, SaveInsert, DeleteUnlink,
              DeleteRow
<1>5. ASSUME NEW w \in Workers, TaskStep(w) \/ \E i \in Inputs : Deliver(w, i)
      PROVE  ActiveJobs' \subseteq ActiveJobs
  BY <1>5 DEF TaskStep, Deliver, Claim, Load, Export, TaskRaises, Finish, TaskFails
<1>6. ASSUME SweepOpen \/ SweepStep PROVE ActiveJobs' \subseteq ActiveJobs
  BY <1>6 DEF SweepOpen, SweepStep, SweepList, SweepOrphans, SweepJob, SweepUpload,
              RemoveFiles, RemoveFails, RemoveRows
<1>7. ASSUME NEW p \in Procs, Crash(p) PROVE ActiveJobs' = ActiveJobs
  BY <1>7 DEF Crash
<1> QED BY <1>1, <1>2, <1>3, <1>4, <1>5, <1>6, <1>7 DEF Next

(* Only the commit of an upload stores an input.                           *)
LEMMA StoredGrows ==
    ASSUME Inv, Next
    PROVE  Stored' \subseteq Stored \/ \E r \in Requests : UploadCommit(r)
<1> USE ConstantsAssumption DEF Inv, TypeOK, Stored, inputVars
<1>1. ASSUME NEW i \in Inputs, Expire(i) \/ RunLate(i) PROVE Stored' = Stored
  BY <1>1 DEF Expire, RunLate
<1>2. ASSUME NEW l \in Layers, Configure(l) \/ RemoveReference(l) PROVE Stored' = Stored
  BY <1>2 DEF Configure, RemoveReference
<1>3. ASSUME NEW r \in Requests, Request(r) PROVE Stored' \subseteq Stored
  <2>1. ASSUME NEW i \in Inputs, UploadOpen(r, i) PROVE Stored' \subseteq Stored
    BY <2>1 DEF UploadOpen
  <2>2. ASSUME NEW i \in Inputs, NEW l \in Layers,
               RemoveOpen(r, i) \/ SaveOpen(r, i) \/ StartOpen(r, i, l) \/ DeleteGuard(r, l)
        PROVE  Stored' = Stored
    BY <2>2 DEF RemoveOpen, SaveOpen, StartOpen, DeleteGuard
  <2>3. ASSUME NEW i \in Inputs, RemoveOpen(r, i) \/ SaveOpen(r, i)
      PROVE  Stored' = Stored
    BY <2>3 DEF RemoveOpen, SaveOpen
  <2>4. ASSUME NEW l \in Layers, DeleteGuard(r, l) PROVE Stored' = Stored
    BY <2>4 DEF DeleteGuard
  <2> QED BY <1>3, <2>1, <2>2, <2>3, <2>4 DEF Request
<1>4. ASSUME NEW r \in Requests, RequestStep(r), ~UploadCommit(r) PROVE Stored' \subseteq Stored
  BY <1>4 DEF RequestStep, UploadFails, StartCommit, Enqueue, EnqueueRaises, Undo,
              RemoveFiles, RemoveFails, RemoveRows, SaveCopy, SaveInsert, DeleteUnlink,
              DeleteRow
<1>5. ASSUME NEW w \in Workers, TaskStep(w) \/ \E i \in Inputs : Deliver(w, i)
      PROVE  Stored' = Stored
  BY <1>5 DEF TaskStep, Deliver, Claim, Load, Export, TaskRaises, Finish, TaskFails
<1>6. ASSUME SweepOpen \/ SweepStep PROVE Stored' \subseteq Stored
  BY <1>6 DEF SweepOpen, SweepStep, SweepList, SweepOrphans, SweepJob, SweepUpload,
              RemoveFiles, RemoveFails, RemoveRows
<1>7. ASSUME NEW p \in Procs, Crash(p) PROVE Stored' \subseteq Stored
  BY <1>7 DEF Crash
<1> QED BY <1>1, <1>2, <1>3, <1>4, <1>5, <1>6, <1>7 DEF Next

(* A request is admitted by counting, in the step before.                  *)
LEMMA AdmissionOpens ==
    ASSUME Inv, Next, NEW r \in Requests
    PROVE  /\ At(r, "start")' =>
                  At(r, "start") \/ \E i \in Inputs, l \in Layers : StartOpen(r, i, l)
           /\ At(r, "upload")' => At(r, "upload") \/ \E i \in Inputs : UploadOpen(r, i)
<1> USE ConstantsAssumption DEF Inv, TypeOK, Place, At, Go, Work, End, Idle, EndTask, Return,
                                Procs
<1>1. ASSUME NEW i \in Inputs, Expire(i) \/ RunLate(i) PROVE at' = at
  BY <1>1 DEF Expire, RunLate
<1>2. ASSUME NEW l \in Layers, Configure(l) \/ RemoveReference(l) PROVE at' = at
  BY <1>2 DEF Configure, RemoveReference
<1>3. ASSUME NEW q \in Requests, Request(q)
      PROVE  \/ at'[r].pc \notin {"start", "upload"} \ {at[r].pc}
             \/ at'[r].pc = "start" /\ \E i \in Inputs, l \in Layers : StartOpen(r, i, l)
             \/ at'[r].pc = "upload" /\ \E i \in Inputs : UploadOpen(r, i)
  <2>1. ASSUME NEW i \in Inputs, UploadOpen(q, i)
        PROVE  IF q = r THEN at'[r].pc = "upload" ELSE at'[r] = at[r]
    BY <2>1 DEF UploadOpen
  <2>2. ASSUME NEW i \in Inputs, NEW l \in Layers, StartOpen(q, i, l)
        PROVE  IF q = r THEN at'[r].pc = "start" ELSE at'[r] = at[r]
    BY <2>2 DEF StartOpen
  <2>3. ASSUME NEW i \in Inputs, RemoveOpen(q, i) \/ SaveOpen(q, i)
        PROVE  at'[r].pc \in {at[r].pc, "files", "copy"}
    BY <2>3 DEF RemoveOpen, SaveOpen
  <2>4. ASSUME NEW l \in Layers, DeleteGuard(q, l) PROVE at'[r].pc \in {at[r].pc, "unlink"}
    BY <2>4 DEF DeleteGuard
  <2> QED BY <1>3, <2>1, <2>2, <2>3, <2>4 DEF Request
<1>4. ASSUME NEW q \in Requests, RequestStep(q)
      PROVE  at'[r].pc \notin {"start", "upload"} \ {at[r].pc}
  BY <1>4 DEF RequestStep, UploadCommit, UploadFails, StartCommit, Enqueue, EnqueueRaises,
              Undo, RemoveFiles, RemoveFails, RemoveRows, SaveCopy, SaveInsert, DeleteUnlink,
              DeleteRow
<1>5. ASSUME NEW w \in Workers, TaskStep(w) \/ \E i \in Inputs : Deliver(w, i)
      PROVE  at'[r] = at[r]
  BY <1>5 DEF TaskStep, Deliver, Claim, Load, Export, TaskRaises, Finish, TaskFails
<1>6. ASSUME SweepOpen \/ SweepStep PROVE at'[r] = at[r]
  BY <1>6 DEF SweepOpen, SweepStep, SweepList, SweepOrphans, SweepJob, SweepUpload,
              RemoveFiles, RemoveFails, RemoveRows
<1>7. ASSUME NEW p \in Procs, Crash(p) PROVE at'[r] \in {at[r], Idle}
  BY <1>7 DEF Crash
<1>8. \/ at'[r].pc \notin {"start", "upload"} \ {at[r].pc}
      \/ at'[r].pc = "start" /\ \E i \in Inputs, l \in Layers : StartOpen(r, i, l)
      \/ at'[r].pc = "upload" /\ \E i \in Inputs : UploadOpen(r, i)
  <2> HIDE DEF Inv, Go, Work, End, EndTask, Return
  <2> QED BY <1>1, <1>2, <1>3, <1>4, <1>5, <1>6, <1>7 DEF Next
<1> HIDE DEF Inv
<1> QED BY <1>8

(* Cardinalities of a subset, and of a set with one more element.          *)
LEMMA FewerOrOneMore ==
    ASSUME NEW S, IsFiniteSet(S), NEW T
    PROVE  /\ T \subseteq S => IsFiniteSet(T) /\ Cardinality(T) <= Cardinality(S)
           /\ \A x : T \subseteq S \cup {x} =>
                  IsFiniteSet(T) /\ Cardinality(T) <= Cardinality(S) + 1
<1>1. Cardinality(S) \in Nat
  BY FS_CardinalityType
<1>2. ASSUME T \subseteq S PROVE IsFiniteSet(T) /\ Cardinality(T) <= Cardinality(S)
  BY <1>2, FS_Subset
<1>3. ASSUME NEW x, T \subseteq S \cup {x}
      PROVE  IsFiniteSet(T) /\ Cardinality(T) <= Cardinality(S) + 1
  <2>1. IsFiniteSet(S \cup {x}) /\ Cardinality(S \cup {x}) <= Cardinality(S) + 1
    BY <1>1, FS_AddElement
  <2>2. Cardinality(S \cup {x}) \in Nat /\ Cardinality(T) \in Nat
    BY <1>3, <2>1, FS_Subset, FS_CardinalityType
  <2> QED BY <1>1, <1>3, <2>1, <2>2, FS_Subset
<1> QED BY <1>2, <1>3

(* Admission leaves room, and nobody else is admitted before its commit.   *)
LEMMA LimitsStep == ASSUME Inv, Limits, Next PROVE Limits'
<1> USE ConstantsAssumption
<1>1. /\ IsFiniteSet(ActiveJobs)' 
      /\ Cardinality(ActiveJobs)' <= MaxActive
      /\ \A r \in Requests : At(r, "start")' => Cardinality(ActiveJobs)' < MaxActive
  <2>0. Cardinality(ActiveJobs) \in Nat /\ IsFiniteSet(ActiveJobs)
    BY FS_CardinalityType DEF Limits
  <2>1. CASE ActiveJobs' \subseteq ActiveJobs
    <3>1. IsFiniteSet(ActiveJobs') /\ Cardinality(ActiveJobs') <= Cardinality(ActiveJobs)
      BY <2>0, <2>1, FewerOrOneMore
    <3>2. Cardinality(ActiveJobs') \in Nat
      BY <3>1, FS_CardinalityType
    <3>3. ASSUME NEW r \in Requests, At(r, "start")' PROVE Cardinality(ActiveJobs) < MaxActive
      BY <3>3, AdmissionOpens DEF Limits, StartOpen
    <3> QED BY <2>0, <3>1, <3>2, <3>3 DEF Limits, WithinLimits
  <2>2. ASSUME NEW r \in Requests, StartCommit(r) 
        PROVE  /\ IsFiniteSet(ActiveJobs)' 
               /\ Cardinality(ActiveJobs)' <= MaxActive
               /\ \A q \in Requests : ~At(q, "start")'
    <3>1. ActiveJobs' \subseteq ActiveJobs \cup {at[r].input}
      BY <2>2 DEF StartCommit, ActiveJobs, Inv, TypeOK
    <3>2. IsFiniteSet(ActiveJobs') /\ Cardinality(ActiveJobs') <= Cardinality(ActiveJobs) + 1
      BY <2>0, <3>1, FewerOrOneMore
    <3>3. Cardinality(ActiveJobs') \in Nat
      BY <3>2, FS_CardinalityType
    <3>4. At(r, "start") /\ Cardinality(ActiveJobs) < MaxActive
      BY <2>2 DEF StartCommit, Limits
    <3>5. ASSUME NEW q \in Requests PROVE ~At(q, "start")'
      <4>1. ~At(q, "start") \/ q = r
        BY <3>4 DEF Inv, CapacityIsHeld, Procs, At
      <4> QED BY <2>2, <4>1 DEF StartCommit, Go, At, Inv, TypeOK, Procs, Place
    <3> QED BY <2>0, <3>2, <3>3, <3>4, <3>5
  <2> QED BY <2>1, <2>2, ActiveJobsGrow
<1>2. /\ IsFiniteSet(Stored)' 
      /\ Cardinality(Stored)' <= MaxStored
      /\ \A r \in Requests : At(r, "upload")' => Cardinality(Stored)' < MaxStored
  <2>0. Cardinality(Stored) \in Nat /\ IsFiniteSet(Stored)
    BY FS_CardinalityType DEF Limits
  <2>1. CASE Stored' \subseteq Stored
    <3>1. IsFiniteSet(Stored') /\ Cardinality(Stored') <= Cardinality(Stored)
      BY <2>0, <2>1, FewerOrOneMore
    <3>2. Cardinality(Stored') \in Nat
      BY <3>1, FS_CardinalityType
    <3>3. ASSUME NEW r \in Requests, At(r, "upload")' PROVE Cardinality(Stored) < MaxStored
      BY <3>3, AdmissionOpens DEF Limits, UploadOpen
    <3> QED BY <2>0, <3>1, <3>2, <3>3 DEF Limits, WithinLimits
  <2>2. ASSUME NEW r \in Requests, UploadCommit(r) 
        PROVE  /\ IsFiniteSet(Stored)' 
               /\ Cardinality(Stored)' <= MaxStored
               /\ \A q \in Requests : ~At(q, "upload")'
    <3>1. Stored' \subseteq Stored \cup {at[r].input}
      BY <2>2 DEF UploadCommit, Stored, Inv, TypeOK
    <3>2. IsFiniteSet(Stored') /\ Cardinality(Stored') <= Cardinality(Stored) + 1
      BY <2>0, <3>1, FewerOrOneMore
    <3>3. Cardinality(Stored') \in Nat
      BY <3>2, FS_CardinalityType
    <3>4. At(r, "upload") /\ Cardinality(Stored) < MaxStored
      BY <2>2 DEF UploadCommit, Limits
    <3>5. ASSUME NEW q \in Requests PROVE ~At(q, "upload")'
      <4>1. ~At(q, "upload") \/ q = r
        BY <3>4 DEF Inv, CapacityIsHeld, Procs, At
      <4> QED BY <2>2, <4>1 DEF UploadCommit, End, Idle, At, Inv, TypeOK, Procs
    <3> QED BY <2>0, <3>2, <3>3, <3>4, <3>5
  <2> QED BY <2>1, <2>2, StoredGrows
<1> QED BY <1>1, <1>2 DEF Limits, WithinLimits

-----------------------------------------------------------------------------
(* What a step never does.                                                 *)

LEMMA StepKeepsInputs ==
    ASSUME Inv, Next, NEW i \in ActiveJobs
    PROVE  i \in Stored' /\ (i \in dir => i \in dir')
<1> USE ConstantsAssumption DEF Inv, TypeOK, Place, At, JobsHaveInputs, Stored, ActiveJobs,
                                inputVars
<1>1. ASSUME NEW j \in Inputs, Expire(j) \/ RunLate(j) PROVE upload' = upload /\ dir' = dir
  BY <1>1 DEF Expire, RunLate
<1>2. ASSUME NEW l \in Layers, Configure(l) \/ RemoveReference(l)
      PROVE  upload' = upload /\ dir' = dir
  BY <1>2 DEF Configure, RemoveReference
<1>3. ASSUME NEW r \in Requests, Request(r) PROVE i \in Stored' /\ dir \subseteq dir'
  <2>1. ASSUME NEW j \in Inputs, UploadOpen(r, j) PROVE i \in Stored' /\ dir \subseteq dir'
    BY <2>1 DEF UploadOpen
  <2>2. ASSUME NEW j \in Inputs, RemoveOpen(r, j) \/ SaveOpen(r, j)
        PROVE  upload' = upload /\ dir' = dir
    BY <2>2 DEF RemoveOpen, SaveOpen
  <2>3. ASSUME NEW j \in Inputs, NEW l \in Layers, StartOpen(r, j, l) \/ DeleteGuard(r, l)
        PROVE  upload' = upload /\ dir' = dir
    BY <2>3 DEF StartOpen, DeleteGuard
  <2>4. ASSUME NEW l \in Layers, DeleteGuard(r, l) PROVE upload' = upload /\ dir' = dir
    BY <2>4 DEF DeleteGuard
  <2> QED BY <1>3, <2>1, <2>2, <2>3, <2>4 DEF Request
<1>4. ASSUME NEW p \in Requests \cup {Sweeper}, RemoveFiles(p) \/ RemoveFails(p) \/ RemoveRows(p)
      PROVE  i \in Stored' /\ (i \in dir => i \in dir')
  BY <1>4 DEF RemoveFiles, RemoveFails, RemoveRows, Admitted, Procs
<1>5. ASSUME NEW r \in Requests, UploadCommit(r) \/ UploadFails(r)
      PROVE  i \in Stored' /\ (i \in dir => i \in dir')
  BY <1>5 DEF UploadCommit, UploadFails, Admitted
<1>6. ASSUME NEW r \in Requests,
             StartCommit(r) \/ Enqueue(r) \/ EnqueueRaises(r) \/ Undo(r) \/ SaveCopy(r)
                 \/ SaveInsert(r) \/ DeleteUnlink(r) \/ DeleteRow(r)
      PROVE  upload' = upload /\ dir' = dir
  BY <1>6 DEF StartCommit, Enqueue, EnqueueRaises, Undo, SaveCopy, SaveInsert, DeleteUnlink,
              DeleteRow
<1>7. ASSUME NEW w \in Workers, TaskStep(w) \/ \E j \in Inputs : Deliver(w, j)
      PROVE  upload' = upload /\ dir' = dir
  BY <1>7 DEF TaskStep, Deliver, Claim, Load, Export, TaskRaises, Finish, TaskFails
<1>8. ASSUME SweepOpen \/ SweepList \/ SweepOrphans
                 \/ \E j \in Inputs : SweepJob(j) \/ SweepUpload(j)
      PROVE  upload' = upload /\ (i \in dir => i \in dir')
  BY <1>8 DEF SweepOpen, SweepList, SweepOrphans, SweepJob, SweepUpload
<1>9. ASSUME NEW p \in Procs, Crash(p) PROVE i \in Stored' /\ dir' = dir
  BY <1>9 DEF Crash, Admitted, Procs, RequestPc, WorkerPc, SweeperPc
<1>10. i \in Stored
  OBVIOUS
<1> HIDE DEF Inv
<1> QED BY <1>1, <1>2, <1>3, <1>4, <1>5, <1>6, <1>7, <1>8, <1>9, <1>10 DEF Next, RequestStep,
            SweepStep

LEMMA StepSettlesOnce ==
    ASSUME Inv, Next, NEW i \in Inputs, job[i] \in {"done", "failed"}
    PROVE  job'[i] \in {job[i], "none"}
<1> USE ConstantsAssumption
    DEF Inv, TypeOK, At, JobsHaveInputs, Active, ActiveJobs, Settle, SettleFailed, KeepJob,
        jobVars
<1>1. ASSUME NEW j \in Inputs, Expire(j) \/ RunLate(j) PROVE job' = job
  BY <1>1 DEF Expire, RunLate
<1>2. ASSUME NEW l \in Layers, Configure(l) \/ RemoveReference(l) PROVE job' = job
  BY <1>2 DEF Configure, RemoveReference
<1>3. ASSUME NEW r \in Requests, Request(r) PROVE job' = job
  BY <1>3 DEF Request, UploadOpen, RemoveOpen, SaveOpen, StartOpen, DeleteGuard
<1>4. ASSUME NEW r \in Requests, RequestStep(r) PROVE job'[i] \in {job[i], "none"}
  BY <1>4 DEF RequestStep, UploadCommit, UploadFails, StartCommit, Admitted, Enqueue,
              EnqueueRaises, Undo, RemoveFiles, RemoveFails, RemoveRows, SaveCopy, SaveInsert,
              DeleteUnlink, DeleteRow
<1>5. ASSUME NEW w \in Workers, TaskStep(w) \/ \E j \in Inputs : Deliver(w, j)
      PROVE  job'[i] = job[i]
  BY <1>5 DEF TaskStep, Deliver, Claim, Load, Export, TaskRaises, Finish, TaskFails
<1>6. ASSUME SweepOpen \/ SweepStep PROVE job'[i] \in {job[i], "none"}
  BY <1>6 DEF SweepOpen, SweepStep, SweepList, SweepOrphans, SweepJob, SweepUpload,
              RemoveFiles, RemoveFails, RemoveRows
<1>7. ASSUME NEW p \in Procs, Crash(p) PROVE job' = job
  BY <1>7 DEF Crash
<1> HIDE DEF Inv
<1> QED BY <1>1, <1>2, <1>3, <1>4, <1>5, <1>6, <1>7 DEF Next

-----------------------------------------------------------------------------
(***************************************************************************)
(* Every reachable state is well typed (the whole module).                 *)
(***************************************************************************)
THEOREM TypeCorrectness == Spec => []TypeOK
<1>1. Init => Inv
  BY InitInv
<1>2. Inv /\ [Next]_vars => Inv'
  BY StepInv
<1>3. Inv => TypeOK
  BY DEF Inv
<1> QED BY <1>1, <1>2, <1>3, PTL DEF Spec

(***************************************************************************)
(* A source is pinned exactly while its job is active, and a pinned layer  *)
(* exists (start, finish, fail, cleanup and the deletion of layers).       *)
(***************************************************************************)
THEOREM ActiveArePinned == Spec => []ActiveIsPinned
<1>1. Init => Inv
  BY InitInv
<1>2. Inv /\ [Next]_vars => Inv'
  BY StepInv
<1>3. Inv => ActiveIsPinned
  BY DEF Inv
<1> QED BY <1>1, <1>2, <1>3, PTL DEF Spec

(***************************************************************************)
(* A job that is done has its results while its directory exists (execute, *)
(* remove_upload).                                                         *)
(***************************************************************************)
THEOREM DoneHaveResults == Spec => []DoneHasResults
<1>1. Init => Inv
  BY InitInv
<1>2. Inv /\ [Next]_vars => Inv'
  BY StepInv
<1>3. Inv => DoneHasResults
  BY DEF Inv
<1> QED BY <1>1, <1>2, <1>3, PTL DEF Spec

(***************************************************************************)
(* The limits on stored inputs and active jobs hold (upload, start), with  *)
(* any number of requests, although cleanup loses the capacity lock.       *)
(***************************************************************************)
THEOREM LimitsHold == Spec => []WithinLimits
<1>1. Init => Inv /\ Limits
  BY InitInv
<1>2. Inv /\ Limits /\ [Next]_vars => (Inv /\ Limits)'
  <2>1. ASSUME Inv, Limits, UNCHANGED vars PROVE Limits'
    BY <2>1 DEF Limits, WithinLimits, vars, inputVars, jobVars, savedVars, locks, ActiveJobs,
                Active, Stored, At
  <2> QED BY <2>1, StepInv, LimitsStep
<1>3. Limits => WithinLimits
  BY DEF Limits
<1> QED BY <1>1, <1>2, <1>3, PTL DEF Spec

(***************************************************************************)
(* No step takes the input or the files of an active job (remove_upload,   *)
(* cleanup).                                                               *)
(***************************************************************************)
THEOREM InputsAreKept == Spec => InputIsKept
<1>1. Init => Inv
  BY InitInv
<1>2. Inv /\ [Next]_vars => Inv'
  BY StepInv
<1>3. Inv /\ [Next]_vars => [\A i \in ActiveJobs : i \in Stored' /\ (i \in dir => i \in dir')]_vars
  BY StepKeepsInputs
<1> QED BY <1>1, <1>2, <1>3, PTL DEF Spec, InputIsKept

(***************************************************************************)
(* A job that is done or failed changes no more until it is removed        *)
(* (finish, fail, execute, cleanup).                                       *)
(***************************************************************************)
THEOREM JobsSettleOnce == Spec => SettlesOnce
<1>1. Init => Inv
  BY InitInv
<1>2. Inv /\ [Next]_vars => Inv'
  BY StepInv
<1>3. Inv /\ [Next]_vars =>
          [\A i \in Inputs : job[i] \in {"done", "failed"} => job'[i] \in {job[i], "none"}]_vars
  BY StepSettlesOnce
<1> QED BY <1>1, <1>2, <1>3, PTL DEF Spec, SettlesOnce
=============================================================================
