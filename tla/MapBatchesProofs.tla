-------------------------- MODULE MapBatchesProofs --------------------------
(***************************************************************************)
(* Proofs about MapBatches for every number of datasets, requests, tasks,  *)
(* tokens and crashes, with transactions that interleave.                  *)
(***************************************************************************)
EXTENDS MapBatches, TLAPS

\* A task between choosing a dataset and saving its result has a dataset.
CurIsDataset ==
    \A w \in Workers :
        worker[w].pc \in {"progress", "render", "save", "failitem"} => worker[w].cur \in Datasets

Inv == TypeOK /\ CurIsDataset

-----------------------------------------------------------------------------
(* What the building blocks of the actions do to one variable.             *)

(* Changing the status of some datasets keeps the rows well-formed.        *)
LEMMA MarkedType ==
    ASSUME NEW rs \in [Datasets -> Item], NEW S, NEW s \in ItemStatus
    PROVE  Marked(rs, S, s) \in [Datasets -> Item]
BY DEF Marked, Item

(* Whichever way a saved batch reaches its row, the row is well-formed.    *)
LEMMA SaveBatchType ==
    ASSUME NEW p, NEW b \in Batch, batch \in Batch, snap[p] \in Snapshot, SaveBatch(p, b)
    PROVE  batch' \in Batch
BY DEF SaveBatch, Flushed, Batch, Snapshot

(* The dataset rows stay well-formed when an aggregate is saved.           *)
LEMMA SaveItemsType ==
    ASSUME NEW new \in [Datasets -> Item], items \in [Datasets -> Item], SaveItems(new)
    PROVE  items' \in [Datasets -> Item]
BY DEF SaveItems, Item

(* Opening a transaction keeps a copy of well-formed rows.                *)
LEMMA OpenSnap ==
    ASSUME Inv, NEW p \in Procs, Open(p)
    PROVE  snap' \in [Procs -> Snapshot \cup {None}]
<1>1. [batch |-> batch, items |-> items, group |-> IF Last(p) THEN group ELSE NoGroup,
       layers |-> IF Last(p) THEN layers ELSE {}] \in Snapshot
  BY DEF Inv, TypeOK, Snapshot, NoGroup, Group, GroupStatus
<1> QED BY <1>1 DEF Inv, TypeOK, Open

(* Closing one forgets its copy.                                           *)
LEMMA CloseSnap ==
    ASSUME Inv, NEW p \in Procs, Close(p)
    PROVE  snap' \in [Procs -> Snapshot \cup {None}]
BY DEF Inv, TypeOK, Close

(* A request that moves on keeps its token and action.                     *)
LEMMA GoClientType ==
    ASSUME client \in [Clients -> Client], NEW c \in Clients, NEW pc \in ClientPc, GoClient(c, pc)
    PROVE  client' \in [Clients -> Client]
BY DEF GoClient, Client

LEMMA EndClientType ==
    ASSUME client \in [Clients -> Client], NEW c \in Clients, EndClient(c)
    PROVE  client' \in [Clients -> Client]
BY ConstantsAssumption DEF EndClient, Client, IdleClient, ClientPc, Actions

(* A task that moves on keeps its dataset.                                 *)
LEMMA GoWorkerType ==
    ASSUME Inv, NEW w \in Workers, NEW pc \in WorkerPc, GoWorker(w, pc),
           pc \in {"progress", "render", "save", "failitem"} => worker[w].cur \in Datasets
    PROVE  worker' \in [Workers -> Worker] /\ CurIsDataset'
BY DEF Inv, TypeOK, GoWorker, Worker, CurIsDataset

LEMMA EndTaskType ==
    ASSUME Inv, NEW w \in Workers, EndTask(w)
    PROVE  worker' \in [Workers -> Worker] /\ CurIsDataset' /\ queue' \in SUBSET Message
BY ConstantsAssumption
DEF Inv, TypeOK, EndTask, IdleWorker, Worker, WorkerPc, Actions, CurIsDataset

(* A task's transaction opens, or its task ends: no row changes.           *)
LEMMA OpenOrEndInv ==
    ASSUME Inv, NEW w \in Workers, NEW ok, NEW pc \in WorkerPc, OpenOrEnd(w, ok, pc),
           pc \in {"progress", "render", "save", "failitem"} => worker[w].cur \in Datasets
    PROVE  Inv'
<1>0. w \in Procs
  BY DEF Procs
<1>1. CASE ok
  <2>1. Open(w) /\ GoWorker(w, pc) /\ UNCHANGED queue
    BY <1>1 DEF OpenOrEnd
  <2>2. UNCHANGED <<rows, issued, client, crashes, crossed>>
    BY DEF OpenOrEnd
  <2>3. snap' \in [Procs -> Snapshot \cup {None}]
    BY <1>0, <2>1, <2>2, OpenSnap DEF rows
  <2>4. worker' \in [Workers -> Worker] /\ CurIsDataset'
    BY <2>1, GoWorkerType
  <2> QED BY <2>1, <2>2, <2>3, <2>4 DEF Inv, TypeOK, rows
<1>2. CASE ~ok
  <2>1. EndTask(w) /\ UNCHANGED snap
    BY <1>2 DEF OpenOrEnd
  <2>2. UNCHANGED <<rows, issued, client, crashes, crossed>>
    BY DEF OpenOrEnd
  <2>3. worker' \in [Workers -> Worker] /\ CurIsDataset' /\ queue' \in SUBSET Message
    BY <2>1, EndTaskType
  <2> QED BY <2>1, <2>2, <2>3 DEF Inv, TypeOK, rows
<1> QED BY <1>1, <1>2

(* A transaction commits: what is left to show is about what it wrote.     *)
LEMMA CommitInv ==
    ASSUME Inv, NEW p \in Procs, NEW b \in Batch, InTxn(p), SaveBatch(p, b), Commit(p),
           items' \in [Datasets -> Item], layers' \subseteq Datasets, group' \in Group,
           queue' \in SUBSET Message, client' \in [Clients -> Client],
           worker' \in [Workers -> Worker], CurIsDataset',
           UNCHANGED <<issued, crashes>>
    PROVE  Inv'
<1>1. snap[p] \in Snapshot
  BY DEF Inv, TypeOK, InTxn
<1>2. batch' \in Batch
  BY <1>1, SaveBatchType DEF Inv, TypeOK
<1>3. snap' \in [Procs -> Snapshot \cup {None}]
  BY CloseSnap DEF Commit
<1>4. crossed' \in BOOLEAN
  BY DEF Commit
<1> QED BY <1>2, <1>3, <1>4 DEF Inv, TypeOK

(* A transaction that writes items it has read, some with another status.  *)
LEMMA SaveMarked ==
    ASSUME Inv, NEW p \in Procs, InTxn(p), NEW S, NEW s \in ItemStatus,
           SaveItems(Marked(snap[p].items, S, s))
    PROVE  items' \in [Datasets -> Item]
<1>1. snap[p].items \in [Datasets -> Item]
  BY DEF Inv, TypeOK, InTxn, Snapshot
<1>2. Marked(snap[p].items, S, s) \in [Datasets -> Item]
  BY <1>1, MarkedType
<1> QED BY <1>2, SaveItemsType DEF Inv, TypeOK

(* A transaction that writes the items as it has read them.                *)
LEMMA SaveUnmarked ==
    ASSUME Inv, NEW p \in Procs, InTxn(p), SaveItems(snap[p].items)
    PROVE  items' \in [Datasets -> Item]
<1>1. snap[p].items \in [Datasets -> Item]
  BY DEF Inv, TypeOK, InTxn, Snapshot
<1> QED BY <1>1, SaveItemsType DEF Inv, TypeOK

(* What an aggregate that was read, with another status, is.               *)
LEMMA SnapBatch ==
    ASSUME Inv, NEW p \in Procs, InTxn(p), NEW s \in BatchStatus
    PROVE  /\ snap[p].batch \in Batch
           /\ [snap[p].batch EXCEPT !.status = s] \in Batch
           /\ snap[p].group \in Group
<1>1. snap[p].batch \in Batch /\ snap[p].group \in Group
  BY DEF Inv, TypeOK, InTxn, Snapshot
<1> QED BY <1>1 DEF Batch

LEMMA AttemptType ==
    ASSUME Inv, NEW c \in Clients, NEW s \in BatchStatus, NEW g \in BOOLEAN
    PROVE  Attempt(c, s, g) \in Batch
BY DEF Inv, TypeOK, Client, Attempt, Batch

-----------------------------------------------------------------------------
(* Requests preserve the invariant, action by action.                      *)

LEMMA OpenAttemptInv ==
    ASSUME Inv, NEW c \in Clients, NEW pc \in ClientPc, NEW action \in Actions,
           OpenAttempt(c, pc, action)
    PROVE  Inv'
<1>1. issued + 1 \in 0 .. MaxTokens
  BY ConstantsAssumption DEF Inv, TypeOK, OpenAttempt
<1>2. client' \in [Clients -> Client]
  BY <1>1 DEF Inv, TypeOK, OpenAttempt, Client
<1>3. snap' \in [Procs -> Snapshot \cup {None}]
  BY OpenSnap DEF OpenAttempt, rows, Procs
<1> QED BY <1>1, <1>2, <1>3 DEF OpenAttempt, Inv, TypeOK, CurIsDataset, rows

LEMMA InspectCommitInv ==
    ASSUME Inv, NEW c \in Clients, InspectCommit(c)
    PROVE  Inv'
<1>1. Attempt(c, "inspecting", FALSE) \in Batch
  BY AttemptType DEF BatchStatus
<1>2. client' \in [Clients -> Client]
  BY GoClientType DEF InspectCommit, Inv, TypeOK, ClientPc
<1>3. /\ c \in Procs /\ InTxn(c) /\ Commit(c)
      /\ SaveBatch(c, Attempt(c, "inspecting", FALSE))
      /\ UNCHANGED <<items, group, layers, queue, issued, worker, crashes>>
  BY DEF InspectCommit, Procs
<1> QED BY <1>1, <1>2, <1>3, CommitInv DEF Inv, TypeOK, CurIsDataset

LEMMA ConfigureCommitInv ==
    ASSUME Inv, NEW c \in Clients, ConfigureCommit(c)
    PROVE  Inv'
<1>1. PICK S \in (SUBSET Datasets) \ {{}}, g \in BOOLEAN :
          /\ SaveBatch(c, Attempt(c, "pending", g \/ snap[c].batch.grouped))
          /\ SaveItems([d \in Datasets |-> IF d \in S
                                           THEN [selected |-> TRUE, status |-> "pending"]
                                           ELSE snap[c].items[d]])
          /\ group' = IF g THEN [status |-> "draft", members |-> S] ELSE group
  BY DEF ConfigureCommit
<1> DEFINE new == [d \in Datasets |-> IF d \in S THEN [selected |-> TRUE, status |-> "pending"]
                                                 ELSE snap[c].items[d]]
<1>2. c \in Procs /\ InTxn(c) /\ Commit(c) /\ UNCHANGED <<layers, queue, issued, worker, crashes>>
  BY DEF ConfigureCommit, Procs
<1>3. snap[c].items \in [Datasets -> Item] /\ snap[c].batch.grouped \in BOOLEAN
  BY <1>2 DEF Inv, TypeOK, InTxn, Snapshot, Batch
<1>4. Attempt(c, "pending", g \/ snap[c].batch.grouped) \in Batch
  BY <1>3, AttemptType DEF BatchStatus
<1>5. new \in [Datasets -> Item]
  BY <1>3 DEF Item, ItemStatus
<1>7. SaveItems(new)
  BY <1>1
<1>8. items' \in [Datasets -> Item]
  BY <1>5, <1>7, SaveItemsType DEF Inv, TypeOK
<1>9. group' \in Group
  BY <1>1 DEF Inv, TypeOK, Group, GroupStatus
<1>10. client' \in [Clients -> Client]
  BY GoClientType DEF ConfigureCommit, Inv, TypeOK, ClientPc
<1> QED BY <1>1, <1>2, <1>4, <1>8, <1>9, <1>10, CommitInv DEF Inv, TypeOK, CurIsDataset

LEMMA CancelCommitInv ==
    ASSUME Inv, NEW c \in Clients, CancelCommit(c)
    PROVE  Inv'
<1>1. c \in Procs /\ InTxn(c) /\ Commit(c) /\ UNCHANGED <<group, layers, queue, issued, worker, crashes>>
  BY DEF CancelCommit, Procs
<1>2. [snap[c].batch EXCEPT !.status = "cancelled"] \in Batch
  BY <1>1, SnapBatch DEF BatchStatus
<1>3. items' \in [Datasets -> Item]
  BY <1>1, SaveMarked DEF CancelCommit, ItemStatus
<1>4. client' \in [Clients -> Client]
  BY EndClientType DEF CancelCommit, Inv, TypeOK
<1>5. SaveBatch(c, [snap[c].batch EXCEPT !.status = "cancelled"])
  BY DEF CancelCommit
<1> QED BY <1>1, <1>2, <1>3, <1>4, <1>5, CommitInv DEF Inv, TypeOK, CurIsDataset

LEMMA RetryCommitInv ==
    ASSUME Inv, NEW c \in Clients, RetryCommit(c)
    PROVE  Inv'
<1> DEFINE s == IF client[c].action = "inspect" THEN "inspecting" ELSE "pending"
<1>1. c \in Procs /\ InTxn(c) /\ Commit(c) /\ UNCHANGED <<group, layers, queue, issued, worker, crashes>>
  BY DEF RetryCommit, Procs
<1>2. snap[c].batch.grouped \in BOOLEAN
  BY <1>1 DEF Inv, TypeOK, InTxn, Snapshot, Batch
<1>3. Attempt(c, s, snap[c].batch.grouped) \in Batch
  BY <1>2, AttemptType DEF BatchStatus
<1>4. items' \in [Datasets -> Item]
  BY <1>1, SaveMarked DEF RetryCommit, ItemStatus
<1>5. client' \in [Clients -> Client]
  BY GoClientType DEF RetryCommit, Inv, TypeOK, ClientPc
<1>6. SaveBatch(c, Attempt(c, s, snap[c].batch.grouped))
  BY DEF RetryCommit
<1> QED BY <1>1, <1>3, <1>4, <1>5, <1>6, CommitInv DEF Inv, TypeOK, CurIsDataset

LEMMA UndoCommitInv ==
    ASSUME Inv, NEW c \in Clients, UndoCommit(c)
    PROVE  Inv'
<1> DEFINE s == IF client[c].action = "inspect" THEN "inspection_failed" ELSE "failed"
<1>1. c \in Procs /\ InTxn(c) /\ Commit(c) /\ UNCHANGED <<group, layers, queue, issued, worker, crashes>>
  BY DEF UndoCommit, Procs
<1>2. [snap[c].batch EXCEPT !.status = s] \in Batch
  BY <1>1, SnapBatch DEF BatchStatus
<1>3. items' \in [Datasets -> Item]
  BY <1>1, SaveUnmarked DEF UndoCommit
<1>4. client' \in [Clients -> Client]
  BY EndClientType DEF UndoCommit, Inv, TypeOK
<1>5. SaveBatch(c, [snap[c].batch EXCEPT !.status = s])
  BY DEF UndoCommit
<1> QED BY <1>1, <1>2, <1>3, <1>4, <1>5, CommitInv DEF Inv, TypeOK, CurIsDataset

(* Opening a transaction moves only the request and its copy.              *)
LEMMA CancelOpenInv ==
    ASSUME Inv, NEW c \in Clients, CancelOpen(c)
    PROVE  Inv'
<1>1. client' \in [Clients -> Client]
  BY GoClientType DEF CancelOpen, Inv, TypeOK, ClientPc
<1>2. snap' \in [Procs -> Snapshot \cup {None}]
  BY OpenSnap DEF CancelOpen, rows, Procs
<1> QED BY <1>1, <1>2 DEF CancelOpen, Inv, TypeOK, CurIsDataset, rows

LEMMA UndoOpenInv ==
    ASSUME Inv, NEW c \in Clients, UndoOpen(c)
    PROVE  Inv'
<1>1. UNCHANGED <<rows, queue, issued, worker, crashes, crossed>>
  BY DEF UndoOpen
<1>2. CASE Open(c) /\ UNCHANGED client
  <2>1. snap' \in [Procs -> Snapshot \cup {None}]
    BY <1>1, <1>2, OpenSnap DEF rows, Procs
  <2> QED BY <1>1, <1>2, <2>1 DEF Inv, TypeOK, CurIsDataset, rows
<1>3. CASE EndClient(c) /\ UNCHANGED snap
  <2>1. client' \in [Clients -> Client]
    BY <1>3, EndClientType DEF Inv, TypeOK
  <2> QED BY <1>1, <1>3, <2>1 DEF Inv, TypeOK, CurIsDataset, rows
<1> QED BY <1>2, <1>3 DEF UndoOpen

LEMMA UniqueViolationInv ==
    ASSUME Inv, NEW c \in Clients, UniqueViolation(c)
    PROVE  Inv'
<1>1. client' \in [Clients -> Client]
  BY EndClientType DEF UniqueViolation, Inv, TypeOK
<1>2. snap' \in [Procs -> Snapshot \cup {None}]
  BY CloseSnap DEF UniqueViolation, rows, Procs
<1> QED BY <1>1, <1>2 DEF UniqueViolation, Inv, TypeOK, CurIsDataset, rows

(* A message carries the token and the action of the request.              *)
LEMMA DispatchInv ==
    ASSUME Inv, NEW c \in Clients, Dispatch(c) \/ DispatchRaises(c)
    PROVE  Inv'
<1>1. [token |-> client[c].token, action |-> client[c].action] \in Message
  BY DEF Inv, TypeOK, Client, Message
<1>2. queue' \in SUBSET Message
  BY <1>1 DEF Inv, TypeOK, Dispatch, DispatchRaises
<1>3. client' \in [Clients -> Client]
  BY GoClientType, EndClientType DEF Dispatch, DispatchRaises, Inv, TypeOK, ClientPc
<1> QED BY <1>2, <1>3
        DEF Dispatch, DispatchRaises, Inv, TypeOK, CurIsDataset, rows

LEMMA DeleteGroupInv ==
    ASSUME Inv, NEW c \in Clients, DeleteGroup(c)
    PROVE  Inv'
BY DEF DeleteGroup, Inv, TypeOK, NoGroup, Group, GroupStatus, CurIsDataset

LEMMA DeleteLayerInv ==
    ASSUME Inv, NEW c \in Clients, DeleteLayerOpen(c) \/ DeleteLayerCommit(c)
    PROVE  Inv'
<1>1. CASE DeleteLayerOpen(c)
  <2>1. PICK d \in layers : client' = [client EXCEPT ![c].pc = "drop", ![c].cur = d]
    BY <1>1 DEF DeleteLayerOpen
  <2>2. client' \in [Clients -> Client]
    BY <2>1 DEF Inv, TypeOK, Client, ClientPc
  <2> QED BY <1>1, <2>2 DEF DeleteLayerOpen, Inv, TypeOK, CurIsDataset, rows
<1>2. CASE DeleteLayerCommit(c)
  <2>1. client' \in [Clients -> Client]
    BY <1>2, EndClientType DEF DeleteLayerCommit, Inv, TypeOK
  <2> QED BY <1>2, <2>1 DEF DeleteLayerCommit, Inv, TypeOK, CurIsDataset
<1> QED BY <1>1, <1>2

LEMMA ClientCrashInv ==
    ASSUME Inv, NEW c \in Clients, ClientCrash(c)
    PROVE  Inv'
<1>1. client' \in [Clients -> Client]
  BY EndClientType DEF ClientCrash, Inv, TypeOK
<1>2. snap' \in [Procs -> Snapshot \cup {None}]
  BY CloseSnap DEF ClientCrash, rows, Procs
<1>3. crashes' \in 0 .. MaxCrashes
  BY ConstantsAssumption DEF ClientCrash, Inv, TypeOK
<1> QED BY <1>1, <1>2, <1>3 DEF ClientCrash, Inv, TypeOK, CurIsDataset, rows

-----------------------------------------------------------------------------
(* Tasks preserve the invariant, action by action.                         *)

LEMMA DeliverInv ==
    ASSUME Inv, NEW w \in Workers, Deliver(w)
    PROVE  Inv'
<1>1. PICK m \in queue :
          worker' = [worker EXCEPT ![w] = [pc |-> "start", token |-> m.token,
                                           action |-> m.action, todo |-> {}, cur |-> None]]
  BY DEF Deliver
<1>2. m.token \in 0 .. MaxTokens /\ m.action \in Actions
  BY DEF Inv, TypeOK, Message
<1>3. worker' \in [Workers -> Worker] /\ CurIsDataset'
  BY <1>1, <1>2 DEF Inv, TypeOK, Worker, WorkerPc, CurIsDataset
<1> QED BY <1>3 DEF Deliver, Inv, TypeOK, rows

(* The steps that read and then go on, or end the task.                    *)
LEMMA TaskOpenInv ==
    ASSUME Inv, NEW w \in Workers,
           \/ StartOpen(w) \/ InspectedOpen(w) \/ ProgressOpen(w) \/ RenderedOpen(w)
           \/ RenderRaisesOpen(w) \/ FailOpen(w)
    PROVE  Inv'
<1>1. CASE StartOpen(w)
  BY <1>1, OpenOrEndInv DEF StartOpen, WorkerPc
<1>2. CASE InspectedOpen(w)
  BY <1>2, OpenOrEndInv DEF InspectedOpen, WorkerPc
<1>3. CASE ProgressOpen(w)
  BY <1>3, OpenOrEndInv DEF ProgressOpen, WorkerPc, Inv, CurIsDataset
<1>4. CASE RenderedOpen(w)
  BY <1>4, OpenOrEndInv DEF RenderedOpen, WorkerPc, Inv, CurIsDataset
<1>5. CASE RenderRaisesOpen(w)
  BY <1>5, OpenOrEndInv DEF RenderRaisesOpen, WorkerPc, Inv, CurIsDataset
<1>6. CASE FailOpen(w)
  BY <1>6, OpenOrEndInv DEF FailOpen, WorkerPc
<1> QED BY <1>1, <1>2, <1>3, <1>4, <1>5, <1>6

LEMMA StartCommitInv ==
    ASSUME Inv, NEW w \in Workers, StartCommit(w)
    PROVE  Inv'
<1>1. w \in Procs /\ InTxn(w) /\ Commit(w) /\ UNCHANGED <<group, layers, queue, issued, client, crashes>>
  BY DEF StartCommit, Procs
<1>2. items' \in [Datasets -> Item]
  BY <1>1, SaveUnmarked DEF StartCommit
<1>3. CASE worker[w].action = "inspect"
  <2>1. SaveBatch(w, [snap[w].batch EXCEPT !.status = "inspecting_running"])
    BY <1>3 DEF StartCommit
  <2>2. [snap[w].batch EXCEPT !.status = "inspecting_running"] \in Batch
    BY <1>1, SnapBatch DEF BatchStatus
  <2>3. worker' \in [Workers -> Worker] /\ CurIsDataset'
    BY <1>3, GoWorkerType DEF StartCommit, WorkerPc
  <2> QED BY <1>1, <1>2, <2>1, <2>2, <2>3, CommitInv DEF Inv, TypeOK
<1>4. CASE worker[w].action # "inspect"
  <2>1. SaveBatch(w, [snap[w].batch EXCEPT !.status = "processing"])
    BY <1>4 DEF StartCommit
  <2>2. [snap[w].batch EXCEPT !.status = "processing"] \in Batch
    BY <1>1, SnapBatch DEF BatchStatus
  <2>3. worker' \in [Workers -> Worker] /\ CurIsDataset'
    BY <1>4 DEF StartCommit, WorkerPc, Inv, TypeOK, Worker, CurIsDataset, Unfinished
  <2> QED BY <1>1, <1>2, <2>1, <2>2, <2>3, CommitInv DEF Inv, TypeOK
<1> QED BY <1>3, <1>4

LEMMA InspectedCommitInv ==
    ASSUME Inv, NEW w \in Workers, InspectedCommit(w)
    PROVE  Inv'
<1> DEFINE new == [d \in Datasets |-> [selected |-> FALSE, status |-> "detected"]]
<1>1. w \in Procs /\ InTxn(w) /\ Commit(w) /\ UNCHANGED <<group, layers, issued, client, crashes>>
  BY DEF InspectedCommit, Procs
<1>2. [snap[w].batch EXCEPT !.status = "ready"] \in Batch
  BY <1>1, SnapBatch DEF BatchStatus
<1>3. new \in [Datasets -> Item]
  BY DEF Item, ItemStatus
<1>4. SaveItems(new) /\ SaveBatch(w, [snap[w].batch EXCEPT !.status = "ready"])
  BY DEF InspectedCommit
<1>5. items' \in [Datasets -> Item]
  <2> HIDE DEF new
  <2> QED BY <1>3, <1>4, SaveItemsType DEF Inv, TypeOK
<1>6. worker' \in [Workers -> Worker] /\ CurIsDataset' /\ queue' \in SUBSET Message
  BY EndTaskType DEF InspectedCommit
<1> QED BY <1>1, <1>2, <1>4, <1>5, <1>6, CommitInv DEF Inv, TypeOK

LEMMA InspectRaisesInv ==
    ASSUME Inv, NEW w \in Workers, InspectRaises(w)
    PROVE  Inv'
<1>1. worker' \in [Workers -> Worker] /\ CurIsDataset'
  BY GoWorkerType DEF InspectRaises, WorkerPc
<1> QED BY <1>1 DEF InspectRaises, Inv, TypeOK, rows

LEMMA NextItemInv ==
    ASSUME Inv, NEW w \in Workers, NextItem(w)
    PROVE  Inv'
<1>1. PICK d \in worker[w].todo :
          IF Wanted(w)
          THEN /\ Open(w)
               /\ worker' = [worker EXCEPT ![w].pc = "progress", ![w].cur = d,
                                           ![w].todo = @ \ {d}]
               /\ UNCHANGED queue
          ELSE EndTask(w) /\ UNCHANGED snap
  BY DEF NextItem
<1>2. UNCHANGED <<rows, issued, client, crashes, crossed>> /\ w \in Procs
  BY DEF NextItem, Procs
<1>3. CASE Wanted(w)
  <2>1. d \in Datasets
    BY DEF Inv, TypeOK, Worker
  <2>2. worker' \in [Workers -> Worker] /\ CurIsDataset'
    BY <1>1, <1>3, <2>1 DEF Inv, TypeOK, Worker, WorkerPc, CurIsDataset
  <2>3. snap' \in [Procs -> Snapshot \cup {None}]
    BY <1>1, <1>2, <1>3, OpenSnap DEF rows
  <2> QED BY <1>1, <1>2, <1>3, <2>2, <2>3 DEF Inv, TypeOK, rows
<1>4. CASE ~Wanted(w)
  <2>1. worker' \in [Workers -> Worker] /\ CurIsDataset' /\ queue' \in SUBSET Message
    BY <1>1, <1>4, EndTaskType
  <2> QED BY <1>1, <1>2, <1>4, <2>1 DEF Inv, TypeOK, rows
<1> QED BY <1>3, <1>4

LEMMA ProgressCommitInv ==
    ASSUME Inv, NEW w \in Workers, ProgressCommit(w)
    PROVE  Inv'
<1>1. w \in Procs /\ InTxn(w) /\ Commit(w) /\ UNCHANGED <<group, layers, queue, issued, client, crashes>>
  BY DEF ProgressCommit, Procs
<1>2. snap[w].batch \in Batch /\ SaveBatch(w, snap[w].batch)
  BY <1>1, SnapBatch DEF ProgressCommit, BatchStatus
<1>3. items' \in [Datasets -> Item]
  BY <1>1, SaveMarked DEF ProgressCommit, ItemStatus
<1>4. worker' \in [Workers -> Worker] /\ CurIsDataset'
  BY GoWorkerType DEF ProgressCommit, WorkerPc, Inv, CurIsDataset
<1> QED BY <1>1, <1>2, <1>3, <1>4, CommitInv DEF Inv, TypeOK

LEMMA RenderRaisesCommitInv ==
    ASSUME Inv, NEW w \in Workers, RenderRaisesCommit(w)
    PROVE  Inv'
<1>1. w \in Procs /\ InTxn(w) /\ Commit(w) /\ UNCHANGED <<group, layers, queue, issued, client, crashes>>
  BY DEF RenderRaisesCommit, Procs
<1>2. snap[w].batch \in Batch /\ SaveBatch(w, snap[w].batch)
  BY <1>1, SnapBatch DEF RenderRaisesCommit, BatchStatus
<1>3. items' \in [Datasets -> Item]
  BY <1>1, SaveMarked DEF RenderRaisesCommit, ItemStatus
<1>4. worker' \in [Workers -> Worker] /\ CurIsDataset'
  BY GoWorkerType DEF RenderRaisesCommit, WorkerPc, Inv, CurIsDataset
<1> QED BY <1>1, <1>2, <1>3, <1>4, CommitInv DEF Inv, TypeOK

(* The step that marks a dataset done also adds its layer.                 *)
LEMMA RenderedCommitInv ==
    ASSUME Inv, NEW w \in Workers, RenderedCommit(w)
    PROVE  Inv'
<1>1. w \in Procs /\ InTxn(w) /\ Commit(w) /\ UNCHANGED <<group, queue, issued, client, crashes>>
  BY DEF RenderedCommit, Procs
<1>2. snap[w].batch \in Batch /\ SaveBatch(w, snap[w].batch)
  BY <1>1, SnapBatch DEF RenderedCommit, BatchStatus
<1>3. worker[w].cur \in Datasets /\ layers' = layers \cup {worker[w].cur}
  BY DEF RenderedCommit, Inv, CurIsDataset
<1>4. layers' \subseteq Datasets
  BY <1>3 DEF Inv, TypeOK
<1>5. items' \in [Datasets -> Item]
  BY <1>1, SaveMarked DEF RenderedCommit, ItemStatus
<1>6. worker' \in [Workers -> Worker] /\ CurIsDataset'
  BY GoWorkerType DEF RenderedCommit, WorkerPc
<1> QED BY <1>1, <1>2, <1>4, <1>5, <1>6, CommitInv DEF Inv, TypeOK

LEMMA FinalOpenInv ==
    ASSUME Inv, NEW w \in Workers, FinalOpen(w)
    PROVE  Inv'
<1>1. CASE GoWorker(w, "fail") /\ UNCHANGED <<rows, queue, issued, client, snap, crashes, crossed>>
  <2>1. worker' \in [Workers -> Worker] /\ CurIsDataset'
    BY <1>1, GoWorkerType DEF WorkerPc
  <2> QED BY <1>1, <2>1 DEF Inv, TypeOK, rows
<1>2. CASE OpenOrEnd(w, Wanted(w), "final")
  BY <1>2, OpenOrEndInv DEF WorkerPc
<1> QED BY <1>1, <1>2 DEF FinalOpen

LEMMA FinalCommitInv ==
    ASSUME Inv, NEW w \in Workers, FinalCommit(w)
    PROVE  Inv'
<1> DEFINE s == snap[w]
           publishes == Complete(s) /\ s.batch.grouped
<1>1. PICK accepted \in BOOLEAN :
          LET published == accepted /\ s.group.members \subseteq s.layers IN
          /\ group' = IF ~publishes THEN group
                      ELSE [s.group EXCEPT !.status = IF published THEN "published"
                                                                   ELSE "failed"]
          /\ SaveBatch(w, [s.batch EXCEPT !.status =
                              IF Complete(s) /\ (publishes => published)
                              THEN "done" ELSE "failed"])
  BY DEF FinalCommit
<1> DEFINE outcome == IF Complete(s) /\ (publishes => accepted /\ s.group.members \subseteq s.layers)
                      THEN "done" ELSE "failed"
<1>2. w \in Procs /\ InTxn(w) /\ Commit(w) /\ UNCHANGED <<layers, issued, client, crashes>>
  BY DEF FinalCommit, Procs
<1>3. SaveBatch(w, [s.batch EXCEPT !.status = outcome])
  BY <1>1
<1>4. [s.batch EXCEPT !.status = outcome] \in Batch
  <2>1. outcome \in BatchStatus
    BY DEF BatchStatus
  <2> QED BY <1>2, <2>1, SnapBatch
<1>5. group' \in Group
  <2>1. s.group \in Group
    BY <1>2 DEF Inv, TypeOK, InTxn, Snapshot
  <2> QED BY <1>1, <2>1 DEF Inv, TypeOK, Group, GroupStatus
<1>6. items' \in [Datasets -> Item]
  BY <1>2, SaveUnmarked DEF FinalCommit
<1>7. worker' \in [Workers -> Worker] /\ CurIsDataset' /\ queue' \in SUBSET Message
  BY EndTaskType DEF FinalCommit
<1> QED
  <2> HIDE DEF outcome
  <2> QED BY <1>2, <1>3, <1>4, <1>5, <1>6, <1>7, CommitInv DEF Inv, TypeOK

LEMMA FinalAbortsInv ==
    ASSUME Inv, NEW w \in Workers, FinalAborts(w)
    PROVE  Inv'
<1>1. worker' \in [Workers -> Worker] /\ CurIsDataset'
  BY GoWorkerType DEF FinalAborts, WorkerPc
<1>2. snap' \in [Procs -> Snapshot \cup {None}]
  BY CloseSnap DEF FinalAborts, rows, Procs
<1> QED BY <1>1, <1>2 DEF FinalAborts, Inv, TypeOK, rows

LEMMA FailCommitInv ==
    ASSUME Inv, NEW w \in Workers, FailCommit(w)
    PROVE  Inv'
<1> DEFINE s == IF worker[w].action = "inspect" THEN "inspection_failed" ELSE "failed"
<1>1. w \in Procs /\ InTxn(w) /\ Commit(w) /\ UNCHANGED <<group, layers, issued, client, crashes>>
  BY DEF FailCommit, Procs
<1>2. [snap[w].batch EXCEPT !.status = s] \in Batch
  BY <1>1, SnapBatch DEF BatchStatus
<1>3. items' \in [Datasets -> Item]
  BY <1>1, SaveUnmarked DEF FailCommit
<1>4. worker' \in [Workers -> Worker] /\ CurIsDataset' /\ queue' \in SUBSET Message
  BY EndTaskType DEF FailCommit
<1>5. SaveBatch(w, [snap[w].batch EXCEPT !.status = s])
  BY DEF FailCommit
<1> QED BY <1>1, <1>2, <1>3, <1>4, <1>5, CommitInv DEF Inv, TypeOK

LEMMA WorkerCrashInv ==
    ASSUME Inv, NEW w \in Workers, WorkerCrash(w)
    PROVE  Inv'
<1>1. worker' \in [Workers -> Worker] /\ CurIsDataset'
  BY ConstantsAssumption
  DEF WorkerCrash, Inv, TypeOK, IdleWorker, Worker, WorkerPc, Actions, CurIsDataset
<1>2. snap' \in [Procs -> Snapshot \cup {None}]
  BY CloseSnap DEF WorkerCrash, rows, Procs
<1>3. crashes' \in 0 .. MaxCrashes
  BY ConstantsAssumption DEF WorkerCrash, Inv, TypeOK
<1> QED BY <1>1, <1>2, <1>3 DEF WorkerCrash, Inv, TypeOK, rows

-----------------------------------------------------------------------------
(* The invariant is inductive.                                             *)

LEMMA InitInv == Init => Inv
<1> SUFFICES ASSUME Init PROVE Inv
  OBVIOUS
<1>1. batch \in Batch /\ items \in [Datasets -> Item] /\ group \in Group
  BY ConstantsAssumption
  DEF Init, Batch, BatchStatus, Item, ItemStatus, NoGroup, Group, GroupStatus
<1>2. layers \in SUBSET Datasets /\ queue \in SUBSET Message /\ issued \in 0 .. MaxTokens
  BY ConstantsAssumption DEF Init
<1>3. client \in [Clients -> Client] /\ worker \in [Workers -> Worker] /\ CurIsDataset
  BY ConstantsAssumption
  DEF Init, Client, IdleClient, ClientPc, Worker, IdleWorker, WorkerPc, Actions, CurIsDataset
<1>4. snap \in [Procs -> Snapshot \cup {None}] /\ crashes \in 0 .. MaxCrashes
  BY ConstantsAssumption DEF Init
<1>5. crossed \in BOOLEAN
  BY DEF Init
<1> QED BY <1>1, <1>2, <1>3, <1>4, <1>5 DEF Inv, TypeOK

LEMMA NextInv == Inv /\ [Next]_vars => Inv'
<1> SUFFICES ASSUME Inv, [Next]_vars PROVE Inv'
  OBVIOUS
<1>1. ASSUME NEW c \in Clients, Request(c) PROVE Inv'
  <2>1. CASE InspectOpen(c)
    BY <2>1, OpenAttemptInv DEF InspectOpen, ClientPc, Actions
  <2>2. CASE ConfigureOpen(c)
    BY <2>2, OpenAttemptInv DEF ConfigureOpen, ClientPc, Actions
  <2>3. CASE RetryOpen(c)
    BY <2>3, OpenAttemptInv DEF RetryOpen, ClientPc, Actions
  <2> QED BY <1>1, <2>1, <2>2, <2>3, CancelOpenInv, DeleteGroupInv, DeleteLayerInv DEF Request
<1>2. ASSUME NEW c \in Clients, ClientStep(c) PROVE Inv'
  BY <1>2, InspectCommitInv, ConfigureCommitInv, UniqueViolationInv, CancelCommitInv,
     RetryCommitInv, DispatchInv, UndoOpenInv, UndoCommitInv, DeleteLayerInv DEF ClientStep
<1>3. ASSUME NEW w \in Workers, TaskStep(w) PROVE Inv'
  BY <1>3, TaskOpenInv, StartCommitInv, InspectedCommitInv, InspectRaisesInv, NextItemInv,
     ProgressCommitInv, RenderedCommitInv, RenderRaisesCommitInv, FinalOpenInv,
     FinalCommitInv, FinalAbortsInv, FailCommitInv DEF TaskStep
<1>4. CASE UNCHANGED vars
  BY <1>4 DEF vars, rows, Inv, TypeOK, CurIsDataset
<1> QED BY <1>1, <1>2, <1>3, <1>4, ClientCrashInv, WorkerCrashInv, DeliverInv DEF Next

LEMMA InvHolds == Spec => []Inv
BY InitInv, NextInv, PTL DEF Spec

(***************************************************************************)
(* Type correctness: whatever requests, tasks, redeliveries and crashes    *)
(* interleave, every row, message, process and snapshot is well-formed.    *)
(***************************************************************************)
THEOREM TypeCorrectness == Spec => []TypeOK
<1>1. Inv => TypeOK
  BY DEF Inv
<1> QED BY <1>1, InvHolds, PTL

-----------------------------------------------------------------------------
(* A task has opened its transaction with the token it still carries.      *)

SnapIsFenced ==
    \A w \in Workers : snap[w] # None =>
        worker[w].pc # "idle" /\ snap[w].batch.token = worker[w].token

FencedInv == Inv /\ SnapIsFenced

(* A commit that crosses nobody finds the rows as its transaction read them. *)
LEMMA CommitIsFresh ==
    ASSUME NEW p, Commit(p), ~crossed'
    PROVE  /\ ~crossed /\ Close(p)
           /\ snap[p].batch = batch /\ snap[p].items = items
           /\ p \in Workers /\ worker[p].pc = "final" => snap[p].group = group
BY DEF Commit, Overtaken

(* What was crossed stays so.                                              *)
LEMMA CrossedStays == [Next]_vars /\ crossed => crossed'
<1> SUFFICES ASSUME [Next]_vars, crossed PROVE crossed'
  OBVIOUS
<1>1. ASSUME NEW c \in Clients, Request(c) \/ ClientStep(c) \/ ClientCrash(c) PROVE crossed'
  BY <1>1 DEF Request, InspectOpen, ConfigureOpen, CancelOpen, RetryOpen, DeleteGroup, OpenAttempt,
     DeleteLayerOpen, DeleteLayerCommit, ClientStep, InspectCommit, ConfigureCommit, UniqueViolation,
     CancelCommit, RetryCommit, Dispatch, DispatchRaises, UndoOpen, UndoCommit, ClientCrash, Commit
<1>2. ASSUME NEW w \in Workers, Deliver(w) \/ TaskStep(w) \/ WorkerCrash(w) PROVE crossed'
  BY <1>2 DEF Deliver, WorkerCrash, TaskStep, StartOpen, StartCommit, InspectedOpen,
     InspectedCommit, InspectRaises, NextItem, ProgressOpen, ProgressCommit, RenderedOpen,
     RenderedCommit, RenderRaisesOpen, RenderRaisesCommit, FinalOpen, FinalCommit, FinalAborts,
     FailOpen, FailCommit, OpenOrEnd, Commit
<1>3. CASE UNCHANGED vars
  BY <1>3 DEF vars
<1> QED BY <1>1, <1>2, <1>3 DEF Next

(* What a step of a request does to the open transactions.                 *)
LEMMA ClientShape ==
    ASSUME Inv, NEW c \in Clients, Request(c) \/ ClientStep(c) \/ ClientCrash(c)
    PROVE  UNCHANGED worker /\ \A q \in Procs : q # c => snap'[q] = snap[q]
<1>0. snap \in [Procs -> Snapshot \cup {None}]
  BY DEF Inv, TypeOK
<1>1. ASSUME Open(c) \/ Close(c) \/ UNCHANGED snap
      PROVE  \A q \in Procs : q # c => snap'[q] = snap[q]
  BY <1>0, <1>1 DEF Open, Close
<1>2. ASSUME Request(c) PROVE UNCHANGED worker /\ (Open(c) \/ UNCHANGED snap)
  BY <1>2 DEF Request, InspectOpen, ConfigureOpen, CancelOpen, RetryOpen, DeleteGroup,
              DeleteLayerOpen, OpenAttempt
<1>3. ASSUME ClientCrash(c) PROVE UNCHANGED worker /\ Close(c)
  BY <1>3 DEF ClientCrash
<1>4. ASSUME InspectCommit(c) \/ ConfigureCommit(c) \/ UniqueViolation(c) \/ CancelCommit(c)
             \/ RetryCommit(c) \/ UndoCommit(c)
      PROVE  UNCHANGED worker /\ Close(c)
  BY <1>4 DEF InspectCommit, ConfigureCommit, UniqueViolation, CancelCommit, RetryCommit,
              UndoCommit, Commit
<1>5. ASSUME Dispatch(c) \/ DispatchRaises(c) \/ DeleteLayerCommit(c) PROVE UNCHANGED <<worker, snap>>
  BY <1>5 DEF Dispatch, DispatchRaises, DeleteLayerCommit
<1>6. ASSUME UndoOpen(c) PROVE UNCHANGED worker /\ (Open(c) \/ UNCHANGED snap)
  BY <1>6 DEF UndoOpen
<1> QED BY <1>1, <1>2, <1>3, <1>4, <1>5, <1>6 DEF ClientStep

(* What a step of a task does to the open transactions.                    *)
LEMMA TaskShape ==
    ASSUME Inv, NEW w \in Workers, Deliver(w) \/ TaskStep(w) \/ WorkerCrash(w)
    PROVE  /\ \A v \in Workers \ {w} : worker'[v] = worker[v]
           /\ \A q \in Procs : q # w => snap'[q] = snap[q]
           /\ \/ /\ Open(w) /\ MayOpen(w) /\ Current(w) /\ UNCHANGED rows
                 /\ worker'[w].token = worker[w].token /\ worker'[w].pc # "idle"
              \/ Close(w) /\ ((Commit(w) /\ InTxn(w)) \/ UNCHANGED rows)
              \/ UNCHANGED <<rows, snap>> /\ (snap[w] = None \/ worker[w].pc = "idle")
<1> DEFINE Others == \A v \in Workers \ {w} : worker'[v] = worker[v]
           Opens == /\ Open(w) /\ MayOpen(w) /\ Current(w) /\ UNCHANGED rows
                    /\ worker'[w].token = worker[w].token /\ worker'[w].pc # "idle"
           Rests == UNCHANGED <<rows, snap>> /\ (snap[w] = None \/ worker[w].pc = "idle")
<1>0. worker \in [Workers -> Worker]
  BY DEF Inv, TypeOK
<1>1. ASSUME Deliver(w) PROVE Others /\ Rests
  BY <1>0, <1>1 DEF Deliver
<1>2. ASSUME WorkerCrash(w) PROVE Others /\ Close(w) /\ UNCHANGED rows
  BY <1>0, <1>2 DEF WorkerCrash
<1>3. ASSUME NEW ok, NEW pc, ok => Current(w), pc # "idle", OpenOrEnd(w, ok, pc)
      PROVE  Others /\ (Opens \/ Rests)
  BY <1>0, <1>3 DEF OpenOrEnd, GoWorker, EndTask, MayOpen, Worker
<1>4. ASSUME \/ StartOpen(w) \/ InspectedOpen(w) \/ ProgressOpen(w) \/ RenderedOpen(w)
             \/ RenderRaisesOpen(w) \/ FailOpen(w)
      PROVE  Others /\ (Opens \/ Rests)
  <2>1. CASE StartOpen(w)
    BY <2>1, <1>3 DEF StartOpen
  <2>2. CASE InspectedOpen(w)
    BY <2>2, <1>3 DEF InspectedOpen
  <2>3. CASE ProgressOpen(w)
    BY <2>3, <1>3 DEF ProgressOpen, Wanted
  <2>4. CASE RenderedOpen(w)
    BY <2>4, <1>3 DEF RenderedOpen
  <2>5. CASE RenderRaisesOpen(w)
    BY <2>5, <1>3 DEF RenderRaisesOpen, Wanted
  <2>6. CASE FailOpen(w)
    BY <2>6, <1>3 DEF FailOpen, Wanted
  <2> QED BY <1>4, <2>1, <2>2, <2>3, <2>4, <2>5, <2>6
<1>5. ASSUME NextItem(w) PROVE Others /\ (Opens \/ Rests)
  <2>1. CASE Wanted(w)
    BY <1>0, <1>5, <2>1 DEF NextItem, Wanted, Worker
  <2>2. CASE ~Wanted(w)
    BY <1>0, <1>5, <2>2 DEF NextItem, EndTask, MayOpen
  <2> QED BY <2>1, <2>2
<1>6. ASSUME FinalOpen(w) PROVE Others /\ (Opens \/ Rests)
  <2>1. CASE MayOpen(w) /\ GoWorker(w, "fail") /\ UNCHANGED <<rows, snap>>
    BY <1>0, <2>1 DEF GoWorker, MayOpen
  <2>2. CASE OpenOrEnd(w, Wanted(w), "final")
    BY <2>2, <1>3 DEF Wanted
  <2> QED BY <1>6, <2>1, <2>2 DEF FinalOpen
<1>7. ASSUME InspectRaises(w) PROVE Others /\ Rests
  BY <1>0, <1>7 DEF InspectRaises, GoWorker, InTxn
<1>8. ASSUME \/ StartCommit(w) \/ InspectedCommit(w) \/ ProgressCommit(w) \/ RenderedCommit(w)
             \/ RenderRaisesCommit(w) \/ FinalCommit(w) \/ FailCommit(w)
      PROVE  Others /\ Close(w) /\ Commit(w) /\ InTxn(w)
  <2>1. CASE StartCommit(w)
    BY <1>0, <2>1 DEF StartCommit, GoWorker, Commit
  <2>2. CASE InspectedCommit(w) \/ FinalCommit(w) \/ FailCommit(w)
    BY <1>0, <2>2 DEF InspectedCommit, FinalCommit, FailCommit, EndTask, Commit
  <2>3. CASE ProgressCommit(w) \/ RenderedCommit(w) \/ RenderRaisesCommit(w)
    BY <1>0, <2>3 DEF ProgressCommit, RenderedCommit, RenderRaisesCommit, GoWorker, Commit
  <2> QED BY <1>8, <2>1, <2>2, <2>3
<1>9. ASSUME FinalAborts(w) PROVE Others /\ Close(w) /\ UNCHANGED rows
  BY <1>0, <1>9 DEF FinalAborts, GoWorker
<1>10. /\ Others
       /\ Opens \/ (Close(w) /\ ((Commit(w) /\ InTxn(w)) \/ UNCHANGED rows)) \/ Rests
  BY <1>1, <1>2, <1>4, <1>5, <1>6, <1>7, <1>8, <1>9 DEF TaskStep
<1>11. \A q \in Procs : q # w => snap'[q] = snap[q]
  <2>1. snap \in [Procs -> Snapshot \cup {None}]
    BY DEF Inv, TypeOK
  <2>2. Open(w) \/ Close(w) \/ UNCHANGED snap
    BY <1>10
  <2> QED BY <2>1, <2>2 DEF Open, Close
<1> QED BY <1>10, <1>11

LEMMA FencedNext == FencedInv /\ [Next]_vars => FencedInv'
<1> SUFFICES ASSUME FencedInv, [Next]_vars PROVE FencedInv'
  OBVIOUS
<1>0. Inv /\ Inv' /\ snap \in [Procs -> Snapshot \cup {None}]
  BY NextInv DEF FencedInv, Inv, TypeOK
<1>1. ASSUME NEW c \in Clients, Request(c) \/ ClientStep(c) \/ ClientCrash(c)
      PROVE  SnapIsFenced'
  <2>1. \A w \in Workers : w # c /\ w \in Procs
    BY ConstantsAssumption DEF Procs
  <2> QED BY <1>0, <1>1, <2>1, ClientShape DEF FencedInv, SnapIsFenced
<1>2. ASSUME NEW w \in Workers, Deliver(w) \/ TaskStep(w) \/ WorkerCrash(w)
      PROVE  SnapIsFenced'
  <2>1. w \in Procs /\ \A v \in Workers : v \in Procs
    BY DEF Procs
  <2>2. \A v \in Workers \ {w} : snap'[v] = snap[v] /\ worker'[v] = worker[v]
    BY <1>0, <1>2, <2>1, TaskShape
  <2>3. snap'[w] # None => worker'[w].pc # "idle" /\ snap'[w].batch.token = worker'[w].token
    <3>1. CASE /\ Open(w) /\ Current(w)
               /\ worker'[w].token = worker[w].token /\ worker'[w].pc # "idle"
      BY <1>0, <2>1, <3>1 DEF Open, Current
    <3>2. CASE Close(w)
      BY <1>0, <2>1, <3>2 DEF Close
    <3>3. CASE UNCHANGED snap /\ (snap[w] = None \/ worker[w].pc = "idle")
      BY <3>3 DEF FencedInv, SnapIsFenced
    <3> QED BY <1>0, <1>2, <2>1, <3>1, <3>2, <3>3, TaskShape
  <2> QED BY <2>2, <2>3 DEF FencedInv, SnapIsFenced
<1>3. CASE UNCHANGED vars
  BY <1>0, <1>3 DEF vars, FencedInv, SnapIsFenced
<1>4. CASE Next
  <2>1. SnapIsFenced'
    BY <1>1, <1>2, <1>4 DEF Next
  <2> QED BY <1>0, <2>1 DEF FencedInv
<1> QED BY <1>0, <1>3, <1>4 DEF FencedInv

LEMMA FencedInvHolds == Spec => []FencedInv
<1>1. Init => FencedInv
  BY InitInv DEF Init, FencedInv, SnapIsFenced, Procs
<1> QED BY <1>1, FencedNext, PTL DEF Spec

(***************************************************************************)
(* Fencing, for every number of requests, tasks and attempts and with all  *)
(* transactions interleaved: a task whose token was replaced changes no    *)
(* row, because every transaction that writes has compared the token with  *)
(* the row it read (map_batches.py:135, 151, 168, 179, 186, 215, 224).     *)
(* The one it cannot see is replaced between that read and its commit, and *)
(* then the commit has crossed another.                                    *)
(***************************************************************************)
THEOREM StaleTasksAreFenced == Spec => StaleTaskIsFenced
<1> DEFINE Step == \A w \in Workers :
               worker'[w] # worker[w] /\ worker[w].token # batch.token =>
                   crossed' \/ UNCHANGED rows
<1>1. FencedInv /\ [Next]_vars => [Step]_vars
  <2> SUFFICES ASSUME FencedInv, [Next]_vars, ~crossed',
                      NEW w \in Workers, worker'[w] # worker[w], worker[w].token # batch.token
               PROVE  UNCHANGED rows
    OBVIOUS
  <2>0. Inv
    BY DEF FencedInv
  <2>1. Deliver(w) \/ TaskStep(w) \/ WorkerCrash(w)
    <3>1. ASSUME NEW c \in Clients, Request(c) \/ ClientStep(c) \/ ClientCrash(c) PROVE FALSE
      BY <2>0, <3>1, ClientShape
    <3>2. ASSUME NEW v \in Workers, v # w, Deliver(v) \/ TaskStep(v) \/ WorkerCrash(v) PROVE FALSE
      BY <2>0, <3>2, TaskShape
    <3>3. ~UNCHANGED vars
      BY DEF vars
    <3> QED BY <3>1, <3>2, <3>3 DEF Next
  <2>2. ASSUME Commit(w), InTxn(w) PROVE FALSE
    <3>1. snap[w].batch = batch
      BY <2>2, CommitIsFresh
    <3> QED BY <2>2, <3>1 DEF FencedInv, SnapIsFenced, InTxn
  <2> QED BY <2>0, <2>1, <2>2, TaskShape
<1> QED BY <1>1, FencedInvHolds, PTL DEF Spec, StaleTaskIsFenced

-----------------------------------------------------------------------------
(* Attempts, until transactions cross.  A request draws the token of an    *)
(* attempt, makes it the batch's, and owns it until the message is sent;   *)
(* at most one task gets past the start of an attempt.                     *)

Drawing(c) == client[c].pc \in {"inspect", "configure", "retry"}
Owning(c) == client[c].pc \in {"dispatch", "undo"}

Waiting == {"inspecting", "pending"}
Running == {"inspecting_running", "processing"}
InspectStatus == {"inspecting", "inspecting_running", "ready", "inspection_failed"}
ProcessStatus == {"pending", "processing", "done", "failed", "cancelled"}
StatusOf(action) == IF action = "inspect" THEN InspectStatus ELSE ProcessStatus

RenderPc == {"progress", "render", "save", "failitem"}
RequestPlace(r) == /\ r.pc = "inspect" => r.action = "inspect"
                   /\ r.pc = "configure" => r.action = "process"
TaskPlace(t) == /\ t.pc = "start" => t.todo = {}
                /\ t.pc = "inspect" => t.action = "inspect"
                /\ t.pc \in RenderPc \cup {"loop", "final"} => t.action = "process"
Places == (\A c \in Clients : RequestPlace(client[c])) /\ (\A w \in Workers : TaskPlace(worker[w]))

TokensAreIssued ==
    /\ batch.token <= issued
    /\ \A m \in queue : m.token <= issued
    /\ \A c \in Clients : client[c].token <= issued
    /\ \A w \in Workers : worker[w].token <= issued

\* A token that was drawn is nobody else's until it is the batch's.
DrawnIsFresh ==
    \A c \in Clients : Drawing(c) =>
        /\ client[c].token # batch.token
        /\ \A m \in queue : m.token # client[c].token
        /\ \A w \in Workers : worker[w].pc # "idle" => worker[w].token # client[c].token
        /\ \A e \in Clients \ {c} : Drawing(e) \/ Owning(e) => client[e].token # client[c].token

\* Whoever bears the batch's token has the action the status is about.
ActionsAreDue ==
    /\ \A m \in queue : m.token = batch.token => batch.status \in StatusOf(m.action)
    /\ \A c \in Clients : Owning(c) /\ client[c].token = batch.token =>
           batch.status \in StatusOf(client[c].action)
    /\ \A w \in Workers : worker[w].pc # "idle" /\ Current(w) =>
           batch.status \in StatusOf(worker[w].action)

\* What the transaction that is open has checked of what it read.
RequestChecked(c) == LET read == snap[c].batch IN
    /\ client[c].pc \notin {"idle", "dispatch", "drop"}
    /\ client[c].pc = "inspect" => read.status \in {"absent", "inspection_failed"}
    /\ client[c].pc = "configure" => read.status = "ready"
    /\ client[c].pc = "cancel" => read.status \in {"pending", "processing"}
    /\ client[c].pc = "retry" =>
           read.status \in IF client[c].action = "inspect" THEN {"inspection_failed"}
                                                           ELSE {"failed", "cancelled"}
    /\ client[c].pc = "undo" => read.token = client[c].token
TaskChecked(w) == LET read == snap[w].batch IN
    /\ worker[w].pc = "start" =>
           read.status = IF worker[w].action = "inspect" THEN "inspecting" ELSE "pending"
    /\ worker[w].pc \in {"final", "fail"} => read.status # "cancelled"
Checked ==
    /\ \A c \in Clients : InTxn(c) => RequestChecked(c)
    /\ \A w \in Workers : InTxn(w) => TaskChecked(w)

\* One task works on an attempt, and none before it or when it is done.
OneEach ==
    /\ batch.status \in Waiting \cup {"done"} =>
           \A w \in Workers : ~(Started(w) /\ Current(w))
    /\ \A v, w \in Workers : Started(v) /\ Current(v) /\ Started(w) /\ Current(w) => v = w

\* What the task of the attempt has still to do is chosen and not done.
Rendering(t) == IF t.pc \in RenderPc THEN {t.cur} ELSE {}
Due(t) == t.todo \cup Rendering(t)
TodoIsDue ==
    \A w \in Workers : Started(w) /\ Current(w) =>
        /\ \A d \in Due(worker[w]) : items[d].selected /\ items[d].status # "done"
        /\ Rendering(worker[w]) \cap worker[w].todo = {}

\* Nothing is chosen, made or published before the batch is configured.
Unchosen ==
    batch.status \in InspectStatus \cup {"absent"} =>
        /\ \A d \in Datasets : ~items[d].selected /\ items[d].status # "done"
        /\ group.status # "published"

AttemptInv ==
    /\ ~crossed
    /\ FencedInv /\ Places /\ TokensAreIssued /\ DrawnIsFresh /\ ActionsAreDue /\ Checked
    /\ OneEach /\ TodoIsDue /\ Unchosen

-----------------------------------------------------------------------------
(* What a commit that crosses nobody leaves in the rows: exactly what the  *)
(* handler has computed from the rows as they are.                         *)

LEMMA Typed ==
    ASSUME FencedInv
    PROVE  /\ batch \in Batch /\ items \in [Datasets -> Item] /\ group \in Group
           /\ queue \in SUBSET Message /\ issued \in Nat /\ crashes \in Nat
           /\ client \in [Clients -> Client] /\ worker \in [Workers -> Worker]
           /\ snap \in [Procs -> Snapshot \cup {None}]
BY ConstantsAssumption DEF FencedInv, Inv, TypeOK

LEMMA SavedBatch ==
    ASSUME FencedInv, NEW p \in Procs, Commit(p), ~crossed', NEW b \in Batch, SaveBatch(p, b)
    PROVE  batch' = b
<1>1. snap[p].batch = batch /\ batch \in Batch
  BY CommitIsFresh, Typed
<1> QED BY <1>1 DEF SaveBatch, Flushed, Batch

LEMMA SavedStatus ==
    ASSUME FencedInv, NEW p \in Procs, Commit(p), ~crossed', NEW s \in BatchStatus,
           SaveBatch(p, [snap[p].batch EXCEPT !.status = s])
    PROVE  /\ batch'.status = s /\ batch'.token = batch.token /\ batch'.grouped = batch.grouped
<1>1. snap[p].batch = batch /\ batch \in Batch
  BY CommitIsFresh, Typed
<1>2. [batch EXCEPT !.status = s] \in Batch
  BY <1>1 DEF Batch
<1>3. batch' = [batch EXCEPT !.status = s]
  BY <1>1, <1>2, SavedBatch
<1> QED BY <1>1, <1>3 DEF Batch

LEMMA SavedItems ==
    ASSUME FencedInv, NEW p \in Procs, Commit(p), ~crossed', SaveItems(snap[p].items)
    PROVE  items' = items
<1>1. snap[p].items = items /\ items \in [Datasets -> Item]
  BY CommitIsFresh, Typed
<1> QED BY <1>1 DEF SaveItems

LEMMA SavedMarked ==
    ASSUME FencedInv, NEW p \in Procs, Commit(p), ~crossed', NEW S, NEW s \in ItemStatus \ {"absent"},
           SaveItems(Marked(snap[p].items, S, s))
    PROVE  \A d \in Datasets : /\ items'[d].selected = items[d].selected
                               /\ items'[d].status = IF d \in S THEN s ELSE items[d].status
<1>1. snap[p].items = items /\ items \in [Datasets -> Item]
  BY CommitIsFresh, Typed
<1>2. \A d \in Datasets : Marked(items, S, s)[d] = IF d \in S THEN [items[d] EXCEPT !.status = s]
                                                   ELSE items[d]
  BY DEF Marked
<1>3. \A d \in Datasets : /\ [items[d] EXCEPT !.status = s].status = s
                          /\ [items[d] EXCEPT !.status = s].selected = items[d].selected
  BY <1>1 DEF Item
<1>4. \A d \in Datasets : items'[d] = Marked(items, S, s)[d]
  BY <1>1, <1>2, <1>3 DEF SaveItems
<1> SUFFICES ASSUME NEW d \in Datasets
             PROVE  /\ items'[d].selected = items[d].selected
                    /\ items'[d].status = IF d \in S THEN s ELSE items[d].status
  OBVIOUS
<1>5. CASE d \in S
  <2>1. items'[d] = [items[d] EXCEPT !.status = s]
    BY <1>2, <1>4, <1>5
  <2> QED BY <1>3, <1>5, <2>1
<1>6. CASE d \notin S
  <2>1. items'[d] = items[d]
    BY <1>2, <1>4, <1>6
  <2> QED BY <1>6, <2>1
<1> QED BY <1>5, <1>6

(* Requests and tasks are different processes.                             *)
LEMMA ProcsApart == \A c \in Clients, w \in Workers : c \in Procs /\ w \in Procs /\ c # w
BY ConstantsAssumption DEF Procs

(* What is kept in a copy of the rows.                                     *)
LEMMA OpenCopies ==
    ASSUME FencedInv, NEW p \in Procs, Open(p)
    PROVE  snap'[p].batch = batch /\ snap'[p].items = items
BY Typed DEF Open

-----------------------------------------------------------------------------
(* What a step of a request does to attempts: it draws a token, makes the  *)
(* token the batch's, or leaves the batch's token alone.                   *)

Draws(c) ==
    /\ client[c].pc = "idle"
    /\ UNCHANGED <<rows, queue>>
    /\ issued' = issued + 1
    /\ Drawing(c)' /\ client'[c].token = issued + 1
    /\ Open(c)

Takes(c) ==
    /\ Drawing(c)
    /\ batch'.token = client[c].token
    /\ batch'.status = IF client[c].action = "inspect" THEN "inspecting" ELSE "pending"
    /\ client'[c].pc = "dispatch"
    /\ client'[c].token = client[c].token /\ client'[c].action = client[c].action
    /\ UNCHANGED <<queue, issued>>

\* A request that is done with, or goes on with, the token it has.
Passes(c) ==
    /\ batch'.token = batch.token
    /\ batch'.status = batch.status \/
          \/ batch'.status = "cancelled" /\ batch.status \in {"pending", "processing"}
          \/ /\ Owning(c) /\ client[c].token = batch.token
             /\ batch'.status = IF client[c].action = "inspect" THEN "inspection_failed"
                                                                ELSE "failed"
    /\ client'[c].token <= issued
    /\ ~Drawing(c)'
    /\ Owning(c)' => /\ Owning(c)
                     /\ client'[c].token = client[c].token /\ client'[c].action = client[c].action
    /\ queue \subseteq queue'
    /\ \A m \in queue' \ queue :
           Owning(c) /\ m.token = client[c].token /\ m.action = client[c].action
    /\ Owning(c) /\ client[c].token = batch.token =>
           \/ Owning(c)'
           \/ \E m \in queue' : m.token = batch.token
           \/ batch'.status \notin Waiting
           \/ crashes' # 0
    /\ UNCHANGED issued

\* Neither choice nor results are touched, but by a configuration.
KeepsItems ==
    \A d \in Datasets : /\ items'[d].selected = items[d].selected
                        /\ (items'[d].status = "done") = (items[d].status = "done")

Chooses(S) ==
    /\ S # {}
    /\ \A d \in Datasets : /\ items'[d].selected = (items[d].selected \/ d \in S)
                           /\ items'[d].status = "done" => items[d].status = "done" /\ d \notin S

RequestMoves(c) ==
    /\ UNCHANGED worker
    /\ \A e \in Clients \ {c} : client'[e] = client[e]
    /\ RequestPlace(client'[c])

LEMMA OpenAttemptEffect ==
    ASSUME AttemptInv, NEW c \in Clients, NEW pc \in {"inspect", "configure", "retry"},
           NEW action \in Actions, OpenAttempt(c, pc, action),
           pc = "inspect" => action = "inspect", pc = "configure" => action = "process"
    PROVE  /\ RequestMoves(c) /\ Draws(c) /\ UNCHANGED crashes
           /\ client'[c].pc = pc /\ client'[c].action = action
<1>1. client \in [Clients -> Client]
  BY Typed DEF AttemptInv
<1> QED BY <1>1 DEF OpenAttempt, RequestMoves, Draws, Drawing, RequestPlace

(* The status a request has set, written over the row it read.             *)
LEMMA AttemptSaved ==
    ASSUME AttemptInv, NEW c \in Clients, Commit(c), ~crossed', NEW s \in BatchStatus,
           NEW g \in BOOLEAN, SaveBatch(c, Attempt(c, s, g))
    PROVE  batch'.token = client[c].token /\ batch'.status = s /\ batch'.grouped = g
<1>1. Attempt(c, s, g) \in Batch
  BY AttemptType DEF AttemptInv, FencedInv
<1>2. batch' = Attempt(c, s, g)
  BY <1>1, SavedBatch, ProcsApart DEF AttemptInv, Procs
<1> QED BY <1>2 DEF Attempt

LEMMA Dispatches ==
    ASSUME AttemptInv, NEW c \in Clients, Drawing(c), GoClient(c, "dispatch")
    PROVE  /\ \A e \in Clients \ {c} : client'[e] = client[e]
           /\ client'[c].pc = "dispatch" /\ RequestPlace(client'[c])
           /\ client'[c].token = client[c].token /\ client'[c].action = client[c].action
<1>1. client \in [Clients -> Client]
  BY Typed DEF AttemptInv
<1> QED BY <1>1 DEF GoClient, RequestPlace, Client

LEMMA InspectCommitEffect ==
    ASSUME AttemptInv, NEW c \in Clients, InspectCommit(c), ~crossed'
    PROVE  /\ RequestMoves(c) /\ Takes(c) /\ UNCHANGED <<items, group, crashes>>
           /\ batch.status \in {"absent", "inspection_failed"} /\ Close(c) /\ InTxn(c)
<1>1. /\ client[c].pc = "inspect" /\ InTxn(c) /\ SaveBatch(c, Attempt(c, "inspecting", FALSE))
      /\ GoClient(c, "dispatch") /\ Commit(c) /\ Close(c)
      /\ UNCHANGED <<items, group, layers, queue, issued, worker, crashes>>
  BY DEF InspectCommit, Commit
<1>2. client[c].action = "inspect" /\ batch.status \in {"absent", "inspection_failed"}
  BY <1>1, CommitIsFresh DEF AttemptInv, Places, RequestPlace, Checked, RequestChecked
<1>3. Drawing(c)
  BY <1>1 DEF Drawing
<1>4. batch'.token = client[c].token /\ batch'.status = "inspecting"
  BY <1>1, AttemptSaved DEF BatchStatus
<1> QED BY <1>1, <1>2, <1>3, <1>4, Dispatches DEF RequestMoves, Takes

LEMMA ConfigureCommitEffect ==
    ASSUME AttemptInv, NEW c \in Clients, ConfigureCommit(c), ~crossed'
    PROVE  /\ RequestMoves(c) /\ Takes(c) /\ UNCHANGED crashes /\ batch.status = "ready"
           /\ batch'.status = "pending" /\ Close(c) /\ InTxn(c)
           /\ group'.status \in {group.status, "draft"}
           /\ \E S \in SUBSET Datasets : Chooses(S)
<1>1. PICK S \in (SUBSET Datasets) \ {{}}, g \in BOOLEAN :
          /\ SaveBatch(c, Attempt(c, "pending", g \/ snap[c].batch.grouped))
          /\ SaveItems([d \in Datasets |-> IF d \in S
                                           THEN [selected |-> TRUE, status |-> "pending"]
                                           ELSE snap[c].items[d]])
          /\ group' = IF g THEN [status |-> "draft", members |-> S] ELSE group
  BY DEF ConfigureCommit, Commit
<1> DEFINE new == [d \in Datasets |-> IF d \in S THEN [selected |-> TRUE, status |-> "pending"]
                                                 ELSE snap[c].items[d]]
<1>2. /\ client[c].pc = "configure" /\ InTxn(c) /\ GoClient(c, "dispatch") /\ Commit(c) /\ Close(c)
      /\ UNCHANGED <<layers, queue, issued, worker, crashes>>
  BY DEF ConfigureCommit, Commit
<1>3. client[c].action = "process" /\ batch.status = "ready"
  BY <1>2, CommitIsFresh DEF AttemptInv, Places, RequestPlace, Checked, RequestChecked
<1>4. /\ Drawing(c) /\ snap[c].items = items /\ snap[c].batch = batch
      /\ batch \in Batch /\ items \in [Datasets -> Item]
  BY <1>2, CommitIsFresh, Typed DEF Drawing, AttemptInv
<1>5. batch'.token = client[c].token /\ batch'.status = "pending"
  <2>1. (g \/ snap[c].batch.grouped) \in BOOLEAN
    BY <1>4 DEF Batch
  <2> QED BY <1>1, <1>2, <2>1, AttemptSaved DEF BatchStatus
<1>6. Chooses(S)
  <2>1. \A d \in Datasets : new[d] = IF d \in S THEN [selected |-> TRUE, status |-> "pending"]
                                                ELSE items[d]
    BY <1>4
  <2>2. \A d \in Datasets : items'[d] = IF new[d].status = "absent" THEN items[d] ELSE new[d]
    BY <1>1 DEF SaveItems
  <2>3. \A d \in Datasets : items'[d] = IF d \in S THEN [selected |-> TRUE, status |-> "pending"]
                                                   ELSE items[d]
    BY <2>1, <2>2
  <2>4. \A d \in Datasets : items[d].selected \in BOOLEAN
    BY <1>4 DEF Item
  <2>5. S # {}
    OBVIOUS
  <2> HIDE DEF new
  <2>6. ASSUME NEW d \in Datasets
        PROVE  /\ items'[d].selected = (items[d].selected \/ d \in S)
               /\ items'[d].status = "done" => items[d].status = "done" /\ d \notin S
    <3>1. CASE d \in S
      <4>1. items'[d].selected = TRUE /\ items'[d].status = "pending"
        BY <2>3, <3>1
      <4> QED BY <2>4, <3>1, <4>1
    <3>2. CASE d \notin S
      <4>1. items'[d] = items[d]
        BY <2>3, <3>2
      <4> QED BY <2>4, <3>2, <4>1
    <3> QED BY <3>1, <3>2
  <2> QED BY <2>5, <2>6 DEF Chooses
<1>7. group'.status \in {group.status, "draft"}
  BY <1>1
<1>8. S \in SUBSET Datasets
  OBVIOUS
<1> QED BY <1>2, <1>3, <1>4, <1>5, <1>6, <1>7, <1>8, Dispatches DEF RequestMoves, Takes

LEMMA MarkedKeeps ==
    ASSUME AttemptInv, NEW p \in Procs, Commit(p), ~crossed', NEW s \in ItemStatus \ {"absent", "done"},
           SaveItems(Marked(snap[p].items, Unfinished(snap[p].items), s))
    PROVE  KeepsItems
<1>1. snap[p].items = items
  BY CommitIsFresh
<1>2. \A d \in Datasets : /\ items'[d].selected = items[d].selected
                          /\ items'[d].status = IF d \in Unfinished(items) THEN s
                                                                           ELSE items[d].status
  BY <1>1, SavedMarked DEF AttemptInv
<1> QED BY <1>2 DEF KeepsItems, Unfinished

LEMMA RetryCommitEffect ==
    ASSUME AttemptInv, NEW c \in Clients, RetryCommit(c), ~crossed'
    PROVE  /\ RequestMoves(c) /\ Takes(c) /\ KeepsItems /\ UNCHANGED <<group, crashes>>
           /\ batch.status \in (IF client[c].action = "inspect" THEN {"inspection_failed"}
                                                               ELSE {"failed", "cancelled"})
           /\ Close(c) /\ InTxn(c)
<1> DEFINE s == IF client[c].action = "inspect" THEN "inspecting" ELSE "pending"
<1>1. /\ client[c].pc = "retry" /\ InTxn(c) /\ SaveBatch(c, Attempt(c, s, snap[c].batch.grouped))
      /\ SaveItems(Marked(snap[c].items, Unfinished(snap[c].items), "pending"))
      /\ GoClient(c, "dispatch") /\ Commit(c) /\ Close(c)
      /\ UNCHANGED <<group, layers, queue, issued, worker, crashes>>
  BY DEF RetryCommit, Commit
<1>2. batch.status \in IF client[c].action = "inspect" THEN {"inspection_failed"}
                                                       ELSE {"failed", "cancelled"}
  BY <1>1, CommitIsFresh DEF AttemptInv, Checked, RequestChecked
<1>3. Drawing(c) /\ c \in Procs /\ snap[c].batch.grouped \in BOOLEAN
  BY <1>1, CommitIsFresh, Typed DEF Drawing, AttemptInv, Procs, Batch
<1>4. batch'.token = client[c].token /\ batch'.status = s
  BY <1>1, <1>3, AttemptSaved DEF BatchStatus
<1>5. KeepsItems
  BY <1>1, <1>3, MarkedKeeps DEF ItemStatus
<1> QED BY <1>1, <1>2, <1>3, <1>4, <1>5, Dispatches DEF RequestMoves, Takes

(* The request ends, or goes on with another step of the same attempt.     *)
LEMMA EndsRequest ==
    ASSUME AttemptInv, NEW c \in Clients, EndClient(c)
    PROVE  /\ \A e \in Clients \ {c} : client'[e] = client[e]
           /\ client'[c].token <= issued /\ ~Drawing(c)' /\ ~Owning(c)' /\ RequestPlace(client'[c])
<1>1. client \in [Clients -> Client] /\ issued \in Nat
  BY Typed DEF AttemptInv
<1> QED BY <1>1 DEF EndClient, IdleClient, Drawing, Owning, RequestPlace

LEMMA CancelCommitEffect ==
    ASSUME AttemptInv, NEW c \in Clients, CancelCommit(c), ~crossed'
    PROVE  /\ RequestMoves(c) /\ Passes(c) /\ KeepsItems /\ UNCHANGED <<group, crashes>>
           /\ batch.status \in {"pending", "processing"} /\ batch'.status = "cancelled"
           /\ Close(c) /\ InTxn(c)
<1>1. /\ client[c].pc = "cancel" /\ InTxn(c)
      /\ SaveBatch(c, [snap[c].batch EXCEPT !.status = "cancelled"])
      /\ SaveItems(Marked(snap[c].items, Unfinished(snap[c].items), "cancelled"))
      /\ EndClient(c) /\ Commit(c) /\ Close(c)
      /\ UNCHANGED <<group, layers, queue, issued, worker, crashes>>
  BY DEF CancelCommit, Commit
<1>2. batch.status \in {"pending", "processing"} /\ ~Owning(c)
  BY <1>1, CommitIsFresh DEF AttemptInv, Checked, RequestChecked, Owning
<1>3. c \in Procs /\ FencedInv
  BY DEF Procs, AttemptInv
<1>4. batch'.token = batch.token /\ batch'.status = "cancelled"
  BY <1>1, <1>3, SavedStatus DEF BatchStatus
<1>5. KeepsItems
  BY <1>1, <1>3, MarkedKeeps DEF ItemStatus
<1> QED BY <1>1, <1>2, <1>4, <1>5, EndsRequest DEF RequestMoves, Passes

LEMMA UndoCommitEffect ==
    ASSUME AttemptInv, NEW c \in Clients, UndoCommit(c), ~crossed'
    PROVE  /\ RequestMoves(c) /\ Passes(c) /\ UNCHANGED <<items, group, crashes>>
           /\ Owning(c) /\ batch.token = client[c].token
           /\ batch'.status = IF client[c].action = "inspect" THEN "inspection_failed" ELSE "failed"
           /\ Close(c) /\ InTxn(c)
<1> DEFINE s == IF client[c].action = "inspect" THEN "inspection_failed" ELSE "failed"
<1>1. /\ client[c].pc = "undo" /\ InTxn(c) /\ SaveBatch(c, [snap[c].batch EXCEPT !.status = s])
      /\ SaveItems(snap[c].items) /\ EndClient(c) /\ Commit(c) /\ Close(c)
      /\ UNCHANGED <<group, layers, queue, issued, worker, crashes>>
  BY DEF UndoCommit, Commit
<1>2. batch.token = client[c].token /\ Owning(c)
  BY <1>1, CommitIsFresh DEF AttemptInv, Checked, RequestChecked, Owning
<1>3. c \in Procs /\ FencedInv /\ s \in BatchStatus
  BY DEF Procs, AttemptInv, BatchStatus
<1>4. batch'.token = batch.token /\ batch'.status = s
  BY <1>1, <1>3, SavedStatus
<1>5. items' = items /\ s \notin Waiting
  BY <1>1, <1>3, SavedItems DEF Waiting
<1> QED BY <1>1, <1>2, <1>4, <1>5, EndsRequest DEF RequestMoves, Passes

(* The other steps of a request change the group's row or a layer, at most. *)
LEMMA PassingEffect ==
    ASSUME AttemptInv, NEW c \in Clients,
           \/ UniqueViolation(c) \/ CancelOpen(c) \/ Dispatch(c) \/ DispatchRaises(c)
           \/ UndoOpen(c) \/ DeleteGroup(c) \/ ClientCrash(c)
           \/ DeleteLayerOpen(c) \/ DeleteLayerCommit(c)
    PROVE  /\ RequestMoves(c) /\ Passes(c) /\ UNCHANGED <<batch, items>>
           /\ group' = group \/ group'.status = "absent"
           /\ crashes' = crashes \/ crashes' # 0
<1>0. /\ client \in [Clients -> Client] /\ issued \in Nat /\ crashes \in Nat
      /\ client[c].token <= issued /\ RequestPlace(client[c])
  BY Typed DEF AttemptInv, TokensAreIssued, Places
<1>1. CASE UniqueViolation(c) \/ ClientCrash(c)
  <2>1. EndClient(c) /\ UNCHANGED <<rows, queue, issued, worker>>
    BY <1>1 DEF UniqueViolation, ClientCrash
  <2>2. CASE UniqueViolation(c)
    <3>1. ~Owning(c) /\ UNCHANGED crashes
      BY <2>2 DEF UniqueViolation, Owning
    <3> QED BY <2>1, <3>1, EndsRequest DEF RequestMoves, Passes, rows
  <2>3. CASE ClientCrash(c)
    <3>1. crashes' # 0
      BY <1>0, <2>3 DEF ClientCrash
    <3> QED BY <2>1, <3>1, EndsRequest DEF RequestMoves, Passes, rows
  <2> QED BY <1>1, <2>2, <2>3
<1>2. CASE CancelOpen(c)
  <2>1. client' = [client EXCEPT ![c].pc = "cancel"] /\ client[c].pc = "idle"
        /\ UNCHANGED <<rows, queue, issued, worker, crashes>>
    BY <1>2 DEF CancelOpen, GoClient
  <2> QED BY <1>0, <2>1 DEF RequestMoves, Passes, rows, Client, Drawing, Owning, RequestPlace
<1>3. CASE Dispatch(c) \/ DispatchRaises(c)
  <2> DEFINE m == [token |-> client[c].token, action |-> client[c].action]
  <2>1. client[c].pc = "dispatch" /\ Owning(c) /\ UNCHANGED <<rows, issued, worker, crashes>>
    BY <1>3 DEF Dispatch, DispatchRaises, Owning
  <2>2. CASE Dispatch(c)
    <3>1. queue' = queue \cup {m} /\ EndClient(c) /\ m.token = client[c].token
          /\ m.action = client[c].action
      BY <2>2 DEF Dispatch
    <3> HIDE DEF m
    <3> QED BY <2>1, <3>1, EndsRequest DEF RequestMoves, Passes, rows
  <2>3. CASE DispatchRaises(c)
    <3>1. /\ queue' = queue \/ queue' = queue \cup {m}
          /\ m.token = client[c].token /\ m.action = client[c].action
          /\ client' = [client EXCEPT ![c].pc = "undo"]
      BY <2>3 DEF DispatchRaises, GoClient
    <3> HIDE DEF m
    <3>2. client'[c].pc = "undo" /\ client'[c].token = client[c].token
          /\ client'[c].action = client[c].action /\ \A e \in Clients \ {c} : client'[e] = client[e]
      BY <1>0, <3>1 DEF Client
    <3> QED BY <1>0, <2>1, <3>1, <3>2 DEF RequestMoves, Passes, rows, Drawing, Owning, RequestPlace
  <2> QED BY <1>3, <2>2, <2>3
<1>4. CASE UndoOpen(c)
  <2>1. client[c].pc = "undo" /\ UNCHANGED <<rows, queue, issued, worker, crashes>>
        /\ (UNCHANGED client \/ (EndClient(c) /\ batch.token # client[c].token))
    BY <1>4 DEF UndoOpen
  <2> QED BY <1>0, <2>1, EndsRequest DEF RequestMoves, Passes, rows, Drawing, Owning
<1>5. CASE DeleteGroup(c)
  BY <1>0, <1>5 DEF DeleteGroup, NoGroup, RequestMoves, Passes, Drawing, Owning
<1>6. CASE DeleteLayerOpen(c)
  <2>1. PICK d \in layers : client' = [client EXCEPT ![c].pc = "drop", ![c].cur = d]
    BY <1>6 DEF DeleteLayerOpen
  <2>2. client[c].pc = "idle" /\ UNCHANGED <<rows, queue, issued, worker, crashes>>
    BY <1>6 DEF DeleteLayerOpen
  <2> QED BY <1>0, <2>1, <2>2 DEF RequestMoves, Passes, rows, Client, Drawing, Owning, RequestPlace
<1>7. CASE DeleteLayerCommit(c)
  <2>1. /\ client[c].pc = "drop" /\ EndClient(c)
        /\ UNCHANGED <<batch, items, group, queue, issued, worker, crashes>>
    BY <1>7 DEF DeleteLayerCommit
  <2> QED BY <2>1, EndsRequest DEF RequestMoves, Passes, Owning
<1> QED BY <1>1, <1>2, <1>3, <1>4, <1>5, <1>6, <1>7

-----------------------------------------------------------------------------
(* What a step of a task does to attempts: it reads, gives up, begins the  *)
(* work, writes what became of one dataset, or concludes the attempt.      *)

TaskMoves(w) ==
    /\ UNCHANGED <<client, issued, crashes>>
    /\ \A v \in Workers \ {w} : worker'[v] = worker[v]
    /\ worker[w].pc # "idle"
    /\ TaskPlace(worker'[w])

Keeps(w) ==
    /\ worker'[w].token = worker[w].token /\ worker'[w].action = worker[w].action
    /\ worker'[w].pc # "idle"
    /\ UNCHANGED queue

\* What it has still to do does not grow, nor is a dataset there twice.
Narrows(w) ==
    /\ Due(worker'[w]) \subseteq Due(worker[w])
    /\ Rendering(worker[w]) \cap worker[w].todo = {} => Rendering(worker'[w]) \cap worker'[w].todo = {}

Reads(w) ==
    /\ Keeps(w) /\ UNCHANGED rows
    /\ Started(w)' = Started(w)
    /\ Narrows(w)
    /\ InTxn(w)' => TaskChecked(w)'

GivesUp(w) ==
    /\ EndTask(w) /\ UNCHANGED rows
    /\ Current(w) => /\ batch.status \notin Waiting
                     /\ Started(w) => batch.status \notin Running

Begins(w) ==
    /\ Keeps(w) /\ UNCHANGED <<items, group>>
    /\ Current(w) /\ ~Started(w) /\ Started(w)'
    /\ batch.status = IF worker[w].action = "inspect" THEN "inspecting" ELSE "pending"
    /\ batch'.status = IF worker[w].action = "inspect" THEN "inspecting_running" ELSE "processing"
    /\ batch'.token = batch.token
    /\ Due(worker'[w]) \subseteq Unfinished(items)
    /\ Rendering(worker'[w]) = {}

Writes(w) ==
    /\ Keeps(w) /\ UNCHANGED <<batch, group>>
    /\ Current(w) /\ Started(w) /\ Started(w)' /\ worker[w].action # "inspect"
    /\ Narrows(w)
    /\ worker[w].cur \in Rendering(worker[w])
    /\ \A d \in Datasets : /\ items'[d].selected = items[d].selected
                           /\ d # worker[w].cur => items'[d].status = items[d].status
    /\ items'[worker[w].cur].status = "done" <=> worker[w].pc = "save"
    /\ worker[w].pc = "save" => Due(worker'[w]) = worker[w].todo

Concludes(w) ==
    /\ EndTask(w)
    /\ Current(w) /\ Started(w)
    /\ batch'.token = batch.token
    /\ batch'.status \in IF worker[w].action = "inspect" THEN {"ready", "inspection_failed"}
                                                        ELSE {"done", "failed"}
    /\ worker[w].action = "inspect" =>
           /\ UNCHANGED group
           /\ \/ UNCHANGED items
              \/ \A d \in Datasets : ~items'[d].selected /\ items'[d].status = "detected"

LEMMA KeepsPlace ==
    ASSUME AttemptInv, NEW w \in Workers, NEW pc \in WorkerPc \ {"idle"}, GoWorker(w, pc)
    PROVE  /\ \A v \in Workers \ {w} : worker'[v] = worker[v]
           /\ worker'[w].pc = pc /\ worker'[w].token = worker[w].token
           /\ worker'[w].action = worker[w].action
           /\ worker'[w].todo = worker[w].todo /\ worker'[w].cur = worker[w].cur
<1>1. worker \in [Workers -> Worker]
  BY Typed DEF AttemptInv
<1> QED BY <1>1 DEF GoWorker, Worker

LEMMA EndsTask ==
    ASSUME AttemptInv, NEW w \in Workers, EndTask(w)
    PROVE  /\ \A v \in Workers \ {w} : worker'[v] = worker[v]
           /\ worker'[w] = IdleWorker /\ worker'[w].pc = "idle" /\ worker'[w].token = 0
           /\ TaskPlace(worker'[w])
           /\ \A m : m \in queue' <=> m \in queue /\ m.token # worker[w].token
<1>1. worker \in [Workers -> Worker]
  BY Typed DEF AttemptInv
<1> QED BY <1>1 DEF EndTask, IdleWorker, TaskPlace, RenderPc

(* What the transaction of a task can rely on when it commits.             *)
LEMMA TaskInTxn ==
    ASSUME AttemptInv, NEW w \in Workers, InTxn(w), Commit(w), ~crossed'
    PROVE  /\ w \in Procs /\ FencedInv
           /\ snap[w].batch = batch /\ snap[w].items = items
           /\ worker[w].pc = "final" => snap[w].group = group
           /\ Current(w) /\ worker[w].pc # "idle" /\ TaskChecked(w) /\ TaskPlace(worker[w])
           /\ batch.status \in StatusOf(worker[w].action)
<1>1. w \in Procs /\ FencedInv
  BY DEF AttemptInv, Procs
<1>2. /\ snap[w].batch = batch /\ snap[w].items = items
      /\ worker[w].pc = "final" => snap[w].group = group
  BY CommitIsFresh
<1>3. Current(w) /\ worker[w].pc # "idle"
  BY <1>1, <1>2 DEF FencedInv, SnapIsFenced, InTxn, Current
<1>4. TaskChecked(w) /\ TaskPlace(worker[w])
  BY DEF AttemptInv, Checked, Places
<1> QED BY <1>1, <1>2, <1>3, <1>4 DEF AttemptInv, ActionsAreDue

LEMMA OpenOrEndEffect ==
    ASSUME AttemptInv, NEW w \in Workers, NEW pc \in WorkerPc \ {"idle"}, NEW ok,
           OpenOrEnd(w, ok, pc),
           worker[w].pc # "idle", worker[w].pc = "start" <=> pc = "start",
           pc \in RenderPc => worker[w].pc \in RenderPc,
           pc = "inspect" => worker[w].action = "inspect",
           pc \in RenderPc \cup {"loop", "final"} => worker[w].action = "process",
           ~ok /\ Current(w) => /\ batch.status \notin Waiting
                                /\ Started(w) => batch.status \notin Running,
           ok /\ pc = "start" =>
               batch.status = IF worker[w].action = "inspect" THEN "inspecting" ELSE "pending",
           ok /\ pc \in {"final", "fail"} => batch.status # "cancelled"
    PROVE  TaskMoves(w) /\ (Reads(w) \/ GivesUp(w))
<1>1. UNCHANGED <<rows, issued, client, crashes>>
  BY DEF OpenOrEnd
<1>2. CASE ok
  <2>1. Open(w) /\ GoWorker(w, pc) /\ UNCHANGED queue
    BY <1>2 DEF OpenOrEnd
  <2>2. TaskPlace(worker[w])
    BY DEF AttemptInv, Places
  <2>3. /\ TaskMoves(w) /\ Keeps(w) /\ worker'[w].pc = pc
        /\ worker'[w].todo = worker[w].todo /\ worker'[w].cur = worker[w].cur
    BY <1>1, <2>1, <2>2, KeepsPlace DEF TaskMoves, Keeps, TaskPlace
  <2>4. Narrows(w) /\ (Started(w)' = Started(w))
    BY <2>3 DEF Narrows, Due, Rendering, Started
  <2>5. TaskChecked(w)'
    <3>1. snap'[w].batch = batch
      BY <2>1, OpenCopies DEF AttemptInv, Procs
    <3> QED BY <1>2, <2>3, <3>1 DEF TaskChecked, Keeps
  <2> QED BY <1>1, <2>3, <2>4, <2>5 DEF Reads
<1>3. CASE ~ok
  <2>1. EndTask(w)
    BY <1>3 DEF OpenOrEnd
  <2> QED BY <1>1, <1>3, <2>1, EndsTask DEF TaskMoves, GivesUp
<1> QED BY <1>2, <1>3

LEMMA TaskOpenEffect ==
    ASSUME AttemptInv, NEW w \in Workers,
           \/ StartOpen(w) \/ InspectedOpen(w) \/ ProgressOpen(w) \/ RenderedOpen(w)
           \/ RenderRaisesOpen(w) \/ FailOpen(w)
    PROVE  TaskMoves(w) /\ (Reads(w) \/ GivesUp(w))
<1>0. /\ TaskPlace(worker[w])
      /\ worker[w].pc # "idle" /\ Current(w) => batch.status \in StatusOf(worker[w].action)
  BY DEF AttemptInv, Places, ActionsAreDue
<1>1. CASE StartOpen(w)
  <2> DEFINE ok == /\ Current(w)
                   /\ batch.status = IF worker[w].action = "inspect" THEN "inspecting" ELSE "pending"
  <2>1. worker[w].pc = "start" /\ OpenOrEnd(w, ok, "start") /\ ~Started(w)
    BY <1>1 DEF StartOpen, Started
  <2>2. ~ok /\ Current(w) => batch.status \notin Waiting
    BY <1>0, <2>1 DEF StatusOf, InspectStatus, ProcessStatus, Waiting
  <2> QED
    <3> HIDE DEF ok
    <3>1. ok => batch.status = IF worker[w].action = "inspect" THEN "inspecting" ELSE "pending"
      BY DEF ok
    <3> QED BY <2>1, <2>2, <3>1, OpenOrEndEffect DEF WorkerPc, RenderPc
<1>2. CASE InspectedOpen(w)
  BY <1>0, <1>2, OpenOrEndEffect DEF InspectedOpen, WorkerPc, RenderPc, TaskPlace
<1>3. ~Wanted(w) /\ Current(w) => batch.status \notin Waiting \cup Running
  BY DEF Wanted, Waiting, Running
<1>4. Wanted(w) => batch.status # "cancelled"
  BY DEF Wanted
<1>5. CASE ProgressOpen(w)
  BY <1>0, <1>3, <1>5, OpenOrEndEffect DEF ProgressOpen, WorkerPc, RenderPc, TaskPlace
<1>6. CASE RenderedOpen(w)
  BY <1>0, <1>6, OpenOrEndEffect DEF RenderedOpen, WorkerPc, RenderPc, TaskPlace
<1>7. CASE RenderRaisesOpen(w)
  BY <1>0, <1>3, <1>7, OpenOrEndEffect DEF RenderRaisesOpen, WorkerPc, RenderPc, TaskPlace
<1>8. CASE FailOpen(w)
  BY <1>0, <1>3, <1>4, <1>8, OpenOrEndEffect DEF FailOpen, WorkerPc, RenderPc, TaskPlace
<1> QED BY <1>1, <1>2, <1>5, <1>6, <1>7, <1>8

LEMMA FinalOpenEffect ==
    ASSUME AttemptInv, NEW w \in Workers, FinalOpen(w)
    PROVE  TaskMoves(w) /\ (Reads(w) \/ GivesUp(w))
<1>0. worker[w].pc = "loop" /\ TaskPlace(worker[w])
  BY DEF FinalOpen, AttemptInv, Places
<1>1. CASE OpenOrEnd(w, Wanted(w), "final")
  <2>1. /\ ~Wanted(w) /\ Current(w) => batch.status \notin Waiting \cup Running
        /\ Wanted(w) => batch.status # "cancelled"
    BY DEF Wanted, Waiting, Running
  <2> QED BY <1>0, <1>1, <2>1, OpenOrEndEffect DEF WorkerPc, RenderPc, TaskPlace
<1>2. CASE MayOpen(w) /\ GoWorker(w, "fail") /\ UNCHANGED <<rows, queue, issued, client, snap, crashes>>
  <2>1. /\ TaskMoves(w) /\ Keeps(w) /\ worker'[w].pc = "fail"
        /\ worker'[w].todo = worker[w].todo /\ worker'[w].cur = worker[w].cur
    BY <1>0, <1>2, KeepsPlace DEF TaskMoves, Keeps, TaskPlace, WorkerPc, RenderPc
  <2>2. ~InTxn(w)'
    BY <1>2 DEF MayOpen, InTxn
  <2> QED BY <1>0, <1>2, <2>1, <2>2 DEF Reads, Narrows, Due, Rendering, RenderPc, Started
<1> QED BY <1>1, <1>2 DEF FinalOpen

LEMMA NextItemEffect ==
    ASSUME AttemptInv, NEW w \in Workers, NextItem(w)
    PROVE  TaskMoves(w) /\ (Reads(w) \/ GivesUp(w))
<1>0. /\ worker[w].pc = "loop" /\ TaskPlace(worker[w]) /\ worker \in [Workers -> Worker]
      /\ UNCHANGED <<rows, issued, client, crashes>>
  BY Typed DEF NextItem, AttemptInv, Places
<1>1. CASE Wanted(w)
  <2>1. PICK d \in worker[w].todo :
            worker' = [worker EXCEPT ![w].pc = "progress", ![w].cur = d, ![w].todo = @ \ {d}]
    BY <1>1 DEF NextItem
  <2>2. UNCHANGED queue
    BY <1>1 DEF NextItem
  <2>3. /\ \A v \in Workers \ {w} : worker'[v] = worker[v]
        /\ worker'[w].pc = "progress" /\ worker'[w].token = worker[w].token
        /\ worker'[w].action = worker[w].action
        /\ worker'[w].cur = d /\ worker'[w].todo = worker[w].todo \ {d}
    BY <1>0, <2>1 DEF Worker
  <2>4. TaskMoves(w) /\ Keeps(w) /\ (Started(w)' = Started(w))
    BY <1>0, <2>2, <2>3 DEF TaskMoves, Keeps, TaskPlace, RenderPc, Started
  <2>5. Narrows(w)
    BY <1>0, <2>3 DEF Narrows, Due, Rendering, RenderPc
  <2>6. TaskChecked(w)'
    BY <2>3 DEF TaskChecked
  <2> QED BY <1>0, <2>4, <2>5, <2>6 DEF Reads
<1>2. CASE ~Wanted(w)
  <2>1. EndTask(w)
    BY <1>2 DEF NextItem
  <2>2. Current(w) => batch.status \notin Waiting \cup Running
    BY <1>2 DEF Wanted, Waiting, Running
  <2> QED BY <1>0, <2>1, <2>2, EndsTask DEF TaskMoves, GivesUp
<1> QED BY <1>1, <1>2

(* Giving up on the transaction, or on the inspection: "fail" is next.     *)
LEMMA RaisesEffect ==
    ASSUME AttemptInv, NEW w \in Workers, InspectRaises(w) \/ FinalAborts(w)
    PROVE  TaskMoves(w) /\ Reads(w)
<1>1. /\ worker[w].pc \in {"inspect", "final"} /\ GoWorker(w, "fail")
      /\ UNCHANGED <<rows, queue, issued, client, crashes>>
  BY DEF InspectRaises, FinalAborts
<1>2. ~InTxn(w)'
  <2>1. snap \in [Procs -> Snapshot \cup {None}] /\ w \in Procs
    BY Typed DEF AttemptInv, Procs
  <2> QED BY <2>1 DEF InspectRaises, FinalAborts, Close, InTxn
<1>3. /\ TaskMoves(w) /\ Keeps(w) /\ worker'[w].pc = "fail"
      /\ worker'[w].todo = worker[w].todo /\ worker'[w].cur = worker[w].cur
  BY <1>1, KeepsPlace DEF TaskMoves, Keeps, TaskPlace, WorkerPc, RenderPc
<1> QED BY <1>1, <1>2, <1>3 DEF Reads, Narrows, Due, Rendering, RenderPc, Started

LEMMA StartCommitEffect ==
    ASSUME AttemptInv, NEW w \in Workers, StartCommit(w), ~crossed'
    PROVE  TaskMoves(w) /\ Begins(w) /\ Close(w) /\ InTxn(w)
<1>1. /\ worker[w].pc = "start" /\ InTxn(w) /\ Commit(w) /\ Close(w) /\ SaveItems(snap[w].items)
      /\ UNCHANGED <<group, layers, queue, issued, client, crashes>>
  BY DEF StartCommit, Commit
<1>2. /\ w \in Procs /\ FencedInv /\ snap[w].items = items /\ Current(w) /\ TaskPlace(worker[w])
      /\ batch.status = IF worker[w].action = "inspect" THEN "inspecting" ELSE "pending"
  BY <1>1, TaskInTxn DEF TaskChecked
<1>3. items' = items
  BY <1>1, <1>2, SavedItems
<1>4. worker \in [Workers -> Worker] /\ worker[w].todo = {}
  BY <1>1, <1>2, Typed DEF TaskPlace
<1>5. worker[w].action \in Actions
  BY <1>4 DEF Worker
<1>6. CASE worker[w].action = "inspect"
  <2>1. /\ SaveBatch(w, [snap[w].batch EXCEPT !.status = "inspecting_running"])
        /\ GoWorker(w, "inspect")
    BY <1>6 DEF StartCommit
  <2>2. batch'.status = "inspecting_running" /\ batch'.token = batch.token
    BY <1>1, <1>2, <2>1, SavedStatus DEF BatchStatus
  <2>3. TaskMoves(w) /\ Keeps(w) /\ Due(worker'[w]) = {} /\ Rendering(worker'[w]) = {}
        /\ ~Started(w) /\ Started(w)'
    BY <1>1, <1>2, <1>4, <1>6, <2>1, KeepsPlace
    DEF TaskMoves, Keeps, Due, Rendering, RenderPc, Started, TaskPlace, WorkerPc
  <2> QED BY <1>1, <1>2, <1>3, <1>6, <2>2, <2>3 DEF Begins
<1>7. CASE worker[w].action # "inspect"
  <2>1. /\ SaveBatch(w, [snap[w].batch EXCEPT !.status = "processing"])
        /\ worker' = [worker EXCEPT ![w].pc = "loop", ![w].todo = Unfinished(snap[w].items)]
    BY <1>7 DEF StartCommit
  <2>2. batch'.status = "processing" /\ batch'.token = batch.token
    BY <1>1, <1>2, <2>1, SavedStatus DEF BatchStatus
  <2>3. /\ \A v \in Workers \ {w} : worker'[v] = worker[v]
        /\ worker'[w].pc = "loop" /\ worker'[w].todo = Unfinished(items)
        /\ worker'[w].token = worker[w].token /\ worker'[w].action = worker[w].action
    BY <1>2, <1>4, <2>1 DEF Worker
  <2>4. TaskMoves(w) /\ Keeps(w) /\ Due(worker'[w]) = Unfinished(items) /\ Rendering(worker'[w]) = {}
        /\ ~Started(w) /\ Started(w)'
    BY <1>1, <1>5, <1>7, <2>3
    DEF TaskMoves, Keeps, Due, Rendering, RenderPc, Started, TaskPlace, Actions
  <2> QED BY <1>1, <1>2, <1>3, <1>7, <2>2, <2>4 DEF Begins
<1> QED BY <1>1, <1>6, <1>7

(* A commit of one dataset's state: processing, failed or done.            *)
LEMMA MarkEffect ==
    ASSUME AttemptInv, NEW w \in Workers, InTxn(w), Commit(w), ~crossed',
           NEW s \in ItemStatus \ {"absent"}, NEW pc \in {"render", "loop"},
           worker[w].pc \in {"progress", "save", "failitem"},
           pc = "render" => worker[w].pc = "progress",
           s = "done" <=> worker[w].pc = "save", s = "done" => pc = "loop",
           SaveBatch(w, snap[w].batch), SaveItems(Marked(snap[w].items, {worker[w].cur}, s)),
           GoWorker(w, pc), UNCHANGED <<group, queue, issued, client, crashes>>
    PROVE  TaskMoves(w) /\ Writes(w)
<1>1. /\ w \in Procs /\ FencedInv /\ snap[w].batch = batch /\ Current(w) /\ TaskPlace(worker[w])
  BY TaskInTxn
<1>2. batch \in Batch /\ CurIsDataset
  BY <1>1, Typed DEF FencedInv, Inv
<1>3. batch' = batch /\ worker[w].cur \in Datasets
  BY <1>1, <1>2, SavedBatch DEF CurIsDataset
<1>4. \A d \in Datasets : /\ items'[d].selected = items[d].selected
                          /\ items'[d].status = IF d \in {worker[w].cur} THEN s ELSE items[d].status
  BY <1>1, SavedMarked
<1>5. /\ TaskMoves(w) /\ Keeps(w) /\ worker[w].action # "inspect" /\ worker'[w].pc = pc
      /\ worker'[w].todo = worker[w].todo /\ worker'[w].cur = worker[w].cur
  BY <1>1, KeepsPlace DEF TaskMoves, Keeps, TaskPlace, WorkerPc, RenderPc
<1>6. Started(w) /\ Started(w)' /\ Narrows(w)
  BY <1>5 DEF Started, Narrows, Due, Rendering, RenderPc
<1>7. /\ worker[w].cur \in Rendering(worker[w])
      /\ worker[w].pc = "save" => Due(worker'[w]) = worker[w].todo
  BY <1>5 DEF Due, Rendering, RenderPc
<1>8. items'[worker[w].cur].status = "done" <=> worker[w].pc = "save"
  BY <1>3, <1>4
<1> QED BY <1>1, <1>3, <1>4, <1>5, <1>6, <1>7, <1>8 DEF Writes

LEMMA WriteCommitEffect ==
    ASSUME AttemptInv, NEW w \in Workers,
           ProgressCommit(w) \/ RenderedCommit(w) \/ RenderRaisesCommit(w), ~crossed'
    PROVE  TaskMoves(w) /\ Writes(w) /\ Close(w) /\ InTxn(w)
<1>1. CASE ProgressCommit(w)
  BY <1>1, MarkEffect DEF ProgressCommit, ItemStatus, Commit
<1>2. CASE RenderedCommit(w)
  BY <1>2, MarkEffect DEF RenderedCommit, ItemStatus, Commit
<1>3. CASE RenderRaisesCommit(w)
  BY <1>3, MarkEffect DEF RenderRaisesCommit, ItemStatus, Commit
<1> QED BY <1>1, <1>2, <1>3

LEMMA InspectedCommitEffect ==
    ASSUME AttemptInv, NEW w \in Workers, InspectedCommit(w), ~crossed'
    PROVE  /\ TaskMoves(w) /\ Concludes(w) /\ Close(w) /\ InTxn(w)
           /\ worker[w].action = "inspect" /\ batch'.status = "ready"
<1> DEFINE new == [d \in Datasets |-> [selected |-> FALSE, status |-> "detected"]]
<1>1. /\ worker[w].pc = "inspect" /\ InTxn(w) /\ EndTask(w) /\ Commit(w) /\ Close(w)
      /\ SaveBatch(w, [snap[w].batch EXCEPT !.status = "ready"])
      /\ SaveItems(new) /\ UNCHANGED <<group, layers, issued, client, crashes>>
  BY DEF InspectedCommit, Commit
<1>2. w \in Procs /\ FencedInv /\ Current(w) /\ worker[w].action = "inspect" /\ Started(w)
  BY <1>1, TaskInTxn DEF TaskPlace, Started
<1>3. batch'.status = "ready" /\ batch'.token = batch.token
  BY <1>1, <1>2, SavedStatus DEF BatchStatus
<1>4. \A d \in Datasets : ~items'[d].selected /\ items'[d].status = "detected"
  BY <1>1 DEF SaveItems
<1> QED BY <1>1, <1>2, <1>3, <1>4, EndsTask DEF TaskMoves, Concludes

LEMMA FailCommitEffect ==
    ASSUME AttemptInv, NEW w \in Workers, FailCommit(w), ~crossed'
    PROVE  /\ TaskMoves(w) /\ Concludes(w) /\ Close(w) /\ InTxn(w) /\ UNCHANGED <<items, group>>
           /\ batch'.status = IF worker[w].action = "inspect" THEN "inspection_failed" ELSE "failed"
           /\ batch.status # "cancelled"
<1> DEFINE s == IF worker[w].action = "inspect" THEN "inspection_failed" ELSE "failed"
<1>1. /\ worker[w].pc = "fail" /\ InTxn(w) /\ EndTask(w) /\ Commit(w) /\ Close(w)
      /\ SaveBatch(w, [snap[w].batch EXCEPT !.status = s])
      /\ SaveItems(snap[w].items) /\ UNCHANGED <<group, layers, issued, client, crashes>>
  BY DEF FailCommit, Commit
<1>2. w \in Procs /\ FencedInv /\ Current(w) /\ batch.status # "cancelled" /\ Started(w)
  BY <1>1, TaskInTxn DEF TaskChecked, Started
<1>3. batch'.status = s /\ batch'.token = batch.token
  BY <1>1, <1>2, SavedStatus DEF BatchStatus
<1>4. items' = items
  BY <1>1, <1>2, SavedItems
<1> QED BY <1>1, <1>2, <1>3, <1>4, EndsTask DEF TaskMoves, Concludes

LEMMA FinalCommitEffect ==
    ASSUME AttemptInv, NEW w \in Workers, FinalCommit(w), ~crossed'
    PROVE  /\ TaskMoves(w) /\ Concludes(w) /\ Close(w) /\ InTxn(w) /\ UNCHANGED items
           /\ worker[w].action = "process" /\ batch.status # "cancelled"
           /\ batch'.status = "done" => Unfinished(items) = {}
           /\ batch'.status = "failed" => group'.status \in {group.status, "failed"}
<1>1. /\ worker[w].pc = "final" /\ InTxn(w) /\ EndTask(w) /\ Commit(w) /\ Close(w)
      /\ SaveItems(snap[w].items) /\ UNCHANGED <<layers, issued, client, crashes>>
  BY DEF FinalCommit, Commit
<1>2. /\ w \in Procs /\ FencedInv /\ Current(w) /\ batch.status # "cancelled" /\ Started(w)
      /\ worker[w].action = "process" /\ snap[w].items = items /\ snap[w].group = group
  BY <1>1, TaskInTxn DEF TaskChecked, Started, TaskPlace
<1> DEFINE publishes == Complete(snap[w]) /\ snap[w].batch.grouped
           s(p) == IF Complete(snap[w]) /\ (publishes => p) THEN "done" ELSE "failed"
<1>3. PICK p \in BOOLEAN :
          /\ group' = IF ~publishes THEN group
                      ELSE [snap[w].group EXCEPT !.status = IF p THEN "published" ELSE "failed"]
          /\ SaveBatch(w, [snap[w].batch EXCEPT !.status = s(p)])
  BY DEF FinalCommit, Commit
<1>4. batch'.status = s(p) /\ batch'.token = batch.token
  <2> HIDE DEF publishes
  <2> QED BY <1>1, <1>2, <1>3, SavedStatus DEF BatchStatus
<1>5. items' = items
  BY <1>1, <1>2, SavedItems
<1>6. Complete(snap[w]) <=> Unfinished(items) = {}
  BY <1>2 DEF Complete
<1>7. batch'.status = "failed" => group'.status \in {group.status, "failed"}
  <2>1. group \in Group
    BY <1>2, Typed
  <2>2. group \in [status : GroupStatus, members : SUBSET Datasets]
    BY <2>1 DEF Group
  <2>3. CASE ~publishes
    BY <1>3, <2>3
  <2>4. CASE publishes
    <3>1. group' = [group EXCEPT !.status = IF p THEN "published" ELSE "failed"]
      BY <1>2, <1>3, <2>4
    <3>2. group'.status = IF p THEN "published" ELSE "failed"
      BY <2>2, <3>1
    <3> QED BY <1>4, <2>4, <3>2
  <2> QED BY <2>3, <2>4
<1>8. batch'.status \in {"done", "failed"} /\ (batch'.status = "done" => Unfinished(items) = {})
  BY <1>4, <1>6
<1> QED BY <1>1, <1>2, <1>4, <1>5, <1>7, <1>8, EndsTask DEF TaskMoves, Concludes

(* Every step of a task, but its delivery and a crash, is of these kinds.  *)
LEMMA TaskStepEffect ==
    ASSUME AttemptInv, NEW w \in Workers, TaskStep(w), ~crossed'
    PROVE  /\ TaskMoves(w)
           /\ \/ Reads(w) \/ GivesUp(w)
              \/ (Begins(w) \/ Writes(w) \/ Concludes(w)) /\ Close(w) /\ InTxn(w)
BY TaskOpenEffect, FinalOpenEffect, NextItemEffect, RaisesEffect, StartCommitEffect,
   WriteCommitEffect, InspectedCommitEffect, FailCommitEffect, FinalCommitEffect DEF TaskStep

(* Every step of a request, and what becomes of items and group in it.     *)
LEMMA RequestStepEffect ==
    ASSUME AttemptInv, NEW c \in Clients, Request(c) \/ ClientStep(c) \/ ClientCrash(c), ~crossed'
    PROVE  /\ RequestMoves(c) /\ (crashes' = crashes \/ crashes' # 0)
           /\ \/ Draws(c)
              \/ /\ Takes(c)
                 /\ batch'.status = "inspecting" =>
                        /\ batch.status \in {"absent", "inspection_failed"}
                        /\ KeepsItems /\ UNCHANGED group
              \/ Passes(c) /\ KeepsItems /\ group'.status \in {group.status, "absent"}
<1>1. CASE InspectOpen(c)
  BY <1>1, OpenAttemptEffect DEF InspectOpen, Actions
<1>2. CASE ConfigureOpen(c)
  BY <1>2, OpenAttemptEffect DEF ConfigureOpen, Actions
<1>3. CASE RetryOpen(c)
  BY <1>3, OpenAttemptEffect DEF RetryOpen, Actions
<1>4. CASE InspectCommit(c)
  BY <1>4, InspectCommitEffect DEF KeepsItems
<1>5. CASE ConfigureCommit(c)
  BY <1>5, ConfigureCommitEffect
<1>6. CASE RetryCommit(c)
  BY <1>6, RetryCommitEffect DEF Takes
<1>7. CASE CancelCommit(c)
  BY <1>7, CancelCommitEffect
<1>8. CASE UndoCommit(c)
  BY <1>8, UndoCommitEffect DEF KeepsItems
<1>9. CASE \/ UniqueViolation(c) \/ CancelOpen(c) \/ Dispatch(c) \/ DispatchRaises(c)
           \/ UndoOpen(c) \/ DeleteGroup(c) \/ ClientCrash(c)
           \/ DeleteLayerOpen(c) \/ DeleteLayerCommit(c)
  BY <1>9, PassingEffect DEF KeepsItems
<1> QED BY <1>1, <1>2, <1>3, <1>4, <1>5, <1>6, <1>7, <1>8, <1>9 DEF Request, ClientStep

-----------------------------------------------------------------------------
(* Each part of the invariant is kept: first by the steps of requests.     *)

(* A status belongs to one of the two actions.                             *)
LEMMA StatusTellsAction ==
    ASSUME NEW a, NEW b, NEW s, s \in StatusOf(a), s \in StatusOf(b)
    PROVE  StatusOf(a) = StatusOf(b)
BY DEF StatusOf, InspectStatus, ProcessStatus

LEMMA RequestTokens ==
    ASSUME AttemptInv, NEW c \in Clients, RequestMoves(c), Draws(c) \/ Takes(c) \/ Passes(c)
    PROVE  Places' /\ TokensAreIssued'
<1>0. /\ issued \in Nat /\ batch.token \in Nat /\ \A m \in queue : m.token \in Nat
      /\ \A e \in Clients : client[e].token \in Nat
      /\ \A w \in Workers : worker[w].token \in Nat
  BY Typed, ConstantsAssumption DEF AttemptInv, Batch, Message, Client, Worker
<1>1. Places'
  BY DEF AttemptInv, RequestMoves, Places
<1>2. CASE Draws(c)
  BY <1>0, <1>1, <1>2 DEF AttemptInv, RequestMoves, Draws, TokensAreIssued, rows
<1>3. CASE Takes(c)
  BY <1>0, <1>1, <1>3 DEF AttemptInv, RequestMoves, Takes, TokensAreIssued
<1>4. CASE Passes(c)
  BY <1>0, <1>1, <1>4 DEF AttemptInv, RequestMoves, Passes, TokensAreIssued
<1> QED BY <1>1, <1>2, <1>3, <1>4

LEMMA RequestFresh ==
    ASSUME AttemptInv, NEW c \in Clients, RequestMoves(c), Draws(c) \/ Takes(c) \/ Passes(c)
    PROVE  DrawnIsFresh'
<1>0. /\ issued \in Nat /\ batch.token \in Nat /\ \A m \in queue : m.token \in Nat
      /\ \A e \in Clients : client[e].token \in Nat
      /\ \A w \in Workers : worker[w].token \in Nat
  BY Typed, ConstantsAssumption DEF AttemptInv, Batch, Message, Client, Worker
<1>1. /\ TokensAreIssued /\ DrawnIsFresh /\ UNCHANGED worker
      /\ \A e \in Clients \ {c} : client'[e] = client[e]
  BY DEF AttemptInv, RequestMoves
<1>2. CASE Draws(c)
  <2>1. /\ UNCHANGED <<batch, queue>> /\ Drawing(c)' /\ client'[c].token = issued + 1
    BY <1>2 DEF Draws, rows
  <2>2. \A t \in Nat : t <= issued => t # issued + 1
    BY <1>0
  <2> QED BY <1>0, <1>1, <2>1, <2>2 DEF TokensAreIssued, DrawnIsFresh, Drawing, Owning
<1>3. CASE Takes(c)
  <2>1. ~Drawing(c)' /\ Owning(c)'
    BY <1>3 DEF Takes, Drawing, Owning
  <2> QED BY <1>1, <1>3, <2>1 DEF Takes, DrawnIsFresh, Drawing, Owning
<1>4. CASE Passes(c)
  <2>1. /\ batch'.token = batch.token /\ ~Drawing(c)'
        /\ Owning(c)' => Owning(c) /\ client'[c].token = client[c].token
        /\ \A m \in queue' : m \in queue \/ (Owning(c) /\ m.token = client[c].token)
    BY <1>4 DEF Passes
  <2> QED BY <1>1, <2>1 DEF DrawnIsFresh, Drawing, Owning
<1> QED BY <1>2, <1>3, <1>4

LEMMA RequestActions ==
    ASSUME AttemptInv, NEW c \in Clients, RequestMoves(c), Draws(c) \/ Takes(c) \/ Passes(c)
    PROVE  ActionsAreDue'
<1>1. /\ ActionsAreDue /\ DrawnIsFresh /\ UNCHANGED worker
      /\ \A e \in Clients \ {c} : client'[e] = client[e]
  BY DEF AttemptInv, RequestMoves
<1>2. CASE Draws(c)
  <2>1. UNCHANGED <<batch, queue>> /\ ~Owning(c)'
    BY <1>2 DEF Draws, rows, Drawing, Owning
  <2> QED BY <1>1, <2>1 DEF ActionsAreDue, Current, Owning
<1>3. CASE Takes(c)
  <2>1. /\ Drawing(c) /\ batch'.token = client[c].token /\ UNCHANGED queue
        /\ client'[c].action = client[c].action /\ batch'.status \in StatusOf(client[c].action)
    BY <1>3 DEF Takes, StatusOf, InspectStatus, ProcessStatus
  <2>2. \A m \in queue' : m.token # batch'.token
    BY <1>1, <2>1 DEF DrawnIsFresh
  <2>3. \A e \in Clients \ {c} : ~(Owning(e)' /\ client'[e].token = batch'.token)
    BY <1>1, <2>1 DEF DrawnIsFresh, Owning
  <2>4. \A w \in Workers : ~(worker'[w].pc # "idle" /\ Current(w)')
    BY <1>1, <2>1 DEF DrawnIsFresh, Current
  <2> QED BY <2>1, <2>2, <2>3, <2>4 DEF ActionsAreDue
<1>4. CASE Passes(c)
  <2>1. \A a : batch.status \in StatusOf(a) => batch'.status \in StatusOf(a)
    <3>1. CASE batch'.status = batch.status
      BY <3>1
    <3>2. CASE batch'.status = "cancelled" /\ batch.status \in {"pending", "processing"}
      BY <3>2 DEF StatusOf, InspectStatus, ProcessStatus
    <3>3. CASE /\ Owning(c) /\ client[c].token = batch.token
               /\ batch'.status = IF client[c].action = "inspect" THEN "inspection_failed"
                                                                  ELSE "failed"
      <4>1. batch.status \in StatusOf(client[c].action)
        BY <1>1, <3>3 DEF ActionsAreDue
      <4>2. batch'.status \in StatusOf(client[c].action)
        BY <3>3 DEF StatusOf, InspectStatus, ProcessStatus
      <4> QED BY <4>1, <4>2, StatusTellsAction
    <3> QED BY <1>4, <3>1, <3>2, <3>3 DEF Passes
  <2>2. /\ batch'.token = batch.token
        /\ Owning(c)' => /\ Owning(c) /\ client'[c].token = client[c].token
                         /\ client'[c].action = client[c].action
        /\ \A m \in queue' : m \in queue \/ (/\ Owning(c) /\ m.token = client[c].token
                                             /\ m.action = client[c].action)
    BY <1>4 DEF Passes
  <2>3. \A m \in queue' : m.token = batch.token => batch.status \in StatusOf(m.action)
    BY <1>1, <2>2 DEF ActionsAreDue
  <2>4. \A e \in Clients : Owning(e)' /\ client'[e].token = batch.token =>
            batch.status \in StatusOf(client'[e].action)
    BY <1>1, <2>2 DEF ActionsAreDue, Owning
  <2> QED BY <1>1, <2>1, <2>2, <2>3, <2>4 DEF ActionsAreDue, Current
<1> QED BY <1>2, <1>3, <1>4

LEMMA RequestOneTask ==
    ASSUME AttemptInv, NEW c \in Clients, RequestMoves(c),
           Draws(c) \/ Takes(c) \/ (Passes(c) /\ KeepsItems)
    PROVE  OneEach' /\ TodoIsDue'
<1>1. OneEach /\ TodoIsDue /\ DrawnIsFresh /\ UNCHANGED worker
  BY DEF AttemptInv, RequestMoves
<1>2. CASE Draws(c)
  <2>1. UNCHANGED <<batch, items>>
    BY <1>2 DEF Draws, rows
  <2> QED BY <1>1, <2>1 DEF OneEach, TodoIsDue, Started, Current
<1>3. CASE Takes(c)
  <2>1. \A w \in Workers : ~(Started(w)' /\ Current(w)')
    BY <1>1, <1>3 DEF Takes, DrawnIsFresh, Started, Current
  <2> QED BY <2>1 DEF OneEach, TodoIsDue
<1>4. CASE Passes(c) /\ KeepsItems
  <2>1. /\ batch'.token = batch.token
        /\ batch'.status \in Waiting \cup {"done"} => batch'.status = batch.status
    BY <1>4 DEF Passes, Waiting
  <2>2. OneEach'
    BY <1>1, <2>1 DEF OneEach, Started, Current
  <2>3. \A w \in Workers : worker[w].pc \in RenderPc => worker[w].cur \in Datasets
    BY DEF AttemptInv, FencedInv, Inv, CurIsDataset, RenderPc
  <2>4. \A w \in Workers : Due(worker[w]) \subseteq Datasets
    BY <2>3, Typed DEF AttemptInv, Due, Rendering, Worker
  <2>5. TodoIsDue'
    BY <1>1, <1>4, <2>1, <2>4 DEF TodoIsDue, KeepsItems, Started, Current
  <2> QED BY <2>2, <2>5
<1> QED BY <1>2, <1>3, <1>4

LEMMA RequestUnchosen ==
    ASSUME AttemptInv, NEW c \in Clients,
           \/ Draws(c)
           \/ Takes(c) /\ (batch'.status = "inspecting" =>
                               /\ batch.status \in {"absent", "inspection_failed"}
                               /\ KeepsItems /\ UNCHANGED group)
           \/ Passes(c) /\ KeepsItems /\ group'.status \in {group.status, "absent"}
    PROVE  Unchosen'
<1>1. Unchosen /\ ActionsAreDue
  BY DEF AttemptInv
<1>2. CASE Draws(c)
  BY <1>1, <1>2 DEF Draws, rows, Unchosen
<1>3. CASE Takes(c) /\ (batch'.status = "inspecting" =>
                            /\ batch.status \in {"absent", "inspection_failed"}
                            /\ KeepsItems /\ UNCHANGED group)
  BY <1>1, <1>3 DEF Takes, KeepsItems, Unchosen, InspectStatus
<1>4. CASE Passes(c) /\ KeepsItems /\ group'.status \in {group.status, "absent"}
  <2>1. batch'.status \in InspectStatus \cup {"absent"} => batch.status \in InspectStatus \cup {"absent"}
    BY <1>1, <1>4 DEF Passes, ActionsAreDue, StatusOf, InspectStatus, ProcessStatus
  <2> QED BY <1>1, <1>4, <2>1 DEF KeepsItems, Unchosen
<1> QED BY <1>2, <1>3, <1>4

(* What the request has opened its transaction for is what it has checked. *)
LEMMA RequestOpens ==
    ASSUME AttemptInv, NEW c \in Clients, Request(c) \/ ClientStep(c) \/ ClientCrash(c), InTxn(c)'
    PROVE  RequestChecked(c)'
<1>0. /\ snap \in [Procs -> Snapshot \cup {None}] /\ client \in [Clients -> Client] /\ c \in Procs
      /\ InTxn(c) => RequestChecked(c)
      /\ Open(c) => snap'[c].batch = batch
  BY Typed, OpenCopies DEF AttemptInv, Procs, Checked
<1>1. CASE InspectOpen(c)
  <2>1. client'[c].pc = "inspect" /\ Open(c)
    BY <1>1, OpenAttemptEffect DEF InspectOpen, Actions, Draws
  <2> QED BY <1>0, <1>1, <2>1 DEF InspectOpen, RequestChecked
<1>2. CASE ConfigureOpen(c)
  <2>1. client'[c].pc = "configure" /\ Open(c)
    BY <1>2, OpenAttemptEffect DEF ConfigureOpen, Actions, Draws
  <2> QED BY <1>0, <1>2, <2>1 DEF ConfigureOpen, RequestChecked
<1>3. CASE RetryOpen(c)
  <2>1. /\ client'[c].pc = "retry" /\ Open(c)
        /\ client'[c].action = IF batch.status = "inspection_failed" THEN "inspect" ELSE "process"
    BY <1>3, OpenAttemptEffect DEF RetryOpen, Actions, Draws
  <2> QED BY <1>0, <1>3, <2>1 DEF RetryOpen, RequestChecked
<1>4. CASE CancelOpen(c)
  <2>1. client'[c].pc = "cancel" /\ Open(c) /\ batch.status \in {"pending", "processing"}
    BY <1>0, <1>4 DEF CancelOpen, GoClient, Client
  <2> QED BY <1>0, <2>1 DEF RequestChecked
<1>5. CASE UndoOpen(c)
  <2>1. client[c].pc = "undo" /\ snap[c] = None
    BY <1>5 DEF UndoOpen, MayOpen
  <2>2. batch.token = client[c].token /\ Open(c) /\ UNCHANGED client
    BY <1>5, <2>1 DEF UndoOpen, InTxn
  <2> QED BY <1>0, <2>1, <2>2 DEF RequestChecked
<1>6. CASE DeleteGroup(c) \/ DeleteLayerOpen(c)
  BY <1>6 DEF DeleteGroup, DeleteLayerOpen, MayOpen, InTxn
<1>7. CASE Dispatch(c) \/ DispatchRaises(c) \/ DeleteLayerCommit(c)
  <2>1. client[c].pc \in {"dispatch", "drop"} /\ UNCHANGED snap
    BY <1>7 DEF Dispatch, DispatchRaises, DeleteLayerCommit
  <2> QED BY <1>0, <2>1 DEF InTxn, RequestChecked
<1>8. ASSUME Close(c) PROVE FALSE
  BY <1>0, <1>8 DEF Close, InTxn
<1>9. CASE \/ InspectCommit(c) \/ ConfigureCommit(c) \/ UniqueViolation(c) \/ CancelCommit(c)
           \/ RetryCommit(c) \/ UndoCommit(c) \/ ClientCrash(c)
  BY <1>8, <1>9 DEF InspectCommit, ConfigureCommit, UniqueViolation, CancelCommit,
                    RetryCommit, UndoCommit, ClientCrash, Commit
<1> QED BY <1>1, <1>2, <1>3, <1>4, <1>5, <1>6, <1>7, <1>9 DEF Request, ClientStep

LEMMA RequestKeepsChecked ==
    ASSUME AttemptInv, NEW c \in Clients, Request(c) \/ ClientStep(c) \/ ClientCrash(c), ~crossed'
    PROVE  Checked'
<1>1. Checked /\ Inv /\ RequestMoves(c)
  BY RequestStepEffect DEF AttemptInv, FencedInv
<1>2. UNCHANGED worker /\ \A q \in Procs : q # c => snap'[q] = snap[q]
  BY <1>1, ClientShape
<1>3. ASSUME NEW e \in Clients, InTxn(e)' PROVE RequestChecked(e)'
  <2>1. CASE e # c
    <3>1. snap'[e] = snap[e] /\ client'[e] = client[e]
      BY <1>1, <1>2, <2>1 DEF Procs, RequestMoves
    <3> QED BY <1>1, <1>3, <3>1 DEF Checked, RequestChecked, InTxn
  <2> QED BY <1>3, <2>1, RequestOpens
<1>4. ASSUME NEW w \in Workers, InTxn(w)' PROVE TaskChecked(w)'
  <2>1. snap'[w] = snap[w] /\ UNCHANGED worker
    BY <1>2, ProcsApart
  <2> QED BY <1>1, <1>4, <2>1 DEF Checked, TaskChecked, InTxn
<1> QED BY <1>3, <1>4 DEF Checked

-----------------------------------------------------------------------------
(* The same for the steps of tasks, for a delivery and for a lost worker.  *)

LEMMA TaskTokens ==
    ASSUME AttemptInv, NEW w \in Workers, TaskMoves(w),
           Reads(w) \/ GivesUp(w) \/ Begins(w) \/ Writes(w) \/ Concludes(w)
    PROVE  Places' /\ TokensAreIssued' /\ DrawnIsFresh'
<1>0. issued \in Nat /\ Places /\ TokensAreIssued /\ DrawnIsFresh
  BY Typed DEF AttemptInv
<1>1. /\ UNCHANGED <<client, issued>> /\ worker[w].pc # "idle" /\ TaskPlace(worker'[w])
      /\ \A v \in Workers \ {w} : worker'[v] = worker[v]
  BY DEF TaskMoves
<1>2. /\ batch'.token = batch.token /\ queue' \subseteq queue
      /\ \/ worker'[w].token = worker[w].token /\ worker'[w].pc # "idle"
         \/ worker'[w].token = 0 /\ worker'[w].pc = "idle"
  BY EndsTask DEF Reads, GivesUp, Begins, Writes, Concludes, Keeps, rows
<1>3. Places'
  BY <1>0, <1>1 DEF Places
<1>4. TokensAreIssued'
  BY <1>0, <1>1, <1>2 DEF TokensAreIssued
<1>5. DrawnIsFresh'
  BY <1>0, <1>1, <1>2 DEF DrawnIsFresh, Drawing, Owning
<1> QED BY <1>3, <1>4, <1>5

LEMMA TaskActions ==
    ASSUME AttemptInv, NEW w \in Workers, TaskMoves(w),
           Reads(w) \/ GivesUp(w) \/ Begins(w) \/ Writes(w) \/ Concludes(w)
    PROVE  ActionsAreDue'
<1>1. /\ UNCHANGED client /\ worker[w].pc # "idle" /\ ActionsAreDue
      /\ \A v \in Workers \ {w} : worker'[v] = worker[v]
  BY DEF TaskMoves, AttemptInv
<1>2. /\ batch'.token = batch.token /\ queue' \subseteq queue
      /\ \/ worker'[w].token = worker[w].token /\ worker'[w].action = worker[w].action
         \/ worker'[w].pc = "idle"
  BY EndsTask DEF Reads, GivesUp, Begins, Writes, Concludes, Keeps, rows
<1>3. \/ batch'.status = batch.status
      \/ Current(w) /\ batch'.status \in StatusOf(worker[w].action)
  <2>1. CASE Reads(w) \/ GivesUp(w) \/ Writes(w)
    BY <2>1 DEF Reads, GivesUp, Writes, rows
  <2>2. CASE Begins(w)
    BY <2>2 DEF Begins, StatusOf, InspectStatus, ProcessStatus
  <2>3. CASE Concludes(w)
    BY <2>3 DEF Concludes, StatusOf, InspectStatus, ProcessStatus
  <2> QED BY <2>1, <2>2, <2>3
<1>4. Current(w) => batch.status \in StatusOf(worker[w].action)
  BY <1>1 DEF ActionsAreDue
<1>5. \A a : batch.status \in StatusOf(a) => batch'.status \in StatusOf(a)
  BY <1>3, <1>4, StatusTellsAction
<1> QED BY <1>1, <1>2, <1>5 DEF ActionsAreDue, Current, Owning

LEMMA TaskOneTask ==
    ASSUME AttemptInv, NEW w \in Workers, TaskMoves(w),
           Reads(w) \/ GivesUp(w) \/ Begins(w) \/ Writes(w) \/ Concludes(w)
    PROVE  OneEach'
<1>1. \A v \in Workers \ {w} : worker'[v] = worker[v]
  BY DEF TaskMoves
<1>2. OneEach
  BY DEF AttemptInv
<1>3. CASE Reads(w)
  BY <1>1, <1>2, <1>3 DEF Reads, Keeps, OneEach, Started, Current, rows
<1>4. CASE GivesUp(w)
  <2>1. ~Started(w)' /\ UNCHANGED batch
    BY <1>4, EndsTask DEF GivesUp, rows, Started
  <2> QED BY <1>1, <1>2, <2>1 DEF OneEach, Started, Current
<1>5. CASE Begins(w)
  <2>1. \A v \in Workers : ~(Started(v) /\ Current(v))
    BY <1>2, <1>5 DEF Begins, OneEach, Waiting
  <2>2. batch'.status \notin Waiting \cup {"done"} /\ batch'.token = batch.token
    BY <1>5 DEF Begins, Waiting
  <2>3. \A v \in Workers : Started(v)' /\ Current(v)' => v = w
    BY <1>1, <2>1, <2>2 DEF Started, Current
  <2> QED BY <2>2, <2>3 DEF OneEach
<1>6. CASE Writes(w)
  BY <1>1, <1>2, <1>6 DEF Writes, Keeps, OneEach, Started, Current
<1>7. CASE Concludes(w)
  <2>1. ~Started(w)' /\ batch'.token = batch.token
    BY <1>7, EndsTask DEF Concludes, Started
  <2>2. \A v \in Workers \ {w} : ~(Started(v) /\ Current(v))
    BY <1>2, <1>7 DEF Concludes, OneEach
  <2>3. \A v \in Workers : ~(Started(v)' /\ Current(v)')
    BY <1>1, <2>1, <2>2 DEF Started, Current
  <2> QED BY <2>3 DEF OneEach
<1> QED BY <1>3, <1>4, <1>5, <1>6, <1>7

LEMMA TaskTodo ==
    ASSUME AttemptInv, NEW w \in Workers, TaskMoves(w),
           Reads(w) \/ GivesUp(w) \/ Begins(w) \/ Writes(w) \/ Concludes(w)
    PROVE  TodoIsDue'
<1>1. \A v \in Workers \ {w} : worker'[v] = worker[v]
  BY DEF TaskMoves
<1>2. OneEach /\ TodoIsDue
  BY DEF AttemptInv
<1>3. CASE Reads(w)
  BY <1>1, <1>2, <1>3 DEF Reads, Keeps, Narrows, TodoIsDue, Started, Current, rows
<1>4. CASE GivesUp(w)
  <2>1. ~Started(w)' /\ UNCHANGED <<batch, items>>
    BY <1>4, EndsTask DEF GivesUp, rows, Started
  <2> QED BY <1>1, <1>2, <2>1 DEF TodoIsDue, Started, Current
<1>5. CASE Begins(w)
  <2>1. /\ UNCHANGED items /\ batch'.token = batch.token
        /\ \A d \in Due(worker'[w]) : items[d].selected /\ items[d].status # "done"
        /\ Rendering(worker'[w]) \cap worker'[w].todo = {}
    BY <1>5 DEF Begins, Unfinished
  <2> QED BY <1>1, <1>2, <2>1 DEF TodoIsDue, Started, Current
<1>6. CASE Writes(w)
  <2>1. \A v \in Workers \ {w} : ~(Started(v)' /\ Current(v)')
    BY <1>1, <1>2, <1>6 DEF Writes, OneEach, Started, Current
  <2>2. worker[w].todo \subseteq Datasets /\ (worker[w].pc \in RenderPc => worker[w].cur \in Datasets)
    BY Typed DEF AttemptInv, FencedInv, Inv, CurIsDataset, RenderPc, Worker
  <2>3. /\ Due(worker[w]) \subseteq Datasets /\ worker[w].cur \in Datasets
        /\ worker[w].todo \subseteq Due(worker[w])
    BY <1>6, <2>2 DEF Writes, Due, Rendering
  <2>4. /\ \A d \in Due(worker[w]) : items[d].selected /\ items[d].status # "done"
        /\ Rendering(worker[w]) \cap worker[w].todo = {}
    BY <1>2, <1>6 DEF Writes, TodoIsDue
  <2>5. Due(worker'[w]) \subseteq Due(worker[w]) /\ Rendering(worker'[w]) \cap worker'[w].todo = {}
    BY <1>6, <2>4 DEF Writes, Narrows
  <2>6. ASSUME NEW d \in Due(worker'[w]) PROVE items'[d].selected /\ items'[d].status # "done"
    <3>1. /\ d \in Due(worker[w]) /\ d \in Datasets /\ items[d].selected /\ items[d].status # "done"
          /\ items'[d].selected = items[d].selected
      BY <1>6, <2>3, <2>4, <2>5, <2>6 DEF Writes
    <3>2. CASE worker[w].pc = "save"
      <4>1. d \in worker[w].todo /\ worker[w].cur \in Rendering(worker[w])
        BY <1>6, <2>6, <3>2 DEF Writes
      <4>2. d # worker[w].cur
        BY <2>4, <4>1
      <4> QED BY <1>6, <3>1, <4>2 DEF Writes
    <3>3. CASE worker[w].pc # "save"
      BY <1>6, <3>1, <3>3 DEF Writes
    <3> QED BY <3>2, <3>3
  <2> QED BY <2>1, <2>5, <2>6 DEF TodoIsDue
<1>7. CASE Concludes(w)
  <2>1. \A v \in Workers : ~(Started(v)' /\ Current(v)')
    BY <1>1, <1>2, <1>7, EndsTask DEF Concludes, OneEach, Started, Current
  <2> QED BY <2>1 DEF TodoIsDue
<1> QED BY <1>3, <1>4, <1>5, <1>6, <1>7

LEMMA TaskUnchosen ==
    ASSUME AttemptInv, NEW w \in Workers, TaskMoves(w),
           Reads(w) \/ GivesUp(w) \/ Begins(w) \/ Writes(w) \/ Concludes(w)
    PROVE  Unchosen'
<1>1. Unchosen
  BY DEF AttemptInv
<1>2. Current(w) => batch.status \in StatusOf(worker[w].action)
  BY DEF AttemptInv, ActionsAreDue, TaskMoves
<1>3. CASE Reads(w) \/ GivesUp(w)
  BY <1>1, <1>3 DEF Reads, GivesUp, Unchosen, rows
<1>4. CASE Begins(w)
  BY <1>1, <1>4 DEF Begins, Unchosen, InspectStatus
<1>5. CASE Writes(w)
  <2>1. batch'.status \notin InspectStatus \cup {"absent"}
    BY <1>2, <1>5 DEF Writes, StatusOf, InspectStatus, ProcessStatus
  <2> QED BY <2>1 DEF Unchosen
<1>6. CASE Concludes(w)
  <2>1. CASE worker[w].action = "inspect"
    <3>1. batch.status \in InspectStatus
      BY <1>2, <1>6, <2>1 DEF Concludes, StatusOf
    <3>2. /\ \A d \in Datasets : ~items[d].selected /\ items[d].status # "done"
          /\ group.status # "published"
      BY <1>1, <3>1 DEF Unchosen
    <3>3. /\ UNCHANGED group
          /\ \/ UNCHANGED items
             \/ \A d \in Datasets : ~items'[d].selected /\ items'[d].status = "detected"
      BY <1>6, <2>1 DEF Concludes
    <3> QED BY <3>2, <3>3 DEF Unchosen
  <2>2. CASE worker[w].action # "inspect"
    BY <1>6, <2>2 DEF Concludes, Unchosen, InspectStatus
  <2> QED BY <2>1, <2>2
<1> QED BY <1>3, <1>4, <1>5, <1>6

LEMMA DeliverEffect ==
    ASSUME AttemptInv, NEW w \in Workers, Deliver(w)
    PROVE  /\ UNCHANGED <<rows, queue, issued, client, snap, crashes>> /\ worker[w].pc = "idle"
           /\ \A v \in Workers \ {w} : worker'[v] = worker[v]
           /\ worker'[w].pc = "start" /\ worker'[w].todo = {}
           /\ \E m \in queue : worker'[w].token = m.token /\ worker'[w].action = m.action
<1>1. worker \in [Workers -> Worker]
  BY Typed DEF AttemptInv
<1> QED BY <1>1 DEF Deliver

(* A message handed to a worker changes nothing yet.                       *)
LEMMA DeliverKeeps ==
    ASSUME AttemptInv, NEW w \in Workers, Deliver(w)
    PROVE  /\ Places' /\ TokensAreIssued' /\ DrawnIsFresh' /\ ActionsAreDue'
           /\ OneEach' /\ TodoIsDue' /\ Unchosen'
<1>1. /\ Places /\ TokensAreIssued /\ DrawnIsFresh /\ ActionsAreDue /\ OneEach /\ TodoIsDue /\ Unchosen
  BY DEF AttemptInv
<1>2. PICK m \in queue : worker'[w].token = m.token /\ worker'[w].action = m.action
  BY DeliverEffect
<1>3. /\ UNCHANGED <<batch, items, group, queue, issued, client>>
      /\ \A v \in Workers \ {w} : worker'[v] = worker[v]
      /\ worker'[w].pc = "start" /\ worker'[w].todo = {}
  BY DeliverEffect DEF rows
<1>4. Places'
  BY <1>1, <1>3 DEF Places, TaskPlace, RenderPc
<1>5. TokensAreIssued'
  BY <1>1, <1>2, <1>3 DEF TokensAreIssued
<1>6. DrawnIsFresh'
  BY <1>1, <1>2, <1>3 DEF DrawnIsFresh, Drawing, Owning
<1>7. ActionsAreDue'
  BY <1>1, <1>2, <1>3 DEF ActionsAreDue, Owning, Current
<1>8. OneEach' /\ TodoIsDue'
  <2>1. ~Started(w)'
    BY <1>3 DEF Started
  <2> QED BY <1>1, <1>3, <2>1 DEF OneEach, TodoIsDue, Started, Current
<1>9. Unchosen'
  BY <1>1, <1>3 DEF Unchosen
<1> QED BY <1>4, <1>5, <1>6, <1>7, <1>8, <1>9

LEMMA WorkerCrashKeeps ==
    ASSUME AttemptInv, NEW w \in Workers, WorkerCrash(w)
    PROVE  /\ Places' /\ TokensAreIssued' /\ DrawnIsFresh' /\ ActionsAreDue'
           /\ OneEach' /\ TodoIsDue' /\ Unchosen'
<1>1. /\ Places /\ TokensAreIssued /\ DrawnIsFresh /\ ActionsAreDue /\ OneEach /\ TodoIsDue /\ Unchosen
      /\ worker \in [Workers -> Worker] /\ issued \in Nat
  BY Typed DEF AttemptInv
<1>2. /\ UNCHANGED <<batch, items, group, queue, issued, client>>
      /\ \A v \in Workers \ {w} : worker'[v] = worker[v]
      /\ worker'[w].pc = "idle" /\ worker'[w].token = 0 /\ TaskPlace(worker'[w])
  BY <1>1 DEF WorkerCrash, rows, IdleWorker, TaskPlace, RenderPc
<1>3. Places' /\ TokensAreIssued'
  BY <1>1, <1>2 DEF Places, TokensAreIssued
<1>4. DrawnIsFresh' /\ ActionsAreDue'
  BY <1>1, <1>2 DEF DrawnIsFresh, Drawing, Owning, ActionsAreDue, Current
<1>5. OneEach' /\ TodoIsDue'
  <2>1. ~Started(w)'
    BY <1>2 DEF Started
  <2> QED BY <1>1, <1>2, <2>1 DEF OneEach, TodoIsDue, Started, Current
<1>6. Unchosen'
  BY <1>1, <1>2 DEF Unchosen
<1> QED BY <1>3, <1>4, <1>5, <1>6

LEMMA TaskKeepsChecked ==
    ASSUME AttemptInv, NEW w \in Workers, Deliver(w) \/ TaskStep(w) \/ WorkerCrash(w), ~crossed'
    PROVE  Checked'
<1>0. /\ Checked /\ FencedInv /\ Inv /\ UNCHANGED client /\ w \in Procs
      /\ snap \in [Procs -> Snapshot \cup {None}]
  BY Typed, TaskStepEffect, DeliverEffect DEF AttemptInv, FencedInv, Procs, TaskMoves, WorkerCrash
<1>1. /\ \A v \in Workers \ {w} : worker'[v] = worker[v]
      /\ \A q \in Procs : q # w => snap'[q] = snap[q]
  BY <1>0, TaskShape
<1>2. ASSUME NEW c \in Clients, InTxn(c)' PROVE RequestChecked(c)'
  <2>1. snap'[c] = snap[c]
    BY <1>1, ProcsApart
  <2> QED BY <1>0, <1>2, <2>1 DEF Checked, RequestChecked, InTxn
<1>3. ASSUME NEW v \in Workers, v # w, InTxn(v)' PROVE TaskChecked(v)'
  <2>1. snap'[v] = snap[v] /\ worker'[v] = worker[v]
    BY <1>1, <1>3 DEF Procs
  <2> QED BY <1>0, <1>3, <2>1 DEF Checked, TaskChecked, InTxn
<1>4. ASSUME InTxn(w)' PROVE TaskChecked(w)'
  <2>1. ~Close(w)
    BY <1>0, <1>4 DEF Close, InTxn
  <2>2. CASE Open(w) /\ Current(w) /\ UNCHANGED rows /\ MayOpen(w)
             /\ worker'[w].token = worker[w].token /\ worker'[w].pc # "idle"
    <3>1. ~Deliver(w)
      BY <1>4, <2>2, DeliverEffect DEF MayOpen, InTxn
    <3>2. TaskStep(w)
      BY <2>1, <3>1 DEF WorkerCrash
    <3>3. Reads(w)
      BY <2>1, <2>2, <3>2, TaskStepEffect, EndsTask DEF GivesUp
    <3> QED BY <1>4, <3>3 DEF Reads
  <2>3. CASE UNCHANGED <<rows, snap>> /\ (snap[w] = None \/ worker[w].pc = "idle")
    <3>1. snap[w] # None
      BY <1>4, <2>3 DEF InTxn
    <3> QED BY <1>0, <2>3, <3>1 DEF FencedInv, SnapIsFenced
  <2> QED BY <1>0, <2>1, <2>2, <2>3, TaskShape
<1> QED BY <1>2, <1>3, <1>4 DEF Checked

LEMMA AttemptInit == Init => AttemptInv
<1> SUFFICES ASSUME Init PROVE AttemptInv
  OBVIOUS
<1>1. FencedInv
  BY InitInv DEF Init, FencedInv, SnapIsFenced, Procs
<1>2. Places
  BY DEF Init, Places, RequestPlace, TaskPlace, IdleClient, IdleWorker, RenderPc
<1>3. TokensAreIssued /\ DrawnIsFresh
  BY DEF Init, TokensAreIssued, DrawnIsFresh, Drawing, IdleClient, IdleWorker
<1>4. ActionsAreDue /\ Checked
  BY DEF Init, ActionsAreDue, Owning, Checked, InTxn, Procs, IdleClient, IdleWorker
<1>5. OneEach /\ TodoIsDue /\ Unchosen
  BY DEF Init, NoGroup, OneEach, TodoIsDue, Unchosen, Started, IdleWorker
<1>6. ~crossed
  BY DEF Init
<1> QED BY <1>1, <1>2, <1>3, <1>4, <1>5, <1>6 DEF AttemptInv

LEMMA AttemptNext == AttemptInv /\ [Next]_vars /\ ~crossed' => AttemptInv'
<1> SUFFICES ASSUME AttemptInv, [Next]_vars, ~crossed' PROVE AttemptInv'
  OBVIOUS
<1>0. FencedInv'
  BY FencedNext DEF AttemptInv
<1>1. ASSUME NEW c \in Clients, Request(c) \/ ClientStep(c) \/ ClientCrash(c) PROVE AttemptInv'
  <2>1. /\ RequestMoves(c)
        /\ \/ Draws(c)
           \/ /\ Takes(c)
              /\ batch'.status = "inspecting" =>
                     /\ batch.status \in {"absent", "inspection_failed"}
                     /\ KeepsItems /\ UNCHANGED group
           \/ Passes(c) /\ KeepsItems /\ group'.status \in {group.status, "absent"}
    BY <1>1, RequestStepEffect
  <2>2. Places' /\ TokensAreIssued' /\ DrawnIsFresh' /\ ActionsAreDue'
    BY <2>1, RequestTokens, RequestFresh, RequestActions
  <2>3. OneEach' /\ TodoIsDue' /\ Unchosen'
    BY <2>1, RequestOneTask, RequestUnchosen
  <2>4. Checked'
    BY <1>1, RequestKeepsChecked
  <2> QED BY <1>0, <2>2, <2>3, <2>4 DEF AttemptInv
<1>2. ASSUME NEW w \in Workers, Deliver(w) \/ TaskStep(w) \/ WorkerCrash(w) PROVE AttemptInv'
  <2>1. Checked'
    BY <1>2, TaskKeepsChecked
  <2>2. CASE TaskStep(w)
    <3>1. /\ TaskMoves(w)
          /\ Reads(w) \/ GivesUp(w) \/ Begins(w) \/ Writes(w) \/ Concludes(w)
      BY <2>2, TaskStepEffect
    <3> QED BY <1>0, <2>1, <3>1, TaskTokens, TaskActions, TaskOneTask, TaskTodo, TaskUnchosen
            DEF AttemptInv
  <2>3. CASE Deliver(w)
    BY <1>0, <2>1, <2>3, DeliverKeeps DEF AttemptInv
  <2>4. CASE WorkerCrash(w)
    BY <1>0, <2>1, <2>4, WorkerCrashKeeps DEF AttemptInv
  <2> QED BY <1>2, <2>2, <2>3, <2>4
<1>3. CASE UNCHANGED vars
  <2>1. UNCHANGED <<batch, items, group, queue, issued, client, worker, snap>>
    BY <1>3 DEF vars
  <2>2. Places' /\ TokensAreIssued' /\ DrawnIsFresh' /\ ActionsAreDue'
    BY <2>1 DEF AttemptInv, Places, TokensAreIssued, DrawnIsFresh, ActionsAreDue,
                Drawing, Owning, Current
  <2>3. OneEach' /\ TodoIsDue' /\ Unchosen'
    BY <2>1 DEF AttemptInv, OneEach, TodoIsDue, Unchosen, Started, Current
  <2>4. Checked'
    BY <2>1 DEF AttemptInv, Checked, RequestChecked, TaskChecked, InTxn, Current
  <2> QED BY <1>0, <2>2, <2>3, <2>4 DEF AttemptInv
<1> QED BY <1>1, <1>2, <1>3 DEF Next

(* It holds for as long as no commit has crossed another.                  *)
LEMMA AttemptInvHolds == Spec => [](crossed \/ AttemptInv)
<1>1. (crossed \/ AttemptInv) /\ [Next]_vars => (crossed \/ AttemptInv)'
  BY AttemptNext, CrossedStays
<1> QED BY <1>1, AttemptInit, PTL DEF Spec

-----------------------------------------------------------------------------
(* No attempt is lost.                                                     *)

LEMMA RequestLosesNothing ==
    ASSUME AttemptInv, WorkIsNotLost, NEW c \in Clients,
           Request(c) \/ ClientStep(c) \/ ClientCrash(c), ~crossed'
    PROVE  WorkIsNotLost'
<1> SUFFICES ASSUME crashes' = 0
             PROVE  /\ batch'.status \in Waiting =>
                           \/ \E m \in queue' : m.token = batch'.token
                           \/ \E e \in Clients : Owning(e)' /\ client'[e].token = batch'.token
                    /\ batch'.status \in Running =>
                           \E w \in Workers : worker'[w].token = batch'.token /\ Started(w)'
  BY DEF WorkIsNotLost, Waiting, Running, Owning, Started
<1>1. /\ UNCHANGED worker /\ \A e \in Clients \ {c} : client'[e] = client[e]
      /\ crashes = 0
      /\ Draws(c) \/ Takes(c) \/ Passes(c)
  BY RequestStepEffect DEF RequestMoves
<1>2. /\ batch.status \in Waiting =>
             \/ \E m \in queue : m.token = batch.token
             \/ \E e \in Clients : Owning(e) /\ client[e].token = batch.token
      /\ batch.status \in Running =>
             \E w \in Workers : worker[w].token = batch.token /\ Started(w)
  BY <1>1 DEF AttemptInv, WorkIsNotLost, Waiting, Running, Owning, Started
<1>3. CASE Draws(c)
  BY <1>1, <1>2, <1>3 DEF Draws, rows, Owning, Started
<1>4. CASE Takes(c)
  BY <1>4 DEF Takes, Waiting, Running, Owning
<1>5. CASE Passes(c)
  <2>1. /\ batch'.token = batch.token
        /\ batch'.status \in Waiting \cup Running => batch'.status = batch.status
    BY <1>5 DEF Passes, Waiting, Running
  <2>2. ASSUME batch'.status \in Waiting
        PROVE  \/ \E m \in queue' : m.token = batch'.token
               \/ \E e \in Clients : Owning(e)' /\ client'[e].token = batch'.token
    <3>1. CASE \E m \in queue : m.token = batch.token
      BY <1>5, <2>1, <3>1 DEF Passes
    <3>2. ASSUME NEW e \in Clients, Owning(e), client[e].token = batch.token, e # c
          PROVE  Owning(e)' /\ client'[e].token = batch'.token
      BY <1>1, <2>1, <3>2 DEF Owning
    <3>3. CASE Owning(c) /\ client[c].token = batch.token
      <4>1. Owning(c)' \/ \E m \in queue' : m.token = batch.token
        BY <1>5, <2>2, <3>3 DEF Passes
      <4>2. Owning(c)' => client'[c].token = client[c].token
        BY <1>5 DEF Passes
      <4> QED BY <2>1, <3>3, <4>1, <4>2
    <3> QED BY <1>2, <2>1, <2>2, <3>1, <3>2, <3>3
  <2> QED BY <1>1, <1>2, <2>1, <2>2 DEF Started
<1> QED BY <1>1, <1>3, <1>4, <1>5

LEMMA TaskLosesNothing ==
    ASSUME AttemptInv, WorkIsNotLost, NEW w \in Workers,
           Deliver(w) \/ TaskStep(w) \/ WorkerCrash(w), ~crossed'
    PROVE  WorkIsNotLost'
<1> SUFFICES ASSUME crashes' = 0
             PROVE  /\ batch'.status \in Waiting =>
                           \/ \E m \in queue' : m.token = batch'.token
                           \/ \E c \in Clients : Owning(c)' /\ client'[c].token = batch'.token
                    /\ batch'.status \in Running =>
                           \E v \in Workers : worker'[v].token = batch'.token /\ Started(v)'
  BY DEF WorkIsNotLost, Waiting, Running, Owning, Started
<1>1. crashes = 0 /\ ~WorkerCrash(w)
  <2>1. crashes \in Nat
    BY Typed DEF AttemptInv
  <2>2. ~WorkerCrash(w)
    BY <2>1 DEF WorkerCrash
  <2> QED BY <2>2, TaskStepEffect, DeliverEffect DEF TaskMoves
<1>2. /\ batch.status \in Waiting =>
             \/ \E m \in queue : m.token = batch.token
             \/ \E c \in Clients : Owning(c) /\ client[c].token = batch.token
      /\ batch.status \in Running =>
             \E v \in Workers : worker[v].token = batch.token /\ Started(v)
  BY <1>1 DEF AttemptInv, WorkIsNotLost, Waiting, Running, Owning, Started
<1>3. UNCHANGED client /\ \A v \in Workers \ {w} : worker'[v] = worker[v]
  BY <1>1, TaskStepEffect, DeliverEffect DEF TaskMoves
<1>4. CASE Deliver(w)
  <2>1. UNCHANGED <<batch, queue>> /\ worker[w].pc = "idle"
    BY <1>4, DeliverEffect DEF rows
  <2> QED BY <1>2, <1>3, <2>1 DEF Owning, Started
<1>5. CASE Reads(w)
  BY <1>2, <1>3, <1>5 DEF Reads, Keeps, rows, Owning, Started
<1>6. CASE GivesUp(w)
  <2>1. /\ UNCHANGED batch /\ \A m \in queue : m.token # worker[w].token => m \in queue'
        /\ Current(w) => batch.status \notin Waiting /\ (Started(w) => batch.status \notin Running)
    BY <1>6, EndsTask DEF GivesUp, rows
  <2>2. batch.status \in Waiting /\ (\E m \in queue : m.token = batch.token) =>
            \E m \in queue' : m.token = batch.token
    BY <2>1 DEF Current
  <2>3. batch.status \in Running =>
            \E v \in Workers \ {w} : worker[v].token = batch.token /\ Started(v)
    BY <1>2, <2>1 DEF Current
  <2> QED BY <1>2, <1>3, <2>1, <2>2, <2>3 DEF Owning, Started
<1>7. CASE Begins(w)
  BY <1>7 DEF Begins, Keeps, Current, Waiting, Running
<1>8. CASE Writes(w)
  BY <1>2, <1>3, <1>8 DEF Writes, Keeps, Owning, Started
<1>9. CASE Concludes(w)
  BY <1>9 DEF Concludes, Waiting, Running
<1> QED BY <1>1, <1>4, <1>5, <1>6, <1>7, <1>8, <1>9, TaskStepEffect

(***************************************************************************)
(* At most one task is past the start of an attempt, whatever messages are *)
(* delivered again, and none while the batch waits for one or is done:     *)
(* run() compares token and status, sets the running status in the same    *)
(* transaction (map_batches.py:132-139), and a retry draws a new token.    *)
(* It takes two starts that have both read the waiting batch to break it.  *)
(***************************************************************************)
THEOREM OneTaskPerAttempt == Spec => []OneTask
<1>1. crossed \/ AttemptInv => OneTask
  BY DEF AttemptInv, OneEach, OneTask, Waiting
<1> QED BY <1>1, AttemptInvHolds, PTL

(***************************************************************************)
(* No attempt is lost without a crash, for any number of requests and      *)
(* tasks, unless transactions cross.  A request that commits a waiting     *)
(* batch goes on to send the message (map_batches.py:47, 103, 129) or to   *)
(* record that it could not (:52-58); the message is acknowledged only     *)
(* when its task returns, and a task returns leaving a status nobody has   *)
(* to work on (:135-136, 168, 186, 215): nobody else works on its attempt  *)
(* (OneEach), and what carries its token has the same purpose              *)
(* (ActionsAreDue).                                                        *)
(***************************************************************************)
THEOREM WorkStaysKnown == Spec => []WorkIsNotLost
<1>1. Init => WorkIsNotLost
  BY DEF Init, WorkIsNotLost
<1>2. (crossed \/ AttemptInv) /\ WorkIsNotLost /\ [Next]_vars => WorkIsNotLost'
  <2> SUFFICES ASSUME crossed \/ AttemptInv, WorkIsNotLost, [Next]_vars, ~crossed'
               PROVE  WorkIsNotLost'
    BY DEF WorkIsNotLost
  <2>1. CASE UNCHANGED vars
    BY <2>1 DEF vars, WorkIsNotLost
  <2>2. AttemptInv
    BY CrossedStays
  <2> QED BY <2>1, <2>2, RequestLosesNothing, TaskLosesNothing DEF Next
<1> QED BY <1>1, <1>2, AttemptInvHolds, PTL DEF Spec

-----------------------------------------------------------------------------
(* A cancelled batch stays stopped.                                        *)

LEMMA CancelledStep ==
    ASSUME AttemptInv, [Next]_vars, batch.status = "cancelled", ~crossed'
    PROVE  batch'.status \in {"cancelled", "pending", "failed"}
<1>1. ASSUME NEW c \in Clients, Request(c) \/ ClientStep(c) \/ ClientCrash(c)
      PROVE  batch'.status \in {"cancelled", "pending", "failed"}
  <2>1. CASE Draws(c)
    BY <2>1 DEF Draws, rows
  <2>2. CASE Takes(c) /\ (batch'.status = "inspecting" => batch.status \in {"absent", "inspection_failed"})
    BY <2>2 DEF Takes
  <2>3. CASE Passes(c)
    <3>1. Owning(c) /\ client[c].token = batch.token => client[c].action # "inspect"
      BY DEF AttemptInv, ActionsAreDue, StatusOf, InspectStatus
    <3> QED BY <2>3, <3>1 DEF Passes
  <2> QED BY <1>1, <2>1, <2>2, <2>3, RequestStepEffect
<1>2. ASSUME NEW w \in Workers, Deliver(w) \/ TaskStep(w) \/ WorkerCrash(w)
      PROVE  batch'.status \in {"cancelled", "pending", "failed"}
  <2>1. CASE Deliver(w) \/ WorkerCrash(w)
    BY <2>1, DeliverEffect DEF WorkerCrash, rows
  <2>2. CASE Reads(w) \/ GivesUp(w) \/ Writes(w)
    BY <2>2 DEF Reads, GivesUp, Writes, rows
  <2>3. ~Begins(w)
    BY DEF Begins
  <2>4. CASE InspectedCommit(w) \/ FailCommit(w) \/ FinalCommit(w)
    <3>1. batch.status \in StatusOf(worker[w].action)
      BY <2>4, InspectedCommitEffect, FailCommitEffect, FinalCommitEffect
      DEF Concludes, TaskMoves, AttemptInv, ActionsAreDue
    <3> QED BY <2>4, <3>1, InspectedCommitEffect, FailCommitEffect, FinalCommitEffect
            DEF StatusOf, InspectStatus
  <2>5. CASE TaskStep(w)
    <3>1. \/ InspectedCommit(w) \/ FailCommit(w) \/ FinalCommit(w)
          \/ Reads(w) \/ GivesUp(w) \/ Begins(w) \/ Writes(w)
      BY <2>5, TaskOpenEffect, FinalOpenEffect, NextItemEffect, RaisesEffect, StartCommitEffect,
         WriteCommitEffect DEF TaskStep
    <3> QED BY <2>2, <2>3, <2>4, <3>1
  <2> QED BY <1>2, <2>1, <2>5
<1>3. CASE UNCHANGED vars
  BY <1>3 DEF vars
<1> QED BY <1>1, <1>2, <1>3 DEF Next

(***************************************************************************)
(* A cancellation is undone by nothing but a crossing, for any number of   *)
(* requests and tasks: every transaction of a task compares the status it  *)
(* read (map_batches.py:133-139, 185-187, 214-216, 223-224), so one that   *)
(* reads the cancelled batch leaves it alone, and only a retry starts      *)
(* another attempt.                                                        *)
(***************************************************************************)
THEOREM CancellationsHold == Spec => CancelHolds
<1>1. (crossed \/ AttemptInv) /\ [Next]_vars =>
          [batch.status = "cancelled" /\ ~crossed' =>
               batch'.status \in {"cancelled", "pending", "failed"}]_vars
  BY CancelledStep, CrossedStays
<1> QED BY <1>1, AttemptInvHolds, PTL DEF Spec, CancelHolds

-----------------------------------------------------------------------------
(* The batch as its user's job: every step is one of the job's, or none.   *)

PhaseTells ==
    /\ batch.status = "absent" => Phase = "new"
    /\ batch.status \in {"inspecting", "inspecting_running"} => Phase = "inspecting"
    /\ batch.status = "inspection_failed" => Phase = "refused"
    /\ batch.status = "ready" => Phase = "ready"
    /\ batch.status \in {"pending", "processing"} => Phase = "working"
    /\ batch.status \in {"failed", "cancelled"} => Phase = "stopped"
    /\ batch.status = "done" => Phase = "finished"

LEMMA PhaseTold == PhaseTells /\ PhaseTells'
BY DEF PhaseTells, Phase

\* What the user sees, and a step of it that the job may take.
Seen == <<Phase, {d \in Datasets : items[d].selected},
          {d \in Datasets : items[d].status = "done"}, group.status = "published">>
JobStep == Job!Proceed \/ UNCHANGED Seen

(* Rows that look the same to the user are the same job.                   *)
LEMMA SameResults ==
    ASSUME KeepsItems
    PROVE  /\ {d \in Datasets : items'[d].selected} = {d \in Datasets : items[d].selected}
           /\ {d \in Datasets : items'[d].status = "done"} = {d \in Datasets : items[d].status = "done"}
BY DEF KeepsItems

LEMMA SameJob ==
    ASSUME KeepsItems, Phase' = Phase,
           group'.status = "published" <=> group.status = "published"
    PROVE  JobStep
<1>1. (group'.status = "published") = (group.status = "published")
  OBVIOUS
<1> QED BY <1>1, SameResults DEF JobStep, Seen

LEMMA SameRows == ASSUME UNCHANGED rows PROVE JobStep
<1>1. KeepsItems /\ Phase' = Phase /\ UNCHANGED group
  BY DEF rows, KeepsItems, Phase
<1> QED BY <1>1, SameJob

(* Steps that change where the job stands, and neither choice nor results. *)
LEMMA SubmitStep ==
    ASSUME KeepsItems, UNCHANGED group,
           batch.status \in {"absent", "inspection_failed"}, batch'.status = "inspecting"
    PROVE  JobStep
BY SameResults, PhaseTold DEF JobStep, PhaseTells, Job!Proceed, Job!Submit

LEMMA RefuseStep ==
    ASSUME KeepsItems, UNCHANGED group,
           batch.status \in InspectStatus, batch'.status = "inspection_failed"
    PROVE  JobStep
<1>1. CASE batch.status = "inspection_failed"
  BY <1>1, PhaseTold, SameJob DEF PhaseTells
<1>2. CASE batch.status # "inspection_failed"
  BY <1>2, SameResults, PhaseTold
  DEF InspectStatus, JobStep, PhaseTells, Job!Proceed, Job!Refuse
<1> QED BY <1>1, <1>2

LEMMA AcceptStep ==
    ASSUME KeepsItems, UNCHANGED group, batch.status \in InspectStatus, batch'.status = "ready"
    PROVE  JobStep
<1>1. CASE batch.status = "ready"
  BY <1>1, PhaseTold, SameJob DEF PhaseTells
<1>2. CASE batch.status # "ready"
  BY <1>2, SameResults, PhaseTold
  DEF InspectStatus, JobStep, PhaseTells, Job!Proceed, Job!Accept
<1> QED BY <1>1, <1>2

LEMMA ResumeStep ==
    ASSUME KeepsItems, UNCHANGED group,
           batch.status \in {"failed", "cancelled"}, batch'.status = "pending"
    PROVE  JobStep
BY SameResults, PhaseTold DEF JobStep, PhaseTells, Job!Proceed, Job!Resume

LEMMA StopStep ==
    ASSUME KeepsItems, batch.status \in ProcessStatus, batch'.status \in {"failed", "cancelled"},
           group'.status = "published" => group.status = "published"
    PROVE  JobStep
<1>1. (group'.status = "published") \in {group.status = "published", FALSE}
  OBVIOUS
<1>2. CASE batch.status \in {"failed", "cancelled"}
  <2>1. Phase' = Phase
    BY <1>2, PhaseTold DEF PhaseTells
  <2>2. CASE group'.status = "published" <=> group.status = "published"
    BY <2>1, <2>2, SameJob
  <2>3. CASE group'.status # "published" /\ group.status = "published"
    BY <2>1, <2>3, SameResults DEF JobStep, Job!Proceed, Job!Withdraw
  <2> QED BY <2>2, <2>3
<1>3. CASE batch.status \notin {"failed", "cancelled"}
  BY <1>1, <1>3, SameResults, PhaseTold
  DEF ProcessStatus, JobStep, PhaseTells, Job!Proceed, Job!Stop
<1> QED BY <1>2, <1>3

LEMMA FinishStep ==
    ASSUME KeepsItems, batch.status \in ProcessStatus \ {"done"}, batch'.status = "done",
           Unfinished(items) = {}
    PROVE  JobStep
<1>1. {d \in Datasets : items[d].selected} \subseteq {d \in Datasets : items[d].status = "done"}
  BY DEF Unfinished
<1>2. (group'.status = "published") \in BOOLEAN
  OBVIOUS
<1> QED BY <1>1, <1>2, SameResults, PhaseTold
        DEF ProcessStatus, JobStep, PhaseTells, Job!Proceed, Job!Finish

LEMMA ChooseStep ==
    ASSUME AttemptInv, NEW S \in SUBSET Datasets, Chooses(S), batch.status = "ready",
           batch'.status = "pending", group'.status \in {group.status, "draft"}
    PROVE  JobStep
<1>1. /\ \A d \in Datasets : ~items[d].selected /\ items[d].status # "done"
      /\ group.status # "published"
  BY DEF AttemptInv, Unchosen, InspectStatus
<1>2. {d \in Datasets : items'[d].selected} = S
  BY <1>1 DEF Chooses
<1>3. {d \in Datasets : items'[d].status = "done"} = {d \in Datasets : items[d].status = "done"}
  BY <1>1 DEF Chooses
<1>4. (group'.status = "published") = (group.status = "published")
  BY <1>1
<1>5. S # {} /\ Phase = "ready" /\ Phase' = "working"
  BY PhaseTold DEF Chooses, PhaseTells
<1> QED BY <1>2, <1>3, <1>4, <1>5 DEF JobStep, Job!Proceed, Job!Choose

LEMMA WriteStep ==
    ASSUME AttemptInv, NEW w \in Workers, worker[w].pc # "idle", Writes(w)
    PROVE  JobStep
<1> DEFINE d == worker[w].cur
<1>1. /\ UNCHANGED <<batch, group>> /\ Current(w) /\ Started(w) /\ d \in Due(worker[w])
      /\ batch.status \in ProcessStatus
  BY DEF Writes, Due, AttemptInv, ActionsAreDue, StatusOf
<1>2. items[d].selected /\ items[d].status # "done" /\ batch.status # "done"
  BY <1>1 DEF AttemptInv, TodoIsDue, OneEach
<1>3. d \in Datasets
  BY DEF Writes, Rendering, RenderPc, AttemptInv, FencedInv, Inv, CurIsDataset
<1>4. /\ \A e \in Datasets : /\ items'[e].selected = items[e].selected
                             /\ e # d => items'[e].status = items[e].status
      /\ items'[d].status = "done" <=> worker[w].pc = "save"
  BY DEF Writes
<1>5. Phase' = Phase
  BY <1>1 DEF Phase
<1> HIDE DEF d
<1>6. CASE worker[w].pc = "save"
  <2>1. {e \in Datasets : items'[e].selected} = {e \in Datasets : items[e].selected}
    BY <1>4
  <2>2. {e \in Datasets : items'[e].status = "done"} =
            {e \in Datasets : items[e].status = "done"} \cup {d}
    BY <1>3, <1>4, <1>6
  <2>3. d \in {e \in Datasets : items[e].selected} /\ Phase \in {"working", "stopped"}
    BY <1>1, <1>2, <1>3, PhaseTold DEF ProcessStatus, PhaseTells
  <2> QED BY <1>1, <1>5, <2>1, <2>2, <2>3 DEF JobStep, Job!Proceed, Job!Deliver
<1>7. CASE worker[w].pc # "save"
  <2>1. KeepsItems
    BY <1>2, <1>4, <1>7 DEF KeepsItems
  <2> QED BY <1>1, <1>5, <2>1, SameJob
<1> QED BY <1>6, <1>7

LEMMA RequestJob ==
    ASSUME AttemptInv, NEW c \in Clients, Request(c) \/ ClientStep(c) \/ ClientCrash(c), ~crossed'
    PROVE  JobStep
<1>1. CASE InspectOpen(c) \/ ConfigureOpen(c) \/ RetryOpen(c)
  BY <1>1, SameRows DEF InspectOpen, ConfigureOpen, RetryOpen, OpenAttempt
<1>2. CASE InspectCommit(c)
  <2>1. KeepsItems /\ batch'.status \in {"inspecting", "pending"}
    BY <1>2, InspectCommitEffect DEF KeepsItems, Takes
  <2>2. client[c].action = "inspect"
    BY <1>2 DEF InspectCommit, AttemptInv, Places, RequestPlace
  <2> QED BY <1>2, <2>1, <2>2, InspectCommitEffect, SubmitStep DEF Takes
<1>3. CASE ConfigureCommit(c)
  BY <1>3, ConfigureCommitEffect, ChooseStep
<1>4. CASE RetryCommit(c)
  BY <1>4, RetryCommitEffect, SubmitStep, ResumeStep DEF Takes
<1>5. CASE CancelCommit(c)
  BY <1>5, CancelCommitEffect, StopStep DEF ProcessStatus
<1>6. CASE UndoCommit(c)
  <2>1. KeepsItems /\ UNCHANGED group
    BY <1>6, UndoCommitEffect DEF KeepsItems
  <2>2. batch.status \in StatusOf(client[c].action)
    BY <1>6, UndoCommitEffect DEF AttemptInv, ActionsAreDue
  <2> QED BY <1>6, <2>1, <2>2, UndoCommitEffect, RefuseStep, StopStep DEF StatusOf
<1>7. CASE \/ UniqueViolation(c) \/ CancelOpen(c) \/ Dispatch(c) \/ DispatchRaises(c)
           \/ UndoOpen(c) \/ DeleteGroup(c) \/ ClientCrash(c)
           \/ DeleteLayerOpen(c) \/ DeleteLayerCommit(c)
  <2>1. UNCHANGED <<batch, items>> /\ (group' = group \/ group'.status = "absent")
    BY <1>7, PassingEffect
  <2>2. KeepsItems /\ Phase' = Phase
    BY <2>1 DEF KeepsItems, Phase
  <2>3. CASE group.status = "published" /\ group'.status = "absent"
    BY <2>2, <2>3, SameResults DEF JobStep, Job!Proceed, Job!Withdraw
  <2> QED BY <2>1, <2>2, <2>3, SameJob
<1> QED BY <1>1, <1>2, <1>3, <1>4, <1>5, <1>6, <1>7 DEF Request, ClientStep

LEMMA TaskJob ==
    ASSUME AttemptInv, NEW w \in Workers, Deliver(w) \/ TaskStep(w) \/ WorkerCrash(w), ~crossed'
    PROVE  JobStep
<1>1. CASE Deliver(w) \/ WorkerCrash(w)
  BY <1>1, SameRows DEF Deliver, WorkerCrash
<1>2. CASE Reads(w) \/ GivesUp(w)
  BY <1>2, SameRows DEF Reads, GivesUp
<1>3. CASE Begins(w)
  <2>1. KeepsItems /\ UNCHANGED group /\ Phase' = Phase
    BY <1>3, PhaseTold DEF Begins, KeepsItems, PhaseTells
  <2> QED BY <2>1, SameJob
<1>4. CASE InspectedCommit(w) \/ FailCommit(w) \/ FinalCommit(w)
  <2>1. /\ Current(w) /\ Started(w) /\ batch.status \in StatusOf(worker[w].action)
        /\ TaskMoves(w)
    BY <1>4, InspectedCommitEffect, FailCommitEffect, FinalCommitEffect
    DEF Concludes, TaskMoves, AttemptInv, ActionsAreDue
  <2>2. batch.status # "done"
    BY <2>1 DEF AttemptInv, OneEach
  <2>3. CASE InspectedCommit(w)
    <3>1. /\ batch.status \in InspectStatus /\ batch'.status = "ready" /\ UNCHANGED group
          /\ \/ UNCHANGED items
             \/ \A d \in Datasets : ~items'[d].selected /\ items'[d].status = "detected"
      BY <2>1, <2>3, InspectedCommitEffect DEF StatusOf, Concludes
    <3>2. \A d \in Datasets : ~items[d].selected /\ items[d].status # "done"
      BY <3>1 DEF AttemptInv, Unchosen
    <3>3. items \in [Datasets -> Item] /\ items' \in [Datasets -> Item]
      BY <2>3, Typed, InspectedCommitInv DEF AttemptInv, FencedInv, Inv, TypeOK
    <3>4. \A d \in Datasets : items[d].selected \in BOOLEAN /\ items'[d].selected \in BOOLEAN
      BY <3>3 DEF Item
    <3>5. KeepsItems
      BY <3>1, <3>2, <3>4 DEF KeepsItems
    <3> QED BY <3>1, <3>5, AcceptStep
  <2>4. CASE FailCommit(w)
    <3>1. KeepsItems /\ UNCHANGED group
      BY <2>4, FailCommitEffect DEF KeepsItems
    <3> QED BY <2>1, <2>4, <3>1, FailCommitEffect, RefuseStep, StopStep DEF StatusOf
  <2>5. CASE FinalCommit(w)
    <3>1. KeepsItems /\ batch.status \in ProcessStatus \ {"done"} /\ batch'.status \in {"done", "failed"}
      BY <2>1, <2>2, <2>5, FinalCommitEffect DEF KeepsItems, StatusOf, Concludes
    <3>2. CASE batch'.status = "done"
      BY <2>5, <3>1, <3>2, FinalCommitEffect, FinishStep
    <3>3. CASE batch'.status = "failed"
      <4>1. group'.status = "published" => group.status = "published"
        BY <2>5, <3>3, FinalCommitEffect
      <4> QED BY <3>1, <3>3, <4>1, StopStep
    <3> QED BY <3>1, <3>2, <3>3
  <2> QED BY <1>4, <2>3, <2>4, <2>5
<1>5. CASE TaskStep(w)
  <2>1. worker[w].pc # "idle"
    BY <1>5, TaskStepEffect DEF TaskMoves
  <2>2. \/ InspectedCommit(w) \/ FailCommit(w) \/ FinalCommit(w)
        \/ Reads(w) \/ GivesUp(w) \/ Begins(w) \/ Writes(w)
    BY <1>5, TaskOpenEffect, FinalOpenEffect, NextItemEffect, RaisesEffect, StartCommitEffect,
       WriteCommitEffect DEF TaskStep
  <2> QED BY <1>2, <1>3, <1>4, <2>1, <2>2, WriteStep
<1> QED BY <1>1, <1>5

(***************************************************************************)
(* The batch of map_batches.py is the job of BatchJob until transactions   *)
(* cross, whatever tokens, redeliveries, crashes and failing brokers do    *)
(* and for any number of datasets, requests and tasks: choices are made    *)
(* once (configure, :82-89), results accumulate (run, :170-173), and done  *)
(* and published mean that every chosen dataset is there (:188-200).       *)
(***************************************************************************)
THEOREM BatchesAreJobs == Spec => ImplementsJob
<1>1. Init => Job!JobInit
  BY DEF Init, NoGroup, Phase, Job!JobInit
<1>2. (crossed \/ AttemptInv) /\ [Next]_vars => [Job!JobNext]_(Job!jobVars)
  <2> SUFFICES ASSUME crossed \/ AttemptInv, [Next]_vars, ~crossed'
               PROVE  Job!JobNext \/ UNCHANGED Job!jobVars
    BY DEF Job!JobNext
  <2>1. AttemptInv
    BY CrossedStays
  <2>2. JobStep
    <3>1. CASE UNCHANGED vars
      BY <3>1, SameRows DEF vars, rows
    <3> QED BY <2>1, <3>1, RequestJob, TaskJob DEF Next
  <2>3. UNCHANGED crossed
    <3>1. crossed \in BOOLEAN /\ crossed' \in BOOLEAN
      BY <2>1, NextInv DEF AttemptInv, FencedInv, Inv, TypeOK
    <3> QED BY <2>1, <3>1 DEF AttemptInv
  <2> QED BY <2>2, <2>3 DEF JobStep, Seen, Job!JobNext, Job!jobVars
<1> QED BY <1>1, <1>2, AttemptInvHolds, PTL DEF Spec, ImplementsJob, Job!JobSpec
=============================================================================
