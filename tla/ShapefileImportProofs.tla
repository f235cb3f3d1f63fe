------------------------ MODULE ShapefileImportProofs -----------------------
(***************************************************************************)
(* Proofs about ShapefileImport for any number of datasets, batches,       *)
(* requests, workers, retries and failures.                                *)
(***************************************************************************)
EXTENDS ShapefileImport, TLAPS

\* An import that is completed, or about to be, has its tables.
Tables == \A d \in Datasets : final[d] # None
CompletedInv ==
    /\ \A w \in Workers :
          /\ work[w].pc \in {"record", "complete"} => Tables \/ deleted
          /\ work[w].pc = "complete" => layer = "postgis" \/ deleted
    /\ Is("completed") => (layer = "postgis" /\ Tables) \/ deleted

\* Without an overlap there is one message or one task.
OneTask ==
    /\ \A m, n \in queue : m = n
    /\ queue # {} => \A w \in Workers : work[w] = Idle
    /\ \A w, v \in Workers : work[w] # Idle /\ work[v] # Idle => w = v

\* It has staged the datasets before its own, and its own up to its batch.
Holds(d, b, n) == stage[d] # None => stage[d][b] = n
Inserted(w, b) ==
    IF b < work[w].batch \/ (b = work[w].batch /\ work[w].pc # "batch") THEN 1 ELSE 0
Staged(w) ==
    /\ work[w].pc \in {"stage", "batch", "progress", "index", "rename"} =>
          \A d \in Datasets : d < work[w].dataset \/ work[w].pc = "rename" =>
              \A b \in Batches : Holds(d, b, 1)
    /\ work[w].pc \in {"batch", "progress", "index"} =>
          \A b \in Batches : Holds(work[w].dataset, b, Inserted(w, b))
    /\ work[w].pc = "index" => work[w].batch = NumBatches
    /\ work[w].pc \in {"start", "check"} => work[w].dataset = 1
SingleInv ==
    ~overlap => /\ OneTask
                /\ \A w \in Workers : Staged(w)
                /\ \A d \in Datasets : final[d] # None => Whole(final[d])

-----------------------------------------------------------------------------
(* What the steps do to the place of a request and of a worker.            *)

LEMMA NextNumber ==
    ASSUME TypeOK, requests < MaxRequests
    PROVE  requests + 1 \in Ids /\ requests + 1 \in 0 .. MaxRequests
BY ConstantsAssumption DEF TypeOK, Ids

LEMMA OpensEffect ==
    ASSUME TypeOK, NEW r \in Requests, NEW pc \in RequestPc, Opens(r, pc)
    PROVE  /\ req' \in [Requests -> {Idle} \cup Request]
           /\ requests' \in 0 .. MaxRequests
<1> DEFINE place == [pc |-> pc, id |-> requests + 1, seen |-> row]
<1>1. place \in Request /\ requests' \in 0 .. MaxRequests
  BY NextNumber DEF TypeOK, Opens, HasRow, Request
<1>2. req' = [req EXCEPT ![r] = place]
  BY DEF Opens
<1> HIDE DEF place
<1> QED
  BY <1>1, <1>2 DEF TypeOK

LEMMA GoEffect ==
    ASSUME TypeOK, NEW r \in Requests, req[r].pc # "idle", NEW pc \in RequestPc, Go(r, pc)
    PROVE  req' \in [Requests -> {Idle} \cup Request] /\ req[r] \in Request
<1>1. req[r] \in Request
  BY DEF TypeOK, Idle
<1>2. [req[r] EXCEPT !.pc = pc] \in Request
  BY <1>1 DEF Request
<1>3. req' = [req EXCEPT ![r] = [req[r] EXCEPT !.pc = pc]]
  BY DEF Go
<1> QED
  BY <1>1, <1>2, <1>3 DEF TypeOK

LEMMA AnswerEffect ==
    ASSUME TypeOK, NEW r \in Requests, Answer(r)
    PROVE  req' \in [Requests -> {Idle} \cup Request]
BY DEF TypeOK, Answer

LEMMA SendEffect ==
    ASSUME TypeOK, NEW r \in Requests, Send(r)
    PROVE  queue' \subseteq Message
<1>1. req[r].id \in Ids
  BY DEF TypeOK, Send, At, Idle, Request
<1> QED
  BY <1>1, ConstantsAssumption DEF TypeOK, Send, Message

LEMMA StatusEffect ==
    ASSUME TypeOK, NEW status \in ImportStatus, SetStatus(status)
    PROVE  /\ row' \in Row \cup {None}
           /\ HasRow => row'.status = status
           /\ ~HasRow => row' = None
BY DEF TypeOK, HasRow, SetStatus, Row

LEMMA Works ==
    ASSUME TypeOK, NEW w \in Workers, work[w].pc # "idle"
    PROVE  work[w] \in Task /\ work[w] # Idle
BY DEF TypeOK, Idle

LEMMA PlaceEffect ==
    ASSUME TypeOK, NEW w \in Workers, NEW place \in Task, work' = [work EXCEPT ![w] = place]
    PROVE  /\ work' \in [Workers -> {Idle} \cup Task]
           /\ work'[w] = place /\ work'[w] # Idle
           /\ \A v \in Workers : v # w => work'[v] = work[v]
<1>1. place # Idle
  BY DEF Task, ImportPc, EndPc, Idle
<1> QED
  BY <1>1 DEF TypeOK

LEMMA StepEffect ==
    ASSUME TypeOK, NEW w \in Workers, work[w].pc # "idle", NEW pc \in ImportPc \cup EndPc,
           Step(w, pc)
    PROVE  /\ work' \in [Workers -> {Idle} \cup Task]
           /\ work[w] \in Task /\ work'[w] \in Task /\ work[w] # Idle /\ work'[w] # Idle
           /\ work'[w].pc = pc /\ work'[w].msg = work[w].msg
           /\ work'[w].dataset = work[w].dataset /\ work'[w].batch = work[w].batch
           /\ \A v \in Workers : v # w => work'[v] = work[v]
<1> DEFINE place == [work[w] EXCEPT !.pc = pc]
<1>1. work[w] \in Task /\ work[w] # Idle
  BY Works
<1>2. /\ place \in Task /\ place.pc = pc /\ place.msg = work[w].msg
      /\ place.dataset = work[w].dataset /\ place.batch = work[w].batch
  BY <1>1 DEF Task
<1>3. work' = [work EXCEPT ![w] = place]
  BY DEF Step
<1> HIDE DEF place
<1> QED
  BY <1>1, <1>2, <1>3, PlaceEffect

LEMMA EndEffect ==
    ASSUME TypeOK, NEW w \in Workers, End(w)
    PROVE  /\ work' \in [Workers -> {Idle} \cup Task]
           /\ work'[w] = Idle /\ work'[w].pc = "idle"
           /\ \A v \in Workers : v # w => work'[v] = work[v]
<1>1. /\ work' \in [Workers -> {Idle} \cup Task]
      /\ work'[w] = Idle
      /\ \A v \in Workers : v # w => work'[v] = work[v]
  BY DEF TypeOK, End
<1> QED
  BY <1>1 DEF Idle

\* A message is dropped, or taken to the start of its task.
LEMMA TakeEffect ==
    ASSUME TypeOK, NEW w \in Workers, Take(w)
    PROVE  /\ work' \in [Workers -> {Idle} \cup Task]
           /\ work[w] = Idle /\ work'[w].pc \in {"idle", "start"}
           /\ work'[w].pc = "start" => work'[w].dataset = 1
           /\ \A v \in Workers : v # w => work'[v] = work[v]
           /\ \E m \in queue : queue' = queue \ {m}
           /\ stray' \in BOOLEAN
<1>1. PICK m \in queue :
          /\ queue' = queue \ {m}
          /\ \/ UNCHANGED work /\ stray' = TRUE
             \/ /\ HasRow /\ UNCHANGED stray
                /\ work' = [work EXCEPT ![w] =
                              [pc |-> "start", msg |-> m, seen |-> row.status,
                               dataset |-> 1, batch |-> 1, staged |-> {},
                               stopped |-> FALSE, retried |-> TRUE]]
  BY DEF Take, Strays
<1>2. work[w] = Idle
  BY DEF Take
<1>3. CASE UNCHANGED work /\ stray' = TRUE
  BY <1>1, <1>2, <1>3 DEF TypeOK, Idle
<1>4. CASE HasRow /\ ~(UNCHANGED work /\ stray' = TRUE)
  <2> DEFINE place == [pc |-> "start", msg |-> m, seen |-> row.status,
                       dataset |-> 1, batch |-> 1, staged |-> {},
                       stopped |-> FALSE, retried |-> TRUE]
  <2>1. row.status \in ImportStatus /\ m \in Message
    BY <1>4 DEF TypeOK, HasRow, Row
  <2>2. 1 \in Datasets /\ 1 \in Batches
    BY ConstantsAssumption DEF Datasets, Batches
  <2>3. place \in Task /\ place.pc = "start" /\ place.dataset = 1
    BY <2>1, <2>2 DEF Task, ImportPc
  <2>4. work' = [work EXCEPT ![w] = place] /\ stray' = stray
    BY <1>1, <1>4
  <2> HIDE DEF place
  <2>5. stray' \in BOOLEAN
    BY <2>4 DEF TypeOK
  <2> QED
    BY <1>1, <1>2, <2>3, <2>4, <2>5, PlaceEffect
<1> QED
  BY <1>1, <1>3, <1>4

LEMMA InvalidEffect ==
    ASSUME TypeOK, NEW w \in Workers, Invalid(w)
    PROVE  /\ work' \in [Workers -> {Idle} \cup Task]
           /\ work[w] # Idle /\ work'[w] # Idle /\ work'[w].pc = "clean"
           /\ \A v \in Workers : v # w => work'[v] = work[v]
<1> DEFINE place == [[work[w] EXCEPT !.pc = "clean"] EXCEPT !.retried = FALSE]
<1>1. work[w] \in Task /\ work[w] # Idle
  BY Works DEF Invalid
<1>2. place \in Task /\ place.pc = "clean"
  BY <1>1 DEF Task, EndPc
<1>3. work' = [work EXCEPT ![w] = place]
  BY <1>1 DEF Invalid, TypeOK
<1> HIDE DEF place
<1> QED
  BY <1>1, <1>2, <1>3, PlaceEffect

\* The tables are all there, none is, or the task gives up.
LEMMA CheckEffect ==
    ASSUME TypeOK, NEW w \in Workers, Check(w)
    PROVE  /\ work' \in [Workers -> {Idle} \cup Task]
           /\ work[w] # Idle /\ work'[w] # Idle /\ work[w].pc = "check"
           /\ work'[w].pc \in {"record", "stage", "clean"}
           /\ work'[w].pc = "record" => Tables
           /\ work'[w].dataset = work[w].dataset
           /\ \A v \in Workers : v # w => work'[v] = work[v]
<1>1. work[w] \in Task /\ work[w] # Idle /\ work[w].pc = "check"
  BY Works DEF Check, On
<1>2. CASE Tables
  BY <1>1, <1>2, StepEffect DEF Check, Tables, ImportPc
<1>3. CASE \A d \in Datasets : final[d] = None
  BY <1>1, <1>3, StepEffect DEF Check, Tables, ImportPc
<1>4. CASE ~Tables /\ \E d \in Datasets : final[d] # None
  <2> DEFINE place == [[work[w] EXCEPT !.pc = "clean"] EXCEPT !.retried = FALSE]
  <2>1. place \in Task /\ place.pc = "clean" /\ place.dataset = work[w].dataset
    BY <1>1 DEF Task, EndPc
  <2>2. work' = [work EXCEPT ![w] = place]
    BY <1>1, <1>4 DEF Check, Tables, TypeOK
  <2> HIDE DEF place
  <2> QED
    BY <1>1, <2>1, <2>2, PlaceEffect
<1> QED
  BY <1>2, <1>3, <1>4

\* A failure goes on in a handler, with what the task has staged or without.
LEMMA RaisesEffect ==
    ASSUME TypeOK, NEW w \in Workers, Raises(w)
    PROVE  /\ work' \in [Workers -> {Idle} \cup Task]
           /\ work[w] # Idle /\ work'[w] # Idle /\ work'[w].pc \in {"fail", "clean"}
           /\ \A v \in Workers : v # w => work'[v] = work[v]
<1>1. work[w].pc # "idle" /\ \E pc \in {"fail", "clean"} : Step(w, pc)
  BY DEF Raises, ImportPc
<1> QED
  BY <1>1, StepEffect DEF EndPc

LEMMA CleanFailsEffect ==
    ASSUME TypeOK, NEW w \in Workers, CleanFails(w)
    PROVE  /\ work' \in [Workers -> {Idle} \cup Task]
           /\ work[w] # Idle /\ work'[w] # Idle /\ work'[w].pc \in {"cancelled", "fail"}
           /\ \A v \in Workers : v # w => work'[v] = work[v]
           /\ kept' \subseteq Datasets
<1>1. work[w].pc # "idle" /\ \E pc \in {"cancelled", "fail"} : Step(w, pc)
  BY DEF CleanFails, On
<1>2. work[w].staged \subseteq Datasets
  BY <1>1, Works DEF Task
<1> QED
  BY <1>1, <1>2, StepEffect DEF EndPc, CleanFails, TypeOK

LEMMA StageEffect ==
    ASSUME TypeOK, NEW w \in Workers, Stage(w)
    PROVE  /\ work' \in [Workers -> {Idle} \cup Task]
           /\ work[w] \in Task /\ work[w] # Idle /\ work'[w] # Idle
           /\ work[w].pc = "stage" /\ work'[w].pc = "batch"
           /\ work'[w].dataset = work[w].dataset /\ work'[w].batch = 1
           /\ \A v \in Workers : v # w => work'[v] = work[v]
           /\ stage' \in [Datasets -> Table \cup {None}]
           /\ \A d \in Datasets : d # work[w].dataset => stage'[d] = stage[d]
           /\ stage'[work[w].dataset] = [b \in Batches |-> 0]
<1> DEFINE here == work[w].dataset
           place == [[[work[w] EXCEPT !.pc = "batch"] EXCEPT !.batch = 1]
                        EXCEPT !.staged = @ \cup {here}]
<1>1. work[w] \in Task /\ work[w] # Idle /\ work[w].pc = "stage" /\ here \in Datasets
  BY Works DEF Stage, On, Task
<1>2. place \in Task /\ place.pc = "batch" /\ place.batch = 1 /\ place.dataset = here
  <2>1. 1 \in Batches /\ work[w].staged \cup {here} \in SUBSET Datasets
    BY <1>1, ConstantsAssumption DEF Task, Batches
  <2>2. "batch" \in ImportPc \cup EndPc
    BY DEF ImportPc
  <2> QED
    BY <1>1, <2>1, <2>2 DEF Task
<1>3. work' = [work EXCEPT ![w] = place]
  BY <1>1 DEF Stage, TypeOK
<1>4. [b \in Batches |-> 0] \in Table
  BY DEF Table
<1>5. stage' = [stage EXCEPT ![here] = [b \in Batches |-> 0]]
  BY DEF Stage
<1> HIDE DEF place
<1> QED
  BY <1>1, <1>2, <1>3, <1>4, <1>5, PlaceEffect DEF TypeOK

LEMMA BatchEffect ==
    ASSUME TypeOK, NEW w \in Workers, Batch(w)
    PROVE  /\ work[w] \in Task
           /\ stage' \in [Datasets -> Table \cup {None}]
           /\ \A d \in Datasets : d # work[w].dataset => stage'[d] = stage[d]
           /\ stage[work[w].dataset] # None
           /\ \A b \in Batches :
                 stage'[work[w].dataset][b] =
                    IF b = work[w].batch THEN stage[work[w].dataset][b] + 1
                                         ELSE stage[work[w].dataset][b]
<1> DEFINE here == work[w].dataset
           table == [stage[here] EXCEPT ![work[w].batch] = @ + 1]
<1>1. work[w] \in Task /\ here \in Datasets /\ work[w].batch \in Batches
  BY Works DEF Batch, On, Task
<1>2. stage[here] # None /\ stage[here] \in Table
  BY <1>1 DEF Batch, HasStage, TypeOK
<1>3. /\ table \in Table
      /\ \A b \in Batches : table[b] = IF b = work[w].batch THEN stage[here][b] + 1
                                       ELSE stage[here][b]
  BY <1>1, <1>2 DEF Table
<1>4. stage' = [stage EXCEPT ![here] = table]
  BY DEF Batch
<1> HIDE DEF table
<1> QED
  BY <1>1, <1>2, <1>3, <1>4 DEF TypeOK

LEMMA ProgressEffect ==
    ASSUME TypeOK, NEW w \in Workers, Progress(w)
    PROVE  /\ work' \in [Workers -> {Idle} \cup Task]
           /\ work[w] \in Task /\ work[w] # Idle /\ work'[w] # Idle
           /\ work[w].pc = "progress" /\ work'[w].dataset = work[w].dataset
           /\ \/ work'[w].pc = "clean"
              \/ work'[w].pc = "batch" /\ work'[w].batch = work[w].batch + 1
              \/ work'[w].pc = "index" /\ work'[w].batch = work[w].batch
                 /\ work[w].batch = NumBatches
           /\ \A v \in Workers : v # w => work'[v] = work[v]
<1>1. work[w] \in Task /\ work[w] # Idle /\ work[w].pc = "progress"
  BY Works DEF Progress, On
<1>2. CASE Is("cancelled")
  <2> DEFINE place == [[work[w] EXCEPT !.pc = "clean"] EXCEPT !.stopped = TRUE]
  <2>1. place \in Task /\ place.pc = "clean" /\ place.dataset = work[w].dataset
    BY <1>1 DEF Task, EndPc
  <2>2. work' = [work EXCEPT ![w] = place]
    BY <1>1, <1>2 DEF Progress, TypeOK
  <2> HIDE DEF place
  <2> QED
    BY <1>1, <2>1, <2>2, PlaceEffect
<1>3. CASE ~Is("cancelled") /\ work[w].batch < NumBatches
  <2> DEFINE place == [[work[w] EXCEPT !.pc = "batch"] EXCEPT !.batch = @ + 1]
  <2>1. /\ place \in Task /\ place.pc = "batch" /\ place.dataset = work[w].dataset
        /\ place.batch = work[w].batch + 1
    <3>1. work[w].batch + 1 \in Batches /\ "batch" \in ImportPc \cup EndPc
      BY <1>1, <1>3, ConstantsAssumption DEF Task, ImportPc, Batches
    <3> QED
      BY <1>1, <3>1 DEF Task
  <2>2. work' = [work EXCEPT ![w] = place]
    <3>1. /\ work \in [Workers -> {Idle} \cup Task]
          /\ work' = [work EXCEPT ![w].pc = "batch", ![w].batch = @ + 1]
      BY <1>1, <1>3 DEF Progress, TypeOK
    <3> QED
      BY <1>1, <3>1
  <2> HIDE DEF place
  <2> QED
    BY <1>1, <2>1, <2>2, PlaceEffect
<1>4. CASE ~Is("cancelled") /\ ~(work[w].batch < NumBatches)
  <2>1. Step(w, "index") /\ work[w].batch = NumBatches
    BY <1>1, <1>4, ConstantsAssumption DEF Progress, Task, Batches
  <2> QED
    BY <1>1, <2>1, StepEffect DEF ImportPc
<1> QED
  BY <1>2, <1>3, <1>4

LEMMA IndexEffect ==
    ASSUME TypeOK, NEW w \in Workers, Index(w)
    PROVE  /\ work' \in [Workers -> {Idle} \cup Task]
           /\ work[w] \in Task /\ work[w] # Idle /\ work'[w] # Idle /\ work[w].pc = "index"
           /\ \/ work'[w].pc = "stage" /\ work'[w].dataset = work[w].dataset + 1
              \/ work'[w].pc = "rename" /\ work[w].dataset = NumDatasets
           /\ \A v \in Workers : v # w => work'[v] = work[v]
<1>1. work[w] \in Task /\ work[w] # Idle /\ work[w].pc = "index"
  BY Works DEF Index, On
<1>2. CASE work[w].dataset < NumDatasets
  <2> DEFINE place == [[work[w] EXCEPT !.pc = "stage"] EXCEPT !.dataset = @ + 1]
  <2>1. place \in Task /\ place.pc = "stage" /\ place.dataset = work[w].dataset + 1
    <3>1. work[w].dataset + 1 \in Datasets /\ "stage" \in ImportPc \cup EndPc
      BY <1>1, <1>2, ConstantsAssumption DEF Task, ImportPc, Datasets
    <3> QED
      BY <1>1, <3>1 DEF Task
  <2>2. work' = [work EXCEPT ![w] = place]
    BY <1>1, <1>2 DEF Index, TypeOK
  <2> HIDE DEF place
  <2> QED
    BY <1>1, <2>1, <2>2, PlaceEffect
<1>3. CASE ~(work[w].dataset < NumDatasets)
  <2>1. Step(w, "rename") /\ work[w].dataset = NumDatasets
    BY <1>1, <1>3, ConstantsAssumption DEF Index, Step, Task, Datasets
  <2> QED
    BY <1>1, <2>1, StepEffect DEF ImportPc
<1> QED
  BY <1>2, <1>3

LEMMA RetryEffect ==
    ASSUME TypeOK, NEW w \in Workers, work[w] # Idle, work[w].msg.tries < MaxRetries
    PROVE  [work[w].msg EXCEPT !.tries = @ + 1] \in Message
BY ConstantsAssumption DEF TypeOK, Task, Message

-----------------------------------------------------------------------------
(* Type correctness.                                                       *)

LEMMA InitType == Init => TypeOK
<1> SUFFICES ASSUME Init PROVE TypeOK
  OBVIOUS
<1>1. 0 \in 0 .. MaxRequests /\ 0 \in 0 .. MaxFailures
  BY ConstantsAssumption
<1>2. row \in Row
  BY DEF Init, Row, ImportStatus
<1>3. req \in [Requests -> {Idle} \cup Request] /\ work \in [Workers -> {Idle} \cup Task]
  BY DEF Init
<1>4. overlap \in BOOLEAN /\ stray \in BOOLEAN /\ deleted \in BOOLEAN
  BY DEF Init
<1> QED
  BY <1>1, <1>2, <1>3, <1>4 DEF Init, TypeOK

LEMMA RequestType ==
    ASSUME TypeOK, NEW r \in Requests,
           ImportRead(r) \/ CancelRead(r) \/ DeleteRead(r) \/ RequestStep(r)
    PROVE  TypeOK'
<1>1. CASE ImportRead(r)
  BY <1>1, NextNumber, OpensEffect
  DEF TypeOK, ImportRead, tableVars, taskVars, history, Opens, RequestPc
<1>2. CASE CancelRead(r)
  BY <1>2, NextNumber, OpensEffect
  DEF TypeOK, CancelRead, tableVars, taskVars, history, Opens, RequestPc
<1>3. CASE DeleteRead(r)
  BY <1>3, NextNumber, OpensEffect
  DEF TypeOK, DeleteRead, tableVars, taskVars, history, Opens, RequestPc
<1>4. CASE Queue(r)
  BY <1>4, GoEffect
  DEF TypeOK, Queue, tableVars, taskVars, history, At, RequestPc, Request, Row,
      ImportStatus
<1>5. CASE Send(r)
  BY <1>5, AnswerEffect, SendEffect DEF TypeOK, Send, tableVars, taskVars, history, At
<1>6. CASE SendRaises(r)
  BY <1>6, GoEffect, ConstantsAssumption
  DEF TypeOK, SendRaises, tableVars, taskVars, history, At, RequestPc, Fails
<1>7. CASE Refused(r)
  BY <1>7, AnswerEffect, StatusEffect
  DEF TypeOK, Refused, tableVars, taskVars, history, ImportStatus
<1>8. CASE CancelWrite(r)
  BY <1>8, GoEffect, StatusEffect
  DEF TypeOK, CancelWrite, tableVars, taskVars, history, At, RequestPc, ImportStatus,
      Request, Row
<1>9. CASE CancelDrop(r)
  BY <1>9, AnswerEffect DEF TypeOK, CancelDrop, Drops, tableVars, taskVars, history, Absent
<1>10. CASE DeleteTables(r)
  BY <1>10, GoEffect DEF TypeOK, DeleteTables, tableVars, taskVars, history, At, RequestPc
<1>11. CASE DeleteRow(r)
  BY <1>11, AnswerEffect DEF TypeOK, DeleteRow, tableVars, taskVars, history
<1> QED
  BY <1>1, <1>2, <1>3, <1>4, <1>5, <1>6, <1>7, <1>8, <1>9, <1>10, <1>11 DEF RequestStep

LEMMA WorkerType ==
    ASSUME TypeOK, NEW w \in Workers, WorkerStep(w) \/ WorkerDies(w)
    PROVE  TypeOK'
<1>1. CASE Take(w)
  BY <1>1, TakeEffect DEF TypeOK, Take, tableVars, taskVars, history, Strays
<1>2. CASE Start(w)
  BY <1>2, StepEffect, StatusEffect
  DEF TypeOK, Start, tableVars, taskVars, history, On, ImportPc, ImportStatus
<1>3. CASE Check(w)
  BY <1>3, CheckEffect DEF TypeOK, Check, tableVars, taskVars, history
<1>4. CASE Invalid(w)
  <2>1. work' \in [Workers -> {Idle} \cup Task] /\ failures' \in 0 .. MaxFailures
    <3>1. Fails
      BY <1>4 DEF Invalid
    <3>2. failures' \in 0 .. MaxFailures
      BY <3>1, ConstantsAssumption DEF TypeOK, Fails
    <3> QED
      BY <1>4, <3>2, InvalidEffect
  <2>2. UNCHANGED <<row, layer, tableVars, req, queue, revoked, requests, overlap, stray,
                    deleted>>
    BY <1>4 DEF Invalid
  <2> QED
    BY <2>1, <2>2 DEF TypeOK, tableVars
<1>5. CASE Stage(w)
  BY <1>5, StageEffect DEF TypeOK, Stage, taskVars, history
<1>6. CASE Batch(w)
  BY <1>6, StepEffect, BatchEffect
  DEF TypeOK, Batch, tableVars, taskVars, history, On, ImportPc
<1>7. CASE Progress(w)
  BY <1>7, ProgressEffect DEF TypeOK, Progress, tableVars, taskVars, history
<1>8. CASE Index(w)
  BY <1>8, IndexEffect DEF TypeOK, Index, tableVars, taskVars, history
<1>9. CASE Rename(w)
  BY <1>9, StepEffect
  DEF TypeOK, Rename, Drops, tableVars, taskVars, history, On, ImportPc, Absent
<1>10. CASE Record(w)
  BY <1>10, StepEffect DEF TypeOK, Record, tableVars, taskVars, history, On, ImportPc
<1>11. CASE Complete(w)
  BY <1>11, EndEffect, StatusEffect
  DEF TypeOK, Complete, tableVars, taskVars, history, ImportStatus
<1>12. CASE Raises(w)
  BY <1>12, RaisesEffect, ConstantsAssumption
  DEF TypeOK, Raises, tableVars, taskVars, history, Fails
<1>13. CASE Clean(w)
  BY <1>13, StepEffect DEF TypeOK, Clean, Drops, tableVars, taskVars, history, On, EndPc, Absent
<1>14. CASE Stopped(w)
  BY <1>14, EndEffect, StatusEffect
  DEF TypeOK, Stopped, tableVars, taskVars, history, ImportStatus
<1>15. CASE FailRead(w)
  BY <1>15, StepEffect DEF TypeOK, FailRead, tableVars, taskVars, history, On, EndPc
<1>16. CASE FailWrite(w)
  BY <1>16, StepEffect, StatusEffect
  DEF TypeOK, FailWrite, tableVars, taskVars, history, On, EndPc, ImportStatus
<1>17. CASE FailRetry(w)
  BY <1>17, EndEffect, RetryEffect
  DEF TypeOK, FailRetry, tableVars, taskVars, history, On, Idle
<1>18. CASE WorkerDies(w)
  BY <1>18, EndEffect, ConstantsAssumption
  DEF TypeOK, WorkerDies, tableVars, taskVars, history, Fails, Task
<1>19. CASE CleanFails(w)
  <2>1. failures' \in 0 .. MaxFailures
    BY <1>19, ConstantsAssumption DEF TypeOK, CleanFails, Fails
  <2> QED
    BY <1>19, <2>1, CleanFailsEffect DEF TypeOK, CleanFails
<1>20. CASE Escapes(w)
  <2>1. failures' \in 0 .. MaxFailures /\ stray' \in BOOLEAN
    BY <1>20, ConstantsAssumption DEF TypeOK, Escapes, Fails
  <2> QED
    BY <1>20, <2>1, EndEffect DEF TypeOK, Escapes, tableVars
<1> QED
  BY <1>1, <1>2, <1>3, <1>4, <1>5, <1>6, <1>7, <1>8, <1>9, <1>10, <1>11, <1>12, <1>13,
     <1>14, <1>15, <1>16, <1>17, <1>18, <1>19, <1>20
  DEF WorkerStep

LEMMA TypeStep ==
    ASSUME TypeOK, [Next]_vars
    PROVE  TypeOK'
<1>1. CASE Revoke
  <2>1. stray' \in BOOLEAN
    BY <1>1 DEF Revoke, Strays
  <2>2. CASE \E m \in queue : queue' = queue \ {m} /\ UNCHANGED work
    BY <1>1, <2>1, <2>2 DEF TypeOK, Revoke, tableVars
  <2>3. CASE \E w \in Workers : End(w) /\ UNCHANGED queue
    BY <1>1, <2>1, <2>3, EndEffect DEF TypeOK, Revoke, tableVars
  <2> QED
    BY <1>1, <2>2, <2>3 DEF Revoke, Busy
<1>2. CASE ApiDies
  BY <1>2, ConstantsAssumption DEF TypeOK, ApiDies, Fails, Strays, tableVars, taskVars
<1>3. CASE UNCHANGED vars
  BY <1>3 DEF TypeOK, vars
<1> QED
  BY <1>1, <1>2, <1>3, RequestType, WorkerType DEF Next

\* Every reachable state is well typed.
THEOREM TypeCorrectness == Spec => []TypeOK
BY InitType, TypeStep, PTL DEF Spec

-----------------------------------------------------------------------------
(* What is completed has its tables.                                       *)

LEMMA CompletedStep ==
    ASSUME TypeOK, TypeOK', CompletedInv, [Next]_vars
    PROVE  CompletedInv'
<1>1. ASSUME NEW r \in Requests,
             ImportRead(r) \/ CancelRead(r) \/ DeleteRead(r) \/ RequestStep(r)
      PROVE  CompletedInv'
  <2>1. CASE ImportRead(r)
    BY <2>1 DEF CompletedInv, Tables, Is, HasRow, ImportRead, tableVars, taskVars, history
  <2>2. CASE CancelRead(r)
    BY <2>2 DEF CompletedInv, Tables, Is, HasRow, CancelRead, tableVars, taskVars, history
  <2>3. CASE DeleteRead(r)
    BY <2>3 DEF CompletedInv, Tables, Is, HasRow, DeleteRead, tableVars, taskVars, history
  <2>4. CASE Queue(r)
    BY <2>4
    DEF CompletedInv, Tables, Is, HasRow, Queue, tableVars, taskVars, history,
        ImportStatus
  <2>5. CASE Send(r)
    BY <2>5 DEF CompletedInv, Tables, Is, HasRow, Send, tableVars, taskVars, history
  <2>6. CASE SendRaises(r)
    BY <2>6 DEF CompletedInv, Tables, Is, HasRow, SendRaises, tableVars, taskVars, history
  <2>7. CASE Refused(r)
    BY <2>7, StatusEffect
    DEF CompletedInv, Tables, Is, HasRow, Refused, tableVars, taskVars, history,
        ImportStatus
  <2>8. CASE CancelWrite(r)
    BY <2>8, StatusEffect
    DEF CompletedInv, Tables, Is, HasRow, CancelWrite, tableVars, taskVars, history,
        ImportStatus
  <2>9. CASE CancelDrop(r)
    BY <2>9
    DEF CompletedInv, Tables, Is, HasRow, CancelDrop, Drops, tableVars, taskVars, history, Absent
  <2>10. CASE DeleteTables(r)
    BY <2>10
    DEF CompletedInv, Tables, Is, HasRow, DeleteTables, tableVars, taskVars, history
  <2>11. CASE DeleteRow(r)
    BY <2>11 DEF CompletedInv, Tables, Is, HasRow, DeleteRow, tableVars, taskVars, history
  <2> QED
    BY <1>1, <2>1, <2>2, <2>3, <2>4, <2>5, <2>6, <2>7, <2>8, <2>9, <2>10, <2>11
    DEF RequestStep
<1>2. ASSUME NEW w \in Workers, WorkerStep(w) \/ WorkerDies(w)
      PROVE  CompletedInv'
  <2>1. CASE Take(w)
    BY <2>1, TakeEffect
    DEF CompletedInv, Tables, Is, HasRow, Take, tableVars, taskVars, history
  <2>2. CASE Start(w)
    BY <2>2, StepEffect, StatusEffect
    DEF CompletedInv, Tables, Is, HasRow, Start, tableVars, taskVars, history, On,
        ImportPc, ImportStatus
  <2>3. CASE Check(w)
    BY <2>3, CheckEffect
    DEF CompletedInv, Tables, Is, HasRow, Check, tableVars, taskVars, history
  <2>4. CASE Invalid(w)
    BY <2>4, InvalidEffect
    DEF CompletedInv, Tables, Is, HasRow, Invalid, tableVars, taskVars, history
  <2>5. CASE Stage(w)
    <3>1. UNCHANGED <<row, layer, final, deleted>>
      BY <2>5 DEF Stage, history
    <3> QED
      BY <2>5, <3>1, StageEffect DEF CompletedInv, Tables, Is, HasRow
  <2>6. CASE Batch(w)
    BY <2>6, StepEffect, BatchEffect
    DEF CompletedInv, Tables, Is, HasRow, Batch, tableVars, taskVars, history, On,
        ImportPc
  <2>7. CASE Progress(w)
    BY <2>7, ProgressEffect
    DEF CompletedInv, Tables, Is, HasRow, Progress, tableVars, taskVars, history
  <2>8. CASE Index(w)
    BY <2>8, IndexEffect
    DEF CompletedInv, Tables, Is, HasRow, Index, tableVars, taskVars, history
  <2>9. CASE Rename(w)
    BY <2>9, StepEffect
    DEF CompletedInv, Tables, Is, HasRow, Rename, Drops, tableVars, taskVars, history, On,
        ImportPc, Absent
  <2>10. CASE Record(w)
    BY <2>10, StepEffect
    DEF CompletedInv, Tables, Is, HasRow, Record, tableVars, taskVars, history, On,
        ImportPc
  <2>11. CASE Complete(w)
    <3>1. (layer = "postgis" /\ Tables) \/ deleted
      BY <2>11 DEF CompletedInv, Complete, On
    <3>2. UNCHANGED <<layer, final, deleted>>
      BY <2>11 DEF Complete, tableVars, history
    <3> QED
      BY <2>11, <3>1, <3>2, EndEffect DEF CompletedInv, Tables, Complete
  <2>12. CASE Raises(w)
    BY <2>12, RaisesEffect
    DEF CompletedInv, Tables, Is, HasRow, Raises, tableVars, taskVars, history
  <2>13. CASE Clean(w)
    BY <2>13, StepEffect
    DEF CompletedInv, Tables, Is, HasRow, Clean, Drops, tableVars, taskVars, history, On, EndPc,
        Absent
  <2>14. CASE Stopped(w)
    BY <2>14, EndEffect, StatusEffect
    DEF CompletedInv, Tables, Is, HasRow, Stopped, tableVars, taskVars, history,
        ImportStatus
  <2>15. CASE FailRead(w)
    BY <2>15, StepEffect
    DEF CompletedInv, Tables, Is, HasRow, FailRead, tableVars, taskVars, history, On,
        EndPc
  <2>16. CASE FailWrite(w)
    BY <2>16, StepEffect, StatusEffect
    DEF CompletedInv, Tables, Is, HasRow, FailWrite, tableVars, taskVars, history, On,
        EndPc, ImportStatus
  <2>17. CASE FailRetry(w)
    BY <2>17, EndEffect
    DEF CompletedInv, Tables, Is, HasRow, FailRetry, tableVars, taskVars, history, On
  <2>18. CASE WorkerDies(w)
    BY <2>18, EndEffect
    DEF CompletedInv, Tables, Is, HasRow, WorkerDies, tableVars, taskVars, history
  <2>19. CASE CleanFails(w)
    BY <2>19, CleanFailsEffect DEF CompletedInv, Tables, Is, HasRow, CleanFails
  <2>20. CASE Escapes(w)
    BY <2>20, EndEffect DEF CompletedInv, Tables, Is, HasRow, Escapes, tableVars
  <2> QED
    BY <1>2, <2>1, <2>2, <2>3, <2>4, <2>5, <2>6, <2>7, <2>8, <2>9, <2>10, <2>11, <2>12,
       <2>13, <2>14, <2>15, <2>16, <2>17, <2>18, <2>19, <2>20
    DEF WorkerStep
<1>3. CASE Revoke
  <2>1. CASE UNCHANGED work
    BY <1>3, <2>1 DEF CompletedInv, Tables, Is, HasRow, Revoke, tableVars
  <2>2. CASE \E w \in Workers : End(w) /\ UNCHANGED queue
    BY <1>3, <2>2, EndEffect DEF CompletedInv, Tables, Is, HasRow, Revoke, tableVars
  <2> QED
    BY <1>3, <2>1, <2>2 DEF Revoke, Busy
<1>4. CASE ApiDies
  BY <1>4 DEF CompletedInv, Tables, Is, HasRow, ApiDies, tableVars, taskVars
<1>5. CASE UNCHANGED vars
  BY <1>5 DEF CompletedInv, Tables, Is, HasRow, vars
<1> QED
  BY <1>1, <1>2, <1>3, <1>4, <1>5 DEF Next

-----------------------------------------------------------------------------
(* Without an overlap the tables are whole.                                *)

\* A step of the only task: it answers for what it has staged.
LEMMA SingleKeeps ==
    ASSUME TypeOK, SingleInv, NEW w \in Workers, work[w] # Idle,
           UNCHANGED <<queue, overlap>>,
           \A v \in Workers : v # w => work'[v] = work[v],
           ~overlap /\ Staged(w) => Staged(w)',
           ~overlap /\ Staged(w) => \A d \in Datasets : final'[d] # None => Whole(final'[d])
    PROVE  SingleInv'
<1> SUFFICES ASSUME ~overlap
             PROVE  /\ OneTask'
                    /\ \A v \in Workers : Staged(v)'
                    /\ \A d \in Datasets : final'[d] # None => Whole(final'[d])
  BY DEF SingleInv, Whole
<1>1. OneTask /\ Staged(w)
  BY DEF SingleInv
<1>2. queue = {} /\ \A v \in Workers : v # w => work[v] = Idle /\ work'[v] = Idle
  BY <1>1 DEF OneTask
<1>3. OneTask'
  BY <1>2 DEF OneTask
<1>4. ASSUME NEW v \in Workers, v # w
      PROVE  Staged(v)'
  BY <1>2, <1>4 DEF Staged, Idle
<1> QED
  BY <1>1, <1>3, <1>4

LEMMA SingleStep ==
    ASSUME TypeOK, TypeOK', SingleInv, [Next]_vars
    PROVE  SingleInv'
<1>1. ASSUME NEW r \in Requests,
             ImportRead(r) \/ CancelRead(r) \/ DeleteRead(r) \/ RequestStep(r)
      PROVE  SingleInv'
  <2>1. CASE ImportRead(r)
    BY <2>1
    DEF SingleInv, OneTask, Staged, Holds, Inserted, Whole, ImportRead, tableVars,
        taskVars, history
  <2>2. CASE CancelRead(r)
    BY <2>2
    DEF SingleInv, OneTask, Staged, Holds, Inserted, Whole, CancelRead, tableVars,
        taskVars, history
  <2>3. CASE DeleteRead(r)
    BY <2>3
    DEF SingleInv, OneTask, Staged, Holds, Inserted, Whole, DeleteRead, tableVars,
        taskVars, history
  <2>4. CASE Queue(r)
    BY <2>4
    DEF SingleInv, OneTask, Staged, Holds, Inserted, Whole, Queue, tableVars, taskVars,
        history, ImportStatus
  <2>5. CASE Send(r)
    <3>1. UNCHANGED <<work, stage, final>> /\ (overlap => overlap')
      BY <2>5 DEF Send, tableVars
    <3>2. ~overlap' => OneTask'
      BY <2>5, <3>1 DEF SingleInv, OneTask, Send, Busy
    <3> QED
      BY <3>1, <3>2 DEF SingleInv, Staged, Holds, Inserted, Whole
  <2>6. CASE SendRaises(r)
    BY <2>6
    DEF SingleInv, OneTask, Staged, Holds, Inserted, Whole, SendRaises, tableVars,
        taskVars, history
  <2>7. CASE Refused(r)
    BY <2>7, StatusEffect
    DEF SingleInv, OneTask, Staged, Holds, Inserted, Whole, Refused, tableVars, taskVars,
        history, ImportStatus
  <2>8. CASE CancelWrite(r)
    BY <2>8, StatusEffect
    DEF SingleInv, OneTask, Staged, Holds, Inserted, Whole, CancelWrite, tableVars,
        taskVars, history, ImportStatus
  <2>9. CASE CancelDrop(r)
    <3>1. UNCHANGED <<work, queue, overlap, final>> /\ \A d \in Datasets : stage'[d] = None
      BY <2>9 DEF CancelDrop, Drops, Absent, taskVars, history
    <3>2. ASSUME NEW w \in Workers, Staged(w)
          PROVE  Staged(w)'
      <4>1. work[w].pc # "idle" => work[w].dataset \in Datasets
        BY Works DEF Task
      <4> QED
        BY <3>1, <3>2, <4>1 DEF Staged, Holds
    <3>3. OneTask => OneTask'
      BY <3>1 DEF OneTask
    <3> QED
      BY <3>1, <3>2, <3>3 DEF SingleInv, Whole
  <2>10. CASE DeleteTables(r)
    BY <2>10
    DEF SingleInv, OneTask, Staged, Holds, Inserted, Whole, DeleteTables, tableVars,
        taskVars, history
  <2>11. CASE DeleteRow(r)
    BY <2>11
    DEF SingleInv, OneTask, Staged, Holds, Inserted, Whole, DeleteRow, tableVars,
        taskVars, history
  <2> QED
    BY <1>1, <2>1, <2>2, <2>3, <2>4, <2>5, <2>6, <2>7, <2>8, <2>9, <2>10, <2>11
    DEF RequestStep
<1>2. ASSUME NEW w \in Workers, WorkerStep(w) \/ WorkerDies(w)
      PROVE  SingleInv'
  <2>1. CASE Take(w)
    <3>1. UNCHANGED <<overlap, stage, final>>
      BY <2>1 DEF Take, tableVars
    <3>2. ~overlap => OneTask'
      BY <2>1, TakeEffect DEF SingleInv, OneTask, Idle
    <3>3. ~overlap => Staged(w)'
      BY <2>1, TakeEffect DEF Staged
    <3>4. ~overlap => \A v \in Workers : v # w => Staged(v)'
      BY <2>1, <3>1, TakeEffect DEF SingleInv, Staged, Holds, Inserted
    <3> QED
      BY <3>1, <3>2, <3>3, <3>4 DEF SingleInv, Whole
  <2>2. CASE Start(w)
    BY <2>2, StepEffect, StatusEffect
    DEF SingleInv, OneTask, Staged, Holds, Inserted, Whole, Start, tableVars, taskVars,
        history, On, ImportPc, ImportStatus
  <2>3. CASE Check(w)
    <3>1. UNCHANGED <<queue, overlap, stage, final>>
      BY <2>3 DEF Check, tableVars, history
    <3>3. /\ work[w] # Idle /\ work'[w].pc \in {"record", "clean", "stage"}
          /\ work'[w].dataset = work[w].dataset /\ work[w].pc = "check"
          /\ \A v \in Workers : v # w => work'[v] = work[v]
      BY <2>3, CheckEffect
    <3>4. Staged(w) => Staged(w)'
      BY <3>3 DEF Staged, Datasets
    <3> QED
      BY <3>1, <3>3, <3>4, SingleKeeps DEF SingleInv
  <2>4. CASE Invalid(w)
    <3>1. UNCHANGED <<queue, overlap, stage, final>>
      BY <2>4 DEF Invalid, tableVars
    <3>2. Staged(w)'
      BY <2>4, InvalidEffect DEF Staged
    <3> QED
      BY <2>4, <3>1, <3>2, InvalidEffect, SingleKeeps DEF SingleInv
  <2>5. CASE Stage(w)
    <3>1. UNCHANGED <<queue, overlap, final>>
      BY <2>5 DEF Stage, history
    <3>2. Staged(w) => Staged(w)'
      <4>1. work[w].dataset \in Datasets
        BY <2>5, StageEffect DEF Task
      <4>2. \A b \in Batches : ~(b < 1)
        BY DEF Batches
      <4> QED
        BY <2>5, <4>1, <4>2, StageEffect DEF Staged, Holds, Inserted, Datasets
    <3> QED
      BY <2>5, <3>1, <3>2, StageEffect, SingleKeeps DEF SingleInv
  <2>6. CASE Batch(w)
    <3>1. UNCHANGED <<queue, overlap, final>> /\ work[w].pc = "batch" /\ Step(w, "progress")
      BY <2>6 DEF Batch, On, history
    <3>2. /\ work[w] # Idle /\ work'[w].pc = "progress"
          /\ work'[w].dataset = work[w].dataset /\ work'[w].batch = work[w].batch
          /\ \A v \in Workers : v # w => work'[v] = work[v]
      BY <3>1, StepEffect DEF ImportPc
    <3>3. Staged(w) => Staged(w)'
      <4>1. work[w].dataset \in Datasets /\ work[w].batch \in Batches
        BY <2>6, BatchEffect DEF Task
      <4>2. \A b \in Batches :
               Inserted(w, b)' = IF b = work[w].batch THEN Inserted(w, b) + 1
                                 ELSE Inserted(w, b)
        BY <3>1, <3>2, <4>1 DEF Inserted, Batches
      <4> QED
        BY <2>6, <3>1, <3>2, <4>1, <4>2, BatchEffect DEF Staged, Holds, Datasets
    <3> QED
      BY <3>1, <3>2, <3>3, SingleKeeps DEF SingleInv
  <2>7. CASE Progress(w)
    <3>1. UNCHANGED <<queue, overlap, stage, final>>
      BY <2>7 DEF Progress, tableVars, history
    <3>2. Staged(w) => Staged(w)'
      <4>1. work[w].dataset \in Datasets /\ work[w].batch \in Batches
        BY <2>7, ProgressEffect DEF Task
      <4>2. work'[w].pc # "clean" => \A b \in Batches : Inserted(w, b)' = Inserted(w, b)
        BY <2>7, <4>1, ProgressEffect DEF Inserted, Batches
      <4> QED
        BY <2>7, <3>1, <4>1, <4>2, ProgressEffect DEF Staged, Holds
    <3> QED
      BY <2>7, <3>1, <3>2, ProgressEffect, SingleKeeps DEF SingleInv
  <2>8. CASE Index(w)
    <3>1. UNCHANGED <<queue, overlap, stage, final>>
      BY <2>8 DEF Index, tableVars, history
    <3>2. Staged(w) => Staged(w)'
      <4>1. work[w].dataset \in Datasets
        BY <2>8, IndexEffect DEF Task
      <4>2. Staged(w) => \A b \in Batches : Inserted(w, b) = 1
        BY <2>8, ConstantsAssumption, IndexEffect DEF Staged, Inserted, Batches
      <4>3. Staged(w) => \A d \in Datasets : d <= work[w].dataset =>
                             \A b \in Batches : Holds(d, b, 1)
        BY <2>8, <4>1, <4>2, IndexEffect DEF Staged, Datasets
      <4>4. \A d \in Datasets : d <= NumDatasets
        BY ConstantsAssumption DEF Datasets
      <4> QED
        BY <2>8, <3>1, <4>1, <4>3, <4>4, IndexEffect DEF Staged, Holds, Datasets
    <3> QED
      BY <2>8, <3>1, <3>2, IndexEffect, SingleKeeps DEF SingleInv
  <2>9. CASE Rename(w)
    <3>1. /\ UNCHANGED <<queue, overlap>> /\ work[w].pc = "rename" /\ Step(w, "record")
          /\ final' = stage /\ \A d \in Datasets : stage[d] # None
      BY <2>9 DEF Rename, On, history
    <3>2. /\ work[w] # Idle /\ work'[w].pc = "record"
          /\ \A v \in Workers : v # w => work'[v] = work[v]
      BY <3>1, StepEffect DEF ImportPc
    <3>3. Staged(w)'
      BY <3>2 DEF Staged
    <3>4. Staged(w) => \A d \in Datasets : Whole(stage[d])
      BY <3>1 DEF Staged, Holds, Whole
    <3> QED
      BY <3>1, <3>2, <3>3, <3>4, SingleKeeps
  <2>10. CASE Record(w)
    BY <2>10, StepEffect
    DEF SingleInv, OneTask, Staged, Holds, Inserted, Whole, Record, tableVars, taskVars,
        history, On, ImportPc
  <2>11. CASE Complete(w)
    BY <2>11, EndEffect, StatusEffect
    DEF SingleInv, OneTask, Staged, Holds, Inserted, Whole, Complete, tableVars, taskVars,
        history, ImportStatus
  <2>12. CASE Raises(w)
    BY <2>12, RaisesEffect
    DEF SingleInv, OneTask, Staged, Holds, Inserted, Whole, Raises, tableVars, taskVars,
        history
  <2>13. CASE Clean(w)
    <3>1. /\ UNCHANGED <<queue, overlap, final>>
          /\ work[w].pc = "clean" /\ \E pc \in {"cancelled", "fail"} : Step(w, pc)
      BY <2>13 DEF Clean, On, history
    <3>2. /\ work[w] # Idle /\ work'[w].pc \in {"cancelled", "fail"}
          /\ \A v \in Workers : v # w => work'[v] = work[v]
      BY <3>1, StepEffect DEF EndPc
    <3>3. Staged(w)'
      BY <3>2 DEF Staged
    <3> QED
      BY <3>1, <3>2, <3>3, SingleKeeps DEF SingleInv
  <2>14. CASE Stopped(w)
    BY <2>14, EndEffect, StatusEffect
    DEF SingleInv, OneTask, Staged, Holds, Inserted, Whole, Stopped, tableVars, taskVars,
        history, ImportStatus
  <2>15. CASE FailRead(w)
    BY <2>15, StepEffect
    DEF SingleInv, OneTask, Staged, Holds, Inserted, Whole, FailRead, tableVars, taskVars,
        history, On, EndPc
  <2>16. CASE FailWrite(w)
    BY <2>16, StepEffect, StatusEffect
    DEF SingleInv, OneTask, Staged, Holds, Inserted, Whole, FailWrite, tableVars,
        taskVars, history, On, EndPc, ImportStatus
  <2>17. CASE FailRetry(w)
    BY <2>17, EndEffect
    DEF SingleInv, OneTask, Staged, Holds, Inserted, Whole, FailRetry, tableVars,
        taskVars, history, On
  <2>18. CASE WorkerDies(w)
    BY <2>18, EndEffect
    DEF SingleInv, OneTask, Staged, Holds, Inserted, Whole, WorkerDies, tableVars,
        taskVars, history
  <2>19. CASE CleanFails(w)
    <3>1. UNCHANGED <<queue, overlap, final>>
      BY <2>19 DEF CleanFails
    <3>2. Staged(w)'
      BY <2>19, CleanFailsEffect DEF Staged
    <3> QED
      BY <2>19, <3>1, <3>2, CleanFailsEffect, SingleKeeps DEF SingleInv
  <2>20. CASE Escapes(w)
    BY <2>20, EndEffect
    DEF SingleInv, OneTask, Staged, Holds, Inserted, Whole, Escapes, tableVars
  <2> QED
    BY <1>2, <2>1, <2>2, <2>3, <2>4, <2>5, <2>6, <2>7, <2>8, <2>9, <2>10, <2>11, <2>12,
       <2>13, <2>14, <2>15, <2>16, <2>17, <2>18, <2>19, <2>20
    DEF WorkerStep
<1>3. CASE Revoke
  <2>1. CASE UNCHANGED work
    BY <1>3, <2>1
    DEF SingleInv, OneTask, Staged, Holds, Inserted, Whole, Revoke, tableVars
  <2>2. CASE \E w \in Workers : End(w) /\ UNCHANGED queue
    BY <1>3, <2>2, EndEffect
    DEF SingleInv, OneTask, Staged, Holds, Inserted, Whole, Revoke, tableVars
  <2> QED
    BY <1>3, <2>1, <2>2 DEF Revoke, Busy
<1>4. CASE ApiDies
  BY <1>4
  DEF SingleInv, OneTask, Staged, Holds, Inserted, Whole, ApiDies, tableVars, taskVars
<1>5. CASE UNCHANGED vars
  BY <1>5 DEF SingleInv, OneTask, Staged, Holds, Inserted, Whole, vars
<1> QED
  BY <1>1, <1>2, <1>3, <1>4, <1>5 DEF Next

-----------------------------------------------------------------------------
LEMMA InitInv == Init => TypeOK /\ CompletedInv /\ SingleInv
<1> SUFFICES ASSUME Init PROVE TypeOK /\ CompletedInv /\ SingleInv
  OBVIOUS
<1>1. \A w \in Workers : work[w] = Idle /\ work[w].pc = "idle"
  BY DEF Init, Idle
<1>2. CompletedInv
  BY <1>1 DEF Init, CompletedInv, Is
<1>3. SingleInv
  BY <1>1 DEF Init, SingleInv, OneTask, Staged, Holds
<1> QED
  BY <1>2, <1>3, InitType

\* A completed import has its tables and a layer that lists them, whatever other tasks,
\* retries, cancels and late cleanups do, until the layer is deleted.
THEOREM CompletedKeepsTables == Spec => []CompletedHasTables
<1>1. CompletedInv => CompletedHasTables
  BY DEF CompletedInv, CompletedHasTables, Tables
<1> QED
  BY <1>1, InitInv, TypeStep, CompletedStep, PTL DEF Spec

\* For any number of datasets and batches, crashes and retries: while tasks do not
\* overlap, a final table holds every batch exactly once.
THEOREM SingleImportsAreWhole == Spec => []SingleImportIsWhole
<1>1. SingleInv => SingleImportIsWhole
  BY DEF SingleInv, SingleImportIsWhole
<1> QED
  BY <1>1, InitInv, TypeStep, SingleStep, PTL DEF Spec
=============================================================================
