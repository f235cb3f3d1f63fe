------------------------ MODULE LayerCatalogueProofs ----------------------
(***************************************************************************)
(* Proofs about an Esri layer and about the fetching of its service.       *)
(* First LayerCatalogue, for any number of sublayers, requests, workers,   *)
(* retries and failures; then EsriFetch, whose state is its own.           *)
(***************************************************************************)
EXTENDS LayerCatalogue, EsriFetch, FiniteSetTheorems, SequenceTheorems, TLAPS

\* A task that starts has a copy of the row.
TypeInv == TypeOK /\ \A w \in Workers : work[w].pc = "start" => work[w].saw # None

\* Without an overlap there is one request and one task; a deletion has no task, and
\* a layer that is gone has no request but the deletion that makes its record go.
Deleting(r) == req[r].pc \in {"files", "row", "record"}
OneRequest == \A r, q \in Requests : req[r].pc # "idle" /\ req[q].pc # "idle" => r = q
OneTask ==
    /\ \A m, n \in queue : m = n
    /\ queue # {} => \A w \in Workers : work[w] = Idle
    /\ \A w, v \in Workers : work[w] # Idle /\ work[v] # Idle => w = v
NoTask == queue = {} /\ \A w \in Workers : work[w] = Idle
Alone ==
    /\ OneRequest
    /\ OneTask
    /\ (\E r \in Requests : Deleting(r)) \/ row = None => NoTask
    /\ row = None => \A r \in Requests : req[r].pc \in {"idle", "record"}
    /\ \A r \in Requests : req[r].pc = "record" => row = None
AloneInv == ~mixed => Alone

\* The directory fills sublayer by sublayer, but for those that get an error entry.
Filled(w) ==
    /\ work[w].pc \in {"start", "clear"} => work[w].sub = 1 /\ work[w].errors = {}
    /\ work[w].pc = "fetch" =>
          /\ \A s \in Sublayers : s \in dir <=> s < work[w].sub /\ s \notin work[w].errors
          /\ \A s \in work[w].errors : s < work[w].sub
    /\ work[w].pc \in {"report", "reported"} =>
          /\ \A s \in Sublayers : s \in dir <=> s <= work[w].sub /\ s \notin work[w].errors
          /\ \A s \in work[w].errors : s <= work[w].sub
    /\ work[w].pc = "finish" => dir = Sublayers \ work[w].errors
FillInv == ~mixed => \A w \in Workers : Filled(w)

\* A request that is about to write a row that was done writes it over one that is,
\* and only a request that takes the status back lets a task begin before.
Done == row # None /\ row.download.status = "done"
Writing == {"patch", "code", "uncode", "bbox"}
DoneInv ==
    ~mixed /\ ~cut =>
       /\ Done => \/ \E r \in Requests : req[r].pc \in {"row", "task"}
                  \/ dir = Sublayers \ row.download.errors /\ NoTask
       /\ \A r \in Requests :
             req[r].pc \in Writing /\ req[r].saw.download.status = "done" =>
                Done /\ row.download = req[r].saw.download

\* The record follows the row, or the request that wrote the row is about to make it,
\* or has failed to.
RecordInv ==
    ~mixed /\ ~stale =>
       /\ row # None => \/ record = row.info
                        \/ missed
                        \/ \E r \in Requests : req[r].pc = "sync" /\ req[r].saw.info = row.info
       /\ \A r \in Requests : req[r].pc = "sync" /\ row # None => req[r].saw.info = row.info

\* A deletion that is not cut short empties the directory before the row goes, and
\* the record after it.
GoneInv ==
    ~mixed => /\ \A r \in Requests : req[r].pc = "row" => dir = {}
              /\ row = None /\ ~cut => /\ dir = {}
                                       /\ \/ record = None
                                          \/ missed
                                          \/ \E r \in Requests : req[r].pc = "record"

-----------------------------------------------------------------------------
(* What the steps do to the place of a request and of a worker.            *)

LEMMA NextNumber ==
    ASSUME TypeOK, requests < MaxRequests
    PROVE  requests + 1 \in Ids /\ requests + 1 \in 0 .. MaxRequests
BY ConstantsAssumption DEF TypeOK, Ids

\* A request opens on a copy of the row, alone unless it is an overlap.
LEMMA OpensEffect ==
    ASSUME TypeOK, NEW r \in Requests, NEW step \in RequestPc, Opens(r, step)
    PROVE  /\ req' \in [Requests -> {Idle} \cup Request]
           /\ requests' \in 0 .. MaxRequests
           /\ mixed' \in BOOLEAN
           /\ row # None /\ req[r].pc = "idle" /\ req'[r].pc = step /\ req'[r].saw = row
           /\ \A q \in Requests : q # r => req'[q] = req[q]
           /\ ~mixed' => /\ ~mixed
                         /\ \A q \in Requests : req[q].pc = "idle"
                         /\ step = "files" => NoTask
           /\ UNCHANGED <<row, record, dir, work, queue, failures, stale, cut, missed>>
<1> DEFINE place == [pc |-> step, id |-> requests + 1, saw |-> row]
<1>1. place \in Request /\ requests' \in 0 .. MaxRequests
  BY NextNumber DEF TypeOK, Opens, HasRow, Request
<1>2. req' = [req EXCEPT ![r] = place]
  BY DEF Opens
<1>3. place.pc = step /\ place.saw = row
  OBVIOUS
<1>4. row # None /\ req[r].pc = "idle"
  BY DEF Opens, HasRow, At
<1>5. mixed' \in BOOLEAN
  BY DEF Opens, TypeOK
<1>6. ~mixed' => /\ ~mixed
                 /\ \A q \in Requests : req[q].pc = "idle"
                 /\ step = "files" => NoTask
  BY DEF Opens, InProgress, At, Tasks, Busy, NoTask
<1>7. UNCHANGED <<row, record, dir, work, queue, failures, stale, cut, missed>>
  BY DEF Opens
<1> HIDE DEF place
<1>8. /\ req' \in [Requests -> {Idle} \cup Request]
      /\ req'[r] = place
      /\ \A q \in Requests : q # r => req'[q] = req[q]
  BY <1>1, <1>2 DEF TypeOK
<1> QED
  BY <1>1, <1>3, <1>4, <1>5, <1>6, <1>7, <1>8

LEMMA Asks ==
    ASSUME TypeOK, NEW r \in Requests, req[r].pc # "idle"
    PROVE  req[r] \in Request /\ req[r].saw \in Row /\ req[r].id \in Ids
BY DEF TypeOK, Idle, Request

LEMMA GoEffect ==
    ASSUME TypeOK, NEW r \in Requests, req[r].pc # "idle", NEW step \in RequestPc, Go(r, step)
    PROVE  /\ req' \in [Requests -> {Idle} \cup Request]
           /\ req'[r].pc = step
           /\ \A q \in Requests : q # r => req'[q] = req[q]
<1> DEFINE place == [req[r] EXCEPT !.pc = step]
<1>1. place \in Request /\ place.pc = step
  BY Asks DEF Request
<1>2. req' = [req EXCEPT ![r] = place]
  BY DEF Go
<1> HIDE DEF place
<1> QED
  BY <1>1, <1>2 DEF TypeOK

LEMMA AnswerEffect ==
    ASSUME TypeOK, NEW r \in Requests, Answer(r)
    PROVE  /\ req' \in [Requests -> {Idle} \cup Request]
           /\ req'[r].pc = "idle"
           /\ \A q \in Requests : q # r => req'[q] = req[q]
<1>1. req' \in [Requests -> {Idle} \cup Request]
  BY DEF TypeOK, Answer
<1>2. req'[r] = Idle /\ \A q \in Requests : q # r => req'[q] = req[q]
  BY DEF TypeOK, Answer
<1> QED
  BY <1>1, <1>2 DEF Idle

\* The row is replaced if it is there; a copy that was out of date is noticed.
LEMMA WritesEffect ==
    ASSUME TypeOK, NEW copy, NEW new \in Row, Writes(copy, new)
    PROVE  /\ row' \in Row \cup {None} /\ stale' \in BOOLEAN
           /\ row' = None <=> row = None
           /\ row # None => row' = new
           /\ ~stale' => ~stale /\ (row # None => row = copy)
<1>1. new # None
  BY NoneAssumption
<1>2. row' = IF row # None THEN new ELSE None
  BY DEF Writes, HasRow
<1>3. stale' \in BOOLEAN /\ (~stale' => ~stale /\ (row # None => row = copy))
  BY DEF Writes, HasRow, TypeOK
<1> QED
  BY <1>1, <1>2, <1>3

\* The request goes on with what it wrote, or answers.
LEMMA EditsEffect ==
    ASSUME TypeOK, NEW r \in Requests, NEW step \in RequestPc, NEW new \in Row,
           NEW then \in RequestPc \cup {"answer"}, Edits(r, step, new, then)
    PROVE  /\ req' \in [Requests -> {Idle} \cup Request]
           /\ row' \in Row \cup {None} /\ stale' \in BOOLEAN
           /\ req[r].pc = step
           /\ row' = None <=> row = None
           /\ row # None => row' = new
           /\ ~stale' => ~stale /\ (row # None => row = req[r].saw)
           /\ \A q \in Requests : q # r => req'[q] = req[q]
           /\ \/ (row = None \/ then = "answer") /\ req'[r].pc = "idle"
              \/ row # None /\ then # "answer" /\ req'[r].pc = then /\ req'[r].saw = new
<1>1. /\ req[r].pc = step /\ Writes(req[r].saw, new)
      /\ IF row # None /\ then # "answer"
            THEN req' = [req EXCEPT ![r].pc = then, ![r].saw = new]
            ELSE Answer(r)
  BY DEF Edits, At, HasRow
<1>2. step # "idle"
  BY DEF RequestPc
<1>3. /\ row' \in Row \cup {None} /\ stale' \in BOOLEAN
      /\ row' = None <=> row = None
      /\ row # None => row' = new
      /\ ~stale' => ~stale /\ (row # None => row = req[r].saw)
  BY <1>1, WritesEffect
<1>4. CASE row = None \/ then = "answer"
  BY <1>1, <1>3, <1>4, AnswerEffect
<1>5. CASE row # None /\ then # "answer"
  <2> DEFINE place == [[req[r] EXCEPT !.pc = then] EXCEPT !.saw = new]
  <2>1. place \in Request /\ place.pc = then /\ place.saw = new
    BY <1>1, <1>2, <1>5, Asks DEF Request
  <2>2. req' = [req EXCEPT ![r] = place]
    BY <1>1, <1>2, <1>5, Asks DEF TypeOK
  <2> HIDE DEF place
  <2>3. /\ req' \in [Requests -> {Idle} \cup Request]
        /\ req'[r] = place
        /\ \A q \in Requests : q # r => req'[q] = req[q]
    BY <2>1, <2>2 DEF TypeOK
  <2> QED
    BY <1>1, <1>3, <1>5, <2>1, <2>3
<1> QED
  BY <1>4, <1>5

\* The requests that edit the metadata write the download they have read.
MetadataWrite(r) == PatchWrite(r) \/ BboxWrite(r) \/ CodeWrite(r) \/ UncodeWrite(r)
LEMMA MetadataEffect ==
    ASSUME TypeOK, NEW r \in Requests, MetadataWrite(r)
    PROVE  /\ req' \in [Requests -> {Idle} \cup Request]
           /\ row' \in Row \cup {None} /\ stale' \in BOOLEAN
           /\ req[r].pc \in Writing
           /\ row' = None <=> row = None
           /\ row # None => row'.download = req[r].saw.download
           /\ ~stale' => ~stale /\ (row # None => row = req[r].saw)
           /\ \A q \in Requests : q # r => req'[q] = req[q]
           /\ \/ req'[r].pc = "idle" /\ (row # None => row'.info = req[r].saw.info)
              \/ row # None /\ req'[r].pc = "sync" /\ req'[r].saw.info = row'.info
           /\ UNCHANGED <<record, dir, work, queue, requests, failures, cut, missed, mixed>>
<1>1. UNCHANGED <<record, dir, work, queue, requests, failures, cut, missed, mixed>>
  BY DEF MetadataWrite, PatchWrite, BboxWrite, CodeWrite, UncodeWrite, requestRest
<1>2. req[r].pc \in Writing
  BY DEF MetadataWrite, PatchWrite, BboxWrite, CodeWrite, UncodeWrite, Edits, At, Writing
<1>3. req[r].saw \in Row /\ req[r].id \in 0 .. MaxRequests
  BY <1>2, Asks, ConstantsAssumption DEF Writing, Ids
<1>4. /\ {"patch", "bbox", "code", "uncode"} \subseteq RequestPc
      /\ {"sync", "answer"} \subseteq RequestPc \cup {"answer"}
  BY DEF RequestPc
<1>5. CASE PatchWrite(r)
  <2> DEFINE new == [req[r].saw EXCEPT !.info = req[r].id]
  <2>1. new \in Row /\ new.download = req[r].saw.download
    BY <1>3 DEF Row
  <2>2. Edits(r, "patch", new, "sync")
    BY <1>5 DEF PatchWrite
  <2> HIDE DEF new
  <2> QED
    BY <1>1, <1>2, <1>4, <2>1, <2>2, EditsEffect
<1>6. CASE BboxWrite(r)
  <2>1. Edits(r, "bbox", req[r].saw, "sync")
    BY <1>6 DEF BboxWrite
  <2> QED
    BY <1>1, <1>2, <1>3, <1>4, <2>1, EditsEffect
<1>7. CASE CodeWrite(r)
  <2> DEFINE new == [req[r].saw EXCEPT !.code = req[r].id]
  <2>1. new \in Row /\ new.download = req[r].saw.download /\ new.info = req[r].saw.info
    BY <1>3 DEF Row
  <2>2. Edits(r, "code", new, "answer")
    BY <1>7 DEF CodeWrite
  <2> HIDE DEF new
  <2> QED
    BY <1>1, <1>2, <1>4, <2>1, <2>2, EditsEffect
<1>8. CASE UncodeWrite(r)
  <2>1. Edits(r, "uncode", req[r].saw, "answer")
    BY <1>8 DEF UncodeWrite
  <2> QED
    BY <1>1, <1>2, <1>3, <1>4, <2>1, EditsEffect
<1> QED
  BY <1>5, <1>6, <1>7, <1>8 DEF MetadataWrite

\* The requests about the download leave a status that is not done.
DownloadWrite(r) == TriggerWrite(r) \/ TriggerTask(r) \/ CancelWrite(r)
LEMMA DownloadEffect ==
    ASSUME TypeOK, NEW r \in Requests, DownloadWrite(r)
    PROVE  /\ req' \in [Requests -> {Idle} \cup Request]
           /\ row' \in Row \cup {None} /\ stale' \in BOOLEAN
           /\ req[r].pc \in {"pending", "task", "cancel"}
           /\ row' = None <=> row = None
           /\ row # None => /\ row'.download.status # "done"
                            /\ row'.info = req[r].saw.info
           /\ ~stale' => ~stale /\ (row # None => row = req[r].saw)
           /\ \A q \in Requests : q # r => req'[q] = req[q]
           /\ req'[r].pc = "idle" \/ (row # None /\ req'[r].pc = "send")
           /\ UNCHANGED <<record, dir, work, queue, requests, failures, cut, missed, mixed>>
<1>1. UNCHANGED <<record, dir, work, queue, requests, failures, cut, missed, mixed>>
  BY DEF DownloadWrite, TriggerWrite, TriggerTask, CancelWrite, requestRest
<1>2. req[r].pc \in {"pending", "task", "cancel"}
  BY DEF DownloadWrite, TriggerWrite, TriggerTask, CancelWrite, Edits, At
<1>3. req[r].saw \in Row /\ req[r].id \in Ids
  BY <1>2, Asks
<1>4. /\ {"pending", "task", "cancel"} \subseteq RequestPc
      /\ {"send", "answer"} \subseteq RequestPc \cup {"answer"}
  BY DEF RequestPc
<1>5. ASSUME NEW process \in Process
      PROVE  /\ Downloads(r, process) \in Row
             /\ Downloads(r, process).download = process
             /\ Downloads(r, process).info = req[r].saw.info
  BY <1>3 DEF Row, Downloads
<1>6. CASE TriggerWrite(r)
  <2> DEFINE process == Pending(None)
  <2>1. process \in Process /\ process.status # "done"
    BY DEF Process, Status, Pending
  <2>2. Edits(r, "pending", Downloads(r, process), "send")
    BY <1>6 DEF TriggerWrite
  <2> HIDE DEF process
  <2> QED
    BY <1>1, <1>2, <1>4, <1>5, <2>1, <2>2, EditsEffect
<1>7. CASE TriggerTask(r)
  <2> DEFINE process == Pending(req[r].id)
  <2>1. process \in Process /\ process.status # "done"
    BY <1>3 DEF Process, Status, Pending
  <2>2. Edits(r, "task", Downloads(r, process), "answer")
    BY <1>7 DEF TriggerTask
  <2> HIDE DEF process
  <2> QED
    BY <1>1, <1>2, <1>4, <1>5, <2>1, <2>2, EditsEffect
<1>8. CASE CancelWrite(r)
  <2> DEFINE process == [req[r].saw.download EXCEPT !.status = "cancelled"]
  <2>1. process \in Process /\ process.status # "done"
    BY <1>3 DEF Row, Process, Status
  <2>2. Edits(r, "cancel", Downloads(r, process), "answer")
    BY <1>8 DEF CancelWrite
  <2> HIDE DEF process
  <2> QED
    BY <1>1, <1>2, <1>4, <1>5, <2>1, <2>2, EditsEffect
<1> QED
  BY <1>6, <1>7, <1>8 DEF DownloadWrite

LEMMA Works ==
    ASSUME TypeOK, NEW w \in Workers, work[w].pc # "idle"
    PROVE  work[w] \in Task /\ work[w] # Idle
BY DEF TypeOK, Idle

LEMMA Idles ==
    ASSUME TypeOK, NEW w \in Workers, work[w] # Idle
    PROVE  work[w] \in Task /\ work[w].pc # "idle"
BY DEF TypeOK, Task, WorkPc

LEMMA PlaceEffect ==
    ASSUME TypeOK, NEW w \in Workers, NEW place \in Task, work' = [work EXCEPT ![w] = place]
    PROVE  /\ work' \in [Workers -> {Idle} \cup Task]
           /\ work'[w] = place /\ work'[w] # Idle
           /\ \A v \in Workers : v # w => work'[v] = work[v]
<1>1. place # Idle
  BY DEF Task, WorkPc, Idle
<1> QED
  BY <1>1 DEF TypeOK

LEMMA StepEffect ==
    ASSUME TypeOK, NEW w \in Workers, work[w].pc # "idle", NEW step \in WorkPc, Step(w, step)
    PROVE  /\ work' \in [Workers -> {Idle} \cup Task]
           /\ work[w] # Idle /\ work'[w] # Idle
           /\ work'[w].pc = step /\ work'[w].sub = work[w].sub
           /\ work'[w].errors = work[w].errors
           /\ \A v \in Workers : v # w => work'[v] = work[v]
<1> DEFINE place == [work[w] EXCEPT !.pc = step]
<1>1. /\ work[w] # Idle /\ place \in Task /\ place.pc = step
      /\ place.sub = work[w].sub /\ place.errors = work[w].errors
  BY Works DEF Task
<1>2. work' = [work EXCEPT ![w] = place]
  BY DEF Step
<1> HIDE DEF place
<1> QED
  BY <1>1, <1>2, PlaceEffect

LEMMA EndEffect ==
    ASSUME TypeOK, NEW w \in Workers, End(w)
    PROVE  /\ work' \in [Workers -> {Idle} \cup Task]
           /\ work'[w] = Idle /\ work'[w].pc = "idle"
           /\ \A v \in Workers : v # w => work'[v] = work[v]
<1>1. /\ work' \in [Workers -> {Idle} \cup Task]
      /\ work'[w] = Idle
      /\ \A v \in Workers : v # w => work'[v] = work[v]
  BY DEF TypeOK, End
<1> QED
  BY <1>1 DEF Idle

\* A message is dropped, or taken to the start of its task with a copy of the row.
LEMMA TakeEffect ==
    ASSUME TypeOK, NEW w \in Workers, Take(w)
    PROVE  /\ work' \in [Workers -> {Idle} \cup Task]
           /\ work[w] = Idle
           /\ work' # work => /\ work'[w] # Idle /\ work'[w].pc = "start"
                              /\ work'[w].sub = 1 /\ work'[w].saw # None
                              /\ work'[w].errors = {}
           /\ \A v \in Workers : v # w => work'[v] = work[v]
           /\ \E m \in queue : queue' = queue \ {m}
           /\ UNCHANGED <<row, dir, failures, stale, record, req, requests, cut, missed, mixed>>
<1>1. /\ work[w] = Idle
      /\ UNCHANGED <<row, dir, failures, stale, record, req, requests, cut, missed, mixed>>
  BY DEF Take, workRest
<1>2. PICK m \in queue :
          /\ queue' = queue \ {m}
          /\ work' = IF ~HasRow \/ Is("cancelled") THEN work
                     ELSE [work EXCEPT ![w] = [pc |-> "start", msg |-> m, sub |-> 1,
                                               saw |-> row, errors |-> {},
                                               retried |-> FALSE]]
  BY DEF Take
<1>3. CASE work' = work
  BY <1>1, <1>2, <1>3 DEF TypeOK
<1>4. CASE work' # work
  <2> DEFINE place == [pc |-> "start", msg |-> m, sub |-> 1, saw |-> row, errors |-> {},
                       retried |-> FALSE]
  <2>1. work' = [work EXCEPT ![w] = place] /\ row # None
    BY <1>2, <1>4 DEF HasRow
  <2>2. 1 \in Sublayers /\ row \in Row \cup {None} /\ m \in Message
    BY ConstantsAssumption DEF TypeOK, Sublayers
  <2>3. /\ place \in Task /\ place.pc = "start" /\ place.sub = 1 /\ place.saw = row
        /\ place.errors = {}
    BY <2>2 DEF Task, WorkPc
  <2> HIDE DEF place
  <2> QED
    BY <1>1, <1>2, <2>1, <2>3, PlaceEffect
<1> QED
  BY <1>3, <1>4

\* The callback keeps a copy of the row, or stops.
LEMMA ReportEffect ==
    ASSUME TypeOK, NEW w \in Workers, Report(w)
    PROVE  /\ work' \in [Workers -> {Idle} \cup Task]
           /\ work[w] # Idle /\ work'[w] # Idle /\ work[w].pc = "report"
           /\ work'[w].pc \in {"reported", "cancelled"} /\ work'[w].sub = work[w].sub
           /\ work'[w].errors = work[w].errors
           /\ \A v \in Workers : v # w => work'[v] = work[v]
           /\ UNCHANGED <<row, dir, queue, failures, stale, record, req, requests, cut, missed, mixed>>
<1>1. /\ work[w].pc = "report"
      /\ UNCHANGED <<row, dir, queue, failures, stale, record, req, requests, cut, missed, mixed>>
  BY DEF Report, On, workRest
<1>2. work[w] \in Task /\ work[w] # Idle
  BY <1>1, Works
<1>3. CASE Is("cancelled")
  <2> DEFINE place == [work[w] EXCEPT !.pc = "cancelled"]
  <2>1. /\ place \in Task /\ place.pc = "cancelled" /\ place.sub = work[w].sub
        /\ place.errors = work[w].errors
    BY <1>2 DEF Task, WorkPc
  <2>2. work' = [work EXCEPT ![w] = place]
    BY <1>3 DEF Report
  <2> HIDE DEF place
  <2> QED
    BY <1>1, <1>2, <2>1, <2>2, PlaceEffect
<1>4. CASE ~Is("cancelled")
  <2> DEFINE place == [[work[w] EXCEPT !.pc = "reported"] EXCEPT !.saw = row]
  <2>1. /\ place \in Task /\ place.pc = "reported" /\ place.sub = work[w].sub
        /\ place.errors = work[w].errors
    BY <1>2 DEF Task, WorkPc, TypeOK
  <2>2. work' = [work EXCEPT ![w] = place]
    BY <1>2, <1>4 DEF Report, TypeOK
  <2> HIDE DEF place
  <2> QED
    BY <1>1, <1>2, <2>1, <2>2, PlaceEffect
<1> QED
  BY <1>3, <1>4

\* The two writes of the progress, from the task's copy.
Proceeds(w) == Start(w) \/ Reported(w)
LEMMA ProceedsEffect ==
    ASSUME TypeInv, NEW w \in Workers, Proceeds(w)
    PROVE  /\ work' \in [Workers -> {Idle} \cup Task]
           /\ row' \in Row \cup {None} /\ stale' \in BOOLEAN
           /\ work[w] # Idle /\ work'[w] # Idle
           /\ \/ work[w].pc = "start" /\ work'[w].pc = "clear" /\ work'[w].sub = work[w].sub
              \/ /\ work[w].pc = "reported" /\ work'[w].pc = "fetch"
                 /\ work'[w].sub = work[w].sub + 1
              \/ /\ work[w].pc = "reported" /\ work'[w].pc = "finish"
                 /\ work[w].sub = NumSublayers
           /\ work'[w].errors = work[w].errors
           /\ \A v \in Workers : v # w => work'[v] = work[v]
           /\ row' = None <=> row = None
           /\ row' = row \/ row'.download.status = "processing"
           /\ ~stale' => ~stale /\ (row # None => row'.info = row.info)
           /\ UNCHANGED <<dir, queue, failures, record, req, requests, cut, missed, mixed>>
<1> USE DEF TypeInv
<1>1. /\ work[w].pc \in {"start", "reported"}
      /\ UNCHANGED <<dir, queue, failures, record, req, requests, cut, missed, mixed>>
  BY DEF Proceeds, Start, Reported, On, workRest
<1>2. work[w] \in Task /\ work[w] # Idle /\ work[w].msg.id \in Ids /\ work[w].sub \in Sublayers
  BY <1>1, Works DEF Task, Message
<1>3. /\ row' \in Row \cup {None} /\ stale' \in BOOLEAN
      /\ row' = None <=> row = None
      /\ row' = row \/ row'.download.status = "processing"
      /\ ~stale' => ~stale /\ (row # None => row'.info = row.info)
  <2>1. CASE work[w].saw = None
    <3>1. UNCHANGED <<row, stale>>
      BY <1>1, <2>1 DEF Proceeds, Start, Reported, On
    <3> QED
      BY <3>1 DEF TypeOK
  <2>2. CASE work[w].saw # None
    <3> DEFINE new == Reports(w)
    <3>1. /\ new \in Row /\ new.download.status = "processing"
          /\ new.info = work[w].saw.info
      <4>1. work[w].saw \in Row
        BY <1>2, <2>2 DEF Task
      <4> QED
        BY <1>2, <4>1 DEF Reports, Says, Row, Process, Status
    <3>2. Writes(work[w].saw, new)
      BY <2>2 DEF Proceeds, Start, Reported
    <3> HIDE DEF new
    <3> QED
      BY <3>1, <3>2, WritesEffect DEF TypeOK
  <2> QED
    BY <2>1, <2>2
<1>5. CASE Start(w)
  <2>1. Step(w, "clear") /\ work[w].pc = "start"
    BY <1>5 DEF Start, On
  <2> QED
    BY <1>1, <1>3, <2>1, StepEffect DEF WorkPc
<1>6. CASE Reported(w) /\ work[w].sub < NumSublayers
  <2> DEFINE place == [[work[w] EXCEPT !.pc = "fetch"] EXCEPT !.sub = @ + 1]
  <2>1. work[w].sub + 1 \in Sublayers
    BY <1>2, <1>6, ConstantsAssumption DEF Sublayers
  <2>2. /\ place \in Task /\ place.pc = "fetch" /\ place.sub = work[w].sub + 1
        /\ place.errors = work[w].errors
    BY <1>2, <2>1 DEF Task, WorkPc
  <2>3. work' = [work EXCEPT ![w] = place] /\ work[w].pc = "reported"
    BY <1>2, <1>6 DEF Reported, On, TypeOK
  <2> HIDE DEF place
  <2> QED
    BY <1>1, <1>2, <1>3, <2>2, <2>3, PlaceEffect
<1>7. CASE Reported(w) /\ ~(work[w].sub < NumSublayers)
  <2>1. Step(w, "finish") /\ work[w].pc = "reported"
    BY <1>7 DEF Reported, On, Step
  <2>2. work[w].sub = NumSublayers
    BY <1>2, <1>7, ConstantsAssumption DEF Sublayers
  <2> QED
    BY <1>1, <1>3, <2>1, <2>2, StepEffect DEF WorkPc
<1> QED
  BY <1>5, <1>6, <1>7 DEF Proceeds

\* The last write of the status leaves the other keys.
LEMMA EndsEffect ==
    ASSUME TypeOK, NEW w \in Workers, work[w].pc # "idle", NEW status \in Status,
           NEW errors \in SUBSET Sublayers, Ends(w, status, errors)
    PROVE  /\ row' \in Row \cup {None}
           /\ row' = None <=> row = None
           /\ row # None => /\ row'.info = row.info /\ row'.download.status = status
                            /\ row'.download.errors = errors
<1> DEFINE process == Says(w, status, errors)
           new == [row EXCEPT !.download = process]
<1>1. process \in Process /\ process.status = status /\ process.errors = errors
  BY Works DEF Task, Message, Process, Says
<1>2. row' = IF row # None THEN new ELSE None
  BY DEF Ends, HasRow
<1> HIDE DEF process
<1>3. row # None => new \in Row /\ new.info = row.info /\ new.download = process
  BY <1>1 DEF TypeOK, Row
<1> HIDE DEF new
<1> QED
  BY <1>1, <1>2, <1>3, NoneAssumption

\* Done with the manifest, or cancelled, or failed.
LEMMA EndingEffect ==
    ASSUME TypeOK, NEW w \in Workers, Finish(w) \/ Stopped(w) \/ Fail(w)
    PROVE  /\ work[w] # Idle
           /\ row' \in Row \cup {None}
           /\ row' = None <=> row = None
           /\ row # None => row'.info = row.info
           /\ Finish(w) /\ row # None => row'.download.errors = work[w].errors
           /\ ~Finish(w) /\ row # None => row'.download.status # "done"
           /\ UNCHANGED <<dir, queue, failures, stale, record, req, requests, cut, missed, mixed>>
<1>1. /\ work[w].pc \in {"finish", "cancelled", "failed"}
      /\ UNCHANGED <<dir, queue, failures, stale, record, req, requests, cut, missed, mixed>>
  BY DEF Finish, Stopped, Fail, On, workRest
<1>2. work[w] # Idle /\ work[w].errors \in SUBSET Sublayers /\ {} \in SUBSET Sublayers
  BY <1>1, Works DEF Task
<1>3. {"done", "cancelled", "failed"} \subseteq Status
  BY DEF Status
<1>4. CASE Finish(w)
  <2>1. Ends(w, "done", work[w].errors)
    BY <1>4 DEF Finish
  <2> QED
    BY <1>1, <1>2, <1>3, <1>4, <2>1, EndsEffect
<1>5. CASE Stopped(w) /\ ~Finish(w)
  <2>1. Ends(w, "cancelled", {})
    BY <1>5 DEF Stopped
  <2> QED
    BY <1>1, <1>2, <1>3, <1>5, <2>1, EndsEffect
<1>6. CASE Fail(w) /\ ~Finish(w)
  <2>1. Ends(w, "failed", {})
    BY <1>6 DEF Fail
  <2> QED
    BY <1>1, <1>2, <1>3, <1>6, <2>1, EndsEffect
<1> QED
  BY <1>4, <1>5, <1>6

\* A sublayer that fails gets an error entry instead of its files.
LEMMA SkipsEffect ==
    ASSUME TypeOK, NEW w \in Workers, FetchSkips(w)
    PROVE  /\ work' \in [Workers -> {Idle} \cup Task]
           /\ work[w] # Idle /\ work'[w] # Idle /\ work[w].pc = "fetch"
           /\ work'[w].pc = "report" /\ work'[w].sub = work[w].sub
           /\ work[w].sub \in Sublayers /\ work[w].errors \subseteq Sublayers
           /\ work'[w].errors = work[w].errors \cup {work[w].sub}
           /\ failures' \in 0 .. MaxFailures
           /\ \A v \in Workers : v # w => work'[v] = work[v]
           /\ UNCHANGED <<row, dir, queue, stale, record, req, requests, cut, missed, mixed>>
<1>1. /\ work[w].pc = "fetch" /\ failures' \in 0 .. MaxFailures
      /\ UNCHANGED <<row, dir, queue, stale, record, req, requests, cut, missed, mixed>>
  BY ConstantsAssumption DEF FetchSkips, On, Fails, TypeOK, workRest
<1> DEFINE place == [[work[w] EXCEPT !.pc = "report"] EXCEPT !.errors = @ \cup {work[w].sub}]
<1>2. /\ work[w] \in Task /\ work[w] # Idle
      /\ work[w].sub \in Sublayers /\ work[w].errors \subseteq Sublayers
  BY <1>1, Works DEF Task
<1>3. /\ place \in Task /\ place.pc = "report" /\ place.sub = work[w].sub
      /\ place.errors = work[w].errors \cup {work[w].sub}
  BY <1>2 DEF Task, WorkPc
<1>4. work' = [work EXCEPT ![w] = place]
  <2>1. /\ work \in [Workers -> {Idle} \cup Task]
        /\ work' = [work EXCEPT ![w].pc = "report", ![w].errors = @ \cup {work[w].sub}]
    BY DEF FetchSkips, TypeOK
  <2> QED
    BY <1>2, <2>1
<1> HIDE DEF place
<1> QED
  BY <1>1, <1>2, <1>3, <1>4, PlaceEffect

\* A failure where no handler catches it ends the task.
LEMMA EscapesEffect ==
    ASSUME TypeOK, NEW w \in Workers, Escapes(w)
    PROVE  /\ work' \in [Workers -> {Idle} \cup Task]
           /\ work[w] # Idle /\ work'[w] = Idle /\ work'[w].pc = "idle"
           /\ failures' \in 0 .. MaxFailures
           /\ \A v \in Workers : v # w => work'[v] = work[v]
           /\ UNCHANGED <<row, dir, queue, stale, record, req, requests, cut, missed, mixed>>
<1>1. work[w].pc # "idle" /\ End(w) /\ failures' \in 0 .. MaxFailures
  BY ConstantsAssumption DEF Escapes, Fails, TypeOK
<1>2. UNCHANGED <<row, dir, queue, stale, record, req, requests, cut, missed, mixed>>
  BY DEF Escapes, workRest
<1> QED
  BY <1>1, <1>2, Works, EndEffect

\* The record stays as it is.
LEMMA RecordRaisesEffect ==
    ASSUME TypeOK, NEW r \in Requests, RecordRaises(r)
    PROVE  /\ req' \in [Requests -> {Idle} \cup Request]
           /\ req[r].pc \in {"sync", "record"} /\ req'[r].pc = "idle"
           /\ \A q \in Requests : q # r => req'[q] = req[q]
           /\ failures' \in 0 .. MaxFailures /\ missed' = TRUE
           /\ UNCHANGED <<row, record, dir, work, queue, requests, stale, cut, mixed>>
<1>1. failures' \in 0 .. MaxFailures
  BY ConstantsAssumption DEF RecordRaises, Fails, TypeOK
<1> QED
  BY <1>1, AnswerEffect DEF RecordRaises, At

LEMMA RaisesEffect ==
    ASSUME TypeOK, NEW w \in Workers, Raises(w)
    PROVE  /\ work' \in [Workers -> {Idle} \cup Task]
           /\ work[w] # Idle /\ work'[w] # Idle /\ work'[w].pc = "failed"
           /\ failures' \in 0 .. MaxFailures
           /\ \A v \in Workers : v # w => work'[v] = work[v]
           /\ UNCHANGED <<row, dir, queue, stale, record, req, requests, cut, missed, mixed>>
<1>1. /\ work[w].pc # "idle" /\ failures' \in 0 .. MaxFailures
      /\ UNCHANGED <<row, dir, queue, stale, record, req, requests, cut, missed, mixed>>
  BY ConstantsAssumption DEF Raises, Fails, TypeOK, workRest
<1>2. PICK again \in BOOLEAN : work' = [work EXCEPT ![w].pc = "failed", ![w].retried = again]
  BY DEF Raises, On
<1> DEFINE place == [[work[w] EXCEPT !.pc = "failed"] EXCEPT !.retried = again]
<1>3. work[w] \in Task /\ work[w] # Idle
  BY <1>1, Works
<1>4. place \in Task /\ place.pc = "failed"
  BY <1>3 DEF Task, WorkPc
<1>5. work' = [work EXCEPT ![w] = place]
  BY <1>2, <1>3 DEF TypeOK
<1> HIDE DEF place
<1> QED
  BY <1>1, <1>3, <1>4, <1>5, PlaceEffect

LEMMA RetryEffect ==
    ASSUME TypeOK, NEW w \in Workers, Retry(w)
    PROVE  /\ queue' \subseteq Message
           /\ work[w].pc = "retry" /\ work[w] # Idle
           /\ queue' = queue \/ \E m \in Message : queue' = queue \cup {m}
           /\ UNCHANGED <<row, dir, failures, stale, record, req, requests, cut, missed, mixed>>
<1>1. /\ work[w].pc = "retry"
      /\ UNCHANGED <<row, dir, failures, stale, record, req, requests, cut, missed, mixed>>
  BY DEF Retry, On, workRest
<1>2. work[w] # Idle /\ work[w].msg \in Message
  BY <1>1, Works DEF Task
<1>3. work[w].msg.tries < MaxRetries => [work[w].msg EXCEPT !.tries = @ + 1] \in Message
  BY <1>2, ConstantsAssumption DEF Message
<1> QED
  BY <1>1, <1>2, <1>3 DEF Retry, TypeOK

\* What a request opens with.
Opening == {"patch", "bbox", "code", "uncode", "pending", "cancel", "files"}
LEMMA OpensKinds ==
    ASSUME NEW r \in Requests, RequestOpens(r)
    PROVE  \E step \in Opening : Opens(r, step)
BY DEF RequestOpens, PatchRead, BboxRead, CodeRead, UncodeRead, TriggerRead, CancelRead,
       DeleteRead, Opening

-----------------------------------------------------------------------------
(* Types                                                                   *)

LEMMA TypeInit == Init => TypeInv
<1> SUFFICES ASSUME Init PROVE TypeInv
  OBVIOUS
<1>1. row \in Row
  BY ConstantsAssumption DEF Init, Row, Process, Status
<1>2. \A w \in Workers : work[w].pc # "start"
  BY DEF Init, Idle
<1>3. /\ requests \in 0 .. MaxRequests /\ failures \in 0 .. MaxFailures
      /\ record \in 0 .. MaxRequests /\ dir \subseteq Sublayers /\ queue \subseteq Message
  BY ConstantsAssumption DEF Init
<1>4. /\ req \in [Requests -> {Idle} \cup Request]
      /\ work \in [Workers -> {Idle} \cup Task]
  BY DEF Init
<1>5. stale \in BOOLEAN /\ cut \in BOOLEAN /\ missed \in BOOLEAN /\ mixed \in BOOLEAN
  BY DEF Init
<1> QED
  BY <1>1, <1>2, <1>3, <1>4, <1>5 DEF TypeInv, TypeOK

LEMMA TypeStep ==
    ASSUME TypeInv, [Next]_vars
    PROVE  TypeInv'
<1> USE DEF TypeInv
<1>1. ASSUME NEW r \in Requests, NEW step \in Opening, Opens(r, step)
      PROVE  TypeInv'
  BY <1>1, OpensEffect DEF TypeOK, Opening, RequestPc
<1>2. ASSUME NEW r \in Requests, RequestStep(r)
      PROVE  TypeInv'
  <2>1. CASE MetadataWrite(r)
    BY <2>1, MetadataEffect DEF TypeOK, RequestPc
  <2>2. CASE DownloadWrite(r)
    BY <2>2, DownloadEffect DEF TypeOK, RequestPc
  <2>3. CASE SyncRecord(r)
    <3>1. req[r].saw.info \in 0 .. MaxRequests
      BY <2>3, Asks DEF SyncRecord, At, Row
    <3> QED
      BY <2>3, <3>1, AnswerEffect DEF TypeOK, SyncRecord, At
  <2>4. CASE Send(r)
    <3>1. req[r].id \in Ids /\ queue' = queue \cup {[id |-> req[r].id, tries |-> 0]}
      BY <2>4, Asks DEF Send, At
    <3>2. queue' \subseteq Message
      BY <3>1, ConstantsAssumption DEF TypeOK, Message
    <3>3. mixed' \in BOOLEAN
      BY <2>4 DEF Send, TypeOK
    <3> QED
      BY <2>4, <3>2, <3>3, GoEffect DEF TypeOK, Send, At, RequestPc
  <2>5. CASE SendRaises(r)
    <3>1. failures' \in 0 .. MaxFailures
      BY <2>5, ConstantsAssumption DEF SendRaises, Fails, TypeOK
    <3> QED
      BY <2>5, <3>1, AnswerEffect DEF TypeOK, SendRaises
  <2>6. CASE DeleteFiles(r)
    BY <2>6, GoEffect DEF TypeOK, DeleteFiles, At, RequestPc
  <2>7. CASE DeleteRow(r)
    BY <2>7, GoEffect DEF TypeOK, DeleteRow, At, RequestPc
  <2>8. CASE DeleteRecord(r)
    BY <2>8, AnswerEffect DEF TypeOK, DeleteRecord, At, RequestPc
  <2>9. CASE RecordRaises(r)
    BY <2>9, RecordRaisesEffect DEF TypeOK
  <2> QED
    BY <1>2, <2>1, <2>2, <2>3, <2>4, <2>5, <2>6, <2>7, <2>8, <2>9
    DEF RequestStep, MetadataWrite, DownloadWrite
<1>3. ASSUME NEW w \in Workers, WorkerStep(w) \/ WorkerDies(w)
      PROVE  TypeInv'
  <2>1. CASE Take(w)
    BY <2>1, TakeEffect DEF TypeOK
  <2>2. CASE Proceeds(w)
    BY <2>2, ProceedsEffect DEF TypeOK
  <2>3. CASE Clear(w)
    BY <2>3, StepEffect DEF TypeOK, Clear, On, workRest, WorkPc
  <2>4. CASE Fetch(w)
    <3>1. dir' \subseteq Sublayers
      BY <2>4, Works DEF Fetch, On, Task, TypeOK
    <3> QED
      BY <2>4, <3>1, StepEffect DEF TypeOK, Fetch, On, workRest, WorkPc
  <2>5. CASE Report(w)
    BY <2>5, ReportEffect DEF TypeOK
  <2>6. CASE Finish(w)
    BY <2>6, EndEffect, EndingEffect DEF TypeOK, Finish
  <2>7. CASE Stopped(w)
    BY <2>7, EndEffect, EndingEffect DEF TypeOK, Stopped
  <2>8. CASE Raises(w)
    BY <2>8, RaisesEffect DEF TypeOK
  <2>9. CASE Fail(w)
    BY <2>9, StepEffect, EndingEffect DEF TypeOK, Fail, On, WorkPc
  <2>10. CASE Retry(w)
    BY <2>10, EndEffect, RetryEffect DEF TypeOK, Retry
  <2>11. CASE WorkerDies(w)
    <3>1. queue' \subseteq Message
      BY <2>11 DEF WorkerDies, TypeOK, Task
    <3>2. failures' \in 0 .. MaxFailures
      BY <2>11, ConstantsAssumption DEF WorkerDies, Fails, TypeOK
    <3> QED
      BY <2>11, <3>1, <3>2, EndEffect DEF TypeOK, WorkerDies, workRest
  <2>12. CASE FetchSkips(w)
    BY <2>12, SkipsEffect DEF TypeOK
  <2>13. CASE Escapes(w)
    BY <2>13, EscapesEffect DEF TypeOK
  <2> QED
    BY <1>3, <2>1, <2>2, <2>3, <2>4, <2>5, <2>6, <2>7, <2>8, <2>9, <2>10, <2>11,
       <2>12, <2>13
    DEF WorkerStep, Proceeds
<1>4. CASE ApiRestarts
  <2>1. record' \in 0 .. MaxRequests \cup {None} /\ missed' \in BOOLEAN
    BY <1>4 DEF ApiRestarts, HasRow, TypeOK, Row
  <2>2. failures' \in 0 .. MaxFailures
    BY <1>4, ConstantsAssumption DEF ApiRestarts, Fails, TypeOK
  <2> QED
    BY <1>4, <2>1, <2>2 DEF TypeOK, ApiRestarts
<1>5. CASE UNCHANGED vars
  BY <1>5 DEF TypeOK, vars
<1> QED
  BY <1>1, <1>2, <1>3, <1>4, <1>5, OpensKinds DEF Next

-----------------------------------------------------------------------------
(* Without an overlap there is one request and one task.                   *)

LEMMA AloneStep ==
    ASSUME TypeInv, AloneInv, [Next]_vars
    PROVE  AloneInv'
<1> USE DEF TypeInv
<1>1. ASSUME NEW r \in Requests, NEW step \in Opening, Opens(r, step)
      PROVE  AloneInv'
  BY <1>1, OpensEffect
  DEF AloneInv, Alone, OneRequest, OneTask, NoTask, Deleting, Opening, RequestPc
<1>2. ASSUME NEW r \in Requests, RequestStep(r)
      PROVE  AloneInv'
  <2>1. CASE MetadataWrite(r)
    BY <2>1, MetadataEffect
       DEF AloneInv, Alone, OneRequest, OneTask, NoTask, Deleting, Writing
  <2>2. CASE DownloadWrite(r)
    BY <2>2, DownloadEffect
    DEF AloneInv, Alone, OneRequest, OneTask, NoTask, Deleting, RequestPc
  <2>3. CASE SyncRecord(r)
    BY <2>3, AnswerEffect
    DEF AloneInv, Alone, OneRequest, OneTask, NoTask, Deleting, SyncRecord, At, RequestPc
  <2>4. CASE Send(r)
    <3>1. /\ req[r].pc = "send"
          /\ queue' = queue \cup {[id |-> req[r].id, tries |-> 0]}
          /\ UNCHANGED <<row, work>>
      BY <2>4 DEF Send, At
    <3>2. ~mixed' => ~mixed /\ NoTask
      BY <2>4 DEF Send, Tasks, Busy, NoTask
    <3>3. /\ req'[r].pc = "task"
          /\ \A q \in Requests : q # r => req'[q] = req[q]
      BY <2>4, <3>1, GoEffect DEF Send, RequestPc
    <3> QED
      BY <3>1, <3>2, <3>3 DEF AloneInv, Alone, OneRequest, OneTask, NoTask, Deleting
  <2>5. CASE SendRaises(r)
    BY <2>5, AnswerEffect
    DEF AloneInv, Alone, OneRequest, OneTask, NoTask, Deleting, SendRaises, At, RequestPc
  <2>6. CASE DeleteFiles(r)
    BY <2>6, GoEffect
    DEF AloneInv, Alone, OneRequest, OneTask, NoTask, Deleting, DeleteFiles, At, RequestPc
  <2>7. CASE DeleteRow(r)
    BY <2>7, GoEffect
    DEF AloneInv, Alone, OneRequest, OneTask, NoTask, Deleting, DeleteRow, At, RequestPc
  <2>8. CASE DeleteRecord(r)
    BY <2>8, AnswerEffect
    DEF AloneInv, Alone, OneRequest, OneTask, NoTask, Deleting, DeleteRecord, At,
        RequestPc
  <2>9. CASE RecordRaises(r)
    <3>1. /\ req'[r].pc = "idle" /\ \A q \in Requests : q # r => req'[q] = req[q]
          /\ UNCHANGED <<row, work, queue, mixed>>
      BY <2>9, RecordRaisesEffect
    <3> QED
      BY <3>1 DEF AloneInv, Alone, OneRequest, OneTask, NoTask, Deleting
  <2> QED
    BY <1>2, <2>1, <2>2, <2>3, <2>4, <2>5, <2>6, <2>7, <2>8, <2>9
    DEF RequestStep, MetadataWrite, DownloadWrite
<1>3. ASSUME NEW w \in Workers, WorkerStep(w) \/ WorkerDies(w)
      PROVE  AloneInv'
  <2>1. CASE Take(w)
    BY <2>1, TakeEffect DEF AloneInv, Alone, OneRequest, OneTask, NoTask, Deleting
  <2>2. CASE Proceeds(w)
    BY <2>2, ProceedsEffect DEF AloneInv, Alone, OneRequest, OneTask, NoTask, Deleting
  <2>3. CASE Clear(w)
    BY <2>3, StepEffect
    DEF AloneInv, Alone, OneRequest, OneTask, NoTask, Deleting, Clear, On, workRest,
        WorkPc
  <2>4. CASE Fetch(w)
    BY <2>4, StepEffect
    DEF AloneInv, Alone, OneRequest, OneTask, NoTask, Deleting, Fetch, On, workRest,
        WorkPc
  <2>5. CASE Report(w)
    BY <2>5, ReportEffect DEF AloneInv, Alone, OneRequest, OneTask, NoTask, Deleting
  <2>6. CASE Finish(w)
    BY <2>6, EndEffect, EndingEffect
    DEF AloneInv, Alone, OneRequest, OneTask, NoTask, Deleting, Finish
  <2>7. CASE Stopped(w)
    BY <2>7, EndEffect, EndingEffect
    DEF AloneInv, Alone, OneRequest, OneTask, NoTask, Deleting, Stopped
  <2>8. CASE Raises(w)
    BY <2>8, RaisesEffect DEF AloneInv, Alone, OneRequest, OneTask, NoTask, Deleting
  <2>9. CASE Fail(w)
    BY <2>9, StepEffect, EndingEffect
    DEF AloneInv, Alone, OneRequest, OneTask, NoTask, Deleting, Fail, On, WorkPc
  <2>10. CASE Retry(w)
    BY <2>10, EndEffect, RetryEffect
    DEF AloneInv, Alone, OneRequest, OneTask, NoTask, Deleting, Retry
  <2>11. CASE WorkerDies(w)
    BY <2>11, EndEffect
    DEF AloneInv, Alone, OneRequest, OneTask, NoTask, Deleting, WorkerDies, workRest
  <2>12. CASE FetchSkips(w)
    BY <2>12, SkipsEffect DEF AloneInv, Alone, OneRequest, OneTask, NoTask, Deleting
  <2>13. CASE Escapes(w)
    BY <2>13, EscapesEffect DEF AloneInv, Alone, OneRequest, OneTask, NoTask, Deleting
  <2> QED
    BY <1>3, <2>1, <2>2, <2>3, <2>4, <2>5, <2>6, <2>7, <2>8, <2>9, <2>10, <2>11,
       <2>12, <2>13
    DEF WorkerStep, Proceeds
<1>4. CASE ApiRestarts
  <2>1. /\ \A r \in Requests : req'[r].pc = "idle"
        /\ UNCHANGED <<row, work, queue, mixed>>
    BY <1>4 DEF ApiRestarts, Idle
  <2> QED
    BY <2>1 DEF AloneInv, Alone, OneRequest, OneTask, NoTask, Deleting
<1>5. CASE UNCHANGED vars
  BY <1>5 DEF AloneInv, Alone, OneRequest, OneTask, NoTask, Deleting, vars
<1> QED
  BY <1>1, <1>2, <1>3, <1>4, <1>5, OpensKinds DEF Next

-----------------------------------------------------------------------------
(* What a task has done fills the directory.                               *)

LEMMA OnlyRequest ==
    ASSUME AloneInv, ~mixed, NEW r \in Requests, req[r].pc # "idle"
    PROVE  /\ \A q \in Requests : q # r => req[q].pc = "idle"
           /\ req[r].pc = "record" <=> row = None
           /\ req[r].pc \in {"files", "row", "record"} => NoTask
BY DEF AloneInv, Alone, OneRequest, Deleting

LEMMA OnlyTask ==
    ASSUME AloneInv, ~mixed, NEW w \in Workers, work[w] # Idle
    PROVE  /\ queue = {} /\ ~NoTask /\ row # None
           /\ \A v \in Workers : v # w => work[v] = Idle
           /\ \A r \in Requests : req[r].pc \notin {"files", "row", "record"}
BY DEF AloneInv, Alone, OneTask, NoTask, Deleting

\* A step of the only task: it answers for what it has filled.
LEMMA FillKeeps ==
    ASSUME TypeInv, AloneInv, FillInv, NEW w \in Workers, work[w] # Idle, UNCHANGED mixed,
           \A v \in Workers : v # w => work'[v] = work[v],
           ~mixed /\ Filled(w) => Filled(w)'
    PROVE  FillInv'
<1> SUFFICES ASSUME ~mixed, NEW v \in Workers
             PROVE  Filled(v)'
  BY DEF FillInv
<1>1. v # w => work'[v] = Idle
  BY OnlyTask
<1> QED
  BY <1>1 DEF FillInv, Filled, Idle

LEMMA FillStep ==
    ASSUME TypeInv, TypeInv', AloneInv, FillInv, [Next]_vars
    PROVE  FillInv'
<1> USE DEF TypeInv
<1>1. ASSUME NEW r \in Requests, NEW step \in Opening, Opens(r, step)
      PROVE  FillInv'
  BY <1>1, OpensEffect DEF FillInv, Filled, Opening, RequestPc
<1>2. ASSUME NEW r \in Requests, RequestStep(r)
      PROVE  FillInv'
  <2>1. CASE MetadataWrite(r)
    BY <2>1, MetadataEffect DEF FillInv, Filled, RequestPc
  <2>2. CASE DownloadWrite(r)
    BY <2>2, DownloadEffect DEF FillInv, Filled, RequestPc
  <2>3. CASE SyncRecord(r)
    BY <2>3, AnswerEffect DEF FillInv, Filled, SyncRecord, At, RequestPc
  <2>4. CASE Send(r)
    BY <2>4, GoEffect DEF FillInv, Filled, Send, At, RequestPc
  <2>5. CASE SendRaises(r)
    BY <2>5, AnswerEffect DEF FillInv, Filled, SendRaises, At, RequestPc
  <2>6. CASE DeleteFiles(r)
    <3>1. req[r].pc = "files" /\ UNCHANGED <<work, mixed>>
      BY <2>6 DEF DeleteFiles, At
    <3>2. ~mixed => \A w \in Workers : work[w] = Idle
      BY <3>1, OnlyRequest DEF NoTask
    <3> QED
      BY <3>1, <3>2 DEF FillInv, Filled, Idle
  <2>7. CASE DeleteRow(r)
    BY <2>7, GoEffect DEF FillInv, Filled, DeleteRow, At, RequestPc
  <2>8. CASE DeleteRecord(r)
    BY <2>8, AnswerEffect DEF FillInv, Filled, DeleteRecord, At, RequestPc
  <2>9. CASE RecordRaises(r)
    BY <2>9, RecordRaisesEffect DEF FillInv, Filled
  <2> QED
    BY <1>2, <2>1, <2>2, <2>3, <2>4, <2>5, <2>6, <2>7, <2>8, <2>9
    DEF RequestStep, MetadataWrite, DownloadWrite
<1>3. ASSUME NEW w \in Workers, WorkerStep(w) \/ WorkerDies(w)
      PROVE  FillInv'
  <2>1. CASE Take(w)
    BY <2>1, TakeEffect DEF FillInv, Filled
  <2>2. CASE Proceeds(w)
    <3>1. /\ work[w].sub \in Sublayers /\ work[w].errors \subseteq Sublayers
          /\ work'[w].errors = work[w].errors
      BY <2>2, ProceedsEffect, Idles DEF Task
    <3>2. Filled(w) => Filled(w)'
      <4>1. CASE /\ work[w].pc = "start" /\ work'[w].pc = "clear"
                 /\ work'[w].sub = work[w].sub
        BY <2>2, <4>1, ProceedsEffect DEF Filled
      <4>2. CASE /\ work[w].pc = "reported" /\ work'[w].pc = "fetch"
                 /\ work'[w].sub = work[w].sub + 1 /\ UNCHANGED dir
        BY <3>1, <4>2 DEF Filled, Sublayers
      <4>3. CASE /\ work[w].pc = "reported" /\ work'[w].pc = "finish"
                 /\ work[w].sub = NumSublayers /\ UNCHANGED dir
        <5>1. Filled(w) => dir = Sublayers \ work[w].errors
          <6>1. dir \subseteq Sublayers
            BY DEF TypeOK
          <6>2. \A s \in Sublayers : s <= work[w].sub
            BY <4>3, ConstantsAssumption DEF Sublayers
          <6> QED
            BY <4>3, <6>1, <6>2 DEF Filled
        <5> QED
          BY <2>2, <4>3, <5>1, ProceedsEffect DEF Filled
      <4> QED
        BY <2>2, <4>1, <4>2, <4>3, ProceedsEffect
    <3> QED
      BY <2>2, <3>2, ProceedsEffect, FillKeeps
  <2>3. CASE Clear(w)
    <3>1. work[w].pc = "clear" /\ dir' = {} /\ Step(w, "fetch") /\ UNCHANGED mixed
      BY <2>3 DEF Clear, On, workRest
    <3>2. Filled(w) => Filled(w)'
      BY <3>1, StepEffect DEF Filled, Sublayers, WorkPc
    <3> QED
      BY <3>1, <3>2, StepEffect, FillKeeps DEF WorkPc
  <2>4. CASE Fetch(w)
    <3>1. /\ work[w].pc = "fetch" /\ dir' = dir \cup {work[w].sub}
          /\ Step(w, "report") /\ UNCHANGED mixed
      BY <2>4 DEF Fetch, On, workRest
    <3>2. work[w].sub \in Sublayers /\ work[w].errors \subseteq Sublayers
      BY <3>1, Works DEF Task
    <3>3. /\ work'[w].pc = "report" /\ work'[w].sub = work[w].sub
          /\ work'[w].errors = work[w].errors
      BY <3>1, StepEffect DEF WorkPc
    <3>4. Filled(w) => Filled(w)'
      BY <3>1, <3>2, <3>3 DEF Filled, Sublayers
    <3> QED
      BY <3>1, <3>4, StepEffect, FillKeeps DEF WorkPc
  <2>5. CASE Report(w)
    BY <2>5, ReportEffect DEF FillInv, Filled
  <2>6. CASE Finish(w)
    BY <2>6, EndEffect, EndingEffect DEF FillInv, Filled, Finish
  <2>7. CASE Stopped(w)
    BY <2>7, EndEffect, EndingEffect DEF FillInv, Filled, Stopped
  <2>8. CASE Raises(w)
    BY <2>8, RaisesEffect DEF FillInv, Filled
  <2>9. CASE Fail(w)
    BY <2>9, StepEffect, EndingEffect DEF FillInv, Filled, Fail, On, WorkPc
  <2>10. CASE Retry(w)
    BY <2>10, EndEffect, RetryEffect DEF FillInv, Filled, Retry
  <2>11. CASE WorkerDies(w)
    BY <2>11, EndEffect DEF FillInv, Filled, WorkerDies, workRest
  <2>12. CASE FetchSkips(w)
    <3>1. Filled(w) => Filled(w)'
      BY <2>12, SkipsEffect DEF Filled, Sublayers
    <3> QED
      BY <2>12, <3>1, SkipsEffect, FillKeeps
  <2>13. CASE Escapes(w)
    BY <2>13, EscapesEffect DEF FillInv, Filled
  <2> QED
    BY <1>3, <2>1, <2>2, <2>3, <2>4, <2>5, <2>6, <2>7, <2>8, <2>9, <2>10, <2>11,
       <2>12, <2>13
    DEF WorkerStep, Proceeds
<1>4. CASE ApiRestarts
  BY <1>4 DEF FillInv, Filled, ApiRestarts
<1>5. CASE UNCHANGED vars
  BY <1>5 DEF FillInv, Filled, vars
<1> QED
  BY <1>1, <1>2, <1>3, <1>4, <1>5, OpensKinds DEF Next

-----------------------------------------------------------------------------
(* What is done has its files.                                             *)

\* While a task is under way only a request that is about to take the status back
\* has a layer that is done; nobody writes that it is done from an old copy.
LEMMA TaskUnderWay ==
    ASSUME AloneInv, DoneInv, ~mixed, ~cut, ~NoTask
    PROVE  /\ Done => \E r \in Requests : req[r].pc \in {"row", "task"}
           /\ \A r \in Requests :
                 ~(req[r].pc \in Writing /\ req[r].saw.download.status = "done")
<1>1. Done => \E r \in Requests : req[r].pc \in {"row", "task"}
  BY DEF DoneInv
<1> QED
  BY <1>1 DEF DoneInv, AloneInv, Alone, OneRequest, Writing

LEMMA DoneKeeps ==
    ASSUME AloneInv, DoneInv, ~NoTask, UNCHANGED <<req, cut, mixed>>, Done' => Done
    PROVE  DoneInv'
<1> SUFFICES ASSUME ~mixed, ~cut
             PROVE  /\ Done' => \E r \in Requests : req'[r].pc \in {"row", "task"}
                    /\ \A r \in Requests :
                         ~(req'[r].pc \in Writing /\ req'[r].saw.download.status = "done")
  BY DEF DoneInv
<1> QED
  BY TaskUnderWay

LEMMA DoneStep ==
    ASSUME TypeInv, TypeInv', AloneInv, FillInv, DoneInv, [Next]_vars
    PROVE  DoneInv'
<1> USE DEF TypeInv
<1>1. ASSUME NEW r \in Requests, NEW step \in Opening, Opens(r, step)
      PROVE  DoneInv'
  <2>1. NoTask' <=> NoTask
    BY <1>1, OpensEffect DEF NoTask, Opening, RequestPc
  <2> QED
    BY <1>1, <2>1, OpensEffect DEF DoneInv, Done, Writing, Opening, RequestPc
<1>2. ASSUME NEW r \in Requests, RequestStep(r)
      PROVE  DoneInv'
  <2>1. CASE MetadataWrite(r)
    <3>1. NoTask' <=> NoTask
      BY <2>1, MetadataEffect DEF NoTask
    <3>2. CASE ~mixed
      BY <2>1, <3>1, <3>2, MetadataEffect, OnlyRequest DEF DoneInv, Done, Writing
    <3>3. CASE mixed
      BY <2>1, <3>3, MetadataEffect DEF DoneInv
    <3> QED
      BY <3>2, <3>3
  <2>2. CASE DownloadWrite(r)
    <3>1. ~Done' /\ req[r].pc # "idle" /\ req'[r].pc \notin Writing
      BY <2>2, DownloadEffect DEF Done, Writing
    <3>2. CASE ~mixed
      BY <2>2, <3>1, <3>2, DownloadEffect, OnlyRequest DEF DoneInv, Writing
    <3>3. CASE mixed
      BY <2>2, <3>3, DownloadEffect DEF DoneInv
    <3> QED
      BY <3>2, <3>3
  <2>3. CASE SyncRecord(r)
    <3>1. /\ req[r].pc = "sync" /\ req'[r].pc = "idle"
          /\ UNCHANGED <<row, dir, work, queue, mixed, cut>>
          /\ \A q \in Requests : q # r => req'[q] = req[q]
      BY <2>3, AnswerEffect DEF SyncRecord, At
    <3>2. NoTask' <=> NoTask
      BY <3>1 DEF NoTask
    <3> QED
      BY <3>1, <3>2 DEF DoneInv, Done, Writing
  <2>4. CASE Send(r)
    <3>1. /\ req[r].pc = "send" /\ req'[r].pc = "task" /\ (~mixed' => ~mixed)
          /\ \A q \in Requests : q # r => req'[q] = req[q]
          /\ UNCHANGED <<row, cut>>
      BY <2>4, GoEffect DEF Send, At, RequestPc
    <3> QED
      BY <3>1 DEF DoneInv, Done, Writing
  <2>5. CASE SendRaises(r)
    BY <2>5, AnswerEffect DEF DoneInv, Done, Writing, SendRaises, At, RequestPc
  <2>6. CASE DeleteFiles(r)
    <3>1. /\ req'[r].pc = "row" /\ \A q \in Requests : q # r => req'[q] = req[q]
          /\ UNCHANGED <<row, mixed, cut>>
      BY <2>6, GoEffect DEF DeleteFiles, At, RequestPc
    <3> QED
      BY <3>1 DEF DoneInv, Done, Writing
  <2>7. CASE DeleteRow(r)
    <3>1. /\ req[r].pc = "row" /\ row' = None /\ req'[r].pc = "record"
          /\ \A q \in Requests : q # r => req'[q] = req[q]
          /\ UNCHANGED <<mixed, cut>>
      BY <2>7, GoEffect DEF DeleteRow, At, RequestPc
    <3>2. ~mixed => \A q \in Requests : req'[q].pc \notin Writing
      BY <3>1, OnlyRequest DEF Writing
    <3> QED
      BY <3>1, <3>2 DEF DoneInv, Done
  <2>8. CASE DeleteRecord(r)
    <3>1. /\ req[r].pc = "record" /\ req'[r].pc = "idle"
          /\ UNCHANGED <<row, dir, work, queue, mixed, cut>>
          /\ \A q \in Requests : q # r => req'[q] = req[q]
      BY <2>8, AnswerEffect DEF DeleteRecord, At
    <3>2. NoTask' <=> NoTask
      BY <3>1 DEF NoTask
    <3> QED
      BY <3>1, <3>2 DEF DoneInv, Done, Writing
  <2>9. CASE RecordRaises(r)
    <3>1. NoTask' <=> NoTask
      BY <2>9, RecordRaisesEffect DEF NoTask
    <3> QED
      BY <2>9, <3>1, RecordRaisesEffect DEF DoneInv, Done, Writing
  <2> QED
    BY <1>2, <2>1, <2>2, <2>3, <2>4, <2>5, <2>6, <2>7, <2>8, <2>9
    DEF RequestStep, MetadataWrite, DownloadWrite
<1>3. ASSUME NEW w \in Workers, WorkerStep(w) \/ WorkerDies(w)
      PROVE  DoneInv'
  <2>1. CASE Take(w)
    <3>1. ~NoTask /\ UNCHANGED <<req, cut, mixed, row>>
      BY <2>1, TakeEffect DEF NoTask
    <3> QED
      BY <3>1, DoneKeeps DEF Done
  <2>2. CASE Proceeds(w)
    <3>1. ~NoTask /\ UNCHANGED <<req, cut, mixed>>
      BY <2>2, ProceedsEffect DEF NoTask
    <3>2. Done' => Done
      BY <2>2, ProceedsEffect DEF Done
    <3> QED
      BY <3>1, <3>2, DoneKeeps
  <2>3. CASE Clear(w)
    <3>1. ~NoTask /\ UNCHANGED <<req, cut, mixed>>
      BY <2>3, Works DEF NoTask, Clear, On, workRest
    <3>2. Done' => Done
      BY <2>3, Works DEF Done, Clear, On, workRest
    <3> QED
      BY <3>1, <3>2, DoneKeeps
  <2>4. CASE Fetch(w)
    <3>1. ~NoTask /\ UNCHANGED <<req, cut, mixed>>
      BY <2>4, Works DEF NoTask, Fetch, On, workRest
    <3>2. Done' => Done
      BY <2>4, Works DEF Done, Fetch, On, workRest
    <3> QED
      BY <3>1, <3>2, DoneKeeps
  <2>5. CASE Report(w)
    <3>1. ~NoTask /\ UNCHANGED <<req, cut, mixed>>
      BY <2>5, ReportEffect DEF NoTask
    <3>2. Done' => Done
      BY <2>5, ReportEffect DEF Done
    <3> QED
      BY <3>1, <3>2, DoneKeeps
  <2>6. CASE Finish(w)
    <3>1. work[w].pc = "finish" /\ work[w] # Idle /\ UNCHANGED <<dir, queue, req, cut, mixed>>
      BY <2>6, Works DEF Finish, On, workRest
    <3>2. work'[w] = Idle /\ \A v \in Workers : v # w => work'[v] = work[v]
      BY <2>6, EndEffect DEF Finish
    <3>3. CASE ~mixed
      <4>1. row' # None => dir' = Sublayers \ row'.download.errors
        BY <2>6, <3>1, <3>3, EndingEffect DEF FillInv, Filled
      <4>2. NoTask'
        BY <3>1, <3>2, <3>3, OnlyTask DEF NoTask
      <4>3. ~NoTask
        BY <3>1 DEF NoTask
      <4> QED
        BY <3>1, <3>3, <4>1, <4>2, <4>3, TaskUnderWay DEF DoneInv, Done
    <3>4. CASE mixed
      BY <3>1, <3>4 DEF DoneInv
    <3> QED
      BY <3>3, <3>4
  <2>7. CASE Stopped(w)
    <3>1. ~NoTask /\ UNCHANGED <<req, cut, mixed>>
      BY <2>7, EndingEffect DEF NoTask
    <3>2. ~Done'
      <4>1. ~Finish(w)
        BY <2>7 DEF Finish, Stopped, On
      <4> QED
        BY <2>7, <4>1, EndingEffect DEF Done
    <3> QED
      BY <3>1, <3>2, DoneKeeps
  <2>8. CASE Raises(w)
    <3>1. ~NoTask /\ UNCHANGED <<req, cut, mixed>>
      BY <2>8, RaisesEffect DEF NoTask
    <3>2. Done' => Done
      BY <2>8, RaisesEffect DEF Done
    <3> QED
      BY <3>1, <3>2, DoneKeeps
  <2>9. CASE Fail(w)
    <3>1. ~NoTask /\ UNCHANGED <<req, cut, mixed>>
      BY <2>9, EndingEffect DEF NoTask
    <3>2. ~Done'
      <4>1. ~Finish(w)
        BY <2>9 DEF Finish, Fail, On
      <4> QED
        BY <2>9, <4>1, EndingEffect DEF Done
    <3> QED
      BY <3>1, <3>2, DoneKeeps
  <2>10. CASE Retry(w)
    <3>1. ~NoTask /\ UNCHANGED <<req, cut, mixed>>
      BY <2>10, RetryEffect DEF NoTask
    <3>2. Done' => Done
      BY <2>10, RetryEffect DEF Done
    <3> QED
      BY <3>1, <3>2, DoneKeeps
  <2>11. CASE WorkerDies(w)
    <3>1. ~NoTask /\ UNCHANGED <<req, cut, mixed>>
      BY <2>11, Works DEF NoTask, WorkerDies, workRest
    <3>2. Done' => Done
      BY <2>11, Works DEF Done, WorkerDies, workRest
    <3> QED
      BY <3>1, <3>2, DoneKeeps
  <2>12. CASE FetchSkips(w)
    <3>1. ~NoTask /\ UNCHANGED <<req, cut, mixed, row>>
      BY <2>12, SkipsEffect DEF NoTask
    <3> QED
      BY <3>1, DoneKeeps DEF Done
  <2>13. CASE Escapes(w)
    <3>1. ~NoTask /\ UNCHANGED <<req, cut, mixed, row>>
      BY <2>13, EscapesEffect DEF NoTask
    <3> QED
      BY <3>1, DoneKeeps DEF Done
  <2> QED
    BY <1>3, <2>1, <2>2, <2>3, <2>4, <2>5, <2>6, <2>7, <2>8, <2>9, <2>10, <2>11,
       <2>12, <2>13
    DEF WorkerStep, Proceeds
<1>4. CASE ApiRestarts
  <2>1. cut'
    BY <1>4 DEF ApiRestarts
  <2> QED
    BY <2>1 DEF DoneInv
<1>5. CASE UNCHANGED vars
  BY <1>5 DEF DoneInv, Done, Writing, NoTask, vars
<1> QED
  BY <1>1, <1>2, <1>3, <1>4, <1>5, OpensKinds DEF Next

-----------------------------------------------------------------------------
(* The record follows the row.                                             *)

LEMMA RecordStep ==
    ASSUME TypeInv, TypeInv', AloneInv, RecordInv, [Next]_vars
    PROVE  RecordInv'
<1> USE DEF TypeInv
<1>1. ASSUME NEW r \in Requests, NEW step \in Opening, Opens(r, step)
      PROVE  RecordInv'
  BY <1>1, OpensEffect DEF RecordInv, Opening, RequestPc
<1>2. ASSUME NEW r \in Requests, RequestStep(r)
      PROVE  RecordInv'
  <2>1. CASE MetadataWrite(r)
    <3>1. CASE ~mixed
      <4>1. /\ req[r].pc # "idle" /\ req[r].pc # "sync"
            /\ \A q \in Requests : q # r => req'[q].pc = "idle"
        BY <2>1, <3>1, MetadataEffect, OnlyRequest DEF Writing
      <4> QED
        BY <2>1, <3>1, <4>1, MetadataEffect DEF RecordInv
    <3>2. CASE mixed
      BY <2>1, <3>2, MetadataEffect DEF RecordInv
    <3> QED
      BY <3>1, <3>2
  <2>2. CASE DownloadWrite(r)
    BY <2>2, DownloadEffect DEF RecordInv, RequestPc
  <2>3. CASE SyncRecord(r)
    BY <2>3, AnswerEffect DEF RecordInv, SyncRecord, At, RequestPc
  <2>4. CASE Send(r)
    BY <2>4, GoEffect DEF RecordInv, Send, At, RequestPc
  <2>5. CASE SendRaises(r)
    BY <2>5, AnswerEffect DEF RecordInv, SendRaises, At, RequestPc
  <2>6. CASE DeleteFiles(r)
    BY <2>6, GoEffect DEF RecordInv, DeleteFiles, At, RequestPc
  <2>7. CASE DeleteRow(r)
    BY <2>7, GoEffect DEF RecordInv, DeleteRow, At, RequestPc
  <2>8. CASE DeleteRecord(r)
    <3>1. /\ req[r].pc = "record" /\ req'[r].pc = "idle" /\ UNCHANGED <<row, mixed>>
      BY <2>8, AnswerEffect DEF DeleteRecord, At
    <3>2. ~mixed => row' = None
      BY <3>1, OnlyRequest
    <3> QED
      BY <3>1, <3>2 DEF RecordInv
  <2>9. CASE RecordRaises(r)
    BY <2>9, RecordRaisesEffect DEF RecordInv
  <2> QED
    BY <1>2, <2>1, <2>2, <2>3, <2>4, <2>5, <2>6, <2>7, <2>8, <2>9
    DEF RequestStep, MetadataWrite, DownloadWrite
<1>3. ASSUME NEW w \in Workers, WorkerStep(w) \/ WorkerDies(w)
      PROVE  RecordInv'
  <2>1. CASE Take(w)
    BY <2>1, TakeEffect DEF RecordInv
  <2>2. CASE Proceeds(w)
    BY <2>2, ProceedsEffect DEF RecordInv
  <2>3. CASE Clear(w)
    BY <2>3, StepEffect DEF RecordInv, Clear, On, workRest, WorkPc
  <2>4. CASE Fetch(w)
    BY <2>4, StepEffect DEF RecordInv, Fetch, On, workRest, WorkPc
  <2>5. CASE Report(w)
    BY <2>5, ReportEffect DEF RecordInv
  <2>6. CASE Finish(w)
    BY <2>6, EndEffect, EndingEffect DEF RecordInv, Finish
  <2>7. CASE Stopped(w)
    BY <2>7, EndEffect, EndingEffect DEF RecordInv, Stopped
  <2>8. CASE Raises(w)
    BY <2>8, RaisesEffect DEF RecordInv
  <2>9. CASE Fail(w)
    BY <2>9, StepEffect, EndingEffect DEF RecordInv, Fail, On, WorkPc
  <2>10. CASE Retry(w)
    BY <2>10, EndEffect, RetryEffect DEF RecordInv, Retry
  <2>11. CASE WorkerDies(w)
    BY <2>11, EndEffect DEF RecordInv, WorkerDies, workRest
  <2>12. CASE FetchSkips(w)
    BY <2>12, SkipsEffect DEF RecordInv
  <2>13. CASE Escapes(w)
    BY <2>13, EscapesEffect DEF RecordInv
  <2> QED
    BY <1>3, <2>1, <2>2, <2>3, <2>4, <2>5, <2>6, <2>7, <2>8, <2>9, <2>10, <2>11,
       <2>12, <2>13
    DEF WorkerStep, Proceeds
<1>4. CASE ApiRestarts
  <2>1. /\ \A r \in Requests : req'[r].pc = "idle"
        /\ row # None => missed' \/ record' = row.info
        /\ UNCHANGED row
    BY <1>4 DEF ApiRestarts, HasRow, Idle
  <2> QED
    BY <2>1 DEF RecordInv
<1>5. CASE UNCHANGED vars
  BY <1>5 DEF RecordInv, vars
<1> QED
  BY <1>1, <1>2, <1>3, <1>4, <1>5, OpensKinds DEF Next

-----------------------------------------------------------------------------
(* What is deleted is gone.                                                *)

LEMMA GoneStep ==
    ASSUME TypeInv, TypeInv', AloneInv, GoneInv, [Next]_vars
    PROVE  GoneInv'
<1> USE DEF TypeInv
<1>1. ASSUME NEW r \in Requests, NEW step \in Opening, Opens(r, step)
      PROVE  GoneInv'
  BY <1>1, OpensEffect DEF GoneInv, Opening, RequestPc
<1>2. ASSUME NEW r \in Requests, RequestStep(r)
      PROVE  GoneInv'
  <2>1. CASE MetadataWrite(r)
    <3>1. req[r].pc \notin {"row", "record"} /\ req'[r].pc \notin {"row", "record"}
      BY <2>1, MetadataEffect DEF Writing
    <3> QED
      BY <2>1, <3>1, MetadataEffect DEF GoneInv
  <2>2. CASE DownloadWrite(r)
    BY <2>2, DownloadEffect DEF GoneInv, RequestPc
  <2>3. CASE SyncRecord(r)
    <3>1. /\ req[r].pc = "sync" /\ req'[r].pc = "idle" /\ UNCHANGED <<row, dir, mixed>>
          /\ \A q \in Requests : q # r => req'[q] = req[q]
      BY <2>3, AnswerEffect DEF SyncRecord, At
    <3>2. ~mixed => row # None
      BY <3>1, OnlyRequest
    <3> QED
      BY <3>1, <3>2 DEF GoneInv
  <2>4. CASE Send(r)
    BY <2>4, GoEffect DEF GoneInv, Send, At, RequestPc
  <2>5. CASE SendRaises(r)
    BY <2>5, AnswerEffect DEF GoneInv, SendRaises, At, RequestPc
  <2>6. CASE DeleteFiles(r)
    BY <2>6, GoEffect DEF GoneInv, DeleteFiles, At, RequestPc
  <2>7. CASE DeleteRow(r)
    BY <2>7, GoEffect DEF GoneInv, DeleteRow, At, RequestPc
  <2>8. CASE DeleteRecord(r)
    BY <2>8, AnswerEffect DEF GoneInv, DeleteRecord, At, RequestPc
  <2>9. CASE RecordRaises(r)
    BY <2>9, RecordRaisesEffect DEF GoneInv
  <2> QED
    BY <1>2, <2>1, <2>2, <2>3, <2>4, <2>5, <2>6, <2>7, <2>8, <2>9
    DEF RequestStep, MetadataWrite, DownloadWrite
<1>3. ASSUME NEW w \in Workers, WorkerStep(w) \/ WorkerDies(w)
      PROVE  GoneInv'
  <2>1. CASE Take(w)
    BY <2>1, TakeEffect DEF GoneInv
  <2>2. CASE Proceeds(w)
    BY <2>2, ProceedsEffect DEF GoneInv
  <2>3. CASE Clear(w)
    BY <2>3, StepEffect DEF GoneInv, Clear, On, workRest, WorkPc
  <2>4. CASE Fetch(w)
    <3>1. work[w] # Idle /\ UNCHANGED <<row, req, mixed>>
      BY <2>4, Works DEF Fetch, On, workRest
    <3>2. ~mixed => row # None /\ \A r \in Requests : req[r].pc # "row"
      BY <3>1, OnlyTask
    <3> QED
      BY <3>1, <3>2 DEF GoneInv
  <2>5. CASE Report(w)
    BY <2>5, ReportEffect DEF GoneInv
  <2>6. CASE Finish(w)
    BY <2>6, EndEffect, EndingEffect DEF GoneInv, Finish
  <2>7. CASE Stopped(w)
    BY <2>7, EndEffect, EndingEffect DEF GoneInv, Stopped
  <2>8. CASE Raises(w)
    BY <2>8, RaisesEffect DEF GoneInv
  <2>9. CASE Fail(w)
    BY <2>9, StepEffect, EndingEffect DEF GoneInv, Fail, On, WorkPc
  <2>10. CASE Retry(w)
    BY <2>10, EndEffect, RetryEffect DEF GoneInv, Retry
  <2>11. CASE WorkerDies(w)
    BY <2>11, EndEffect DEF GoneInv, WorkerDies, workRest
  <2>12. CASE FetchSkips(w)
    BY <2>12, SkipsEffect DEF GoneInv
  <2>13. CASE Escapes(w)
    BY <2>13, EscapesEffect DEF GoneInv
  <2> QED
    BY <1>3, <2>1, <2>2, <2>3, <2>4, <2>5, <2>6, <2>7, <2>8, <2>9, <2>10, <2>11,
       <2>12, <2>13
    DEF WorkerStep, Proceeds
<1>4. CASE ApiRestarts
  <2>1. (\A r \in Requests : req'[r].pc = "idle") /\ cut'
    BY <1>4 DEF ApiRestarts, Idle
  <2> QED
    BY <2>1 DEF GoneInv
<1>5. CASE UNCHANGED vars
  BY <1>5 DEF GoneInv, vars
<1> QED
  BY <1>1, <1>2, <1>3, <1>4, <1>5, OpensKinds DEF Next

-----------------------------------------------------------------------------
(* The invariant and what it says                                          *)

CatalogueInv == TypeInv /\ AloneInv /\ FillInv /\ DoneInv /\ RecordInv /\ GoneInv

LEMMA CatalogueInit == Init => CatalogueInv
<1> SUFFICES ASSUME Init PROVE CatalogueInv
  OBVIOUS
<1>1. /\ \A r \in Requests : req[r].pc = "idle"
      /\ \A w \in Workers : work[w] = Idle /\ work[w].pc = "idle"
      /\ queue = {} /\ row # None /\ record = row.info
      /\ row.download.status = "none"
  <2>1. row \in Row
    BY ConstantsAssumption DEF Init, Row, Process, Status
  <2> QED
    BY <2>1, NoneAssumption DEF Init, Idle
<1>2. AloneInv
  BY <1>1 DEF AloneInv, Alone, OneRequest, OneTask, Deleting, NoTask
<1>3. FillInv
  BY <1>1 DEF FillInv, Filled
<1>4. DoneInv
  BY <1>1 DEF DoneInv, Done, Writing
<1>5. RecordInv /\ GoneInv
  BY <1>1 DEF RecordInv, GoneInv
<1> QED
  BY <1>2, <1>3, <1>4, <1>5, TypeInit DEF CatalogueInv

LEMMA CatalogueNext == CatalogueInv /\ [Next]_vars => CatalogueInv'
<1> SUFFICES ASSUME CatalogueInv, [Next]_vars PROVE CatalogueInv'
  OBVIOUS
<1> USE DEF CatalogueInv
<1>1. TypeInv'
  BY TypeStep
<1>2. AloneInv'
  BY AloneStep
<1>3. FillInv'
  BY <1>1, FillStep
<1>4. DoneInv'
  BY <1>1, DoneStep
<1>5. RecordInv' /\ GoneInv'
  BY <1>1, RecordStep, GoneStep
<1> QED
  BY <1>1, <1>2, <1>3, <1>4, <1>5

THEOREM CatalogueInvariant == Spec => []CatalogueInv
BY CatalogueInit, CatalogueNext, PTL DEF Spec

\* Every reachable state is well typed.
THEOREM TypeCorrectness == Spec => []TypeOK
<1>1. CatalogueInv => TypeOK
  BY DEF CatalogueInv, TypeInv
<1> QED
  BY <1>1, CatalogueInvariant, PTL

\* download_esri_layer_task: for any number of sublayers, retries and worker deaths
\* a download that is done has the files of every sublayer but those that its manifest,
\* in the row, has an error entry for.
THEOREM DoneKeepsFiles == Spec => []DoneHasFiles
<1>1. CatalogueInv => DoneHasFiles
  BY DEF CatalogueInv, DoneInv, DoneHasFiles, Done, Is, HasRow, InProgress, At
<1> QED
  BY <1>1, CatalogueInvariant, PTL

\* PATCH, sync-bbox and the start of the API: the record says what the row says once
\* nothing is in progress, unless a write from an old copy took the row back or the
\* last making of the record failed.
THEOREM RecordsFollowRows == Spec => []RecordIsCurrent
<1>1. CatalogueInv => RecordIsCurrent
  BY DEF CatalogueInv, RecordInv, RecordIsCurrent, AtRest, HasRow, InProgress, At
<1> QED
  BY <1>1, CatalogueInvariant, PTL

\* DELETE /layers/{id}: a deletion that runs alone to its end leaves no files and no
\* record.
THEOREM DeletionsLeaveNothing == Spec => []DeletedIsGone
<1>1. CatalogueInv => DeletedIsGone
  BY DEF CatalogueInv, GoneInv, DeletedIsGone, AtRest, HasRow, InProgress, At
<1> QED
  BY <1>1, CatalogueInvariant, PTL

-----------------------------------------------------------------------------
(***************************************************************************)
(* The fetching of a service, for any numbers of features, sublayers,       *)
(* threads, attempts and faults, and any page size: what a thread has and   *)
(* what its stack still asks for make its chunk, the chunks and the parts   *)
(* of a page are apart, and a service that lists its IDs and fails nothing  *)
(* never leaves the chunks for the pages.                                   *)
(***************************************************************************)

\* A frame of the stack of a batch, a thread that fetches a chunk.
Frame == [kind : {"fetch", "whole"}, ids : SUBSET ObjectIds, got : Features]
Fetcher == [pc : {"begin", "fetch", "done", "failed"}, ids : SUBSET ObjectIds,
            stack : Seq(Frame), got : Features]
Fetches(t) == threads[t] # IdleThread

ControlTypes ==
    /\ service \in Service
    /\ faults \in 0 .. MaxFaults
    /\ attempt \in 0 .. MaxAttempts
    /\ healthy \in BOOLEAN /\ cancelled \in BOOLEAN
    /\ pc \in ActivePc \cup EndPc
    /\ listed \subseteq service.queryable
    /\ sub \in FeatureLayers
BufferTypes ==
    /\ threads \in [Threads -> Fetcher \cup {IdleThread}]
    /\ next \in 0 .. NumFeatures
    /\ failed \in BOOLEAN
    /\ target \in {0, NumFeatures}
    /\ pages \in Seq((0 .. NumFeatures + PageSize) \X (1 .. PageSize))
    /\ part \in Features /\ got \in Features
OutTypes ==
    /\ entries \in [FeatureLayers -> [kind : EntryKind, features : Features, counted : BOOLEAN]]
    /\ files \subseteq FeatureLayers
    /\ manifest \in BOOLEAN
FetchTypes == ControlTypes /\ BufferTypes /\ OutTypes

\* The list f, the batches of the first m frames and the IDs in rest hold each of
\* ids once, and nothing else.
Waits(stack, k, i) == stack[k].kind = "fetch" /\ i \in stack[k].ids
Parted(f, stack, m, rest, ids) ==
    \A i \in ObjectIds :
        /\ f[i] \in {0, 1}
        /\ f[i] = 1 \/ i \in rest \/ (\E k \in 1 .. m : Waits(stack, k, i)) <=> i \in ids
        /\ f[i] = 1 => i \notin rest /\ \A k \in 1 .. m : ~Waits(stack, k, i)
        /\ i \in rest => \A k \in 1 .. m : ~Waits(stack, k, i)
        /\ \A j, k \in 1 .. m : Waits(stack, j, i) /\ Waits(stack, k, i) => j = k

\* What a thread has and what its stack asks for make its chunk, also after the
\* nearest batch that fetches a missing part drops what it has.
WholesParted(stack, m, ids) ==
    \A k \in 1 .. m : stack[k].kind = "whole" =>
        Parted(stack[k].got, stack, k - 1, stack[k].ids, ids)
StackIsParted(th) ==
    /\ Parted(th.got, th.stack, Len(th.stack), {}, th.ids)
    /\ WholesParted(th.stack, Len(th.stack), th.ids)
ThreadInv(th) ==
    /\ th.pc = "fetch" => StackIsParted(th)
    /\ th.pc = "done" => th.got = Once(th.ids)

ThreadsInv == \A t \in Threads : Fetches(t) => ThreadInv(threads[t])

\* What the cache keeps under a chunk and under a page.
CacheInv ==
    \A c \in cache :
        \/ \E ids \in SUBSET ObjectIds, s \in FeatureLayers :
              c = [key |-> Chunk(ids, s), features |-> Once(ids)]
        \/ \E o, n \in Nat, s \in FeatureLayers :
              c = [key |-> PageKey(o, n, s),
                   features |-> Once(Span(o, Smaller(n, service.limit)))]

\* The chunks so far are collected, at a thread, or have failed; no two overlap.
ByIds == pc \in {"ids", "fetch", "stopping"}
ChunkInv ==
    /\ \A t \in Threads : Fetches(t) =>
          /\ pc \in {"fetch", "stopping"}
          /\ \E k \in 1 .. next : threads[t].ids = Numbered(k)
          /\ \A i \in threads[t].ids : got[i] = 0
          /\ \A u \in Threads : Fetches(u) /\ t # u => threads[t].ids \cap threads[u].ids = {}
    /\ ByIds => \A i \in ObjectIds : got[i] \in {0, 1}
    /\ ByIds => \A i \in ObjectIds : got[i] = 1 => \E k \in 1 .. next : i \in Numbered(k)
    /\ ByIds => next \in 0 .. Chunks
    /\ ByIds /\ ~failed =>
          \A k \in 1 .. next : \A i \in Numbered(k) :
             got[i] = 1 \/ \E t \in Threads : Fetches(t) /\ i \in threads[t].ids

\* The rows of a page and of its parts.
RowsOf(p) == {i \in ObjectIds : p[1] < i /\ i <= p[1] + p[2]}
PageInv ==
    pc = "page" =>
        /\ \A i \in ObjectIds :
              /\ got[i] \in {0, 1}
              /\ got[i] = 1 => i <= next
              /\ part[i] \in {0, 1}
              /\ part[i] = 1 => next < i /\ i <= next + PageSize
        /\ \A k \in 1 .. Len(pages) :
              /\ next <= pages[k][1] /\ pages[k][1] + pages[k][2] <= next + PageSize
              /\ \A i \in RowsOf(pages[k]) : part[i] = 0
              /\ \A j \in 1 .. Len(pages) :
                    RowsOf(pages[j]) \cap RowsOf(pages[k]) # {} => j = k

EntryInv ==
    /\ pc = "export" /\ target > 0 => IsWhole(got)
    /\ EntryIsWhole

\* A service that lists its IDs and has failed no request of this attempt.
Healthy == service.lists /\ service.broken = {} /\ healthy
Got(s) == HasFeatures(s) /\ IsWhole(entries[s].features)
HealthyInv ==
    Healthy =>
        /\ pc \notin {"count", "page"}
        /\ ByIds => ~failed /\ \A t \in Threads : threads[t].pc # "failed"
        /\ pc = "export" => IsWhole(got)
        /\ ByIds \/ pc = "export" => \A s \in listed : s < sub => Got(s)
        /\ pc = "next" => \A s \in listed : s <= sub => Got(s)
        /\ pc \in {"manifest", "done"} => \A s \in listed : Got(s)
        /\ pc = "image" => listed = {}

\* Where the sublayers, the first chunk and the target come from.
StepInv ==
    /\ pc = "clear" => listed # {}
    /\ pc = "ids" => next = 0 /\ ~failed
    /\ pc \in {"fetch", "stopping"} => target = NumFeatures

FetchInv ==
    /\ FetchTypes /\ CacheInv /\ ThreadsInv /\ ChunkInv /\ PageInv
    /\ StepInv /\ EntryInv /\ HealthyInv

-----------------------------------------------------------------------------
(* Numbers, lists of features and their lengths.                            *)

LEMMA Numbers ==
    /\ NumFeatures \in Nat /\ NumFeatures > 0 /\ PageSize \in Nat /\ PageSize > 0
    /\ NumLayers \in Nat /\ NumLayers > 0 /\ MaxFaults \in Nat
    /\ MaxAttempts \in Nat /\ MaxAttempts > 0
    /\ ObjectIds \subseteq Nat /\ FeatureLayers \subseteq Nat
BY FetchAssumption DEF ObjectIds, FeatureLayers

LEMMA ListTypes ==
    /\ Nothing \in Features /\ \A i \in ObjectIds : Nothing[i] = 0
    /\ \A ids : Once(ids) \in Features
    /\ \A ids : \A i \in ObjectIds : Once(ids)[i] = IF i \in ids THEN 1 ELSE 0
    /\ \A f, g \in Features :
          Plus(f, g) \in Features /\ \A i \in ObjectIds : Plus(f, g)[i] = f[i] + g[i]
BY DEF Nothing, Features, Once, Plus

\* A list without duplicates is as long as the set of its features.
LEMMA SizeIsCardinality ==
    ASSUME NEW f \in Features, \A i \in ObjectIds : f[i] \in {0, 1}
    PROVE  Size(f) = Cardinality({i \in ObjectIds : f[i] = 1})
<1> DEFINE S == {i \in ObjectIds : f[i] = 1}
<1>1. \A i \in ObjectIds : 1 .. f[i] = IF i \in S THEN {1} ELSE {}
  <2> SUFFICES ASSUME NEW i \in ObjectIds
               PROVE  1 .. f[i] = IF i \in S THEN {1} ELSE {}
    OBVIOUS
  <2>1. CASE f[i] = 1
    BY <2>1
  <2>2. CASE f[i] = 0
    BY <2>2
  <2> QED
    BY <2>1, <2>2
<1>2. ASSUME NEW i \in ObjectIds
      PROVE  {i} \X (1 .. f[i]) = IF i \in S THEN {<<i, 1>>} ELSE {}
  BY <1>1
<1>3. UNION {{i} \X (1 .. f[i]) : i \in ObjectIds} = S \X {1}
  BY <1>2
<1>4. IsFiniteSet(S)
  <2>1. IsFiniteSet(ObjectIds)
    BY FS_Interval, Numbers DEF ObjectIds
  <2>2. S \in SUBSET ObjectIds
    OBVIOUS
  <2> QED
    BY ONLY <2>1, <2>2, FS_Subset
<1>5. Cardinality(S \X {1}) = Cardinality(S) * Cardinality({1})
  BY <1>4, FS_Singleton, FS_Product
<1>6. Cardinality(S) \in Nat /\ Cardinality({1}) = 1
  BY <1>4, FS_Singleton, FS_CardinalityType
<1>7. Cardinality(S \X {1}) = Cardinality(S)
  BY <1>5, <1>6
<1> QED
  BY <1>3, <1>7 DEF Size

LEMMA SizeFacts ==
    ASSUME NEW f \in Features, \A i \in ObjectIds : f[i] \in {0, 1}
    PROVE  /\ Size(f) \in Nat
           /\ Size(f) >= NumFeatures <=> IsWhole(f)
           /\ Size(f) > 0 => \E i \in ObjectIds : f[i] = 1
           /\ \A S \in SUBSET ObjectIds :
                 (\A i \in ObjectIds : f[i] = 1 => i \in S) => Size(f) <= Cardinality(S)
<1> DEFINE T == {i \in ObjectIds : f[i] = 1}
<1>1. Size(f) = Cardinality(T)
  BY SizeIsCardinality
<1>2. IsFiniteSet(ObjectIds) /\ Cardinality(ObjectIds) = NumFeatures
  BY FS_Interval, Numbers DEF ObjectIds
<1>3. ASSUME NEW S \in SUBSET ObjectIds
      PROVE  /\ IsFiniteSet(S) /\ Cardinality(S) \in Nat
             /\ Cardinality(S) <= NumFeatures
             /\ Cardinality(S) = NumFeatures => S = ObjectIds
  <2>1. /\ IsFiniteSet(S) /\ Cardinality(S) <= NumFeatures
        /\ Cardinality(S) = NumFeatures => S = ObjectIds
    BY <1>2, FS_Subset
  <2> QED
    BY <2>1, FS_CardinalityType
<1>4. T \in SUBSET ObjectIds
  OBVIOUS
<1>5. Size(f) \in Nat
  BY <1>1, <1>3, <1>4
<1>6. Size(f) >= NumFeatures <=> IsWhole(f)
  <2>1. ASSUME Size(f) >= NumFeatures PROVE IsWhole(f)
    <3>1. T = ObjectIds
      BY <1>1, <1>3, <1>4, <2>1, Numbers
    <3> QED
      BY <3>1 DEF IsWhole
  <2>2. ASSUME IsWhole(f) PROVE Size(f) >= NumFeatures
    <3>1. T = ObjectIds
      BY <2>2 DEF IsWhole
    <3> QED
      BY <3>1, <1>1, <1>2, Numbers
  <2> QED
    BY <2>1, <2>2
<1>7. Size(f) > 0 => T # {}
  BY <1>1, FS_EmptySet
<1>8. ASSUME NEW S \in SUBSET ObjectIds, \A i \in ObjectIds : f[i] = 1 => i \in S
      PROVE  Size(f) <= Cardinality(S)
  <2>1. T \in SUBSET S
    BY <1>8
  <2> QED
    BY <2>1, <1>1, <1>3, FS_Subset
<1> QED
  BY <1>5, <1>6, <1>7, <1>8

\* The first of some sublayers.
LEMMA First ==
    ASSUME NEW S \in SUBSET FeatureLayers, S # {}
    PROVE  LET first == CHOOSE s \in S : \A t \in S : s <= t
           IN first \in S /\ \A t \in S : first <= t
<1>1. S \subseteq Nat
  BY Numbers
<1>2. PICK s \in S : \A t \in S : ~(<<t, s>> \in OpToRel(<, Nat))
  BY <1>1, WFMin, NatLessThanWellFounded
<1>3. \A t \in S : ~(t < s)
  BY <1>1, <1>2 DEF OpToRel
<1>4. \A t \in S : s <= t
  BY <1>1, <1>3
<1> QED
  BY <1>4

-----------------------------------------------------------------------------
(* The chunks of the object IDs.                                            *)

LEMMA ChunkCount ==
    /\ Chunks \in Nat /\ Chunks > 0 /\ Chunks <= NumFeatures
    /\ (Chunks - 1) * PageSize < NumFeatures /\ NumFeatures <= Chunks * PageSize
<1> DEFINE a == NumFeatures + PageSize - 1
<1>1. a \in Nat /\ a >= PageSize
  BY Numbers
<1>2. a \div PageSize \in Int /\ a = PageSize * (a \div PageSize) + (a % PageSize)
      /\ a % PageSize \in 0 .. PageSize - 1
  BY <1>1, Numbers
<1> DEFINE q == a \div PageSize
<1> HIDE DEF q, a
<1>3. q \in Int /\ PageSize * q <= a /\ a - PageSize < PageSize * q
  BY <1>1, <1>2, Numbers DEF q
<1>4. q > 0
  <2>1. PageSize * q > 0
    BY <1>1, <1>3, Numbers
  <2> QED
    BY <2>1, <1>3, Numbers
<1>5. (q - 1) * PageSize = PageSize * q - PageSize /\ q * PageSize = PageSize * q
  BY <1>3, Numbers
<1>6. (q - 1) * PageSize >= q - 1
  BY <1>3, <1>4, Numbers
<1>7. PageSize * q \in Int /\ (q - 1) * PageSize \in Int
  BY <1>3, Numbers
<1> QED
  BY <1>3, <1>4, <1>5, <1>6, <1>7, Numbers DEF q, a, Chunks

LEMMA NumberedIds ==
    ASSUME NEW k \in Nat, k > 0
    PROVE  /\ Numbered(k) \subseteq ObjectIds
           /\ Numbered(k) = {i \in ObjectIds : (k - 1) * PageSize < i /\ i <= k * PageSize}
           /\ k <= Chunks => Numbered(k) # {}
<1>1. /\ (k - 1) * PageSize \in Nat
      /\ (k - 1) * PageSize + PageSize = k * PageSize
  BY Numbers
<1> DEFINE from == (k - 1) * PageSize
<1>2. /\ Numbered(k) = from + 1 .. Smaller(from + PageSize, NumFeatures)
      /\ from \in Nat /\ from + PageSize = k * PageSize
  BY <1>1 DEF Numbered, Span
<1> HIDE DEF from
<1>3. Numbered(k) = {i \in ObjectIds : from < i /\ i <= from + PageSize}
  BY <1>2, Numbers DEF Smaller, ObjectIds
<1>4. k <= Chunks => from < NumFeatures
  <2> SUFFICES ASSUME k <= Chunks PROVE from < NumFeatures
    OBVIOUS
  <2>1. (Chunks - 1) - (k - 1) \in Nat
    BY ChunkCount
  <2>2. ((Chunks - 1) - (k - 1)) * PageSize >= 0
    BY <2>1, Numbers
  <2>3. ((Chunks - 1) - (k - 1)) * PageSize = (Chunks - 1) * PageSize - from
    BY ChunkCount, Numbers DEF from
  <2>4. (Chunks - 1) * PageSize \in Int
    BY ChunkCount, Numbers
  <2> QED
    BY <1>2, <2>2, <2>3, <2>4, ChunkCount, Numbers
<1>5. k <= Chunks => from + 1 \in Numbered(k)
  BY <1>2, <1>3, <1>4, Numbers DEF ObjectIds
<1> QED
  BY <1>2, <1>3, <1>5 DEF from

LEMMA NumberedApart ==
    ASSUME NEW j \in Nat, NEW k \in Nat, j > 0, j < k
    PROVE  Numbered(j) \cap Numbered(k) = {}
<1>1. (k - 1) - j \in Nat /\ j * PageSize \in Int /\ (k - 1) * PageSize \in Int
  BY Numbers
<1>2. ((k - 1) - j) * PageSize >= 0
  BY <1>1, Numbers
<1>3. ((k - 1) - j) * PageSize = (k - 1) * PageSize - j * PageSize
  BY <1>1, Numbers
<1>4. j * PageSize <= (k - 1) * PageSize
  BY <1>1, <1>2, <1>3
<1>5. ASSUME NEW i \in Numbered(j), i \in Numbered(k) PROVE FALSE
  <2>1. i \in Nat /\ i <= j * PageSize /\ (k - 1) * PageSize < i
    <3>1. k > 0
      OBVIOUS
    <3>2. Numbered(j) = {n \in ObjectIds : (j - 1) * PageSize < n /\ n <= j * PageSize}
      BY NumberedIds
    <3>3. Numbered(k) = {n \in ObjectIds : (k - 1) * PageSize < n /\ n <= k * PageSize}
      BY <3>1, NumberedIds
    <3> QED
      BY <1>5, <3>2, <3>3, Numbers
  <2> QED
    BY <2>1, <1>1, <1>4
<1> QED
  BY <1>5

LEMMA NumberedCovers ==
    ASSUME NEW i \in ObjectIds
    PROVE  \E k \in 1 .. Chunks : i \in Numbered(k)
<1>1. i \in Nat /\ i > 0 /\ i <= NumFeatures /\ i - 1 \in Nat
  BY Numbers DEF ObjectIds
<1> DEFINE q == (i - 1) \div PageSize
           k == q + 1
<1>2. q \in Int /\ i - 1 = PageSize * q + ((i - 1) % PageSize)
      /\ (i - 1) % PageSize \in 0 .. PageSize - 1
  BY <1>1, Numbers
<1> HIDE DEF q
<1>3. PageSize * q \in Int /\ PageSize * q <= i - 1 /\ i - 1 - PageSize < PageSize * q
  BY <1>1, <1>2, Numbers
<1>4. q >= 0
  <2>1. PageSize * (q + 1) = PageSize * q + PageSize
    BY <1>2, Numbers
  <2>2. PageSize * (q + 1) > 0
    BY <1>1, <1>3, <2>1, Numbers
  <2> QED
    BY <1>2, <2>2, Numbers
<1>5. k \in Nat /\ k > 0 /\ (k - 1) * PageSize = PageSize * q
      /\ k * PageSize = PageSize * q + PageSize
  BY <1>2, <1>4, Numbers
<1>6. i \in Numbered(k)
  <2>1. (k - 1) * PageSize < i /\ i <= k * PageSize
    BY <1>1, <1>3, <1>5, Numbers
  <2> QED
    BY <2>1, <1>5, NumberedIds
<1>7. k <= Chunks
  <2> SUFFICES ASSUME Chunks < k PROVE FALSE
    BY <1>5, ChunkCount
  <2>1. q - Chunks \in Nat /\ Chunks * PageSize \in Int
    BY <1>2, <1>5, ChunkCount, Numbers
  <2>2. (q - Chunks) * PageSize >= 0
    BY <2>1, Numbers
  <2>3. (q - Chunks) * PageSize = PageSize * q - Chunks * PageSize
    BY <1>2, ChunkCount, Numbers
  <2> QED
    BY <1>1, <1>3, <2>1, <2>2, <2>3, ChunkCount, Numbers
<1> QED
  BY <1>5, <1>6, <1>7, ChunkCount

-----------------------------------------------------------------------------
(* The stack of a thread.                                                   *)

\* Only the first m frames matter.
LEMMA PartedSame ==
    ASSUME NEW f, NEW s, NEW r, NEW m \in Nat, NEW rest, NEW ids,
           \A k \in 1 .. m : s[k] = r[k],
           Parted(f, s, m, rest, ids)
    PROVE  Parted(f, r, m, rest, ids)
<1>1. \A k \in 1 .. m : \A i : Waits(s, k, i) <=> Waits(r, k, i)
  BY DEF Waits
<1> QED
  BY <1>1 DEF Parted

\* The last batch is asked for, and its IDs wait for the answer.
LEMMA PartedPop ==
    ASSUME NEW f, NEW s, NEW m \in Nat, NEW ids,
           s[m + 1].kind = "fetch", Parted(f, s, m + 1, {}, ids)
    PROVE  Parted(f, s, m, s[m + 1].ids, ids)
<1>1. \A i : Waits(s, m + 1, i) <=> i \in s[m + 1].ids
  BY DEF Waits
<1>2. 1 .. m + 1 = (1 .. m) \cup {m + 1} /\ m + 1 \notin 1 .. m
  OBVIOUS
<1> SUFFICES ASSUME NEW i \in ObjectIds
             PROVE  /\ f[i] \in {0, 1}
                    /\ f[i] = 1 \/ i \in s[m + 1].ids \/ (\E k \in 1 .. m : Waits(s, k, i))
                          <=> i \in ids
                    /\ f[i] = 1 => i \notin s[m + 1].ids /\ \A k \in 1 .. m : ~Waits(s, k, i)
                    /\ i \in s[m + 1].ids => \A k \in 1 .. m : ~Waits(s, k, i)
                    /\ \A j, k \in 1 .. m : Waits(s, j, i) /\ Waits(s, k, i) => j = k
  BY DEF Parted
<1>3. /\ f[i] \in {0, 1}
      /\ f[i] = 1 \/ (\E k \in 1 .. m + 1 : Waits(s, k, i)) <=> i \in ids
      /\ f[i] = 1 => \A k \in 1 .. m + 1 : ~Waits(s, k, i)
      /\ \A j, k \in 1 .. m + 1 : Waits(s, j, i) /\ Waits(s, k, i) => j = k
  BY DEF Parted
<1> QED
  BY <1>1, <1>2, <1>3

\* A batch is put on the stack for IDs that wait.
LEMMA PartedPush ==
    ASSUME NEW f, NEW s, NEW m \in Nat, NEW rest, NEW ids,
           s[m + 1].kind = "fetch", Parted(f, s, m, rest \cup s[m + 1].ids, ids),
           rest \cap s[m + 1].ids = {}
    PROVE  Parted(f, s, m + 1, rest, ids)
<1>1. \A i : Waits(s, m + 1, i) <=> i \in s[m + 1].ids
  BY DEF Waits
<1>2. 1 .. m + 1 = (1 .. m) \cup {m + 1} /\ m + 1 \notin 1 .. m
  OBVIOUS
<1> DEFINE all == rest \cup s[m + 1].ids
<1> SUFFICES ASSUME NEW i \in ObjectIds
             PROVE  /\ f[i] \in {0, 1}
                    /\ f[i] = 1 \/ i \in rest \/ (\E k \in 1 .. m + 1 : Waits(s, k, i))
                          <=> i \in ids
                    /\ f[i] = 1 => i \notin rest /\ \A k \in 1 .. m + 1 : ~Waits(s, k, i)
                    /\ i \in rest => \A k \in 1 .. m + 1 : ~Waits(s, k, i)
                    /\ \A j, k \in 1 .. m + 1 : Waits(s, j, i) /\ Waits(s, k, i) => j = k
  BY DEF Parted
<1>3. /\ f[i] \in {0, 1}
      /\ f[i] = 1 \/ i \in all \/ (\E k \in 1 .. m : Waits(s, k, i)) <=> i \in ids
      /\ f[i] = 1 => i \notin all /\ \A k \in 1 .. m : ~Waits(s, k, i)
      /\ i \in all => \A k \in 1 .. m : ~Waits(s, k, i)
      /\ \A j, k \in 1 .. m : Waits(s, j, i) /\ Waits(s, k, i) => j = k
  BY DEF Parted
<1> QED
  BY <1>1, <1>2, <1>3

\* A frame that fetches nothing itself changes nothing.
LEMMA PartedWhole ==
    ASSUME NEW f, NEW s, NEW m \in Nat, NEW rest, NEW ids, s[m + 1].kind = "whole"
    PROVE  Parted(f, s, m, rest, ids) <=> Parted(f, s, m + 1, rest, ids)
<1>1. \A i : ~Waits(s, m + 1, i)
  BY DEF Waits
<1>2. 1 .. m + 1 = (1 .. m) \cup {m + 1}
  OBVIOUS
<1> QED
  BY <1>1, <1>2 DEF Parted

\* Some of the IDs that wait are answered.
LEMMA PartedGot ==
    ASSUME NEW f \in Features, NEW s, NEW m \in Nat, NEW rest, NEW ids, NEW rows,
           rows \subseteq rest, Parted(f, s, m, rest, ids)
    PROVE  Parted(Plus(f, Once(rows)), s, m, rest \ rows, ids)
<1> DEFINE g == Plus(f, Once(rows))
<1>1. \A i \in ObjectIds : g[i] = f[i] + (IF i \in rows THEN 1 ELSE 0)
  BY ListTypes
<1> HIDE DEF g
<1> SUFFICES ASSUME NEW i \in ObjectIds
             PROVE  /\ g[i] \in {0, 1}
                    /\ g[i] = 1 \/ i \in rest \ rows \/ (\E k \in 1 .. m : Waits(s, k, i))
                          <=> i \in ids
                    /\ g[i] = 1 => i \notin rest \ rows /\ \A k \in 1 .. m : ~Waits(s, k, i)
                    /\ i \in rest \ rows => \A k \in 1 .. m : ~Waits(s, k, i)
                    /\ \A j, k \in 1 .. m : Waits(s, j, i) /\ Waits(s, k, i) => j = k
  BY DEF Parted, g
<1>2. /\ f[i] \in {0, 1}
      /\ f[i] = 1 \/ i \in rest \/ (\E k \in 1 .. m : Waits(s, k, i)) <=> i \in ids
      /\ f[i] = 1 => i \notin rest /\ \A k \in 1 .. m : ~Waits(s, k, i)
      /\ i \in rest => \A k \in 1 .. m : ~Waits(s, k, i)
      /\ \A j, k \in 1 .. m : Waits(s, j, i) /\ Waits(s, k, i) => j = k
  BY DEF Parted
<1>3. i \in rows => f[i] = 0
  BY <1>2
<1>4. g[i] = 1 <=> f[i] = 1 \/ i \in rows
  BY <1>1, <1>2, <1>3
<1>5. g[i] \in {0, 1}
  BY <1>1, <1>2, <1>3
<1> QED
  BY <1>2, <1>4, <1>5

LEMMA TwoMore ==
    ASSUME NEW S, NEW t \in Seq(S), NEW a \in S, NEW b \in S
    PROVE  LET r == t \o <<a, b>>
           IN /\ r \in Seq(S) /\ Len(r) = Len(t) + 2
              /\ \A k \in 1 .. Len(t) : r[k] = t[k]
              /\ r[Len(t) + 1] = a /\ r[Len(t) + 2] = b
<1> DEFINE u == <<a, b>>
           r == t \o u
           m == Len(t)
<1>1. m \in Nat /\ u \in Seq(S) /\ Len(u) = 2 /\ u[1] = a /\ u[2] = b
  OBVIOUS
<1> HIDE DEF u
<1>2. /\ r \in Seq(S) /\ Len(r) = m + 2
      /\ \A k \in 1 .. m + 2 : r[k] = IF k <= m THEN t[k] ELSE u[k - m]
  <2>1. /\ t \o u \in Seq(S) /\ Len(t \o u) = Len(t) + Len(u)
        /\ \A k \in 1 .. Len(t) + Len(u) :
              (t \o u)[k] = IF k <= Len(t) THEN t[k] ELSE u[k - Len(t)]
    BY <1>1, ConcatProperties, Zenon
  <2> QED
    BY <1>1, <2>1, Zenon
<1> HIDE DEF r, m
<1>3. \A k \in 1 .. m : r[k] = t[k]
  BY <1>1, <1>2
<1>4. r[m + 1] = u[1]
  <2>1. m + 1 \in 1 .. m + 2 /\ ~(m + 1 <= m) /\ (m + 1) - m = 1
    BY <1>1
  <2> QED
    BY <1>2, <2>1
<1>5. r[m + 2] = u[2]
  <2>1. m + 2 \in 1 .. m + 2 /\ ~(m + 2 <= m) /\ (m + 2) - m = 2
    BY <1>1
  <2> QED
    BY <1>2, <2>1
<1> QED
  BY <1>1, <1>2, <1>3, <1>4, <1>5 DEF u, r, m

\* The first frames of a stack and one or two more.
LEMMA StackOfTwo ==
    ASSUME NEW s \in Seq(Frame), NEW m \in 0 .. Len(s), NEW a \in Frame, NEW b \in Frame
    PROVE  LET r == SubSeq(s, 1, m) \o <<a, b>>
           IN /\ r \in Seq(Frame) /\ Len(r) = m + 2
              /\ \A k \in 1 .. m : r[k] = s[k]
              /\ r[m + 1] = a /\ r[m + 2] = b
<1> DEFINE t == SubSeq(s, 1, m)
<1>1. t \in Seq(Frame) /\ Len(t) = m /\ \A k \in 1 .. m : t[k] = s[k]
  OBVIOUS
<1> HIDE DEF t
<1> QED
  BY <1>1, TwoMore DEF t

LEMMA StackBelow ==
    ASSUME NEW s \in Seq(Frame), NEW m \in 0 .. Len(s)
    PROVE  LET r == SubSeq(s, 1, m)
           IN /\ r \in Seq(Frame) /\ Len(r) = m
              /\ \A k \in 1 .. m : r[k] = s[k]
OBVIOUS

\* The lower frames of a stack keep what they say.
LEMMA WholesSame ==
    ASSUME NEW s, NEW r, NEW m \in Nat, NEW ids,
           \A k \in 1 .. m : s[k] = r[k],
           WholesParted(s, m, ids)
    PROVE  WholesParted(r, m, ids)
<1> SUFFICES ASSUME NEW k \in 1 .. m, r[k].kind = "whole"
             PROVE  Parted(r[k].got, r, k - 1, r[k].ids, ids)
  BY DEF WholesParted
<1>1. s[k] = r[k] /\ Parted(s[k].got, s, k - 1, s[k].ids, ids)
  BY DEF WholesParted
<1>2. k - 1 \in Nat /\ \A j \in 1 .. k - 1 : s[j] = r[j]
  OBVIOUS
<1> QED
  BY <1>1, <1>2, PartedSame

LEMMA WholesPush ==
    ASSUME NEW s, NEW m \in Nat, NEW ids, WholesParted(s, m, ids),
           s[m + 1].kind = "whole" => Parted(s[m + 1].got, s, m, s[m + 1].ids, ids)
    PROVE  WholesParted(s, m + 1, ids)
<1> SUFFICES ASSUME NEW k \in 1 .. m + 1, s[k].kind = "whole"
             PROVE  Parted(s[k].got, s, k - 1, s[k].ids, ids)
  BY DEF WholesParted
<1>1. CASE k = m + 1
  <2>1. k - 1 = m
    BY <1>1
  <2> QED
    BY <1>1, <2>1
<1>2. CASE k # m + 1
  <2>1. k \in 1 .. m
    BY <1>2
  <2> QED
    BY <2>1 DEF WholesParted
<1> QED
  BY <1>1, <1>2

LEMMA BatchTypes ==
    /\ \A ids \in SUBSET ObjectIds :
          Batch(ids) \in Frame /\ Batch(ids).kind = "fetch" /\ Batch(ids).ids = ids
    /\ \A ids \in SUBSET ObjectIds, f \in Features :
          /\ Whole(ids, f) \in Frame /\ Whole(ids, f).kind = "whole"
          /\ Whole(ids, f).ids = ids /\ Whole(ids, f).got = f
    /\ \A ids : Lower(ids) \subseteq ids
BY ListTypes DEF Batch, Whole, Frame, Lower

\* IDs that wait are split into two batches.
LEMMA SplitsParted ==
    ASSUME NEW s \in Seq(Frame), NEW m \in 0 .. Len(s), NEW D \in SUBSET ObjectIds,
           NEW f, NEW ids, Parted(f, s, m, D, ids), WholesParted(s, m, ids)
    PROVE  LET r == SubSeq(s, 1, m) \o Split(D)
           IN /\ r \in Seq(Frame)
              /\ Parted(f, r, Len(r), {}, ids) /\ WholesParted(r, Len(r), ids)
<1> DEFINE a == Batch(D \ Lower(D))
           b == Batch(Lower(D))
           r == SubSeq(s, 1, m) \o <<a, b>>
<1>1. /\ a \in Frame /\ a.kind = "fetch" /\ a.ids = D \ Lower(D)
      /\ b \in Frame /\ b.kind = "fetch" /\ b.ids = Lower(D) /\ Lower(D) \subseteq D
  BY BatchTypes
<1> HIDE DEF a, b
<1>2. /\ r \in Seq(Frame) /\ Len(r) = m + 2
      /\ \A k \in 1 .. m : r[k] = s[k]
      /\ r[m + 1] = a /\ r[m + 2] = b
  BY <1>1, StackOfTwo
<1> HIDE DEF r
<1>3. m \in Nat /\ m + 1 \in Nat /\ (m + 1) + 1 = m + 2
  OBVIOUS
<1>4. Parted(f, r, m, D, ids) /\ WholesParted(r, m, ids)
  BY <1>2, <1>3, PartedSame, WholesSame
<1>5. Parted(f, r, m + 1, Lower(D), ids)
  <2>1. D = Lower(D) \cup r[m + 1].ids /\ Lower(D) \cap r[m + 1].ids = {}
    BY <1>1, <1>2
  <2> QED
    BY <1>1, <1>2, <1>3, <1>4, <2>1, PartedPush
<1>6. Parted(f, r, (m + 1) + 1, {}, ids)
  <2>1. r[(m + 1) + 1] = b
    BY <1>2, <1>3
  <2>2. Lower(D) = {} \cup r[(m + 1) + 1].ids /\ {} \cap r[(m + 1) + 1].ids = {}
    BY <1>1, <2>1
  <2> QED
    BY <1>1, <1>3, <1>5, <2>1, <2>2, PartedPush
<1>7. WholesParted(r, m + 1, ids)
  BY <1>1, <1>2, <1>3, <1>4, WholesPush
<1>8. WholesParted(r, (m + 1) + 1, ids)
  BY <1>1, <1>2, <1>3, <1>7, WholesPush
<1>9. r = SubSeq(s, 1, m) \o Split(D)
  BY DEF r, a, b, Split
<1> QED
  BY <1>2, <1>3, <1>6, <1>8, <1>9

\* Some of the IDs that wait are answered, the others are fetched for the whole batch.
LEMMA MissesParted ==
    ASSUME NEW s \in Seq(Frame), NEW m \in 0 .. Len(s), NEW D \in SUBSET ObjectIds,
           NEW rows \in SUBSET D, NEW f \in Features, NEW ids,
           Parted(f, s, m, D, ids), WholesParted(s, m, ids)
    PROVE  LET r == SubSeq(s, 1, m) \o <<Whole(D, f), Batch(D \ rows)>>
           IN /\ r \in Seq(Frame)
              /\ Parted(Plus(f, Once(rows)), r, Len(r), {}, ids)
              /\ WholesParted(r, Len(r), ids)
<1> DEFINE a == Whole(D, f)
           b == Batch(D \ rows)
           g == Plus(f, Once(rows))
           r == SubSeq(s, 1, m) \o <<a, b>>
<1>1. /\ a \in Frame /\ a.kind = "whole" /\ a.ids = D /\ a.got = f
      /\ b \in Frame /\ b.kind = "fetch" /\ b.ids = D \ rows
  BY BatchTypes
<1> HIDE DEF a, b, g
<1>2. /\ r \in Seq(Frame) /\ Len(r) = m + 2
      /\ \A k \in 1 .. m : r[k] = s[k]
      /\ r[m + 1] = a /\ r[m + 2] = b
  <2>1. a \in Frame /\ b \in Frame /\ s \in Seq(Frame) /\ m \in 0 .. Len(s)
    BY <1>1
  <2> QED
    BY ONLY <2>1, StackOfTwo
<1> HIDE DEF r
<1>3. m \in Nat /\ m + 1 \in Nat /\ (m + 1) + 1 = m + 2
  OBVIOUS
<1>4. Parted(f, r, m, D, ids) /\ WholesParted(r, m, ids)
  BY <1>2, <1>3, PartedSame, WholesSame
<1>5. WholesParted(r, m + 1, ids)
  <2>1. Parted(r[m + 1].got, r, m, r[m + 1].ids, ids)
    BY <1>1, <1>2, <1>4
  <2> QED
    BY <1>3, <1>4, <2>1, WholesPush
<1>6. WholesParted(r, (m + 1) + 1, ids)
  BY <1>1, <1>2, <1>3, <1>5, WholesPush
<1>7. Parted(g, r, m, D \ rows, ids)
  <2>1. rows \subseteq D
    OBVIOUS
  <2> QED
    BY <1>3, <1>4, <2>1, PartedGot DEF g
<1>8. Parted(g, r, m + 1, D \ rows, ids)
  BY <1>1, <1>2, <1>3, <1>7, PartedWhole
<1>9. Parted(g, r, (m + 1) + 1, {}, ids)
  <2>1. r[(m + 1) + 1] = b
    BY <1>2, <1>3
  <2>2. D \ rows = {} \cup r[(m + 1) + 1].ids /\ {} \cap r[(m + 1) + 1].ids = {}
    BY <1>1, <2>1
  <2> QED
    BY <1>1, <1>3, <1>8, <2>1, <2>2, PartedPush
<1> QED
  BY <1>2, <1>3, <1>6, <1>9 DEF r, a, b, g

\* The last of some frames.
LEMMA LastFrame ==
    ASSUME NEW m \in Nat, NEW S \in SUBSET (1 .. m), S # {}
    PROVE  (CHOOSE k \in S : \A j \in S : j <= k) \in S
<1> DEFINE T == {m - k : k \in S}
<1>1. T \subseteq Nat /\ T # {}
  <2>1. \A k \in S : m - k \in Nat
    OBVIOUS
  <2> QED
    BY <2>1
<1>2. PICK x \in T : \A y \in T : ~(<<y, x>> \in OpToRel(<, Nat))
  BY <1>1, WFMin, NatLessThanWellFounded
<1>3. \A y \in T : ~(y < x)
  BY <1>1, <1>2 DEF OpToRel
<1>4. PICK k \in S : x = m - k
  BY <1>2
<1>5. \A j \in S : j <= k
  BY <1>3, <1>4
<1> QED
  BY <1>5

-----------------------------------------------------------------------------
(* The steps of a thread.                                                   *)

LEMMA ThreadTypes ==
    ASSUME FetchInv, NEW t \in Threads, Fetches(t)
    PROVE  /\ threads[t] \in Fetcher /\ threads[t].stack \in Seq(Frame)
           /\ threads[t].got \in Features /\ threads[t].ids \subseteq ObjectIds
           /\ threads[t].ids # {}
           /\ pc \in {"fetch", "stopping"}
           /\ ThreadInv(threads[t])
<1>1. threads[t] \in Fetcher /\ ThreadInv(threads[t]) /\ pc \in {"fetch", "stopping"}
  BY DEF FetchInv, FetchTypes, BufferTypes, ThreadsInv, Fetches, ChunkInv
<1>2. PICK k \in 1 .. next : threads[t].ids = Numbered(k)
  BY DEF FetchInv, ChunkInv
<1>3. next \in 0 .. Chunks
  BY <1>1 DEF FetchInv, ChunkInv, ByIds
<1>4. k \in Nat /\ k > 0 /\ k <= Chunks
  BY <1>3, ChunkCount
<1> QED
  BY <1>1, <1>2, <1>4, NumberedIds DEF Fetcher

LEMMA FetchingThread ==
    ASSUME NEW t \in Threads, NEW step \in {"begin", "fetch", "done", "failed"},
           Fetching(t, step)
    PROVE  Fetches(t)
BY DEF Fetching, Fetches, IdleThread

\* What a step of a thread makes of it.
Becomes(t, th) ==
    /\ th \in Fetcher /\ th.ids = threads[t].ids /\ ThreadInv(th)
    /\ threads' = [threads EXCEPT ![t] = th]

LEMMA ThreadWrites ==
    ASSUME NEW t \in Threads, threads \in [Threads -> Fetcher \cup {IdleThread}],
           threads[t] \in Fetcher,
           NEW step \in {"begin", "fetch", "done", "failed"}, NEW stack \in Seq(Frame),
           NEW f \in Features, Thread(t, step, stack, f),
           ThreadInv([pc |-> step, ids |-> threads[t].ids, stack |-> stack, got |-> f])
    PROVE  \E th : Becomes(t, th) /\ th.pc = step
<1> DEFINE new == [pc |-> step, ids |-> threads[t].ids, stack |-> stack, got |-> f]
<1>1. new \in Fetcher /\ new.ids = threads[t].ids /\ new.pc = step
  BY DEF Fetcher
<1>2. threads' = [threads EXCEPT ![t] = [threads[t] EXCEPT !.pc = step, !.stack = stack, !.got = f]]
  BY DEF Thread
<1>3. [threads[t] EXCEPT !.pc = step, !.stack = stack, !.got = f] = new
  <2> DEFINE A == {"begin", "fetch", "done", "failed"}
             B == SUBSET ObjectIds
             C == Seq(Frame)
             th == threads[t]
  <2>1. th \in [pc : A, ids : B, stack : C, got : Features]
    BY DEF Fetcher
  <2>2. step \in A /\ stack \in C
    OBVIOUS
  <2> HIDE DEF A, B, C, th
  <2> DEFINE e == [th EXCEPT !.pc = step, !.stack = stack, !.got = f]
  <2>3. e \in [pc : A, ids : B, stack : C, got : Features]
    BY <2>1, <2>2
  <2>4. e.pc = step /\ e.ids = th.ids /\ e.stack = stack /\ e.got = f
    BY <2>1
  <2> HIDE DEF e
  <2>5. e = [pc |-> step, ids |-> th.ids, stack |-> stack, got |-> f]
    BY <2>3, <2>4
  <2> QED
    BY <2>5 DEF e, th
<1> QED
  BY <1>1, <1>2, <1>3 DEF Becomes

LEMMA EmptyStack ==
    ASSUME NEW f, NEW ids \in SUBSET ObjectIds, f \in Features
    PROVE  /\ <<>> \in Seq(Frame)
           /\ Parted(f, <<>>, 0, {}, ids) <=> f = Once(ids)
           /\ WholesParted(<<>>, 0, ids)
<1>1. Parted(f, <<>>, 0, {}, ids) <=>
          \A i \in ObjectIds : f[i] \in {0, 1} /\ (f[i] = 1 <=> i \in ids)
  BY DEF Parted
<1>2. (\A i \in ObjectIds : f[i] \in {0, 1} /\ (f[i] = 1 <=> i \in ids)) <=> f = Once(ids)
  <2>1. f = Once(ids) <=> \A i \in ObjectIds : f[i] = IF i \in ids THEN 1 ELSE 0
    BY DEF Once, Features
  <2> QED
    BY <2>1
<1> QED
  BY <1>1, <1>2 DEF WholesParted

\* The top of the stack is what is asked for.
LEMMA TopFrame ==
    ASSUME FetchInv, NEW t \in Threads, Fetching(t, "fetch"), threads[t].stack # <<>>
    PROVE  LET s == threads[t].stack
               m == Len(s) - 1
               ids == threads[t].ids
           IN /\ threads[t] \in Fetcher /\ s \in Seq(Frame) /\ m \in 0 .. Len(s) /\ m \in Nat
              /\ Top(t) = s[m + 1] /\ Top(t) \in Frame /\ Below(t) = SubSeq(s, 1, m)
              /\ threads[t].got \in Features /\ ids \in SUBSET ObjectIds
              /\ WholesParted(s, m, ids)
              /\ Top(t).kind = "fetch" => Parted(threads[t].got, s, m, Top(t).ids, ids)
              /\ Top(t).kind = "whole" => Parted(threads[t].got, s, m, {}, ids)
<1> DEFINE s == threads[t].stack
           m == Len(s) - 1
           ids == threads[t].ids
<1>1. /\ threads[t] \in Fetcher /\ s \in Seq(Frame) /\ threads[t].got \in Features
      /\ ids \in SUBSET ObjectIds /\ ThreadInv(threads[t])
  BY FetchingThread, ThreadTypes
<1>2. StackIsParted(threads[t])
  BY <1>1 DEF ThreadInv, Fetching
<1>3. m \in 0 .. Len(s) /\ m \in Nat /\ m + 1 = Len(s) /\ s[m + 1] \in Frame
  BY <1>1
<1>4. Top(t) = s[m + 1] /\ Below(t) = SubSeq(s, 1, m)
  BY <1>3 DEF Top, Below
<1>5. Parted(threads[t].got, s, m + 1, {}, ids) /\ WholesParted(s, m + 1, ids)
  BY <1>2, <1>3 DEF StackIsParted
<1> HIDE DEF m, s
<1>6. WholesParted(s, m, ids)
  BY <1>3, <1>5 DEF WholesParted
<1>7. s[m + 1].kind = "fetch" => Parted(threads[t].got, s, m, s[m + 1].ids, ids)
  BY <1>3, <1>5, PartedPop
<1>8. s[m + 1].kind = "whole" => Parted(threads[t].got, s, m, {}, ids)
  BY <1>3, <1>5, PartedWhole
<1> QED
  BY <1>1, <1>3, <1>4, <1>6, <1>7, <1>8 DEF s, m

\* A chunk that is cached is whole.
LEMMA KeysTell ==
    /\ \A ids, s, ids2, s2 : Chunk(ids, s) = Chunk(ids2, s2) => ids = ids2 /\ s = s2
    /\ \A ids, s, o, n, s2 : Chunk(ids, s) # PageKey(o, n, s2)
    /\ \A o, n, s, o2, n2, s2 : PageKey(o, n, s) = PageKey(o2, n2, s2) => o = o2 /\ n = n2 /\ s = s2
<1>1. ASSUME NEW ids, NEW s, NEW ids2, NEW s2, Chunk(ids, s) = Chunk(ids2, s2)
      PROVE  ids = ids2 /\ s = s2
  <2>1. Chunk(ids, s).ids = ids /\ Chunk(ids2, s2).ids = ids2
        /\ Chunk(ids, s).sub = s /\ Chunk(ids2, s2).sub = s2
    BY DEF Chunk
  <2> QED
    BY <1>1, <2>1
<1>2. ASSUME NEW ids, NEW s, NEW o, NEW n, NEW s2
      PROVE  Chunk(ids, s) # PageKey(o, n, s2)
  <2>1. DOMAIN Chunk(ids, s) = {"sub", "ids"} /\ DOMAIN PageKey(o, n, s2) = {"sub", "offset", "size"}
    BY DEF Chunk, PageKey
  <2> QED
    BY <2>1
<1>3. ASSUME NEW o, NEW n, NEW s, NEW o2, NEW n2, NEW s2, PageKey(o, n, s) = PageKey(o2, n2, s2)
      PROVE  o = o2 /\ n = n2 /\ s = s2
  <2>1. /\ PageKey(o, n, s).offset = o /\ PageKey(o2, n2, s2).offset = o2
        /\ PageKey(o, n, s).size = n /\ PageKey(o2, n2, s2).size = n2
        /\ PageKey(o, n, s).sub = s /\ PageKey(o2, n2, s2).sub = s2
    BY DEF PageKey
  <2> QED
    BY <1>3, <2>1
<1> QED
  BY <1>1, <1>2, <1>3

LEMMA CachedChunk ==
    ASSUME FetchInv, NEW ids, NEW c \in Cached(Chunk(ids, sub))
    PROVE  c.features = Once(ids)
<1>1. c \in cache /\ c.key = Chunk(ids, sub)
  BY DEF Cached
<1>2. CASE \E ids2 \in SUBSET ObjectIds, s \in FeatureLayers :
              c = [key |-> Chunk(ids2, s), features |-> Once(ids2)]
  BY <1>1, <1>2, KeysTell
<1>3. CASE \E o, n \in Nat, s \in FeatureLayers :
              c = [key |-> PageKey(o, n, s),
                   features |-> Once(Span(o, Smaller(n, service.limit)))]
  BY <1>1, <1>3, KeysTell
<1> QED
  BY <1>1, <1>2, <1>3 DEF FetchInv, CacheInv

LEMMA StartEffect ==
    ASSUME FetchInv, NEW t \in Threads, StartChunk(t)
    PROVE  \E th : Becomes(t, th) /\ th.pc # "failed"
<1> DEFINE ids == threads[t].ids
           c == Cached(Chunk(ids, sub))
<1>1. /\ threads \in [Threads -> Fetcher \cup {IdleThread}] /\ threads[t] \in Fetcher
      /\ ids \in SUBSET ObjectIds
  BY FetchingThread, ThreadTypes DEF StartChunk, FetchInv, FetchTypes, BufferTypes
<1>2. CASE c # {}
  <2> DEFINE x == CHOOSE x \in c : TRUE
  <2>1. Thread(t, "done", <<>>, x.features)
    BY <1>2 DEF StartChunk
  <2>2. x.features = Once(ids)
    BY <1>2, CachedChunk
  <2>3. x.features \in Features
    BY <2>2, ListTypes
  <2> HIDE DEF x
  <2> DEFINE th == [pc |-> "done", ids |-> ids, stack |-> <<>>, got |-> x.features]
  <2>4. th.pc = "done" /\ th.got = Once(th.ids)
    BY <2>2
  <2>5. ThreadInv(th)
    BY <2>4 DEF ThreadInv
  <2>6. <<>> \in Seq(Frame)
    OBVIOUS
  <2> QED
    BY <1>1, <2>1, <2>3, <2>5, <2>6, ThreadWrites
<1>3. CASE c = {}
  <2> DEFINE s == <<Batch(ids)>>
  <2>1. Thread(t, "fetch", s, Nothing)
    BY <1>3 DEF StartChunk
  <2>2. Batch(ids) \in Frame /\ Batch(ids).kind = "fetch" /\ Batch(ids).ids = ids
    BY <1>1, BatchTypes
  <2>3. s \in Seq(Frame) /\ Len(s) = 1 /\ s[0 + 1] = Batch(ids) /\ 0 + 1 = 1
    BY <2>2
  <2> HIDE DEF s
  <2>4. Parted(Nothing, s, 0, {} \cup s[0 + 1].ids, ids)
    BY <2>2, <2>3, ListTypes DEF Parted
  <2>5. Parted(Nothing, s, 0 + 1, {}, ids)
    BY <2>2, <2>3, <2>4, PartedPush
  <2>6. WholesParted(s, 1, ids)
    BY <2>2, <2>3 DEF WholesParted
  <2> DEFINE th == [pc |-> "fetch", ids |-> ids, stack |-> s, got |-> Nothing]
  <2>7. StackIsParted(th)
    BY <2>3, <2>5, <2>6 DEF StackIsParted
  <2>8. ThreadInv(th)
    BY <2>7 DEF ThreadInv
  <2>9. Nothing \in Features
    BY ListTypes
  <2> QED
    BY <1>1, <2>1, <2>3, <2>8, <2>9, ThreadWrites
<1> QED
  BY <1>2, <1>3

\* A thread goes on with another stack.
LEMMA GoesOn ==
    ASSUME FetchInv, NEW t \in Threads, Fetching(t, "fetch"),
           NEW stack \in Seq(Frame), NEW f \in Features, Thread(t, "fetch", stack, f),
           Parted(f, stack, Len(stack), {}, threads[t].ids),
           WholesParted(stack, Len(stack), threads[t].ids)
    PROVE  \E th : Becomes(t, th) /\ th.pc = "fetch"
<1>1. threads \in [Threads -> Fetcher \cup {IdleThread}] /\ threads[t] \in Fetcher
  BY FetchingThread, ThreadTypes DEF FetchInv, FetchTypes, BufferTypes
<1> DEFINE th == [pc |-> "fetch", ids |-> threads[t].ids, stack |-> stack, got |-> f]
<1>2. ThreadInv(th)
  BY DEF ThreadInv, StackIsParted
<1> QED
  BY <1>1, <1>2, ThreadWrites

LEMMA BatchAnswerEffect ==
    ASSUME FetchInv, NEW t \in Threads, BatchAnswer(t)
    PROVE  \E th : Becomes(t, th) /\ th.pc = "fetch"
<1> DEFINE s == threads[t].stack
           m == Len(s) - 1
           ids == threads[t].ids
           now == threads[t].got
           asked == Top(t).ids
           rows == {i \in asked : Cardinality({j \in asked : j <= i}) <= service.limit}
<1>1. Fetching(t, "fetch") /\ s # <<>> /\ Top(t).kind = "fetch"
  BY DEF BatchAnswer
<1>2. /\ s \in Seq(Frame) /\ m \in 0 .. Len(s) /\ m \in Nat
      /\ Top(t) \in Frame /\ Below(t) = SubSeq(s, 1, m)
      /\ now \in Features /\ ids \in SUBSET ObjectIds
      /\ WholesParted(s, m, ids) /\ Parted(now, s, m, asked, ids)
  BY <1>1, TopFrame
<1>3. asked \in SUBSET ObjectIds /\ rows \in SUBSET asked
  BY <1>2 DEF Frame
<1>4. IF rows = asked THEN Thread(t, "fetch", Below(t), Plus(now, Once(asked)))
      ELSE IF service.named
         THEN Thread(t, "fetch", Below(t) \o <<Whole(asked, now), Batch(asked \ rows)>>,
                     Plus(now, Once(rows)))
         ELSE Thread(t, "fetch", Below(t) \o Split(asked), now)
  BY DEF BatchAnswer
<1> HIDE DEF s, m, ids, now, asked, rows
<1>5. Plus(now, Once(asked)) \in Features /\ Plus(now, Once(rows)) \in Features
  BY <1>2, ListTypes
<1>6. CASE rows = asked
  <2> DEFINE r == SubSeq(s, 1, m)
             g == Plus(now, Once(asked))
  <2>1. r \in Seq(Frame) /\ Len(r) = m /\ \A k \in 1 .. m : s[k] = r[k]
    BY <1>2, StackBelow
  <2> HIDE DEF r
  <2>2. Parted(now, r, m, asked, ids) /\ WholesParted(r, m, ids)
    BY <1>2, <2>1, PartedSame, WholesSame
  <2>3. Parted(g, r, m, asked \ asked, ids)
    BY <1>2, <2>2, PartedGot
  <2>4. asked \ asked = {}
    OBVIOUS
  <2>5. Parted(g, r, Len(r), {}, ids) /\ WholesParted(r, Len(r), ids)
    BY <2>1, <2>2, <2>3, <2>4
  <2>6. Thread(t, "fetch", r, g)
    BY <1>2, <1>4, <1>6 DEF r
  <2> HIDE DEF g
  <2> QED
    BY <1>1, <1>5, <2>1, <2>5, <2>6, GoesOn DEF ids, g
<1>7. CASE rows # asked /\ service.named
  <2> DEFINE r == SubSeq(s, 1, m) \o <<Whole(asked, now), Batch(asked \ rows)>>
             g == Plus(now, Once(rows))
  <2>1. r \in Seq(Frame) /\ Parted(g, r, Len(r), {}, ids) /\ WholesParted(r, Len(r), ids)
    BY <1>2, <1>3, MissesParted
  <2>2. Thread(t, "fetch", r, g)
    BY <1>2, <1>4, <1>7
  <2> HIDE DEF r, g
  <2> QED
    BY <1>1, <1>5, <2>1, <2>2, GoesOn DEF ids, g
<1>8. CASE rows # asked /\ ~service.named
  <2> DEFINE r == SubSeq(s, 1, m) \o Split(asked)
  <2>1. r \in Seq(Frame) /\ Parted(now, r, Len(r), {}, ids) /\ WholesParted(r, Len(r), ids)
    BY <1>2, <1>3, SplitsParted
  <2>2. Thread(t, "fetch", r, now)
    BY <1>2, <1>4, <1>8
  <2> HIDE DEF r
  <2> QED
    BY <1>1, <1>2, <2>1, <2>2, GoesOn DEF ids
<1> QED
  BY <1>6, <1>7, <1>8

LEMMA JoinedEffect ==
    ASSUME FetchInv, NEW t \in Threads, Joined(t)
    PROVE  \E th : Becomes(t, th) /\ th.pc = "fetch"
<1> DEFINE s == threads[t].stack
           m == Len(s) - 1
           ids == threads[t].ids
           now == threads[t].got
           r == SubSeq(s, 1, m)
<1>1. Fetching(t, "fetch") /\ s # <<>> /\ Top(t).kind = "whole"
  BY DEF Joined
<1>2. /\ s \in Seq(Frame) /\ m \in 0 .. Len(s) /\ m \in Nat
      /\ Below(t) = r /\ now \in Features
      /\ WholesParted(s, m, ids) /\ Parted(now, s, m, {}, ids)
  BY <1>1, TopFrame
<1>3. Thread(t, "fetch", r, now)
  BY <1>2 DEF Joined
<1> HIDE DEF s, m, ids, now, r
<1>4. r \in Seq(Frame) /\ Len(r) = m /\ \A k \in 1 .. m : s[k] = r[k]
  BY <1>2, StackBelow DEF r
<1>5. Parted(now, r, Len(r), {}, ids) /\ WholesParted(r, Len(r), ids)
  BY <1>2, <1>4, PartedSame, WholesSame
<1> QED
  BY <1>1, <1>2, <1>3, <1>4, <1>5, GoesOn DEF ids

\* A chunk fails only when the service, or a request to it, does.
LEMMA RequestFailsEffect ==
    ASSUME FetchInv, NEW t \in Threads, RequestFails(t)
    PROVE  \E th : Becomes(t, th) /\ (th.pc = "failed" => service.broken # {} \/ ~healthy')
<1> DEFINE s == threads[t].stack
           m == Len(s) - 1
           ids == threads[t].ids
           now == threads[t].got
           asked == Top(t).ids
<1>1. Fetching(t, "fetch") /\ s # <<>> /\ Top(t).kind = "fetch"
  BY DEF RequestFails
<1>2. /\ s \in Seq(Frame) /\ m \in 0 .. Len(s) /\ m \in Nat
      /\ Top(t) \in Frame /\ Below(t) = SubSeq(s, 1, m)
      /\ now \in Features /\ ids \in SUBSET ObjectIds
      /\ WholesParted(s, m, ids) /\ Parted(now, s, m, asked, ids)
  BY <1>1, TopFrame
<1>3. asked \in SUBSET ObjectIds
  BY <1>2 DEF Frame
<1>4. service.broken # {} \/ ~healthy'
  BY DEF RequestFails, Faulty
<1>5. CASE Cardinality(Top(t).ids) > 1
  <2> DEFINE r == SubSeq(s, 1, m) \o Split(asked)
  <2>1. r \in Seq(Frame) /\ Parted(now, r, Len(r), {}, ids) /\ WholesParted(r, Len(r), ids)
    BY <1>2, <1>3, SplitsParted
  <2>2. Thread(t, "fetch", r, now)
    BY <1>2, <1>5 DEF RequestFails
  <2> HIDE DEF r, s, m, now, asked
  <2> QED
    BY <1>1, <1>2, <1>4, <2>1, <2>2, GoesOn
<1>6. CASE ~(Cardinality(Top(t).ids) > 1)
  <2> DEFINE wholes == {k \in 1 .. Len(Below(t)) : threads[t].stack[k].kind = "whole"}
             k == CHOOSE k \in wholes : \A j \in wholes : j <= k
             frame == s[k]
  <2>1. IF wholes = {} THEN Thread(t, "failed", <<>>, Nothing)
        ELSE Thread(t, "fetch", SubSeq(s, 1, k - 1) \o Split(frame.ids), frame.got)
    BY <1>6 DEF RequestFails, Unwind
  <2>2. CASE wholes = {}
    <3>1. threads \in [Threads -> Fetcher \cup {IdleThread}] /\ threads[t] \in Fetcher
      BY <1>1, FetchingThread, ThreadTypes DEF FetchInv, FetchTypes, BufferTypes
    <3>2. Thread(t, "failed", <<>>, Nothing) /\ Nothing \in Features /\ <<>> \in Seq(Frame)
      BY <2>1, <2>2, ListTypes
    <3>3. ThreadInv([pc |-> "failed", ids |-> threads[t].ids, stack |-> <<>>, got |-> Nothing])
      BY DEF ThreadInv
    <3> QED
      BY <1>4, <3>1, <3>2, <3>3, ThreadWrites
  <2>3. CASE wholes # {}
    <3>1. Len(Below(t)) = m
      BY <1>2, StackBelow
    <3>2. k \in wholes
      BY <1>2, <2>3, <3>1, LastFrame
    <3>3. Thread(t, "fetch", SubSeq(s, 1, k - 1) \o Split(frame.ids), frame.got)
      BY <2>1, <2>3
    <3>4. wholes = {n \in 1 .. m : s[n].kind = "whole"}
      BY <3>1
    <3> HIDE DEF k, wholes
    <3>5. k \in 1 .. m /\ s[k].kind = "whole"
      BY <3>2, <3>4
    <3> HIDE DEF s, m, ids
    <3>6. /\ k \in 1 .. Len(s) /\ k - 1 \in 0 .. Len(s) /\ k - 1 \in Nat /\ frame \in Frame
          /\ Parted(frame.got, s, k - 1, frame.ids, ids)
          /\ WholesParted(s, k - 1, ids)
      BY <1>2, <3>5 DEF WholesParted
    <3>7. frame.ids \in SUBSET ObjectIds /\ frame.got \in Features
      BY <3>6 DEF Frame
    <3> DEFINE r == SubSeq(s, 1, k - 1) \o Split(frame.ids)
    <3> HIDE DEF frame
    <3>8. r \in Seq(Frame) /\ Parted(frame.got, r, Len(r), {}, ids) /\ WholesParted(r, Len(r), ids)
      BY <1>2, <3>6, <3>7, SplitsParted
    <3>9. Thread(t, "fetch", r, frame.got)
      BY <3>3
    <3> HIDE DEF r
    <3> QED
      BY <1>1, <1>4, <3>7, <3>8, <3>9, GoesOn DEF ids
  <2> QED
    BY <2>2, <2>3
<1> QED
  BY <1>5, <1>6

LEMMA StoreEffect ==
    ASSUME FetchInv, NEW t \in Threads, Store(t)
    PROVE  /\ \E th : Becomes(t, th) /\ th.pc # "failed"
           /\ cache' = cache \cup {[key |-> Chunk(threads[t].ids, sub),
                                    features |-> Once(threads[t].ids)]}
           /\ threads[t].ids \in SUBSET ObjectIds
<1>1. Fetching(t, "fetch") /\ threads[t].stack = <<>>
  BY DEF Store
<1>2. /\ threads \in [Threads -> Fetcher \cup {IdleThread}] /\ threads[t] \in Fetcher
      /\ threads[t].got \in Features /\ threads[t].ids \in SUBSET ObjectIds
      /\ ThreadInv(threads[t])
  BY <1>1, FetchingThread, ThreadTypes DEF FetchInv, FetchTypes, BufferTypes
<1>3. Parted(threads[t].got, <<>>, 0, {}, threads[t].ids)
  BY <1>1, <1>2 DEF ThreadInv, StackIsParted, Fetching
<1>4. threads[t].got = Once(threads[t].ids)
  BY <1>2, <1>3, EmptyStack
<1>5. ThreadInv([pc |-> "done", ids |-> threads[t].ids, stack |-> <<>>, got |-> threads[t].got])
  BY <1>4 DEF ThreadInv
<1>6. <<>> \in Seq(Frame)
  OBVIOUS
<1>7. Thread(t, "done", <<>>, threads[t].got)
  BY DEF Store
<1>8. \E th : Becomes(t, th) /\ th.pc = "done"
  BY <1>2, <1>5, <1>6, <1>7, ThreadWrites
<1> QED
  BY <1>2, <1>4, <1>8 DEF Store

-----------------------------------------------------------------------------
(* The invariant                                                            *)

LEMMA TypesImply == FetchInv => FetchTypeOK
<1> SUFFICES ASSUME FetchInv PROVE FetchTypeOK
  OBVIOUS
<1>1. ControlTypes /\ BufferTypes /\ OutTypes
  BY DEF FetchInv, FetchTypes
<1>2. ASSUME NEW t \in Threads
      PROVE  \/ threads[t] = IdleThread
             \/ /\ threads[t].pc \in {"begin", "fetch", "done", "failed"}
                /\ threads[t].ids \subseteq ObjectIds
                /\ threads[t].got \in Features
  <2>1. threads[t] \in Fetcher \/ threads[t] = IdleThread
    BY <1>1 DEF BufferTypes
  <2> QED
    BY <2>1 DEF Fetcher
<1>3. ASSUME NEW i \in 1 .. Len(pages)
      PROVE  pages[i] \in (0 .. NumFeatures + PageSize) \X (1 .. PageSize)
  BY <1>1 DEF BufferTypes
<1>4. ASSUME NEW c \in cache PROVE c.features \in Features
  BY ListTypes DEF FetchInv, CacheInv
<1>5. next \in 0 .. NumFeatures + PageSize
  BY <1>1, Numbers DEF BufferTypes
<1> QED
  BY <1>1, <1>2, <1>3, <1>4, <1>5 DEF FetchTypeOK, ControlTypes, BufferTypes, OutTypes

LEMMA FetchInitInv == FetchInit => FetchInv
<1> SUFFICES ASSUME FetchInit PROVE FetchInv
  OBVIOUS
<1>1. ControlTypes
  <2>1. 0 \in 0 .. MaxFaults /\ 0 \in 0 .. MaxAttempts /\ 1 \in FeatureLayers
    BY Numbers DEF FeatureLayers
  <2>2. service \in Service /\ listed \subseteq service.queryable
    BY DEF FetchInit
  <2>3. pc \in EndPc
    BY DEF FetchInit, EndPc
  <2> QED
    BY <2>1, <2>2, <2>3 DEF FetchInit, ControlTypes
<1>2. BufferTypes
  <2>1. threads \in [Threads -> Fetcher \cup {IdleThread}]
    BY DEF FetchInit
  <2>2. 0 \in 0 .. NumFeatures
    BY Numbers
  <2>3. pages \in Seq((0 .. NumFeatures + PageSize) \X (1 .. PageSize))
    BY DEF FetchInit
  <2> QED
    BY <2>1, <2>2, <2>3, ListTypes DEF FetchInit, BufferTypes
<1>3. OutTypes
  <2>1. NoEntry \in [kind : EntryKind, features : Features, counted : BOOLEAN]
    BY ListTypes DEF NoEntry, EntryKind
  <2> QED
    BY <2>1 DEF FetchInit, OutTypes
<1>4. \A t \in Threads : ~Fetches(t)
  BY DEF FetchInit, Fetches
<1>5. pc = "idle" /\ cache = {}
  BY DEF FetchInit
<1>6. EntryIsWhole
  BY DEF FetchInit, EntryIsWhole, HasFeatures, NoEntry
<1> QED
  BY <1>1, <1>2, <1>3, <1>4, <1>5, <1>6
  DEF FetchInv, FetchTypes, CacheInv, ThreadsInv, ChunkInv, PageInv, StepInv, EntryInv,
      HealthyInv, ByIds

\* Outside the fetching of chunks no thread works.
LEMMA QuietThreads ==
    ASSUME FetchInv, pc \notin {"fetch", "stopping"}
    PROVE  \A t \in Threads : threads[t] = IdleThread
BY DEF FetchInv, ChunkInv, Fetches

\* A step after which no thread works and no chunk is waited for.
LEMMA QuietInv ==
    ASSUME \A t \in Threads : threads'[t] = IdleThread,
           \/ ~ByIds'
           \/ next' = 0 /\ got' = Nothing
    PROVE  ThreadsInv' /\ ChunkInv'
<1>1. \A t \in Threads : ~Fetches(t)'
  BY DEF Fetches
<1>2. ThreadsInv'
  BY <1>1 DEF ThreadsInv
<1>3. CASE ~ByIds'
  BY <1>1, <1>2, <1>3 DEF ChunkInv
<1>4. CASE next' = 0 /\ got' = Nothing
  <2>1. \A i \in ObjectIds : got'[i] = 0
    BY <1>4, ListTypes
  <2>2. 1 .. next' = {} /\ next' \in 0 .. Chunks
    BY <1>4, ChunkCount
  <2> QED
    BY <1>1, <1>2, <2>1, <2>2 DEF ChunkInv
<1> QED
  BY <1>3, <1>4

LEMMA BuffersSame ==
    ASSUME FetchInv, UNCHANGED fetchVars
    PROVE  BufferTypes'
BY DEF fetchVars, FetchInv, FetchTypes, BufferTypes

LEMMA CacheSame ==
    ASSUME FetchInv, UNCHANGED <<service, cache>>
    PROVE  CacheInv'
BY DEF FetchInv, CacheInv

LEMMA OutSame ==
    ASSUME FetchInv, UNCHANGED outVars
    PROVE  OutTypes' /\ EntryIsWhole' /\ \A s : Got(s)' <=> Got(s)
BY DEF outVars, FetchInv, FetchTypes, OutTypes, EntryInv, EntryIsWhole, Got, HasFeatures

-----------------------------------------------------------------------------
(* The steps of the worker outside a sublayer.                              *)

LEMMA BeginInv ==
    ASSUME FetchInv, Begin PROVE FetchInv'
<1>1. pc \notin {"fetch", "stopping"} /\ pc' = "list"
  BY DEF Begin, Goes, EndPc
<1>2. ControlTypes'
  <2>1. attempt' \in 0 .. MaxAttempts
    BY Numbers DEF Begin, FetchInv, FetchTypes, ControlTypes
  <2>2. pc' \in ActivePc
    BY <1>1 DEF ActivePc
  <2> QED
    BY <2>1, <2>2 DEF Begin, FetchInv, FetchTypes, ControlTypes
<1>3. BufferTypes' /\ OutTypes' /\ CacheInv' /\ EntryIsWhole'
  BY BuffersSame, OutSame, CacheSame DEF Begin
<1>4. ThreadsInv' /\ ChunkInv'
  <2>1. \A t \in Threads : threads'[t] = IdleThread
    BY <1>1, QuietThreads DEF Begin, fetchVars
  <2> QED
    BY <1>1, <2>1, QuietInv DEF ByIds
<1> QED
  BY <1>1, <1>2, <1>3, <1>4
  DEF FetchInv, FetchTypes, PageInv, StepInv, EntryInv, HealthyInv, ByIds

LEMMA ListInv ==
    ASSUME FetchInv, List PROVE FetchInv'
<1>1. PICK lost \in SUBSET service.queryable :
          /\ faults + Cardinality(lost) <= MaxFaults
          /\ faults' = faults + Cardinality(lost)
          /\ healthy' = (lost = {})
          /\ listed' = service.queryable \ lost
          /\ pc' = IF service.queryable # lost THEN "clear"
                   ELSE IF service.renders THEN "image" ELSE "refused"
  BY DEF List, Goes
<1>2. pc = "list"
  BY DEF List
<1>3. ControlTypes'
  <2>1. service.queryable \in SUBSET FeatureLayers
    BY DEF FetchInv, FetchTypes, ControlTypes, Service
  <2>2. IsFiniteSet(FeatureLayers)
    BY FS_Interval, Numbers DEF FeatureLayers
  <2>3. lost \in SUBSET FeatureLayers
    BY <2>1
  <2>4. Cardinality(lost) \in Nat
    BY <2>2, <2>3, FS_Subset, FS_CardinalityType
  <2>5. faults' \in 0 .. MaxFaults
    BY <1>1, <2>4, Numbers DEF FetchInv, FetchTypes, ControlTypes
  <2>6. pc' \in ActivePc \cup EndPc
    BY <1>1 DEF ActivePc, EndPc
  <2>7. healthy' \in BOOLEAN /\ listed' \subseteq service'.queryable
    BY <1>1 DEF List
  <2> QED
    BY <2>5, <2>6, <2>7 DEF List, FetchInv, FetchTypes, ControlTypes
<1>4. BufferTypes' /\ OutTypes' /\ CacheInv' /\ EntryIsWhole'
  BY BuffersSame, OutSame, CacheSame DEF List
<1>5. ThreadsInv' /\ ChunkInv'
  <2>1. \A t \in Threads : threads'[t] = IdleThread
    BY <1>2, QuietThreads DEF List, fetchVars
  <2> QED
    BY <1>1, <2>1, QuietInv DEF ByIds
<1>6. pc' = "clear" => listed' # {}
  BY <1>1
<1>7. pc' = "image" => listed' = {}
  BY <1>1
<1> QED
  BY <1>1, <1>3, <1>4, <1>5, <1>6, <1>7
  DEF FetchInv, FetchTypes, PageInv, StepInv, EntryInv, HealthyInv, ByIds

LEMMA EntryType ==
    ASSUME NEW kind \in EntryKind, NEW f \in Features
    PROVE  /\ Entry(kind, f) \in [kind : EntryKind, features : Features, counted : BOOLEAN]
           /\ Entry(kind, f).kind = kind /\ Entry(kind, f).features = f
           /\ Entry(kind, f).counted = (target > 0)
BY DEF Entry

LEMMA ImageInv ==
    ASSUME FetchInv, Image PROVE FetchInv'
<1>1. pc = "image" /\ pc' = "done"
  BY DEF Image, Goes
<1>2. ControlTypes'
  BY <1>1 DEF Image, Sound, Stays, FetchInv, FetchTypes, ControlTypes, EndPc
<1>3. BufferTypes' /\ CacheInv'
  BY DEF Image, Stays, fetchVars, FetchInv, FetchTypes, BufferTypes, CacheInv
<1>4. 1 \in FeatureLayers /\ Entry("image", Nothing).kind = "image"
      /\ Entry("image", Nothing) \in [kind : EntryKind, features : Features, counted : BOOLEAN]
  BY Numbers, ListTypes, EntryType DEF FeatureLayers, EntryKind
<1>5. entries' = [entries EXCEPT ![1] = Entry("image", Nothing)] /\ files' = files \cup {1}
      /\ manifest' = TRUE
  BY DEF Image
<1>6. OutTypes'
  BY <1>4, <1>5 DEF FetchInv, FetchTypes, OutTypes
<1>7. ThreadsInv' /\ ChunkInv'
  <2>1. \A t \in Threads : threads'[t] = IdleThread
    BY <1>1, QuietThreads DEF Image, fetchVars
  <2> QED
    BY <1>1, <2>1, QuietInv DEF ByIds
<1>8. EntryIsWhole'
  <2>1. \A s \in FeatureLayers :
           entries'[s] = IF s = 1 THEN Entry("image", Nothing) ELSE entries[s]
    BY <1>5 DEF FetchInv, FetchTypes, OutTypes
  <2> QED
    BY <1>4, <2>1 DEF FetchInv, EntryInv, EntryIsWhole, HasFeatures
<1>9. HealthyInv'
  BY <1>1 DEF Image, Sound, Stays, FetchInv, HealthyInv, Healthy, ByIds
<1> QED
  BY <1>1, <1>2, <1>3, <1>6, <1>7, <1>8, <1>9
  DEF FetchInv, FetchTypes, PageInv, StepInv, EntryInv

LEMMA EmptyDirInv ==
    ASSUME FetchInv, EmptyDir PROVE FetchInv'
<1>1. pc = "clear" /\ pc' = "ids" /\ listed # {}
  BY DEF EmptyDir, Goes, FetchInv, StepInv
<1>2. listed \in SUBSET FeatureLayers
  BY DEF FetchInv, FetchTypes, ControlTypes, Service
<1>3. sub' \in listed /\ \A s \in listed : sub' <= s
  BY <1>1, <1>2, First DEF EmptyDir
<1>4. next' = 0 /\ failed' = FALSE /\ got' = Nothing /\ pages' = <<>> /\ part' = Nothing
  BY DEF EmptyDir, Afresh, AfreshWith
<1>5. ControlTypes'
  BY <1>1, <1>2, <1>3 DEF EmptyDir, Sound, Stays, FetchInv, FetchTypes, ControlTypes, ActivePc
<1>6. BufferTypes'
  <2>1. <<>> \in Seq((0 .. NumFeatures + PageSize) \X (1 .. PageSize)) /\ 0 \in 0 .. NumFeatures
    BY Numbers
  <2> QED
    BY <1>4, <2>1, ListTypes DEF EmptyDir, FetchInv, FetchTypes, BufferTypes
<1>7. NoEntry \in [kind : EntryKind, features : Features, counted : BOOLEAN]
      /\ NoEntry.kind = "none"
  BY ListTypes DEF NoEntry, EntryKind
<1>8. OutTypes' /\ EntryIsWhole'
  BY <1>7 DEF EmptyDir, OutTypes, EntryIsWhole, HasFeatures
<1>9. CacheInv'
  BY DEF EmptyDir, Stays, FetchInv, CacheInv
<1>10. \A t \in Threads : threads'[t] = IdleThread
  BY <1>1, QuietThreads DEF EmptyDir
<1>11. ThreadsInv' /\ ChunkInv'
  BY <1>4, <1>10, QuietInv
<1>12. HealthyInv'
  <2>1. \A t \in Threads : threads'[t].pc # "failed"
    BY <1>10 DEF IdleThread
  <2>2. listed' = listed /\ listed \subseteq Nat /\ sub' \in Nat
    BY <1>2, <1>3, Numbers DEF EmptyDir, Stays
  <2>3. \A s \in listed' : ~(s < sub')
    BY <1>3, <2>2
  <2> QED
    BY <1>1, <1>4, <2>1, <2>3 DEF HealthyInv
<1> QED
  BY <1>1, <1>4, <1>5, <1>6, <1>8, <1>9, <1>11, <1>12
  DEF FetchInv, FetchTypes, PageInv, StepInv, EntryInv

LEMMA ListIdsInv ==
    ASSUME FetchInv, ListIds PROVE FetchInv'
<1>1. /\ pc = "ids" /\ next = 0 /\ ~failed
      /\ pc' = IF service.lists THEN "fetch" ELSE "count"
      /\ target' = IF service.lists THEN NumFeatures ELSE 0
  BY DEF ListIds, Goes, FetchInv, StepInv
<1>2. ControlTypes'
  BY <1>1 DEF ListIds, Sound, Stays, FetchInv, FetchTypes, ControlTypes, ActivePc
<1>3. BufferTypes'
  BY <1>1 DEF ListIds, FetchInv, FetchTypes, BufferTypes
<1>4. OutTypes' /\ CacheInv' /\ EntryIsWhole'
  BY OutSame, CacheSame DEF ListIds, Stays
<1>5. \A t \in Threads : threads[t] = IdleThread /\ threads'[t] = IdleThread
  BY <1>1, QuietThreads DEF ListIds
<1>6. got = Nothing
  <2>1. \A i \in ObjectIds : got[i] = 0
    <3>1. 1 .. next = {}
      BY <1>1
    <3> QED
      BY <1>1, <3>1 DEF FetchInv, ChunkInv, ByIds
  <2>2. got \in Features
    BY DEF FetchInv, FetchTypes, BufferTypes
  <2> QED
    BY <2>1, <2>2 DEF Nothing, Features
<1>7. ThreadsInv' /\ ChunkInv'
  BY <1>1, <1>5, <1>6, QuietInv DEF ListIds
<1>8. HealthyInv'
  <2>1. \A t \in Threads : threads'[t].pc # "failed"
    BY <1>5 DEF IdleThread
  <2>2. Healthy' => Healthy /\ pc' = "fetch"
    BY <1>1 DEF ListIds, Sound, Stays, Healthy
  <2>3. Healthy => \A s \in listed : s < sub => Got(s)
    BY <1>1 DEF FetchInv, HealthyInv, ByIds
  <2>4. \A s : Got(s)' <=> Got(s)
    BY OutSame DEF ListIds
  <2>5. listed' = listed /\ sub' = sub /\ failed' = failed
    BY DEF ListIds, Stays
  <2> QED
    BY <1>1, <2>1, <2>2, <2>3, <2>4, <2>5 DEF HealthyInv
<1> QED
  BY <1>1, <1>2, <1>3, <1>4, <1>7, <1>8
  DEF FetchInv, FetchTypes, PageInv, StepInv, EntryInv

-----------------------------------------------------------------------------
(* The chunks.                                                              *)

\* As many threads as numbers: every number has its thread.
LEMMA EveryNumber ==
    ASSUME NEW f \in [Threads -> 1 .. Cardinality(Threads)],
           \A t, u \in Threads : t # u => f[t] # f[u]
    PROVE  \A k \in 1 .. Cardinality(Threads) : \E t \in Threads : f[t] = k
<1> DEFINE n == Cardinality(Threads)
           S == {f[t] : t \in Threads}
<1>1. IsFiniteSet(Threads) /\ n \in Nat
  BY FetchAssumption, FS_CardinalityType
<1>2. [t \in Threads |-> f[t]] \in Bijection(Threads, S)
  BY DEF Bijection, Injection, Surjection, IsInjective
<1>3. IsFiniteSet(S) /\ Cardinality(S) = n
  BY <1>1, <1>2, FS_Bijection DEF ExistsBijection
<1>4. IsFiniteSet(1 .. n) /\ Cardinality(1 .. n) = n
  BY <1>1, FS_Interval
<1>5. S \in SUBSET (1 .. n)
  OBVIOUS
<1>6. S = 1 .. n
  BY <1>3, <1>4, <1>5, FS_Subset
<1> QED
  BY <1>6

LEMMA SubmitInv ==
    ASSUME FetchInv, Submit PROVE FetchInv'
<1> DEFINE n == Cardinality(Threads)
<1>1. PICK f \in [Threads -> 1 .. n] :
          /\ \A t, u \in Threads : t # u => f[t] # f[u]
          /\ threads' = [t \in Threads |->
                IF next + f[t] > Chunks THEN IdleThread
                ELSE [pc |-> "begin", ids |-> Numbered(next + f[t]), stack |-> <<>>,
                      got |-> Nothing]]
  BY DEF Submit
<1>2. /\ pc = "fetch" /\ pc' = "fetch" /\ next < Chunks
      /\ \A t \in Threads : threads[t] = IdleThread
      /\ next' = Smaller(next + n, Chunks)
  BY DEF Submit
<1>3. n \in Nat
  BY FetchAssumption, FS_CardinalityType
<1>4. next \in Nat /\ \A t \in Threads : f[t] \in Nat /\ f[t] > 0 /\ f[t] <= n
  BY <1>1, <1>3, Numbers DEF FetchInv, FetchTypes, BufferTypes
<1>5. next' \in Nat /\ next <= next' /\ next' <= Chunks /\ next' <= next + n
      /\ (next' = Chunks \/ next' = next + n)
  BY <1>2, <1>3, <1>4, ChunkCount DEF Smaller
<1>6. ASSUME NEW t \in Threads, Fetches(t)'
      PROVE  LET k == next + f[t]
             IN /\ k \in Nat /\ k > next /\ k > 0 /\ k <= Chunks /\ k <= next'
                /\ threads'[t] = [pc |-> "begin", ids |-> Numbered(k), stack |-> <<>>,
                                  got |-> Nothing]
                /\ threads'[t] \in Fetcher /\ threads'[t].ids = Numbered(k)
                /\ threads'[t].pc = "begin"
  <2> DEFINE k == next + f[t]
             th == [pc |-> "begin", ids |-> Numbered(k), stack |-> <<>>, got |-> Nothing]
  <2>1. ~(k > Chunks) /\ threads'[t] = th
    BY <1>1, <1>6 DEF Fetches
  <2>2. k \in Nat /\ k > next /\ k > 0 /\ k <= Chunks /\ k <= next + n
    BY <1>3, <1>4, <2>1, ChunkCount
  <2>3. k <= next'
    BY <1>3, <1>4, <1>5, <2>2, ChunkCount
  <2>4. th \in Fetcher /\ th.ids = Numbered(k) /\ th.pc = "begin"
    <3>1. Numbered(k) \in SUBSET ObjectIds
      BY <2>2, NumberedIds
    <3>2. <<>> \in Seq(Frame)
      OBVIOUS
    <3> QED
      BY <3>1, <3>2, ListTypes DEF Fetcher
  <2> QED
    BY <2>1, <2>2, <2>3, <2>4
<1>7. ControlTypes'
  BY DEF Submit, Sound, Stays, FetchInv, FetchTypes, ControlTypes
<1>8. BufferTypes'
  <2>1. threads' \in [Threads -> Fetcher \cup {IdleThread}]
    <3>1. ASSUME NEW t \in Threads PROVE threads'[t] \in Fetcher \cup {IdleThread}
      BY <1>6 DEF Fetches
    <3> QED
      BY <1>1, <3>1
  <2>2. next' \in 0 .. NumFeatures
    BY <1>5, ChunkCount, Numbers
  <2> QED
    BY <2>1, <2>2 DEF Submit, FetchInv, FetchTypes, BufferTypes
<1>9. OutTypes' /\ EntryIsWhole' /\ CacheInv' /\ \A s : Got(s)' <=> Got(s)
  BY OutSame, CacheSame DEF Submit, Stays
<1>10. ThreadsInv'
  BY <1>6 DEF ThreadsInv, ThreadInv
<1>11. ByIds /\ ByIds'
  BY <1>2 DEF ByIds
<1>12. got' = got /\ failed' = failed
  BY DEF Submit
<1>13. ASSUME NEW i \in ObjectIds, got[i] = 1
       PROVE  \E k \in 1 .. next : i \in Numbered(k)
  BY <1>11, <1>13 DEF FetchInv, ChunkInv
<1>14. ChunkInv'
  <2>1. ASSUME NEW t \in Threads, Fetches(t)'
        PROVE  /\ \E k \in 1 .. next' : threads'[t].ids = Numbered(k)
               /\ \A i \in threads'[t].ids : got'[i] = 0
               /\ \A u \in Threads : Fetches(u)' /\ t # u => threads'[t].ids \cap threads'[u].ids = {}
    <3>1. next + f[t] \in 1 .. next'
      <4>1. next + f[t] \in Nat /\ next + f[t] > 0 /\ next + f[t] <= next'
        BY <1>6, <2>1
      <4> QED
        BY <1>5, <4>1
    <3>2. ASSUME NEW i \in threads'[t].ids PROVE got'[i] = 0
      <4>1. i \in Numbered(next + f[t]) /\ i \in ObjectIds
        BY <1>6, <2>1, <3>2, NumberedIds
      <4>2. \A k \in 1 .. next : i \notin Numbered(k)
        <5>1. ASSUME NEW k \in 1 .. next PROVE i \notin Numbered(k)
          <6>1. k \in Nat /\ k > 0 /\ k < next + f[t]
            BY <1>4
          <6> QED
            BY <1>6, <2>1, <4>1, <6>1, NumberedApart
        <5> QED
          BY <5>1
      <4>3. got[i] \in {0, 1}
        BY <1>11, <4>1 DEF FetchInv, ChunkInv
      <4> QED
        BY <1>12, <1>13, <4>1, <4>2, <4>3
    <3>3. ASSUME NEW u \in Threads, Fetches(u)', t # u
          PROVE  threads'[t].ids \cap threads'[u].ids = {}
      <4>1. f[t] # f[u]
        BY <1>1, <3>3
      <4>2. /\ next + f[t] \in Nat /\ next + f[t] > 0
            /\ next + f[u] \in Nat /\ next + f[u] > 0
        BY <1>4
      <4>3. CASE f[t] < f[u]
        <5>1. next + f[t] < next + f[u]
          BY <1>4, <4>3
        <5> QED
          BY <1>6, <2>1, <3>3, <4>2, <5>1, NumberedApart
      <4>4. CASE f[u] < f[t]
        <5>1. next + f[u] < next + f[t]
          BY <1>4, <4>4
        <5>2. Numbered(next + f[u]) \cap Numbered(next + f[t]) = {}
          BY <4>2, <5>1, NumberedApart
        <5> QED
          BY <1>6, <2>1, <3>3, <5>2
      <4> QED
        BY <1>4, <4>1, <4>3, <4>4
    <3> QED
      BY <1>6, <2>1, <3>1, <3>2, <3>3
  <2>2. \A i \in ObjectIds : got'[i] \in {0, 1}
    BY <1>11, <1>12 DEF FetchInv, ChunkInv
  <2>3. \A i \in ObjectIds : got'[i] = 1 => \E k \in 1 .. next' : i \in Numbered(k)
    BY <1>4, <1>5, <1>12, <1>13
  <2>4. ASSUME ~failed', NEW k \in 1 .. next', NEW i \in Numbered(k)
        PROVE  got'[i] = 1 \/ \E t \in Threads : Fetches(t)' /\ i \in threads'[t].ids
    <3>1. CASE k \in 1 .. next
      <4>1. got[i] = 1 \/ \E t \in Threads : Fetches(t) /\ i \in threads[t].ids
        BY <1>11, <1>12, <2>4, <3>1 DEF FetchInv, ChunkInv
      <4> QED
        BY <1>2, <1>12, <4>1 DEF Fetches
    <3>2. CASE k \notin 1 .. next
      <4>1. k - next \in 1 .. n
        BY <1>3, <1>4, <1>5, <3>2
      <4>2. PICK t \in Threads : f[t] = k - next
        BY <1>1, <4>1, EveryNumber
      <4>3. next + f[t] = k /\ ~(k > Chunks)
        BY <1>4, <1>5, <4>2, ChunkCount
      <4>4. threads'[t] = [pc |-> "begin", ids |-> Numbered(k), stack |-> <<>>, got |-> Nothing]
        BY <1>1, <4>3
      <4>5. threads'[t].ids = Numbered(k) /\ threads'[t].pc # IdleThread.pc
        BY <4>4 DEF IdleThread
      <4> QED
        BY <4>5 DEF Fetches
    <3> QED
      BY <3>1, <3>2
  <2>5. next' \in 0 .. Chunks
    BY <1>5
  <2> QED
    BY <1>2, <2>1, <2>2, <2>3, <2>4, <2>5 DEF ChunkInv
<1>15. HealthyInv'
  <2>1. \A t \in Threads : threads'[t].pc # "failed"
    <3>1. ASSUME NEW t \in Threads PROVE threads'[t].pc # "failed"
      <4>1. CASE Fetches(t)'
        BY <1>6, <4>1
      <4>2. CASE ~Fetches(t)'
        BY <4>2 DEF Fetches, IdleThread
      <4> QED
        BY <4>1, <4>2
    <3> QED
      BY <3>1
  <2>2. Healthy' <=> Healthy
    BY DEF Submit, Sound, Stays, Healthy
  <2> QED
    BY <1>2, <1>9, <1>11, <1>12, <2>1, <2>2 DEF Submit, Stays, FetchInv, HealthyInv
<1>16. target' = target
  BY DEF Submit
<1> QED
  BY <1>2, <1>7, <1>8, <1>9, <1>10, <1>14, <1>15, <1>16
  DEF FetchInv, FetchTypes, PageInv, StepInv, EntryInv

\* What the requests of a step do to the counters.
LEMMA RequestTypes ==
    ASSUME FetchInv, Sound \/ Faulty
    PROVE  faults' \in 0 .. MaxFaults /\ healthy' \in BOOLEAN /\ (healthy' => healthy)
<1>1. faults \in 0 .. MaxFaults /\ healthy \in BOOLEAN
  BY DEF FetchInv, FetchTypes, ControlTypes
<1>2. CASE Sound
  BY <1>1, <1>2 DEF Sound
<1>3. CASE Faulty
  <2>1. faults < MaxFaults /\ faults' = faults + 1 /\ healthy' = FALSE
    BY <1>3 DEF Faulty
  <2>2. faults' \in 0 .. MaxFaults
    BY <1>1, <2>1, Numbers
  <2> QED
    BY <2>1, <2>2
<1> QED
  BY <1>2, <1>3

LEMMA ThreadGoesOn ==
    ASSUME FetchInv, NEW t \in Threads, Fetches(t), NEW th, Becomes(t, th),
           th.pc = "failed" => service.broken # {} \/ ~healthy',
           Sound \/ Faulty, Stays, UNCHANGED threadRest, CacheInv'
    PROVE  FetchInv'
<1>1. pc \in {"fetch", "stopping"} /\ threads[t] \in Fetcher
  BY ThreadTypes
<1>2. /\ pc' = pc /\ sub' = sub /\ next' = next /\ failed' = failed /\ target' = target
      /\ pages' = pages /\ part' = part /\ got' = got /\ UNCHANGED outVars
      /\ service' = service /\ attempt' = attempt /\ cancelled' = cancelled /\ listed' = listed
  BY DEF threadRest, Stays
<1>3. /\ th \in Fetcher /\ th.ids = threads[t].ids /\ ThreadInv(th) /\ th # IdleThread
      /\ threads' = [threads EXCEPT ![t] = th]
  <2>1. th \in Fetcher => th.pc # "idle"
    BY DEF Fetcher
  <2> QED
    BY <2>1 DEF Becomes, IdleThread
<1>4. BufferTypes'
  BY <1>2, <1>3 DEF FetchInv, FetchTypes, BufferTypes
<1>5. \A u \in Threads : threads'[u] = IF u = t THEN th ELSE threads[u]
  BY <1>3 DEF FetchInv, FetchTypes, BufferTypes
<1>6. ControlTypes'
  BY <1>2, RequestTypes DEF FetchInv, FetchTypes, ControlTypes
<1>7. OutTypes' /\ EntryIsWhole' /\ \A s : Got(s)' <=> Got(s)
  BY <1>2, OutSame
<1>8. \A u \in Threads : (Fetches(u)' <=> Fetches(u)) /\ (Fetches(u) => threads'[u].ids = threads[u].ids)
  BY <1>3, <1>5 DEF Fetches
<1>9. ThreadsInv'
  <2>1. ASSUME NEW u \in Threads, Fetches(u)' PROVE ThreadInv(threads'[u])
    BY <1>3, <1>5, <1>8, <2>1 DEF FetchInv, ThreadsInv
  <2> QED
    BY <2>1 DEF ThreadsInv, ThreadInv, StackIsParted
<1>10. ByIds /\ ByIds'
  BY <1>1, <1>2 DEF ByIds
<1>11. ChunkInv'
  <2>1. ChunkInv
    BY DEF FetchInv
  <2>2. ASSUME NEW u \in Threads, Fetches(u)'
        PROVE  /\ pc' \in {"fetch", "stopping"}
               /\ \E k \in 1 .. next' : threads'[u].ids = Numbered(k)
               /\ \A i \in threads'[u].ids : got'[i] = 0
               /\ \A v \in Threads : Fetches(v)' /\ u # v => threads'[u].ids \cap threads'[v].ids = {}
    <3>1. Fetches(u) /\ threads'[u].ids = threads[u].ids
      BY <1>8, <2>2
    <3>2. /\ \E k \in 1 .. next : threads[u].ids = Numbered(k)
          /\ \A i \in threads[u].ids : got[i] = 0
          /\ \A v \in Threads : Fetches(v) /\ u # v => threads[u].ids \cap threads[v].ids = {}
      BY <2>1, <3>1 DEF ChunkInv
    <3> QED
      BY <1>1, <1>2, <1>8, <3>1, <3>2
  <2>3. /\ \A i \in ObjectIds : got[i] \in {0, 1}
        /\ \A i \in ObjectIds : got[i] = 1 => \E k \in 1 .. next : i \in Numbered(k)
        /\ next \in 0 .. Chunks
    BY <1>10, <2>1 DEF ChunkInv
  <2>4. ASSUME ~failed, NEW k \in 1 .. next, NEW i \in Numbered(k)
        PROVE  got[i] = 1 \/ \E u \in Threads : Fetches(u)' /\ i \in threads'[u].ids
    <3>1. got[i] = 1 \/ \E u \in Threads : Fetches(u) /\ i \in threads[u].ids
      BY <1>10, <2>1, <2>4 DEF ChunkInv
    <3> QED
      BY <1>8, <3>1
  <2> QED
    BY <1>2, <2>2, <2>3, <2>4 DEF ChunkInv
<1>12. HealthyInv'
  <2> SUFFICES ASSUME Healthy' PROVE HealthyInv'
    BY DEF HealthyInv
  <2>1. Healthy /\ service.broken = {} /\ healthy'
    BY <1>2, RequestTypes DEF Healthy
  <2>2. /\ ~failed /\ \A u \in Threads : threads[u].pc # "failed"
        /\ \A s \in listed : s < sub => Got(s)
    BY <1>10, <2>1 DEF FetchInv, HealthyInv
  <2>3. \A u \in Threads : threads'[u].pc # "failed"
    BY <1>5, <2>1, <2>2
  <2> QED
    BY <1>1, <1>2, <1>7, <2>2, <2>3 DEF HealthyInv
<1> QED
  BY <1>1, <1>2, <1>4, <1>6, <1>7, <1>9, <1>11, <1>12
  DEF FetchInv, FetchTypes, PageInv, StepInv, EntryInv

LEMMA ThreadInvs ==
    ASSUME FetchInv, NEW t \in Threads,
           StartChunk(t) \/ BatchAnswer(t) \/ RequestFails(t) \/ Joined(t) \/ Store(t)
    PROVE  FetchInv'
<1>1. Fetches(t)
  BY FetchingThread DEF StartChunk, BatchAnswer, RequestFails, Joined, Store
<1>2. Stays /\ UNCHANGED threadRest /\ (Sound \/ Faulty)
  BY DEF StartChunk, BatchAnswer, RequestFails, Joined, Store
<1>3. CASE ~Store(t)
  <2>1. CacheInv'
    BY <1>3, CacheSame DEF StartChunk, BatchAnswer, RequestFails, Joined, Stays
  <2>2. \E th : Becomes(t, th) /\ (th.pc = "failed" => service.broken # {} \/ ~healthy')
    <3>1. CASE StartChunk(t)
      BY <3>1, StartEffect
    <3>2. CASE BatchAnswer(t)
      <4>1. PICK th : Becomes(t, th) /\ th.pc = "fetch"
        BY <3>2, BatchAnswerEffect
      <4>2. th.pc # "failed"
        BY <4>1
      <4> QED
        BY <4>1, <4>2
    <3>3. CASE RequestFails(t)
      BY <3>3, RequestFailsEffect
    <3>4. CASE Joined(t)
      <4>1. PICK th : Becomes(t, th) /\ th.pc = "fetch"
        BY <3>4, JoinedEffect
      <4>2. th.pc # "failed"
        BY <4>1
      <4> QED
        BY <4>1, <4>2
    <3> QED
      BY <1>3, <3>1, <3>2, <3>3, <3>4
  <2> QED
    BY <1>1, <1>2, <2>1, <2>2, ThreadGoesOn
<1>4. CASE Store(t)
  <2>1. PICK th : Becomes(t, th) /\ th.pc # "failed"
    BY <1>4, StoreEffect
  <2>2. CacheInv'
    <3>1. /\ cache' = cache \cup {[key |-> Chunk(threads[t].ids, sub),
                                   features |-> Once(threads[t].ids)]}
          /\ threads[t].ids \in SUBSET ObjectIds /\ service' = service
      BY <1>4, StoreEffect DEF Store, Stays
    <3>2. sub \in FeatureLayers
      BY DEF FetchInv, FetchTypes, ControlTypes
    <3> QED
      BY <3>1, <3>2 DEF FetchInv, CacheInv
  <2> QED
    BY <1>1, <1>2, <2>1, <2>2, ThreadGoesOn
<1> QED
  BY <1>3, <1>4

LEMMA CollectInv ==
    ASSUME FetchInv, NEW t \in Threads, Collect(t)
    PROVE  FetchInv'
<1>1. /\ pc \in {"fetch", "stopping"} /\ threads[t].pc \in {"done", "failed"}
      /\ threads' = [threads EXCEPT ![t] = IdleThread]
      /\ pc' = IF cancelled THEN "stopping" ELSE pc
      /\ IF threads[t].pc = "done" THEN got' = Plus(got, threads[t].got) /\ UNCHANGED failed
                                   ELSE failed' = TRUE /\ UNCHANGED got
  BY DEF Collect, Goes
<1>2. /\ sub' = sub /\ next' = next /\ target' = target /\ UNCHANGED outVars
      /\ pages' = pages /\ part' = part /\ cache' = cache /\ Sound /\ Stays
  BY DEF Collect
<1>3. /\ Fetches(t) /\ threads[t] \in Fetcher /\ threads[t].got \in Features
      /\ threads[t].ids \subseteq ObjectIds /\ ThreadInv(threads[t])
  <2>1. Fetches(t)
    BY <1>1 DEF Fetches, IdleThread
  <2> QED
    BY <2>1, ThreadTypes
<1> DEFINE ids == threads[t].ids
<1>4. ByIds /\ ByIds' /\ pc' \in {"fetch", "stopping"}
  BY <1>1 DEF ByIds
<1>5. ChunkInv /\ got \in Features
  BY DEF FetchInv, FetchTypes, BufferTypes
<1>6. \A i \in ObjectIds : got[i] \in {0, 1} /\ (i \in ids => got[i] = 0)
  BY <1>3, <1>4, <1>5 DEF ChunkInv
<1>7. /\ got' \in Features
      /\ \A i \in ObjectIds : got'[i] = 1 <=> got[i] = 1 \/ (threads[t].pc = "done" /\ i \in ids)
      /\ \A i \in ObjectIds : got'[i] \in {0, 1}
  <2>1. CASE threads[t].pc = "done"
    <3>1. threads[t].got = Once(ids) /\ got' = Plus(got, Once(ids))
      BY <1>1, <1>3, <2>1 DEF ThreadInv
    <3>2. /\ got' \in Features
          /\ \A i \in ObjectIds : got'[i] = got[i] + (IF i \in ids THEN 1 ELSE 0)
      BY <1>5, <3>1, ListTypes
    <3> QED
      BY <1>6, <2>1, <3>2
  <2>2. CASE threads[t].pc = "failed"
    BY <1>1, <1>5, <1>6, <2>2
  <2> QED
    BY <1>1, <2>1, <2>2
<1>8. \A u \in Threads : threads'[u] = IF u = t THEN IdleThread ELSE threads[u]
  BY <1>1 DEF FetchInv, FetchTypes, BufferTypes
<1>9. BufferTypes'
  <2>1. threads' \in [Threads -> Fetcher \cup {IdleThread}]
    BY <1>1 DEF FetchInv, FetchTypes, BufferTypes
  <2>2. failed' \in BOOLEAN
    BY <1>1 DEF FetchInv, FetchTypes, BufferTypes
  <2> QED
    BY <1>2, <1>7, <2>1, <2>2 DEF FetchInv, FetchTypes, BufferTypes
<1>10. ControlTypes'
  BY <1>1, <1>2, <1>4 DEF Sound, Stays, FetchInv, FetchTypes, ControlTypes, ActivePc
<1>11. OutTypes' /\ EntryIsWhole' /\ CacheInv' /\ \A s : Got(s)' <=> Got(s)
  BY <1>2, OutSame, CacheSame DEF Stays
<1>12. \A u \in Threads : Fetches(u)' <=> Fetches(u) /\ u # t
  BY <1>8 DEF Fetches
<1>13. ThreadsInv'
  <2>1. ASSUME NEW u \in Threads, Fetches(u)' PROVE ThreadInv(threads'[u])
    BY <1>8, <1>12, <2>1 DEF FetchInv, ThreadsInv
  <2> QED
    BY <2>1 DEF ThreadsInv, ThreadInv, StackIsParted
<1>14. ChunkInv'
  <2>1. ASSUME NEW u \in Threads, Fetches(u)'
        PROVE  /\ \E k \in 1 .. next' : threads'[u].ids = Numbered(k)
               /\ \A i \in threads'[u].ids : got'[i] = 0
               /\ \A v \in Threads : Fetches(v)' /\ u # v => threads'[u].ids \cap threads'[v].ids = {}
    <3>1. Fetches(u) /\ u # t /\ threads'[u] = threads[u]
      BY <1>8, <1>12, <2>1
    <3>2. /\ \E k \in 1 .. next : threads[u].ids = Numbered(k)
          /\ \A i \in threads[u].ids : got[i] = 0
          /\ \A v \in Threads : Fetches(v) /\ u # v => threads[u].ids \cap threads[v].ids = {}
      BY <1>5, <3>1 DEF ChunkInv
    <3>3. threads[u].ids \subseteq ObjectIds
      BY <3>1, ThreadTypes
    <3>4. \A i \in threads[u].ids : got'[i] = 0
      <4>1. ASSUME NEW i \in threads[u].ids PROVE got'[i] = 0
        <5>1. i \in ObjectIds /\ i \notin ids /\ got[i] = 0
          BY <1>3, <3>1, <3>2, <3>3
        <5> QED
          BY <1>7, <5>1
      <4> QED
        BY <4>1
    <3> QED
      BY <1>2, <1>8, <1>12, <3>1, <3>2, <3>4
  <2>2. ASSUME NEW i \in ObjectIds, got'[i] = 1 PROVE \E k \in 1 .. next' : i \in Numbered(k)
    BY <1>2, <1>3, <1>4, <1>5, <1>7, <2>2 DEF ChunkInv
  <2>3. ASSUME ~failed', NEW k \in 1 .. next', NEW i \in Numbered(k)
        PROVE  got'[i] = 1 \/ \E u \in Threads : Fetches(u)' /\ i \in threads'[u].ids
    <3>1. ~failed /\ threads[t].pc = "done"
      BY <1>1, <2>3
    <3>2. got[i] = 1 \/ \E u \in Threads : Fetches(u) /\ i \in threads[u].ids
      BY <1>2, <1>4, <1>5, <2>3, <3>1 DEF ChunkInv
    <3>3. i \in ObjectIds
      <4>1. next \in 0 .. NumFeatures
        BY DEF FetchInv, FetchTypes, BufferTypes
      <4>2. k \in Nat /\ k > 0
        BY <1>2, <4>1, Numbers
      <4> QED
        BY <4>2, NumberedIds
    <3> QED
      BY <1>7, <1>8, <1>12, <3>1, <3>2, <3>3
  <2>4. next' \in 0 .. Chunks
    BY <1>2, <1>4, <1>5 DEF ChunkInv
  <2> QED
    BY <1>4, <1>7, <2>1, <2>2, <2>3, <2>4 DEF ChunkInv
<1>15. HealthyInv'
  <2> SUFFICES ASSUME Healthy' PROVE HealthyInv'
    BY DEF HealthyInv
  <2>1. Healthy
    BY <1>2 DEF Healthy, Sound, Stays
  <2>2. /\ ~failed /\ \A u \in Threads : threads[u].pc # "failed"
        /\ \A s \in listed : s < sub => Got(s)
    BY <1>4, <2>1 DEF FetchInv, HealthyInv
  <2>3. \A u \in Threads : threads'[u].pc # "failed"
    BY <1>8, <2>2 DEF IdleThread
  <2>4. ~failed'
    BY <1>1, <2>2
  <2> QED
    BY <1>2, <1>4, <1>11, <2>2, <2>3, <2>4 DEF HealthyInv, Stays
<1>16. StepInv'
  BY <1>1, <1>2, <1>4 DEF FetchInv, StepInv
<1> QED
  BY <1>4, <1>9, <1>10, <1>11, <1>13, <1>14, <1>15, <1>16
  DEF FetchInv, FetchTypes, PageInv, EntryInv

LEMMA StopIdsInv ==
    ASSUME FetchInv, StopIds PROVE FetchInv'
<1>1. /\ pc' = "cancelled" /\ Sound /\ Stays
      /\ \A t \in Threads : threads[t] = IdleThread
      /\ UNCHANGED <<sub, fetchVars, cache, outVars>>
  BY DEF StopIds, Goes
<1>2. ControlTypes'
  BY <1>1 DEF Sound, Stays, FetchInv, FetchTypes, ControlTypes, EndPc
<1>3. BufferTypes' /\ OutTypes' /\ CacheInv' /\ EntryIsWhole'
  BY <1>1, BuffersSame, OutSame, CacheSame DEF Stays
<1>4. ThreadsInv' /\ ChunkInv'
  BY <1>1, QuietInv DEF ByIds, fetchVars
<1> QED
  BY <1>1, <1>2, <1>3, <1>4
  DEF FetchInv, FetchTypes, PageInv, StepInv, EntryInv, HealthyInv, ByIds

\* Without a failed chunk everything is collected in the end.
LEMMA EndIdsInv ==
    ASSUME FetchInv, EndIds PROVE FetchInv'
<1>1. /\ pc = "fetch" /\ next = Chunks /\ Sound /\ Stays
      /\ \A t \in Threads : threads[t] = IdleThread
      /\ pc' = IF failed \/ Size(got) < target THEN "count" ELSE "export"
      /\ UNCHANGED <<sub, fetchVars, cache, outVars>>
  BY DEF EndIds, Goes
<1>2. ControlTypes'
  BY <1>1 DEF Sound, Stays, FetchInv, FetchTypes, ControlTypes, ActivePc
<1>3. BufferTypes' /\ OutTypes' /\ CacheInv' /\ EntryIsWhole' /\ \A s : Got(s)' <=> Got(s)
  BY <1>1, BuffersSame, OutSame, CacheSame DEF Stays
<1>4. ThreadsInv' /\ ChunkInv'
  BY <1>1, QuietInv DEF ByIds, fetchVars
<1>5. ByIds /\ target = NumFeatures
  BY <1>1 DEF ByIds, FetchInv, StepInv
<1>6. got \in Features /\ \A i \in ObjectIds : got[i] \in {0, 1}
  BY <1>5 DEF FetchInv, FetchTypes, BufferTypes, ChunkInv
<1>7. Size(got) \in Nat /\ (Size(got) >= NumFeatures <=> IsWhole(got))
  BY <1>6, SizeFacts
<1>8. pc' = "export" => IsWhole(got)
  BY <1>1, <1>5, <1>7, Numbers
<1>9. ~failed => IsWhole(got)
  <2> SUFFICES ASSUME ~failed, NEW i \in ObjectIds PROVE got[i] = 1
    BY DEF IsWhole
  <2>1. PICK k \in 1 .. next : i \in Numbered(k)
    BY <1>1, NumberedCovers
  <2>2. \A t \in Threads : ~Fetches(t)
    BY <1>1 DEF Fetches
  <2> QED
    BY <1>5, <2>1, <2>2 DEF FetchInv, ChunkInv
<1>10. HealthyInv'
  <2> SUFFICES ASSUME Healthy' PROVE HealthyInv'
    BY DEF HealthyInv
  <2>1. Healthy
    BY <1>1 DEF Healthy, Sound, Stays
  <2>2. ~failed /\ \A s \in listed : s < sub => Got(s)
    BY <1>5, <2>1 DEF FetchInv, HealthyInv
  <2>3. pc' = "export" /\ IsWhole(got)
    BY <1>1, <1>5, <1>7, <1>9, <2>2, Numbers
  <2>4. IsWhole(got)'
    BY <1>1, <2>3 DEF fetchVars, IsWhole
  <2> QED
    BY <1>1, <1>3, <2>2, <2>3, <2>4 DEF HealthyInv, ByIds, Stays
<1>11. EntryInv'
  <2>1. pc' = "export" => IsWhole(got)'
    BY <1>1, <1>8 DEF fetchVars, IsWhole
  <2> QED
    BY <1>3, <2>1 DEF EntryInv
<1> QED
  BY <1>1, <1>2, <1>3, <1>4, <1>10, <1>11
  DEF FetchInv, FetchTypes, PageInv, StepInv

-----------------------------------------------------------------------------
(* The pages.                                                               *)

\* A service that is read by pages is not one that is downloaded whole for sure.
LEMMA UnhealthyStep ==
    ASSUME FetchInv, pc \in {"count", "page"}, Sound \/ Faulty, Stays
    PROVE  HealthyInv'
<1>1. ~Healthy
  BY DEF FetchInv, HealthyInv
<1>2. Healthy' => Healthy
  BY RequestTypes DEF Healthy, Stays
<1> QED
  BY <1>1, <1>2 DEF HealthyInv

PageSeq == Seq((0 .. NumFeatures + PageSize) \X (1 .. PageSize))

LEMMA CountInv ==
    ASSUME FetchInv, Count PROVE FetchInv'
<1>1. /\ pc = "count" /\ pc' = "page" /\ Stays /\ (Sound \/ Faulty)
      /\ next' = 0 /\ failed' = FALSE /\ got' = Nothing
      /\ pages' = <<<<0, PageSize>>>> /\ part' = Nothing
      /\ UNCHANGED <<sub, threads, cache, outVars>>
  BY DEF Count, Goes, AfreshWith
<1>2. target' \in {0, NumFeatures}
  BY DEF Count
<1>3. ControlTypes'
  BY <1>1, RequestTypes DEF Stays, FetchInv, FetchTypes, ControlTypes, ActivePc
<1>4. BufferTypes'
  <2>1. <<0, PageSize>> \in (0 .. NumFeatures + PageSize) \X (1 .. PageSize)
    BY Numbers
  <2>2. pages' \in PageSeq
    BY <1>1, <2>1 DEF PageSeq
  <2>3. next' \in 0 .. NumFeatures
    BY <1>1, Numbers
  <2> QED
    BY <1>1, <1>2, <2>2, <2>3, ListTypes DEF FetchInv, FetchTypes, BufferTypes, PageSeq
<1>5. OutTypes' /\ CacheInv' /\ EntryIsWhole'
  BY <1>1, OutSame, CacheSame DEF Stays
<1>6. ThreadsInv' /\ ChunkInv'
  BY <1>1, QuietThreads, QuietInv DEF ByIds
<1>7. PageInv'
  <2>1. \A i \in ObjectIds : got'[i] = 0 /\ part'[i] = 0
    BY <1>1, ListTypes
  <2>2. Len(pages') = 1 /\ pages'[1][1] = 0 /\ pages'[1][2] = PageSize
    BY <1>1
  <2>3. \A i \in RowsOf(pages'[1]) : i \in ObjectIds
    BY DEF RowsOf
  <2>4. 1 .. Len(pages') = {1} /\ 0 + PageSize <= next' + PageSize
    BY <1>1, <2>2, Numbers
  <2>5. ASSUME NEW k \in 1 .. Len(pages')
        PROVE  /\ next' <= pages'[k][1] /\ pages'[k][1] + pages'[k][2] <= next' + PageSize
               /\ \A i \in RowsOf(pages'[k]) : part'[i] = 0
               /\ \A j \in 1 .. Len(pages') :
                     RowsOf(pages'[j]) \cap RowsOf(pages'[k]) # {} => j = k
    <3>1. k = 1
      BY <2>4
    <3> QED
      BY <1>1, <2>1, <2>2, <2>3, <2>4, <3>1
  <2>6. \A i \in ObjectIds :
              /\ got'[i] \in {0, 1}
              /\ got'[i] = 1 => i <= next'
              /\ part'[i] \in {0, 1}
              /\ part'[i] = 1 => next' < i /\ i <= next' + PageSize
    BY <2>1
  <2> QED
    BY <2>5, <2>6 DEF PageInv, RowsOf
<1>8. HealthyInv'
  BY <1>1, UnhealthyStep
<1> QED
  BY <1>1, <1>3, <1>4, <1>5, <1>6, <1>7, <1>8
  DEF FetchInv, FetchTypes, StepInv, EntryInv

\* The page that is asked for, and those that remain.
LEMMA AskedPage ==
    ASSUME FetchInv, pages # <<>>
    PROVE  /\ Len(pages) \in Nat /\ Len(pages) > 0
           /\ Asked = pages[Len(pages)]
           /\ Asked \in (0 .. NumFeatures + PageSize) \X (1 .. PageSize)
           /\ Asked[1] \in Nat /\ Asked[2] \in Nat /\ Asked[2] > 0 /\ Asked[2] <= PageSize
           /\ Kept \in PageSeq /\ Len(Kept) = Len(pages) - 1
           /\ \A k \in 1 .. Len(pages) - 1 : Kept[k] = pages[k]
<1>1. pages \in PageSeq
  BY DEF FetchInv, FetchTypes, BufferTypes, PageSeq
<1>2. Len(pages) \in Nat /\ Len(pages) > 0
  BY <1>1 DEF PageSeq
<1>3. Asked \in (0 .. NumFeatures + PageSize) \X (1 .. PageSize)
  BY <1>1, <1>2 DEF PageSeq, Asked
<1>4. /\ Kept \in PageSeq /\ Len(Kept) = Len(pages) - 1
      /\ \A k \in 1 .. Len(pages) - 1 : Kept[k] = pages[k]
  <2> DEFINE S == (0 .. NumFeatures + PageSize) \X (1 .. PageSize)
             m == Len(pages) - 1
  <2>1. pages \in Seq(S) /\ m \in 0 .. Len(pages)
    BY <1>1, <1>2 DEF PageSeq
  <2> HIDE DEF S, m
  <2>2. /\ SubSeq(pages, 1, m) \in Seq(S) /\ Len(SubSeq(pages, 1, m)) = m
        /\ \A k \in 1 .. m : SubSeq(pages, 1, m)[k] = pages[k]
    BY <2>1
  <2> QED
    BY <2>2 DEF PageSeq, Kept, S, m
<1> QED
  BY <1>2, <1>3, <1>4, Numbers DEF Asked

LEMMA RowsAreSpan ==
    ASSUME NEW o \in Nat, NEW n \in Nat
    PROVE  /\ Span(o, n) = RowsOf(<<o, n>>)
           /\ \A m \in Nat : Span(o, Smaller(n, m)) \subseteq RowsOf(<<o, n>>)
           /\ \A m \in Nat : m > 0 => Smaller(n, m) \in Nat
<1>1. Span(o, n) = RowsOf(<<o, n>>)
  BY Numbers DEF Span, Smaller, RowsOf, ObjectIds
<1>2. \A m \in Nat : Span(o, Smaller(n, m)) \subseteq RowsOf(<<o, n>>)
  BY Numbers DEF Span, Smaller, RowsOf, ObjectIds
<1> QED
  BY <1>1, <1>2 DEF Smaller

\* What the service, or the cache, answers to a page.
LEMMA PageRowsOnce ==
    ASSUME FetchInv, PageAnswer
    PROVE  /\ part' = Plus(part, Once(PageRows)) /\ PageRows \subseteq RowsOf(Asked)
           /\ CacheInv'
<1>1. pages # <<>> /\ Stays
  BY DEF PageAnswer
<1>2. /\ Asked[1] \in Nat /\ Asked[2] \in Nat
      /\ Asked \in (0 .. NumFeatures + PageSize) \X (1 .. PageSize)
  BY <1>1, AskedPage
<1>3. service.limit \in Nat /\ service.limit > 0 /\ sub \in FeatureLayers /\ service' = service
  BY <1>1, Numbers DEF FetchInv, FetchTypes, ControlTypes, Service, Stays
<1>4. PageRows \subseteq RowsOf(Asked)
  <2>1. Asked = <<Asked[1], Asked[2]>>
    BY <1>2
  <2> QED
    BY <1>2, <1>3, <2>1, RowsAreSpan DEF PageRows
<1> DEFINE c == Cached(PageKey(Asked[1], Asked[2], sub))
<1>5. CASE c # {}
  <2> DEFINE x == CHOOSE x \in c : TRUE
  <2>1. x \in cache /\ x.key = PageKey(Asked[1], Asked[2], sub)
    BY <1>5 DEF Cached
  <2>2. part' = Plus(part, x.features) /\ cache' = cache
    BY <1>5 DEF PageAnswer
  <2> HIDE DEF x
  <2>3. x.features = Once(PageRows)
    <3>1. CASE \E ids2 \in SUBSET ObjectIds, s \in FeatureLayers :
                  x = [key |-> Chunk(ids2, s), features |-> Once(ids2)]
      BY <2>1, <3>1, KeysTell
    <3>2. CASE \E o, n \in Nat, s \in FeatureLayers :
                  x = [key |-> PageKey(o, n, s),
                       features |-> Once(Span(o, Smaller(n, service.limit)))]
      <4>1. PICK o \in Nat, n \in Nat, s \in FeatureLayers :
                  x = [key |-> PageKey(o, n, s),
                       features |-> Once(Span(o, Smaller(n, service.limit)))]
        BY <3>2
      <4>2. PageKey(o, n, s) = PageKey(Asked[1], Asked[2], sub)
        BY <2>1, <4>1
      <4>3. o = Asked[1] /\ n = Asked[2]
        BY <4>2, KeysTell
      <4> QED
        BY <4>1, <4>3 DEF PageRows
    <3> QED
      BY <2>1, <3>1, <3>2 DEF FetchInv, CacheInv
  <2>4. CacheInv'
    BY <1>3, <2>2, CacheSame
  <2> QED
    BY <1>4, <2>2, <2>3, <2>4
<1>6. CASE c = {}
  <2>1. /\ part' = Plus(part, Once(PageRows))
        /\ cache' = cache \cup {[key |-> PageKey(Asked[1], Asked[2], sub),
                                 features |-> Once(PageRows)]}
    BY <1>6 DEF PageAnswer
  <2>2. CacheInv'
    BY <1>2, <1>3, <2>1 DEF FetchInv, CacheInv, PageRows
  <2> QED
    BY <1>4, <2>1, <2>2
<1> QED
  BY <1>5, <1>6

LEMMA PageAnswerInv ==
    ASSUME FetchInv, PageAnswer PROVE FetchInv'
<1>1. /\ pc = "page" /\ pages # <<>> /\ pages' = Kept /\ Sound /\ Stays
      /\ pc' = pc /\ sub' = sub /\ next' = next /\ threads' = threads /\ failed' = failed
      /\ target' = target /\ got' = got /\ UNCHANGED outVars
  BY DEF PageAnswer, pageRest
<1>2. /\ part' = Plus(part, Once(PageRows)) /\ PageRows \subseteq RowsOf(Asked) /\ CacheInv'
  BY PageRowsOnce
<1>3. /\ Len(pages) \in Nat /\ Len(pages) > 0 /\ Asked = pages[Len(pages)]
      /\ Kept \in PageSeq /\ Len(Kept) = Len(pages) - 1
      /\ \A k \in 1 .. Len(pages) - 1 : Kept[k] = pages[k]
  BY <1>1, AskedPage
<1>4. part \in Features
  BY DEF FetchInv, FetchTypes, BufferTypes
<1>5. /\ part' \in Features
      /\ \A i \in ObjectIds : part'[i] = part[i] + (IF i \in PageRows THEN 1 ELSE 0)
  BY <1>2, <1>4, ListTypes
<1>6. ControlTypes' /\ BufferTypes'
  BY <1>1, <1>3, <1>5 DEF Sound, Stays, FetchInv, FetchTypes, ControlTypes, BufferTypes, PageSeq
<1>7. OutTypes' /\ EntryIsWhole'
  BY <1>1, OutSame
<1>8. ThreadsInv' /\ ChunkInv'
  BY <1>1, QuietThreads, QuietInv DEF ByIds
<1>9. /\ \A i \in ObjectIds :
            /\ got[i] \in {0, 1}
            /\ got[i] = 1 => i <= next
            /\ part[i] \in {0, 1}
            /\ part[i] = 1 => next < i /\ i <= next + PageSize
      /\ \A k \in 1 .. Len(pages) :
            /\ next <= pages[k][1] /\ pages[k][1] + pages[k][2] <= next + PageSize
            /\ \A i \in RowsOf(pages[k]) : part[i] = 0
            /\ \A j \in 1 .. Len(pages) :
                  RowsOf(pages[j]) \cap RowsOf(pages[k]) # {} => j = k
  BY <1>1 DEF FetchInv, PageInv
<1>10. Len(pages) \in 1 .. Len(pages)
  BY <1>3
<1>11. next \in Nat /\ Asked[1] \in Nat /\ Asked[2] \in Nat
  BY <1>1, AskedPage, Numbers DEF FetchInv, FetchTypes, BufferTypes
<1>12. ASSUME NEW i \in RowsOf(Asked)
       PROVE  i \in ObjectIds /\ part[i] = 0 /\ next < i /\ i <= next + PageSize
  <2>1. i \in ObjectIds /\ i \in Nat /\ Asked[1] < i /\ i <= Asked[1] + Asked[2]
    BY <1>12, Numbers DEF RowsOf
  <2>2. next <= Asked[1] /\ Asked[1] + Asked[2] <= next + PageSize /\ part[i] = 0
    BY <1>3, <1>9, <1>10, <1>12
  <2> QED
    BY <1>11, <2>1, <2>2, Numbers
<1>13. PageInv'
  <2>1. ASSUME NEW i \in ObjectIds
        PROVE  /\ part'[i] \in {0, 1}
               /\ part'[i] = 1 => next < i /\ i <= next + PageSize
    <3>1. CASE i \in PageRows
      BY <1>2, <1>5, <1>12, <3>1
    <3>2. CASE i \notin PageRows
      BY <1>4, <1>5, <1>9, <3>2
    <3> QED
      BY <3>1, <3>2
  <2>2. ASSUME NEW k \in 1 .. Len(Kept)
        PROVE  /\ Kept[k] = pages[k] /\ k \in 1 .. Len(pages)
               /\ \A i \in RowsOf(pages[k]) : part'[i] = 0
    <3>1. Kept[k] = pages[k] /\ k \in 1 .. Len(pages) /\ k # Len(pages)
      BY <1>3
    <3>2. RowsOf(pages[k]) \cap RowsOf(Asked) = {}
      BY <1>3, <1>9, <1>10, <3>1
    <3>3. ASSUME NEW i \in RowsOf(pages[k]) PROVE part'[i] = 0
      <4>1. i \in ObjectIds /\ i \notin PageRows /\ part[i] = 0
        BY <1>2, <1>9, <3>1, <3>2, <3>3 DEF RowsOf
      <4> QED
        BY <1>5, <4>1
    <3> QED
      BY <3>1, <3>3
  <2>3. \A k \in 1 .. Len(pages') :
            /\ next' <= pages'[k][1] /\ pages'[k][1] + pages'[k][2] <= next' + PageSize
            /\ \A i \in RowsOf(pages'[k]) : part'[i] = 0
            /\ \A j \in 1 .. Len(pages') :
                  RowsOf(pages'[j]) \cap RowsOf(pages'[k]) # {} => j = k
    BY <1>1, <1>9, <2>2
  <2> QED
    BY <1>1, <1>9, <2>1, <2>3 DEF PageInv, RowsOf
<1>14. HealthyInv'
  BY <1>1, UnhealthyStep
<1> QED
  BY <1>1, <1>2, <1>6, <1>7, <1>8, <1>13, <1>14
  DEF FetchInv, FetchTypes, StepInv, EntryInv

LEMMA Halves ==
    ASSUME NEW n \in Nat, n > 1
    PROVE  n \div 2 \in Nat /\ n \div 2 > 0 /\ n \div 2 < n
OBVIOUS

\* The entry of a sublayer that failed.
LEMMA ErrorEntry ==
    ASSUME FetchInv, Records("error", Nothing), files' = files, manifest' = manifest
    PROVE  OutTypes' /\ EntryIsWhole'
<1>1. /\ Entry("error", Nothing) \in [kind : EntryKind, features : Features, counted : BOOLEAN]
      /\ Entry("error", Nothing).kind = "error"
  BY ListTypes, EntryType DEF EntryKind
<1>2. entries' = [entries EXCEPT ![sub] = Entry("error", Nothing)]
  BY DEF Records
<1>3. OutTypes'
  BY <1>1, <1>2 DEF FetchInv, FetchTypes, OutTypes
<1>4. \A s \in FeatureLayers :
         entries'[s] = IF s = sub THEN Entry("error", Nothing) ELSE entries[s]
  BY <1>2 DEF FetchInv, FetchTypes, OutTypes
<1> QED
  BY <1>1, <1>3, <1>4 DEF FetchInv, EntryInv, EntryIsWhole, HasFeatures

LEMMA PageFailsInv ==
    ASSUME FetchInv, PageFails PROVE FetchInv'
<1> DEFINE left == Asked[2] \div 2
           p == <<Asked[1] + left, Asked[2] - left>>
           q == <<Asked[1], left>>
<1>1. /\ pc = "page" /\ pages # <<>> /\ (Sound \/ Faulty) /\ Stays
      /\ pages' = IF Asked[2] > 1 THEN Kept \o <<p, q>> ELSE <<>>
      /\ IF Asked[2] > 1 THEN UNCHANGED <<pc, entries>>
         ELSE pc' = "next" /\ Records("error", Nothing)
      /\ UNCHANGED <<sub, next, threads, failed, target, part, got, cache, files, manifest>>
  BY DEF PageFails, Goes
<1>2. /\ Len(pages) \in Nat /\ Len(pages) > 0 /\ Asked = pages[Len(pages)]
      /\ Asked[1] \in Nat /\ Asked[2] \in Nat /\ Asked[2] <= PageSize
      /\ Asked \in (0 .. NumFeatures + PageSize) \X (1 .. PageSize)
      /\ Kept \in PageSeq /\ Len(Kept) = Len(pages) - 1
      /\ \A k \in 1 .. Len(pages) - 1 : Kept[k] = pages[k]
  BY <1>1, AskedPage
<1>3. CacheInv' /\ HealthyInv'
  BY <1>1, CacheSame, UnhealthyStep DEF Stays
<1>4. OutTypes' /\ EntryIsWhole'
  BY <1>1, ErrorEntry, OutSame DEF outVars
<1>5. ControlTypes'
  BY <1>1, RequestTypes DEF Stays, FetchInv, FetchTypes, ControlTypes, ActivePc
<1>6. ThreadsInv' /\ ChunkInv'
  BY <1>1, QuietThreads, QuietInv DEF ByIds
<1>7. CASE Asked[2] > 1
  <2>1. left \in Nat /\ left > 0 /\ left < Asked[2]
    BY <1>2, <1>7, Halves
  <2>2. /\ next \in 0 .. NumFeatures /\ next \in Nat
        /\ next <= Asked[1] /\ Asked[1] + Asked[2] <= next + PageSize
    <3>1. Len(pages) \in 1 .. Len(pages)
      BY <1>2
    <3> QED
      BY <1>1, <1>2, <3>1, Numbers DEF FetchInv, PageInv, FetchTypes, BufferTypes
  <2> HIDE DEF left
  <2>3. /\ p \in (0 .. NumFeatures + PageSize) \X (1 .. PageSize)
        /\ q \in (0 .. NumFeatures + PageSize) \X (1 .. PageSize)
    <3>1. /\ Asked[1] + left \in 0 .. NumFeatures + PageSize /\ Asked[2] - left \in 1 .. PageSize
          /\ Asked[1] \in 0 .. NumFeatures + PageSize /\ left \in 1 .. PageSize
      BY <1>2, <2>1, <2>2, Numbers
    <3> QED
      BY <3>1
  <2>4. /\ RowsOf(p) \subseteq RowsOf(Asked) /\ RowsOf(q) \subseteq RowsOf(Asked)
        /\ RowsOf(p) \cap RowsOf(q) = {}
    <3>1. /\ p[1] = Asked[1] + left /\ p[2] = Asked[2] - left
          /\ q[1] = Asked[1] /\ q[2] = left
      OBVIOUS
    <3>2. p[1] + p[2] = Asked[1] + Asked[2]
      BY <1>2, <2>1, <3>1
    <3> HIDE DEF p, q
    <3>3. ASSUME NEW i \in RowsOf(p)
          PROVE  i \in RowsOf(Asked) /\ i \notin RowsOf(q)
      <4>1. i \in ObjectIds /\ i \in Nat /\ p[1] < i /\ i <= p[1] + p[2]
        BY <3>3, Numbers DEF RowsOf
      <4>2. Asked[1] < i /\ i <= Asked[1] + Asked[2] /\ ~(i <= q[1] + q[2])
        BY <1>2, <2>1, <3>1, <3>2, <4>1
      <4> QED
        BY <4>1, <4>2 DEF RowsOf
    <3>4. ASSUME NEW i \in RowsOf(q)
          PROVE  i \in RowsOf(Asked)
      <4>1. i \in ObjectIds /\ i \in Nat /\ q[1] < i /\ i <= q[1] + q[2]
        BY <3>4, Numbers DEF RowsOf
      <4>2. Asked[1] < i /\ i <= Asked[1] + Asked[2]
        BY <1>2, <2>1, <3>1, <4>1
      <4> QED
        BY <4>1, <4>2 DEF RowsOf
    <3> QED
      BY <3>3, <3>4
  <2>5. /\ next <= p[1] /\ p[1] + p[2] <= next + PageSize
        /\ next <= q[1] /\ q[1] + q[2] <= next + PageSize
    BY <1>2, <2>1, <2>2, Numbers
  <2> HIDE DEF p, q
  <2> DEFINE m == Len(pages) - 1
             S == (0 .. NumFeatures + PageSize) \X (1 .. PageSize)
  <2>6. /\ pages' \in PageSeq /\ Len(pages') = m + 2 /\ m \in Nat
        /\ \A k \in 1 .. m : pages'[k] = pages[k]
        /\ pages'[m + 1] = p /\ pages'[m + 2] = q
    <3>1. /\ <<p, q>> \in Seq(S) /\ Len(<<p, q>>) = 2 /\ <<p, q>>[1] = p /\ <<p, q>>[2] = q
      BY <2>3
    <3>2. Kept \in Seq(S) /\ pages' = Kept \o <<p, q>> /\ m \in Nat /\ Len(Kept) = m
      BY <1>1, <1>2, <1>7 DEF PageSeq
    <3>3. \A k \in 1 .. m : Kept[k] = pages[k]
      BY <1>2
    <3> DEFINE r == <<p, q>>
    <3>4. r \in Seq(S) /\ Len(r) = 2 /\ r[1] = p /\ r[2] = q /\ pages' = Kept \o r
      BY <3>1, <3>2
    <3> HIDE DEF S, m, r
    <3>5. pages' \in Seq(S) /\ Len(pages') = m + 2
      BY <3>2, <3>4
    <3>6. \A k \in 1 .. m : pages'[k] = Kept[k]
      BY <3>2, <3>4
    <3>7. pages'[m + 1] = r[1] /\ pages'[m + 2] = r[2]
      BY <3>2, <3>4
    <3> QED
      BY <3>2, <3>3, <3>4, <3>5, <3>6, <3>7 DEF PageSeq, S
  <2>7. BufferTypes'
    BY <1>1, <2>6 DEF FetchInv, FetchTypes, BufferTypes, PageSeq
  <2>8. /\ \A i \in ObjectIds :
              /\ got[i] \in {0, 1}
              /\ got[i] = 1 => i <= next
              /\ part[i] \in {0, 1}
              /\ part[i] = 1 => next < i /\ i <= next + PageSize
        /\ \A k \in 1 .. Len(pages) :
              /\ next <= pages[k][1] /\ pages[k][1] + pages[k][2] <= next + PageSize
              /\ \A i \in RowsOf(pages[k]) : part[i] = 0
              /\ \A j \in 1 .. Len(pages) :
                    RowsOf(pages[j]) \cap RowsOf(pages[k]) # {} => j = k
    BY <1>1 DEF FetchInv, PageInv
  <2>9. Len(pages) = m + 1 /\ m + 1 \in 1 .. Len(pages) /\ pages[m + 1] = Asked
    BY <1>2
  <2> HIDE DEF m
  \* Where the rows of each page of the new stack come from.
  <2>10. ASSUME NEW k \in 1 .. m + 2
         PROVE  /\ next <= pages'[k][1] /\ pages'[k][1] + pages'[k][2] <= next + PageSize
                /\ \A i \in RowsOf(pages'[k]) : part[i] = 0
                /\ k \in 1 .. m => k \in 1 .. m + 1 /\ pages'[k] = pages[k]
                /\ k \notin 1 .. m => RowsOf(pages'[k]) \subseteq RowsOf(pages[m + 1])
    <3>1. CASE k \in 1 .. m
      <4>1. k \in 1 .. Len(pages) /\ pages'[k] = pages[k]
        BY <2>6, <2>9, <3>1
      <4> QED
        BY <2>8, <2>9, <3>1, <4>1
    <3>2. CASE k = m + 1
      BY <2>4, <2>5, <2>6, <2>8, <2>9, <3>2
    <3>3. CASE k = m + 2
      BY <2>4, <2>5, <2>6, <2>8, <2>9, <3>3
    <3> QED
      BY <2>6, <3>1, <3>2, <3>3
  <2>11. ASSUME NEW j \in 1 .. m + 2, NEW k \in 1 .. m + 2,
                RowsOf(pages'[j]) \cap RowsOf(pages'[k]) # {}
         PROVE  j = k
    <3>1. CASE j \in 1 .. m /\ k \in 1 .. m
      <4>1. pages'[j] = pages[j] /\ pages'[k] = pages[k]
            /\ j \in 1 .. Len(pages) /\ k \in 1 .. Len(pages)
        BY <2>9, <2>10, <3>1
      <4> QED
        BY <2>8, <2>11, <4>1
    <3>2. CASE j \in 1 .. m /\ k \notin 1 .. m
      <4>1. pages'[j] = pages[j] /\ j \in 1 .. Len(pages) /\ j # m + 1
            /\ RowsOf(pages'[k]) \subseteq RowsOf(pages[m + 1])
        BY <2>6, <2>9, <2>10, <3>2
      <4>2. RowsOf(pages[j]) \cap RowsOf(pages[m + 1]) # {}
        BY <2>11, <4>1
      <4> QED
        BY <2>8, <2>9, <4>1, <4>2
    <3>3. CASE j \notin 1 .. m /\ k \in 1 .. m
      <4>1. pages'[k] = pages[k] /\ k \in 1 .. Len(pages) /\ k # m + 1
            /\ RowsOf(pages'[j]) \subseteq RowsOf(pages[m + 1])
        BY <2>6, <2>9, <2>10, <3>3
      <4>2. RowsOf(pages[m + 1]) \cap RowsOf(pages[k]) # {}
        BY <2>11, <4>1
      <4> QED
        BY <2>8, <2>9, <4>1, <4>2
    <3>4. CASE j \notin 1 .. m /\ k \notin 1 .. m
      <4>1. j \in {m + 1, m + 2} /\ k \in {m + 1, m + 2}
        BY <2>6, <3>4
      <4> QED
        BY <2>4, <2>6, <2>11, <4>1
    <3> QED
      BY <3>1, <3>2, <3>3, <3>4
  <2>12. PageInv'
    <3>1. ASSUME NEW k \in 1 .. Len(pages')
          PROVE
              /\ next' <= pages'[k][1] /\ pages'[k][1] + pages'[k][2] <= next' + PageSize
              /\ \A i \in RowsOf(pages'[k]) : part'[i] = 0
              /\ \A j \in 1 .. Len(pages') :
                    RowsOf(pages'[j]) \cap RowsOf(pages'[k]) # {} => j = k
      <4>1. 1 .. Len(pages') = 1 .. m + 2 /\ k \in 1 .. m + 2
        BY <2>6, <3>1
      <4>2. next' = next /\ part' = part
        BY <1>1
      <4>3. /\ next <= pages'[k][1] /\ pages'[k][1] + pages'[k][2] <= next + PageSize
            /\ \A i \in RowsOf(pages'[k]) : part[i] = 0
        BY <2>10, <4>1
      <4>4. \A j \in 1 .. m + 2 :
                RowsOf(pages'[j]) \cap RowsOf(pages'[k]) # {} => j = k
        BY <2>11, <4>1
      <4> QED
        BY <4>1, <4>2, <4>3, <4>4
    <3> QED
      BY <1>1, <2>8, <3>1 DEF PageInv, RowsOf
  <2> QED
    BY <1>1, <1>3, <1>4, <1>5, <1>6, <1>7, <2>7, <2>12
    DEF FetchInv, FetchTypes, StepInv, EntryInv
<1>8. CASE ~(Asked[2] > 1)
  <2>1. BufferTypes'
    <3>1. pages' \in PageSeq
      BY <1>1, <1>8 DEF PageSeq
    <3> QED
      BY <1>1, <3>1 DEF FetchInv, FetchTypes, BufferTypes, PageSeq
  <2> QED
    BY <1>1, <1>3, <1>4, <1>5, <1>6, <1>8, <2>1
    DEF FetchInv, FetchTypes, PageInv, StepInv, EntryInv
<1> QED
  BY <1>7, <1>8

\* A page that is full has all its rows: the next one begins among the features.
LEMMA FullPage ==
    ASSUME NEW f \in Features, NEW o \in 0 .. NumFeatures,
           \A i \in ObjectIds : f[i] \in {0, 1} /\ (f[i] = 1 => o < i /\ i <= o + PageSize),
           Size(f) >= PageSize
    PROVE  o + PageSize \in 0 .. NumFeatures
<1> DEFINE b == IF o + PageSize < NumFeatures THEN o + PageSize ELSE NumFeatures
           S == o + 1 .. b
<1>1. o \in Nat /\ o <= NumFeatures /\ o + 1 \in Int /\ b \in Int /\ b <= NumFeatures
  BY Numbers
<1>2. S \in SUBSET ObjectIds
  <2> HIDE DEF b
  <2> SUFFICES ASSUME NEW i \in S PROVE i \in ObjectIds
    OBVIOUS
  <2>1. i \in Int /\ o + 1 <= i /\ i <= b
    BY <1>1
  <2> QED
    BY <1>1, <2>1, Numbers DEF ObjectIds
<1>3. \A i \in ObjectIds : f[i] = 1 => i \in S
  BY <1>1, Numbers DEF ObjectIds
<1>4. Cardinality(S) = IF o + 1 > b THEN 0 ELSE b - (o + 1) + 1
  <2> HIDE DEF b
  <2> QED
    BY <1>1, FS_Interval
<1>5. Size(f) \in Nat /\ Size(f) <= Cardinality(S)
  BY <1>2, <1>3, SizeFacts
<1> QED
  BY <1>1, <1>4, <1>5, Numbers

LEMMA PageEndsInv ==
    ASSUME FetchInv, PageEnds PROVE FetchInv'
<1> DEFINE all == Plus(got, part)
           more == Size(part) > 0
           last == ~more \/ (target > 0 /\ Size(all) >= target) \/ Size(part) < PageSize
           short == target > 0 /\ Size(all) < target
<1>1. /\ pc = "page" /\ pages = <<>> /\ Sound /\ Stays
      /\ got' = all /\ part' = Nothing
      /\ next' = IF last THEN next ELSE next + PageSize
      /\ pages' = IF last THEN <<>> ELSE <<<<next + PageSize, PageSize>>>>
      /\ UNCHANGED <<sub, threads, failed, target, cache, files, manifest>>
  BY DEF PageEnds
<1>2. \/ pc' = "cancelled" /\ entries' = entries
      \/ ~last /\ pc' = "page" /\ entries' = entries
      \/ last /\ pc' = "next" /\ Records("error", Nothing)
      \/ last /\ ~short /\ pc' = "export" /\ entries' = entries
  BY DEF PageEnds, Goes
<1>3. /\ got \in Features /\ part \in Features /\ next \in 0 .. NumFeatures
      /\ target \in {0, NumFeatures}
  BY DEF FetchInv, FetchTypes, BufferTypes
<1>4. \A i \in ObjectIds :
            /\ got[i] \in {0, 1}
            /\ got[i] = 1 => i <= next
            /\ part[i] \in {0, 1}
            /\ part[i] = 1 => next < i /\ i <= next + PageSize
  BY <1>1 DEF FetchInv, PageInv
<1>5. all \in Features /\ \A i \in ObjectIds : all[i] = got[i] + part[i]
  BY <1>3, ListTypes
<1>6. \A i \in ObjectIds : all[i] \in {0, 1} /\ (all[i] = 1 => i <= next + PageSize)
  BY <1>3, <1>4, <1>5, Numbers
<1>7. Size(part) \in Nat
  BY <1>3, <1>4, SizeFacts
<1>8. Size(all) \in Nat /\ (Size(all) >= NumFeatures <=> IsWhole(all))
  BY <1>5, <1>6, SizeFacts
<1> HIDE DEF all
<1>9. ~last => next + PageSize \in 0 .. NumFeatures
  <2> SUFFICES ASSUME ~last PROVE next + PageSize \in 0 .. NumFeatures
    OBVIOUS
  <2>1. Size(part) >= PageSize
    BY <1>7, Numbers
  <2> QED
    BY <1>3, <1>4, <2>1, FullPage
<1>10. ControlTypes'
  BY <1>1, <1>2 DEF Sound, Stays, FetchInv, FetchTypes, ControlTypes, ActivePc, EndPc
<1>11. BufferTypes'
  <2>1. pages' \in PageSeq
    <3>1. CASE last
      BY <1>1, <3>1 DEF PageSeq
    <3>2. CASE ~last
      <4>1. <<next + PageSize, PageSize>> \in (0 .. NumFeatures + PageSize) \X (1 .. PageSize)
        BY <1>9, <3>2, Numbers
      <4> QED
        BY <1>1, <3>2, <4>1 DEF PageSeq
    <3> QED
      BY <3>1, <3>2
  <2>2. next' \in 0 .. NumFeatures
    BY <1>1, <1>3, <1>9
  <2> QED
    BY <1>1, <1>5, <2>1, <2>2, ListTypes DEF FetchInv, FetchTypes, BufferTypes, PageSeq
<1>12. OutTypes' /\ EntryIsWhole'
  BY <1>1, <1>2, ErrorEntry, OutSame DEF outVars
<1>13. CacheInv' /\ HealthyInv' /\ ThreadsInv' /\ ChunkInv'
  <2>1. \A t \in Threads : threads'[t] = IdleThread
    BY <1>1, QuietThreads
  <2>2. ~ByIds'
    BY <1>2 DEF ByIds
  <2> QED
    BY <1>1, <2>1, <2>2, QuietInv, CacheSame, UnhealthyStep DEF Stays
<1>14. PageInv'
  <2> SUFFICES ASSUME pc' = "page" PROVE PageInv'
    BY DEF PageInv
  <2>1. ~last
    BY <1>2
  <2>2. /\ next' = next + PageSize /\ Len(pages') = 1
        /\ pages'[1][1] = next + PageSize /\ pages'[1][2] = PageSize
    BY <1>1, <2>1
  <2>3. next' \in Nat
    BY <1>9, <2>1, <2>2, Numbers
  <2>4. \A i \in ObjectIds : part'[i] = 0
    BY <1>1, ListTypes
  <2>5. ASSUME NEW k \in 1 .. Len(pages')
        PROVE  /\ next' <= pages'[k][1] /\ pages'[k][1] + pages'[k][2] <= next' + PageSize
               /\ \A i \in RowsOf(pages'[k]) : part'[i] = 0
               /\ \A j \in 1 .. Len(pages') :
                     RowsOf(pages'[j]) \cap RowsOf(pages'[k]) # {} => j = k
    <3>1. 1 .. Len(pages') = {1} /\ k = 1
      BY <2>2
    <3>2. \A i \in RowsOf(pages'[k]) : i \in ObjectIds
      BY DEF RowsOf
    <3>3. pages'[k][1] = next' /\ pages'[k][1] + pages'[k][2] = next' + PageSize
      BY <2>2, <3>1
    <3>4. next' <= pages'[k][1] /\ pages'[k][1] + pages'[k][2] <= next' + PageSize
      BY <2>3, <3>3, Numbers
    <3>5. \A i \in RowsOf(pages'[k]) : part'[i] = 0
      BY <2>4, <3>2
    <3>6. \A j \in 1 .. Len(pages') : j = k
      BY <3>1
    <3> QED
      BY <3>4, <3>5, <3>6
  <2>6. \A i \in ObjectIds :
              /\ got'[i] \in {0, 1}
              /\ got'[i] = 1 => i <= next'
              /\ part'[i] \in {0, 1}
              /\ part'[i] = 1 => next' < i /\ i <= next' + PageSize
    BY <1>1, <1>6, <2>2, <2>4
  <2> QED
    BY <2>5, <2>6 DEF PageInv, RowsOf
<1>15. EntryInv'
  <2>1. pc' = "export" /\ target' > 0 => IsWhole(got)'
    <3> SUFFICES ASSUME pc' = "export", target > 0 PROVE IsWhole(all)
      BY <1>1 DEF IsWhole
    <3> QED
      BY <1>2, <1>3, <1>8, Numbers
  <2> QED
    BY <1>12, <2>1 DEF EntryInv
<1> QED
  BY <1>1, <1>2, <1>10, <1>11, <1>12, <1>13, <1>14, <1>15
  DEF FetchInv, FetchTypes, StepInv

-----------------------------------------------------------------------------
(* The files, the next sublayer, the manifest; failures and crashes.        *)

\* The entry of a sublayer whose files are written.
LEMMA ExportInv ==
    ASSUME FetchInv, Export PROVE FetchInv'
<1>1. /\ pc = "export" /\ pc' = "next" /\ Sound /\ Stays
      /\ files' = files \cup {sub}
      /\ entries' = [entries EXCEPT ![sub] = Entry("features", got)]
      /\ UNCHANGED <<sub, fetchVars, cache, manifest>>
  BY DEF Export, Goes, Records
<1>2. got \in Features /\ sub \in FeatureLayers
  BY DEF FetchInv, FetchTypes, BufferTypes, ControlTypes
<1>3. /\ Entry("features", got) \in [kind : EntryKind, features : Features, counted : BOOLEAN]
      /\ Entry("features", got).kind = "features" /\ Entry("features", got).features = got
      /\ Entry("features", got).counted = (target > 0)
  BY <1>2, EntryType DEF EntryKind
<1>4. /\ entries' \in [FeatureLayers -> [kind : EntryKind, features : Features, counted : BOOLEAN]]
      /\ \A s \in FeatureLayers :
            entries'[s] = IF s = sub THEN Entry("features", got) ELSE entries[s]
  BY <1>1, <1>3 DEF FetchInv, FetchTypes, OutTypes
<1>5. OutTypes'
  BY <1>1, <1>2, <1>4 DEF FetchInv, FetchTypes, OutTypes
<1>6. EntryIsWhole'
  <2> SUFFICES ASSUME NEW s \in FeatureLayers, entries'[s].kind = "features",
                      entries'[s].counted
               PROVE  \A i \in ObjectIds : entries'[s].features[i] = 1
    BY DEF EntryIsWhole, HasFeatures, IsWhole
  <2>1. CASE s = sub
    <3>1. target > 0
      BY <1>3, <1>4, <2>1
    <3>2. IsWhole(got)
      BY <1>1, <3>1 DEF FetchInv, EntryInv
    <3> QED
      BY <1>3, <1>4, <2>1, <3>2 DEF IsWhole
  <2>2. CASE s # sub
    BY <1>4, <2>2 DEF FetchInv, EntryInv, EntryIsWhole, HasFeatures, IsWhole
  <2> QED
    BY <2>1, <2>2
<1>7. ControlTypes'
  BY <1>1 DEF Sound, Stays, FetchInv, FetchTypes, ControlTypes, ActivePc
<1>8. BufferTypes' /\ CacheInv'
  BY <1>1, BuffersSame, CacheSame DEF Stays
<1>9. ThreadsInv' /\ ChunkInv'
  BY <1>1, QuietThreads, QuietInv DEF ByIds, fetchVars
<1>10. HealthyInv'
  <2> SUFFICES ASSUME Healthy' PROVE HealthyInv'
    BY DEF HealthyInv
  <2>1. Healthy
    BY <1>1 DEF Healthy, Sound, Stays
  <2>2. IsWhole(got) /\ \A s \in listed : s < sub => Got(s)
    BY <1>1, <2>1 DEF FetchInv, HealthyInv
  <2>3. listed \subseteq FeatureLayers
    BY DEF FetchInv, FetchTypes, ControlTypes, Service
  <2>4. ASSUME NEW s \in listed, s <= sub PROVE Got(s)'
    <3>1. s \in FeatureLayers /\ s \in Nat /\ sub \in Nat
      BY <1>2, <2>3, <2>4, Numbers
    <3>2. CASE s = sub
      BY <1>3, <1>4, <2>2, <3>1, <3>2 DEF Got, HasFeatures, IsWhole
    <3>3. CASE s # sub
      <4>1. s < sub
        BY <2>4, <3>1, <3>3
      <4>2. Got(s)
        BY <2>2, <2>4, <4>1
      <4> QED
        BY <1>4, <3>1, <3>3, <4>2 DEF Got, HasFeatures, IsWhole
    <3> QED
      BY <3>2, <3>3
  <2> QED
    BY <1>1, <2>4 DEF HealthyInv, ByIds, Stays
<1> QED
  BY <1>1, <1>5, <1>6, <1>7, <1>8, <1>9, <1>10
  DEF FetchInv, FetchTypes, PageInv, StepInv, EntryInv

LEMMA NextSublayerInv ==
    ASSUME FetchInv, NextSublayer PROVE FetchInv'
<1> DEFINE left == {s \in listed : s > sub}
<1>1. /\ pc = "next" /\ Sound /\ Stays
      /\ next' = 0 /\ failed' = FALSE /\ got' = Nothing /\ pages' = <<>> /\ part' = Nothing
      /\ UNCHANGED <<threads, target, cache, outVars>>
      /\ pc' \in {"cancelled", "manifest", "ids"}
      /\ pc' = "manifest" => left = {}
      /\ left = {} => sub' = sub /\ pc' # "ids"
      /\ left # {} => sub' = CHOOSE s \in left : \A t \in left : s <= t
  BY DEF NextSublayer, Progress, Goes, Afresh, AfreshWith
<1>2. listed \in SUBSET FeatureLayers /\ sub \in FeatureLayers /\ listed \subseteq Nat /\ sub \in Nat
  BY Numbers DEF FetchInv, FetchTypes, ControlTypes, Service
<1>3. left # {} => sub' \in left /\ \A t \in left : sub' <= t
  BY <1>1, <1>2, First
<1>4. sub' \in FeatureLayers
  BY <1>1, <1>2, <1>3
<1>5. ControlTypes'
  BY <1>1, <1>4 DEF Sound, Stays, FetchInv, FetchTypes, ControlTypes, ActivePc, EndPc
<1>6. BufferTypes'
  <2>1. <<>> \in Seq((0 .. NumFeatures + PageSize) \X (1 .. PageSize)) /\ 0 \in 0 .. NumFeatures
    BY Numbers
  <2> QED
    BY <1>1, <2>1, ListTypes DEF FetchInv, FetchTypes, BufferTypes
<1>7. OutTypes' /\ EntryIsWhole' /\ (\A s : Got(s)' <=> Got(s)) /\ CacheInv'
  BY <1>1, OutSame, CacheSame DEF Stays
<1>8. \A t \in Threads : threads'[t] = IdleThread
  BY <1>1, QuietThreads
<1>9. ThreadsInv' /\ ChunkInv'
  BY <1>1, <1>8, QuietInv
<1>10. HealthyInv'
  <2> SUFFICES ASSUME Healthy' PROVE HealthyInv'
    BY DEF HealthyInv
  <2>1. Healthy /\ listed' = listed
    BY <1>1 DEF Healthy, Sound, Stays
  <2>2. \A s \in listed : s <= sub => Got(s)
    BY <1>1, <2>1 DEF FetchInv, HealthyInv
  <2>3. pc' = "manifest" => \A s \in listed : Got(s)'
    BY <1>1, <1>2, <1>7, <2>2
  <2>4. pc' = "ids" => \A s \in listed : s < sub' => Got(s)'
    <3> SUFFICES ASSUME pc' = "ids", NEW s \in listed, s < sub' PROVE Got(s)'
      OBVIOUS
    <3>1. sub' \in Nat /\ \A t \in left : sub' <= t
      BY <1>1, <1>2, <1>3
    <3>2. s \in Nat /\ s \notin left
      BY <1>2, <3>1
    <3> QED
      BY <1>2, <1>7, <2>2, <3>2
  <2>5. \A t \in Threads : threads'[t].pc # "failed"
    BY <1>8 DEF IdleThread
  <2> QED
    BY <1>1, <2>1, <2>3, <2>4, <2>5 DEF HealthyInv, ByIds
<1> QED
  BY <1>1, <1>5, <1>6, <1>7, <1>9, <1>10
  DEF FetchInv, FetchTypes, PageInv, StepInv, EntryInv

\* A step that ends or fails the attempt without touching what it has.
LEMMA EndStep ==
    ASSUME FetchInv, pc' \in EndPc, Sound \/ Faulty, Stays, sub' = sub,
           \A t \in Threads : threads'[t] = IdleThread, threads' \in [Threads -> {IdleThread}],
           UNCHANGED <<next, failed, target, pages, part, got, cache, entries, files>>,
           manifest' \in BOOLEAN,
           pc' = "done" => pc = "manifest"
    PROVE  FetchInv'
<1>1. ControlTypes'
  BY RequestTypes DEF Stays, FetchInv, FetchTypes, ControlTypes
<1>2. BufferTypes' /\ OutTypes' /\ EntryIsWhole' /\ CacheInv'
  BY CacheSame DEF FetchInv, FetchTypes, BufferTypes, OutTypes, EntryInv, EntryIsWhole,
                   HasFeatures, Stays
<1>3. ThreadsInv' /\ ChunkInv'
  BY QuietInv DEF ByIds, EndPc
<1>4. HealthyInv'
  <2> SUFFICES ASSUME Healthy', pc' = "done" PROVE \A s \in listed' : Got(s)'
    BY DEF HealthyInv, ByIds, EndPc
  <2>1. Healthy
    BY RequestTypes DEF Healthy, Stays
  <2> QED
    BY <2>1 DEF FetchInv, HealthyInv, Stays, Got, HasFeatures
<1> QED
  BY <1>1, <1>2, <1>3, <1>4
  DEF FetchInv, FetchTypes, PageInv, StepInv, EntryInv, EndPc

LEMMA ManifestInv ==
    ASSUME FetchInv, Manifest PROVE FetchInv'
<1>1. /\ pc = "manifest" /\ pc' = "done" /\ manifest' = TRUE /\ Sound /\ Stays
      /\ UNCHANGED <<sub, fetchVars, cache, entries, files>>
  BY DEF Manifest, Goes
<1>2. \A t \in Threads : threads'[t] = IdleThread
  BY <1>1, QuietThreads DEF fetchVars
<1>3. threads' \in [Threads -> {IdleThread}]
  BY <1>1, <1>2 DEF fetchVars, FetchInv, FetchTypes, BufferTypes
<1> QED
  BY <1>1, <1>2, <1>3, EndStep DEF EndPc, fetchVars

LEMMA AttemptFailsInv ==
    ASSUME FetchInv, AttemptFails PROVE FetchInv'
<1>1. /\ pc \notin {"fetch", "stopping"} /\ pc' = "failed" /\ Faulty /\ Stays
      /\ UNCHANGED <<sub, fetchVars, cache, outVars>>
  BY DEF AttemptFails, Goes
<1>2. \A t \in Threads : threads'[t] = IdleThread
  BY <1>1, QuietThreads DEF fetchVars
<1>3. threads' \in [Threads -> {IdleThread}] /\ manifest' \in BOOLEAN
  BY <1>1, <1>2 DEF fetchVars, outVars, FetchInv, FetchTypes, BufferTypes, OutTypes
<1> QED
  BY <1>1, <1>2, <1>3, EndStep DEF EndPc, fetchVars, outVars

LEMMA DiesInv ==
    ASSUME FetchInv, Dies PROVE FetchInv'
<1>1. /\ pc' = "idle" /\ Faulty /\ Stays /\ threads' = [t \in Threads |-> IdleThread]
      /\ UNCHANGED <<sub, next, failed, target, pages, part, got, cache, outVars>>
  BY DEF Dies, Goes
<1>2. manifest' \in BOOLEAN
  BY <1>1 DEF outVars, FetchInv, FetchTypes, OutTypes
<1> QED
  BY <1>1, <1>2, EndStep DEF EndPc, outVars

\* A cancellation is only read: by the callbacks.
LEMMA CancelInv ==
    ASSUME FetchInv, UNCHANGED <<service, faults, attempt, healthy, pc, listed, sub, fetchVars,
                                 cache, outVars>>,
           cancelled' \in BOOLEAN
    PROVE  FetchInv'
<1>1. ControlTypes'
  BY DEF FetchInv, FetchTypes, ControlTypes
<1>2. BufferTypes' /\ OutTypes' /\ CacheInv' /\ EntryIsWhole' /\ \A s : Got(s)' <=> Got(s)
  BY BuffersSame, OutSame, CacheSame
<1>3. ThreadsInv'
  <2>1. \A t \in Threads : threads'[t] = threads[t]
    BY DEF fetchVars
  <2> QED
    BY <2>1 DEF FetchInv, ThreadsInv, Fetches
<1>4. ChunkInv'
  BY DEF fetchVars, FetchInv, ChunkInv, ByIds, Fetches
<1>5. PageInv' /\ StepInv'
  BY DEF fetchVars, FetchInv, PageInv, StepInv
<1>6. EntryInv'
  BY <1>2 DEF fetchVars, FetchInv, EntryInv, IsWhole
<1>7. HealthyInv'
  BY <1>2 DEF fetchVars, FetchInv, HealthyInv, Healthy, ByIds, IsWhole
<1> QED
  BY <1>1, <1>2, <1>3, <1>4, <1>5, <1>6, <1>7 DEF FetchInv, FetchTypes

-----------------------------------------------------------------------------
(* The theorems of a download.                                              *)

LEMMA FetchNextInv ==
    ASSUME FetchInv, [FetchNext]_downloadVars PROVE FetchInv'
<1>1. CASE Begin
  BY <1>1, BeginInv
<1>2. CASE Work
  <2>1. CASE \E t \in Threads : ThreadStep(t)
    BY <2>1, ThreadInvs, CollectInv DEF ThreadStep
  <2>2. CASE List \/ Image \/ EmptyDir \/ ListIds \/ Submit \/ StopIds \/ EndIds
    BY <2>2, ListInv, ImageInv, EmptyDirInv, ListIdsInv, SubmitInv, StopIdsInv, EndIdsInv
  <2>3. CASE Count \/ PageAnswer \/ PageFails \/ PageEnds
    BY <2>3, CountInv, PageAnswerInv, PageFailsInv, PageEndsInv
  <2>4. CASE Export \/ NextSublayer \/ Manifest \/ AttemptFails
    BY <2>4, ExportInv, NextSublayerInv, ManifestInv, AttemptFailsInv
  <2> QED
    BY <1>2, <2>1, <2>2, <2>3, <2>4 DEF Work
<1>3. CASE Dies
  BY <1>3, DiesInv
<1>4. CASE Cancel
  BY <1>4, CancelInv DEF Cancel
<1>5. CASE UNCHANGED downloadVars
  <2>1. cancelled' = cancelled /\ cancelled' \in BOOLEAN
    BY <1>5 DEF downloadVars, FetchInv, FetchTypes, ControlTypes
  <2> QED
    BY <1>5, <2>1, CancelInv DEF downloadVars, fetchVars, outVars
<1> QED
  BY <1>1, <1>2, <1>3, <1>4, <1>5 DEF FetchNext

\* The inductive invariant holds throughout.
LEMMA FetchInvariant == FetchSpec => []FetchInv
<1>1. FetchInit => FetchInv
  BY FetchInitInv
<1>2. FetchInv /\ [FetchNext]_downloadVars => FetchInv'
  BY FetchNextInv
<1> QED
  BY <1>1, <1>2, PTL DEF FetchSpec

\* What the cache answers is what was asked for.
LEMMA NothingPartial == FetchInv => NothingIsPartial
<1> SUFFICES ASSUME FetchInv PROVE NothingIsPartial
  OBVIOUS
<1>1. EntryIsWhole
  BY DEF FetchInv, EntryInv
<1>2. ASSUME NEW c \in cache
      PROVE  IF "ids" \in DOMAIN c.key
                THEN \A i \in ObjectIds : c.features[i] = IF i \in c.key.ids THEN 1 ELSE 0
                ELSE \A i \in ObjectIds : c.features[i] <= 1
  <2>1. CASE \E ids \in SUBSET ObjectIds, s \in FeatureLayers :
                c = [key |-> Chunk(ids, s), features |-> Once(ids)]
    <3>1. PICK ids \in SUBSET ObjectIds, s \in FeatureLayers :
                c = [key |-> Chunk(ids, s), features |-> Once(ids)]
      BY <2>1
    <3>2. "ids" \in DOMAIN c.key /\ c.key.ids = ids /\ c.features = Once(ids)
      BY <3>1 DEF Chunk
    <3> QED
      BY <3>2, ListTypes
  <2>2. CASE \E o, n \in Nat, s \in FeatureLayers :
                c = [key |-> PageKey(o, n, s),
                     features |-> Once(Span(o, Smaller(n, service.limit)))]
    <3>1. PICK o \in Nat, n \in Nat, s \in FeatureLayers :
                c = [key |-> PageKey(o, n, s),
                     features |-> Once(Span(o, Smaller(n, service.limit)))]
      BY <2>2
    <3>2. "ids" \notin DOMAIN c.key /\ c.features = Once(Span(o, Smaller(n, service.limit)))
      BY <3>1 DEF PageKey
    <3>3. \A ids : \A i \in ObjectIds : Once(ids)[i] <= 1
      BY ListTypes
    <3> QED
      BY <3>2, <3>3
  <2> QED
    BY <2>1, <2>2 DEF FetchInv, CacheInv
<1> QED
  BY <1>1, <1>2 DEF NothingIsPartial, CachedIsWhole

\* Every state of a download has its types: EsriDownloader's buffers, the threads of
\* its executor, the resume cache and the manifest.
THEOREM FetchIsTyped == FetchSpec => []FetchTypeOK
  BY FetchInvariant, TypesImply, PTL

\* What is kept is not partial: a chunk of the cache holds each of its object IDs
\* once, a page no feature twice, a counted entry of the manifest every feature once,
\* however the batches and pages were split, answered in part, retried or cut off by
\* a crash, for any number of features, any page size and any number of threads.
THEOREM NothingKeptIsPartial == FetchSpec => []NothingIsPartial
  BY FetchInvariant, NothingPartial, PTL

\* A service that lists its object IDs and fails no request of the attempt is
\* downloaded whole: every listed sublayer has an entry with every feature once,
\* whatever the service's limit and whatever earlier attempts left in the cache.
THEOREM HealthyDownloadsAreWhole == FetchSpec => []HealthyIsWhole
<1>1. FetchInv => HealthyIsWhole
  BY DEF FetchInv, HealthyInv, Healthy, Got, HealthyIsWhole
<1> QED
  BY <1>1, FetchInvariant, PTL
=============================================================================
