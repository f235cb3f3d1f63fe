-------------------------- MODULE UploadTasksProofs -------------------------
(***************************************************************************)
(* Proofs about UploadTasks for any number of requests, workers, retries   *)
(* and failures.                                                           *)
(***************************************************************************)
EXTENDS UploadTasks, TLAPS

\* Every request but a deletion carries its number.
Numbered ==
    \A r \in Requests :
        req[r].pc \notin {"idle", "files", "row", "source", "session"} => req[r].id \in Ids

TypeInv == TypeOK /\ Numbered

\* A tiling that is over, and a layer that serves tiles, have gone through all of them.
TilesInv ==
    ~deleted /\ (layer = "tiles" \/ \E w \in Workers : work[w].pc \in {"finish", "link"})
        => tiles \in {"whole", "holed"}

Real == {"tiles", "wms", "file"}
Linked == layer \in Real \/ deleted
\* A task that will write another status, or the layer.
Settling(w) ==
    \/ work[w].pc \in {"link", "fail", "failed"}
    \/ work[w].pc \in {"mark", "start"} /\ work[w].seen = "done"

\* What is done has its layer, or a task that settles the session again.
DoneInv ==
    /\ \A r \in Requests : At(r, "saved") => Linked
    /\ \A r \in Requests : At(r, "row") => deleted
    /\ \A w \in Workers : On(w, "published") => Linked
    /\ Is("done") /\ ~stray /\ ~Linked => queue # {} \/ \E w \in Workers : Settling(w)

\* A request holds the lease of its number, and may release it.
Holds(r) == req[r].pc \in {"handoff", "lease", "retile"}
Begun == row # None \/ deleted
\* Once the session has been there, a lease exists that no request may release.
PinInv ==
    /\ \A r \in Requests :
          /\ req[r].pc \notin {"idle", "handoff"} => Begun
          /\ req[r].pc \in {"row", "source", "session"} => deleted
          /\ req[r].pc # "idle" => req[r].id \in 0 .. requests
          /\ Holds(r) /\ artifact => req[r].id \in leases
    /\ \A r, q \in Requests : r # q /\ Holds(r) /\ Holds(q) => req[r].id # req[q].id
    /\ leases \subseteq 0 .. requests
    /\ Outstanding => Begun
    /\ artifact /\ Begun => \E l \in leases : \A r \in Requests : Holds(r) => req[r].id # l

-----------------------------------------------------------------------------
LEMMA NextNumber ==
    ASSUME TypeOK, requests < MaxRequests
    PROVE  /\ requests + 1 \in Ids /\ requests + 1 \in Leases /\ requests + 1 \in 0 .. MaxRequests
           /\ 0 \in Leases
BY ConstantsAssumption DEF TypeOK, Ids, Leases

-----------------------------------------------------------------------------
(* What the steps do to the place of a request and of a worker.            *)

LEMMA GoEffect ==
    ASSUME TypeOK, NEW r \in Requests, req[r].pc # "idle", NEW pc \in RequestPc, Go(r, pc)
    PROVE  /\ req' \in [Requests -> {Idle} \cup Request]
           /\ req[r] \in Request /\ req'[r] \in Request
           /\ req'[r].pc = pc /\ req'[r].id = req[r].id /\ req'[r].seen = req[r].seen
           /\ \A q \in Requests : q # r => req'[q] = req[q]
<1>1. req[r] \in Request
  BY DEF TypeOK, Idle
<1>2. [req[r] EXCEPT !.pc = pc] \in Request
  BY <1>1 DEF Request
<1>3. req' = [req EXCEPT ![r] = [req[r] EXCEPT !.pc = pc]]
  BY DEF Go
<1> QED
  BY <1>1, <1>2, <1>3 DEF TypeOK, Request

LEMMA AnswerEffect ==
    ASSUME TypeOK, NEW r \in Requests, Answer(r)
    PROVE  /\ req' \in [Requests -> {Idle} \cup Request]
           /\ req'[r] = Idle /\ req'[r].pc = "idle"
           /\ \A q \in Requests : q # r => req'[q] = req[q]
<1>1. /\ req' \in [Requests -> {Idle} \cup Request]
      /\ req'[r] = Idle
      /\ \A q \in Requests : q # r => req'[q] = req[q]
  BY DEF TypeOK, Answer
<1> QED
  BY <1>1 DEF Idle

LEMMA BeginEffect ==
    ASSUME TypeOK, HasRow, NEW r \in Requests, NEW pc \in RequestPc, NEW id \in Leases,
           Begin(r, pc, id)
    PROVE  /\ req' \in [Requests -> {Idle} \cup Request]
           /\ req'[r] \in Request /\ req'[r].pc = pc /\ req'[r].id = id
           /\ \A q \in Requests : q # r => req'[q] = req[q]
<1> DEFINE place == [pc |-> pc, id |-> id, seen |-> row.status]
<1>1. place \in Request /\ place.pc = pc /\ place.id = id
  BY DEF TypeOK, HasRow, Row, Request
<1>2. req' = [req EXCEPT ![r] = place]
  BY DEF Begin
<1> HIDE DEF place
<1> QED
  BY <1>1, <1>2 DEF TypeOK

LEMMA StepEffect ==
    ASSUME TypeOK, NEW w \in Workers, work[w].pc # "idle",
           NEW pc \in TilePc \cup PublishPc \cup FailPc, Step(w, pc)
    PROVE  /\ work' \in [Workers -> {Idle} \cup Task]
           /\ work[w] \in Task /\ work'[w] \in Task /\ work'[w] # Idle
           /\ work'[w].pc = pc /\ work'[w].msg = work[w].msg
           /\ work'[w].seen = work[w].seen
           /\ \A v \in Workers : v # w => work'[v] = work[v]
<1>1. work[w] \in Task
  BY DEF TypeOK, Idle
<1>2. [work[w] EXCEPT !.pc = pc] \in Task
  BY <1>1 DEF Task
<1>3. work' = [work EXCEPT ![w] = [work[w] EXCEPT !.pc = pc]]
  BY DEF Step
<1>4. \A x \in Task : x # Idle
  BY DEF Task, TilePc, PublishPc, FailPc, Idle
<1> QED
  BY <1>1, <1>2, <1>3, <1>4 DEF TypeOK, Task

LEMMA EndEffect ==
    ASSUME TypeOK, NEW w \in Workers, End(w)
    PROVE  /\ work' \in [Workers -> {Idle} \cup Task]
           /\ work'[w] = Idle /\ work'[w].pc = "idle"
           /\ \A v \in Workers : v # w => work'[v] = work[v]
<1>1. /\ work' \in [Workers -> {Idle} \cup Task]
      /\ work'[w] = Idle
      /\ \A v \in Workers : v # w => work'[v] = work[v]
  BY DEF TypeOK, End
<1> QED
  BY <1>1 DEF Idle

LEMMA TakeEffect ==
    ASSUME TypeOK, NEW w \in Workers, NEW m \in queue,
           NEW pc \in TilePc \cup PublishPc \cup FailPc, Take(w, m, pc)
    PROVE  /\ queue' = queue \ {m}
           /\ work' \in [Workers -> {Idle} \cup Task]
           /\ work'[w] \in Task /\ work'[w] # Idle
           /\ work'[w].pc = pc /\ work'[w].msg = m
           /\ HasRow => work'[w].seen = row.status
           /\ \A v \in Workers : v # w => work'[v] = work[v]
<1> DEFINE place == [pc |-> pc, msg |-> m, seen |-> IF HasRow THEN row.status ELSE None]
<1>1. /\ place \in Task /\ place.pc = pc /\ place.msg = m
      /\ HasRow => place.seen = row.status
  BY DEF TypeOK, HasRow, Row, Task
<1>2. work' = [work EXCEPT ![w] = place] /\ queue' = queue \ {m}
  BY DEF Take
<1>3. \A x \in Task : x # Idle
  BY DEF Task, TilePc, PublishPc, FailPc, Idle
<1> HIDE DEF place
<1> QED
  BY <1>1, <1>2, <1>3 DEF TypeOK

LEMMA StatusEffect ==
    ASSUME TypeOK, NEW status \in Status, SetStatus(status)
    PROVE  /\ row' \in Row \cup {None}
           /\ HasRow' <=> HasRow
           /\ HasRow => row'.status = status
           /\ ~HasRow => row' = None
BY NoneAssumption DEF TypeOK, HasRow, SetStatus, Row

-----------------------------------------------------------------------------
(* Type correctness.                                                       *)

LEMMA InitType == Init => TypeOK
<1> SUFFICES ASSUME Init PROVE TypeOK
  OBVIOUS
<1>1. 0 \in Leases /\ 0 \in 0 .. MaxFailures
  BY ConstantsAssumption DEF Leases
<1>2. row \in Row \cup {None} /\ leases \subseteq Leases
  BY <1>1 DEF Init, Staged, Row, Status, Leases
<1>3. req \in [Requests -> {Idle} \cup Request] /\ work \in [Workers -> {Idle} \cup Task]
  BY DEF Init
<1>4. artifact \in BOOLEAN /\ file \in BOOLEAN /\ stray \in BOOLEAN /\ deleted \in BOOLEAN
  BY DEF Init
<1> QED
  BY <1>1, <1>2, <1>3, <1>4 DEF Init, TypeOK, Leases

LEMMA SendEffect ==
    ASSUME TypeOK, NEW id \in Ids, NEW kind \in {"tile", "publish"}, Send(id, kind)
    PROVE  queue' \subseteq Message /\ queue \subseteq queue'
BY ConstantsAssumption DEF TypeOK, Send, Message

LEMMA RetryEffect ==
    ASSUME TypeOK, NEW w \in Workers, work[w] # Idle, work[w].msg.tries < MaxRetries
    PROVE  [work[w].msg EXCEPT !.tries = @ + 1] \in Message
BY ConstantsAssumption DEF TypeOK, Task, Message

LEMMA BeginsType ==
    ASSUME TypeInv, NEW r \in Requests, RequestBegins(r)
    PROVE  TypeInv'
<1>1. CASE Handoff(r)
  <2> DEFINE place == [pc |-> "handoff", id |-> requests + 1, seen |-> "uploaded"]
  <2>1. place \in Request /\ place.pc = "handoff" /\ place.id = requests + 1
    BY <1>1, NextNumber DEF TypeInv, Handoff, Opens, Request, RequestPc, Status
  <2>2. req' = [req EXCEPT ![r] = place]
    BY <1>1 DEF Handoff
  <2> HIDE DEF place
  <2> QED
    BY <1>1, <2>1, <2>2, NextNumber
    DEF TypeInv, TypeOK, Numbered, Handoff, Opens, sourceVars, tileVars, taskVars, history
<1>2. CASE TileSend(r)
  BY <1>2, NextNumber, BeginEffect, SendEffect
  DEF TypeInv, TypeOK, Numbered, TileSend, sourceVars, tileVars, taskVars, history, Opens,
      Ready, HasRow, RequestPc
<1>3. CASE Retry(r)
  BY <1>3, NextNumber, SendEffect
  DEF TypeInv, TypeOK, Numbered, Retry, sourceVars, tileVars, taskVars, history, Opens
<1>4. CASE Retile(r)
  BY <1>4, NextNumber, BeginEffect, SendEffect
  DEF TypeInv, TypeOK, Numbered, Retile, sourceVars, tileVars, taskVars, history, Opens,
      RequestPc
<1>5. CASE PublishRead(r)
  BY <1>5, NextNumber, BeginEffect
  DEF TypeInv, TypeOK, Numbered, PublishRead, sourceVars, tileVars, taskVars, history,
      Opens, Ready, HasRow, RequestPc
<1>6. CASE SaveRead(r)
  BY <1>6, NextNumber, BeginEffect
  DEF TypeInv, TypeOK, Numbered, SaveRead, sourceVars, tileVars, taskVars, history, Opens,
      Ready, HasRow, RequestPc
<1>7. CASE CancelRead(r)
  BY <1>7, NextNumber, BeginEffect
  DEF TypeInv, TypeOK, Numbered, CancelRead, sourceVars, tileVars, taskVars, history, Opens,
      Is, RequestPc, HasRow, Row
<1>8. CASE DeleteRead(r)
  BY <1>8, NextNumber, BeginEffect
  DEF TypeInv, TypeOK, Numbered, DeleteRead, sourceVars, tileVars, taskVars, history, Opens,
      RequestPc
<1> QED
  BY <1>1, <1>2, <1>3, <1>4, <1>5, <1>6, <1>7, <1>8 DEF RequestBegins

LEMMA RequestType ==
    ASSUME TypeInv, NEW r \in Requests, RequestStep(r)
    PROVE  TypeInv'
<1>1. CASE HandoffRejected(r)
  BY <1>1, AnswerEffect, ConstantsAssumption
  DEF TypeInv, TypeOK, Numbered, HandoffRejected, sourceVars, tileVars, taskVars, history,
      Fails
<1>2. CASE HandoffCreate(r)
  BY <1>2, AnswerEffect
  DEF TypeInv, TypeOK, Numbered, HandoffCreate, sourceVars, tileVars, taskVars, history,
      HasRow, Staged, Row, Status, At, Idle, Request
<1>3. CASE StartTiling(r)
  <2>1. /\ row' \in Row \cup {None} /\ stray' \in BOOLEAN
        /\ Answer(r) /\ UNCHANGED <<requests, sourceVars, tileVars, taskVars, failures, deleted>>
    <3>1. req[r].id \in Ids
      BY <1>3 DEF TypeInv, Numbered, StartTiling, At
    <3>2. row' \in Row \cup {None}
      BY <1>3, <3>1 DEF TypeInv, TypeOK, StartTiling, HasRow, Row, Status
    <3>3. stray' \in BOOLEAN
      BY <1>3 DEF TypeInv, TypeOK, StartTiling, Strays
    <3> QED
      BY <1>3, <3>2, <3>3 DEF StartTiling
  <2> QED
    BY <2>1, AnswerEffect
    DEF TypeInv, TypeOK, Numbered, sourceVars, tileVars, taskVars
<1>4. CASE RetileLease(r)
  BY <1>4, GoEffect
  DEF TypeInv, TypeOK, Numbered, RetileLease, sourceVars, tileVars, taskVars, history,
      HasRow, Row, Request, RequestPc, At
<1>5. CASE RetileSend(r)
  BY <1>5, GoEffect, SendEffect
  DEF TypeInv, TypeOK, Numbered, RetileSend, sourceVars, tileVars, taskVars, history,
      Request, RequestPc, At
<1>6. CASE RetileFails(r)
  BY <1>6, GoEffect, ConstantsAssumption
  DEF TypeInv, TypeOK, Numbered, RetileFails, sourceVars, tileVars, taskVars, history,
      Fails, RequestPc, At
<1>7. CASE RetileDrop(r)
  BY <1>7, AnswerEffect
  DEF TypeInv, TypeOK, Numbered, RetileDrop, sourceVars, tileVars, taskVars, history,
      HasRow, Row
<1>8. CASE PublishMark(r)
  BY <1>8, GoEffect, StatusEffect
  DEF TypeInv, TypeOK, Numbered, PublishMark, sourceVars, tileVars, taskVars, history,
      RequestPc, At, Status
<1>9. CASE PublishSend(r)
  BY <1>9, GoEffect, SendEffect
  DEF TypeInv, TypeOK, Numbered, PublishSend, sourceVars, tileVars, taskVars, history,
      Request, RequestPc, At
<1>10. CASE PublishRefused(r)
  BY <1>10, AnswerEffect, ConstantsAssumption
  DEF TypeInv, TypeOK, Numbered, PublishRefused, sourceVars, tileVars, taskVars, history,
      Fails, Strays
<1>11. CASE PublishTask(r)
  BY <1>11, AnswerEffect
  DEF TypeInv, TypeOK, Numbered, PublishTask, sourceVars, tileVars, taskVars, history,
      HasRow, Row, At, Idle, Request
<1>12. CASE SaveLayer(r)
  BY <1>12, GoEffect, AnswerEffect, ConstantsAssumption
  DEF TypeInv, TypeOK, Numbered, SaveLayer, sourceVars, tileVars, taskVars, history, Fails,
      RequestPc, At, Urls
<1>13. CASE SaveDone(r)
  BY <1>13, AnswerEffect, StatusEffect
  DEF TypeInv, TypeOK, Numbered, SaveDone, sourceVars, tileVars, taskVars, history, Status
<1>14. CASE CancelWrite(r)
  BY <1>14, AnswerEffect, StatusEffect
  DEF TypeInv, TypeOK, Numbered, CancelWrite, sourceVars, tileVars, taskVars, history,
      Status
<1>15. CASE DeleteFiles(r)
  BY <1>15, GoEffect
  DEF TypeInv, TypeOK, Numbered, DeleteFiles, sourceVars, tileVars, taskVars, history,
      RequestPc, At
<1>16. CASE DeleteRow(r)
  BY <1>16, GoEffect, AnswerEffect
  DEF TypeInv, TypeOK, Numbered, DeleteRow, sourceVars, tileVars, taskVars, history,
      RequestPc, At
<1>17. CASE DeleteSource(r)
  BY <1>17, GoEffect
  DEF TypeInv, TypeOK, Numbered, DeleteSource, sourceVars, tileVars, taskVars, history,
      RequestPc, At
<1>18. CASE DeleteSession(r)
  BY <1>18, AnswerEffect
  DEF TypeInv, TypeOK, Numbered, DeleteSession, sourceVars, tileVars, taskVars, history
<1> QED
  BY <1>1, <1>2, <1>3, <1>4, <1>5, <1>6, <1>7, <1>8, <1>9, <1>10, <1>11, <1>12, <1>13,
     <1>14, <1>15, <1>16, <1>17, <1>18
  DEF RequestStep

LEMMA WorkerType ==
    ASSUME TypeInv, NEW w \in Workers, WorkerStep(w) \/ WorkerDies(w)
    PROVE  TypeInv'
<1>1. CASE TileTake(w)
  BY <1>1, TakeEffect
  DEF TypeInv, TypeOK, Numbered, TileTake, sourceVars, tileVars, taskVars, history, TilePc
<1>2. CASE TileMark(w)
  BY <1>2, StepEffect, StatusEffect
  DEF TypeInv, TypeOK, Numbered, TileMark, sourceVars, tileVars, taskVars, history,
      SetIfSeen, On, TilePc, Status
<1>3. CASE TilePlace(w)
  BY <1>3, StepEffect, ConstantsAssumption
  DEF TypeInv, TypeOK, Numbered, TilePlace, sourceVars, tileVars, taskVars, history, On,
      TilePc, Urls, Fails
<1>4. CASE TileSome(w)
  BY <1>4 DEF TypeInv, TypeOK, Numbered, TileSome, sourceVars, tileVars, taskVars, history
<1>5. CASE TileAll(w)
  BY <1>5, StepEffect
  DEF TypeInv, TypeOK, Numbered, TileAll, sourceVars, tileVars, taskVars, history, On,
      TilePc
<1>6. CASE TileStop(w)
  BY <1>6, StepEffect
  DEF TypeInv, TypeOK, Numbered, TileStop, sourceVars, tileVars, taskVars, history, On,
      TilePc, FailPc
<1>7. CASE TileStopped(w)
  BY <1>7, EndEffect, StatusEffect
  DEF TypeInv, TypeOK, Numbered, TileStopped, sourceVars, tileVars, taskVars, history,
      Status
<1>8. CASE TileFinish(w)
  BY <1>8, StepEffect, StatusEffect
  DEF TypeInv, TypeOK, Numbered, TileFinish, sourceVars, tileVars, taskVars, history, On,
      TilePc, Status
<1>9. CASE TileLink(w)
  BY <1>9, EndEffect
  DEF TypeInv, TypeOK, Numbered, TileLink, sourceVars, tileVars, taskVars, history, Urls
<1>10. CASE PublishTake(w)
  BY <1>10, TakeEffect
  DEF TypeInv, TypeOK, Numbered, PublishTake, sourceVars, tileVars, taskVars, history,
      PublishPc
<1>11. CASE PublishStart(w)
  BY <1>11, StepEffect, StatusEffect
  DEF TypeInv, TypeOK, Numbered, PublishStart, sourceVars, tileVars, taskVars, history,
      SetIfSeen, On, PublishPc, Status
<1>12. CASE PublishLayer(w)
  BY <1>12, StepEffect
  DEF TypeInv, TypeOK, Numbered, PublishLayer, sourceVars, tileVars, taskVars, history, On,
      PublishPc, Urls
<1>13. CASE PublishDone(w)
  BY <1>13, EndEffect, StatusEffect
  DEF TypeInv, TypeOK, Numbered, PublishDone, sourceVars, tileVars, taskVars, history,
      Status
<1>14. CASE Raises(w)
  BY <1>14, StepEffect, ConstantsAssumption
  DEF TypeInv, TypeOK, Numbered, Raises, sourceVars, tileVars, taskVars, history, FailPc,
      Fails
<1>15. CASE FailRead(w)
  BY <1>15, StepEffect
  DEF TypeInv, TypeOK, Numbered, FailRead, sourceVars, tileVars, taskVars, history, On,
      FailPc
<1>16. CASE FailWrite(w)
  BY <1>16, StepEffect, StatusEffect
  DEF TypeInv, TypeOK, Numbered, FailWrite, sourceVars, tileVars, taskVars, history, On,
      FailPc, Status
<1>17. CASE FailRetry(w)
  BY <1>17, EndEffect, RetryEffect
  DEF TypeInv, TypeOK, Numbered, FailRetry, sourceVars, tileVars, taskVars, history, On,
      Idle
<1>18. CASE WorkerDies(w)
  BY <1>18, EndEffect, ConstantsAssumption
  DEF TypeInv, TypeOK, Numbered, WorkerDies, sourceVars, tileVars, taskVars, history, Fails,
      Task
<1>19. CASE Escapes(w)
  BY <1>19, EndEffect, ConstantsAssumption
  DEF TypeInv, TypeOK, Numbered, Escapes, sourceVars, tileVars, taskVars, history, Fails,
      Strays
<1> QED
  BY <1>1, <1>2, <1>3, <1>4, <1>5, <1>6, <1>7, <1>8, <1>9, <1>10, <1>11, <1>12, <1>13,
     <1>14, <1>15, <1>16, <1>17, <1>18, <1>19
  DEF WorkerStep

LEMMA TypeStep ==
    ASSUME TypeInv, [Next]_vars
    PROVE  TypeInv'
<1>1. CASE BatchStarts \/ BatchSettles
  BY <1>1
  DEF TypeInv, TypeOK, Numbered, BatchStarts, BatchSettles, tileVars, taskVars, history
<1>2. CASE Revoke
  BY <1>2, EndEffect DEF TypeInv, TypeOK, Numbered, Revoke, Strays, sourceVars, tileVars
<1>3. CASE ApiDies
  BY <1>3, ConstantsAssumption
  DEF TypeInv, TypeOK, Numbered, ApiDies, Fails, Strays, Idle, sourceVars, tileVars, taskVars
<1>4. CASE UNCHANGED vars
  BY <1>4 DEF TypeInv, TypeOK, Numbered, vars
<1> QED
  BY <1>1, <1>2, <1>3, <1>4, BeginsType, RequestType, WorkerType DEF Next

\* Every reachable state is well typed.
THEOREM TypeCorrectness == Spec => []TypeOK
<1>1. Init => TypeInv
  BY InitType DEF Init, TypeInv, Numbered, Idle
<1> QED
  BY <1>1, TypeStep, PTL DEF Spec, TypeInv

LEMMA TilesStep ==
    ASSUME TypeInv, TilesInv, [Next]_vars
    PROVE  TilesInv'
<1>1. ASSUME NEW r \in Requests, RequestBegins(r) \/ RequestStep(r)
      PROVE  TilesInv'
  <2>1. CASE RequestBegins(r)
    BY <2>1
    DEF TilesInv, RequestBegins, Handoff, TileSend, Retry, Retile, PublishRead, SaveRead,
        CancelRead, DeleteRead, sourceVars, tileVars, taskVars, history
  <2>2. CASE SaveLayer(r)
    BY <2>2 DEF TilesInv, SaveLayer, sourceVars, taskVars
  <2>3. CASE DeleteFiles(r) \/ DeleteRow(r)
    BY <2>3, NoneAssumption DEF TilesInv, DeleteFiles, DeleteRow, Urls, taskVars, history
  <2>4. CASE RequestStep(r) /\ ~(SaveLayer(r) \/ DeleteFiles(r) \/ DeleteRow(r))
    <3>1. UNCHANGED <<layer, tiles, work, deleted>>
      BY <2>4
      DEF RequestStep, HandoffRejected, HandoffCreate, StartTiling, RetileLease, RetileSend,
          RetileFails, RetileDrop, PublishMark, PublishSend, PublishRefused, PublishTask,
          SaveDone, CancelWrite, DeleteSource, DeleteSession, sourceVars, tileVars,
          taskVars, history
    <3> QED
      BY <3>1 DEF TilesInv
  <2> QED
    BY <1>1, <2>1, <2>2, <2>3, <2>4
<1>2. ASSUME NEW w \in Workers, WorkerStep(w) \/ WorkerDies(w)
      PROVE  TilesInv'
  <2>1. CASE TileTake(w)
    BY <2>1, TakeEffect
    DEF TypeInv, TilesInv, TileTake, sourceVars, tileVars, taskVars, history, TilePc
  <2>2. CASE TileMark(w)
    BY <2>2, StepEffect
    DEF TypeInv, TilesInv, TileMark, sourceVars, tileVars, taskVars, history, On, TilePc
  <2>3. CASE TilePlace(w)
    BY <2>3, StepEffect
    DEF TypeInv, TilesInv, TilePlace, sourceVars, tileVars, taskVars, history, On, TilePc
  <2>4. CASE TileSome(w)
    BY <2>4 DEF TypeInv, TilesInv, TileSome, sourceVars, tileVars, taskVars, history, On
  <2>5. CASE TileAll(w)
    BY <2>5, StepEffect
    DEF TypeInv, TilesInv, TileAll, sourceVars, tileVars, taskVars, history, On, TilePc
  <2>6. CASE TileStop(w)
    BY <2>6, StepEffect
    DEF TypeInv, TilesInv, TileStop, sourceVars, tileVars, taskVars, history, On, TilePc,
        FailPc
  <2>7. CASE TileStopped(w)
    BY <2>7, EndEffect
    DEF TypeInv, TilesInv, TileStopped, sourceVars, tileVars, taskVars, history
  <2>8. CASE TileFinish(w)
    BY <2>8, StepEffect
    DEF TypeInv, TilesInv, TileFinish, sourceVars, tileVars, taskVars, history, On, TilePc
  <2>9. CASE TileLink(w)
    BY <2>9, EndEffect
    DEF TypeInv, TilesInv, TileLink, sourceVars, tileVars, taskVars, history, On
  <2>10. CASE PublishTake(w)
    BY <2>10, TakeEffect
    DEF TypeInv, TilesInv, PublishTake, sourceVars, tileVars, taskVars, history, PublishPc
  <2>11. CASE PublishStart(w)
    BY <2>11, StepEffect
    DEF TypeInv, TilesInv, PublishStart, sourceVars, tileVars, taskVars, history, On,
        PublishPc
  <2>12. CASE PublishLayer(w)
    BY <2>12, StepEffect
    DEF TypeInv, TilesInv, PublishLayer, sourceVars, tileVars, taskVars, history, On,
        PublishPc
  <2>13. CASE PublishDone(w)
    BY <2>13, EndEffect
    DEF TypeInv, TilesInv, PublishDone, sourceVars, tileVars, taskVars, history
  <2>14. CASE Raises(w)
    BY <2>14, StepEffect
    DEF TypeInv, TilesInv, Raises, sourceVars, tileVars, taskVars, history, FailPc
  <2>15. CASE FailRead(w)
    BY <2>15, StepEffect
    DEF TypeInv, TilesInv, FailRead, sourceVars, tileVars, taskVars, history, On, FailPc
  <2>16. CASE FailWrite(w)
    BY <2>16, StepEffect
    DEF TypeInv, TilesInv, FailWrite, sourceVars, tileVars, taskVars, history, On, FailPc
  <2>17. CASE FailRetry(w)
    BY <2>17, EndEffect
    DEF TypeInv, TilesInv, FailRetry, sourceVars, tileVars, taskVars, history, On, Idle
  <2>18. CASE WorkerDies(w)
    BY <2>18, EndEffect
    DEF TypeInv, TilesInv, WorkerDies, sourceVars, tileVars, taskVars, history
  <2>19. CASE Escapes(w)
    BY <2>19, EndEffect
    DEF TypeInv, TilesInv, Escapes, sourceVars, tileVars, taskVars, history
  <2> QED
    BY <1>2, <2>1, <2>2, <2>3, <2>4, <2>5, <2>6, <2>7, <2>8, <2>9, <2>10, <2>11, <2>12,
       <2>13, <2>14, <2>15, <2>16, <2>17, <2>18, <2>19
    DEF WorkerStep
<1>3. CASE BatchStarts \/ BatchSettles \/ ApiDies \/ UNCHANGED vars
  BY <1>3
  DEF TilesInv, BatchStarts, BatchSettles, ApiDies, vars, tileVars, taskVars, history
<1>4. CASE Revoke
  BY <1>4, EndEffect DEF TypeInv, TilesInv, Revoke, tileVars
<1> QED
  BY <1>1, <1>2, <1>3, <1>4 DEF Next

LEMMA DoneStep ==
    ASSUME TypeInv, TypeInv', DoneInv, [Next]_vars
    PROVE  DoneInv'
<1>1. ASSUME NEW r \in Requests, RequestBegins(r) \/ RequestStep(r)
      PROVE  DoneInv'
  <2>1. CASE Handoff(r)
    BY <1>1, <2>1, NextNumber
    DEF TypeInv, DoneInv, Real, Linked, Settling, At, On, Is, HasRow, Handoff, sourceVars,
        tileVars, taskVars, history, Opens
  <2>2. CASE TileSend(r)
    BY <1>1, <2>2, NextNumber, BeginEffect, SendEffect
    DEF TypeInv, DoneInv, Real, Linked, Settling, At, On, Is, HasRow, TileSend, sourceVars,
        tileVars, taskVars, history, Opens, Ready, RequestPc
  <2>3. CASE Retry(r)
    BY <1>1, <2>3, NextNumber, SendEffect
    DEF TypeInv, DoneInv, Real, Linked, Settling, At, On, Is, HasRow, Retry, sourceVars,
        tileVars, taskVars, history, Opens
  <2>4. CASE Retile(r)
    BY <1>1, <2>4, NextNumber, BeginEffect, SendEffect
    DEF TypeInv, DoneInv, Real, Linked, Settling, At, On, Is, HasRow, Retile, sourceVars,
        tileVars, taskVars, history, Opens, RequestPc
  <2>5. CASE PublishRead(r)
    BY <1>1, <2>5, NextNumber, BeginEffect
    DEF TypeInv, DoneInv, Real, Linked, Settling, At, On, Is, HasRow, PublishRead,
        sourceVars, tileVars, taskVars, history, Opens, Ready, RequestPc
  <2>6. CASE SaveRead(r)
    BY <1>1, <2>6, NextNumber, BeginEffect
    DEF TypeInv, DoneInv, Real, Linked, Settling, At, On, Is, HasRow, SaveRead, sourceVars,
        tileVars, taskVars, history, Opens, Ready, RequestPc
  <2>7. CASE CancelRead(r)
    BY <1>1, <2>7, NextNumber, BeginEffect
    DEF TypeInv, DoneInv, Real, Linked, Settling, At, On, Is, HasRow, CancelRead,
        sourceVars, tileVars, taskVars, history, Opens, RequestPc, Row
  <2>8. CASE DeleteRead(r)
    BY <1>1, <2>8, NextNumber, BeginEffect
    DEF TypeInv, DoneInv, Real, Linked, Settling, At, On, Is, HasRow, DeleteRead,
        sourceVars, tileVars, taskVars, history, Opens, RequestPc
  <2>9. CASE HandoffRejected(r)
    BY <1>1, <2>9, AnswerEffect
    DEF TypeInv, DoneInv, Real, Linked, Settling, At, On, Is, HasRow, HandoffRejected,
        sourceVars, tileVars, taskVars, history, Fails
  <2>10. CASE HandoffCreate(r)
    BY <1>1, <2>10, AnswerEffect
    DEF TypeInv, DoneInv, Real, Linked, Settling, At, On, Is, HasRow, HandoffCreate,
        sourceVars, tileVars, taskVars, history, Staged, Row, Status, Idle, Request
  <2>11. CASE StartTiling(r)
    <3>1. Is("done")' => Is("done")
      BY <2>11 DEF TypeInv, TypeOK, StartTiling, Is, HasRow, Row
    <3>2. stray => stray'
      BY <2>11 DEF StartTiling, Strays
    <3>3. Answer(r) /\ UNCHANGED <<layer, deleted, queue, work>>
      BY <2>11 DEF StartTiling, tileVars, taskVars
    <3> QED
      BY <3>1, <3>2, <3>3, AnswerEffect
      DEF TypeInv, DoneInv, Real, Linked, Settling, At, On
  <2>12. CASE RetileLease(r)
    BY <1>1, <2>12, GoEffect
    DEF TypeInv, DoneInv, Real, Linked, Settling, At, On, Is, HasRow, RetileLease,
        sourceVars, tileVars, taskVars, history, Row, Request, RequestPc
  <2>13. CASE RetileSend(r)
    <3>1. queue' # {} /\ req' \in [Requests -> {Idle} \cup Request]
          /\ req'[r].pc \notin {"saved", "row"}
          /\ \A q \in Requests : q # r => req'[q] = req[q]
      BY <2>13, GoEffect DEF TypeInv, RetileSend, Send, RequestPc, At
    <3> QED
      BY <2>13, <3>1
      DEF DoneInv, Real, Linked, Settling, At, On, Is, HasRow, RetileSend, sourceVars,
          tileVars, taskVars, history
  <2>14. CASE RetileFails(r)
    BY <1>1, <2>14, GoEffect
    DEF TypeInv, DoneInv, Real, Linked, Settling, At, On, Is, HasRow, RetileFails,
        sourceVars, tileVars, taskVars, history, Fails, RequestPc
  <2>15. CASE RetileDrop(r)
    BY <1>1, <2>15, AnswerEffect
    DEF TypeInv, DoneInv, Real, Linked, Settling, At, On, Is, HasRow, RetileDrop,
        sourceVars, tileVars, taskVars, history, Row
  <2>16. CASE PublishMark(r)
    BY <1>1, <2>16, GoEffect, StatusEffect
    DEF TypeInv, DoneInv, Real, Linked, Settling, At, On, Is, HasRow, PublishMark,
        sourceVars, tileVars, taskVars, history, RequestPc, Status
  <2>17. CASE PublishSend(r)
    <3>1. queue' # {} /\ req' \in [Requests -> {Idle} \cup Request]
          /\ req'[r].pc \notin {"saved", "row"}
          /\ \A q \in Requests : q # r => req'[q] = req[q]
      BY <2>17, GoEffect DEF TypeInv, PublishSend, Send, RequestPc, At
    <3> QED
      BY <2>17, <3>1
      DEF DoneInv, Real, Linked, Settling, At, On, Is, HasRow, PublishSend, sourceVars,
          tileVars, taskVars, history
  <2>18. CASE PublishRefused(r)
    BY <1>1, <2>18, AnswerEffect
    DEF TypeInv, DoneInv, Real, Linked, Settling, At, On, Is, HasRow, PublishRefused,
        sourceVars, tileVars, taskVars, history, Fails, Strays
  <2>19. CASE PublishTask(r)
    BY <1>1, <2>19, AnswerEffect
    DEF TypeInv, DoneInv, Real, Linked, Settling, At, On, Is, HasRow, PublishTask,
        sourceVars, tileVars, taskVars, history, Row, Idle, Request
  <2>20. CASE SaveLayer(r)
    BY <1>1, <2>20, GoEffect, AnswerEffect
    DEF TypeInv, DoneInv, Real, Linked, Settling, At, On, Is, HasRow, SaveLayer, sourceVars,
        tileVars, taskVars, history, Fails, RequestPc, Urls
  <2>21. CASE SaveDone(r)
    BY <1>1, <2>21, AnswerEffect, StatusEffect
    DEF TypeInv, DoneInv, Real, Linked, Settling, At, On, Is, HasRow, SaveDone, sourceVars,
        tileVars, taskVars, history, Status
  <2>22. CASE CancelWrite(r)
    BY <1>1, <2>22, AnswerEffect, StatusEffect
    DEF TypeInv, DoneInv, Real, Linked, Settling, At, On, Is, HasRow, CancelWrite,
        sourceVars, tileVars, taskVars, history, Status
  <2>23. CASE DeleteFiles(r)
    BY <1>1, <2>23, GoEffect
    DEF TypeInv, DoneInv, Real, Linked, Settling, At, On, Is, HasRow, DeleteFiles,
        sourceVars, tileVars, taskVars, history, RequestPc
  <2>24. CASE DeleteRow(r)
    BY <1>1, <2>24, GoEffect, AnswerEffect
    DEF TypeInv, DoneInv, Real, Linked, Settling, At, On, Is, HasRow, DeleteRow, sourceVars,
        tileVars, taskVars, history, RequestPc
  <2>25. CASE DeleteSource(r)
    BY <1>1, <2>25, GoEffect
    DEF TypeInv, DoneInv, Real, Linked, Settling, At, On, Is, HasRow, DeleteSource,
        sourceVars, tileVars, taskVars, history, RequestPc
  <2>26. CASE DeleteSession(r)
    BY <1>1, <2>26, AnswerEffect
    DEF TypeInv, DoneInv, Real, Linked, Settling, At, On, Is, HasRow, DeleteSession,
        sourceVars, tileVars, taskVars, history
  <2> QED
    BY <1>1, <2>1, <2>2, <2>3, <2>4, <2>5, <2>6, <2>7, <2>8, <2>9, <2>10, <2>11, <2>12,
       <2>13, <2>14, <2>15, <2>16, <2>17, <2>18, <2>19, <2>20, <2>21, <2>22, <2>23, <2>24,
       <2>25, <2>26
    DEF RequestBegins, RequestStep
<1>2. ASSUME NEW w \in Workers, WorkerStep(w) \/ WorkerDies(w)
      PROVE  DoneInv'
  <2>1. CASE TileTake(w)
    BY <1>2, <2>1, TakeEffect
    DEF TypeInv, DoneInv, Real, Linked, Settling, At, On, Is, HasRow, TileTake, sourceVars,
        tileVars, taskVars, history, TilePc
  <2>2. CASE TileMark(w)
    BY <1>2, <2>2, StepEffect, StatusEffect
    DEF TypeInv, DoneInv, Real, Linked, Settling, At, On, Is, HasRow, TileMark, sourceVars,
        tileVars, taskVars, history, SetIfSeen, TilePc, Status
  <2>3. CASE TilePlace(w)
    <3>1. work'[w].pc = "tiling" /\ \A v \in Workers : v # w => work'[v] = work[v]
      BY <2>3, StepEffect DEF TypeInv, TilePlace, On, TilePc
    <3>2. (layer' \in Real <=> layer \in Real) /\ deleted' = deleted
      BY <2>3, NoneAssumption DEF TilePlace, Real, Urls, history
    <3>3. UNCHANGED <<row, queue, req, stray>>
      BY <2>3 DEF TilePlace, history
    <3>4. Linked' <=> Linked
      BY <3>2 DEF Linked
    <3>5. \A v \in Workers : Settling(v) => Settling(v)'
      BY <2>3, <3>1 DEF TilePlace, On, Settling
    <3>6. \A v \in Workers : On(v, "published")' => On(v, "published")
      BY <3>1 DEF On
    <3>7. Is("done")' <=> Is("done")
      BY <3>3 DEF Is, HasRow
    <3> QED
      BY <3>2, <3>3, <3>4, <3>5, <3>6, <3>7 DEF DoneInv, At
  <2>4. CASE TileSome(w)
    BY <1>2, <2>4
    DEF TypeInv, DoneInv, Real, Linked, Settling, At, On, Is, HasRow, TileSome, sourceVars,
        tileVars, taskVars, history
  <2>5. CASE TileAll(w)
    BY <1>2, <2>5, StepEffect
    DEF TypeInv, DoneInv, Real, Linked, Settling, At, On, Is, HasRow, TileAll, sourceVars,
        tileVars, taskVars, history, TilePc
  <2>6. CASE TileStop(w)
    BY <1>2, <2>6, StepEffect
    DEF TypeInv, DoneInv, Real, Linked, Settling, At, On, Is, HasRow, TileStop, sourceVars,
        tileVars, taskVars, history, TilePc, FailPc
  <2>7. CASE TileStopped(w)
    BY <1>2, <2>7, EndEffect, StatusEffect
    DEF TypeInv, DoneInv, Real, Linked, Settling, At, On, Is, HasRow, TileStopped,
        sourceVars, tileVars, taskVars, history, Status
  <2>8. CASE TileFinish(w)
    BY <1>2, <2>8, StepEffect, StatusEffect
    DEF TypeInv, DoneInv, Real, Linked, Settling, At, On, Is, HasRow, TileFinish,
        sourceVars, tileVars, taskVars, history, TilePc, Status
  <2>9. CASE TileLink(w)
    BY <1>2, <2>9, EndEffect
    DEF TypeInv, DoneInv, Real, Linked, Settling, At, On, Is, HasRow, TileLink, sourceVars,
        tileVars, taskVars, history, Urls
  <2>10. CASE PublishTake(w)
    BY <1>2, <2>10, TakeEffect
    DEF TypeInv, DoneInv, Real, Linked, Settling, At, On, Is, HasRow, PublishTake,
        sourceVars, tileVars, taskVars, history, PublishPc
  <2>11. CASE PublishStart(w)
    BY <1>2, <2>11, StepEffect, StatusEffect
    DEF TypeInv, DoneInv, Real, Linked, Settling, At, On, Is, HasRow, PublishStart,
        sourceVars, tileVars, taskVars, history, SetIfSeen, PublishPc, Status
  <2>12. CASE PublishLayer(w)
    BY <1>2, <2>12, StepEffect
    DEF TypeInv, DoneInv, Real, Linked, Settling, At, On, Is, HasRow, PublishLayer,
        sourceVars, tileVars, taskVars, history, PublishPc, Urls
  <2>13. CASE PublishDone(w)
    BY <1>2, <2>13, EndEffect, StatusEffect
    DEF TypeInv, DoneInv, Real, Linked, Settling, At, On, Is, HasRow, PublishDone,
        sourceVars, tileVars, taskVars, history, Status
  <2>14. CASE Raises(w)
    BY <1>2, <2>14, StepEffect
    DEF TypeInv, DoneInv, Real, Linked, Settling, At, On, Is, HasRow, Raises, sourceVars,
        tileVars, taskVars, history, FailPc, Fails
  <2>15. CASE FailRead(w)
    BY <1>2, <2>15, StepEffect
    DEF TypeInv, DoneInv, Real, Linked, Settling, At, On, Is, HasRow, FailRead, sourceVars,
        tileVars, taskVars, history, FailPc
  <2>16. CASE FailWrite(w)
    BY <1>2, <2>16, StepEffect, StatusEffect
    DEF TypeInv, DoneInv, Real, Linked, Settling, At, On, Is, HasRow, FailWrite, sourceVars,
        tileVars, taskVars, history, FailPc, Status
  <2>17. CASE FailRetry(w)
    BY <1>2, <2>17, EndEffect, RetryEffect
    DEF TypeInv, DoneInv, Real, Linked, Settling, At, On, Is, HasRow, FailRetry, sourceVars,
        tileVars, taskVars, history, Idle
  <2>18. CASE WorkerDies(w)
    BY <1>2, <2>18, EndEffect
    DEF TypeInv, DoneInv, Real, Linked, Settling, At, On, Is, HasRow, WorkerDies,
        sourceVars, tileVars, taskVars, history, Fails, Task
  <2>19. CASE Escapes(w)
    BY <1>2, <2>19, EndEffect
    DEF TypeInv, DoneInv, Real, Linked, Settling, At, On, Is, HasRow, Escapes, Strays,
        sourceVars, tileVars, taskVars, history, Fails
  <2> QED
    BY <1>2, <2>1, <2>2, <2>3, <2>4, <2>5, <2>6, <2>7, <2>8, <2>9, <2>10, <2>11, <2>12,
       <2>13, <2>14, <2>15, <2>16, <2>17, <2>18, <2>19
    DEF WorkerStep
<1>3. CASE BatchStarts \/ BatchSettles
  BY <1>3
  DEF DoneInv, Real, Linked, Settling, At, On, Is, HasRow, BatchStarts, BatchSettles,
      tileVars, taskVars, history
<1>4. CASE Revoke
  BY <1>4, EndEffect
  DEF TypeInv, DoneInv, Real, Linked, Settling, At, On, Is, HasRow, Revoke, Strays,
      sourceVars, tileVars
<1>5. CASE ApiDies
  BY <1>5
  DEF DoneInv, Real, Linked, Settling, At, On, Is, HasRow, ApiDies, Strays, Idle,
      sourceVars, tileVars, taskVars
<1>6. CASE UNCHANGED vars
  BY <1>6 DEF DoneInv, Real, Linked, Settling, At, On, Is, HasRow, vars
<1> QED
  BY <1>1, <1>2, <1>3, <1>4, <1>5, <1>6 DEF Next

\* What a request may do without harm to its lease and the others'.
PinFrame(r) ==
    /\ artifact' = artifact /\ requests' = requests
    /\ \A q \in Requests : q # r => req'[q] = req[q]
    /\ req'[r].pc # "idle" => req'[r].id = req[r].id /\ req[r].pc # "idle"
    /\ Holds(r)' => Holds(r)
    /\ \/ leases' = leases
       \/ leases' = leases \ {req[r].id} /\ Holds(r) /\ ~Holds(r)'
    /\ Begun' <=> Begun
    /\ Outstanding' => Begun
    /\ req'[r].pc \notin {"idle", "handoff"} => Begun
    /\ req'[r].pc \in {"row", "source", "session"} => deleted'
    /\ deleted => deleted'

LEMMA PinKeeps ==
    ASSUME TypeInv, TypeInv', PinInv, NEW r \in Requests, PinFrame(r)
    PROVE  PinInv'
<1>1. \A q \in Requests :
          /\ req'[q].pc # "idle" => req[q].pc # "idle" /\ req'[q].id = req[q].id
          /\ Holds(q)' => Holds(q)
  BY DEF PinFrame, Holds
<1>2. \A q \in Requests : Holds(q)' /\ artifact' => req'[q].id \in leases'
  BY <1>1 DEF PinFrame, PinInv, Holds
<1>3. artifact' /\ Begun' => \E l \in leases' : \A q \in Requests : Holds(q)' => req'[q].id # l
  BY <1>1 DEF PinFrame, PinInv, Holds
<1>4. leases' \subseteq 0 .. requests'
  BY DEF PinFrame, PinInv
<1>5. \A q \in Requests :
          /\ req'[q].pc \notin {"idle", "handoff"} => Begun'
          /\ req'[q].pc \in {"row", "source", "session"} => deleted'
          /\ req'[q].pc # "idle" => req'[q].id \in 0 .. requests'
  BY <1>1 DEF PinFrame, PinInv
<1>6. \A q, s \in Requests : q # s /\ Holds(q)' /\ Holds(s)' => req'[q].id # req'[s].id
  BY <1>1 DEF PinInv, Holds
<1> QED
  BY <1>2, <1>3, <1>4, <1>5, <1>6 DEF PinInv, PinFrame, Holds

\* A request that begins may take a lease of its number.
LEMMA PinOpens ==
    ASSUME TypeInv, TypeInv', PinInv, NEW r \in Requests, requests' = requests + 1,
           artifact' = artifact, row' = row, deleted' = deleted,
           \A q \in Requests : q # r => req'[q] = req[q],
           req'[r].pc \notin {"row", "source", "session"},
           req'[r].pc # "idle" => req'[r].id \in {0, requests + 1},
           req'[r].pc \notin {"idle", "handoff"} => Begun,
           Outstanding' => Begun,
           \/ leases' = leases /\ (Holds(r)' => ~artifact)
           \/ leases' = leases \cup {requests + 1},
           Holds(r)' => req'[r].id = requests + 1
    PROVE  PinInv'
<1>1. requests \in Nat /\ leases \subseteq 0 .. requests
  BY ConstantsAssumption DEF TypeInv, TypeOK, PinInv
<1>2. leases' \subseteq 0 .. requests' /\ requests + 1 \notin leases /\ leases \subseteq leases'
  <2>1. requests + 1 \notin leases /\ requests + 1 \in 0 .. requests'
    BY <1>1
  <2>2. \A l \in leases : l \in 0 .. requests'
    BY <1>1
  <2> QED
    BY <2>1, <2>2
<1>3. \A q \in Requests : q # r /\ Holds(q)' => Holds(q) /\ req'[q].id \in 0 .. requests
  BY DEF PinInv, Holds
<1>4. artifact' /\ Begun' => \E l \in leases' : \A q \in Requests : Holds(q)' => req'[q].id # l
  <2> SUFFICES ASSUME artifact', Begun'
               PROVE  \E l \in leases' : \A q \in Requests : Holds(q)' => req'[q].id # l
    OBVIOUS
  <2>1. PICK l \in leases : \A q \in Requests : Holds(q) => req[q].id # l
    BY DEF PinInv, Begun
  <2> WITNESS l \in leases'
  <2> QED
    BY <1>2, <1>3, <2>1 DEF Holds
<1>5. \A q, s \in Requests : q # s /\ Holds(q)' /\ Holds(s)' => req'[q].id # req'[s].id
  BY <1>1, <1>3 DEF PinInv, Holds
<1>6. \A q \in Requests :
          /\ req'[q].pc \notin {"idle", "handoff"} => Begun'
          /\ req'[q].pc \in {"row", "source", "session"} => deleted'
          /\ req'[q].pc # "idle" => req'[q].id \in 0 .. requests'
  BY <1>1 DEF PinInv, Begun
<1>7. \A q \in Requests : Holds(q)' /\ artifact' => req'[q].id \in leases'
  BY <1>2 DEF PinInv, Holds
<1> QED
  BY <1>2, <1>4, <1>5, <1>6, <1>7 DEF PinInv, Begun

LEMMA PinWorker ==
    ASSUME TypeInv, TypeInv', PinInv, Outstanding,
           UNCHANGED <<req, leases, artifact, requests, deleted>>, HasRow' <=> HasRow
    PROVE  PinInv'
BY DEF PinInv, Holds, Begun, Outstanding, HasRow

\* A worker works only on what is outstanding, and no row comes or goes.
LEMMA WorkerFrame ==
    ASSUME TypeInv, NEW w \in Workers, WorkerStep(w) \/ WorkerDies(w)
    PROVE  /\ Outstanding
           /\ UNCHANGED <<req, leases, artifact, requests, deleted>>
           /\ HasRow' <=> HasRow
<1>1. Outstanding
  <2>1. CASE TileTake(w) \/ PublishTake(w)
    BY <2>1 DEF TileTake, PublishTake, Outstanding
  <2>2. ASSUME ~(TileTake(w) \/ PublishTake(w)) PROVE work[w] # Idle
    <3>1. WorkerDies(w) \/ work[w].pc # "idle"
      BY <2>2
      DEF WorkerStep, On, TileMark, TilePlace, TileSome, TileAll, TileStop, TileStopped,
          TileFinish, TileLink, PublishStart, PublishLayer, PublishDone, Raises, FailRead,
          FailWrite, FailRetry, Escapes
    <3> QED
      BY <3>1 DEF WorkerDies, Idle
  <2> QED
    BY <2>1, <2>2 DEF Outstanding
<1>2. UNCHANGED <<req, leases, artifact, requests, deleted>>
  BY
  DEF WorkerStep, sourceVars, history, TileTake, TileMark, TilePlace, TileSome, TileAll,
      TileStop, TileStopped, TileFinish, TileLink, PublishTake, PublishStart, PublishLayer,
      PublishDone, Raises, FailRead, FailWrite, FailRetry, Escapes,
      WorkerDies
<1>3. HasRow' <=> HasRow
  <2>1. CASE \/ TileMark(w) \/ PublishStart(w) \/ TileStopped(w) \/ TileFinish(w)
             \/ PublishDone(w) \/ FailWrite(w)
    BY <2>1, StatusEffect
       DEF TypeInv, TileMark, PublishStart, TileStopped, TileFinish, PublishDone, FailWrite,
           SetIfSeen, Status, HasRow
  <2>2. CASE row' = row
    BY <2>2 DEF HasRow
  <2> QED
    BY <2>1, <2>2
    DEF WorkerStep, TileTake, TilePlace, TileSome, TileAll, TileStop, TileLink,
        PublishTake, PublishLayer, Raises, FailRead, FailRetry, Escapes,
      WorkerDies
<1> QED
  BY <1>1, <1>2, <1>3

LEMMA PinStep ==
    ASSUME TypeInv, TypeInv', PinInv, [Next]_vars
    PROVE  PinInv'
<1>1. ASSUME NEW r \in Requests, RequestBegins(r)
      PROVE  PinInv'
  <2>1. CASE Handoff(r)
    <3> DEFINE place == [pc |-> "handoff", id |-> requests + 1, seen |-> "uploaded"]
    <3>1. place.pc = "handoff" /\ place.id = requests + 1
      OBVIOUS
    <3>2. req' = [req EXCEPT ![r] = place]
      BY <2>1 DEF Handoff
    <3> HIDE DEF place
    <3>3. req'[r] = place /\ \A q \in Requests : q # r => req'[q] = req[q]
      BY <3>2 DEF TypeInv, TypeOK
    <3> QED
      BY <2>1, <3>1, <3>3, PinOpens
      DEF PinInv, Holds, Begun, Outstanding, Handoff, Opens, taskVars, history
  <2>2. CASE TileSend(r)
    BY <2>2, NextNumber, BeginEffect, PinOpens
    DEF TypeInv, PinInv, Holds, Begun, Outstanding, TileSend, Opens, Ready, HasRow, Is, At,
        RequestPc, Send, sourceVars, taskVars, history
  <2>3. CASE Retry(r)
    BY <2>3, PinOpens
    DEF TypeInv, PinInv, Holds, Begun, Outstanding, Retry, Opens, Ready, HasRow, Is, At,
        RequestPc, Send, sourceVars, taskVars, history
  <2>4. CASE Retile(r)
    BY <2>4, NextNumber, BeginEffect, PinOpens
    DEF TypeInv, PinInv, Holds, Begun, Outstanding, Retile, Opens, Ready, HasRow, Is, At,
        RequestPc, Send, sourceVars, taskVars, history
  <2>5. CASE PublishRead(r)
    BY <2>5, NextNumber, BeginEffect, PinOpens
    DEF TypeInv, PinInv, Holds, Begun, Outstanding, PublishRead, Opens, Ready, HasRow, Is,
        At, RequestPc, Send, sourceVars, taskVars, history
  <2>6. CASE SaveRead(r)
    BY <2>6, NextNumber, BeginEffect, PinOpens
    DEF TypeInv, PinInv, Holds, Begun, Outstanding, SaveRead, Opens, Ready, HasRow, Is, At,
        RequestPc, Send, sourceVars, taskVars, history
  <2>7. CASE CancelRead(r)
    BY <2>7, NextNumber, BeginEffect, PinOpens
    DEF TypeInv, PinInv, Holds, Begun, Outstanding, CancelRead, Opens, Ready, HasRow, Is,
        At, RequestPc, Send, sourceVars, taskVars, history
  <2>8. CASE DeleteRead(r)
    BY <2>8, NextNumber, BeginEffect, PinOpens
    DEF TypeInv, PinInv, Holds, Begun, Outstanding, DeleteRead, Opens, Ready, HasRow, Is,
        At, RequestPc, Send, sourceVars, taskVars, history
  <2> QED
    BY <1>1, <2>1, <2>2, <2>3, <2>4, <2>5, <2>6, <2>7, <2>8 DEF RequestBegins
<1>2. ASSUME NEW r \in Requests, RequestStep(r)
      PROVE  PinInv'
  <2>1. CASE HandoffCreate(r)
    <3>1. Answer(r) /\ UNCHANGED <<requests, leases, artifact, deleted, queue, work>>
      BY <2>1 DEF HandoffCreate, sourceVars, taskVars, history
    <3>2. CASE Begun
      <4>1. Begun'
        BY <2>1, <3>2 DEF HandoffCreate, Begun, HasRow, history
      <4> QED
        BY <3>1, <3>2, <4>1, AnswerEffect, PinKeeps
        DEF TypeInv, PinFrame, Holds, Outstanding
    <3>3. CASE ~Begun
      <4>1. \A q \in Requests : q # r => req'[q] = req[q]
        BY <3>1, AnswerEffect DEF TypeInv
      <4>2. req'[r].pc = "idle" /\ req[r].pc = "handoff" /\ row' # None
        BY <2>1, <3>1, <3>3, AnswerEffect, NoneAssumption
        DEF TypeInv, TypeOK, HandoffCreate, At, Begun, HasRow, Staged, Row, Status, Idle, Request
      <4>3. artifact => req[r].id \in leases
        BY <4>2 DEF PinInv, Holds
      <4>4. artifact' /\ Begun' => \E l \in leases' : \A q \in Requests : Holds(q)' => req'[q].id # l
        BY <3>1, <4>1, <4>2, <4>3 DEF PinInv, Holds
      <4> QED
        BY <3>1, <3>3, <4>1, <4>2, <4>4 DEF PinInv, Holds, Begun, Outstanding
    <3> QED
      BY <3>2, <3>3
  <2>2. CASE DeleteSession(r)
    <3>1. Answer(r) /\ UNCHANGED <<requests, leases, artifact, deleted, queue, work>> /\ deleted
      BY <2>2 DEF DeleteSession, PinInv, At, sourceVars, taskVars, history
    <3> QED
      BY <3>1, AnswerEffect, PinKeeps
      DEF TypeInv, PinInv, PinFrame, Holds, Begun, Outstanding
  <2>3. CASE HandoffRejected(r)
    <3>1. Begun' <=> Begun
      BY <2>3 DEF PinInv, HandoffRejected, At, Begun, sourceVars, tileVars, history
    <3> QED
      BY <2>3, <3>1, AnswerEffect, PinKeeps
      DEF TypeInv, PinInv, PinFrame, Holds, Outstanding, HandoffRejected, At, sourceVars,
          taskVars, history
  <2>4. CASE StartTiling(r)
    <3>1. Begun' <=> Begun
      <4>1. req[r].id \in Ids /\ req[r].id \in Leases
        BY <2>4 DEF TypeInv, TypeOK, Numbered, StartTiling, At, Idle, Ids, Leases
      <4>2. row # None => row' \in Row
        BY <2>4, <4>1 DEF TypeInv, TypeOK, StartTiling, HasRow, Row, Status
      <4>3. (row = None => row' = None) /\ deleted' = deleted
        BY <2>4 DEF StartTiling, HasRow, history
      <4> QED
        BY <4>2, <4>3, NoneAssumption DEF Begun
    <3> QED
      BY <2>4, <3>1, AnswerEffect, PinKeeps
      DEF TypeInv, PinInv, PinFrame, Holds, Outstanding, StartTiling, At, sourceVars,
          taskVars, history
  <2>5. CASE RetileLease(r)
    <3>1. Begun' <=> Begun
      <4>1. req[r].id \in Ids /\ req[r].id \in Leases
        BY <2>5 DEF TypeInv, TypeOK, Numbered, RetileLease, At, Idle, Ids, Leases
      <4>2. row # None => row' \in Row
        BY <2>5, <4>1 DEF TypeInv, TypeOK, RetileLease, HasRow, Row
      <4>3. (row = None => row' = None) /\ deleted' = deleted
        BY <2>5 DEF RetileLease, HasRow, history
      <4> QED
        BY <4>2, <4>3, NoneAssumption DEF Begun
    <3> QED
      BY <2>5, <3>1, GoEffect, PinKeeps
      DEF TypeInv, PinInv, PinFrame, Holds, Outstanding, RetileLease, At, sourceVars,
          taskVars, history, RequestPc
  <2>6. CASE RetileSend(r)
    <3>1. Begun' <=> Begun
      BY <2>6 DEF PinInv, RetileSend, At, Begun, sourceVars, tileVars, history
    <3> QED
      BY <2>6, <3>1, GoEffect, PinKeeps
      DEF TypeInv, PinInv, PinFrame, Holds, Outstanding, RetileSend, At, sourceVars,
          taskVars, history, RequestPc
  <2>7. CASE RetileFails(r)
    <3>1. Begun' <=> Begun
      BY <2>7 DEF PinInv, RetileFails, At, Begun, sourceVars, tileVars, history
    <3> QED
      BY <2>7, <3>1, GoEffect, PinKeeps
      DEF TypeInv, PinInv, PinFrame, Holds, Outstanding, RetileFails, At, sourceVars,
          taskVars, history, RequestPc
  <2>8. CASE RetileDrop(r)
    <3>1. Begun' <=> Begun
      <4>1. req[r].id \in Ids /\ req[r].id \in Leases
        BY <2>8 DEF TypeInv, TypeOK, Numbered, RetileDrop, At, Idle, Ids, Leases
      <4>2. row # None => row' \in Row
        BY <2>8, <4>1 DEF TypeInv, TypeOK, RetileDrop, HasRow, Row
      <4>3. (row = None => row' = None) /\ deleted' = deleted
        BY <2>8 DEF RetileDrop, HasRow, history
      <4> QED
        BY <4>2, <4>3, NoneAssumption DEF Begun
    <3> QED
      BY <2>8, <3>1, AnswerEffect, PinKeeps
      DEF TypeInv, PinInv, PinFrame, Holds, Outstanding, RetileDrop, At, sourceVars,
          taskVars, history
  <2>9. CASE PublishMark(r)
    <3>1. Begun' <=> Begun
      BY <2>9, StatusEffect DEF TypeInv, PublishMark, Begun, HasRow, Status, history
    <3> QED
      BY <2>9, <3>1, GoEffect, PinKeeps
      DEF TypeInv, PinInv, PinFrame, Holds, Outstanding, PublishMark, At, sourceVars,
          taskVars, history, RequestPc
  <2>10. CASE PublishSend(r)
    <3>1. Begun' <=> Begun
      BY <2>10 DEF PinInv, PublishSend, At, Begun, sourceVars, tileVars, history
    <3>2. Begun /\ Begun'
      BY <2>10, <3>1 DEF PinInv, PublishSend, At
    <3>3. req'[r].pc = "task" /\ req'[r].id = req[r].id /\ \A q \in Requests : q # r => req'[q] = req[q]
      BY <2>10, GoEffect DEF TypeInv, PublishSend, At, RequestPc
    <3>4. PinFrame(r)
      BY <2>10, <3>2, <3>3 DEF PinFrame, Holds, PublishSend, At, sourceVars, history
    <3> QED
      BY <3>4, PinKeeps
  <2>11. CASE PublishRefused(r)
    <3>1. Begun' <=> Begun
      BY <2>11 DEF PinInv, PublishRefused, At, Begun, sourceVars, tileVars, history
    <3> QED
      BY <2>11, <3>1, AnswerEffect, PinKeeps
      DEF TypeInv, PinInv, PinFrame, Holds, Outstanding, PublishRefused, At, sourceVars,
          taskVars, history
  <2>12. CASE PublishTask(r)
    <3>1. Begun' <=> Begun
      <4>1. req[r].id \in Ids /\ req[r].id \in Leases
        BY <2>12 DEF TypeInv, TypeOK, Numbered, PublishTask, At, Idle, Ids, Leases
      <4>2. row # None => row' \in Row
        BY <2>12, <4>1 DEF TypeInv, TypeOK, PublishTask, HasRow, Row
      <4>3. (row = None => row' = None) /\ deleted' = deleted
        BY <2>12 DEF PublishTask, HasRow, history
      <4> QED
        BY <4>2, <4>3, NoneAssumption DEF Begun
    <3> QED
      BY <2>12, <3>1, AnswerEffect, PinKeeps
      DEF TypeInv, PinInv, PinFrame, Holds, Outstanding, PublishTask, At, sourceVars,
          taskVars, history
  <2>13. CASE SaveLayer(r)
    <3>1. Begun' <=> Begun
      BY <2>13 DEF PinInv, SaveLayer, At, Begun, sourceVars, tileVars, history
    <3> QED
      BY <2>13, <3>1, GoEffect, AnswerEffect, PinKeeps
      DEF TypeInv, PinInv, PinFrame, Holds, Outstanding, SaveLayer, At, sourceVars,
          taskVars, history, RequestPc
  <2>14. CASE SaveDone(r)
    <3>1. Begun' <=> Begun
      BY <2>14, StatusEffect DEF TypeInv, SaveDone, Begun, HasRow, Status, history
    <3> QED
      BY <2>14, <3>1, AnswerEffect, PinKeeps
      DEF TypeInv, PinInv, PinFrame, Holds, Outstanding, SaveDone, At, sourceVars, taskVars,
          history
  <2>15. CASE CancelWrite(r)
    <3>1. Begun' <=> Begun
      BY <2>15, StatusEffect DEF TypeInv, CancelWrite, Begun, HasRow, Status, history
    <3> QED
      BY <2>15, <3>1, AnswerEffect, PinKeeps
      DEF TypeInv, PinInv, PinFrame, Holds, Outstanding, CancelWrite, At, sourceVars,
          taskVars, history
  <2>16. CASE DeleteFiles(r)
    <3>1. Begun' <=> Begun
      BY <2>16 DEF PinInv, DeleteFiles, At, Begun, sourceVars, tileVars, history
    <3> QED
      BY <2>16, <3>1, GoEffect, PinKeeps
      DEF TypeInv, PinInv, PinFrame, Holds, Outstanding, DeleteFiles, At, sourceVars,
          taskVars, history, RequestPc
  <2>17. CASE DeleteRow(r)
    <3>1. Begun' <=> Begun
      BY <2>17 DEF PinInv, DeleteRow, At, Begun, sourceVars, tileVars, history
    <3> QED
      BY <2>17, <3>1, GoEffect, AnswerEffect, PinKeeps
      DEF TypeInv, PinInv, PinFrame, Holds, Outstanding, DeleteRow, At, sourceVars,
          taskVars, history, RequestPc
  <2>18. CASE DeleteSource(r)
    <3>1. Begun' <=> Begun
      BY <2>18 DEF PinInv, DeleteSource, At, Begun, sourceVars, tileVars, history
    <3> QED
      BY <2>18, <3>1, GoEffect, PinKeeps
      DEF TypeInv, PinInv, PinFrame, Holds, Outstanding, DeleteSource, At, sourceVars,
          taskVars, history, RequestPc
  <2> QED
    BY <1>2, <2>1, <2>2, <2>3, <2>4, <2>5, <2>6, <2>7, <2>8, <2>9, <2>10, <2>11, <2>12,
       <2>13, <2>14, <2>15, <2>16, <2>17, <2>18
    DEF RequestStep
<1>3. ASSUME NEW w \in Workers, WorkerStep(w) \/ WorkerDies(w)
      PROVE  PinInv'
  BY <1>3, WorkerFrame, PinWorker
<1>4. CASE BatchStarts \/ BatchSettles
  <2>1. UNCHANGED <<req, work, queue, row, leases, artifact, requests, deleted>>
    BY <1>4 DEF BatchStarts, BatchSettles, taskVars, history
  <2> QED
    BY <2>1 DEF PinInv, Holds, Begun, Outstanding
<1>5. CASE Revoke
  <2>1. Outstanding /\ UNCHANGED <<req, leases, artifact, requests, deleted, row>>
    BY <1>5 DEF Revoke, Outstanding, sourceVars
  <2> QED
    BY <2>1, PinWorker DEF HasRow
<1>6. CASE ApiDies
  BY <1>6 DEF PinInv, Holds, Begun, Outstanding, ApiDies, Idle, sourceVars, taskVars
<1>7. CASE UNCHANGED vars
  BY <1>7 DEF PinInv, Holds, Begun, Outstanding, vars
<1> QED
  BY <1>1, <1>2, <1>3, <1>4, <1>5, <1>6, <1>7 DEF Next

-----------------------------------------------------------------------------
LEMMA InitInv == Init => TypeInv /\ TilesInv /\ DoneInv /\ PinInv
<1> SUFFICES ASSUME Init PROVE TypeInv /\ TilesInv /\ DoneInv /\ PinInv
  OBVIOUS
<1>1. \A r \in Requests : req[r].pc = "idle"
  BY DEF Init, Idle
<1>2. \A w \in Workers : work[w] = Idle /\ work[w].pc = "idle"
  BY DEF Init, Idle
<1>3. TypeInv
  BY <1>1, InitType DEF TypeInv, Numbered
<1>4. TilesInv
  BY <1>2, NoneAssumption DEF Init, TilesInv, Urls
<1>5. DoneInv
  <2>1. ~Is("done")
    BY NoneAssumption DEF Init, Is, HasRow, Staged
  <2> QED
    BY <1>1, <1>2, <2>1 DEF DoneInv, At, On
<1>6. PinInv
  <2>1. artifact /\ row # None => row = Staged(0)
    BY DEF Init
  <2>2. artifact /\ row # None => 0 \in leases
    BY <2>1, ConstantsAssumption DEF Init, Staged
  <2>3. leases \subseteq 0 .. requests
    BY ConstantsAssumption DEF Init, Staged
  <2> QED
    BY <1>1, <1>2, <2>2, <2>3 DEF Init, PinInv, Holds, Begun, Outstanding
<1> QED
  BY <1>3, <1>4, <1>5, <1>6

\* No partial tiling is served: through failures, retries, redeliveries, cancels and
\* retiles a layer that shows tiles has a directory that a tiling went through to its
\* end, until a deletion takes it.  Single tiles may be missing (TileAll).
THEOREM TilingsAreFinished == Spec => []TilesAreFinished
<1>1. TilesInv => TilesAreFinished
  BY DEF TilesInv, TilesAreFinished
<1> QED
  BY <1>1, InitInv, TypeStep, TilesStep, PTL DEF Spec

\* A session that is done has a layer with a URL, or a task that will give it one or
\* write another status, though status and layer are written apart.
THEOREM DoneKeepsLayer == Spec => []DoneHasLayer
<1>1. TypeInv /\ DoneInv => DoneHasLayer
  BY DEF TypeInv, DoneInv, DoneHasLayer, Settling, Linked, Real, Outstanding, Idle
<1> QED
  BY <1>1, InitInv, TypeStep, DoneStep, PTL DEF Spec

\* Through hand-offs, retiles, failures of the broker and deletions, a task of an
\* artifact never runs without a lease on it.
THEOREM ArtifactsArePinned == Spec => []ArtifactIsPinned
<1>1. PinInv => ArtifactIsPinned
  BY DEF PinInv, ArtifactIsPinned
<1> QED
  BY <1>1, InitInv, TypeStep, PinStep, PTL DEF Spec
=============================================================================
