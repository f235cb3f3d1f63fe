------------------------ MODULE OverlayAnalysisProofs -----------------------
(***************************************************************************)
(* Proofs about OverlayAnalysis for any number of runs, requests, workers, *)
(* calls, retries and failures.                                            *)
(***************************************************************************)
EXTENDS OverlayAnalysis, TLAPS

\* The places of a process that computes a run, of one that creates its rows, and of
\* one that removes them.
CarryPc == RunPc \ {"files", "rows"}
CreatePc == {"load", "compute", "store", "sources", "layer", "result", "place", "pend"}
RequestPc == CreatePc \cup {"send", "files", "rows", "sweep", "idle"}
WorkerPc == {"load", "compute", "store", "sources", "result", "fill", "fail", "drop",
             "retry", "mark", "idle"}
Carries(p, r) == at[p].pc \in CarryPc /\ Run(p) = r
Removes(p, r) == \/ at[p].pc \in {"files", "rows"} /\ Run(p) = r
                 \/ at[p].pc = "sweep" /\ r \in at[p].list

\* Each process is at a place of its kind.
TypeInv ==
    /\ TypeOK
    /\ \A q \in Requests :
          at[q].pc \in RequestPc /\ (at[q].pc = "sweep" => at[q].todo \subseteq at[q].list)
    /\ \A w \in Workers : at[w].pc \in WorkerPc

\* A run that was not asked for has nothing.
FreshInv ==
    \A r \in Runs \ started :
        /\ result[r] = None /\ layer[r] = "none" /\ files[r] = {} /\ r \notin saved
        /\ \A m \in queue : m.run # r
        /\ \A p \in Processes : ~Carries(p, r) /\ ~Removes(p, r)

\* One message or one process computes a run.
CarrierInv ==
    /\ \A m, n \in queue : m.run = n.run => m = n
    /\ \A m \in queue : \A p \in Processes : ~Carries(p, m.run)
    /\ \A r \in Runs : \A p, s \in Processes : Carries(p, r) /\ Carries(s, r) => p = s

\* A request that creates a run has it for itself until the result has its row.
Created(q, r) ==
    /\ result[r] = None
    /\ r \notin saved
    /\ \A p \in Processes : ~Removes(p, r)
    /\ at[q].pc \in {"load", "compute", "store", "sources"} => layer[r] = "none"
    /\ at[q].pc \in {"result", "pend"} => layer[r] # "none"
    /\ at[q].pc \in {"load", "compute", "store", "place", "pend"} => files[r] = {}
    /\ at[q].pc = "sources" => "result" \in files[r]
    /\ at[q].pc \in {"layer", "result"} => Complete(r) \subseteq files[r]
CreateInv ==
    \A q \in Requests, r \in Runs : at[q].pc \in CreatePc /\ Carries(q, r) => Created(q, r)

\* What a worker has stored stays until it is removed, and a run that a worker
\* computes is not done.
Clearing(q, r) == at[q].pc \in {"rows", "sweep"} /\ Removes(q, r)
Excused(r) == result[r] = None \/ (\E q \in Requests : Clearing(q, r)) \/ cut
Kept(r, stored) == stored \subseteq files[r] \/ Excused(r)
Computed(w, r) ==
    /\ at[w].pc \in {"load", "compute", "store", "sources", "result", "fail"} =>
              ~Is(r, "done")
    /\ at[w].pc = "sources" => Kept(r, {"result"})
    /\ at[w].pc = "result" => Kept(r, Complete(r))
ComputeInv == \A w \in Workers, r \in Runs : Carries(w, r) => Computed(w, r)

\* A saved result is not listed by a cleanup, and no removal has it.
SaveInv ==
    \A r \in saved \ crossed :
        /\ result[r] # None
        /\ ~result[r].ephemeral
        /\ \A p \in Processes : ~Removes(p, r)

\* Without a crossing a removal has its run for itself, and knows of its files.
Names(path, r) == files[r] = {} \/ (path /\ "result" \in files[r])
Aware(q, r) ==
    /\ at[q].pc = "files" => Names(at[q].path, r)
    /\ at[q].pc = "rows" => files[r] = {}
    /\ at[q].pc = "sweep" => IF r \in at[q].todo THEN Names(r \in at[q].paths, r)
                             ELSE files[r] = {}
Removed(q, r) ==
    /\ \A m \in queue : m.run # r
    /\ \A p \in Processes : ~Carries(p, r)
    /\ \A p \in Processes : Removes(p, r) => p = q
    /\ r \notin left => Aware(q, r)
RemoveInv ==
    ~cut => \A r \in Runs \ crossed : \A q \in Requests : Removes(q, r) => Removed(q, r)

\* A run without a crossing has a row that names its files, or has nothing.
GoneInv ==
    ~cut => \A r \in started \ crossed :
        /\ result[r] # None /\ r \notin left =>
              \/ Names(result[r].path, r)
              \/ \E w \in Workers : at[w].pc \in {"sources", "result"} /\ Carries(w, r)
        /\ result[r] = None =>
              \/ \E q \in Requests : at[q].pc \in CreatePc /\ Carries(q, r)
              \/ /\ \A m \in queue : m.run # r
                 /\ \A p \in Processes : ~Carries(p, r)
                 /\ r \notin left => files[r] = {} /\ layer[r] = "none"

\* A result has its layer, and its files if it is done, until it is being removed.
WholeInv ==
    \A r \in Runs :
        /\ result[r] # None => layer[r] # "none"
        /\ Is(r, "done") => Kept(r, Complete(r))

-----------------------------------------------------------------------------
(* What the steps do to the place of a process and to a row.               *)

LEMMA OnRunPlace ==
    ASSUME TypeOK, NEW p \in Processes, at[p].pc \in RunPc
    PROVE  at[p] \in OnRun /\ Run(p) \in Runs /\ at[p].msg \in Message
BY DEF TypeOK, Idle, OnRun, OnList, RunPc, Run, Message

LEMMA OnListPlace ==
    ASSUME TypeOK, NEW p \in Processes, at[p].pc = "sweep"
    PROVE  at[p] \in OnList
BY DEF TypeOK, Idle, OnRun, OnList, RunPc

LEMMA IdlePlace ==
    ASSUME TypeOK, NEW p \in Processes, at[p].pc = "idle"
    PROVE  at[p] = Idle
BY DEF TypeOK, Idle, OnRun, OnList, RunPc

LEMMA GoesEffect ==
    ASSUME TypeOK, NEW p \in Processes, at[p].pc \in RunPc, NEW pc \in RunPc, Goes(p, pc)
    PROVE  /\ at' \in [Processes -> {Idle} \cup OnRun \cup OnList]
           /\ at'[p].pc = pc /\ at'[p].msg = at[p].msg /\ at'[p].path = at[p].path
           /\ \A s \in Processes : s # p => at'[s] = at[s]
<1> DEFINE place == [at[p] EXCEPT !.pc = pc]
<1>1. place \in OnRun /\ place.pc = pc /\ place.msg = at[p].msg /\ place.path = at[p].path
  BY OnRunPlace DEF OnRun
<1>2. at' = [at EXCEPT ![p] = place]
  BY DEF Goes
<1> HIDE DEF place
<1> QED
  BY <1>1, <1>2 DEF TypeOK

LEMMA EntersEffect ==
    ASSUME TypeOK, NEW p \in Processes, NEW pc \in RunPc, NEW m \in Message, Enters(p, pc, m)
    PROVE  /\ at' \in [Processes -> {Idle} \cup OnRun \cup OnList]
           /\ at'[p].pc = pc /\ at'[p].msg = m
           /\ \A s \in Processes : s # p => at'[s] = at[s]
<1> DEFINE place == [pc |-> pc, msg |-> m, path |-> FALSE]
<1>1. place \in OnRun /\ place.pc = pc /\ place.msg = m
  BY DEF OnRun
<1>2. at' = [at EXCEPT ![p] = place]
  BY DEF Enters
<1> HIDE DEF place
<1> QED
  BY <1>1, <1>2 DEF TypeOK

LEMMA EndsEffect ==
    ASSUME TypeOK, NEW p \in Processes, Ends(p)
    PROVE  /\ at' \in [Processes -> {Idle} \cup OnRun \cup OnList]
           /\ at'[p].pc = "idle"
           /\ \A s \in Processes : s # p => at'[s] = at[s]
<1>1. at' = [at EXCEPT ![p] = Idle]
  BY DEF Ends
<1> QED
  BY <1>1 DEF TypeOK, Idle

LEMMA SetsEffect ==
    ASSUME TypeOK, NEW r \in Runs, NEW new, HasResult(r) => new \in Result, Sets(r, new)
    PROVE  /\ result' \in [Runs -> Result \cup {None}]
           /\ result[r] = None => result' = result
           /\ result[r] # None => result'[r] = new /\ result'[r] # None
           /\ \A x \in Runs : x # r => result'[x] = result[x]
BY NoneAssumption DEF TypeOK, Sets, HasResult

LEMMA HasIs ==
    ASSUME TypeInv, NEW p \in Processes, NEW r \in Runs
    PROVE  Has(p, r) <=> Carries(p, r) \/ Removes(p, r)
<1>1. CASE at[p] = Idle
  BY <1>1 DEF Has, Carries, Removes, CarryPc, RunPc, Idle
<1>2. CASE at[p] \in OnRun
  BY <1>2 DEF Has, Carries, Removes, CarryPc, RunPc, Idle, OnRun, On
<1>3. CASE at[p] \in OnList
  BY <1>3 DEF Has, Carries, Removes, CarryPc, RunPc, Idle, OnList, On
<1> QED
  BY <1>1, <1>2, <1>3 DEF TypeInv, TypeOK

-----------------------------------------------------------------------------
(* A step of the process that computes a run, up to a removal, touches that  *)
(* run alone.                                                                *)

Stays(p, r) == at'[p].pc \in CarryPc /\ at'[p].msg = at[p].msg /\ queue' = queue
Leaves(p, r) ==
    /\ at'[p].pc = "idle"
    /\ queue' = queue \/ \E m \in Message : m.run = r /\ queue' = queue \cup {m}
Others(p, r) ==
    /\ \A s \in Processes : s # p => at'[s] = at[s]
    /\ \A x \in Runs : x # r => /\ result'[x] = result[x]
                                /\ layer'[x] = layer[x]
                                /\ files'[x] = files[x]
    /\ left \subseteq left' /\ left' \subseteq left \cup {r}
    /\ cut => cut'
Own(p, r) ==
    /\ at[p].pc \in CarryPc /\ r \in Runs
    /\ Stays(p, r) \/ Leaves(p, r)
    /\ Others(p, r)
    /\ result[r] # None => result'[r] # None /\ result'[r].ephemeral = result[r].ephemeral
    /\ UNCHANGED <<started, area, saved, crossed>>

LEMMA PlaceEffect ==
    ASSUME TypeInv, NEW q \in Requests, Place(q)
    PROVE  /\ TypeInv' /\ Own(q, Run(q))
           /\ at[q].pc = "place" /\ at'[q].pc = "pend"
           /\ layer'[Run(q)] = "empty"
           /\ UNCHANGED <<result, files, left, cut, stuck>>
<1>1. at[q].pc = "place" /\ q \in Processes
  BY DEF Place, On, Processes
<1>2. Run(q) \in Runs /\ at[q].msg \in Message /\ at[q].pc \in RunPc /\ at[q] # Idle
  BY <1>1, OnRunPlace DEF TypeInv, RunPc, Idle, CarryPc
<1>3. /\ at' \in [Processes -> {Idle} \cup OnRun \cup OnList]
      /\ at'[q].msg = at[q].msg /\ at'[q].pc = "pend"
      /\ \A s \in Processes : s # q => at'[s] = at[s]
  BY <1>1, <1>2, GoesEffect DEF TypeInv, Place, RunPc, CarryPc
<1>4. /\ result' \in [Runs -> Result \cup {None}]
      /\ layer' \in [Runs -> {"none", "empty", "whole"}]
      /\ files' \in [Runs -> SUBSET Files]
  BY <1>2 DEF TypeInv, TypeOK, Place, rows, history
<1>5. /\ \A x \in Runs : x # Run(q) => /\ result'[x] = result[x]
                                      /\ layer'[x] = layer[x]
                                      /\ files'[x] = files[x]
      /\ layer'[Run(q)] = "empty"
      /\ UNCHANGED <<result, files, left, cut, stuck>>
  BY <1>2, NoneAssumption DEF TypeInv, TypeOK, Place, rows, history
<1>6. /\ UNCHANGED <<started, area, old, calls, saved, crossed>>
      /\ queue' = queue
      /\ left \subseteq left' /\ left' \subseteq left \cup {Run(q)}
      /\ cut => cut'
      /\ failures' \in 0 .. MaxFailures /\ cut' \in BOOLEAN /\ stuck' \subseteq Runs
  BY <1>1, ConstantsAssumption DEF TypeInv, TypeOK, Place, history
<1>7. TypeOK'
  BY <1>2, <1>3, <1>4, <1>6 DEF TypeInv, TypeOK
<1>8. TypeInv'
  BY <1>1, <1>3, <1>7, ConstantsAssumption
  DEF TypeInv, Processes, RequestPc, CreatePc, WorkerPc
<1> QED
  BY <1>1, <1>2, <1>3, <1>4, <1>5, <1>6, <1>8, NoneAssumption
     DEF Own, Stays, Leaves, Others, CarryPc, RunPc

LEMMA PendEffect ==
    ASSUME TypeInv, NEW q \in Requests, Pend(q), result[Run(q)] = None
    PROVE  /\ TypeInv' /\ Own(q, Run(q))
           /\ at[q].pc = "pend" /\ at'[q].pc = "send"
           /\ result'[Run(q)] = [status |-> "pending", path |-> FALSE, ephemeral |-> TRUE]
           /\ UNCHANGED <<layer, files, left, cut, stuck>>
<1>1. at[q].pc = "pend" /\ q \in Processes
  BY DEF Pend, On, Processes
<1>2. Run(q) \in Runs /\ at[q].msg \in Message /\ at[q].pc \in RunPc /\ at[q] # Idle
  BY <1>1, OnRunPlace DEF TypeInv, RunPc, Idle, CarryPc
<1>3. /\ at' \in [Processes -> {Idle} \cup OnRun \cup OnList]
      /\ at'[q].msg = at[q].msg /\ at'[q].pc = "send"
      /\ \A s \in Processes : s # q => at'[s] = at[s]
  BY <1>1, <1>2, GoesEffect DEF TypeInv, Pend, RunPc, CarryPc
<1>4. /\ result' \in [Runs -> Result \cup {None}]
      /\ layer' \in [Runs -> {"none", "empty", "whole"}]
      /\ files' \in [Runs -> SUBSET Files]
  BY <1>2 DEF TypeInv, TypeOK, Pend, rows, history, Result, ResultStatus
<1>5. /\ \A x \in Runs : x # Run(q) => /\ result'[x] = result[x]
                                      /\ layer'[x] = layer[x]
                                      /\ files'[x] = files[x]
      /\ result'[Run(q)] = [status |-> "pending", path |-> FALSE, ephemeral |-> TRUE]
      /\ UNCHANGED <<layer, files, left, cut, stuck>>
  BY <1>2, NoneAssumption DEF TypeInv, TypeOK, Pend, rows, history, Result, ResultStatus
<1>6. /\ UNCHANGED <<started, area, old, calls, saved, crossed>>
      /\ queue' = queue
      /\ left \subseteq left' /\ left' \subseteq left \cup {Run(q)}
      /\ cut => cut'
      /\ failures' \in 0 .. MaxFailures /\ cut' \in BOOLEAN /\ stuck' \subseteq Runs
  BY <1>1, ConstantsAssumption DEF TypeInv, TypeOK, Pend, history
<1>7. TypeOK'
  BY <1>2, <1>3, <1>4, <1>6 DEF TypeInv, TypeOK
<1>8. TypeInv'
  BY <1>1, <1>3, <1>7, ConstantsAssumption
  DEF TypeInv, Processes, RequestPc, CreatePc, WorkerPc
<1> QED
  BY <1>1, <1>2, <1>3, <1>4, <1>5, <1>6, <1>8, NoneAssumption
     DEF Own, Stays, Leaves, Others, CarryPc, RunPc

LEMMA SendEffect ==
    ASSUME TypeInv, NEW q \in Requests, Send(q)
    PROVE  /\ TypeInv' /\ Own(q, Run(q))
           /\ at[q].pc = "send" /\ at'[q].pc = "idle"
           /\ UNCHANGED <<result, layer, files, left, cut, stuck>>
<1>1. at[q].pc = "send" /\ q \in Processes
  BY DEF Send, On, Processes
<1>2. Run(q) \in Runs /\ at[q].msg \in Message /\ at[q].pc \in RunPc /\ at[q] # Idle
  BY <1>1, OnRunPlace DEF TypeInv, RunPc, Idle, CarryPc
<1>3. /\ at' \in [Processes -> {Idle} \cup OnRun \cup OnList]
      /\ at'[q].pc = "idle"
      /\ \A s \in Processes : s # q => at'[s] = at[s]
  BY <1>1, <1>2, EndsEffect DEF TypeInv, Send
<1>4. /\ result' \in [Runs -> Result \cup {None}]
      /\ layer' \in [Runs -> {"none", "empty", "whole"}]
      /\ files' \in [Runs -> SUBSET Files]
  BY <1>2 DEF TypeInv, TypeOK, Send, rows, history
<1>5. /\ \A x \in Runs : x # Run(q) => /\ result'[x] = result[x]
                                      /\ layer'[x] = layer[x]
                                      /\ files'[x] = files[x]
      /\ UNCHANGED <<result, layer, files, left, cut, stuck>>
  BY <1>2, NoneAssumption DEF TypeInv, TypeOK, Send, rows, history
<1>6. /\ UNCHANGED <<started, area, old, calls, saved, crossed>>
      /\ queue' = queue \cup {at[q].msg}
      /\ left \subseteq left' /\ left' \subseteq left \cup {Run(q)}
      /\ cut => cut'
      /\ failures' \in 0 .. MaxFailures /\ cut' \in BOOLEAN /\ stuck' \subseteq Runs
  BY <1>1, ConstantsAssumption DEF TypeInv, TypeOK, Send, history
<1>queue. queue' \subseteq Message /\ at[q].msg.run = Run(q)
  BY <1>2, <1>6 DEF TypeInv, TypeOK, Run
<1>7. TypeOK'
  BY <1>2, <1>3, <1>4, <1>6, <1>queue DEF TypeInv, TypeOK
<1>8. TypeInv'
  BY <1>1, <1>3, <1>7, ConstantsAssumption
  DEF TypeInv, Processes, RequestPc, CreatePc, WorkerPc
<1> QED
  BY <1>1, <1>2, <1>3, <1>4, <1>5, <1>6, <1>queue, <1>8, NoneAssumption
     DEF Own, Stays, Leaves, Others, CarryPc, RunPc

LEMMA SyncLayerEffect ==
    ASSUME TypeInv, NEW q \in Requests, SyncLayer(q)
    PROVE  /\ TypeInv' /\ Own(q, Run(q))
           /\ at[q].pc = "layer" /\ at'[q].pc = "result"
           /\ layer'[Run(q)] = "whole"
           /\ UNCHANGED <<result, files, left, cut, stuck>>
<1>1. at[q].pc = "layer" /\ q \in Processes
  BY DEF SyncLayer, On, Processes
<1>2. Run(q) \in Runs /\ at[q].msg \in Message /\ at[q].pc \in RunPc /\ at[q] # Idle
  BY <1>1, OnRunPlace DEF TypeInv, RunPc, Idle, CarryPc
<1>3. /\ at' \in [Processes -> {Idle} \cup OnRun \cup OnList]
      /\ at'[q].msg = at[q].msg /\ at'[q].pc = "result"
      /\ \A s \in Processes : s # q => at'[s] = at[s]
  BY <1>1, <1>2, GoesEffect DEF TypeInv, SyncLayer, RunPc, CarryPc
<1>4. /\ result' \in [Runs -> Result \cup {None}]
      /\ layer' \in [Runs -> {"none", "empty", "whole"}]
      /\ files' \in [Runs -> SUBSET Files]
  BY <1>2 DEF TypeInv, TypeOK, SyncLayer, rows, history
<1>5. /\ \A x \in Runs : x # Run(q) => /\ result'[x] = result[x]
                                      /\ layer'[x] = layer[x]
                                      /\ files'[x] = files[x]
      /\ layer'[Run(q)] = "whole"
      /\ UNCHANGED <<result, files, left, cut, stuck>>
  BY <1>2, NoneAssumption DEF TypeInv, TypeOK, SyncLayer, rows, history
<1>6. /\ UNCHANGED <<started, area, old, calls, saved, crossed>>
      /\ queue' = queue
      /\ left \subseteq left' /\ left' \subseteq left \cup {Run(q)}
      /\ cut => cut'
      /\ failures' \in 0 .. MaxFailures /\ cut' \in BOOLEAN /\ stuck' \subseteq Runs
  BY <1>1, ConstantsAssumption DEF TypeInv, TypeOK, SyncLayer, history
<1>7. TypeOK'
  BY <1>2, <1>3, <1>4, <1>6 DEF TypeInv, TypeOK
<1>8. TypeInv'
  BY <1>1, <1>3, <1>7, ConstantsAssumption
  DEF TypeInv, Processes, RequestPc, CreatePc, WorkerPc
<1> QED
  BY <1>1, <1>2, <1>3, <1>4, <1>5, <1>6, <1>8, NoneAssumption
     DEF Own, Stays, Leaves, Others, CarryPc, RunPc

LEMMA SyncResultEffect ==
    ASSUME TypeInv, NEW q \in Requests, SyncResult(q), result[Run(q)] = None
    PROVE  /\ TypeInv' /\ Own(q, Run(q))
           /\ at[q].pc = "result" /\ at'[q].pc = "idle"
           /\ result'[Run(q)] = [status |-> "done", path |-> TRUE, ephemeral |-> TRUE]
           /\ UNCHANGED <<layer, files, left, cut, stuck>>
<1>1. at[q].pc = "result" /\ q \in Processes
  BY DEF SyncResult, On, Processes
<1>2. Run(q) \in Runs /\ at[q].msg \in Message /\ at[q].pc \in RunPc /\ at[q] # Idle
  BY <1>1, OnRunPlace DEF TypeInv, RunPc, Idle, CarryPc
<1>3. /\ at' \in [Processes -> {Idle} \cup OnRun \cup OnList]
      /\ at'[q].pc = "idle"
      /\ \A s \in Processes : s # q => at'[s] = at[s]
  BY <1>1, <1>2, EndsEffect DEF TypeInv, SyncResult
<1>4. /\ result' \in [Runs -> Result \cup {None}]
      /\ layer' \in [Runs -> {"none", "empty", "whole"}]
      /\ files' \in [Runs -> SUBSET Files]
  BY <1>2 DEF TypeInv, TypeOK, SyncResult, rows, history, Result, ResultStatus
<1>5. /\ \A x \in Runs : x # Run(q) => /\ result'[x] = result[x]
                                      /\ layer'[x] = layer[x]
                                      /\ files'[x] = files[x]
      /\ result'[Run(q)] = [status |-> "done", path |-> TRUE, ephemeral |-> TRUE]
      /\ UNCHANGED <<layer, files, left, cut, stuck>>
  BY <1>2, NoneAssumption
  DEF TypeInv, TypeOK, SyncResult, rows, history, Result, ResultStatus
<1>6. /\ UNCHANGED <<started, area, old, calls, saved, crossed>>
      /\ queue' = queue
      /\ left \subseteq left' /\ left' \subseteq left \cup {Run(q)}
      /\ cut => cut'
      /\ failures' \in 0 .. MaxFailures /\ cut' \in BOOLEAN /\ stuck' \subseteq Runs
  BY <1>1, ConstantsAssumption DEF TypeInv, TypeOK, SyncResult, history
<1>7. TypeOK'
  BY <1>2, <1>3, <1>4, <1>6 DEF TypeInv, TypeOK
<1>8. TypeInv'
  BY <1>1, <1>3, <1>7, ConstantsAssumption
  DEF TypeInv, Processes, RequestPc, CreatePc, WorkerPc
<1> QED
  BY <1>1, <1>2, <1>3, <1>4, <1>5, <1>6, <1>8, NoneAssumption
     DEF Own, Stays, Leaves, Others, CarryPc, RunPc

LEMMA LoadEffect ==
    ASSUME TypeInv, NEW p \in Processes, Load(p)
    PROVE  /\ TypeInv' /\ Own(p, Run(p))
           /\ at[p].pc = "load" /\ at'[p].pc = "compute"
           /\ UNCHANGED <<result, layer, files, left, cut, stuck>>
<1>1. at[p].pc = "load" /\ p \in Processes
  BY DEF Load, On, Processes
<1>2. Run(p) \in Runs /\ at[p].msg \in Message /\ at[p].pc \in RunPc /\ at[p] # Idle
  BY <1>1, OnRunPlace DEF TypeInv, RunPc, Idle, CarryPc
<1>3. /\ at' \in [Processes -> {Idle} \cup OnRun \cup OnList]
      /\ at'[p].msg = at[p].msg /\ at'[p].pc = "compute"
      /\ \A s \in Processes : s # p => at'[s] = at[s]
  BY <1>1, <1>2, GoesEffect DEF TypeInv, Load, RunPc, CarryPc
<1>4. /\ result' \in [Runs -> Result \cup {None}]
      /\ layer' \in [Runs -> {"none", "empty", "whole"}]
      /\ files' \in [Runs -> SUBSET Files]
  BY <1>2 DEF TypeInv, TypeOK, Load, rows, history
<1>5. /\ \A x \in Runs : x # Run(p) => /\ result'[x] = result[x]
                                      /\ layer'[x] = layer[x]
                                      /\ files'[x] = files[x]
      /\ UNCHANGED <<result, layer, files, left, cut, stuck>>
  BY <1>2, NoneAssumption DEF TypeInv, TypeOK, Load, rows, history
<1>6. /\ UNCHANGED <<started, area, old, calls, saved, crossed>>
      /\ queue' = queue
      /\ left \subseteq left' /\ left' \subseteq left \cup {Run(p)}
      /\ cut => cut'
      /\ failures' \in 0 .. MaxFailures /\ cut' \in BOOLEAN /\ stuck' \subseteq Runs
  BY <1>1, ConstantsAssumption DEF TypeInv, TypeOK, Load, history
<1>7. TypeOK'
  BY <1>2, <1>3, <1>4, <1>6 DEF TypeInv, TypeOK
<1>8. TypeInv'
  BY <1>1, <1>3, <1>7, ConstantsAssumption
  DEF TypeInv, Processes, RequestPc, CreatePc, WorkerPc
<1> QED
  BY <1>1, <1>2, <1>3, <1>4, <1>5, <1>6, <1>8, NoneAssumption
     DEF Own, Stays, Leaves, Others, CarryPc, RunPc

LEMMA ComputeEffect ==
    ASSUME TypeInv, NEW p \in Processes, Compute(p)
    PROVE  /\ TypeInv' /\ Own(p, Run(p))
           /\ at[p].pc = "compute" /\ at'[p].pc = "store"
           /\ UNCHANGED <<result, layer, files, left, cut, stuck>>
<1>1. at[p].pc = "compute" /\ p \in Processes
  BY DEF Compute, On, Processes
<1>2. Run(p) \in Runs /\ at[p].msg \in Message /\ at[p].pc \in RunPc /\ at[p] # Idle
  BY <1>1, OnRunPlace DEF TypeInv, RunPc, Idle, CarryPc
<1>3. /\ at' \in [Processes -> {Idle} \cup OnRun \cup OnList]
      /\ at'[p].msg = at[p].msg /\ at'[p].pc = "store"
      /\ \A s \in Processes : s # p => at'[s] = at[s]
  BY <1>1, <1>2, GoesEffect DEF TypeInv, Compute, RunPc, CarryPc
<1>4. /\ result' \in [Runs -> Result \cup {None}]
      /\ layer' \in [Runs -> {"none", "empty", "whole"}]
      /\ files' \in [Runs -> SUBSET Files]
  BY <1>2 DEF TypeInv, TypeOK, Compute, rows, history
<1>5. /\ \A x \in Runs : x # Run(p) => /\ result'[x] = result[x]
                                      /\ layer'[x] = layer[x]
                                      /\ files'[x] = files[x]
      /\ UNCHANGED <<result, layer, files, left, cut, stuck>>
  BY <1>2, NoneAssumption DEF TypeInv, TypeOK, Compute, rows, history
<1>6. /\ UNCHANGED <<started, area, old, calls, saved, crossed>>
      /\ queue' = queue
      /\ left \subseteq left' /\ left' \subseteq left \cup {Run(p)}
      /\ cut => cut'
      /\ failures' \in 0 .. MaxFailures /\ cut' \in BOOLEAN /\ stuck' \subseteq Runs
  BY <1>1, ConstantsAssumption DEF TypeInv, TypeOK, Compute, history
<1>7. TypeOK'
  BY <1>2, <1>3, <1>4, <1>6 DEF TypeInv, TypeOK
<1>8. TypeInv'
  BY <1>1, <1>3, <1>7, ConstantsAssumption
  DEF TypeInv, Processes, RequestPc, CreatePc, WorkerPc
<1> QED
  BY <1>1, <1>2, <1>3, <1>4, <1>5, <1>6, <1>8, NoneAssumption
     DEF Own, Stays, Leaves, Others, CarryPc, RunPc

LEMMA StoreEffect ==
    ASSUME TypeInv, NEW p \in Processes, Store(p)
    PROVE  /\ TypeInv' /\ Own(p, Run(p))
           /\ at[p].pc = "store"
           /\ at'[p].pc = (IF Run(p) \in area THEN "sources" ELSE Stored(p))
           /\ files'[Run(p)] = files[Run(p)] \cup {"result"}
           /\ UNCHANGED <<result, layer, left, cut, stuck>>
<1>1. at[p].pc = "store" /\ p \in Processes
  BY DEF Store, On, Processes
<1>2. Run(p) \in Runs /\ at[p].msg \in Message /\ at[p].pc \in RunPc /\ at[p] # Idle
  BY <1>1, OnRunPlace DEF TypeInv, RunPc, Idle, CarryPc
<1>3. /\ at' \in [Processes -> {Idle} \cup OnRun \cup OnList]
      /\ at'[p].msg = at[p].msg
      /\ at'[p].pc = (IF Run(p) \in area THEN "sources" ELSE Stored(p))
      /\ \A s \in Processes : s # p => at'[s] = at[s]
  BY <1>1, <1>2, GoesEffect DEF TypeInv, Store, RunPc, CarryPc, Stored
<1>4. /\ result' \in [Runs -> Result \cup {None}]
      /\ layer' \in [Runs -> {"none", "empty", "whole"}]
      /\ files' \in [Runs -> SUBSET Files]
  BY <1>2 DEF TypeInv, TypeOK, Store, rows, history, Files, Stored
<1>5. /\ \A x \in Runs : x # Run(p) => /\ result'[x] = result[x]
                                      /\ layer'[x] = layer[x]
                                      /\ files'[x] = files[x]
      /\ files'[Run(p)] = files[Run(p)] \cup {"result"}
      /\ UNCHANGED <<result, layer, left, cut, stuck>>
  BY <1>2, NoneAssumption DEF TypeInv, TypeOK, Store, rows, history, Files, Stored
<1>6. /\ UNCHANGED <<started, area, old, calls, saved, crossed>>
      /\ queue' = queue
      /\ left \subseteq left' /\ left' \subseteq left \cup {Run(p)}
      /\ cut => cut'
      /\ failures' \in 0 .. MaxFailures /\ cut' \in BOOLEAN /\ stuck' \subseteq Runs
  BY <1>1, ConstantsAssumption DEF TypeInv, TypeOK, Store, history
<1>7. TypeOK'
  BY <1>2, <1>3, <1>4, <1>6 DEF TypeInv, TypeOK
<1>8. TypeInv'
  BY <1>1, <1>3, <1>7, ConstantsAssumption
  DEF TypeInv, Processes, RequestPc, CreatePc, WorkerPc, Stored
<1> QED
  BY <1>1, <1>2, <1>3, <1>4, <1>5, <1>6, <1>8, NoneAssumption
     DEF Own, Stays, Leaves, Others, CarryPc, RunPc, Stored

LEMMA SourcesEffect ==
    ASSUME TypeInv, NEW p \in Processes, Sources(p)
    PROVE  /\ TypeInv' /\ Own(p, Run(p))
           /\ at[p].pc = "sources" /\ at'[p].pc = Stored(p)
           /\ files'[Run(p)] = files[Run(p)] \cup {"sources"}
           /\ UNCHANGED <<result, layer, left, cut, stuck>>
<1>1. at[p].pc = "sources" /\ p \in Processes
  BY DEF Sources, On, Processes
<1>2. Run(p) \in Runs /\ at[p].msg \in Message /\ at[p].pc \in RunPc /\ at[p] # Idle
  BY <1>1, OnRunPlace DEF TypeInv, RunPc, Idle, CarryPc
<1>3. /\ at' \in [Processes -> {Idle} \cup OnRun \cup OnList]
      /\ at'[p].msg = at[p].msg /\ at'[p].pc = Stored(p)
      /\ \A s \in Processes : s # p => at'[s] = at[s]
  BY <1>1, <1>2, GoesEffect DEF TypeInv, Sources, RunPc, CarryPc, Stored
<1>4. /\ result' \in [Runs -> Result \cup {None}]
      /\ layer' \in [Runs -> {"none", "empty", "whole"}]
      /\ files' \in [Runs -> SUBSET Files]
  BY <1>2 DEF TypeInv, TypeOK, Sources, rows, history, Files, Stored
<1>5. /\ \A x \in Runs : x # Run(p) => /\ result'[x] = result[x]
                                      /\ layer'[x] = layer[x]
                                      /\ files'[x] = files[x]
      /\ files'[Run(p)] = files[Run(p)] \cup {"sources"}
      /\ UNCHANGED <<result, layer, left, cut, stuck>>
  BY <1>2, NoneAssumption DEF TypeInv, TypeOK, Sources, rows, history, Files, Stored
<1>6. /\ UNCHANGED <<started, area, old, calls, saved, crossed>>
      /\ queue' = queue
      /\ left \subseteq left' /\ left' \subseteq left \cup {Run(p)}
      /\ cut => cut'
      /\ failures' \in 0 .. MaxFailures /\ cut' \in BOOLEAN /\ stuck' \subseteq Runs
  BY <1>1, ConstantsAssumption DEF TypeInv, TypeOK, Sources, history
<1>7. TypeOK'
  BY <1>2, <1>3, <1>4, <1>6 DEF TypeInv, TypeOK
<1>8. TypeInv'
  BY <1>1, <1>3, <1>7, ConstantsAssumption
  DEF TypeInv, Processes, RequestPc, CreatePc, WorkerPc, Stored
<1> QED
  BY <1>1, <1>2, <1>3, <1>4, <1>5, <1>6, <1>8, NoneAssumption
     DEF Own, Stays, Leaves, Others, CarryPc, RunPc, Stored

LEMMA MarkEffect ==
    ASSUME TypeInv, NEW w \in Workers, Mark(w)
    PROVE  /\ TypeInv' /\ Own(w, Run(w))
           /\ at[w].pc = "mark" /\ at'[w].pc = "load"
           /\ result[Run(w)] = None => result'[Run(w)] = None
           /\ result[Run(w)] # None =>
                     result'[Run(w)] = [result[Run(w)] EXCEPT !.status = "processing"]
           /\ UNCHANGED <<layer, files, left, cut, stuck>>
<1>1. at[w].pc = "mark" /\ w \in Processes
  BY DEF Mark, On, Processes
<1>2. Run(w) \in Runs /\ at[w].msg \in Message /\ at[w].pc \in RunPc /\ at[w] # Idle
  BY <1>1, OnRunPlace DEF TypeInv, RunPc, Idle, CarryPc
<1>3. /\ at' \in [Processes -> {Idle} \cup OnRun \cup OnList]
      /\ at'[w].msg = at[w].msg /\ at'[w].pc = "load"
      /\ \A s \in Processes : s # w => at'[s] = at[s]
  BY <1>1, <1>2, GoesEffect DEF TypeInv, Mark, RunPc, CarryPc
<1>new. HasResult(Run(w)) => [result[Run(w)] EXCEPT !.status = "processing"] \in Result
  BY <1>2, NoneAssumption DEF TypeInv, TypeOK, HasResult, Result, ResultStatus
<1>4. /\ result' \in [Runs -> Result \cup {None}]
      /\ layer' \in [Runs -> {"none", "empty", "whole"}]
      /\ files' \in [Runs -> SUBSET Files]
  BY <1>2, <1>new, SetsEffect DEF TypeInv, TypeOK, Mark
<1>5. /\ \A x \in Runs : x # Run(w) => /\ result'[x] = result[x]
                                      /\ layer'[x] = layer[x]
                                      /\ files'[x] = files[x]
      /\ result[Run(w)] = None => result'[Run(w)] = None
      /\ result[Run(w)] # None =>
            /\ result'[Run(w)] = [result[Run(w)] EXCEPT !.status = "processing"]
            /\ result'[Run(w)] # None
            /\ result'[Run(w)].ephemeral = result[Run(w)].ephemeral
      /\ UNCHANGED <<layer, files, left, cut, stuck>>
  <2>1. result[Run(w)] # None =>
            [result[Run(w)] EXCEPT !.status = "processing"].ephemeral = result[Run(w)].ephemeral
    BY <1>2 DEF TypeInv, TypeOK, Result
  <2> QED
    BY <1>2, <1>new, <2>1, SetsEffect DEF TypeInv, Mark, history
<1>6. /\ UNCHANGED <<started, area, old, calls, saved, crossed>>
      /\ queue' = queue
      /\ left \subseteq left' /\ left' \subseteq left \cup {Run(w)}
      /\ cut => cut'
      /\ failures' \in 0 .. MaxFailures /\ cut' \in BOOLEAN /\ stuck' \subseteq Runs
  BY <1>1, ConstantsAssumption DEF TypeInv, TypeOK, Mark, history
<1>7. TypeOK'
  BY <1>2, <1>3, <1>4, <1>6 DEF TypeInv, TypeOK
<1>8. TypeInv'
  BY <1>1, <1>3, <1>7, ConstantsAssumption
  DEF TypeInv, Processes, RequestPc, CreatePc, WorkerPc
<1> QED
  BY <1>1, <1>2, <1>3, <1>4, <1>5, <1>6, <1>8, NoneAssumption
     DEF Own, Stays, Leaves, Others, CarryPc, RunPc

LEMMA FinishEffect ==
    ASSUME TypeInv, NEW w \in Workers, Finish(w)
    PROVE  /\ TypeInv' /\ Own(w, Run(w))
           /\ at[w].pc = "result" /\ at'[w].pc = "fill"
           /\ result[Run(w)] = None => result'[Run(w)] = None
           /\ result[Run(w)] # None =>
                     result'[Run(w)] = [result[Run(w)] EXCEPT !.status = "done", !.path = TRUE]
           /\ UNCHANGED <<layer, files, left, cut, stuck>>
<1>1. at[w].pc = "result" /\ w \in Processes
  BY DEF Finish, On, Processes
<1>2. Run(w) \in Runs /\ at[w].msg \in Message /\ at[w].pc \in RunPc /\ at[w] # Idle
  BY <1>1, OnRunPlace DEF TypeInv, RunPc, Idle, CarryPc
<1>3. /\ at' \in [Processes -> {Idle} \cup OnRun \cup OnList]
      /\ at'[w].msg = at[w].msg /\ at'[w].pc = "fill"
      /\ \A s \in Processes : s # w => at'[s] = at[s]
  BY <1>1, <1>2, GoesEffect DEF TypeInv, Finish, RunPc, CarryPc
<1>new. HasResult(Run(w)) =>
          [result[Run(w)] EXCEPT !.status = "done", !.path = TRUE] \in Result
  BY <1>2, NoneAssumption DEF TypeInv, TypeOK, HasResult, Result, ResultStatus
<1>4. /\ result' \in [Runs -> Result \cup {None}]
      /\ layer' \in [Runs -> {"none", "empty", "whole"}]
      /\ files' \in [Runs -> SUBSET Files]
  BY <1>2, <1>new, SetsEffect DEF TypeInv, TypeOK, Finish
<1>5. /\ \A x \in Runs : x # Run(w) => /\ result'[x] = result[x]
                                      /\ layer'[x] = layer[x]
                                      /\ files'[x] = files[x]
      /\ result[Run(w)] = None => result'[Run(w)] = None
      /\ result[Run(w)] # None =>
            /\ result'[Run(w)] = [result[Run(w)] EXCEPT !.status = "done", !.path = TRUE]
            /\ result'[Run(w)] # None
            /\ result'[Run(w)].ephemeral = result[Run(w)].ephemeral
      /\ UNCHANGED <<layer, files, left, cut, stuck>>
  <2>1. result[Run(w)] # None =>
            [result[Run(w)] EXCEPT !.status = "done", !.path = TRUE].ephemeral = result[Run(w)].ephemeral
    BY <1>2 DEF TypeInv, TypeOK, Result
  <2> QED
    BY <1>2, <1>new, <2>1, SetsEffect DEF TypeInv, Finish, history
<1>6. /\ UNCHANGED <<started, area, old, calls, saved, crossed>>
      /\ queue' = queue
      /\ left \subseteq left' /\ left' \subseteq left \cup {Run(w)}
      /\ cut => cut'
      /\ failures' \in 0 .. MaxFailures /\ cut' \in BOOLEAN /\ stuck' \subseteq Runs
  BY <1>1, ConstantsAssumption DEF TypeInv, TypeOK, Finish, history
<1>7. TypeOK'
  BY <1>2, <1>3, <1>4, <1>6 DEF TypeInv, TypeOK
<1>8. TypeInv'
  BY <1>1, <1>3, <1>7, ConstantsAssumption
  DEF TypeInv, Processes, RequestPc, CreatePc, WorkerPc
<1> QED
  BY <1>1, <1>2, <1>3, <1>4, <1>5, <1>6, <1>8, NoneAssumption
     DEF Own, Stays, Leaves, Others, CarryPc, RunPc

LEMMA FailEffect ==
    ASSUME TypeInv, NEW w \in Workers, Fail(w)
    PROVE  /\ TypeInv' /\ Own(w, Run(w))
           /\ at[w].pc = "fail" /\ at'[w].pc = "drop"
           /\ result[Run(w)] = None => result'[Run(w)] = None
           /\ result[Run(w)] # None =>
                     result'[Run(w)] = [result[Run(w)] EXCEPT !.status = "failed"]
           /\ UNCHANGED <<layer, files, left, cut, stuck>>
<1>1. at[w].pc = "fail" /\ w \in Processes
  BY DEF Fail, On, Processes
<1>2. Run(w) \in Runs /\ at[w].msg \in Message /\ at[w].pc \in RunPc /\ at[w] # Idle
  BY <1>1, OnRunPlace DEF TypeInv, RunPc, Idle, CarryPc
<1>3. /\ at' \in [Processes -> {Idle} \cup OnRun \cup OnList]
      /\ at'[w].msg = at[w].msg /\ at'[w].pc = "drop"
      /\ \A s \in Processes : s # w => at'[s] = at[s]
  BY <1>1, <1>2, GoesEffect DEF TypeInv, Fail, RunPc, CarryPc
<1>new. HasResult(Run(w)) => [result[Run(w)] EXCEPT !.status = "failed"] \in Result
  BY <1>2, NoneAssumption DEF TypeInv, TypeOK, HasResult, Result, ResultStatus
<1>4. /\ result' \in [Runs -> Result \cup {None}]
      /\ layer' \in [Runs -> {"none", "empty", "whole"}]
      /\ files' \in [Runs -> SUBSET Files]
  BY <1>2, <1>new, SetsEffect DEF TypeInv, TypeOK, Fail
<1>5. /\ \A x \in Runs : x # Run(w) => /\ result'[x] = result[x]
                                      /\ layer'[x] = layer[x]
                                      /\ files'[x] = files[x]
      /\ result[Run(w)] = None => result'[Run(w)] = None
      /\ result[Run(w)] # None =>
            /\ result'[Run(w)] = [result[Run(w)] EXCEPT !.status = "failed"]
            /\ result'[Run(w)] # None
            /\ result'[Run(w)].ephemeral = result[Run(w)].ephemeral
      /\ UNCHANGED <<layer, files, left, cut, stuck>>
  <2>1. result[Run(w)] # None =>
            [result[Run(w)] EXCEPT !.status = "failed"].ephemeral = result[Run(w)].ephemeral
    BY <1>2 DEF TypeInv, TypeOK, Result
  <2> QED
    BY <1>2, <1>new, <2>1, SetsEffect DEF TypeInv, Fail, history
<1>6. /\ UNCHANGED <<started, area, old, calls, saved, crossed>>
      /\ queue' = queue
      /\ left \subseteq left' /\ left' \subseteq left \cup {Run(w)}
      /\ cut => cut'
      /\ failures' \in 0 .. MaxFailures /\ cut' \in BOOLEAN /\ stuck' \subseteq Runs
  BY <1>1, ConstantsAssumption DEF TypeInv, TypeOK, Fail, history
<1>7. TypeOK'
  BY <1>2, <1>3, <1>4, <1>6 DEF TypeInv, TypeOK
<1>8. TypeInv'
  BY <1>1, <1>3, <1>7, ConstantsAssumption
  DEF TypeInv, Processes, RequestPc, CreatePc, WorkerPc
<1> QED
  BY <1>1, <1>2, <1>3, <1>4, <1>5, <1>6, <1>8, NoneAssumption
     DEF Own, Stays, Leaves, Others, CarryPc, RunPc

LEMMA FillEffect ==
    ASSUME TypeInv, NEW w \in Workers, Fill(w)
    PROVE  /\ TypeInv' /\ Own(w, Run(w))
           /\ at[w].pc = "fill" /\ at'[w].pc = "idle"
           /\ layer[Run(w)] # "none" => layer'[Run(w)] # "none"
           /\ UNCHANGED <<result, files, left, cut, stuck>>
<1>1. at[w].pc = "fill" /\ w \in Processes
  BY DEF Fill, On, Processes
<1>2. Run(w) \in Runs /\ at[w].msg \in Message /\ at[w].pc \in RunPc /\ at[w] # Idle
  BY <1>1, OnRunPlace DEF TypeInv, RunPc, Idle, CarryPc
<1>3. /\ at' \in [Processes -> {Idle} \cup OnRun \cup OnList]
      /\ at'[w].pc = "idle"
      /\ \A s \in Processes : s # w => at'[s] = at[s]
  BY <1>1, <1>2, EndsEffect DEF TypeInv, Fill
<1>4. /\ result' \in [Runs -> Result \cup {None}]
      /\ layer' \in [Runs -> {"none", "empty", "whole"}]
      /\ files' \in [Runs -> SUBSET Files]
  BY <1>2 DEF TypeInv, TypeOK, Fill, rows, history
<1>5. /\ \A x \in Runs : x # Run(w) => /\ result'[x] = result[x]
                                      /\ layer'[x] = layer[x]
                                      /\ files'[x] = files[x]
      /\ layer[Run(w)] # "none" => layer'[Run(w)] # "none"
      /\ UNCHANGED <<result, files, left, cut, stuck>>
  BY <1>2, NoneAssumption DEF TypeInv, TypeOK, Fill, rows, history
<1>6. /\ UNCHANGED <<started, area, old, calls, saved, crossed>>
      /\ queue' = queue
      /\ left \subseteq left' /\ left' \subseteq left \cup {Run(w)}
      /\ cut => cut'
      /\ failures' \in 0 .. MaxFailures /\ cut' \in BOOLEAN /\ stuck' \subseteq Runs
  BY <1>1, ConstantsAssumption DEF TypeInv, TypeOK, Fill, history
<1>7. TypeOK'
  BY <1>2, <1>3, <1>4, <1>6 DEF TypeInv, TypeOK
<1>8. TypeInv'
  BY <1>1, <1>3, <1>7, ConstantsAssumption
  DEF TypeInv, Processes, RequestPc, CreatePc, WorkerPc
<1> QED
  BY <1>1, <1>2, <1>3, <1>4, <1>5, <1>6, <1>8, NoneAssumption
     DEF Own, Stays, Leaves, Others, CarryPc, RunPc

LEMMA DropEffect ==
    ASSUME TypeInv, NEW w \in Workers, Drop(w)
    PROVE  /\ TypeInv' /\ Own(w, Run(w))
           /\ at[w].pc = "drop" /\ at'[w].pc = "retry"
           /\ result[Run(w)] # None => layer'[Run(w)] = layer[Run(w)]
           /\ UNCHANGED <<result, files, left, cut, stuck>>
<1>1. at[w].pc = "drop" /\ w \in Processes
  BY DEF Drop, On, Processes
<1>2. Run(w) \in Runs /\ at[w].msg \in Message /\ at[w].pc \in RunPc /\ at[w] # Idle
  BY <1>1, OnRunPlace DEF TypeInv, RunPc, Idle, CarryPc
<1>3. /\ at' \in [Processes -> {Idle} \cup OnRun \cup OnList]
      /\ at'[w].msg = at[w].msg /\ at'[w].pc = "retry"
      /\ \A s \in Processes : s # w => at'[s] = at[s]
  BY <1>1, <1>2, GoesEffect DEF TypeInv, Drop, RunPc, CarryPc
<1>4. /\ result' \in [Runs -> Result \cup {None}]
      /\ layer' \in [Runs -> {"none", "empty", "whole"}]
      /\ files' \in [Runs -> SUBSET Files]
  BY <1>2 DEF TypeInv, TypeOK, Drop, rows, history, HasResult
<1>5. /\ \A x \in Runs : x # Run(w) => /\ result'[x] = result[x]
                                      /\ layer'[x] = layer[x]
                                      /\ files'[x] = files[x]
      /\ result[Run(w)] # None => layer'[Run(w)] = layer[Run(w)]
      /\ UNCHANGED <<result, files, left, cut, stuck>>
  BY <1>2, NoneAssumption DEF TypeInv, TypeOK, Drop, rows, history, HasResult
<1>6. /\ UNCHANGED <<started, area, old, calls, saved, crossed>>
      /\ queue' = queue
      /\ left \subseteq left' /\ left' \subseteq left \cup {Run(w)}
      /\ cut => cut'
      /\ failures' \in 0 .. MaxFailures /\ cut' \in BOOLEAN /\ stuck' \subseteq Runs
  BY <1>1, ConstantsAssumption DEF TypeInv, TypeOK, Drop, history
<1>7. TypeOK'
  BY <1>2, <1>3, <1>4, <1>6 DEF TypeInv, TypeOK
<1>8. TypeInv'
  BY <1>1, <1>3, <1>7, ConstantsAssumption
  DEF TypeInv, Processes, RequestPc, CreatePc, WorkerPc
<1> QED
  BY <1>1, <1>2, <1>3, <1>4, <1>5, <1>6, <1>8, NoneAssumption
     DEF Own, Stays, Leaves, Others, CarryPc, RunPc

LEMMA RetryEffect ==
    ASSUME TypeInv, NEW w \in Workers, Retry(w)
    PROVE  /\ TypeInv' /\ Own(w, Run(w))
           /\ at[w].pc = "retry" /\ at'[w].pc = "idle"
           /\ UNCHANGED <<result, layer, files, left, cut, stuck>>
<1>1. at[w].pc = "retry" /\ w \in Processes
  BY DEF Retry, On, Processes
<1>2. Run(w) \in Runs /\ at[w].msg \in Message /\ at[w].pc \in RunPc /\ at[w] # Idle
  BY <1>1, OnRunPlace DEF TypeInv, RunPc, Idle, CarryPc
<1>3. /\ at' \in [Processes -> {Idle} \cup OnRun \cup OnList]
      /\ at'[w].pc = "idle"
      /\ \A s \in Processes : s # w => at'[s] = at[s]
  BY <1>1, <1>2, EndsEffect DEF TypeInv, Retry
<1>4. /\ result' \in [Runs -> Result \cup {None}]
      /\ layer' \in [Runs -> {"none", "empty", "whole"}]
      /\ files' \in [Runs -> SUBSET Files]
  BY <1>2 DEF TypeInv, TypeOK, Retry, rows, history
<1>5. /\ \A x \in Runs : x # Run(w) => /\ result'[x] = result[x]
                                      /\ layer'[x] = layer[x]
                                      /\ files'[x] = files[x]
      /\ UNCHANGED <<result, layer, files, left, cut, stuck>>
  BY <1>2, NoneAssumption DEF TypeInv, TypeOK, Retry, rows, history
<1>6. /\ UNCHANGED <<started, area, old, calls, saved, crossed>>
      /\ left \subseteq left' /\ left' \subseteq left \cup {Run(w)}
      /\ cut => cut'
      /\ failures' \in 0 .. MaxFailures /\ cut' \in BOOLEAN /\ stuck' \subseteq Runs
  BY <1>1, ConstantsAssumption DEF TypeInv, TypeOK, Retry, history
<1>queue. /\ queue' \subseteq Message
      /\ (queue' = queue \/ \E m \in Message : m.run = Run(w) /\ queue' = queue \cup {m})
  <2>1. CASE at[w].msg.tries < MaxRetries
    <3> DEFINE m == [at[w].msg EXCEPT !.tries = @ + 1]
    <3>1. m \in Message /\ m.run = Run(w)
      BY <1>2, <2>1, ConstantsAssumption DEF Message, Run
    <3>2. queue' = queue \cup {m}
      BY <2>1 DEF Retry
    <3> QED
      BY <3>1, <3>2 DEF TypeInv, TypeOK
  <2>2. CASE ~(at[w].msg.tries < MaxRetries)
    BY <2>2 DEF Retry, TypeInv, TypeOK
  <2> QED
    BY <2>1, <2>2
<1>7. TypeOK'
  BY <1>2, <1>3, <1>4, <1>6, <1>queue DEF TypeInv, TypeOK
<1>8. TypeInv'
  BY <1>1, <1>3, <1>7, ConstantsAssumption
  DEF TypeInv, Processes, RequestPc, CreatePc, WorkerPc
<1> QED
  BY <1>1, <1>2, <1>3, <1>4, <1>5, <1>6, <1>queue, <1>8, NoneAssumption
     DEF Own, Stays, Leaves, Others, CarryPc, RunPc

LEMMA SourcesFailEffect ==
    ASSUME TypeInv, NEW p \in Processes, SourcesFail(p)
    PROVE  /\ TypeInv' /\ Own(p, Run(p))
           /\ at[p].pc = "sources"
           /\ at'[p].pc = (IF p \in Requests THEN "idle" ELSE "fail")
           /\ files'[Run(p)] = {}
           /\ UNCHANGED <<result, layer, queue, left, cut, stuck>>
<1>1. at[p].pc = "sources" /\ p \in Processes
  BY DEF SourcesFail, On, Processes
<1>2. Run(p) \in Runs /\ at[p].msg \in Message /\ at[p].pc \in RunPc /\ at[p] # Idle
  BY <1>1, OnRunPlace DEF TypeInv, RunPc, Idle, CarryPc
<1>3. /\ at' \in [Processes -> {Idle} \cup OnRun \cup OnList]
      /\ p \in Requests => at'[p].pc = "idle"
      /\ p \notin Requests => at'[p].msg = at[p].msg /\ at'[p].pc = "fail"
      /\ \A s \in Processes : s # p => at'[s] = at[s]
  <2>1. CASE p \in Requests
    <3>1. Ends(p)
      BY <2>1 DEF SourcesFail, Ends
    <3> QED
      BY <1>1, <2>1, <3>1, EndsEffect DEF TypeInv
  <2>2. CASE p \notin Requests
    <3>1. Goes(p, "fail")
      BY <2>2 DEF SourcesFail
    <3> QED
      BY <1>1, <1>2, <2>2, <3>1, GoesEffect DEF TypeInv, RunPc
  <2> QED
    BY <2>1, <2>2
<1>4. /\ result' \in [Runs -> Result \cup {None}]
      /\ layer' \in [Runs -> {"none", "empty", "whole"}]
      /\ files' \in [Runs -> SUBSET Files]
  BY <1>2 DEF TypeInv, TypeOK, SourcesFail, rows, history
<1>5. /\ \A x \in Runs : x # Run(p) => /\ result'[x] = result[x]
                                      /\ layer'[x] = layer[x]
                                      /\ files'[x] = files[x]
      /\ files'[Run(p)] = {}
      /\ UNCHANGED <<result, layer, queue, left, cut, stuck>>
  BY <1>2, NoneAssumption DEF TypeInv, TypeOK, SourcesFail, rows, history
<1>6. /\ UNCHANGED <<started, area, old, calls, saved, crossed>>
      /\ queue' = queue
      /\ left \subseteq left' /\ left' \subseteq left \cup {Run(p)}
      /\ cut => cut'
      /\ failures' \in 0 .. MaxFailures /\ cut' \in BOOLEAN /\ stuck' \subseteq Runs
  BY <1>1, ConstantsAssumption DEF TypeInv, TypeOK, SourcesFail, history, Fails
<1>7. TypeOK'
  BY <1>2, <1>3, <1>4, <1>6 DEF TypeInv, TypeOK
<1>8. TypeInv'
  BY <1>1, <1>3, <1>7, ConstantsAssumption
  DEF TypeInv, Processes, RequestPc, CreatePc, WorkerPc
<1> QED
  BY <1>1, <1>2, <1>3, <1>4, <1>5, <1>6, <1>8, NoneAssumption
     DEF Own, Stays, Leaves, Others, CarryPc, RunPc

FailPc(p) == IF at[p].pc \in Unhandled THEN "retry" ELSE "fail"
LEMMA RaisesEffect ==
    ASSUME TypeInv, NEW p \in Processes, Raises(p), at[p].pc \in CarryPc
    PROVE  /\ TypeInv' /\ Own(p, Run(p))
           /\ at[p].pc \in CarryPc \ {"sources", "drop", "retry"}
           /\ at'[p].pc = (IF p \in Requests THEN "idle" ELSE FailPc(p))
           /\ UNCHANGED <<result, layer, files, queue>>
           /\ p \in Requests =>
                 left' = left /\ (cut' \/ at[p].pc \in {"load", "compute", "store"})
           /\ p \notin Requests =>
                 /\ cut' = cut
                 /\ left' = IF at[p].pc = "result" THEN left \cup {Run(p)} ELSE left
<1>1. at[p].pc \in CarryPc \ {"sources", "drop", "retry"} /\ p \in Processes
  BY DEF Raises, On, Processes, CarryPc, RunPc, Unhandled
<1>2. Run(p) \in Runs /\ at[p].msg \in Message /\ at[p].pc \in RunPc /\ at[p] # Idle
  BY <1>1, OnRunPlace DEF TypeInv, RunPc, Idle, CarryPc
<1>3. /\ at' \in [Processes -> {Idle} \cup OnRun \cup OnList]
      /\ p \in Requests => at'[p].pc = "idle"
      /\ p \notin Requests => at'[p].msg = at[p].msg /\ at'[p].pc = FailPc(p)
      /\ \A s \in Processes : s # p => at'[s] = at[s]
  <2>1. CASE p \in Requests
    <3>1. Ends(p)
      BY <2>1 DEF Raises, Ends
    <3> QED
      BY <1>1, <2>1, <3>1, EndsEffect DEF TypeInv
  <2>2. CASE p \notin Requests
    <3>1. Goes(p, FailPc(p))
      BY <2>2 DEF Raises, Goes, FailPc
    <3>2. FailPc(p) \in RunPc
      BY DEF FailPc, RunPc
    <3> QED
      BY <1>1, <1>2, <2>2, <3>1, <3>2, GoesEffect DEF TypeInv
  <2> QED
    BY <2>1, <2>2
<1>4. /\ result' \in [Runs -> Result \cup {None}]
      /\ layer' \in [Runs -> {"none", "empty", "whole"}]
      /\ files' \in [Runs -> SUBSET Files]
  BY <1>2 DEF TypeInv, TypeOK, Raises, rows, history, On, FailPc
<1>5. /\ \A x \in Runs : x # Run(p) => /\ result'[x] = result[x]
                                      /\ layer'[x] = layer[x]
                                      /\ files'[x] = files[x]
      /\ UNCHANGED <<result, layer, files, queue>>
      /\ p \in Requests =>
            left' = left /\ (cut' \/ at[p].pc \in {"load", "compute", "store"})
      /\ p \notin Requests =>
            /\ cut' = cut
            /\ left' = IF at[p].pc = "result" THEN left \cup {Run(p)} ELSE left
  BY <1>2, NoneAssumption DEF TypeInv, TypeOK, Raises, rows, history, On, FailPc
<1>6. /\ UNCHANGED <<started, area, old, calls, saved, crossed>>
      /\ queue' = queue
      /\ left \subseteq left' /\ left' \subseteq left \cup {Run(p)}
      /\ cut => cut'
      /\ failures' \in 0 .. MaxFailures /\ cut' \in BOOLEAN /\ stuck' \subseteq Runs
  <2>1. UNCHANGED <<started, area, old, calls, saved, crossed>> /\ queue' = queue
    BY DEF Raises
  <2>2. left \subseteq left' /\ left' \subseteq left \cup {Run(p)}
    <3>1. left' = left \/ left' = left \cup {Run(p)}
      BY <1>5
    <3> QED
      BY <3>1
  <2>6. cut => cut'
    BY DEF Raises
  <2>3. failures' \in 0 .. MaxFailures
    BY ConstantsAssumption DEF TypeInv, TypeOK, Raises, Fails
  <2>4. cut' \in BOOLEAN
    BY DEF TypeInv, TypeOK, Raises
  <2>5. stuck' \subseteq Runs
    BY <1>2 DEF TypeInv, TypeOK, Raises
  <2> QED
    BY <2>1, <2>2, <2>3, <2>4, <2>5, <2>6
<1>7. TypeOK'
  BY <1>2, <1>3, <1>4, <1>6 DEF TypeInv, TypeOK
<1>8. TypeInv'
  BY <1>1, <1>3, <1>7, ConstantsAssumption
  DEF TypeInv, Processes, RequestPc, CreatePc, WorkerPc, FailPc
<1> QED
  BY <1>1, <1>2, <1>3, <1>4, <1>5, <1>6, <1>8, NoneAssumption
     DEF Own, Stays, Leaves, Others, CarryPc, RunPc, FailPc

LEMMA WorkerDiesEffect ==
    ASSUME TypeInv, NEW w \in Workers, WorkerDies(w)
    PROVE  /\ TypeInv' /\ Own(w, Run(w))
           /\ at[w].pc \in CarryPc /\ at'[w].pc = "idle"
           /\ UNCHANGED <<result, layer, files, cut, stuck>>
           /\ at[w].pc \in {"sources", "result"} => Run(w) \in left'
<1>1. at[w].pc \in CarryPc /\ w \in Processes
  BY IdlePlace DEF WorkerDies, On, Processes, TypeInv, WorkerPc, CarryPc, RunPc
<1>2. Run(w) \in Runs /\ at[w].msg \in Message /\ at[w].pc \in RunPc /\ at[w] # Idle
  BY <1>1, OnRunPlace DEF TypeInv, RunPc, Idle, CarryPc
<1>3. /\ at' \in [Processes -> {Idle} \cup OnRun \cup OnList]
      /\ at'[w].pc = "idle"
      /\ \A s \in Processes : s # w => at'[s] = at[s]
  BY <1>1, <1>2, EndsEffect DEF TypeInv, WorkerDies
<1>4. /\ result' \in [Runs -> Result \cup {None}]
      /\ layer' \in [Runs -> {"none", "empty", "whole"}]
      /\ files' \in [Runs -> SUBSET Files]
  BY <1>2 DEF TypeInv, TypeOK, WorkerDies, rows, history
<1>5. /\ \A x \in Runs : x # Run(w) => /\ result'[x] = result[x]
                                      /\ layer'[x] = layer[x]
                                      /\ files'[x] = files[x]
      /\ UNCHANGED <<result, layer, files, cut, stuck>>
      /\ at[w].pc \in {"sources", "result"} => Run(w) \in left'
  BY <1>2, NoneAssumption DEF TypeInv, TypeOK, WorkerDies, rows, history
<1>6. /\ UNCHANGED <<started, area, old, calls, saved, crossed>>
      /\ queue' = queue \cup {at[w].msg}
      /\ left \subseteq left' /\ left' \subseteq left \cup {Run(w)}
      /\ cut => cut'
      /\ failures' \in 0 .. MaxFailures /\ cut' \in BOOLEAN /\ stuck' \subseteq Runs
  BY <1>1, ConstantsAssumption DEF TypeInv, TypeOK, WorkerDies, history, Fails
<1>queue. queue' \subseteq Message /\ at[w].msg.run = Run(w)
  BY <1>2, <1>6 DEF TypeInv, TypeOK, Run
<1>7. TypeOK'
  BY <1>2, <1>3, <1>4, <1>6, <1>queue DEF TypeInv, TypeOK
<1>8. TypeInv'
  BY <1>1, <1>3, <1>7, ConstantsAssumption
  DEF TypeInv, Processes, RequestPc, CreatePc, WorkerPc
<1> QED
  BY <1>1, <1>2, <1>3, <1>4, <1>5, <1>6, <1>queue, <1>8, NoneAssumption
     DEF Own, Stays, Leaves, Others, CarryPc, RunPc

LEMMA RequestDiesEffect ==
    ASSUME TypeInv, NEW q \in Requests, RequestDies(q), at[q].pc \in CarryPc
    PROVE  /\ TypeInv' /\ Own(q, Run(q))
           /\ at[q].pc \in CarryPc /\ at'[q].pc = "idle"
           /\ UNCHANGED <<result, layer, files, left>>
           /\ cut'
<1>1. at[q].pc \in CarryPc /\ q \in Processes
  BY DEF RequestDies, On, Processes
<1>2. Run(q) \in Runs /\ at[q].msg \in Message /\ at[q].pc \in RunPc /\ at[q] # Idle
  BY <1>1, OnRunPlace DEF TypeInv, RunPc, Idle, CarryPc
<1>3. /\ at' \in [Processes -> {Idle} \cup OnRun \cup OnList]
      /\ at'[q].pc = "idle"
      /\ \A s \in Processes : s # q => at'[s] = at[s]
  BY <1>1, <1>2, EndsEffect DEF TypeInv, RequestDies
<1>4. /\ result' \in [Runs -> Result \cup {None}]
      /\ layer' \in [Runs -> {"none", "empty", "whole"}]
      /\ files' \in [Runs -> SUBSET Files]
  BY <1>2 DEF TypeInv, TypeOK, RequestDies, rows, history
<1>5. /\ \A x \in Runs : x # Run(q) => /\ result'[x] = result[x]
                                      /\ layer'[x] = layer[x]
                                      /\ files'[x] = files[x]
      /\ UNCHANGED <<result, layer, files, left>>
      /\ cut'
  BY <1>2, NoneAssumption DEF TypeInv, TypeOK, RequestDies, rows, history
<1>6. /\ UNCHANGED <<started, area, old, calls, saved, crossed>>
      /\ queue' = queue
      /\ left \subseteq left' /\ left' \subseteq left \cup {Run(q)}
      /\ cut => cut'
      /\ failures' \in 0 .. MaxFailures /\ cut' \in BOOLEAN /\ stuck' \subseteq Runs
  BY <1>1, <1>2, ConstantsAssumption DEF TypeInv, TypeOK, RequestDies, history, Fails, On
<1>7. TypeOK'
  BY <1>2, <1>3, <1>4, <1>6 DEF TypeInv, TypeOK
<1>8. TypeInv'
  BY <1>1, <1>3, <1>7, ConstantsAssumption
  DEF TypeInv, Processes, RequestPc, CreatePc, WorkerPc
<1> QED
  BY <1>1, <1>2, <1>3, <1>4, <1>5, <1>6, <1>8, NoneAssumption
     DEF Own, Stays, Leaves, Others, CarryPc, RunPc

-----------------------------------------------------------------------------
(* A step of a removal touches the runs it removes.                          *)

RemovePc == {"files", "rows", "sweep"}
Clears(q) ==
    /\ q \in Requests
    /\ at[q].pc \in RemovePc
    /\ \A s \in Processes : s # q => at'[s] = at[s]
    /\ \/ at'[q].pc = "idle"
       \/ at'[q].pc \in RemovePc /\ \A r \in Runs : Removes(q, r)' <=> Removes(q, r)
    /\ \A r \in Runs :
          /\ result'[r] = result[r] => layer'[r] \in {layer[r], "none"}
          /\ result'[r] # None => layer'[r] = layer[r] /\ result'[r] = result[r]
          /\ result'[r] # result[r] =>
                /\ layer'[r] = "none" /\ files'[r] = files[r]
                /\ at[q].pc = "rows" \/ (at[q].pc = "sweep" /\ r \notin at[q].todo)
          /\ files'[r] \in {files[r], {}}
          /\ ~Removes(q, r) => /\ result'[r] = result[r]
                               /\ layer'[r] = layer[r]
                               /\ files'[r] = files[r]
          /\ \/ files'[r] = files[r] /\ ~Clearing(q, r)
             \/ Clearing(q, r)'
             \/ result'[r] = None
             \/ cut'
    /\ UNCHANGED <<started, area, queue, saved, crossed, left>>
    /\ cut => cut'

LEMMA DiscardFilesEffect ==
    ASSUME TypeInv, NEW q \in Requests, DiscardFiles(q)
    PROVE  /\ TypeInv' /\ Clears(q)
           /\ at[q].pc = "files" /\ at'[q].pc = "rows" /\ Run(q) \in Runs
           /\ Run(q)' = Run(q)
           /\ files'[Run(q)] = IF at[q].path /\ "result" \in files[Run(q)] THEN {}
                               ELSE files[Run(q)]
           /\ UNCHANGED <<result, layer>>
<1>1. at[q].pc = "files" /\ q \in Processes
  BY DEF DiscardFiles, On, Processes
<1>2. Run(q) \in Runs
  BY <1>1, OnRunPlace DEF TypeInv, RunPc
<1>3. /\ at' \in [Processes -> {Idle} \cup OnRun \cup OnList]
      /\ at'[q].msg = at[q].msg /\ at'[q].pc = "rows"
      /\ \A s \in Processes : s # q => at'[s] = at[s]
  BY <1>1, GoesEffect DEF TypeInv, DiscardFiles, RunPc
<1>4. /\ files' \in [Runs -> SUBSET Files]
      /\ \A r \in Runs : r # Run(q) => files'[r] = files[r]
      /\ files'[Run(q)] = IF at[q].path /\ "result" \in files[Run(q)] THEN {}
                          ELSE files[Run(q)]
  BY <1>2 DEF DiscardFiles, TypeInv, TypeOK
<1>5. UNCHANGED <<result, layer, queue, failures, started, area, old, calls, saved,
                  crossed, left, cut, stuck>>
  BY DEF DiscardFiles, rows, history
<1>6. TypeInv'
  BY <1>1, <1>3, <1>4, <1>5, ConstantsAssumption
     DEF TypeInv, TypeOK, Processes, RequestPc, WorkerPc
<1>7. /\ \A r \in Runs : Removes(q, r) <=> r = Run(q)
      /\ \A r \in Runs : Removes(q, r)' <=> r = Run(q)
      /\ Run(q)' = Run(q)
  BY <1>1, <1>2, <1>3 DEF Removes, Run
<1> QED
  BY <1>1, <1>2, <1>3, <1>4, <1>5, <1>6, <1>7 DEF Clears, RemovePc, Clearing

LEMMA DiscardRowsEffect ==
    ASSUME TypeInv, NEW q \in Requests, DiscardRows(q)
    PROVE  TypeInv' /\ Clears(q) /\ at'[q].pc = "idle"
<1>1. at[q].pc = "rows" /\ q \in Processes
  BY DEF DiscardRows, On, Processes
<1>2. Run(q) \in Runs
  BY <1>1, OnRunPlace DEF TypeInv, RunPc
<1>3. /\ at' \in [Processes -> {Idle} \cup OnRun \cup OnList]
      /\ at'[q].pc = "idle"
      /\ \A s \in Processes : s # q => at'[s] = at[s]
  BY <1>1, EndsEffect DEF TypeInv, DiscardRows
<1>4. /\ result' \in [Runs -> Result \cup {None}]
      /\ layer' \in [Runs -> {"none", "empty", "whole"}]
      /\ result'[Run(q)] = None /\ layer'[Run(q)] = "none"
      /\ \A r \in Runs : r # Run(q) => result'[r] = result[r] /\ layer'[r] = layer[r]
  BY <1>2 DEF DiscardRows, TypeInv, TypeOK
<1>5. UNCHANGED <<files, queue, failures, started, area, old, calls, saved,
                  crossed, left, cut, stuck>>
  BY DEF DiscardRows, history
<1>6. TypeInv'
  BY <1>1, <1>3, <1>4, <1>5, ConstantsAssumption
     DEF TypeInv, TypeOK, Processes, RequestPc, WorkerPc
<1>7. \A r \in Runs : Removes(q, r) <=> r = Run(q)
  BY <1>1, <1>2 DEF Removes
<1> QED
  BY <1>1, <1>2, <1>3, <1>4, <1>5, <1>6, <1>7 DEF Clears, RemovePc, Clearing

LEMMA SweepFilesEffect ==
    ASSUME TypeInv, NEW q \in Requests, SweepFiles(q)
    PROVE  /\ TypeInv' /\ Clears(q)
           /\ at[q].pc = "sweep" /\ at'[q].pc = "sweep"
           /\ UNCHANGED <<result, layer>>
           /\ at'[q].list = at[q].list /\ at'[q].paths = at[q].paths
           /\ \E r \in at[q].todo :
                 /\ at'[q].todo = at[q].todo \ {r}
                 /\ \A x \in Runs : x # r => files'[x] = files[x]
                 /\ files'[r] = IF r \in at[q].paths /\ "result" \in files[r] THEN {}
                                ELSE files[r]
<1>1. at[q].pc = "sweep" /\ q \in Processes
  BY DEF SweepFiles, On, Processes
<1>2. at[q] \in OnList
  BY <1>1, OnListPlace DEF TypeInv
<1>3. PICK r \in at[q].todo :
         /\ files' = IF r \in at[q].paths /\ "result" \in files[r]
                        THEN [files EXCEPT ![r] = {}] ELSE files
         /\ at' = [at EXCEPT ![q].todo = @ \ {r}]
  BY DEF SweepFiles
<1>4. r \in Runs
  BY <1>2 DEF OnList
<1> DEFINE place == [at[q] EXCEPT !.todo = @ \ {r}]
<1>5. /\ place \in OnList /\ place.pc = "sweep" /\ place.list = at[q].list
      /\ place.paths = at[q].paths /\ place.todo = at[q].todo \ {r}
  BY <1>2 DEF OnList
<1>6. at' = [at EXCEPT ![q] = place]
  BY <1>3
<1> HIDE DEF place
<1>7. /\ at' \in [Processes -> {Idle} \cup OnRun \cup OnList]
      /\ at'[q] = place
      /\ \A s \in Processes : s # q => at'[s] = at[s]
  BY <1>1, <1>5, <1>6 DEF TypeInv, TypeOK
<1>8. /\ files' \in [Runs -> SUBSET Files]
      /\ \A x \in Runs : x # r => files'[x] = files[x]
      /\ files'[r] = IF r \in at[q].paths /\ "result" \in files[r] THEN {} ELSE files[r]
  BY <1>3, <1>4 DEF TypeInv, TypeOK
<1>9. UNCHANGED <<result, layer, queue, failures, started, area, old, calls, saved,
                  crossed, left, cut, stuck>>
  BY DEF SweepFiles, rows, history
<1>10. TypeInv'
  BY <1>1, <1>5, <1>7, <1>8, <1>9, ConstantsAssumption
     DEF TypeInv, TypeOK, Processes, RequestPc, WorkerPc
<1>11. /\ \A x \in Runs : Removes(q, x) <=> x \in at[q].list
       /\ \A x \in Runs : Removes(q, x)' <=> x \in at[q].list
       /\ \A x \in Runs : x # r => files'[x] = files[x]
  BY <1>1, <1>5, <1>7, <1>8 DEF Removes
<1>12. r \in at[q].list
  BY <1>1 DEF TypeInv
<1>13. Clears(q)
  BY <1>1, <1>4, <1>5, <1>7, <1>8, <1>9, <1>11, <1>12 DEF Clears, RemovePc, Clearing
<1> QED
  BY <1>1, <1>5, <1>7, <1>8, <1>9, <1>10, <1>13

LEMMA SweepRowsEffect ==
    ASSUME TypeInv, NEW q \in Requests, SweepRows(q)
    PROVE  TypeInv' /\ Clears(q) /\ at'[q].pc = "idle"
<1>1. at[q].pc = "sweep" /\ q \in Processes /\ at[q].todo = {}
  BY DEF SweepRows, On, Processes
<1>2. /\ at' \in [Processes -> {Idle} \cup OnRun \cup OnList]
      /\ at'[q].pc = "idle"
      /\ \A s \in Processes : s # q => at'[s] = at[s]
  BY <1>1, EndsEffect DEF TypeInv, SweepRows
<1>3. /\ result' \in [Runs -> Result \cup {None}]
      /\ layer' \in [Runs -> {"none", "empty", "whole"}]
      /\ \A r \in at[q].list : r \in Runs => result'[r] = None /\ layer'[r] = "none"
      /\ \A r \in Runs : r \notin at[q].list =>
                result'[r] = result[r] /\ layer'[r] = layer[r]
  BY DEF SweepRows, TypeInv, TypeOK
<1>4. UNCHANGED <<files, queue, failures, started, area, old, calls, saved,
                  crossed, left, cut, stuck>>
  BY DEF SweepRows, history
<1>5. TypeInv'
  BY <1>1, <1>2, <1>3, <1>4, ConstantsAssumption
     DEF TypeInv, TypeOK, Processes, RequestPc, WorkerPc
<1>6. \A r \in Runs : Removes(q, r) <=> r \in at[q].list
  BY <1>1 DEF Removes
<1> QED
  BY <1>1, <1>2, <1>3, <1>4, <1>5, <1>6 DEF Clears, RemovePc, Clearing

\* A removal that fails or dies is cut short.
LEMMA RemovalFails ==
    ASSUME TypeInv, NEW q \in Requests, at[q].pc \in RemovePc, Raises(q) \/ RequestDies(q)
    PROVE  TypeInv' /\ Clears(q) /\ at'[q].pc = "idle" /\ cut'
<1>1. q \in Processes /\ at[q].pc \notin {"load", "compute", "store", "send"}
  BY DEF RemovePc, Processes
<1>2. Ends(q)
  BY DEF Raises, RequestDies, Ends
<1>3. /\ at' \in [Processes -> {Idle} \cup OnRun \cup OnList]
      /\ at'[q].pc = "idle"
      /\ \A s \in Processes : s # q => at'[s] = at[s]
  BY <1>1, <1>2, EndsEffect DEF TypeInv
<1>4. /\ UNCHANGED <<result, layer, files, queue, started, area, old, calls, saved,
                     crossed, left, stuck>>
      /\ cut'
  BY <1>1 DEF Raises, RequestDies, rows, history, On
<1>5. failures' \in 0 .. MaxFailures
  BY ConstantsAssumption DEF Raises, RequestDies, Fails, TypeInv, TypeOK
<1>6. TypeInv'
  BY <1>1, <1>3, <1>4, <1>5, ConstantsAssumption
     DEF TypeInv, TypeOK, Processes, RequestPc, WorkerPc
<1> QED
  BY <1>1, <1>3, <1>4, <1>6 DEF Clears, RemovePc, Clearing

-----------------------------------------------------------------------------
(* The other steps.                                                          *)

LEMMA BeginsEffect ==
    ASSUME TypeInv, NEW q \in Requests, NEW r \in Runs, NEW pc \in {"load", "place"},
           Begins(q, r, pc)
    PROVE  /\ TypeInv'
           /\ r \notin started /\ started' = started \cup {r}
           /\ \A x \in Runs : x # r => (x \in area' <=> x \in area)
           /\ at[q].pc = "idle" /\ at'[q].pc = pc /\ Run(q)' = r
           /\ \A s \in Processes : s # q => at'[s] = at[s]
           /\ UNCHANGED <<result, layer, files, queue, saved, crossed, left, cut, stuck>>
<1>1. First(r) \in Message /\ First(r).run = r
  BY ConstantsAssumption DEF First, Message
<1>2. q \in Processes /\ pc \in RunPc /\ Enters(q, pc, First(r))
  BY DEF Processes, RunPc, Begins
<1>3. /\ at' \in [Processes -> {Idle} \cup OnRun \cup OnList]
      /\ at'[q].pc = pc /\ at'[q].msg = First(r)
      /\ \A s \in Processes : s # q => at'[s] = at[s]
  BY <1>1, <1>2, EntersEffect DEF TypeInv
<1>4. /\ r \notin started /\ started' = started \cup {r} /\ at[q].pc = "idle"
      /\ area' \in {area, area \cup {r}}
      /\ UNCHANGED <<result, layer, files, old, queue, calls, failures, saved, crossed,
                     left, cut, stuck>>
  BY DEF Begins, On, rows
<1>5. TypeInv'
  BY <1>2, <1>3, <1>4, ConstantsAssumption
     DEF TypeInv, TypeOK, Processes, RequestPc, CreatePc, WorkerPc
<1> QED
  BY <1>1, <1>3, <1>4, <1>5 DEF Run

LEMMA TakeEffect ==
    ASSUME TypeInv, NEW w \in Workers, Take(w)
    PROVE  /\ TypeInv'
           /\ at[w].pc = "idle" /\ at'[w].pc = "mark"
           /\ \E m \in queue : queue' = queue \ {m} /\ Run(w)' = m.run
           /\ \A s \in Processes : s # w => at'[s] = at[s]
           /\ UNCHANGED <<started, area, result, layer, files, saved, crossed, left, cut, stuck>>
<1>1. PICK m \in queue : queue' = queue \ {m} /\ Enters(w, "mark", m)
  BY DEF Take
<1>2. w \in Processes /\ "mark" \in RunPc /\ m \in Message /\ at[w].pc = "idle"
  BY <1>1 DEF Processes, RunPc, TypeInv, TypeOK, Take, Idle
<1>3. /\ at' \in [Processes -> {Idle} \cup OnRun \cup OnList]
      /\ at'[w].pc = "mark" /\ at'[w].msg = m
      /\ \A s \in Processes : s # w => at'[s] = at[s]
  BY <1>1, <1>2, EntersEffect DEF TypeInv
<1>4. UNCHANGED <<started, area, result, layer, files, old, calls, failures, saved,
                  crossed, left, cut, stuck>>
  BY DEF Take, rows, history
<1>5. TypeInv'
  BY <1>1, <1>2, <1>3, <1>4, ConstantsAssumption
     DEF TypeInv, TypeOK, Processes, RequestPc, CreatePc, WorkerPc
<1> QED
  BY <1>1, <1>2, <1>3, <1>4, <1>5 DEF Run

\* A run at rest has no message and no process.
Rests(r) ==
    /\ \A m \in queue : m.run # r
    /\ \A p \in Processes : ~Carries(p, r) /\ ~Removes(p, r)
LEMMA RestIs ==
    ASSUME TypeInv, NEW r \in Runs
    PROVE  AtRest(r) <=> Rests(r)
BY HasIs DEF AtRest, Waits, Rests

LEMMA CallsType ==
    ASSUME TypeInv, Calls
    PROVE  calls' \in 0 .. MaxCalls
BY ConstantsAssumption DEF TypeInv, TypeOK, Calls

LEMMA SaveEffect ==
    ASSUME TypeInv, NEW q \in Requests, NEW r \in Runs, Save(q, r)
    PROVE  /\ TypeInv'
           /\ result[r] # None /\ result'[r] # None /\ ~result'[r].ephemeral
           /\ result'[r].status = result[r].status /\ result'[r].path = result[r].path
           /\ \A x \in Runs : x # r => result'[x] = result[x]
           /\ saved' = saved \cup {r}
           /\ r \in crossed' \/ Rests(r)
           /\ \A x \in Runs : x # r => (x \in crossed' <=> x \in crossed)
           /\ crossed \subseteq crossed'
           /\ UNCHANGED <<started, area, layer, files, at, queue, left, cut, stuck>>
<1> DEFINE new == [result[r] EXCEPT !.ephemeral = FALSE]
<1>1. result[r] # None /\ Sets(r, new)
  BY DEF Save, HasResult
<1>2. /\ new \in Result /\ ~new.ephemeral /\ new.status = result[r].status
      /\ new.path = result[r].path
  BY <1>1 DEF TypeInv, TypeOK, Result
<1> HIDE DEF new
<1>3. /\ result' \in [Runs -> Result \cup {None}]
      /\ result'[r] = new /\ result'[r] # None
      /\ \A x \in Runs : x # r => result'[x] = result[x]
  BY <1>1, <1>2, SetsEffect DEF TypeInv
<1>4. /\ saved' = saved \cup {r}
      /\ crossed' = IF AtRest(r) THEN crossed ELSE crossed \cup {r}
      /\ UNCHANGED <<started, area, layer, files, old, at, queue, failures, left, cut, stuck>>
      /\ calls' \in 0 .. MaxCalls
  BY CallsType DEF Save
<1>5. /\ r \in crossed' \/ Rests(r)
      /\ \A x \in Runs : x # r => (x \in crossed' <=> x \in crossed)
      /\ crossed \subseteq crossed' /\ crossed' \subseteq Runs
  BY <1>4, RestIs DEF TypeInv, TypeOK
<1>6. TypeInv'
  BY <1>3, <1>4, <1>5 DEF TypeInv, TypeOK
<1> QED
  BY <1>1, <1>2, <1>3, <1>4, <1>5, <1>6

LEMMA DiscardReadEffect ==
    ASSUME TypeInv, NEW q \in Requests, NEW r \in Runs, DiscardRead(q, r)
    PROVE  /\ TypeInv'
           /\ at[q].pc = "idle" /\ at'[q].pc = "files" /\ Run(q)' = r
           /\ at'[q].path = result[r].path
           /\ \A s \in Processes : s # q => at'[s] = at[s]
           /\ result[r] # None
           /\ saved' = saved \ {r}
           /\ r \in crossed' \/ Rests(r)
           /\ \A x \in Runs : x # r => (x \in crossed' <=> x \in crossed)
           /\ crossed \subseteq crossed'
           /\ UNCHANGED <<started, area, result, layer, files, queue, left, cut, stuck>>
<1> DEFINE place == [pc |-> "files", msg |-> First(r), path |-> result[r].path]
<1>1. /\ at[q].pc = "idle" /\ q \in Processes /\ result[r] # None
      /\ at' = [at EXCEPT ![q] = place]
  BY DEF DiscardRead, On, HasResult, Processes
<1>2. place \in OnRun /\ place.pc = "files" /\ place.msg.run = r /\ place.path = result[r].path
  BY <1>1, ConstantsAssumption DEF OnRun, RunPc, First, Message, TypeInv, TypeOK, Result
<1> HIDE DEF place
<1>3. /\ at' \in [Processes -> {Idle} \cup OnRun \cup OnList]
      /\ at'[q] = place
      /\ \A s \in Processes : s # q => at'[s] = at[s]
  BY <1>1, <1>2 DEF TypeInv, TypeOK
<1>4. /\ saved' = saved \ {r}
      /\ crossed' = IF AtRest(r) THEN crossed ELSE crossed \cup {r}
      /\ UNCHANGED <<started, area, result, layer, files, old, queue, failures, left, cut, stuck>>
      /\ calls' \in 0 .. MaxCalls
  BY CallsType DEF DiscardRead, rows
<1>5. /\ r \in crossed' \/ Rests(r)
      /\ \A x \in Runs : x # r => (x \in crossed' <=> x \in crossed)
      /\ crossed \subseteq crossed' /\ crossed' \subseteq Runs
  BY <1>4, RestIs DEF TypeInv, TypeOK
<1>6. TypeInv'
  BY <1>1, <1>2, <1>3, <1>4, <1>5, ConstantsAssumption
     DEF TypeInv, TypeOK, Processes, RequestPc, WorkerPc
<1> QED
  BY <1>1, <1>2, <1>3, <1>4, <1>5, <1>6 DEF Run

LEMMA SweepListEffect ==
    ASSUME TypeInv, NEW q \in Requests, SweepList(q)
    PROVE  /\ TypeInv'
           /\ at[q].pc = "idle" /\ at'[q].pc = "sweep"
           /\ at'[q].list \subseteq Runs /\ at'[q].todo = at'[q].list
           /\ \A r \in at'[q].list :
                 /\ result[r] # None /\ result[r].ephemeral
                 /\ r \in at'[q].paths <=> result[r].path
                 /\ r \in crossed' \/ Rests(r)
           /\ \A r \in Runs : r \notin at'[q].list => (r \in crossed' <=> r \in crossed)
           /\ crossed \subseteq crossed'
           /\ \A s \in Processes : s # q => at'[s] = at[s]
           /\ UNCHANGED <<started, area, result, layer, files, queue, saved, left, cut, stuck>>
<1> DEFINE list == {r \in old : HasResult(r) /\ result[r].ephemeral}
           place == [pc |-> "sweep", list |-> list, todo |-> list,
                     paths |-> {r \in list : result[r].path}]
<1>1. /\ at[q].pc = "idle" /\ q \in Processes
      /\ at' = [at EXCEPT ![q] = place]
      /\ crossed' = crossed \cup {r \in list : ~AtRest(r)}
  BY DEF SweepList, Lists, On, Processes
<1>2. /\ list \subseteq Runs
      /\ \A r \in list : result[r] # None /\ result[r].ephemeral
  BY DEF HasResult, TypeInv, TypeOK
<1>3. /\ place \in OnList /\ place.pc = "sweep" /\ place.list = list /\ place.todo = list
      /\ \A r \in list : r \in place.paths <=> result[r].path
  BY <1>2 DEF OnList
<1> HIDE DEF place
<1>4. /\ at' \in [Processes -> {Idle} \cup OnRun \cup OnList]
      /\ at'[q] = place
      /\ \A s \in Processes : s # q => at'[s] = at[s]
  BY <1>1, <1>3 DEF TypeInv, TypeOK
<1>5. /\ UNCHANGED <<started, area, result, layer, files, old, queue, failures, saved, left, cut, stuck>>
      /\ calls' \in 0 .. MaxCalls
  BY CallsType DEF SweepList, Lists, rows
<1> HIDE DEF list
<1>6. /\ \A r \in list : r \in crossed' \/ Rests(r)
      /\ \A r \in Runs : r \notin list => (r \in crossed' <=> r \in crossed)
      /\ crossed \subseteq crossed' /\ crossed' \subseteq Runs
  BY <1>1, <1>2, RestIs DEF TypeInv, TypeOK
<1>7. TypeInv'
  BY <1>1, <1>3, <1>4, <1>5, <1>6, ConstantsAssumption
     DEF TypeInv, TypeOK, Processes, RequestPc, WorkerPc
<1> QED
  BY <1>1, <1>2, <1>3, <1>4, <1>5, <1>6, <1>7

LEMMA AgeEffect ==
    ASSUME TypeInv, NEW r \in Runs, Age(r)
    PROVE  /\ TypeInv'
           /\ UNCHANGED <<started, area, result, layer, files, at, queue, saved, crossed,
                          left, cut, stuck>>
<1>1. /\ UNCHANGED <<started, area, result, layer, files, at, queue, calls, failures, saved,
                     crossed, left, cut, stuck>>
      /\ old' = old \cup {r}
  BY DEF Age, rows
<1> QED
  BY <1>1 DEF TypeInv, TypeOK

-----------------------------------------------------------------------------
(* The invariant, and the kinds of steps that it is kept by.                 *)

Inv == /\ TypeInv /\ FreshInv /\ CarrierInv /\ CreateInv /\ ComputeInv
       /\ SaveInv /\ RemoveInv /\ GoneInv /\ WholeInv

AnyOwn(p) ==
    \/ Load(p) \/ Compute(p) \/ Store(p) \/ Sources(p) \/ SourcesFail(p)
    \/ at[p].pc \in CarryPc /\ Raises(p)
RequestOwn(q) ==
    \/ Place(q) \/ Pend(q) \/ Send(q) \/ SyncLayer(q) \/ SyncResult(q)
    \/ at[q].pc \in CarryPc /\ RequestDies(q)
WorkerOwn(w) ==
    Mark(w) \/ Finish(w) \/ Fill(w) \/ Fail(w) \/ Drop(w) \/ Retry(w) \/ WorkerDies(w)
OwnStep(p) ==
    AnyOwn(p) \/ (p \in Requests /\ RequestOwn(p)) \/ (p \in Workers /\ WorkerOwn(p))
Removal(q) ==
    \/ DiscardFiles(q) \/ DiscardRows(q) \/ SweepFiles(q) \/ SweepRows(q)
    \/ at[q].pc \in RemovePc /\ (Raises(q) \/ RequestDies(q))
Quiet ==
    UNCHANGED <<started, area, result, layer, files, at, queue, saved, crossed, left, cut, stuck>>

LEMMA OwnIs ==
    ASSUME TypeInv, CreateInv, NEW p \in Processes, NEW r, r = Run(p), OwnStep(p)
    PROVE  TypeInv' /\ Own(p, r)
<1>1. CASE AnyOwn(p)
  BY <1>1, LoadEffect, ComputeEffect, StoreEffect, SourcesEffect, SourcesFailEffect,
     RaisesEffect DEF AnyOwn
<1>2. CASE p \in Requests /\ RequestOwn(p)
  <2>1. at[p].pc \in CreatePc => result[Run(p)] = None
    BY <1>2, OnRunPlace DEF CreateInv, Created, Carries, CarryPc, CreatePc, RunPc, TypeInv
  <2>2. CASE Pend(p)
    <3>1. at[p].pc = "pend"
      BY <2>2 DEF Pend, On
    <3> QED
      BY <1>2, <2>1, <2>2, <3>1, PendEffect DEF CreatePc
  <2>3. CASE SyncResult(p)
    <3>1. at[p].pc = "result"
      BY <2>3 DEF SyncResult, On
    <3> QED
      BY <1>2, <2>1, <2>3, <3>1, SyncResultEffect DEF CreatePc
  <2> QED
    BY <1>2, <2>2, <2>3, PlaceEffect, SendEffect, SyncLayerEffect, RequestDiesEffect
       DEF RequestOwn
<1>3. CASE p \in Workers /\ WorkerOwn(p)
  BY <1>3, MarkEffect, FinishEffect, FillEffect, FailEffect, DropEffect, RetryEffect,
     WorkerDiesEffect DEF WorkerOwn
<1> QED
  BY <1>1, <1>2, <1>3 DEF OwnStep

LEMMA RemovalIs ==
    ASSUME TypeInv, NEW q \in Requests, Removal(q)
    PROVE  TypeInv' /\ Clears(q)
BY DiscardFilesEffect, DiscardRowsEffect, SweepFilesEffect, SweepRowsEffect, RemovalFails
   DEF Removal

LEMMA RunSets ==
    ASSUME TypeInv
    PROVE  /\ saved \subseteq Runs /\ started \subseteq Runs
           /\ \A m \in queue : m.run \in Runs
BY DEF TypeInv, TypeOK, Message

\* Who computes or removes a run goes on with it or leaves it.
LEMMA OwnMoves ==
    ASSUME TypeInv, NEW p \in Processes, NEW r, r = Run(p), Own(p, r)
    PROVE  /\ Carries(p, r) /\ r \in Runs
           /\ \A x \in Runs : Carries(p, x) <=> x = r
           /\ \A s \in Processes, x \in Runs :
                 /\ Removes(s, x)' <=> Removes(s, x)
                 /\ Carries(s, x)' => Carries(s, x)
                 /\ s # p => (Carries(s, x)' <=> Carries(s, x))
           /\ at'[p].pc = "idle" => ~Carries(p, r)'
           /\ \A m \in queue' : m \in queue \/ (m.run = r /\ at'[p].pc = "idle")
           /\ \A m, n \in queue' : m \notin queue /\ n \notin queue => m = n
BY DEF Own, Others, Stays, Leaves, Carries, Removes, Run, CarryPc, RunPc

LEMMA ClearsMoves ==
    ASSUME NEW q \in Requests, Clears(q)
    PROVE  \A s \in Processes, r \in Runs :
              /\ Removes(s, r)' => Removes(s, r)
              /\ s # q => (Removes(s, r)' <=> Removes(s, r))
              /\ Carries(s, r)' <=> Carries(s, r)
<1>1. /\ at[q].pc \in RemovePc
      /\ \A s \in Processes : s # q => at'[s] = at[s]
      /\ \/ at'[q].pc = "idle"
         \/ at'[q].pc \in RemovePc /\ \A r \in Runs : Removes(q, r)' <=> Removes(q, r)
  BY DEF Clears
<1>2. \A r \in Runs : Removes(q, r)' => Removes(q, r)
  BY <1>1 DEF Removes
<1>3. \A s \in Processes, r \in Runs : s # q => (Removes(s, r)' <=> Removes(s, r))
  BY <1>1 DEF Removes, Run
<1>4. \A s \in Processes, r \in Runs : Carries(s, r)' <=> Carries(s, r)
  BY <1>1 DEF Carries, Run, CarryPc, RunPc, RemovePc
<1> QED
  BY <1>2, <1>3, <1>4

\* What excuses a missing file goes on to excuse it.
LEMMA ExcusedOwn ==
    ASSUME TypeInv, NEW p \in Processes, NEW r, r = Run(p), Own(p, r),
           NEW x \in Runs, result[x] = None => result'[x] = None, Excused(x)
    PROVE  Excused(x)'
<1>1. ASSUME NEW q \in Requests, Clearing(q, x)
      PROVE  Clearing(q, x)'
  <2>1. q \in Processes /\ at[p].pc \in CarryPc /\ at[q].pc \in {"rows", "sweep"}
    BY <1>1 DEF Clearing, Processes, Own
  <2>2. at'[q] = at[q]
    BY <2>1 DEF Own, Others, CarryPc, RunPc
  <2> QED
    BY <1>1, <2>2 DEF Clearing, Removes, Run
<1> QED
  BY <1>1 DEF Excused, Own, Others

LEMMA ExcusedClears ==
    ASSUME NEW q \in Requests, Clears(q), NEW x \in Runs
    PROVE  /\ Excused(x) => Excused(x)'
           /\ files'[x] = files[x] \/ Excused(x)'
<1>1. \A s \in Requests : s # q => (Clearing(s, x) <=> Clearing(s, x)')
  BY DEF Clears, Clearing, Removes, Run, Processes
<1>2. /\ result[x] = None => result'[x] = None
      /\ cut => cut'
      /\ (files'[x] = files[x] /\ ~Clearing(q, x)) \/ Clearing(q, x)' \/ result'[x] = None \/ cut'
  BY DEF Clears
<1> QED
  BY <1>1, <1>2 DEF Excused

LEMMA ExcusedStays ==
    ASSUME \A q \in Requests : at[q].pc = "idle" \/ at'[q] = at[q],
           NEW x \in Runs, result[x] = None => result'[x] = None, cut' = cut, Excused(x)
    PROVE  Excused(x)'
BY DEF Excused, Clearing, Removes, Run

\* What raises has a run of its own to compute, or runs to remove.
LEMMA FailingPlace ==
    ASSUME TypeInv, NEW p \in Processes, Raises(p) \/ (p \in Requests /\ RequestDies(p))
    PROVE  at[p].pc \in CarryPc \/ (p \in Requests /\ at[p].pc \in RemovePc)
<1>1. CASE Raises(p)
  BY <1>1 DEF Raises, Unhandled, CarryPc, RunPc, RemovePc, TypeInv, WorkerPc, Processes
<1>2. CASE p \in Requests /\ RequestDies(p)
  <2>1. at[p].pc # "idle"
    BY <1>2, IdlePlace DEF RequestDies, TypeInv
  <2> QED
    BY <1>2, <2>1 DEF TypeInv, RequestPc, CreatePc, CarryPc, RunPc, RemovePc
<1> QED
  BY <1>1, <1>2

LEMMA Kinds ==
    ASSUME Inv, [Next]_vars
    PROVE  /\ TypeInv'
           /\ \/ \E q \in Requests, r \in Runs, pc \in {"load", "place"} : Begins(q, r, pc)
              \/ \E w \in Workers : Take(w)
              \/ \E p \in Processes, r \in Runs : r = Run(p) /\ OwnStep(p)
              \/ \E q \in Requests : Removal(q)
              \/ \E q \in Requests, r \in Runs : Save(q, r)
              \/ \E q \in Requests, r \in Runs : DiscardRead(q, r)
              \/ \E q \in Requests : SweepList(q)
              \/ Quiet
<1> USE DEF Inv
<1>1. ASSUME NEW q \in Requests, NEW r \in Runs, RunSync(q, r) \/ RunAsync(q, r)
      PROVE  TypeInv' /\ \E pc \in {"load", "place"} : Begins(q, r, pc)
  BY <1>1, BeginsEffect DEF RunSync, RunAsync
<1>2. ASSUME NEW q \in Requests, NEW r \in Runs, Save(q, r) \/ DiscardRead(q, r)
      PROVE  TypeInv'
  BY <1>2, SaveEffect, DiscardReadEffect
<1>3. ASSUME NEW q \in Requests, SweepList(q)
      PROVE  TypeInv'
  BY <1>3, SweepListEffect
<1>4. ASSUME NEW w \in Workers, Take(w)
      PROVE  TypeInv'
  BY <1>4, TakeEffect
<1>5. ASSUME NEW r \in Runs, Age(r)
      PROVE  TypeInv' /\ Quiet
  BY <1>5, AgeEffect DEF Quiet
<1>6. CASE UNCHANGED vars
  <2>1. Quiet
    BY <1>6 DEF vars, Quiet
  <2>2. TypeInv'
    BY <1>6 DEF vars, TypeInv, TypeOK
  <2> QED
    BY <2>1, <2>2
<1>7. ASSUME NEW q \in Requests, RequestStep(q) \/ RequestDies(q)
      PROVE  TypeInv' /\ ((OwnStep(q) /\ Run(q) \in Runs) \/ Removal(q))
  <2>1. q \in Processes
    BY DEF Processes
  <2>2. OwnStep(q) \/ Removal(q)
    BY <1>7, <2>1, FailingPlace
       DEF RequestStep, Executes, OwnStep, AnyOwn, RequestOwn, Removal
  <2> QED
    BY <2>1, <2>2, OwnIs, RemovalIs DEF Own
<1>8. ASSUME NEW w \in Workers, WorkerStep(w) \/ WorkerDies(w)
      PROVE  TypeInv' /\ ((OwnStep(w) /\ Run(w) \in Runs) \/ Take(w))
  <2>1. w \in Processes /\ w \notin Requests
    BY ConstantsAssumption DEF Processes
  <2>2. OwnStep(w) \/ Take(w)
    BY <1>8, <2>1, FailingPlace DEF WorkerStep, Executes, OwnStep, AnyOwn, WorkerOwn
  <2> QED
    BY <1>4, <2>1, <2>2, OwnIs DEF Own
<1> QED
  BY <1>1, <1>2, <1>3, <1>4, <1>5, <1>6, <1>7, <1>8 DEF Next, Processes

-----------------------------------------------------------------------------
(* Each part of the invariant is kept.                                       *)

LEMMA FreshStep ==
    ASSUME Inv, [Next]_vars
    PROVE  FreshInv'
<1> USE DEF Inv
<1>1. ASSUME NEW q \in Requests, NEW r \in Runs, NEW pc \in {"load", "place"}, Begins(q, r, pc)
      PROVE  FreshInv'
  BY <1>1, BeginsEffect DEF FreshInv, Processes, Carries, Removes, Run, CarryPc, RunPc
<1>2. ASSUME NEW w \in Workers, Take(w)
      PROVE  FreshInv'
  BY <1>2, TakeEffect DEF FreshInv, Processes, Carries, Removes, Run, CarryPc, RunPc
<1>3. ASSUME NEW p \in Processes, NEW r \in Runs, r = Run(p), OwnStep(p)
      PROVE  FreshInv'
  BY <1>3, OwnIs, OwnMoves, RunSets DEF FreshInv, Own, Others
<1>4. ASSUME NEW q \in Requests, Removal(q)
      PROVE  FreshInv'
  BY <1>4, RemovalIs, ClearsMoves, RunSets DEF FreshInv, Clears, Processes
<1>5. ASSUME NEW q \in Requests, NEW r \in Runs, Save(q, r)
      PROVE  FreshInv'
  BY <1>5, SaveEffect, RunSets DEF FreshInv, Carries, Removes, Run, CarryPc, RunPc, Rests
<1>6. ASSUME NEW q \in Requests, NEW r \in Runs, DiscardRead(q, r)
      PROVE  FreshInv'
  BY <1>6, DiscardReadEffect
  DEF FreshInv, Processes, Carries, Removes, Run, CarryPc, RunPc
<1>7. ASSUME NEW q \in Requests, SweepList(q)
      PROVE  FreshInv'
  BY <1>7, SweepListEffect DEF FreshInv, Processes, Carries, Removes, Run, CarryPc, RunPc
<1>8. CASE Quiet
  BY <1>8 DEF Quiet, FreshInv, Carries, Removes, Run
<1> QED
  BY <1>1, <1>2, <1>3, <1>4, <1>5, <1>6, <1>7, <1>8, Kinds

LEMMA CarrierStep ==
    ASSUME Inv, [Next]_vars
    PROVE  CarrierInv'
<1> USE DEF Inv
<1>1. ASSUME NEW q \in Requests, NEW r \in Runs, NEW pc \in {"load", "place"}, Begins(q, r, pc)
      PROVE  CarrierInv'
  BY <1>1, BeginsEffect
  DEF CarrierInv, FreshInv, Processes, Carries, Removes, Run, CarryPc, RunPc
<1>2. ASSUME NEW w \in Workers, Take(w)
      PROVE  CarrierInv'
  BY <1>2, TakeEffect
  DEF CarrierInv, FreshInv, Processes, Carries, Removes, Run, CarryPc, RunPc
<1>3. ASSUME NEW p \in Processes, NEW r \in Runs, r = Run(p), OwnStep(p)
      PROVE  CarrierInv'
  <2>1. /\ Own(p, r) /\ Carries(p, r)
        /\ \A s \in Processes, x \in Runs : Carries(s, x)' => Carries(s, x)
        /\ \A m \in queue : m.run \in Runs /\ m.run # r
        /\ \A m \in queue' : m \in queue \/ (m.run = r /\ at'[p].pc = "idle")
        /\ \A m, n \in queue' : m \notin queue /\ n \notin queue => m = n
        /\ at'[p].pc = "idle" => ~Carries(p, r)'
    BY <1>3, OwnIs, OwnMoves, RunSets DEF CarrierInv
  <2>2. \A m, n \in queue' : m.run = n.run => m = n
    BY <2>1 DEF CarrierInv
  <2>3. \A m \in queue' : \A s \in Processes : ~Carries(s, m.run)'
    BY <2>1 DEF CarrierInv
  <2> QED
    BY <2>1, <2>2, <2>3 DEF CarrierInv
<1>4. ASSUME NEW q \in Requests, Removal(q)
      PROVE  CarrierInv'
  BY <1>4, RemovalIs, ClearsMoves, RunSets DEF CarrierInv, FreshInv, Clears, Processes
<1>5. ASSUME NEW q \in Requests, NEW r \in Runs, Save(q, r)
      PROVE  CarrierInv'
  BY <1>5, SaveEffect, RunSets
  DEF CarrierInv, FreshInv, Carries, Removes, Run, CarryPc, RunPc, Rests
<1>6. ASSUME NEW q \in Requests, NEW r \in Runs, DiscardRead(q, r)
      PROVE  CarrierInv'
  BY <1>6, DiscardReadEffect
  DEF CarrierInv, FreshInv, Processes, Carries, Removes, Run, CarryPc, RunPc
<1>7. ASSUME NEW q \in Requests, SweepList(q)
      PROVE  CarrierInv'
  BY <1>7, SweepListEffect
  DEF CarrierInv, FreshInv, Processes, Carries, Removes, Run, CarryPc, RunPc
<1>8. CASE Quiet
  BY <1>8 DEF Quiet, CarrierInv, FreshInv, Carries, Removes, Run
<1> QED
  BY <1>1, <1>2, <1>3, <1>4, <1>5, <1>6, <1>7, <1>8, Kinds

LEMMA SaveStep ==
    ASSUME Inv, [Next]_vars
    PROVE  SaveInv'
<1> USE DEF Inv
<1>1. ASSUME NEW q \in Requests, NEW r \in Runs, NEW pc \in {"load", "place"}, Begins(q, r, pc)
      PROVE  SaveInv'
  BY <1>1, BeginsEffect
  DEF SaveInv, FreshInv, CreateInv, Created, Processes, Carries, Removes, Run, CarryPc,
      RunPc
<1>2. ASSUME NEW w \in Workers, Take(w)
      PROVE  SaveInv'
  BY <1>2, TakeEffect
  DEF SaveInv, FreshInv, CreateInv, Created, Processes, Carries, Removes, Run, CarryPc,
      RunPc
<1>3. ASSUME NEW p \in Processes, NEW r \in Runs, r = Run(p), OwnStep(p)
      PROVE  SaveInv'
  BY <1>3, OwnIs, OwnMoves, RunSets DEF SaveInv, FreshInv, CreateInv, Created, Own, Others
<1>4. ASSUME NEW q \in Requests, Removal(q)
      PROVE  SaveInv'
  BY <1>4, RemovalIs, ClearsMoves, RunSets
  DEF SaveInv, FreshInv, CreateInv, Created, Clears, Processes
<1>5. ASSUME NEW q \in Requests, NEW r \in Runs, Save(q, r)
      PROVE  SaveInv'
  BY <1>5, SaveEffect, RunSets
  DEF SaveInv, FreshInv, CreateInv, Created, Carries, Removes, Run, CarryPc, RunPc, Rests
<1>6. ASSUME NEW q \in Requests, NEW r \in Runs, DiscardRead(q, r)
      PROVE  SaveInv'
  BY <1>6, DiscardReadEffect
  DEF SaveInv, FreshInv, CreateInv, Created, Processes, Carries, Removes, Run, CarryPc,
      RunPc
<1>7. ASSUME NEW q \in Requests, SweepList(q)
      PROVE  SaveInv'
  BY <1>7, SweepListEffect
  DEF SaveInv, FreshInv, CreateInv, Created, Processes, Carries, Removes, Run, CarryPc,
      RunPc
<1>8. CASE Quiet
  BY <1>8 DEF Quiet, SaveInv, FreshInv, CreateInv, Created, Carries, Removes, Run
<1> QED
  BY <1>1, <1>2, <1>3, <1>4, <1>5, <1>6, <1>7, <1>8, Kinds

LEMMA CreateStep ==
    ASSUME Inv, [Next]_vars
    PROVE  CreateInv'
<1> USE DEF Inv
<1>1. ASSUME NEW q \in Requests, NEW r \in Runs, NEW pc \in {"load", "place"}, Begins(q, r, pc)
      PROVE  CreateInv'
  BY <1>1, BeginsEffect
  DEF CreateInv, Created, CarrierInv, FreshInv, Complete, CreatePc, Processes, Carries,
      Removes, Run, CarryPc, RunPc
<1>2. ASSUME NEW w \in Workers, Take(w)
      PROVE  CreateInv'
  BY <1>2, TakeEffect
  DEF CreateInv, Created, CarrierInv, FreshInv, Complete, CreatePc, Processes, Carries,
      Removes, Run, CarryPc, RunPc
<1>3. ASSUME NEW p \in Processes, NEW r \in Runs, r = Run(p), OwnStep(p)
      PROVE  CreateInv'
  <2>1. /\ Own(p, r) /\ Carries(p, r)
        /\ \A s \in Processes, x \in Runs :
              /\ Removes(s, x)' <=> Removes(s, x)
              /\ Carries(s, x)' => Carries(s, x)
        /\ \A x \in Runs : Carries(p, x) <=> x = r
    BY <1>3, OwnIs, OwnMoves
  <2>2. ASSUME NEW q \in Requests, NEW x \in Runs, q # p, at'[q].pc \in CreatePc, Carries(q, x)'
        PROVE  Created(q, x)'
    <3>1. q \in Processes
      BY DEF Processes
    <3>2. at'[q] = at[q] /\ Carries(q, x) /\ x # r
      BY <1>3, <2>1, <2>2, <3>1 DEF Own, Others, CarrierInv
    <3>3. Created(q, x)
      BY <2>2, <3>2 DEF CreateInv
    <3>4. /\ result'[x] = result[x] /\ layer'[x] = layer[x] /\ files'[x] = files[x]
          /\ saved' = saved /\ area' = area
      BY <2>1, <2>2, <3>2 DEF Own, Others
    <3> QED
      BY <2>1, <2>2, <3>2, <3>3, <3>4 DEF Created, Complete
  <2>3. ASSUME p \in Requests, at'[p].pc \in CreatePc
        PROVE  Created(p, r)'
    <3>1. at[p].pc \in CreatePc => Created(p, r)
      BY <2>1, <2>3 DEF CreateInv
    <3>2. /\ saved' = saved /\ area' = area
          /\ \A s \in Processes : Removes(s, r)' <=> Removes(s, r)
      BY <1>3, <2>1 DEF Own
    <3>3. p \notin Workers /\ Stored(p) = "layer"
      BY <2>3, ConstantsAssumption DEF Stored
    <3>4. CASE Load(p)
      BY <1>3, <3>1, <3>2, <3>4, LoadEffect DEF Created, CreatePc
    <3>5. CASE Compute(p)
      BY <1>3, <3>1, <3>2, <3>5, ComputeEffect DEF Created, CreatePc
    <3>6. CASE Store(p)
      BY <1>3, <3>1, <3>2, <3>3, <3>6, StoreEffect DEF Created, CreatePc, Complete
    <3>7. CASE Sources(p)
      BY <1>3, <3>1, <3>2, <3>3, <3>7, SourcesEffect
      DEF Created, CreatePc, Complete, Files
    <3>8. CASE SourcesFail(p)
      BY <2>3, <3>8, SourcesFailEffect DEF CreatePc
    <3>9. CASE at[p].pc \in CarryPc /\ Raises(p)
      BY <2>3, <3>9, RaisesEffect DEF CreatePc
    <3>10. CASE Place(p)
      BY <1>3, <2>3, <3>1, <3>2, <3>10, PlaceEffect DEF Created, CreatePc
    <3>11. CASE Pend(p)
      <4>1. at[p].pc = "pend"
        BY <3>11 DEF Pend, On
      <4> QED
        BY <1>3, <2>3, <3>1, <3>11, <4>1, PendEffect DEF Created, CreatePc
    <3>12. CASE Send(p)
      BY <2>3, <3>12, SendEffect DEF CreatePc
    <3>13. CASE SyncLayer(p)
      BY <1>3, <2>3, <3>1, <3>2, <3>13, SyncLayerEffect DEF Created, CreatePc, Complete
    <3>14. CASE SyncResult(p)
      <4>1. at[p].pc = "result"
        BY <3>14 DEF SyncResult, On
      <4> QED
        BY <1>3, <2>3, <3>1, <3>14, <4>1, SyncResultEffect DEF Created, CreatePc
    <3>15. CASE at[p].pc \in CarryPc /\ RequestDies(p)
      BY <2>3, <3>15, RequestDiesEffect DEF CreatePc
    <3> QED
      BY <1>3, <3>3, <3>4, <3>5, <3>6, <3>7, <3>8, <3>9, <3>10, <3>11, <3>12, <3>13,
         <3>14, <3>15
      DEF OwnStep, AnyOwn, RequestOwn
  <2> QED
    BY <2>1, <2>2, <2>3 DEF CreateInv, Processes
<1>4. ASSUME NEW q \in Requests, Removal(q)
      PROVE  CreateInv'
  <2>1. Clears(q)
    BY <1>4, RemovalIs
  <2>2. ASSUME NEW s \in Requests, NEW x \in Runs, at'[s].pc \in CreatePc, Carries(s, x)'
        PROVE  Created(s, x)'
    <3>1. s # q
      BY <2>1, <2>2 DEF Clears, RemovePc, CreatePc
    <3>2. s \in Processes /\ q \in Processes
      BY DEF Processes
    <3>3. at'[s] = at[s] /\ Carries(s, x)
      BY <2>1, <2>2, <3>1, <3>2, ClearsMoves DEF Clears
    <3>4. Created(s, x)
      BY <2>2, <3>3 DEF CreateInv
    <3>5. \A p \in Processes : ~Removes(p, x) /\ ~Removes(p, x)'
      BY <2>1, <3>4, ClearsMoves DEF Created
    <3>6. /\ result'[x] = result[x] /\ layer'[x] = layer[x] /\ files'[x] = files[x]
          /\ saved' = saved /\ area' = area
      BY <2>1, <3>2, <3>5 DEF Clears
    <3> QED
      BY <3>3, <3>4, <3>5, <3>6 DEF Created, Complete
  <2> QED
    BY <2>2 DEF CreateInv
<1>5. ASSUME NEW q \in Requests, NEW r \in Runs, Save(q, r)
      PROVE  CreateInv'
  BY <1>5, SaveEffect, RunSets
  DEF CreateInv, Created, CarrierInv, FreshInv, Complete, CreatePc, Carries, Removes, Run,
      CarryPc, RunPc, Rests
<1>6. ASSUME NEW q \in Requests, NEW r \in Runs, DiscardRead(q, r)
      PROVE  CreateInv'
  BY <1>6, DiscardReadEffect
  DEF CreateInv, Created, CarrierInv, FreshInv, Complete, CreatePc, Processes, Carries,
      Removes, Run, CarryPc, RunPc
<1>7. ASSUME NEW q \in Requests, SweepList(q)
      PROVE  CreateInv'
  BY <1>7, SweepListEffect
  DEF CreateInv, Created, CarrierInv, FreshInv, Complete, CreatePc, Processes, Carries,
      Removes, Run, CarryPc, RunPc
<1>8. CASE Quiet
  BY <1>8
  DEF Quiet, CreateInv, Created, CarrierInv, FreshInv, Complete, CreatePc, Carries,
      Removes, Run
<1> QED
  BY <1>1, <1>2, <1>3, <1>4, <1>5, <1>6, <1>7, <1>8, Kinds

LEMMA ComputeStep ==
    ASSUME Inv, [Next]_vars
    PROVE  ComputeInv'
<1> USE DEF Inv
<1>1. ASSUME NEW q \in Requests, NEW r \in Runs, NEW pc \in {"load", "place"}, Begins(q, r, pc)
      PROVE  ComputeInv'
  <2>1. /\ \A p \in Requests : at[p].pc = "idle" \/ at'[p] = at[p]
        /\ \A x \in Runs : result[x] = None => result'[x] = None
        /\ cut' = cut
    BY <1>1, BeginsEffect DEF Processes
  <2>2. \A x \in Runs : Excused(x) => Excused(x)'
    BY <2>1, ExcusedStays
  <2> QED
    BY <1>1, <2>2, BeginsEffect
    DEF ComputeInv, Computed, Kept, FreshInv, CarrierInv, Complete, Is, HasResult,
        Carries, Removes, Run, CarryPc, RunPc, Processes
<1>2. ASSUME NEW w \in Workers, Take(w)
      PROVE  ComputeInv'
  <2>1. /\ \A q \in Requests : at[q].pc = "idle" \/ at'[q] = at[q]
        /\ \A x \in Runs : result[x] = None => result'[x] = None
        /\ cut' = cut
    BY <1>2, TakeEffect, ConstantsAssumption DEF Processes
  <2>2. \A x \in Runs : Excused(x) => Excused(x)'
    BY <2>1, ExcusedStays
  <2> QED
    BY <1>2, <2>2, TakeEffect, ConstantsAssumption
    DEF ComputeInv, Computed, Kept, FreshInv, CarrierInv, Complete, Is, HasResult,
        Carries, Removes, Run, CarryPc, RunPc, Processes
<1>3. ASSUME NEW p \in Processes, NEW r \in Runs, r = Run(p), OwnStep(p)
      PROVE  ComputeInv'
  <2>1. /\ TypeInv' /\ Own(p, r) /\ Carries(p, r)
        /\ \A s \in Processes, x \in Runs : Carries(s, x)' => Carries(s, x)
        /\ \A x \in Runs : Carries(p, x) <=> x = r
    BY <1>3, OwnIs, OwnMoves
  <2>2. ASSUME NEW w \in Workers, NEW x \in Runs, w # p, Carries(w, x)'
        PROVE  Computed(w, x)'
    <3>1. w \in Processes
      BY DEF Processes
    <3>2. at'[w] = at[w] /\ Carries(w, x) /\ x # r
      BY <1>3, <2>1, <2>2, <3>1 DEF Own, Others, CarrierInv
    <3>3. Computed(w, x)
      BY <2>2, <3>2 DEF ComputeInv
    <3>4. result'[x] = result[x] /\ files'[x] = files[x] /\ area' = area
      BY <2>1, <2>2, <3>2 DEF Own, Others
    <3>5. Excused(x) => Excused(x)'
      BY <1>3, <2>1, <2>2, <3>4, ExcusedOwn
    <3> QED
      BY <3>2, <3>3, <3>4, <3>5 DEF Computed, Kept, Complete, Is, HasResult
  <2>3. ASSUME p \in Workers, Carries(p, r)'
        PROVE  Computed(p, r)'
    <3>1. (result[r] = None => result'[r] = None) /\ Excused(r) => Excused(r)'
      BY <1>3, <2>1, ExcusedOwn
    <3>2. Computed(p, r) /\ area' = area /\ at'[p].pc # "idle"
      BY <1>3, <2>1, <2>3 DEF ComputeInv, Own, Carries, CarryPc, RunPc
    <3>3. p \notin Requests /\ Stored(p) = "result"
      BY <2>3, ConstantsAssumption DEF Stored
    <3>4. CASE Load(p)
      BY <1>3, <2>3, <3>1, <3>2, <3>3, <3>4, LoadEffect
         DEF Computed, Kept, Is, HasResult
    <3>5. CASE Compute(p)
      BY <1>3, <2>3, <3>1, <3>2, <3>3, <3>5, ComputeEffect
         DEF Computed, Kept, Is, HasResult
    <3>6. CASE Store(p)
      BY <1>3, <2>3, <3>1, <3>2, <3>3, <3>6, StoreEffect
         DEF Computed, Kept, Is, HasResult, Complete
    <3>7. CASE Sources(p)
      BY <1>3, <2>3, <3>1, <3>2, <3>3, <3>7, SourcesEffect
         DEF Computed, Kept, Is, HasResult, Complete, Files
    <3>8. CASE SourcesFail(p)
      BY <1>3, <2>3, <3>1, <3>2, <3>3, <3>8, SourcesFailEffect
         DEF Computed, Kept, Is, HasResult
    <3>9. CASE at[p].pc \in CarryPc /\ Raises(p)
      <4>1. at[p].pc \in WorkerPc
        BY <2>3 DEF TypeInv
      <4>2. /\ at'[p].pc = FailPc(p)
            /\ at[p].pc \in CarryPc \ {"sources", "drop", "retry"}
            /\ UNCHANGED <<result, layer, files>>
        BY <1>3, <3>3, <3>9, RaisesEffect
      <4>3. /\ at'[p].pc \notin {"sources", "result"}
            /\ at'[p].pc = "fail" => at[p].pc \in {"load", "compute", "store"}
        BY <4>1, <4>2 DEF FailPc, Unhandled, WorkerPc, CarryPc, RunPc
      <4>4. at'[p].pc \in {"fail", "retry"}
        BY <4>2 DEF FailPc
      <4> QED
        BY <3>2, <4>2, <4>3, <4>4 DEF Computed, Is, HasResult
    <3>10. CASE Mark(p)
      BY <1>3, <2>3, <3>1, <3>2, <3>10, MarkEffect
         DEF Computed, Kept, Is, HasResult, Result, TypeInv, TypeOK
    <3>11. CASE Finish(p)
      BY <1>3, <2>3, <3>1, <3>2, <3>11, FinishEffect
         DEF Computed, Kept, Is, HasResult
    <3>12. CASE Fill(p)
      BY <1>3, <2>3, <3>1, <3>2, <3>12, FillEffect
         DEF Computed, Kept, Is, HasResult
    <3>13. CASE Fail(p)
      BY <1>3, <2>3, <3>1, <3>2, <3>13, FailEffect
         DEF Computed, Kept, Is, HasResult
    <3>14. CASE Drop(p)
      BY <1>3, <2>3, <3>1, <3>2, <3>14, DropEffect
         DEF Computed, Kept, Is, HasResult
    <3>15. CASE Retry(p)
      BY <1>3, <2>3, <3>1, <3>2, <3>15, RetryEffect
         DEF Computed, Kept, Is, HasResult
    <3>16. CASE WorkerDies(p)
      BY <1>3, <2>3, <3>1, <3>2, <3>16, WorkerDiesEffect
         DEF Computed, Kept, Is, HasResult
    <3> QED
      BY <1>3, <2>3, <3>3, <3>4, <3>5, <3>6, <3>7, <3>8, <3>9, <3>10, <3>11, <3>12, <3>13,
         <3>14, <3>15, <3>16
      DEF OwnStep, AnyOwn, WorkerOwn
  <2> QED
    BY <2>1, <2>2, <2>3 DEF ComputeInv, Processes
<1>4. ASSUME NEW q \in Requests, Removal(q)
      PROVE  ComputeInv'
  <2>1. Clears(q) /\ q \in Processes /\ q \notin Workers
    BY <1>4, RemovalIs, ConstantsAssumption DEF Processes
  <2>2. ASSUME NEW w \in Workers, NEW x \in Runs, Carries(w, x)'
        PROVE  Computed(w, x)'
    <3>1. at'[w] = at[w] /\ Carries(w, x)
      BY <2>1, <2>2, ClearsMoves DEF Clears, Processes
    <3>2. Computed(w, x)
      BY <2>2, <3>1 DEF ComputeInv
    <3>3. /\ result'[x] # None => result'[x] = result[x]
          /\ area' = area
      BY <2>1, <2>2 DEF Clears
    <3>4. (Excused(x) => Excused(x)') /\ (files'[x] = files[x] \/ Excused(x)')
      BY <2>1, <2>2, ExcusedClears
    <3> QED
      BY <3>1, <3>2, <3>3, <3>4 DEF Computed, Kept, Complete, Is, HasResult
  <2> QED
    BY <2>2 DEF ComputeInv
<1>5. ASSUME NEW q \in Requests, NEW r \in Runs, Save(q, r)
      PROVE  ComputeInv'
  <2>1. /\ \A p \in Requests : at[p].pc = "idle" \/ at'[p] = at[p]
        /\ \A x \in Runs : result[x] = None => result'[x] = None
        /\ cut' = cut
    BY <1>5, SaveEffect DEF Processes
  <2>2. \A x \in Runs : Excused(x) => Excused(x)'
    BY <2>1, ExcusedStays
  <2> QED
    BY <1>5, <2>2, SaveEffect
    DEF ComputeInv, Computed, Kept, FreshInv, CarrierInv, Complete, Is, HasResult,
        Carries, Run
<1>6. ASSUME NEW q \in Requests, NEW r \in Runs, DiscardRead(q, r)
      PROVE  ComputeInv'
  <2>1. /\ \A p \in Requests : at[p].pc = "idle" \/ at'[p] = at[p]
        /\ \A x \in Runs : result[x] = None => result'[x] = None
        /\ cut' = cut
    BY <1>6, DiscardReadEffect, ConstantsAssumption DEF Processes
  <2>2. \A x \in Runs : Excused(x) => Excused(x)'
    BY <2>1, ExcusedStays
  <2> QED
    BY <1>6, <2>2, DiscardReadEffect, ConstantsAssumption
    DEF ComputeInv, Computed, Kept, FreshInv, CarrierInv, Complete, Is, HasResult,
        Carries, Run, Processes
<1>7. ASSUME NEW q \in Requests, SweepList(q)
      PROVE  ComputeInv'
  <2>1. /\ \A p \in Requests : at[p].pc = "idle" \/ at'[p] = at[p]
        /\ \A x \in Runs : result[x] = None => result'[x] = None
        /\ cut' = cut
    BY <1>7, SweepListEffect, ConstantsAssumption DEF Processes
  <2>2. \A x \in Runs : Excused(x) => Excused(x)'
    BY <2>1, ExcusedStays
  <2> QED
    BY <1>7, <2>2, SweepListEffect, ConstantsAssumption
    DEF ComputeInv, Computed, Kept, FreshInv, CarrierInv, Complete, Is, HasResult,
        Carries, Run, Processes
<1>8. CASE Quiet
  BY <1>8
  DEF Quiet, ComputeInv, Computed, Kept, FreshInv, CarrierInv, Complete, Is, HasResult,
      Carries, Removes, Run, Excused, Clearing
<1> QED
  BY <1>1, <1>2, <1>3, <1>4, <1>5, <1>6, <1>7, <1>8, Kinds

LEMMA RemoveStep ==
    ASSUME Inv, [Next]_vars
    PROVE  RemoveInv'
<1> USE DEF Inv
<1>1. ASSUME NEW q \in Requests, NEW r \in Runs, NEW pc \in {"load", "place"}, Begins(q, r, pc)
      PROVE  RemoveInv'
  BY <1>1, BeginsEffect
  DEF RemoveInv, Removed, Aware, Names, FreshInv, GoneInv, CarrierInv, Processes, Carries,
      Removes, Run, CarryPc, RunPc
<1>2. ASSUME NEW w \in Workers, Take(w)
      PROVE  RemoveInv'
  BY <1>2, TakeEffect
  DEF RemoveInv, Removed, Aware, Names, FreshInv, GoneInv, CarrierInv, Processes, Carries,
      Removes, Run, CarryPc, RunPc
<1>3. ASSUME NEW p \in Processes, NEW r \in Runs, r = Run(p), OwnStep(p)
      PROVE  RemoveInv'
  <2>1. /\ Own(p, r) /\ Carries(p, r)
        /\ \A s \in Processes, x \in Runs :
              /\ Removes(s, x)' <=> Removes(s, x)
              /\ Carries(s, x)' => Carries(s, x)
        /\ \A m \in queue' : m \in queue \/ m.run = r
    BY <1>3, OwnIs, OwnMoves
  <2>2. ASSUME ~cut', NEW x \in Runs \ crossed, NEW q \in Requests, Removes(q, x)'
        PROVE  Removed(q, x)'
    <3>1. q \in Processes /\ Removes(q, x) /\ ~cut
      BY <2>1, <2>2 DEF Processes, Own, Others
    <3>2. Removed(q, x)
      BY <2>2, <3>1 DEF RemoveInv
    <3>3. x # r
      BY <1>3, <2>1, <3>2 DEF Removed
    <3>4. q # p
      BY <2>1, <3>1 DEF Removes, Carries, CarryPc, RunPc
    <3>5. /\ at'[q] = at[q] /\ files'[x] = files[x] /\ (x \in left' <=> x \in left)
      BY <2>1, <2>2, <3>1, <3>3, <3>4 DEF Own, Others
    <3> QED
      BY <2>1, <2>2, <3>2, <3>3, <3>5 DEF Removed, Aware, Names
  <2>3. crossed' = crossed
    BY <2>1 DEF Own
  <2> QED
    BY <2>2, <2>3 DEF RemoveInv
<1>4. ASSUME NEW q \in Requests, Removal(q)
      PROVE  RemoveInv'
  <2>1. /\ Clears(q) /\ q \in Processes
        /\ \A s \in Processes, x \in Runs :
              /\ Removes(s, x)' => Removes(s, x)
              /\ Carries(s, x)' <=> Carries(s, x)
        /\ UNCHANGED <<queue, crossed, left>> /\ (cut => cut')
    BY <1>4, RemovalIs, ClearsMoves DEF Processes, Clears
  <2>2. ASSUME ~cut', NEW s \in Requests, NEW x \in Runs \ crossed, Removes(s, x)'
        PROVE  Removed(s, x)'
    <3>1. s \in Processes /\ Removes(s, x) /\ ~cut
      BY <2>1, <2>2 DEF Processes
    <3>2. Removed(s, x)
      BY <2>2, <3>1 DEF RemoveInv
    <3>3. CASE s # q
      <4>1. ~Removes(q, x) /\ at'[s] = at[s]
        BY <2>1, <3>1, <3>2, <3>3 DEF Removed, Clears
      <4>2. files'[x] = files[x]
        BY <2>1, <2>2, <4>1 DEF Clears
      <4> QED
        BY <2>1, <2>2, <3>2, <4>1, <4>2 DEF Removed, Aware, Names
    <3>4. CASE s = q
      <4>1. x \notin left => Aware(q, x)'
        <5>1. at'[q].pc # "idle"
          BY <2>2, <3>4 DEF Removes
        <5>2. CASE DiscardFiles(q)
          BY <2>2, <3>2, <3>4, <5>2, DiscardFilesEffect DEF Removed, Aware, Removes, Names
        <5>3. CASE SweepFiles(q)
          <6>1. at[q].pc = "sweep" /\ at'[q].pc = "sweep" /\ at'[q].paths = at[q].paths
            BY <5>3, SweepFilesEffect
          <6>2. PICK y \in at[q].todo :
                   /\ at'[q].todo = at[q].todo \ {y}
                   /\ \A z \in Runs : z # y => files'[z] = files[z]
                   /\ files'[y] = IF y \in at[q].paths /\ "result" \in files[y] THEN {}
                                  ELSE files[y]
            BY <5>3, SweepFilesEffect
          <6>3. x \notin left => IF x \in at[q].todo THEN Names(x \in at[q].paths, x)
                                 ELSE files[x] = {}
            BY <3>2, <3>4, <6>1 DEF Removed, Aware
          <6>4. x \in Runs
            BY <2>2
          <6>5. CASE x = y
            BY <6>1, <6>2, <6>3, <6>5 DEF Aware, Names
          <6>6. CASE x # y
            BY <6>1, <6>2, <6>3, <6>4, <6>6 DEF Aware, Names
          <6> QED
            BY <6>5, <6>6
        <5> QED
          BY <1>4, <5>1, <5>2, <5>3, DiscardRowsEffect, SweepRowsEffect, RemovalFails
          DEF Removal
      <4> QED
        BY <2>1, <2>2, <3>2, <3>4, <4>1 DEF Removed
    <3> QED
      BY <3>3, <3>4
  <2> QED
    BY <2>1, <2>2 DEF RemoveInv
<1>5. ASSUME NEW q \in Requests, NEW r \in Runs, Save(q, r)
      PROVE  RemoveInv'
  BY <1>5, SaveEffect, RunSets
  DEF RemoveInv, Removed, Aware, Names, FreshInv, GoneInv, CarrierInv, Carries, Removes,
      Run, CarryPc, RunPc, Rests
<1>6. ASSUME NEW q \in Requests, NEW r \in Runs, DiscardRead(q, r)
      PROVE  RemoveInv'
  <2>1. /\ q \in Processes /\ at[q].pc = "idle" /\ at'[q].pc = "files"
        /\ \A s \in Processes : s # q => at'[s] = at[s]
        /\ UNCHANGED <<files, result, queue, left, cut, stuck>> /\ crossed \subseteq crossed'
    BY <1>6, DiscardReadEffect DEF Processes
  <2>2. ASSUME NEW s \in Processes, NEW x \in Runs
        PROVE  /\ Carries(s, x)' => Carries(s, x)
               /\ s # q => (Removes(s, x)' <=> Removes(s, x))
    BY <2>1, <2>2 DEF Carries, Removes, Run, CarryPc, RunPc
  <2>3. ASSUME ~cut', NEW x \in Runs, x \notin crossed', Removes(q, x)'
        PROVE  Removed(q, x)'
    <3>1. /\ Rests(x) /\ x \notin crossed /\ result[x] # None /\ at'[q].path = result[x].path
      BY <1>6, <2>1, <2>3, DiscardReadEffect DEF Removes
    <3>2. x \notin left => Names(result[x].path, x)
      BY <2>1, <2>3, <3>1 DEF GoneInv, FreshInv, Rests, Processes
    <3> QED
      BY <2>1, <2>2, <2>3, <3>1, <3>2 DEF Removed, Aware, Rests, Names
  <2>4. ASSUME ~cut', NEW s \in Requests, s # q, NEW x \in Runs, x \notin crossed', Removes(s, x)'
        PROVE  Removed(s, x)'
    <3>1. s \in Processes /\ Removes(s, x) /\ x \notin crossed
      BY <2>1, <2>2, <2>4 DEF Processes
    <3>2. Removed(s, x)
      BY <2>1, <2>4, <3>1 DEF RemoveInv
    <3>3. ~Removes(q, x)'
      <4>1. ~Rests(x)
        BY <2>4, <3>1 DEF Rests
      <4> QED
        BY <1>6, <2>1, <2>4, <4>1, DiscardReadEffect DEF Removes
    <3> QED
      BY <2>1, <2>2, <2>4, <3>1, <3>2, <3>3 DEF Removed, Aware, Names
  <2> QED
    BY <2>3, <2>4 DEF RemoveInv
<1>7. ASSUME NEW q \in Requests, SweepList(q)
      PROVE  RemoveInv'
  <2>1. /\ q \in Processes /\ at[q].pc = "idle" /\ at'[q].pc = "sweep"
        /\ \A s \in Processes : s # q => at'[s] = at[s]
        /\ UNCHANGED <<files, result, queue, left, cut, stuck>> /\ crossed \subseteq crossed'
    BY <1>7, SweepListEffect DEF Processes
  <2>2. ASSUME NEW s \in Processes, NEW x \in Runs
        PROVE  /\ Carries(s, x)' => Carries(s, x)
               /\ s # q => (Removes(s, x)' <=> Removes(s, x))
    BY <2>1, <2>2 DEF Carries, Removes, Run, CarryPc, RunPc
  <2>3. ASSUME ~cut', NEW x \in Runs, x \notin crossed', Removes(q, x)'
        PROVE  Removed(q, x)'
    <3>1. /\ Rests(x) /\ x \notin crossed /\ result[x] # None /\ x \in at'[q].todo
          /\ (x \in at'[q].paths <=> result[x].path)
      BY <1>7, <2>1, <2>3, SweepListEffect DEF Removes
    <3>2. x \notin left => Names(result[x].path, x)
      BY <2>1, <2>3, <3>1 DEF GoneInv, FreshInv, Rests, Processes
    <3> QED
      BY <2>1, <2>2, <2>3, <3>1, <3>2 DEF Removed, Aware, Rests, Names
  <2>4. ASSUME ~cut', NEW s \in Requests, s # q, NEW x \in Runs, x \notin crossed', Removes(s, x)'
        PROVE  Removed(s, x)'
    <3>1. s \in Processes /\ Removes(s, x) /\ x \notin crossed
      BY <2>1, <2>2, <2>4 DEF Processes
    <3>2. Removed(s, x)
      BY <2>1, <2>4, <3>1 DEF RemoveInv
    <3>3. ~Removes(q, x)'
      <4>1. ~Rests(x)
        BY <2>4, <3>1 DEF Rests
      <4> QED
        BY <1>7, <2>1, <2>4, <4>1, SweepListEffect DEF Removes
    <3> QED
      BY <2>1, <2>2, <2>4, <3>1, <3>2, <3>3 DEF Removed, Aware, Names
  <2> QED
    BY <2>3, <2>4 DEF RemoveInv
<1>8. CASE Quiet
  BY <1>8
  DEF Quiet, RemoveInv, Removed, Aware, Names, FreshInv, GoneInv, CarrierInv, Carries,
      Removes, Run
<1> QED
  BY <1>1, <1>2, <1>3, <1>4, <1>5, <1>6, <1>7, <1>8, Kinds

LEMMA GoneStep ==
    ASSUME Inv, [Next]_vars
    PROVE  GoneInv'
<1> USE DEF Inv
<1>1. ASSUME NEW q \in Requests, NEW r \in Runs, NEW pc \in {"load", "place"}, Begins(q, r, pc)
      PROVE  GoneInv'
  <2>1. /\ q \in Processes /\ Carries(q, r)' /\ at'[q].pc \in CreatePc
        /\ \A s \in Processes, x \in Runs : x # r =>
              (Carries(s, x)' <=> Carries(s, x)) /\ (Carries(s, x) => at'[s] = at[s])
        /\ result'[r] = None /\ started' = started \cup {r}
        /\ UNCHANGED <<result, layer, files, queue, crossed, left, cut, stuck>>
    BY <1>1, BeginsEffect DEF Processes, Carries, Run, CarryPc, RunPc, CreatePc, FreshInv
  <2>2. ASSUME ~cut', NEW x \in started \ crossed, x # r
        PROVE  /\ result'[x] # None /\ x \notin left' =>
                     \/ Names(result[x].path, x)'
                     \/ \E w \in Workers : at'[w].pc \in {"sources", "result"} /\ Carries(w, x)'
               /\ result'[x] = None =>
                     \/ \E s \in Requests : at'[s].pc \in CreatePc /\ Carries(s, x)'
                     \/ /\ \A m \in queue' : m.run # x
                        /\ \A p \in Processes : ~Carries(p, x)'
                        /\ x \notin left' => files'[x] = {} /\ layer'[x] = "none"
    BY <2>1, <2>2, RunSets DEF GoneInv, Names, Processes
  <2> QED
    BY <2>1, <2>2 DEF GoneInv
<1>2. ASSUME NEW w \in Workers, Take(w)
      PROVE  GoneInv'
  BY <1>2, TakeEffect
  DEF GoneInv, Names, FreshInv, CarrierInv, CreateInv, RemoveInv, Removed, Aware,
      Processes, Carries, Removes, Run, CarryPc, RunPc
<1>3. ASSUME NEW p \in Processes, NEW r \in Runs, r = Run(p), OwnStep(p)
      PROVE  GoneInv'
  <2>1. /\ Own(p, r) /\ Carries(p, r) /\ TypeInv'
        /\ \A s \in Processes, x \in Runs :
              /\ Carries(s, x)' => Carries(s, x)
              /\ s # p => (Carries(s, x)' <=> Carries(s, x))
        /\ \A x \in Runs : Carries(p, x) <=> x = r
        /\ \A m \in queue' : m \in queue \/ m.run = r
    BY <1>3, OwnIs, OwnMoves
  <2>2. ASSUME ~cut', NEW x \in started \ crossed, x # r
        PROVE  /\ result'[x] # None /\ x \notin left' =>
                     \/ Names(result[x].path, x)'
                     \/ \E w \in Workers : at'[w].pc \in {"sources", "result"} /\ Carries(w, x)'
               /\ result'[x] = None =>
                     \/ \E s \in Requests : at'[s].pc \in CreatePc /\ Carries(s, x)'
                     \/ /\ \A m \in queue' : m.run # x
                        /\ \A s \in Processes : ~Carries(s, x)'
                        /\ x \notin left' => files'[x] = {} /\ layer'[x] = "none"
    <3>1. x \in Runs /\ ~cut
      BY <2>1, <2>2, RunSets DEF Own, Others
    <3>2. /\ result'[x] = result[x] /\ layer'[x] = layer[x] /\ files'[x] = files[x]
          /\ x \in left' <=> x \in left
      BY <2>1, <2>2, <3>1 DEF Own, Others
    <3>3. \A s \in Processes : /\ Carries(s, x)' <=> Carries(s, x)
                               /\ Carries(s, x) => at'[s] = at[s]
      BY <2>1, <2>2, <3>1 DEF Own, Others
    <3> QED
      BY <2>1, <2>2, <3>1, <3>2, <3>3 DEF GoneInv, Names, Processes
  <2>3. r \in started
    BY <1>3, <2>1 DEF FreshInv
  <2>4. ASSUME ~cut', r \notin crossed, p \in Workers
        PROVE  /\ result'[r] # None
               /\ r \notin left' =>
                     Names(result[r].path, r)' \/ (at'[p].pc \in {"sources", "result"} /\ Carries(p, r)')
    <3>1. ~cut /\ p \notin Requests /\ Stored(p) = "result"
      BY <2>1, <2>4, ConstantsAssumption DEF Own, Others, Stored
    <3>2. result[r] # None /\ result'[r] # None
      BY <1>3, <2>1, <2>3, <2>4, <3>1 DEF GoneInv, CarrierInv, Own, Processes
    <3>3. r \notin left' => Names(result[r].path, r) \/ at[p].pc \in {"sources", "result"}
      BY <1>3, <2>1, <2>3, <2>4, <3>1, <3>2
      DEF GoneInv, CarrierInv, Own, Others, Processes
    <3>4. at'[p].pc # "idle" => Carries(p, r)'
      BY <1>3, <2>1 DEF Own, Stays, Leaves, Carries, Run
    <3>5. at[p].pc = "result" => "result" \in files[r]
      <4>1. at[p].pc = "result" => Kept(r, Complete(r))
        BY <2>1, <2>4 DEF ComputeInv, Computed, Own
      <4>2. ASSUME NEW q \in Requests, Clearing(q, r)
            PROVE  FALSE
        BY <1>3, <2>1, <2>4, <3>1, <4>2 DEF RemoveInv, Removed, Clearing, Processes
      <4>3. ~Excused(r)
        BY <3>1, <3>2, <4>2 DEF Excused
      <4> QED
        BY <4>1, <4>3 DEF Kept, Complete, Files
    <3>6. result[r] \in Result /\ result'[r] \in Result
      BY <1>3, <2>1, <3>2 DEF TypeInv, TypeOK
    <3>7. CASE Load(p)
      BY <1>3, <2>4, <3>1, <3>2, <3>3, <3>4, <3>5, <3>6, <3>7, LoadEffect DEF Names
    <3>8. CASE Compute(p)
      BY <1>3, <2>4, <3>1, <3>2, <3>3, <3>4, <3>5, <3>6, <3>8, ComputeEffect DEF Names
    <3>9. CASE Store(p)
      BY <1>3, <2>4, <3>1, <3>2, <3>3, <3>4, <3>5, <3>6, <3>9, StoreEffect DEF Names
    <3>10. CASE Sources(p)
      BY <1>3, <2>4, <3>1, <3>2, <3>3, <3>4, <3>5, <3>6, <3>10, SourcesEffect DEF Names
    <3>11. CASE SourcesFail(p)
      BY <1>3, <2>4, <3>1, <3>2, <3>3, <3>4, <3>5, <3>6, <3>11, SourcesFailEffect
      DEF Names
    <3>12. CASE at[p].pc \in CarryPc /\ Raises(p)
      BY <1>3, <2>4, <3>1, <3>2, <3>3, <3>4, <3>5, <3>6, <3>12, RaisesEffect
      DEF Names, FailPc, Unhandled
    <3>13. CASE Mark(p)
      BY <1>3, <2>4, <3>1, <3>2, <3>3, <3>4, <3>5, <3>6, <3>13, MarkEffect
      DEF Names, Result
    <3>14. CASE Finish(p)
      BY <1>3, <2>4, <3>1, <3>2, <3>3, <3>4, <3>5, <3>6, <3>14, FinishEffect
      DEF Names, Result
    <3>15. CASE Fill(p)
      BY <1>3, <2>4, <3>1, <3>2, <3>3, <3>4, <3>5, <3>6, <3>15, FillEffect DEF Names
    <3>16. CASE Fail(p)
      BY <1>3, <2>4, <3>1, <3>2, <3>3, <3>4, <3>5, <3>6, <3>16, FailEffect
      DEF Names, Result
    <3>17. CASE Drop(p)
      BY <1>3, <2>4, <3>1, <3>2, <3>3, <3>4, <3>5, <3>6, <3>17, DropEffect DEF Names
    <3>18. CASE Retry(p)
      BY <1>3, <2>4, <3>1, <3>2, <3>3, <3>4, <3>5, <3>6, <3>18, RetryEffect DEF Names
    <3>19. CASE WorkerDies(p)
      BY <1>3, <2>4, <3>1, <3>2, <3>3, <3>4, <3>5, <3>6, <3>19, WorkerDiesEffect DEF Names
    <3> QED
      BY <1>3, <2>4, <3>1, <3>7, <3>8, <3>9, <3>10, <3>11, <3>12, <3>13, <3>14, <3>15,
         <3>16, <3>17, <3>18, <3>19
      DEF OwnStep, AnyOwn, WorkerOwn
  <2>5. ASSUME ~cut', r \notin crossed, p \in Requests
        PROVE  /\ result'[r] # None /\ r \notin left' => Names(result[r].path, r)'
               /\ result'[r] = None =>
                     \/ at'[p].pc \in CreatePc /\ Carries(p, r)'
                     \/ /\ at'[p].pc = "idle" /\ queue' = queue
                        /\ files'[r] = {} /\ layer'[r] = "none"
    <3>1. ~cut /\ p \notin Workers /\ Stored(p) = "layer" /\ r \in Runs
      BY <1>3, <2>1, <2>5, ConstantsAssumption DEF Own, Others, Stored
    <3>2. at[p].pc \in CreatePc => Created(p, r)
      BY <2>1, <2>5, <3>1 DEF CreateInv
    <3>3. at'[p].pc # "idle" => Carries(p, r)'
      BY <1>3, <2>1 DEF Own, Stays, Leaves, Carries, Run
    <3>4. CASE Load(p)
      BY <1>3, <2>5, <3>1, <3>2, <3>3, <3>4, LoadEffect DEF Names, Created, CreatePc
    <3>5. CASE Compute(p)
      BY <1>3, <2>5, <3>1, <3>2, <3>3, <3>5, ComputeEffect DEF Names, Created, CreatePc
    <3>6. CASE Store(p)
      BY <1>3, <2>5, <3>1, <3>2, <3>3, <3>6, StoreEffect DEF Names, Created, CreatePc
    <3>7. CASE Sources(p)
      BY <1>3, <2>5, <3>1, <3>2, <3>3, <3>7, SourcesEffect DEF Names, Created, CreatePc
    <3>8. CASE SourcesFail(p)
      BY <1>3, <2>5, <3>1, <3>2, <3>3, <3>8, SourcesFailEffect
      DEF Names, Created, CreatePc
    <3>9. CASE at[p].pc \in CarryPc /\ Raises(p)
      BY <1>3, <2>5, <3>1, <3>2, <3>3, <3>9, RaisesEffect DEF Names, Created, CreatePc
    <3>10. CASE Place(p)
      BY <1>3, <2>5, <3>1, <3>2, <3>3, <3>10, PlaceEffect DEF Names, Created, CreatePc
    <3>11. CASE Pend(p)
      <4>1. at[p].pc = "pend"
        BY <3>11 DEF Pend, On
      <4>2. result'[r] = [status |-> "pending", path |-> FALSE, ephemeral |-> TRUE] /\ files' = files
        BY <1>3, <2>5, <3>2, <3>11, <4>1, PendEffect DEF Created, CreatePc
      <4>3. result'[r] \in Result
        BY <4>2 DEF Result, ResultStatus
      <4>4. result'[r].path = FALSE
        BY <4>2
      <4>5. files[r] = {} \/ (FALSE /\ "result" \in files[r])
        BY <2>5, <3>2, <4>1 DEF Created, CreatePc
      <4> QED
        BY <4>2, <4>3, <4>4, <4>5, NoneAssumption DEF Names
    <3>12. CASE Send(p)
      <4>1. at[p].pc = "send" /\ at'[p].pc = "idle" /\ UNCHANGED <<result, files, left>>
        BY <1>3, <2>5, <3>12, SendEffect
      <4>2. result[r] # None /\ (r \notin left => Names(result[r].path, r))
        BY <1>3, <2>1, <2>3, <2>5, <3>1, <4>1 DEF GoneInv, CarrierInv, CreatePc, Processes
      <4> QED
        BY <4>1, <4>2 DEF Names
    <3>13. CASE SyncLayer(p)
      BY <1>3, <2>5, <3>1, <3>2, <3>3, <3>13, SyncLayerEffect DEF Names, Created, CreatePc
    <3>14. CASE SyncResult(p)
      <4>1. at[p].pc = "result"
        BY <3>14 DEF SyncResult, On
      <4>2. result'[r] = [status |-> "done", path |-> TRUE, ephemeral |-> TRUE] /\ files' = files
        BY <1>3, <2>5, <3>2, <3>14, <4>1, SyncResultEffect DEF Created, CreatePc
      <4>3. result'[r] \in Result
        BY <4>2 DEF Result, ResultStatus
      <4>4. result'[r].path = TRUE
        BY <4>2
      <4>5. files[r] = {} \/ (TRUE /\ "result" \in files[r])
        BY <2>5, <3>2, <4>1 DEF Created, CreatePc, Complete, Files
      <4> QED
        BY <4>2, <4>3, <4>4, <4>5, NoneAssumption DEF Names
    <3>15. CASE at[p].pc \in CarryPc /\ RequestDies(p)
      BY <1>3, <2>5, <3>1, <3>2, <3>3, <3>15, RequestDiesEffect
      DEF Names, Created, CreatePc
    <3> QED
      BY <1>3, <2>5, <3>1, <3>4, <3>5, <3>6, <3>7, <3>8, <3>9, <3>10, <3>11, <3>12, <3>13,
         <3>14, <3>15
      DEF OwnStep, AnyOwn, RequestOwn
  <2>6. r \notin crossed /\ ~cut' =>
           /\ result'[r] # None /\ r \notin left' =>
                 \/ Names(result[r].path, r)'
                 \/ \E w \in Workers : at'[w].pc \in {"sources", "result"} /\ Carries(w, r)'
           /\ result'[r] = None =>
                 \/ \E s \in Requests : at'[s].pc \in CreatePc /\ Carries(s, r)'
                 \/ /\ \A m \in queue' : m.run # r
                    /\ \A s \in Processes : ~Carries(s, r)'
                    /\ r \notin left' => files'[r] = {} /\ layer'[r] = "none"
    <3>1. CASE p \in Workers
      BY <2>4, <3>1
    <3>2. CASE p \in Requests
      <4>1. /\ \A m \in queue : m.run # r
            /\ \A s \in Processes : s # p => ~Carries(s, r)'
        BY <1>3, <2>1, RunSets DEF CarrierInv
      <4>2. at'[p].pc = "idle" => ~Carries(p, r)'
        BY DEF Carries, CarryPc, RunPc
      <4> QED
        BY <2>5, <3>2, <4>1, <4>2
    <3> QED
      BY <1>3, <3>1, <3>2 DEF Processes
  <2>7. UNCHANGED <<started, crossed>>
    BY <2>1 DEF Own
  <2> QED
    BY <2>2, <2>6, <2>7 DEF GoneInv
<1>4. ASSUME NEW q \in Requests, Removal(q)
      PROVE  GoneInv'
  <2>1. /\ Clears(q) /\ q \in Processes
        /\ \A s \in Processes, x \in Runs : Carries(s, x)' <=> Carries(s, x)
        /\ UNCHANGED <<started, queue, crossed, left>> /\ (cut => cut')
    BY <1>4, RemovalIs, ClearsMoves DEF Processes, Clears
  <2>2. \A s \in Processes, x \in Runs : Carries(s, x) => at'[s] = at[s]
    BY <2>1 DEF Clears, RemovePc, Carries, CarryPc, RunPc
  <2>3. ASSUME ~cut', NEW x \in started \ crossed
        PROVE  /\ result'[x] # None /\ x \notin left' =>
                     \/ Names(result[x].path, x)'
                     \/ \E w \in Workers : at'[w].pc \in {"sources", "result"} /\ Carries(w, x)'
               /\ result'[x] = None =>
                     \/ \E s \in Requests : at'[s].pc \in CreatePc /\ Carries(s, x)'
                     \/ /\ \A m \in queue' : m.run # x
                        /\ \A p \in Processes : ~Carries(p, x)'
                        /\ x \notin left' => files'[x] = {} /\ layer'[x] = "none"
    <3>1. x \in Runs /\ ~cut
      BY <2>1, <2>3, RunSets
    <3>2. CASE result'[x] # result[x]
      <4>1. /\ result'[x] = None /\ layer'[x] = "none" /\ files'[x] = files[x]
            /\ Removes(q, x)
            /\ at[q].pc = "rows" \/ (at[q].pc = "sweep" /\ x \notin at[q].todo)
        BY <2>1, <3>1, <3>2 DEF Clears
      <4>2. Removed(q, x)
        BY <2>3, <3>1, <4>1 DEF RemoveInv
      <4> QED
        BY <2>1, <3>1, <4>1, <4>2 DEF Removed, Aware
    <3>3. CASE result'[x] = result[x]
      <4>1. layer'[x] \in {layer[x], "none"} /\ files'[x] \in {files[x], {}}
        BY <2>1, <3>1, <3>3 DEF Clears
      <4>2. /\ result[x] # None /\ x \notin left =>
                  \/ Names(result[x].path, x)
                  \/ \E w \in Workers : at[w].pc \in {"sources", "result"} /\ Carries(w, x)
            /\ result[x] = None =>
                  \/ \E s \in Requests : at[s].pc \in CreatePc /\ Carries(s, x)
                  \/ /\ \A m \in queue : m.run # x
                     /\ \A p \in Processes : ~Carries(p, x)
                     /\ x \notin left => files[x] = {} /\ layer[x] = "none"
        BY <2>3, <3>1 DEF GoneInv
      <4> QED
        BY <2>1, <2>2, <3>1, <3>3, <4>1, <4>2 DEF Names, Processes
    <3> QED
      BY <3>2, <3>3
  <2> QED
    BY <2>1, <2>3 DEF GoneInv
<1>5. ASSUME NEW q \in Requests, NEW r \in Runs, Save(q, r)
      PROVE  GoneInv'
  BY <1>5, SaveEffect, RunSets
  DEF GoneInv, Names, FreshInv, CarrierInv, CreateInv, RemoveInv, Removed, Aware, Carries,
      Removes, Run, CarryPc, RunPc, Rests
<1>6. ASSUME NEW q \in Requests, NEW r \in Runs, DiscardRead(q, r)
      PROVE  GoneInv'
  BY <1>6, DiscardReadEffect
  DEF GoneInv, Names, FreshInv, CarrierInv, CreateInv, RemoveInv, Removed, Aware,
      Processes, Carries, Removes, Run, CarryPc, RunPc
<1>7. ASSUME NEW q \in Requests, SweepList(q)
      PROVE  GoneInv'
  BY <1>7, SweepListEffect
  DEF GoneInv, Names, FreshInv, CarrierInv, CreateInv, RemoveInv, Removed, Aware,
      Processes, Carries, Removes, Run, CarryPc, RunPc
<1>8. CASE Quiet
  BY <1>8
  DEF Quiet, GoneInv, Names, FreshInv, CarrierInv, CreateInv, RemoveInv, Removed, Aware,
      Carries, Removes, Run
<1> QED
  BY <1>1, <1>2, <1>3, <1>4, <1>5, <1>6, <1>7, <1>8, Kinds

LEMMA WholeStep ==
    ASSUME Inv, [Next]_vars
    PROVE  WholeInv'
<1> USE DEF Inv
<1>1. ASSUME NEW q \in Requests, NEW r \in Runs, NEW pc \in {"load", "place"}, Begins(q, r, pc)
      PROVE  WholeInv'
  <2>1. /\ \A p \in Requests : at[p].pc = "idle" \/ at'[p] = at[p]
        /\ \A x \in Runs : result[x] = None => result'[x] = None
        /\ cut' = cut
    BY <1>1, BeginsEffect DEF Processes
  <2>2. \A x \in Runs : Excused(x) => Excused(x)'
    BY <2>1, ExcusedStays
  <2> QED
    BY <1>1, <2>2, BeginsEffect
    DEF WholeInv, Kept, FreshInv, Complete, Is, HasResult, Processes
<1>2. ASSUME NEW w \in Workers, Take(w)
      PROVE  WholeInv'
  <2>1. /\ \A q \in Requests : at[q].pc = "idle" \/ at'[q] = at[q]
        /\ \A x \in Runs : result[x] = None => result'[x] = None
        /\ cut' = cut
    BY <1>2, TakeEffect, ConstantsAssumption DEF Processes
  <2>2. \A x \in Runs : Excused(x) => Excused(x)'
    BY <2>1, ExcusedStays
  <2> QED
    BY <1>2, <2>2, TakeEffect, ConstantsAssumption
    DEF WholeInv, Kept, FreshInv, Complete, Is, HasResult, Processes
<1>3. ASSUME NEW p \in Processes, NEW r \in Runs, r = Run(p), OwnStep(p)
      PROVE  WholeInv'
  <2>1. /\ TypeInv' /\ Own(p, r) /\ Carries(p, r)
    BY <1>3, OwnIs, OwnMoves
  <2>2. ASSUME NEW x \in Runs, x # r
        PROVE  /\ result'[x] # None => layer'[x] # "none"
               /\ Is(x, "done")' => Kept(x, Complete(x))'
    <3>1. result'[x] = result[x] /\ layer'[x] = layer[x] /\ files'[x] = files[x] /\ area' = area
      BY <2>1, <2>2 DEF Own, Others
    <3>2. Excused(x) => Excused(x)'
      BY <1>3, <2>1, <2>2, <3>1, ExcusedOwn
    <3> QED
      BY <2>2, <3>1, <3>2 DEF WholeInv, Kept, Complete, Is, HasResult
  <2>3. /\ result'[r] # None => layer'[r] # "none"
        /\ Is(r, "done")' => Kept(r, Complete(r))'
    <3>1. (result[r] = None => result'[r] = None) /\ Excused(r) => Excused(r)'
      BY <1>3, <2>1, ExcusedOwn
    <3>2. /\ area' = area
          /\ result[r] # None => layer[r] # "none"
          /\ Is(r, "done") => Kept(r, Complete(r))
          /\ result[r] # None => result[r] \in Result
      BY <1>3, <2>1 DEF Own, WholeInv, TypeInv, TypeOK
    <3>3. p \in Workers => Computed(p, r)
      BY <1>3, <2>1 DEF ComputeInv
    <3>4. p \in Requests /\ at[p].pc \in CreatePc => Created(p, r)
      BY <1>3, <2>1 DEF CreateInv
    <3>5. CASE Load(p)
      BY <1>3, <3>1, <3>2, <3>5, LoadEffect DEF Is, HasResult, Kept, Complete
    <3>6. CASE Compute(p)
      BY <1>3, <3>1, <3>2, <3>6, ComputeEffect DEF Is, HasResult, Kept, Complete
    <3>7. CASE Store(p)
      BY <1>3, <3>1, <3>2, <3>7, StoreEffect DEF Is, HasResult, Kept, Complete
    <3>8. CASE Sources(p)
      BY <1>3, <3>1, <3>2, <3>8, SourcesEffect DEF Is, HasResult, Kept, Complete
    <3>9. CASE SourcesFail(p)
      BY <1>3, <3>1, <3>2, <3>3, <3>4, <3>9, SourcesFailEffect
      DEF Is, HasResult, Kept, Complete, Computed, Created, CreatePc, Processes
    <3>10. CASE at[p].pc \in CarryPc /\ Raises(p)
      BY <1>3, <3>1, <3>2, <3>10, RaisesEffect DEF Is, HasResult, Kept, Complete
    <3>11. CASE p \in Requests /\ Place(p)
      BY <1>3, <3>1, <3>2, <3>11, PlaceEffect DEF Is, HasResult, Kept, Complete
    <3>12. CASE p \in Requests /\ Pend(p)
      <4>1. at[p].pc = "pend"
        BY <3>12 DEF Pend, On
      <4> QED
        BY <1>3, <3>2, <3>4, <3>12, <4>1, PendEffect
        DEF Is, HasResult, Kept, Complete, Created, CreatePc
    <3>13. CASE p \in Requests /\ Send(p)
      BY <1>3, <3>1, <3>2, <3>13, SendEffect DEF Is, HasResult, Kept, Complete
    <3>14. CASE p \in Requests /\ SyncLayer(p)
      BY <1>3, <3>1, <3>2, <3>14, SyncLayerEffect DEF Is, HasResult, Kept, Complete
    <3>15. CASE p \in Requests /\ SyncResult(p)
      <4>1. at[p].pc = "result"
        BY <3>15 DEF SyncResult, On
      <4> QED
        BY <1>3, <3>2, <3>4, <3>15, <4>1, SyncResultEffect
        DEF Is, HasResult, Kept, Complete, Created, CreatePc
    <3>16. CASE p \in Requests /\ at[p].pc \in CarryPc /\ RequestDies(p)
      BY <1>3, <3>1, <3>2, <3>16, RequestDiesEffect DEF Is, HasResult, Kept, Complete
    <3>17. CASE p \in Workers /\ Mark(p)
      BY <1>3, <3>1, <3>2, <3>17, MarkEffect DEF Is, HasResult, Kept, Complete, Result
    <3>18. CASE p \in Workers /\ Finish(p)
      BY <1>3, <3>1, <3>2, <3>3, <3>18, FinishEffect
      DEF Is, HasResult, Kept, Complete, Computed
    <3>19. CASE p \in Workers /\ Fill(p)
      BY <1>3, <3>1, <3>2, <3>19, FillEffect DEF Is, HasResult, Kept, Complete
    <3>20. CASE p \in Workers /\ Fail(p)
      BY <1>3, <3>1, <3>2, <3>20, FailEffect DEF Is, HasResult, Kept, Complete, Result
    <3>21. CASE p \in Workers /\ Drop(p)
      BY <1>3, <3>1, <3>2, <3>21, DropEffect DEF Is, HasResult, Kept, Complete
    <3>22. CASE p \in Workers /\ Retry(p)
      BY <1>3, <3>1, <3>2, <3>22, RetryEffect DEF Is, HasResult, Kept, Complete
    <3>23. CASE p \in Workers /\ WorkerDies(p)
      BY <1>3, <3>1, <3>2, <3>23, WorkerDiesEffect DEF Is, HasResult, Kept, Complete
    <3> QED
      BY <1>3, <3>5, <3>6, <3>7, <3>8, <3>9, <3>10, <3>11, <3>12, <3>13, <3>14, <3>15,
         <3>16, <3>17, <3>18, <3>19, <3>20, <3>21, <3>22, <3>23
      DEF OwnStep, AnyOwn, RequestOwn, WorkerOwn
  <2> QED
    BY <2>2, <2>3 DEF WholeInv
<1>4. ASSUME NEW q \in Requests, Removal(q)
      PROVE  WholeInv'
  <2>1. Clears(q)
    BY <1>4, RemovalIs
  <2>2. ASSUME NEW x \in Runs
        PROVE  /\ result'[x] # None => layer'[x] # "none"
               /\ Is(x, "done")' => Kept(x, Complete(x))'
    <3>1. /\ result'[x] # None => layer'[x] = layer[x] /\ result'[x] = result[x]
          /\ area' = area
      BY <2>1, <2>2 DEF Clears
    <3>2. (Excused(x) => Excused(x)') /\ (files'[x] = files[x] \/ Excused(x)')
      BY <2>1, <2>2, ExcusedClears
    <3> QED
      BY <2>2, <3>1, <3>2 DEF WholeInv, Kept, Complete, Is, HasResult
  <2> QED
    BY <2>2 DEF WholeInv
<1>5. ASSUME NEW q \in Requests, NEW r \in Runs, Save(q, r)
      PROVE  WholeInv'
  <2>1. /\ \A p \in Requests : at[p].pc = "idle" \/ at'[p] = at[p]
        /\ \A x \in Runs : result[x] = None => result'[x] = None
        /\ cut' = cut
    BY <1>5, SaveEffect DEF Processes
  <2>2. \A x \in Runs : Excused(x) => Excused(x)'
    BY <2>1, ExcusedStays
  <2> QED
    BY <1>5, <2>2, SaveEffect DEF WholeInv, Kept, FreshInv, Complete, Is, HasResult
<1>6. ASSUME NEW q \in Requests, NEW r \in Runs, DiscardRead(q, r)
      PROVE  WholeInv'
  <2>1. /\ \A p \in Requests : at[p].pc = "idle" \/ at'[p] = at[p]
        /\ \A x \in Runs : result[x] = None => result'[x] = None
        /\ cut' = cut
    BY <1>6, DiscardReadEffect, ConstantsAssumption DEF Processes
  <2>2. \A x \in Runs : Excused(x) => Excused(x)'
    BY <2>1, ExcusedStays
  <2> QED
    BY <1>6, <2>2, DiscardReadEffect, ConstantsAssumption
    DEF WholeInv, Kept, FreshInv, Complete, Is, HasResult, Processes
<1>7. ASSUME NEW q \in Requests, SweepList(q)
      PROVE  WholeInv'
  <2>1. /\ \A p \in Requests : at[p].pc = "idle" \/ at'[p] = at[p]
        /\ \A x \in Runs : result[x] = None => result'[x] = None
        /\ cut' = cut
    BY <1>7, SweepListEffect, ConstantsAssumption DEF Processes
  <2>2. \A x \in Runs : Excused(x) => Excused(x)'
    BY <2>1, ExcusedStays
  <2> QED
    BY <1>7, <2>2, SweepListEffect, ConstantsAssumption
    DEF WholeInv, Kept, FreshInv, Complete, Is, HasResult, Processes
<1>8. CASE Quiet
  BY <1>8
  DEF Quiet, WholeInv, Kept, FreshInv, Complete, Is, HasResult, Carries, Removes, Run,
      Excused, Clearing
<1> QED
  BY <1>1, <1>2, <1>3, <1>4, <1>5, <1>6, <1>7, <1>8, Kinds

-----------------------------------------------------------------------------
(* The theorems.                                                             *)

LEMMA Initially == Init => Inv
<1> SUFFICES ASSUME Init PROVE Inv
  OBVIOUS
<1>1. \A p \in Processes : at[p].pc = "idle"
  BY DEF Init, Idle
<1>2. TypeInv
  <2>1. /\ {started, area, old, saved, crossed, left, stuck} \subseteq SUBSET Runs
        /\ result \in [Runs -> Result \cup {None}]
        /\ layer \in [Runs -> {"none", "empty", "whole"}]
        /\ files \in [Runs -> SUBSET Files]
    BY DEF Init
  <2>2. at \in [Processes -> {Idle} \cup OnRun \cup OnList]
    BY DEF Init
  <2>3. calls \in 0 .. MaxCalls /\ failures \in 0 .. MaxFailures
    BY ConstantsAssumption DEF Init
  <2>4. queue \subseteq Message /\ cut \in BOOLEAN
    BY DEF Init
  <2> QED
    BY <1>1, <2>1, <2>2, <2>3, <2>4 DEF TypeInv, TypeOK, Processes, RequestPc, WorkerPc
<1>3. \A p \in Processes, r \in Runs : ~Carries(p, r) /\ ~Removes(p, r)
  BY <1>1 DEF Carries, Removes, CarryPc, RunPc
<1>4. FreshInv /\ CarrierInv
  BY <1>3 DEF Init, FreshInv, CarrierInv
<1>5. CreateInv /\ ComputeInv /\ RemoveInv
  BY <1>3 DEF CreateInv, ComputeInv, RemoveInv, Processes
<1>6. SaveInv /\ GoneInv /\ WholeInv
  BY DEF Init, SaveInv, GoneInv, WholeInv, Is, HasResult
<1> QED
  BY <1>2, <1>4, <1>5, <1>6 DEF Inv

LEMMA Invariance == Spec => []Inv
<1>1. Inv /\ [Next]_vars => Inv'
  <2> SUFFICES ASSUME Inv, [Next]_vars PROVE Inv'
    OBVIOUS
  <2>1. TypeInv'
    BY Kinds
  <2> QED
    BY <2>1, FreshStep, CarrierStep, CreateStep, ComputeStep, SaveStep, RemoveStep,
       GoneStep,
       WholeStep DEF Inv
<1> QED
  BY <1>1, Initially, PTL DEF Spec

\* Every variable keeps to its type, the place of each process to its kind.
THEOREM TypeCorrectness == Spec => []TypeOK
<1>1. Inv => TypeOK
  BY DEF Inv, TypeInv
<1> QED
  BY <1>1, Invariance, PTL

\* However often a run fails, is retried or delivered again, what stands done has its
\* layer and all its files, until it is removed or a request or its database is cut off.
THEOREM ResultsAreWhole == Spec => []ResultIsWhole
<1>1. Inv => ResultIsWhole
  <2> SUFFICES ASSUME Inv, NEW r \in Runs
               PROVE  /\ HasResult(r) => layer[r] # "none"
                      /\ Is(r, "done") /\ ~Removing(r) /\ ~cut =>
                                Complete(r) \subseteq files[r]
    BY DEF ResultIsWhole
  <2>1. Removing(r) <=> \E q \in Requests : Clearing(q, r)
    <3>1. \A q \in Requests : at[q].pc \in {"rows", "sweep"} =>
              (Has(q, r) <=> Removes(q, r))
      BY HasIs DEF Inv, Processes, Carries, Removes, CarryPc, RunPc
    <3> QED
      BY <3>1 DEF Removing, Clearing
  <2> QED
    BY <2>1 DEF Inv, WholeInv, HasResult, Is, Kept, Excused
<1> QED
  BY <1>1, Invariance, PTL

\* No cleanup takes a saved result that it did not list before the saving.
THEOREM SavedStay == Spec => []SavedIsKept
<1>1. Inv => SavedIsKept
  BY DEF Inv, SaveInv, SavedIsKept, HasResult
<1> QED
  BY <1>1, Invariance, PTL

\* What was discarded or cleaned up without a crossing has left nothing.
THEOREM RemovedAreGone == Spec => []RemovedIsGone
<1>1. Inv => RemovedIsGone
  <2> SUFFICES ASSUME Inv, NEW r \in started, AtRest(r), ~HasResult(r), ~cut,
                      r \notin crossed \cup left
               PROVE  files[r] = {} /\ layer[r] = "none"
    BY DEF RemovedIsGone
  <2>1. r \in Runs
    BY RunSets DEF Inv
  <2>2. Rests(r)
    BY <2>1, RestIs DEF Inv
  <2> QED
    BY <2>1, <2>2 DEF Inv, GoneInv, Rests, HasResult, Processes
<1> QED
  BY <1>1, Invariance, PTL
=============================================================================
