------------------------ MODULE ChunkedUploadProofs -------------------------
(***************************************************************************)
(* Proofs about ChunkedUpload for every set of chunks, any number of       *)
(* requests, sends and failures.                                           *)
(***************************************************************************)
EXTENDS ChunkedUpload, FiniteSetTheorems, TLAPS

Working(r) == at[r].pc \in ChunkPc

\* A request works on a session, and what it has loaded is on disk.
LoadedIsStored ==
    /\ \A r \in Requests : at[r].pc # "idle" => HasRow
    /\ \A r \in Requests :
          /\ At(r, "record") /\ dir # None => at[r].seen.map \cup {at[r].chunk} \subseteq dir
          /\ At(r, "assemble") => at[r].seen.map = Chunks
          /\ At(r, "assemble") /\ dir # None => dir = Chunks
    /\ RecordedIsStored

\* An assembled file is whole, and made of the directory it replaces.
FilesAreWhole ==
    /\ \A r \in Requests : at[r].pc \in {"complete", "finish"} => dir = None
    /\ \A r \in Requests : At(r, "complete") => at[r].file = Chunks
    /\ \A r \in Requests : at[r].pc \in {"finish", "tile"} => Assembled(row.path)
    /\ HasRow /\ Assembled(row.path) => dir = None
    /\ SourceIsWhole

Inv == TypeOK /\ LoadedIsStored /\ FilesAreWhole

-----------------------------------------------------------------------------
(* Chunks and what a request records.                                      *)

LEMMA ChunksAreFinite ==
    /\ IsFiniteSet(Chunks) /\ Cardinality(Chunks) \in Nat
    /\ \A S \in SUBSET Chunks :
          /\ Cardinality(S) \in 0 .. Cardinality(Chunks)
          /\ Cardinality(S) >= Cardinality(Chunks) => S = Chunks
<1>1. IsFiniteSet(Chunks) /\ Cardinality(Chunks) \in Nat
  BY FS_CardinalityType, ConstantsAssumption
<1>2. ASSUME NEW S \in SUBSET Chunks
      PROVE  /\ Cardinality(S) \in 0 .. Cardinality(Chunks)
             /\ Cardinality(S) >= Cardinality(Chunks) => S = Chunks
  <2>1. /\ IsFiniteSet(S) /\ Cardinality(S) <= Cardinality(Chunks)
        /\ Cardinality(S) = Cardinality(Chunks) => S = Chunks
    BY FS_Subset, <1>1
  <2>2. Cardinality(S) \in Nat
    BY FS_CardinalityType, <2>1
  <2> QED
    BY <1>1, <2>1, <2>2
<1> QED
  BY <1>1, <1>2

\* What a request records is well typed, and complete only with every chunk.
LEMMA RecordedEffect ==
    ASSUME NEW seen \in Columns, NEW c \in Chunks
    PROVE  /\ Recorded(seen, c) \in Columns
           /\ Recorded(seen, c).status = "uploading"
           /\ Recorded(seen, c).map = seen.map \cup {c}
           /\ Completes(Recorded(seen, c)) => seen.map \cup {c} = Chunks
           /\ ~Completes(Recorded(seen, c)) => seen.map \cup {c} # Chunks
<1>1. seen.map \cup {c} \in SUBSET Chunks
  BY DEF Columns
<1>2. /\ Cardinality(seen.map \cup {c}) \in 0 .. Cardinality(Chunks)
      /\ Cardinality(Chunks) \in Nat
      /\ Cardinality(seen.map \cup {c}) >= Cardinality(Chunks) => seen.map \cup {c} = Chunks
  BY <1>1, ChunksAreFinite
<1> QED
  BY <1>1, <1>2 DEF Recorded, Completes, Columns, JobStatus

-----------------------------------------------------------------------------
LEMMA InitInv == Init => Inv
<1> SUFFICES ASSUME Init PROVE Inv
  OBVIOUS
<1>1. TypeOK
  <2>1. at \in [Requests -> Short]
    BY DEF Init, Short
  <2>2. overdue \in BOOLEAN /\ overlap \in BOOLEAN
    BY DEF Init
  <2>3. sends \in 0 .. MaxSends /\ failures \in 0 .. MaxFailures
    BY ConstantsAssumption DEF Init
  <2> QED
    BY <2>1, <2>2, <2>3 DEF Init, TypeOK
<1>2. \A r \in Requests : at[r].pc = "idle"
  BY DEF Init, Idle
<1> QED
  BY <1>1, <1>2
  DEF Init, Inv, LoadedIsStored, FilesAreWhole, RecordedIsStored,
      SourceIsWhole, NamedIsWhole, ReadyHasSource, HasRow, At

(* The session's own steps.                                                *)
LEMMA SessionInv ==
    ASSUME Inv, InitUpload \/ TimePasses \/ TilingEnds \/ Crash
    PROVE  Inv'
<1>1. CASE InitUpload
  <2>1. \A r \in Requests : at[r].pc = "idle"
    BY <1>1 DEF Inv, LoadedIsStored, InitUpload, HasRow
  <2>2. row' \in Row
    BY <1>1, ChunksAreFinite DEF InitUpload, Row, JobStatus
  <2>3. TypeOK'
    BY <1>1, <2>2 DEF InitUpload, Inv, TypeOK
  <2> QED
    BY <1>1, <2>1, <2>3
    DEF InitUpload, Inv, LoadedIsStored, FilesAreWhole, RecordedIsStored,
        SourceIsWhole, NamedIsWhole, ReadyHasSource, HasRow, At, Assembled
<1>2. CASE TimePasses
  BY <1>2
  DEF TimePasses, Inv, TypeOK, LoadedIsStored, FilesAreWhole, RecordedIsStored,
      SourceIsWhole, NamedIsWhole, ReadyHasSource, HasRow, At, Assembled
<1>3. CASE TilingEnds
  <2>1. row \in Row /\ row' \in Row /\ row'.path = row.path /\ row'.map = row.map
        /\ Assembled(row.path)
    BY <1>3 DEF TilingEnds, SetStatus, Inv, FilesAreWhole, SourceIsWhole, ReadyHasSource,
                TypeOK, HasRow, Row, JobStatus
  <2> QED
    <3>1. TypeOK'
      BY <1>3, <2>1 DEF TilingEnds, Inv, TypeOK
    <3>2. LoadedIsStored'
      BY <1>3, <2>1, NoneAssumption
      DEF TilingEnds, Inv, LoadedIsStored, RecordedIsStored, HasRow, At
    <3>3. FilesAreWhole'
      BY <1>3, <2>1
      DEF TilingEnds, Inv, FilesAreWhole, SourceIsWhole, NamedIsWhole, ReadyHasSource,
          HasRow, At, Assembled
    <3> QED
      BY <3>1, <3>2, <3>3 DEF Inv
<1>4. CASE Crash
  <2>1. TypeOK'
    BY <1>4, ConstantsAssumption DEF Crash, Inv, TypeOK, Short
  <2>2. \A r \in Requests : at'[r].pc = "idle"
    BY <1>4 DEF Crash, Idle
  <2> QED
    BY <1>4, <2>1, <2>2
    DEF Crash, Inv, LoadedIsStored, FilesAreWhole, RecordedIsStored,
        SourceIsWhole, NamedIsWhole, ReadyHasSource, HasRow, At, Assembled
<1> QED
  BY <1>1, <1>2, <1>3, <1>4

-----------------------------------------------------------------------------
(* What the steps of a request do to its place.                            *)

LEMMA WorksInChunk ==
    ASSUME TypeOK, NEW r \in Requests, at[r].pc \in ChunkPc
    PROVE  at[r] \in InChunk
BY DEF TypeOK, Short, Idle, ChunkPc

LEMMA GoEffect ==
    ASSUME TypeOK, NEW r \in Requests, at[r] \in InChunk, NEW pc \in ChunkPc, Go(r, pc)
    PROVE  /\ at' \in [Requests -> Short \cup InChunk]
           /\ at'[r].pc = pc /\ at'[r].chunk = at[r].chunk
           /\ at'[r].seen = at[r].seen /\ at'[r].file = at[r].file
           /\ \A q \in Requests : q # r => at'[q] = at[q]
<1>1. [at[r] EXCEPT !.pc = pc] \in InChunk
  BY DEF InChunk
<1>2. at' = [at EXCEPT ![r] = [at[r] EXCEPT !.pc = pc]]
  BY DEF Go
<1> QED
  BY <1>1, <1>2 DEF TypeOK, InChunk

LEMMA EndEffect ==
    ASSUME TypeOK, NEW r \in Requests, End(r)
    PROVE  /\ at' \in [Requests -> Short \cup InChunk]
           /\ at'[r].pc = "idle"
           /\ \A q \in Requests : q # r => at'[q] = at[q]
<1>1. at' = [at EXCEPT ![r] = Idle] /\ Idle \in Short
  BY DEF End, Short
<1>2. at' \in [Requests -> Short \cup InChunk] /\ at'[r] = Idle
      /\ \A q \in Requests : q # r => at'[q] = at[q]
  BY <1>1 DEF TypeOK
<1> QED
  BY <1>2 DEF Idle

\* Writing the status changes nothing else of the row.
LEMMA StatusEffect ==
    ASSUME TypeOK, HasRow, NEW status \in JobStatus, SetStatus(status)
    PROVE  /\ row \in Row /\ row' \in Row /\ row' # None /\ row'.status = status
           /\ row'.map = row.map /\ row'.path = row.path
BY NoneAssumption DEF TypeOK, HasRow, SetStatus, Row

(* A step that begins or ends a request, and writes at most a status.      *)
LEMMA StatusInv ==
    ASSUME Inv, NEW r \in Requests, HasRow, row' # None,
           UNCHANGED <<dir, failures, overdue, overlap>>,
           row \in Row, row' \in Row, row'.map = row.map, row'.path = row.path,
           row'.status \in {"uploaded", "processing", "done"} => Assembled(row.path),
           at' \in [Requests -> Short \cup InChunk],
           at'[r].pc \notin ChunkPc, at'[r].pc = "tile" => Assembled(row.path),
           \A q \in Requests : q # r => at'[q] = at[q],
           sends' \in 0 .. MaxSends, acked' \subseteq Chunks
    PROVE  Inv'
<1>1. TypeOK'
  BY DEF Inv, TypeOK
<1>2. LoadedIsStored'
  BY DEF Inv, LoadedIsStored, RecordedIsStored, HasRow, At, ChunkPc
<1>3. FilesAreWhole'
  BY DEF Inv, FilesAreWhole, SourceIsWhole, NamedIsWhole, ReadyHasSource, HasRow, At,
         Assembled, ChunkPc
<1> QED
  BY <1>1, <1>2, <1>3 DEF Inv

-----------------------------------------------------------------------------
(* The steps of a chunk request.                                           *)

LEMMA StoreInv ==
    ASSUME Inv, NEW r \in Requests, NEW c \in Chunks, ChunkStore(r, c)
    PROVE  Inv'
<1> DEFINE seen == [status |-> row.status, map |-> row.map, count |-> row.count]
           place == [pc |-> "record", chunk |-> c, file |-> None, seen |-> seen]
<1>1. row \in Row /\ dir \in SUBSET Chunks /\ dir' = dir \cup {c} /\ dir' # None
  BY NoneAssumption DEF Inv, TypeOK, ChunkStore, HasRow
<1>2. place \in InChunk
  BY <1>1 DEF InChunk, Columns, Row, ChunkPc
<1>3. /\ at' \in [Requests -> Short \cup InChunk]
      /\ at'[r] = place
      /\ \A q \in Requests : q # r => at'[q] = at[q]
  <2>1. at' = [at EXCEPT ![r] = place]
    BY DEF ChunkStore
  <2> HIDE DEF place
  <2> QED
    BY <1>2, <2>1 DEF Inv, TypeOK
<1>4. sends' \in 0 .. MaxSends
  BY ConstantsAssumption DEF ChunkStore, Inv, TypeOK
<1>5. overlap' \in BOOLEAN
  BY DEF ChunkStore, Inv, TypeOK, ChunkInProgress
<1>6. TypeOK'
  BY <1>1, <1>3, <1>4, <1>5 DEF Inv, TypeOK, ChunkStore
<1>7. row.map \subseteq dir /\ row' = row /\ ~Assembled(row.path) /\ dir # None
  BY <1>1 DEF Inv, LoadedIsStored, RecordedIsStored, FilesAreWhole, ChunkStore, HasRow
<1>8. LoadedIsStored'
  BY <1>1, <1>3, <1>7 DEF Inv, LoadedIsStored, RecordedIsStored, ChunkStore, HasRow, At
<1>9. FilesAreWhole'
  BY <1>1, <1>3, <1>7
  DEF Inv, FilesAreWhole, SourceIsWhole, NamedIsWhole, ReadyHasSource, ChunkStore, HasRow,
      At, Assembled
<1> QED
  BY <1>6, <1>8, <1>9 DEF Inv

LEMMA RecordInv ==
    ASSUME Inv, NEW r \in Requests, ChunkRecord(r)
    PROVE  Inv'
<1> DEFINE seen == at[r].seen
           c == at[r].chunk
           new == Recorded(seen, c)
<1>1. at[r] \in InChunk /\ at[r].pc = "record"
  BY WorksInChunk DEF Inv, ChunkRecord, At, ChunkPc
<1>2. seen \in Columns /\ c \in Chunks
  BY <1>1 DEF InChunk
<1>3. /\ new \in Columns
      /\ new.map = seen.map \cup {c}
      /\ new.status = "uploading"
      /\ Completes(new) => new.map = Chunks
  <2> SUFFICES ASSUME NEW s \in Columns, NEW k \in Chunks
               PROVE  /\ Recorded(s, k) \in Columns
                      /\ Recorded(s, k).map = s.map \cup {k}
                      /\ Recorded(s, k).status = "uploading"
                      /\ Completes(Recorded(s, k)) => Recorded(s, k).map = Chunks
    BY <1>2
  <2> QED
    BY RecordedEffect
<1> HIDE DEF new
<1>4. row \in Row
  BY <1>1 DEF Inv, LoadedIsStored, TypeOK, HasRow
<1>5. /\ row' \in Row /\ row' # None
      /\ row'.map = new.map /\ row'.path = row.path
      /\ row'.status \in {row.status, "uploading"}
  BY <1>3, <1>4, NoneAssumption DEF ChunkRecord, new, Row, Columns
<1>6. /\ at' \in [Requests -> Short \cup InChunk]
      /\ \A q \in Requests : q # r => at'[q] = at[q]
      /\ \/ at'[r].pc = "idle"
         \/ at'[r].pc = "assemble" /\ at'[r].seen.map = Chunks /\ new.map = Chunks
      /\ acked' \subseteq Chunks
  <2>1. CASE Completes(new)
    <3> DEFINE place == [[at[r] EXCEPT !.pc = "assemble"] EXCEPT !.seen = new]
    <3>1. place \in InChunk /\ place.pc = "assemble" /\ place.seen = new
      BY <1>1, <1>3 DEF InChunk, ChunkPc
    <3>2. at' = [at EXCEPT ![r] = place]
      BY <1>1, <2>1 DEF ChunkRecord, new, Inv, TypeOK
    <3> HIDE DEF place
    <3>3. acked' = acked
      BY <2>1 DEF ChunkRecord, new
    <3> QED
      BY <1>3, <2>1, <3>1, <3>2, <3>3 DEF Inv, TypeOK
  <2>2. CASE ~Completes(new)
    <3>1. End(r) /\ acked' = acked \cup {c}
      BY <2>2 DEF ChunkRecord, new
    <3> QED
      BY <1>2, <3>1, EndEffect DEF Inv, TypeOK
  <2> QED
    BY <2>1, <2>2
<1>7. UNCHANGED <<dir, overdue, sends, failures, overlap>>
  BY DEF ChunkRecord
<1>8. TypeOK'
  BY <1>5, <1>6, <1>7 DEF Inv, TypeOK
<1>9. dir # None => new.map \subseteq dir
  BY <1>1, <1>3 DEF Inv, LoadedIsStored, At
<1>10. dir # None => dir \subseteq Chunks
  BY DEF Inv, TypeOK
<1>11. LoadedIsStored'
  BY <1>3, <1>5, <1>6, <1>7, <1>9, <1>10
  DEF Inv, LoadedIsStored, RecordedIsStored, HasRow, At
<1>12. FilesAreWhole'
  BY <1>1, <1>5, <1>6, <1>7
  DEF Inv, LoadedIsStored, FilesAreWhole, SourceIsWhole, NamedIsWhole, ReadyHasSource,
      HasRow, At, Assembled
<1> QED
  BY <1>8, <1>11, <1>12 DEF Inv

\* The steps from the assembly of the chunks to the answer, or to the failure.
LEMMA AssembleInv ==
    ASSUME Inv, NEW r \in Requests, ChunkAssemble(r) \/ AssembleTwice(r) \/ AssembleRaises(r)
    PROVE  Inv'
<1>1. at[r] \in InChunk /\ at[r].pc = "assemble" /\ HasRow
  BY WorksInChunk DEF Inv, LoadedIsStored, ChunkAssemble, AssembleTwice, AssembleRaises, At,
     ChunkPc
<1>2. /\ at' \in [Requests -> Short \cup InChunk]
      /\ \A q \in Requests : q # r => at'[q] = at[q]
      /\ \/ at'[r].pc = "fail"
         \/ at'[r].pc = "complete" /\ at'[r].file = Chunks
  <2>1. CASE ChunkAssemble(r)
    <3> DEFINE place == [[at[r] EXCEPT !.pc = "complete"] EXCEPT !.file = dir]
    <3>1. dir = Chunks
      BY <1>1, <2>1 DEF ChunkAssemble, Inv, LoadedIsStored, At
    <3>2. place \in InChunk /\ place.pc = "complete" /\ place.file = Chunks
      BY <1>1, <3>1 DEF InChunk, ChunkPc
    <3>3. at' = [at EXCEPT ![r] = place]
      BY <1>1, <2>1 DEF ChunkAssemble, Inv, TypeOK
    <3> HIDE DEF place
    <3> QED
      BY <3>2, <3>3 DEF Inv, TypeOK
  <2>2. CASE Go(r, "fail")
    BY <1>1, <2>2, GoEffect DEF Inv, ChunkPc
  <2> QED
    BY <2>1, <2>2 DEF AssembleTwice, AssembleRaises
<1>3. /\ dir' = None
      /\ UNCHANGED <<row, overdue, sends, acked, overlap>>
      /\ failures' \in 0 .. MaxFailures
  BY ConstantsAssumption DEF ChunkAssemble, AssembleTwice, AssembleRaises, Inv, TypeOK
<1>4. TypeOK'
  BY <1>2, <1>3 DEF Inv, TypeOK
<1>5. LoadedIsStored'
  BY <1>1, <1>2, <1>3 DEF Inv, LoadedIsStored, RecordedIsStored, HasRow, At
<1>6. FilesAreWhole'
  BY <1>2, <1>3 DEF Inv, FilesAreWhole, SourceIsWhole, NamedIsWhole, ReadyHasSource, HasRow,
     At, Assembled
<1> QED
  BY <1>4, <1>5, <1>6 DEF Inv

LEMMA CompleteInv ==
    ASSUME Inv, NEW r \in Requests, ChunkComplete(r)
    PROVE  Inv'
<1>1. /\ at[r] \in InChunk /\ at[r].pc = "complete" /\ HasRow
      /\ at[r].file = Chunks /\ dir = None
  BY WorksInChunk DEF Inv, LoadedIsStored, FilesAreWhole, ChunkComplete, At, ChunkPc
<1>2. /\ at' \in [Requests -> Short \cup InChunk]
      /\ \A q \in Requests : q # r => at'[q] = at[q]
      /\ at'[r].pc = "finish"
  BY <1>1, GoEffect DEF ChunkComplete, Inv, ChunkPc
<1>3. /\ row' \in Row /\ row' # None
      /\ row'.path = Chunks /\ row'.map = row.map /\ row'.status = row.status
  BY <1>1, NoneAssumption DEF ChunkComplete, Inv, TypeOK, HasRow, Row
<1>4. UNCHANGED <<dir, overdue, sends, failures, acked, overlap>> /\ Chunks # None
  BY NoneAssumption DEF ChunkComplete
<1>5. TypeOK'
  BY <1>2, <1>3, <1>4 DEF Inv, TypeOK
<1>6. LoadedIsStored'
  BY <1>1, <1>2, <1>3, <1>4 DEF Inv, LoadedIsStored, RecordedIsStored, HasRow, At
<1>7. FilesAreWhole'
  BY <1>1, <1>2, <1>3, <1>4
  DEF Inv, FilesAreWhole, SourceIsWhole, NamedIsWhole, ReadyHasSource, HasRow, At, Assembled
<1> QED
  BY <1>5, <1>6, <1>7 DEF Inv

\* The steps that end a request and write the status.
LEMMA EndInv ==
    ASSUME Inv, NEW r \in Requests,
           \/ ChunkFinish(r) \/ ChunkFail(r) \/ MarkExpired(r) \/ CancelWrite(r)
           \/ TileWrite(r)
    PROVE  Inv'
<1>1. PICK status \in JobStatus :
        /\ SetStatus(status) /\ End(r) /\ HasRow
        /\ status \in {"uploaded", "processing", "done"} => Assembled(row.path)
  BY DEF ChunkFinish, ChunkFail, MarkExpired, CancelWrite, TileWrite, At, Inv,
         LoadedIsStored, FilesAreWhole, JobStatus
<1>2. /\ at' \in [Requests -> Short \cup InChunk]
      /\ at'[r].pc = "idle"
      /\ \A q \in Requests : q # r => at'[q] = at[q]
  BY <1>1, EndEffect DEF Inv
<1>3. /\ row \in Row /\ row' \in Row /\ row' # None /\ row'.status = status
      /\ row'.map = row.map /\ row'.path = row.path
  BY <1>1, StatusEffect DEF Inv
<1>4. UNCHANGED <<dir, failures, overdue, overlap, sends>>
  BY DEF ChunkFinish, ChunkFail, MarkExpired, CancelWrite, TileWrite
<1>5. acked' \subseteq Chunks
  <2>1. CASE ChunkFinish(r)
    <3>1. at[r] \in InChunk
      BY <2>1, WorksInChunk DEF ChunkFinish, At, ChunkPc, Inv
    <3> QED
      BY <2>1, <3>1 DEF ChunkFinish, Inv, TypeOK, InChunk
  <2>2. CASE ~ChunkFinish(r)
    BY <2>2 DEF ChunkFail, MarkExpired, CancelWrite, TileWrite, Inv, TypeOK
  <2> QED
    BY <2>1, <2>2
<1>6. sends' \in 0 .. MaxSends
  BY <1>4 DEF Inv, TypeOK
<1> QED
  BY <1>1, <1>2, <1>3, <1>4, <1>5, <1>6, StatusInv DEF ChunkPc

\* The steps that begin a request without a chunk.
LEMMA BeginInv ==
    ASSUME Inv, NEW r \in Requests, ChunkTooLate(r) \/ CancelRead(r) \/ TileRead(r)
    PROVE  Inv'
<1>1. PICK pc \in {"expire", "cancel", "tile"} :
        /\ at' = [at EXCEPT ![r] = [pc |-> pc]] /\ HasRow
        /\ pc = "tile" => Assembled(row.path)
  BY DEF ChunkTooLate, CancelRead, TileRead
<1>2. /\ at' \in [Requests -> Short \cup InChunk]
      /\ at'[r] = [pc |-> pc]
      /\ \A q \in Requests : q # r => at'[q] = at[q]
  BY <1>1 DEF Inv, TypeOK, Short
<1>3. UNCHANGED <<row, dir, overdue, failures, acked, overlap>> /\ sends' \in 0 .. MaxSends
  BY ConstantsAssumption DEF ChunkTooLate, CancelRead, TileRead, Inv, TypeOK
<1>4. /\ row \in Row
      /\ row.status \in {"uploaded", "processing", "done"} => Assembled(row.path)
  BY <1>1 DEF Inv, TypeOK, FilesAreWhole, SourceIsWhole, ReadyHasSource, HasRow
<1>5. at'[r].pc = pc
  BY <1>2
<1> QED
  <2>1. row' # None /\ acked' \subseteq Chunks
    BY <1>1, <1>3 DEF HasRow, Inv, TypeOK
  <2> QED
    BY <1>1, <1>2, <1>3, <1>4, <1>5, <2>1, StatusInv DEF ChunkPc

-----------------------------------------------------------------------------
LEMMA NextInv == Inv /\ [Next]_vars => Inv'
<1> SUFFICES ASSUME Inv, [Next]_vars PROVE Inv'
  OBVIOUS
<1>1. CASE UNCHANGED vars
  BY <1>1 DEF vars, Inv, TypeOK, LoadedIsStored, FilesAreWhole, RecordedIsStored,
     SourceIsWhole, NamedIsWhole, ReadyHasSource, HasRow, At, Assembled
<1>2. CASE InitUpload \/ TimePasses \/ TilingEnds \/ Crash
  BY <1>2, SessionInv
<1>3. ASSUME NEW r \in Requests, RequestNext(r) PROVE Inv'
  BY <1>3, StoreInv, RecordInv, AssembleInv, CompleteInv, EndInv, BeginInv
  DEF RequestNext, ChunkNext
<1> QED
  BY <1>1, <1>2, <1>3 DEF Next

LEMMA Invariance == Spec => []Inv
BY InitInv, NextInv, PTL DEF Spec

\* Every reachable state is well typed.
THEOREM TypeCorrectness == Spec => []TypeOK
<1>1. Inv => TypeOK
  BY DEF Inv
<1> QED
  BY <1>1, Invariance, PTL

\* A recorded chunk lies in the directory, for any number of concurrent requests.
THEOREM RecordedIsOnDisk == Spec => []RecordedIsStored
<1>1. Inv => RecordedIsStored
  BY DEF Inv, LoadedIsStored
<1> QED
  BY <1>1, Invariance, PTL

\* The file a session names holds every chunk, and a session that may be tiled names one.
THEOREM SourcesAreWhole == Spec => []SourceIsWhole
<1>1. Inv => SourceIsWhole
  BY DEF Inv, FilesAreWhole
<1> QED
  BY <1>1, Invariance, PTL

-----------------------------------------------------------------------------
(* A client that sends one chunk at a time.                                *)

\* Then one request works at most, and what it has loaded is current.
OneWorks ==
    /\ \A r, q \in Requests : Working(r) /\ Working(q) => r = q
    /\ \A r \in Requests :
          /\ At(r, "record") => at[r].seen.map = row.map
          /\ At(r, "record") \/ At(r, "assemble") => dir # None
          /\ at[r].pc \in {"assemble", "complete", "finish"} => row.map = Chunks
          /\ At(r, "fail") => ~Assembled(row.path)

\* What is answered is recorded, and every chunk only when the upload is assembled.
Answered ==
    /\ HasRow => acked \subseteq row.map
    /\ acked = Chunks => HasRow /\ Assembled(row.path)

\* Nothing is answered before there is a session.
NoneAnswered == ~HasRow => acked = {}

SerialInv == NoneAnswered /\ (~overlap => OneWorks /\ Answered)

LEMMA SerialInit == Init => SerialInv
BY ConstantsAssumption
DEF Init, SerialInv, NoneAnswered, OneWorks, Answered, Working, At, Idle, HasRow, ChunkPc

\* A step that touches neither chunks nor what is answered.
LEMMA SerialKept ==
    ASSUME Inv, SerialInv, HasRow, row' # None, row'.map = row.map, row'.path = row.path,
           UNCHANGED <<dir, overlap, acked>>, NEW r \in Requests,
           at'[r].pc \notin ChunkPc,
           \A q \in Requests : q # r => at'[q] = at[q]
    PROVE  SerialInv'
BY DEF SerialInv, NoneAnswered, OneWorks, Answered, Working, At, HasRow, Assembled, ChunkPc

LEMMA SerialStore ==
    ASSUME Inv, SerialInv, NEW r \in Requests, NEW c \in Chunks, ChunkStore(r, c)
    PROVE  SerialInv'
<1>1. /\ HasRow /\ dir' # None /\ UNCHANGED <<row, acked>>
      /\ at'[r].pc = "record" /\ at'[r].seen.map = row.map
      /\ \A q \in Requests : q # r => at'[q] = at[q]
  BY NoneAssumption DEF ChunkStore, Inv, TypeOK
<1>2. ~overlap' => ~overlap /\ \A q \in Requests : ~Working(q)
  BY DEF ChunkStore, ChunkInProgress, Working
<1> QED
  BY <1>1, <1>2
  DEF SerialInv, NoneAnswered, OneWorks, Answered, Working, At, HasRow, Assembled, ChunkPc

LEMMA SerialRecord ==
    ASSUME Inv, SerialInv, NEW r \in Requests, ChunkRecord(r)
    PROVE  SerialInv'
<1> DEFINE seen == at[r].seen
           c == at[r].chunk
           new == Recorded(seen, c)
<1>1. at[r] \in InChunk /\ at[r].pc = "record" /\ HasRow /\ row \in Row
  BY WorksInChunk DEF Inv, TypeOK, LoadedIsStored, HasRow, ChunkRecord, At, ChunkPc
<1>2. /\ new.map = seen.map \cup {c} /\ new \in Columns
      /\ Completes(new) => seen.map \cup {c} = Chunks
      /\ ~Completes(new) => seen.map \cup {c} # Chunks
  <2> SUFFICES ASSUME NEW s \in Columns, NEW k \in Chunks
               PROVE  /\ Recorded(s, k).map = s.map \cup {k}
                      /\ Recorded(s, k) \in Columns
                      /\ Completes(Recorded(s, k)) => s.map \cup {k} = Chunks
                      /\ ~Completes(Recorded(s, k)) => s.map \cup {k} # Chunks
    BY <1>1 DEF InChunk
  <2> QED
    BY RecordedEffect
<1> HIDE DEF new
<1>3. /\ row' # None /\ row'.map = new.map /\ row'.path = row.path
      /\ UNCHANGED <<dir, overlap>>
  BY <1>1, <1>2, NoneAssumption DEF ChunkRecord, new, Row, Columns
<1>4. /\ \A q \in Requests : q # r => at'[q] = at[q]
      /\ \/ Completes(new) /\ at'[r].pc = "assemble" /\ acked' = acked
         \/ ~Completes(new) /\ at'[r].pc = "idle" /\ acked' = acked \cup {c}
  <2>1. CASE Completes(new)
    <3> DEFINE place == [[at[r] EXCEPT !.pc = "assemble"] EXCEPT !.seen = new]
    <3>1. place.pc = "assemble"
      BY <1>1 DEF InChunk
    <3>2. at' = [at EXCEPT ![r] = place] /\ acked' = acked
      BY <1>1, <2>1 DEF ChunkRecord, new, Inv, TypeOK
    <3> HIDE DEF place
    <3> QED
      BY <2>1, <3>1, <3>2 DEF Inv, TypeOK
  <2>2. CASE ~Completes(new)
    <3>1. End(r) /\ acked' = acked \cup {c}
      BY <2>2 DEF ChunkRecord, new
    <3> QED
      BY <2>2, <3>1, EndEffect DEF Inv
  <2> QED
    BY <2>1, <2>2
<1>5. CASE ~overlap
  <2>1. /\ seen.map = row.map /\ dir # None /\ ~Assembled(row.path)
        /\ \A q \in Requests : Working(q) => q = r
    BY <1>1, <1>5 DEF SerialInv, OneWorks, Working, At, ChunkPc, Inv, FilesAreWhole
  <2>2. OneWorks'
    BY <1>2, <1>3, <1>4, <2>1 DEF OneWorks, Working, At, Assembled, ChunkPc
  <2>3. /\ acked \subseteq seen.map /\ acked # Chunks /\ new.map \subseteq Chunks
        /\ new.map = seen.map \cup {c}
    BY <1>1, <1>2, <1>5, <2>1 DEF SerialInv, Answered, Columns
  <2>4. acked' \subseteq row'.map /\ acked' # Chunks
    <3>1. CASE Completes(new)
      BY <1>3, <1>4, <2>3, <3>1
    <3>2. CASE ~Completes(new)
      <4>1. new.map # Chunks /\ acked' = acked \cup {c}
        BY <1>2, <1>4, <2>3, <3>2
      <4> QED
        BY <1>3, <2>3, <4>1
    <3> QED
      BY <3>1, <3>2
  <2>5. Answered'
    BY <2>4 DEF Answered
  <2> QED
    BY <1>3, <2>2, <2>5 DEF SerialInv, NoneAnswered, HasRow
<1> QED
  BY <1>3, <1>5 DEF SerialInv, NoneAnswered, HasRow

LEMMA SerialAssemble ==
    ASSUME Inv, SerialInv, NEW r \in Requests,
           ChunkAssemble(r) \/ AssembleTwice(r) \/ AssembleRaises(r) \/ ChunkComplete(r)
    PROVE  SerialInv'
<1>1. /\ at[r] \in InChunk /\ at[r].pc \in {"assemble", "complete"} /\ HasRow /\ row \in Row
      /\ at[r].file \in (SUBSET Chunks) \cup {None}
  BY WorksInChunk DEF Inv, TypeOK, LoadedIsStored, ChunkAssemble, AssembleTwice,
     AssembleRaises, ChunkComplete, At, HasRow, ChunkPc, InChunk
<1>2. /\ \A q \in Requests : q # r => at'[q] = at[q]
      /\ \/ ~AssembleTwice(r) /\ ~AssembleRaises(r) /\ at'[r].pc \in {"complete", "finish"}
         \/ (AssembleTwice(r) \/ AssembleRaises(r)) /\ at'[r].pc = "fail"
  BY <1>1 DEF ChunkAssemble, AssembleTwice, AssembleRaises, ChunkComplete, At, Go, Inv, TypeOK,
     InChunk
<1>3. /\ row' # None /\ row'.map = row.map /\ UNCHANGED <<overlap, acked>>
      /\ row'.path = row.path \/ Assembled(row'.path)
  <2>1. CASE ChunkComplete(r)
    <3>1. at[r].file = Chunks /\ Chunks # None
      BY <2>1, NoneAssumption DEF ChunkComplete, At, Inv, FilesAreWhole
    <3> QED
      BY <1>1, <2>1, <3>1, NoneAssumption DEF ChunkComplete, Row, Assembled
  <2>2. CASE ~ChunkComplete(r)
    BY <1>1, <2>2 DEF ChunkAssemble, AssembleTwice, AssembleRaises, HasRow
  <2> QED
    BY <2>1, <2>2
<1>4. CASE ~overlap
  <2>1. /\ \A q \in Requests : Working(q) => q = r
        /\ row.map = Chunks
        /\ ~AssembleTwice(r)
        /\ AssembleRaises(r) => row' = row /\ ~Assembled(row.path)
    BY <1>1, <1>4 DEF SerialInv, OneWorks, Working, At, ChunkPc, AssembleTwice, AssembleRaises,
                      Inv, FilesAreWhole
  <2>2. OneWorks'
    BY <1>2, <1>3, <2>1 DEF OneWorks, Working, At, Assembled, ChunkPc
  <2>3. Answered'
    BY <1>1, <1>3, <1>4 DEF SerialInv, Answered, HasRow, Assembled
  <2> QED
    BY <1>3, <2>2, <2>3 DEF SerialInv, NoneAnswered, HasRow
<1> QED
  BY <1>3, <1>4 DEF SerialInv, NoneAnswered, HasRow

LEMMA SerialFinish ==
    ASSUME Inv, SerialInv, NEW r \in Requests, ChunkFinish(r)
    PROVE  SerialInv'
<1>1. at[r] \in InChunk /\ at[r].pc = "finish" /\ HasRow /\ Assembled(row.path)
  BY WorksInChunk DEF Inv, LoadedIsStored, FilesAreWhole, ChunkFinish, At, ChunkPc
<1>2. at'[r].pc = "idle" /\ \A q \in Requests : q # r => at'[q] = at[q]
  BY EndEffect DEF ChunkFinish, Inv
<1>3. /\ row' # None /\ row'.map = row.map /\ row'.path = row.path
      /\ UNCHANGED <<dir, overlap>> /\ acked' \subseteq Chunks
  BY <1>1, StatusEffect DEF ChunkFinish, Inv, JobStatus, TypeOK, InChunk
<1> QED
  BY <1>1, <1>2, <1>3
  DEF SerialInv, NoneAnswered, OneWorks, Answered, Working, At, HasRow, Assembled, ChunkPc

LEMMA SerialNext == Inv /\ SerialInv /\ [Next]_vars => SerialInv'
<1> SUFFICES ASSUME Inv, SerialInv, [Next]_vars PROVE SerialInv'
  OBVIOUS
<1>1. CASE UNCHANGED vars
  BY <1>1 DEF vars, SerialInv, NoneAnswered, OneWorks, Answered, Working, At, HasRow, Assembled
<1>2. CASE InitUpload
  <2>1. \A r \in Requests : at[r].pc = "idle"
    BY <1>2 DEF InitUpload, Inv, LoadedIsStored, HasRow
  <2> QED
    BY <1>2, <2>1, ConstantsAssumption
    DEF InitUpload, SerialInv, NoneAnswered, OneWorks, Answered, Working, At, HasRow, ChunkPc
<1>3. CASE TimePasses
  BY <1>3 DEF TimePasses, SerialInv, NoneAnswered, OneWorks, Answered, Working, At, HasRow,
     Assembled
<1>4. CASE TilingEnds
  <2>1. row' # None /\ row'.map = row.map /\ row'.path = row.path
    BY <1>4, StatusEffect DEF TilingEnds, Inv, JobStatus
  <2> QED
    BY <1>4, <2>1
    DEF TilingEnds, SerialInv, NoneAnswered, OneWorks, Answered, Working, At, HasRow, Assembled
<1>5. CASE Crash
  <2>1. \A r \in Requests : at'[r].pc = "idle"
    BY <1>5 DEF Crash, Idle
  <2> QED
    BY <1>5, <2>1
    DEF Crash, SerialInv, NoneAnswered, OneWorks, Answered, Working, At, HasRow, Assembled,
        ChunkPc
<1>6. ASSUME NEW r \in Requests, ChunkFail(r) \/ MarkExpired(r) \/ CancelWrite(r) \/ TileWrite(r)
      PROVE  SerialInv'
  <2>1. HasRow
    BY <1>6 DEF ChunkFail, MarkExpired, CancelWrite, TileWrite, At, Inv, LoadedIsStored
  <2>2. PICK status \in JobStatus : SetStatus(status) /\ End(r)
    BY <1>6 DEF ChunkFail, MarkExpired, CancelWrite, TileWrite, JobStatus
  <2>3. row' # None /\ row'.map = row.map /\ row'.path = row.path
    BY <2>1, <2>2, StatusEffect DEF Inv
  <2>4. at'[r].pc \notin ChunkPc /\ \A q \in Requests : q # r => at'[q] = at[q]
    BY <2>2, EndEffect DEF Inv, ChunkPc
  <2>5. UNCHANGED <<dir, overlap, acked>>
    BY <1>6 DEF ChunkFail, MarkExpired, CancelWrite, TileWrite
  <2> QED
    BY <2>1, <2>3, <2>4, <2>5, SerialKept
<1>7. ASSUME NEW r \in Requests, ChunkTooLate(r) \/ CancelRead(r) \/ TileRead(r)
      PROVE  SerialInv'
  <2>1. PICK pc \in {"expire", "cancel", "tile"} : at' = [at EXCEPT ![r] = [pc |-> pc]]
    BY <1>7 DEF ChunkTooLate, CancelRead, TileRead
  <2>2. at'[r] = [pc |-> pc] /\ \A q \in Requests : q # r => at'[q] = at[q]
    BY <2>1 DEF Inv, TypeOK
  <2>3. HasRow /\ UNCHANGED <<row, dir, overlap, acked>>
    BY <1>7 DEF ChunkTooLate, CancelRead, TileRead
  <2>4. at'[r].pc \notin ChunkPc
    BY <2>2 DEF ChunkPc
  <2>5. row' # None /\ row'.map = row.map /\ row'.path = row.path
    BY <2>3 DEF HasRow
  <2> QED
    BY <2>2, <2>3, <2>4, <2>5, SerialKept
<1>8. ASSUME NEW r \in Requests, RequestNext(r) PROVE SerialInv'
  BY <1>6, <1>7, <1>8, SerialStore, SerialRecord, SerialAssemble, SerialFinish
  DEF RequestNext, ChunkNext
<1> QED
  BY <1>1, <1>2, <1>3, <1>4, <1>5, <1>8 DEF Next

LEMMA SerialInvariance == Spec => []SerialInv
BY SerialInit, SerialNext, Invariance, PTL DEF Spec

\* For a client that sends one chunk at a time, answers for every chunk mean that the
\* upload is assembled.
THEOREM SerialUploadsComplete == Spec => []SerialUploadCompletes
<1>1. SerialInv => SerialUploadCompletes
  BY DEF SerialInv, Answered, SerialUploadCompletes
<1> QED
  BY <1>1, SerialInvariance, PTL

\* ... and no later chunk takes an assembled session back.
THEOREM SerialsAreNotReopened == Spec => SerialIsNotReopened
<1> DEFINE Ready == HasRow /\ row.status \in {"uploaded", "processing", "done"}
           Reopens == row'.status \in {"uploading", "failed"}
<1>1. ASSUME Inv, SerialInv, [Next]_vars, Ready, Reopens, ~overlap
      PROVE  row.status = "processing"
  <2>1. Assembled(row.path) /\ dir = None /\ row \in Row
    BY <1>1 DEF Inv, TypeOK, FilesAreWhole, SourceIsWhole, ReadyHasSource, HasRow
  <2>2. ASSUME NEW r \in Requests, ChunkRecord(r) \/ ChunkFail(r) PROVE FALSE
    BY <1>1, <2>1, <2>2 DEF ChunkRecord, ChunkFail, At, SerialInv, OneWorks
  <2>3. CASE TilingEnds
    BY <2>3 DEF TilingEnds
  <2>4. CASE row' = row
    BY <1>1, <2>4
  <2>5. ASSUME NEW r \in Requests, ChunkComplete(r) PROVE row'.status = row.status
    BY <2>1, <2>5 DEF ChunkComplete, Row
  <2>6. ASSUME NEW r \in Requests,
               ChunkFinish(r) \/ MarkExpired(r) \/ CancelWrite(r) \/ TileWrite(r)
        PROVE  row'.status \in {"uploaded", "expired", "cancelled", "processing"}
    BY <2>1, <2>6 DEF ChunkFinish, MarkExpired, CancelWrite, TileWrite, SetStatus, Row
  <2>7. ~InitUpload
    BY <1>1 DEF InitUpload, HasRow
  <2>8. ASSUME NEW r \in Requests, RequestNext(r),
               row' # row, ~ChunkRecord(r), ~ChunkFail(r), ~ChunkComplete(r)
        PROVE  ChunkFinish(r) \/ MarkExpired(r) \/ CancelWrite(r) \/ TileWrite(r)
    BY <2>8 DEF RequestNext, ChunkNext, ChunkStore, ChunkAssemble, AssembleTwice,
                AssembleRaises, ChunkTooLate, CancelRead, TileRead
  <2>9. ASSUME NEW r \in Requests, RequestNext(r), row' # row PROVE FALSE
    BY <1>1, <2>2, <2>5, <2>6, <2>8, <2>9
  <2> QED
    BY <1>1, <2>3, <2>4, <2>7, <2>9 DEF Next, TimePasses, Crash, vars
<1>2. Inv /\ SerialInv /\ [Next]_vars
        => [Ready /\ Reopens /\ ~overlap => row.status = "processing"]_vars
  BY <1>1
<1>3. [][Ready /\ Reopens /\ ~overlap => row.status = "processing"]_vars
        => SerialIsNotReopened
  BY PTL DEF SerialIsNotReopened
<1> QED
  BY <1>2, <1>3, Invariance, SerialInvariance, PTL DEF Spec
=============================================================================
