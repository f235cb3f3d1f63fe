---------------------------- MODULE ChunkedUpload ---------------------------
(***************************************************************************)
(* One chunked upload session: POST /uploads/init, the chunk requests of   *)
(* app/usecases/receive_chunk.py, the assembly of the chunk directory, and *)
(* the two other requests that write the session's status, cancel and tile. *)
(*                                                                         *)
(* A request is a coroutine with a database session of its own.  It loads  *)
(* the row once: with expire_on_commit = False the object is never read    *)
(* again, and the unit of work writes only the columns whose value differs *)
(* from the one it loaded.  Between two awaits a request runs alone, so a  *)
(* step is the code from one await to the next.                            *)
(***************************************************************************)
EXTENDS Naturals, FiniteSets

CONSTANTS
    Chunks,        \* the indices of the upload's chunks
    Requests,      \* API requests that can be in progress at once
    None,          \* no row, no file, no directory, no chunk
    MaxSends,      \* bound: chunk requests sent
    MaxFailures    \* bound: assemblies that fail, requests that die

ASSUME ConstantsAssumption ==
    /\ IsFiniteSet(Chunks) /\ Chunks # {}
    /\ None \notin Chunks
    /\ MaxSends \in Nat
    /\ MaxFailures \in Nat

VARIABLES
    row,           \* the upload session; None before it is created
    dir,           \* the chunks in the session's directory; None when it is gone
    overdue,       \* expires_at has passed
    at,            \* where each request is, its chunk, and what it has loaded
    sends,         \* chunk requests so far
    failures,      \* failures so far
    acked,         \* chunks that some request has answered with 200
    overlap        \* two chunk requests were once in progress together

vars == <<row, dir, overdue, at, sends, failures, acked, overlap>>

-----------------------------------------------------------------------------
JobStatus == {"pending", "uploading", "uploaded", "processing", "done", "failed",
              "expired", "cancelled"}
Columns == [status : JobStatus, map : SUBSET Chunks, count : 0 .. Cardinality(Chunks)]
Row == [status : JobStatus, map : SUBSET Chunks, count : 0 .. Cardinality(Chunks),
        path : (SUBSET Chunks) \cup {None}]
ASSUME NoneAssumption == \A x \in Row \cup SUBSET Chunks : x # None

ChunkPc == {"record", "assemble", "complete", "finish", "fail"}
Idle == [pc |-> "idle"]
Short == {Idle, [pc |-> "expire"], [pc |-> "cancel"], [pc |-> "tile"]}
InChunk == [pc : ChunkPc, chunk : Chunks, seen : Columns, file : (SUBSET Chunks) \cup {None}]

TypeOK ==
    /\ row \in Row \cup {None}
    /\ dir \in (SUBSET Chunks) \cup {None}
    /\ overdue \in BOOLEAN
    /\ at \in [Requests -> Short \cup InChunk]
    /\ sends \in 0 .. MaxSends
    /\ failures \in 0 .. MaxFailures
    /\ acked \subseteq Chunks
    /\ overlap \in BOOLEAN

Init ==
    /\ row = None
    /\ dir = None
    /\ overdue = FALSE
    /\ at = [r \in Requests |-> Idle]
    /\ sends = 0
    /\ failures = 0
    /\ acked = {}
    /\ overlap = FALSE

-----------------------------------------------------------------------------
At(r, pc) == at[r].pc = pc
End(r) == at' = [at EXCEPT ![r] = Idle]
Go(r, pc) == at' = [at EXCEPT ![r].pc = pc]
SetStatus(status) == row' = [row EXCEPT !.status = status]
HasRow == row # None
\* A path names the file of one assembly; the model keeps the chunks in it.
Assembled(path) == path # None
ChunkInProgress == \E r \in Requests : at[r].pc \in ChunkPc

-----------------------------------------------------------------------------
(* The session and its time                                                *)

InitUpload ==
    /\ row = None
    /\ dir' = {}
    /\ row' = [status |-> "pending", map |-> {}, count |-> 0, path |-> None]
    /\ UNCHANGED <<overdue, at, sends, failures, acked, overlap>>

TimePasses ==
    /\ HasRow
    /\ overdue' = TRUE
    /\ UNCHANGED <<row, dir, at, sends, failures, acked, overlap>>

-----------------------------------------------------------------------------
(* A chunk request: read the row and write the chunk, then one step for    *)
(* each await.  One that finds the session settled, or the directory gone, *)
(* answers with an error and changes nothing.                              *)

Accepting == row.status \notin {"done", "processing", "expired"}

ChunkStore(r, c) ==
    /\ HasRow
    /\ At(r, "idle")
    /\ sends < MaxSends
    /\ Accepting
    /\ ~overdue
    /\ dir # None
    /\ dir' = dir \cup {c}
    /\ at' = [at EXCEPT ![r] =
                [pc |-> "record", chunk |-> c, file |-> None,
                 seen |-> [status |-> row.status, map |-> row.map, count |-> row.count]]]
    /\ sends' = sends + 1
    /\ overlap' = (overlap \/ ChunkInProgress)
    /\ UNCHANGED <<row, overdue, failures, acked>>

\* Mutant of Recorded: a chunk that is sent again counts again.
RecordedTwice(seen, c) ==
    [status |-> "uploading", map |-> seen.map \cup {c}, count |-> seen.count + 1]

\* What the request writes once its chunk c is stored, from what it has loaded.
Recorded(seen, c) ==
    [status |-> "uploading", map |-> seen.map \cup {c}, count |-> Cardinality(seen.map \cup {c})]
\* Mutant of Completes: completion is tested before the request's own chunk counts.
CompletesLate(new) == new.count > Cardinality(Chunks)

Completes(new) == new.count >= Cardinality(Chunks)

\* The map is always written whole; the count and the status are written when
\* they differ from the loaded ones.
ChunkRecord(r) ==
    /\ At(r, "record")
    /\ LET seen == at[r].seen
           new == Recorded(seen, at[r].chunk)
       IN /\ row' = [row EXCEPT
                !.map = new.map,
                !.count = IF new.count # seen.count THEN new.count ELSE @,
                !.status = IF new.status # seen.status THEN new.status ELSE @]
          /\ IF Completes(new)
                THEN /\ at' = [at EXCEPT ![r].pc = "assemble", ![r].seen = new]
                     /\ UNCHANGED acked
                ELSE /\ End(r)
                     /\ acked' = acked \cup {at[r].chunk}
    /\ UNCHANGED <<dir, overdue, sends, failures, overlap>>

\* Mutant of ChunkAssemble: the assembly forgets to remove the directory.
ChunkAssembleKept(r) ==
    /\ At(r, "assemble")
    /\ dir # None
    /\ at' = [at EXCEPT ![r].pc = "complete", ![r].file = dir]
    /\ UNCHANGED <<row, dir, overdue, sends, failures, acked, overlap>>

\* The files found in the directory are joined, and the directory is removed.
ChunkAssemble(r) ==
    /\ At(r, "assemble")
    /\ dir # None
    /\ at' = [at EXCEPT ![r].pc = "complete", ![r].file = dir]
    /\ dir' = None
    /\ UNCHANGED <<row, overdue, sends, failures, acked, overlap>>

\* Another request has assembled the chunks: removing the directory fails.
AssembleTwice(r) ==
    /\ At(r, "assemble")
    /\ dir = None
    /\ Go(r, "fail")
    /\ UNCHANGED <<row, dir, overdue, sends, failures, acked, overlap>>

\* Mutant of AssembleRaises: a failed assembly removes the chunks and leaves the directory.
AssembleRaisesKept(r) ==
    /\ At(r, "assemble")
    /\ dir # None
    /\ failures < MaxFailures
    /\ failures' = failures + 1
    /\ Go(r, "fail")
    /\ dir' = {}
    /\ UNCHANGED <<row, overdue, sends, acked, overlap>>

\* The disk or the conversion of the file fails; the directory is cleaned up.
AssembleRaises(r) ==
    /\ At(r, "assemble")
    /\ dir # None
    /\ failures < MaxFailures
    /\ failures' = failures + 1
    /\ Go(r, "fail")
    /\ dir' = None
    /\ UNCHANGED <<row, overdue, sends, acked, overlap>>

ChunkComplete(r) ==
    /\ At(r, "complete")
    /\ row' = [row EXCEPT !.path = at[r].file]
    /\ Go(r, "finish")
    /\ UNCHANGED <<dir, overdue, sends, failures, acked, overlap>>

ChunkFinish(r) ==
    /\ At(r, "finish")
    /\ SetStatus("uploaded")
    /\ acked' = acked \cup {at[r].chunk}
    /\ End(r)
    /\ UNCHANGED <<dir, overdue, sends, failures, overlap>>

ChunkFail(r) ==
    /\ At(r, "fail")
    /\ SetStatus("failed")
    /\ End(r)
    /\ UNCHANGED <<dir, overdue, sends, failures, acked, overlap>>

\* A chunk that comes after expires_at marks the session, whatever it has become.
ChunkTooLate(r) ==
    /\ HasRow
    /\ At(r, "idle")
    /\ sends < MaxSends
    /\ Accepting
    /\ overdue
    /\ at' = [at EXCEPT ![r] = [pc |-> "expire"]]
    /\ sends' = sends + 1
    /\ UNCHANGED <<row, dir, overdue, failures, acked, overlap>>

MarkExpired(r) ==
    /\ At(r, "expire")
    /\ SetStatus("expired")
    /\ End(r)
    /\ UNCHANGED <<dir, overdue, sends, failures, acked, overlap>>

-----------------------------------------------------------------------------
(* Cancel and tile check the status they read and write theirs after an    *)
(* await; the task behind a tiling (module UploadTasks) writes the rest.   *)

CancelRead(r) ==
    /\ HasRow
    /\ At(r, "idle")
    /\ row.status \in {"uploaded", "pending", "processing"}
    /\ at' = [at EXCEPT ![r] = [pc |-> "cancel"]]
    /\ UNCHANGED <<row, dir, overdue, sends, failures, acked, overlap>>

CancelWrite(r) ==
    /\ At(r, "cancel")
    /\ SetStatus("cancelled")
    /\ End(r)
    /\ UNCHANGED <<dir, overdue, sends, failures, acked, overlap>>

TileRead(r) ==
    /\ HasRow
    /\ At(r, "idle")
    /\ row.status \in {"uploaded", "failed"}
    /\ Assembled(row.path)
    /\ at' = [at EXCEPT ![r] = [pc |-> "tile"]]
    /\ UNCHANGED <<row, dir, overdue, sends, failures, acked, overlap>>

TileWrite(r) ==
    /\ At(r, "tile")
    /\ SetStatus("processing")
    /\ End(r)
    /\ UNCHANGED <<dir, overdue, sends, failures, acked, overlap>>

TilingEnds ==
    /\ HasRow
    /\ row.status = "processing"
    /\ \E outcome \in {"done", "failed"} : SetStatus(outcome)
    /\ UNCHANGED <<dir, overdue, at, sends, failures, acked, overlap>>

\* The API process dies, and with it every request in progress.
Crash ==
    /\ failures < MaxFailures
    /\ failures' = failures + 1
    /\ at' = [r \in Requests |-> Idle]
    /\ UNCHANGED <<row, dir, overdue, sends, acked, overlap>>

-----------------------------------------------------------------------------
ChunkNext(r) ==
    \/ \E c \in Chunks : ChunkStore(r, c)
    \/ ChunkRecord(r)
    \/ ChunkAssemble(r)
    \/ AssembleTwice(r)
    \/ AssembleRaises(r)
    \/ ChunkComplete(r)
    \/ ChunkFinish(r)
    \/ ChunkFail(r)
    \/ ChunkTooLate(r)
    \/ MarkExpired(r)

RequestNext(r) ==
    \/ ChunkNext(r)
    \/ CancelRead(r)
    \/ CancelWrite(r)
    \/ TileRead(r)
    \/ TileWrite(r)

Next ==
    \/ InitUpload
    \/ TimePasses
    \/ \E r \in Requests : RequestNext(r)
    \/ TilingEnds
    \/ Crash

Spec == Init /\ [][Next]_vars

-----------------------------------------------------------------------------
(* Properties                                                              *)

\* Every chunk the map records lies in the directory for as long as there is
\* one, whatever maps the requests overwrite: a chunk is stored before it is
\* recorded, and the directory only goes as a whole.
RecordedIsStored == HasRow /\ dir # None => row.map \subseteq dir

NamedIsWhole == HasRow /\ Assembled(row.path) => row.path = Chunks
ReadyHasSource ==
    HasRow /\ row.status \in {"uploaded", "processing", "done"} => Assembled(row.path)

\* The file a session names holds every chunk, and a session that may be tiled, or is
\* being tiled, names one: no interleaving, duplicate, stale map or second assembly
\* makes a request complete a partial file, and no late request takes the path away.
SourceIsWhole == NamedIsWhole /\ ReadyHasSource

\* For a client that sends one chunk at a time: when every chunk is answered
\* with 200 the upload is assembled.
SerialUploadCompletes ==
    ~overlap /\ failures = 0 /\ acked = Chunks => Assembled(row.path)

\* ... and no later chunk, duplicate or not, takes an assembled session back
\* to "uploading" or fails it.
SerialIsNotReopened ==
    [][HasRow /\ row.status \in {"uploaded", "processing", "done"}
          /\ row'.status \in {"uploading", "failed"} /\ ~overlap
       => row.status = "processing"]_vars
=============================================================================
