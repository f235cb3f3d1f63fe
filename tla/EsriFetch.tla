------------------------------ MODULE EsriFetch ------------------------------
(***************************************************************************)
(* The fetching of an Esri service: download_service and EsriDownloader    *)
(* over EsriClient and the resume cache.  A sublayer is fetched by its      *)
(* object IDs, in chunks that a window of threads fetches and splits, and   *)
(* when that raises an EsriDownloadError, page by page.  The cache outlives *)
(* the attempt; the directory of the layer is emptied by the next one.     *)
(***************************************************************************)
EXTENDS Naturals, FiniteSets, Sequences

CONSTANTS
    Threads,        \* ESRI_MAX_WORKERS threads of the executor
    NumLayers,
    NumFeatures,    \* features of each sublayer; its object IDs are 1 .. NumFeatures
    PageSize,       \* _MAX_CHUNK: the IDs of a chunk, the features of a page
    MaxAttempts,    \* bound: downloads of the service, retries included
    MaxFaults       \* bound: requests the service fails, and crashes of the worker

ASSUME FetchAssumption ==
    /\ IsFiniteSet(Threads)
    /\ NumLayers \in Nat \ {0}
    /\ NumFeatures \in Nat \ {0}
    /\ PageSize \in Nat \ {0}
    /\ MaxAttempts \in Nat \ {0}
    /\ MaxFaults \in Nat

VARIABLES
    service,        \* what the service can do: see Service
    faults,         \* faults so far
    attempt,        \* downloads begun so far
    healthy,        \* no request of this attempt has failed
    cancelled,      \* the layer's download_process says cancelled
    pc,             \* what the worker is doing
    listed,         \* sublayers found queryable
    sub,            \* the sublayer being fetched
    next,           \* first chunk not submitted yet, or the offset of the page
    threads,        \* what each thread of the executor is doing
    failed,         \* a chunk of the sublayer has failed
    target,         \* features the service lists or counts, 0 when it does not
    pages,          \* parts of the page still to fetch
    part,           \* features of the page so far
    got,            \* how often each feature has been collected
    cache,          \* the resume cache
    entries,        \* manifest["sublayers"], by sublayer
    files,          \* sublayers whose files are in the directory
    manifest        \* manifest.json has been written

downloadVars == <<service, faults, attempt, healthy, cancelled, pc, listed, sub, next, threads,
          failed, target, pages, part, got, cache, entries, files, manifest>>

-----------------------------------------------------------------------------
FeatureLayers == 1 .. NumLayers
ObjectIds == 1 .. NumFeatures
Smaller(a, b) == IF a < b THEN a ELSE b
Span(from, size) == from + 1 .. Smaller(from + size, NumFeatures)

\* A list of features: how often it holds each of them.
Features == [ObjectIds -> Nat]
Nothing == [i \in ObjectIds |-> 0]
Plus(f, g) == [i \in ObjectIds |-> f[i] + g[i]]
Once(ids) == [i \in ObjectIds |-> IF i \in ids THEN 1 ELSE 0]
\* The length of a list: a place for each time it holds a feature.
Size(f) == Cardinality(UNION {{i} \X (1 .. f[i]) : i \in ObjectIds})

\* queryable: its feature layers; renders: it only exports an image; limit: its
\* maxRecordCount; named: its features carry an ID the client recognises; lists:
\* it lists object IDs; counts: it counts features; broken: it fails on these.
Service == [queryable : SUBSET FeatureLayers, renders : BOOLEAN, limit : 1 .. PageSize,
            named : BOOLEAN, lists : BOOLEAN, counts : BOOLEAN, broken : SUBSET ObjectIds]

Numbered(k) == Span((k - 1) * PageSize, PageSize)
Chunks == (NumFeatures + PageSize - 1) \div PageSize

\* What is left of a chunk: batches to request, from the last to the first, and
\* below a batch that fetches what a partial answer missed, its whole batch, to
\* split should that fail.
Batch(ids) == [kind |-> "fetch", ids |-> ids, got |-> Nothing]
Whole(ids, f) == [kind |-> "whole", ids |-> ids, got |-> f]
Lower(ids) == {i \in ids : Cardinality({j \in ids : j <= i}) <= Cardinality(ids) \div 2}
Split(ids) == <<Batch(ids \ Lower(ids)), Batch(Lower(ids))>>

IdleThread == [pc |-> "idle"]
Chunk(ids, s) == [sub |-> s, ids |-> ids]
PageKey(o, n, s) == [sub |-> s, offset |-> o, size |-> n]
Cached(key) == {c \in cache : c.key = key}

EntryKind == {"none", "error", "image", "features"}
Entry(kind, f) == [kind |-> kind, features |-> f, counted |-> target > 0]
NoEntry == [kind |-> "none", features |-> Nothing, counted |-> FALSE]
Records(kind, f) == entries' = [entries EXCEPT ![sub] = Entry(kind, f)]

ActivePc == {"list", "image", "clear", "ids", "fetch", "stopping", "count", "page",
             "export", "next", "manifest"}
EndPc == {"idle", "done", "failed", "cancelled", "refused"}

FetchTypeOK ==
    /\ service \in Service
    /\ faults \in 0 .. MaxFaults
    /\ attempt \in 0 .. MaxAttempts
    /\ {healthy, cancelled, failed, manifest} \subseteq BOOLEAN
    /\ pc \in ActivePc \cup EndPc
    /\ listed \subseteq service.queryable
    /\ sub \in FeatureLayers
    /\ next \in 0 .. NumFeatures + PageSize
    /\ \A t \in Threads :
          \/ threads[t] = IdleThread
          \/ /\ threads[t].pc \in {"begin", "fetch", "done", "failed"}
             /\ threads[t].ids \subseteq ObjectIds
             /\ threads[t].got \in Features
    /\ target \in {0, NumFeatures}
    /\ \A i \in 1 .. Len(pages) : pages[i] \in (0 .. NumFeatures + PageSize) \X (1 .. PageSize)
    /\ {part, got} \subseteq Features
    /\ \A c \in cache : c.features \in Features
    /\ entries \in [FeatureLayers ->
                       [kind : EntryKind, features : Features, counted : BOOLEAN]]
    /\ files \subseteq FeatureLayers

FetchInit ==
    /\ service \in {v \in Service : v.renders => v.queryable = {}}
    /\ faults = 0
    /\ attempt = 0
    /\ healthy = TRUE
    /\ cancelled = FALSE
    /\ pc = "idle"
    /\ listed = {}
    /\ sub = 1
    /\ next = 0
    /\ threads = [t \in Threads |-> IdleThread]
    /\ failed = FALSE
    /\ target = 0
    /\ pages = <<>>
    /\ part = Nothing
    /\ got = Nothing
    /\ cache = {}
    /\ entries = [s \in FeatureLayers |-> NoEntry]
    /\ files = {}
    /\ manifest = FALSE

-----------------------------------------------------------------------------
fetchVars == <<next, threads, failed, target, pages, part, got>>
outVars == <<entries, files, manifest>>

\* The service fails a request, or the connection to it does.
Faulty == faults < MaxFaults /\ faults' = faults + 1 /\ healthy' = FALSE
Sound == UNCHANGED <<faults, healthy>>

Goes(step) == pc' = step
Stays == UNCHANGED <<service, attempt, cancelled, listed>>

\* The buffers of a sublayer when its fetching starts.
AfreshWith(asked) ==
    /\ next' = 0
    /\ failed' = FALSE
    /\ got' = Nothing
    /\ pages' = asked
    /\ part' = Nothing
Afresh == AfreshWith(<<>>)

\* A progress callback: it raises DownloadCancelled in a download that is cancelled.
Progress(step) == Goes(IF cancelled THEN "cancelled" ELSE step)

-----------------------------------------------------------------------------
(* download_service: the enumeration of the sublayers                      *)

\* The task is taken; its request has cleared an earlier cancellation.
Begin ==
    /\ pc \in EndPc
    /\ attempt < MaxAttempts
    /\ attempt' = attempt + 1
    /\ healthy' = TRUE
    /\ cancelled' = FALSE
    /\ Goes("list")
    /\ UNCHANGED <<service, faults, listed, sub, fetchVars, cache, outVars>>

\* A sublayer whose metadata cannot be read is skipped.
List ==
    /\ pc = "list"
    /\ \E lost \in SUBSET service.queryable :
          /\ faults + Cardinality(lost) <= MaxFaults
          /\ faults' = faults + Cardinality(lost)
          /\ healthy' = (lost = {})
          /\ listed' = service.queryable \ lost
          /\ Goes(IF service.queryable # lost THEN "clear"
                  ELSE IF service.renders THEN "image" ELSE "refused")
    /\ UNCHANGED <<service, attempt, cancelled, sub, fetchVars, cache, outVars>>

\* download_map_image: the image, its world file and metadata, then the manifest.
Image ==
    /\ pc = "image"
    /\ Sound
    /\ entries' = [entries EXCEPT ![1] = Entry("image", Nothing)]
    /\ files' = files \cup {1}
    /\ manifest' = TRUE
    /\ Goes("done")
    /\ Stays
    /\ UNCHANGED <<sub, fetchVars, cache>>

\* download_all_sublayers: the directory is removed and made again.
EmptyDir ==
    /\ pc = "clear"
    /\ entries' = [s \in FeatureLayers |-> NoEntry]
    /\ files' = {}
    /\ manifest' = FALSE
    /\ sub' = CHOOSE s \in listed : \A t \in listed : s <= t
    /\ Afresh
    /\ Goes("ids")
    /\ Sound /\ Stays
    /\ UNCHANGED <<threads, target, cache>>

-----------------------------------------------------------------------------
(* download_by_object_ids                                                  *)

ListIds ==
    /\ pc = "ids"
    /\ Sound
    /\ Goes(IF service.lists THEN "fetch" ELSE "count")
    /\ target' = IF service.lists THEN NumFeatures ELSE 0
    /\ Stays
    /\ UNCHANGED <<sub, next, threads, failed, pages, part, got, cache, outVars>>

\* The next window of chunks goes to the threads.
Submit ==
    /\ pc = "fetch"
    /\ next < Chunks
    /\ \A t \in Threads : threads[t] = IdleThread
    /\ \E f \in [Threads -> 1 .. Cardinality(Threads)] :
          /\ \A t, u \in Threads : t # u => f[t] # f[u]
          /\ threads' = [t \in Threads |->
                IF next + f[t] > Chunks THEN IdleThread
                ELSE [pc |-> "begin", ids |-> Numbered(next + f[t]), stack |-> <<>>,
                      got |-> Nothing]]
    /\ next' = Smaller(next + Cardinality(Threads), Chunks)
    /\ Sound /\ Stays
    /\ UNCHANGED <<pc, sub, failed, target, pages, part, got, cache, outVars>>

Fetching(t, step) == pc \in {"fetch", "stopping"} /\ threads[t].pc = step
Top(t) == threads[t].stack[Len(threads[t].stack)]
Below(t) == SubSeq(threads[t].stack, 1, Len(threads[t].stack) - 1)
Thread(t, step, stack, f) ==
    threads' = [threads EXCEPT ![t].pc = step, ![t].stack = stack, ![t].got = f]
threadRest == <<pc, sub, next, failed, target, pages, part, got, outVars>>

\* _fetch_chunk_with_resume: the cache answers, or the client is asked.
StartChunk(t) ==
    /\ Fetching(t, "begin")
    /\ LET c == Cached(Chunk(threads[t].ids, sub)) IN
       IF c # {} THEN Thread(t, "done", <<>>, (CHOOSE x \in c : TRUE).features)
                 ELSE Thread(t, "fetch", <<Batch(threads[t].ids)>>, Nothing)
    /\ Sound /\ Stays
    /\ UNCHANGED <<threadRest, cache>>

\* Mutant of BatchAnswer: what a partial answer misses is taken as not there.
BatchAnswerShort(t) ==
    /\ Fetching(t, "fetch")
    /\ threads[t].stack # <<>> /\ Top(t).kind = "fetch"
    /\ Top(t).ids \cap service.broken = {}
    /\ LET ids == Top(t).ids
           rows == {i \in ids : Cardinality({j \in ids : j <= i}) <= service.limit}
       IN Thread(t, "fetch", Below(t), Plus(threads[t].got, Once(rows)))
    /\ Sound /\ Stays
    /\ UNCHANGED <<threadRest, cache>>

\* Mutant of BatchAnswer: a partial answer that does not tell its IDs is asked for again.
BatchAnswerAgain(t) ==
    /\ Fetching(t, "fetch")
    /\ threads[t].stack # <<>> /\ Top(t).kind = "fetch"
    /\ Top(t).ids \cap service.broken = {}
    /\ LET ids == Top(t).ids
           rows == {i \in ids : Cardinality({j \in ids : j <= i}) <= service.limit}
           now == threads[t].got
       IN IF rows = ids THEN Thread(t, "fetch", Below(t), Plus(now, Once(ids)))
          ELSE IF service.named
             THEN Thread(t, "fetch", Below(t) \o <<Whole(ids, now), Batch(ids \ rows)>>,
                         Plus(now, Once(rows)))
             ELSE Thread(t, "fetch", threads[t].stack, now)
    /\ Sound /\ Stays
    /\ UNCHANGED <<threadRest, cache>>

\* The service answers with as many of the IDs as its limit allows.  The missing
\* ones are fetched when the answer tells which they are; else the batch is split.
BatchAnswer(t) ==
    /\ Fetching(t, "fetch")
    /\ threads[t].stack # <<>> /\ Top(t).kind = "fetch"
    /\ Top(t).ids \cap service.broken = {}
    /\ LET ids == Top(t).ids
           rows == {i \in ids : Cardinality({j \in ids : j <= i}) <= service.limit}
           now == threads[t].got
       IN IF rows = ids THEN Thread(t, "fetch", Below(t), Plus(now, Once(ids)))
          ELSE IF service.named
             THEN Thread(t, "fetch", Below(t) \o <<Whole(ids, now), Batch(ids \ rows)>>,
                         Plus(now, Once(rows)))
             ELSE Thread(t, "fetch", Below(t) \o Split(ids), now)
    /\ Sound /\ Stays
    /\ UNCHANGED <<threadRest, cache>>

\* Mutant of Unwind: what the batch had collected before it failed is kept.
UnwindKept(t) ==
    LET wholes == {k \in 1 .. Len(Below(t)) : threads[t].stack[k].kind = "whole"}
        k == CHOOSE k \in wholes : \A j \in wholes : j <= k
        frame == threads[t].stack[k]
    IN IF wholes = {} THEN Thread(t, "failed", <<>>, Nothing)
       ELSE Thread(t, "fetch", SubSeq(threads[t].stack, 1, k - 1) \o Split(frame.ids),
                   threads[t].got)

\* A single ID raises: the nearest batch that was fetching what a partial answer
\* had missed drops what it has and is split; when there is none the chunk fails.
Unwind(t) ==
    LET wholes == {k \in 1 .. Len(Below(t)) : threads[t].stack[k].kind = "whole"}
        k == CHOOSE k \in wholes : \A j \in wholes : j <= k
        frame == threads[t].stack[k]
    IN IF wholes = {} THEN Thread(t, "failed", <<>>, Nothing)
       ELSE Thread(t, "fetch", SubSeq(threads[t].stack, 1, k - 1) \o Split(frame.ids),
                   frame.got)

RequestFails(t) ==
    /\ Fetching(t, "fetch")
    /\ threads[t].stack # <<>> /\ Top(t).kind = "fetch"
    /\ \/ Top(t).ids \cap service.broken # {} /\ Sound
       \/ Faulty
    /\ IF Cardinality(Top(t).ids) > 1
          THEN Thread(t, "fetch", Below(t) \o Split(Top(t).ids), threads[t].got)
          ELSE Unwind(t)
    /\ Stays
    /\ UNCHANGED <<threadRest, cache>>

\* The missing part has been fetched: the whole batch returns.
Joined(t) ==
    /\ Fetching(t, "fetch")
    /\ threads[t].stack # <<>> /\ Top(t).kind = "whole"
    /\ Thread(t, "fetch", Below(t), threads[t].got)
    /\ Sound /\ Stays
    /\ UNCHANGED <<threadRest, cache>>

\* write_features: a temporary file renamed over the chunk's name.
Store(t) ==
    /\ Fetching(t, "fetch")
    /\ threads[t].stack = <<>>
    /\ cache' = cache \cup {[key |-> Chunk(threads[t].ids, sub), features |-> threads[t].got]}
    /\ Thread(t, "done", <<>>, threads[t].got)
    /\ Sound /\ Stays
    /\ UNCHANGED threadRest

\* The future's result; then the callback, which may raise within the executor:
\* the threads of the window then run on, and the executor waits for them.
Collect(t) ==
    /\ pc \in {"fetch", "stopping"}
    /\ threads[t].pc \in {"done", "failed"}
    /\ IF threads[t].pc = "done" THEN got' = Plus(got, threads[t].got) /\ UNCHANGED failed
                                 ELSE failed' = TRUE /\ UNCHANGED got
    /\ threads' = [threads EXCEPT ![t] = IdleThread]
    /\ Goes(IF cancelled THEN "stopping" ELSE pc)
    /\ Sound /\ Stays
    /\ UNCHANGED <<sub, next, target, pages, part, cache, outVars>>

StopIds ==
    /\ pc = "stopping"
    /\ \A t \in Threads : threads[t] = IdleThread
    /\ Goes("cancelled")
    /\ Sound /\ Stays
    /\ UNCHANGED <<sub, fetchVars, cache, outVars>>

\* Failed chunks and missing features raise; the sublayer is then read by pages.
EndIds ==
    /\ pc = "fetch"
    /\ next = Chunks
    /\ \A t \in Threads : threads[t] = IdleThread
    /\ Goes(IF failed \/ Size(got) < target THEN "count" ELSE "export")
    /\ Sound /\ Stays
    /\ UNCHANGED <<sub, fetchVars, cache, outVars>>

-----------------------------------------------------------------------------
(* download_by_pagination                                                  *)

Count ==
    /\ pc = "count"
    /\ \/ Sound /\ target' = IF service.counts THEN NumFeatures ELSE 0
       \/ Faulty /\ target' = 0
    /\ AfreshWith(<<<<0, PageSize>>>>)
    /\ Goes("page")
    /\ Stays
    /\ UNCHANGED <<sub, threads, cache, outVars>>

\* The page, or the part of it that is asked for next.
Asked == pages[Len(pages)]
PageRows == Span(Asked[1], Smaller(Asked[2], service.limit))
Kept == SubSeq(pages, 1, Len(pages) - 1)
pageRest == <<pc, sub, next, threads, failed, target, got, outVars>>

\* _fetch_page_with_resume
PageAnswer ==
    /\ pc = "page"
    /\ pages # <<>>
    /\ LET c == Cached(PageKey(Asked[1], Asked[2], sub)) IN
       IF c # {}
          THEN part' = Plus(part, (CHOOSE x \in c : TRUE).features) /\ UNCHANGED cache
          ELSE /\ PageRows \cap service.broken = {}
               /\ part' = Plus(part, Once(PageRows))
               /\ cache' = cache \cup {[key |-> PageKey(Asked[1], Asked[2], sub),
                                        features |-> Once(PageRows)]}
    /\ pages' = Kept
    /\ Sound /\ Stays
    /\ UNCHANGED pageRest

\* _fetch_page_adaptive: halves of the page; a single row that fails ends it all.
PageFails ==
    /\ pc = "page"
    /\ pages # <<>>
    /\ Cached(PageKey(Asked[1], Asked[2], sub)) = {}
    /\ \/ PageRows \cap service.broken # {} /\ Sound
       \/ Faulty
    /\ LET left == Asked[2] \div 2 IN
       pages' = IF Asked[2] > 1
                   THEN Kept \o <<<<Asked[1] + left, Asked[2] - left>>, <<Asked[1], left>>>>
                   ELSE <<>>
    /\ IF Asked[2] > 1 THEN UNCHANGED <<pc, entries>>
       ELSE Goes("next") /\ Records("error", Nothing)
    /\ Stays
    /\ UNCHANGED <<sub, next, threads, failed, target, part, got, cache, files, manifest>>

\* The loop over the pages: it ends with an empty page, with the features that
\* were counted, or with a page that is not full.
PageEnds ==
    /\ pc = "page"
    /\ pages = <<>>
    /\ LET all == Plus(got, part)
           more == Size(part) > 0
           last == ~more \/ (target > 0 /\ Size(all) >= target) \/ Size(part) < PageSize
           short == target > 0 /\ Size(all) < target
       IN /\ got' = all
          /\ part' = Nothing
          /\ next' = IF last THEN next ELSE next + PageSize
          /\ pages' = IF last THEN <<>> ELSE <<<<next + PageSize, PageSize>>>>
          /\ IF more /\ cancelled THEN Goes("cancelled") /\ UNCHANGED entries
             ELSE IF ~last THEN Goes("page") /\ UNCHANGED entries
             ELSE IF short THEN Goes("next") /\ Records("error", Nothing)
             ELSE Goes("export") /\ UNCHANGED entries
    /\ Sound /\ Stays
    /\ UNCHANGED <<sub, threads, failed, target, cache, files, manifest>>

-----------------------------------------------------------------------------
(* The files, the next sublayer, the manifest                              *)

\* _export_and_save, then the entry of the sublayer.
Export ==
    /\ pc = "export"
    /\ files' = files \cup {sub}
    /\ Records("features", got)
    /\ Goes("next")
    /\ Sound /\ Stays
    /\ UNCHANGED <<sub, fetchVars, cache, manifest>>

NextSublayer ==
    /\ pc = "next"
    /\ LET left == {s \in listed : s > sub} IN
       IF left = {} THEN Progress("manifest") /\ UNCHANGED sub
       ELSE Progress("ids") /\ sub' = CHOOSE s \in left : \A t \in left : s <= t
    /\ Afresh
    /\ Sound /\ Stays
    /\ UNCHANGED <<threads, target, cache, outVars>>

Manifest ==
    /\ pc = "manifest"
    /\ manifest' = TRUE
    /\ Goes("done")
    /\ Sound /\ Stays
    /\ UNCHANGED <<sub, fetchVars, cache, entries, files>>

\* What the task does not expect ends the attempt: the metadata or the object IDs
\* of the service, the image, or the files.
AttemptFails ==
    /\ pc \in {"list", "image", "ids", "export", "manifest"}
    /\ Faulty
    /\ Goes("failed")
    /\ Stays
    /\ UNCHANGED <<sub, fetchVars, cache, outVars>>

\* The worker dies; the message is delivered again.
Dies ==
    /\ pc \in ActivePc
    /\ Faulty
    /\ Goes("idle")
    /\ threads' = [t \in Threads |-> IdleThread]
    /\ Stays
    /\ UNCHANGED <<sub, next, failed, target, pages, part, got, cache, outVars>>

Cancel ==
    /\ pc \in ActivePc
    /\ ~cancelled
    /\ cancelled' = TRUE
    /\ UNCHANGED <<service, faults, attempt, healthy, pc, listed, sub, fetchVars, cache, outVars>>

-----------------------------------------------------------------------------
ThreadStep(t) ==
    \/ StartChunk(t) \/ BatchAnswer(t) \/ RequestFails(t) \/ Joined(t) \/ Store(t) \/ Collect(t)

Work ==
    \/ List \/ Image \/ EmptyDir \/ ListIds \/ Submit \/ StopIds \/ EndIds
    \/ Count \/ PageAnswer \/ PageFails \/ PageEnds
    \/ Export \/ NextSublayer \/ Manifest \/ AttemptFails
    \/ \E t \in Threads : ThreadStep(t)

FetchNext == Begin \/ Work \/ Dies \/ Cancel

FetchSpec == FetchInit /\ [][FetchNext]_downloadVars

\* A worker that has begun runs on, and so do its threads; every request ends.
FairFetchSpec == FetchSpec /\ WF_downloadVars(Work)

-----------------------------------------------------------------------------
(* Properties                                                              *)

IsWhole(f) == \A i \in ObjectIds : f[i] = 1
HasFeatures(s) == entries[s].kind = "features"

\* A chunk holds its IDs once each, a page no feature twice.
CachedIsWhole ==
    \A c \in cache : IF "ids" \in DOMAIN c.key
                        THEN \A i \in ObjectIds :
                                 c.features[i] = IF i \in c.key.ids THEN 1 ELSE 0
                        ELSE \A i \in ObjectIds : c.features[i] <= 1

\* The entry of a sublayer whose features are counted holds each of them once.
EntryIsWhole == \A s \in FeatureLayers : HasFeatures(s) /\ entries[s].counted =>
                    IsWhole(entries[s].features)

\* Nothing that is kept is partial, neither the chunks and pages that a later attempt
\* takes from the cache nor the counted entries, whatever splits, partial answers,
\* failures and crashes they were fetched through.
NothingIsPartial == CachedIsWhole /\ EntryIsWhole

\* A service that lists its IDs and fails no request is downloaded whole, whatever
\* its limit, and whatever earlier attempts have left in the cache.
HealthyIsWhole ==
    (service.lists /\ service.broken = {} /\ healthy /\ manifest /\ pc = "done") =>
        \A s \in listed : HasFeatures(s) /\ IsWhole(entries[s].features)

\* The splitting of batches and pages ends: so does every download.
DownloadEnds == pc \in ActivePc ~> pc \in EndPc
=============================================================================
