---------------------------- MODULE LayerGroups -----------------------------
(***************************************************************************)
(* Layer groups of app/application/map_batches.py after their batch has    *)
(* been configured: publication by the batch's last transaction, updates   *)
(* with an optimistic revision, deletion, the deletion guard of a layer    *)
(* (app/presentation/router/api/v1/endpoints/layers.py), the reservation   *)
(* of codes, and the WMS representation that GeoServer serves under a      *)
(* group's code, which no database transaction protects.                   *)
(*                                                                         *)
(* A transaction is three steps: it reads the group and decides what to    *)
(* save, it calls GeoServer, it commits.  Others act in between, as in     *)
(* MapBatches: the rows are READ COMMITTED and unlocked.  The history      *)
(* variable crossed holds the groups over whose row a transaction has      *)
(* committed although the row was no longer what it had read.              *)
(***************************************************************************)
EXTENDS Naturals, FiniteSets

CONSTANTS
    Layers,        \* layers of all batches
    Groups,        \* groups, one per batch in group mode
    Codes,         \* codes a group may be given
    Users,         \* requests and tasks that can be in progress at once
    None,          \* nobody, nothing
    MaxRevision,   \* bound: revisions of a group
    MaxFailures    \* bound: failing GeoServer calls, failing commits, crashes

ASSUME ConstantsAssumption ==
    /\ None \notin Layers \cup Groups \cup Codes
    /\ MaxRevision \in Nat
    /\ MaxFailures \in Nat

VARIABLES
    layer,         \* the life of each layer; its row exists while "built"
    group,         \* rows of "layer_groups" with their members
    chosen,        \* the layers a group's batch has selected
    pending,       \* groups whose batch is not done
    reserved,      \* rows of "code_reservations": who owns a code
    served,        \* what GeoServer serves under a code, and for which group
    txn,           \* the open transaction of each process
    view,          \* the group as a user last loaded it
    guarded,       \* the layer a DELETE request may go on to delete
    failures,      \* failures so far
    crossed        \* groups with a commit over a row that had not been read

vars == <<layer, group, chosen, pending, reserved, served, txn, view, guarded, failures,
          crossed>>

-----------------------------------------------------------------------------
LayerState == {"unplanned", "planned", "built", "deleted"}
GroupStatus == {"absent", "draft", "published", "failed"}
Group == [status : GroupStatus, code : Codes \cup {None}, members : SUBSET Layers,
          visible : SUBSET Layers, revision : 0 .. MaxRevision]
Map == [by : Groups \cup {None}, shows : SUBSET Layers]
Txn == [kind : {"final", "update", "delete"}, g : Groups, read : Group, new : Group,
        called : BOOLEAN]
View == [g : Groups \cup {None}, members : SUBSET Layers, revision : 0 .. MaxRevision]

ASSUME NoneAssumption == None \notin Txn

Absent == [status |-> "absent", code |-> None, members |-> {},
           visible |-> {}, revision |-> 0]
Nothing == [by |-> None, shows |-> {}]
NoView == [g |-> None, members |-> {}, revision |-> 0]

TypeOK ==
    /\ layer \in [Layers -> LayerState]
    /\ group \in [Groups -> Group]
    /\ chosen \in [Groups -> SUBSET Layers]
    /\ pending \in SUBSET Groups
    /\ reserved \in [Codes -> Groups \cup {None}]
    /\ served \in [Codes -> Map]
    /\ txn \in [Users -> Txn \cup {None}]
    /\ view \in [Users -> View]
    /\ guarded \in [Users -> Layers \cup {None}]
    /\ failures \in 0 .. MaxFailures
    /\ crossed \in SUBSET Groups

Init ==
    /\ layer = [l \in Layers |-> "unplanned"]
    /\ group = [g \in Groups |-> Absent]
    /\ chosen = [g \in Groups |-> {}]
    /\ pending = {}
    /\ reserved = [k \in Codes |-> None]
    /\ served = [k \in Codes |-> Nothing]
    /\ txn = [u \in Users |-> None]
    /\ view = [u \in Users |-> NoView]
    /\ guarded = [u \in Users |-> None]
    /\ failures = 0
    /\ crossed = {}

Exists(g) == group[g].status # "absent"
Built == {l \in Layers : layer[l] = "built"}

-----------------------------------------------------------------------------
(* The batch, as far as groups depend on it.                               *)

\* configure_and_start reserves the code and saves the draft group with the
\* selected datasets, of which those in V are visible; their layers do not
\* exist yet.  The unique index on the code makes the reservation atomic: a
\* second owner's insert fails and its request rolls back.  A batch, hence a
\* group, is configured once.
Configure(g, k, S, V) ==
    /\ chosen[g] = {} /\ S # {} /\ V \subseteq S
    /\ \A l \in S : layer[l] = "unplanned"
    /\ reserved[k] = None
    /\ reserved' = [reserved EXCEPT ![k] = g]
    /\ group' = [group EXCEPT ![g] = [status |-> "draft", code |-> k, members |-> S,
                                      visible |-> V, revision |-> 0]]
    /\ chosen' = [chosen EXCEPT ![g] = S]
    /\ pending' = pending \cup {g}
    /\ layer' = [l \in Layers |-> IF l \in S THEN "planned" ELSE layer[l]]
    /\ UNCHANGED <<served, txn, view, guarded, failures, crossed>>

\* run() saves the layer of a rendered dataset; a done dataset is never rendered again.
Build(l) ==
    /\ layer[l] = "planned"
    /\ layer' = [layer EXCEPT ![l] = "built"]
    /\ UNCHANGED <<group, chosen, pending, reserved, served, txn, view, guarded, failures,
                   crossed>>

-----------------------------------------------------------------------------
(* Transactions                                                            *)

\* A request between the guard of a layer and its deletion does nothing else.
MayOpen(u) == txn[u] = None /\ guarded[u] = None

Open(u, kind, g, new) ==
    /\ MayOpen(u)
    /\ txn' = [txn EXCEPT ![u] = [kind |-> kind, g |-> g, read |-> group[g], new |-> new,
                                  called |-> FALSE]]

Close(u) == txn' = [txn EXCEPT ![u] = None]

Commit(u) ==
    /\ Close(u)
    /\ crossed' = IF group[txn[u].g] = txn[u].read THEN crossed ELSE crossed \cup {txn[u].g}

\* Mutant of Published: emptying a group keeps its revision.
PublishedSameRevision(g, S, V) ==
    IF S = {} THEN [group[g] EXCEPT !.members = S, !.visible = V, !.status = "draft"]
    ELSE [group[g] EXCEPT !.members = S, !.visible = V, !.status = "published",
                          !.revision = @ + 1]

\* _publish: an empty group becomes a draft, another one is published.
Published(g, S, V) ==
    [group[g] EXCEPT !.members = S, !.visible = V, !.revision = @ + 1,
                     !.status = IF S = {} THEN "draft" ELSE "published"]

\* The last transaction of run(), once every selected dataset is done.  A
\* member whose layer is gone fails the group without a new revision.
FinalOpen(u, g) ==
    /\ g \in pending /\ Exists(g)
    /\ group[g].revision < MaxRevision
    /\ \A l \in chosen[g] : layer[l] \in {"built", "deleted"}
    /\ \A v \in Users : txn[v] # None => ~(txn[v].kind = "final" /\ txn[v].g = g)
    /\ Open(u, "final", g, IF group[g].members \subseteq Built
                           THEN Published(g, group[g].members, group[g].visible)
                           ELSE [group[g] EXCEPT !.status = "failed"])
    /\ UNCHANGED <<layer, group, chosen, pending, reserved, served, view, guarded, failures,
                   crossed>>

\* GET of a group: the revision the user will send back.
Load(u, g) ==
    /\ Exists(g) /\ MayOpen(u)
    /\ view' = [view EXCEPT ![u] = [g |-> g, members |-> group[g].members,
                                    revision |-> group[g].revision]]
    /\ UNCHANGED <<layer, group, chosen, pending, reserved, served, txn, guarded, failures,
                   crossed>>

\* PATCH /batches/{g}/group: another revision is refused, so is a missing layer.
UpdateOpen(u, S, V) ==
    LET g == view[u].g IN
    /\ g # None /\ Exists(g)
    /\ group[g].revision = view[u].revision
    /\ group[g].revision < MaxRevision
    /\ S \subseteq Built /\ V \subseteq S
    /\ Open(u, "update", g, Published(g, S, V))
    /\ UNCHANGED <<layer, group, chosen, pending, reserved, served, view, guarded, failures,
                   crossed>>

\* DELETE /batches/{g}/group
DeleteOpen(u, g) ==
    /\ Exists(g)
    /\ Open(u, "delete", g, Absent)
    /\ UNCHANGED <<layer, group, chosen, pending, reserved, served, view, guarded, failures,
                   crossed>>

-----------------------------------------------------------------------------
(* GeoServer                                                               *)

Calling(u) == txn[u] # None /\ ~txn[u].called
Removes(t) == t.new.members = {}
Called(u, new) == txn' = [txn EXCEPT ![u].called = TRUE, ![u].new = new]

\* publish returns before it calls GeoServer when every member is hidden, and
\* a group that fails for a missing layer does not get that far.
Reaches(t) == t.new.status # "failed" /\ (Removes(t) \/ t.new.visible # {})

\* The map of the visible members is put under the code of the group, or removed.
Applied(t) ==
    [served EXCEPT ![t.read.code] =
        IF Removes(t) THEN Nothing ELSE [by |-> t.g, shows |-> t.new.visible]]

\* Mutant of Call: the map of the members before the update is put.
CallOldMembers(u) ==
    /\ Calling(u)
    /\ served' = [served EXCEPT ![txn[u].read.code] =
                     IF Removes(txn[u]) THEN Nothing
                     ELSE [by |-> txn[u].g, shows |-> txn[u].read.visible]]
    /\ Called(u, txn[u].new)
    /\ UNCHANGED <<layer, group, chosen, pending, reserved, view, guarded, failures, crossed>>

Call(u) ==
    /\ Calling(u)
    /\ served' = IF Reaches(txn[u]) THEN Applied(txn[u]) ELSE served
    /\ Called(u, txn[u].new)
    /\ UNCHANGED <<layer, group, chosen, pending, reserved, view, guarded, failures, crossed>>

\* A failing removal is logged and ignored.  A failing publication (it may
\* have been applied: a read timeout) fails the group of a batch, and rolls an
\* update back.
CallFails(u) ==
    /\ Calling(u) /\ Reaches(txn[u])
    /\ failures < MaxFailures
    /\ failures' = failures + 1
    /\ served' \in {served, Applied(txn[u])}
    /\ \/ Removes(txn[u]) /\ Called(u, txn[u].new)
       \/ /\ ~Removes(txn[u]) /\ txn[u].kind = "final"
          /\ Called(u, [txn[u].new EXCEPT !.status = "failed"])
       \/ ~Removes(txn[u]) /\ txn[u].kind = "update" /\ Close(u)
    /\ UNCHANGED <<layer, group, chosen, pending, reserved, view, guarded, crossed>>

-----------------------------------------------------------------------------
(* Commits                                                                 *)

Ready(u, kind) == txn[u] # None /\ txn[u].called /\ txn[u].kind = kind

Flushed(read, new, now) == IF new = read THEN now ELSE new

\* A saved group replaces the member rows and writes its columns, or those
\* that the handler has changed, as SaveBatch in MapBatches; a row that is
\* gone is inserted again.
SaveGroup(u) ==
    LET t == txn[u]
        now == group[t.g]
    IN  \/ group' = [group EXCEPT ![t.g] = t.new]
        \/ /\ now.status # "absent"
           /\ group' = [group EXCEPT ![t.g] =
                 [t.new EXCEPT !.status = Flushed(t.read.status, t.new.status, now.status),
                               !.revision = Flushed(t.read.revision, t.new.revision, now.revision)]]

UpdateCommit(u) ==
    /\ Ready(u, "update")
    /\ SaveGroup(u)
    /\ Commit(u)
    /\ UNCHANGED <<layer, chosen, pending, reserved, served, view, guarded, failures>>

\* The batch is done unless its group has failed.
FinalCommit(u) ==
    /\ Ready(u, "final")
    /\ SaveGroup(u)
    /\ pending' = IF txn[u].new.status = "failed" THEN pending ELSE pending \ {txn[u].g}
    /\ Commit(u)
    /\ UNCHANGED <<layer, chosen, reserved, served, view, guarded, failures>>

\* Mutant of DeleteCommit: the code is free for another group.
DeleteCommitFreesCode(u) ==
    /\ Ready(u, "delete")
    /\ group' = [group EXCEPT ![txn[u].g] = Absent]
    /\ reserved' = [reserved EXCEPT ![txn[u].read.code] = None]
    /\ Commit(u)
    /\ UNCHANGED <<layer, chosen, pending, served, view, guarded, failures>>

\* The rows of the group and its members go; the reservation stays.
DeleteCommit(u) ==
    /\ Ready(u, "delete")
    /\ group' = [group EXCEPT ![txn[u].g] = Absent]
    /\ Commit(u)
    /\ UNCHANGED <<layer, chosen, pending, reserved, served, view, guarded, failures>>

\* The process dies or the commit fails: the rows stay as they were.
Abort(u) ==
    /\ txn[u] # None
    /\ failures < MaxFailures
    /\ failures' = failures + 1
    /\ Close(u)
    /\ UNCHANGED <<layer, group, chosen, pending, reserved, served, view, guarded, crossed>>

-----------------------------------------------------------------------------
(* DELETE of a layer: deletion_guard has a transaction of its own, and the *)
(* row is deleted in the transaction of the request, after other work.     *)

Guard(u, l) ==
    /\ layer[l] = "built"
    /\ MayOpen(u)
    /\ \A g \in Groups : l \notin group[g].members
    /\ guarded' = [guarded EXCEPT ![u] = l]
    /\ UNCHANGED <<layer, group, chosen, pending, reserved, served, txn, view, failures,
                   crossed>>

DeleteLayer(u) ==
    /\ guarded[u] # None
    /\ layer' = [layer EXCEPT ![guarded[u]] = "deleted"]
    /\ guarded' = [guarded EXCEPT ![u] = None]
    /\ UNCHANGED <<group, chosen, pending, reserved, served, txn, view, failures, crossed>>

-----------------------------------------------------------------------------
Next ==
    \/ \E g \in Groups, k \in Codes, S, V \in SUBSET Layers : Configure(g, k, S, V)
    \/ \E l \in Layers : Build(l)
    \/ \E u \in Users :
           \/ \E g \in Groups : FinalOpen(u, g) \/ Load(u, g) \/ DeleteOpen(u, g)
           \/ \E S, V \in SUBSET Layers : UpdateOpen(u, S, V)
           \/ Call(u) \/ CallFails(u)
           \/ UpdateCommit(u) \/ FinalCommit(u) \/ DeleteCommit(u) \/ Abort(u)
           \/ \E l \in Layers : Guard(u, l)
           \/ DeleteLayer(u)

Spec == Init /\ [][Next]_vars

-----------------------------------------------------------------------------
(* Properties                                                              *)

(***************************************************************************)
(* An update replaces only what its user has seen: when it commits, the    *)
(* members it overwrites are those the user loaded.  The documentation     *)
(* promises that the update of a stale revision is refused with 409        *)
(* (docs/features/multi-shapefile-layer-groups.md:89).                     *)
(***************************************************************************)
NoLostUpdate ==
    [][\A u \in Users :
           Ready(u, "update") /\ txn'[u] = None /\ group' # group /\ Exists(txn[u].g) =>
               group[txn[u].g].members = view[u].members]_vars

(***************************************************************************)
(* A revision stands for the members: an update that overwrites the row it *)
(* compared revisions with overwrites the members its user has seen, so    *)
(* every change of the members, emptying the group as well, has a revision *)
(* of its own and a user who loaded before it is refused                   *)
(* (map_batches.py:228-249).                                               *)
(***************************************************************************)
RevisionIsSeen ==
    [][\A u \in Users :
           /\ Ready(u, "update") /\ txn'[u] = None /\ group' # group
           /\ txn[u].g \notin crossed'
           => group[txn[u].g].members = view[u].members]_vars

(***************************************************************************)
(* The map under the code of a group is never another group's: deleting a  *)
(* group may leave its map in GeoServer (map_renderer.py:653-658), so the  *)
(* code must not go to a new group, which would show it.                   *)
(***************************************************************************)
PublicationIsOwn ==
    \A g \in Groups : Exists(g) => served[group[g].code].by \in {None, g}

(***************************************************************************)
(* GeoServer is called before the commit (map_batches.py:229-243), by      *)
(* transactions that interleave: as long as no call or commit failed, a    *)
(* published group with a visible member is served with exactly its        *)
(* visible members, whoever updated it last, except while a transaction on *)
(* it is open.  Nothing is said of a group with a crossing, whose rows and *)
(* map may come from different updates.                                    *)
(***************************************************************************)
MapShowsRows ==
    failures = 0 =>
        \A g \in Groups \ crossed :
            group[g].status = "published" /\ group[g].visible # {} =>
                \/ served[group[g].code] = [by |-> g, shows |-> group[g].visible]
                \/ \E u \in Users : txn[u] # None /\ txn[u].g = g
=============================================================================
