------------------------- MODULE LayerGroupsProofs --------------------------
(***************************************************************************)
(* Proofs about LayerGroups for every number of layers, groups, codes and  *)
(* requests whose transactions interleave.                                 *)
(***************************************************************************)
EXTENDS LayerGroups, TLAPS

\* A code belongs to the group that bears it, for its group's transactions too.
CodesAreOwned ==
    /\ \A g \in Groups : Exists(g) => group[g].code \in Codes /\ reserved[group[g].code] = g
    /\ \A u \in Users : txn[u] # None =>
           /\ txn[u].read.code \in Codes /\ reserved[txn[u].read.code] = txn[u].g
           /\ txn[u].kind # "delete" => txn[u].new.code = txn[u].read.code

\* Nothing is served under a code but by its owner.
ServedByOwner == \A k \in Codes : served[k].by \in {None, reserved[k]}

Inv == TypeOK /\ CodesAreOwned /\ ServedByOwner

-----------------------------------------------------------------------------
(* The operators of the module keep their types.                           *)

LEMMA PublishedType ==
    ASSUME TypeOK, NEW g \in Groups, group[g].revision < MaxRevision, NEW S \in SUBSET Layers,
           NEW V \in SUBSET Layers
    PROVE  Published(g, S, V) \in Group /\ Published(g, S, V).code = group[g].code
<1>1. group[g] \in Group /\ group[g].revision + 1 \in 0 .. MaxRevision
  BY ConstantsAssumption DEF TypeOK, Group
<1> QED BY <1>1 DEF Published, Group, GroupStatus

LEMMA AbsentType == Absent \in Group
BY ConstantsAssumption DEF Absent, Group, GroupStatus

LEMMA NothingType == Nothing \in Map
BY DEF Nothing, Map

(* What a call puts under the code is the group's own map, or nothing.     *)
LEMMA AppliedType ==
    ASSUME Inv, NEW u \in Users, txn[u] # None
    PROVE  /\ Applied(txn[u]) \in [Codes -> Map]
           /\ \A k \in Codes : Applied(txn[u])[k].by \in {None, reserved[k]}
<1>1. txn[u] \in Txn
  BY DEF Inv, TypeOK
<1>2. served \in [Codes -> Map] /\ txn[u].g \in Groups /\ txn[u].new \in Group
  BY <1>1 DEF Inv, TypeOK, Txn
<1>3. [by |-> txn[u].g, shows |-> txn[u].new.visible] \in Map
  BY <1>2 DEF Map, Group
<1>4. reserved[txn[u].read.code] = txn[u].g
  BY DEF Inv, CodesAreOwned
<1> QED BY <1>2, <1>3, <1>4, NothingType DEF Applied, Nothing, Inv, ServedByOwner

(* Opening a transaction on a group that exists.                           *)
LEMMA OpenInv ==
    ASSUME Inv, NEW u \in Users, NEW kind \in {"final", "update", "delete"}, NEW g \in Groups,
           NEW new \in Group, Exists(g), Open(u, kind, g, new),
           kind # "delete" => new.code = group[g].code,
           UNCHANGED <<layer, group, chosen, pending, reserved, served, view, guarded, failures,
                       crossed>>
    PROVE  Inv'
<1> DEFINE t == [kind |-> kind, g |-> g, read |-> group[g], new |-> new, called |-> FALSE]
<1>1. t \in Txn
  BY DEF Inv, TypeOK, Txn
<1>2. txn' = [txn EXCEPT ![u] = t]
  BY DEF Open
<1>3. TypeOK'
  <2> HIDE DEF t
  <2> QED BY <1>1, <1>2 DEF Inv, TypeOK
<1>4. CodesAreOwned'
  BY <1>2 DEF Inv, TypeOK, CodesAreOwned, Exists
<1>5. ServedByOwner'
  BY DEF Inv, ServedByOwner
<1> QED BY <1>3, <1>4, <1>5 DEF Inv

(* Either way a saved group reaches its row, it keeps its code.            *)
LEMMA SaveGroupInv ==
    ASSUME Inv, NEW u \in Users, txn[u] # None, txn[u].kind # "delete", SaveGroup(u),
           UNCHANGED reserved
    PROVE  /\ group' \in [Groups -> Group]
           /\ \A g \in Groups : Exists(g)' => group'[g].code \in Codes /\ reserved[group'[g].code] = g
<1> DEFINE t == txn[u]
           now == group[t.g]
           merged == [t.new EXCEPT !.status = Flushed(t.read.status, t.new.status, now.status),
                                   !.revision = Flushed(t.read.revision, t.new.revision, now.revision)]
<1>1. t \in Txn /\ group \in [Groups -> Group]
  BY DEF Inv, TypeOK
<1>2. t.g \in Groups /\ t.new \in Group /\ t.read \in Group /\ now \in Group
  BY <1>1 DEF Txn
<1>3. merged \in Group /\ merged.code = t.new.code
  BY <1>2 DEF Group, Flushed
<1>4. t.new.code \in Codes /\ reserved[t.new.code] = t.g
  BY DEF Inv, CodesAreOwned
<1>5. \E x \in {t.new, merged} : group' = [group EXCEPT ![t.g] = x]
  BY DEF SaveGroup
<1> HIDE DEF t, merged, now
<1> QED BY <1>1, <1>2, <1>3, <1>4, <1>5 DEF Inv, CodesAreOwned, Exists

(* A transaction that ends leaves the others alone.                        *)
LEMMA CloseTxn ==
    ASSUME Inv, NEW u \in Users, Close(u), UNCHANGED reserved
    PROVE  /\ txn' \in [Users -> Txn \cup {None}]
           /\ \A v \in Users : txn'[v] # None =>
                  /\ txn'[v].read.code \in Codes /\ reserved'[txn'[v].read.code] = txn'[v].g
                  /\ txn'[v].kind # "delete" => txn'[v].new.code = txn'[v].read.code
BY DEF Inv, TypeOK, Close, CodesAreOwned

-----------------------------------------------------------------------------
(* The actions preserve the invariant.                                     *)

LEMMA ConfigureInv ==
    ASSUME Inv, NEW g \in Groups, NEW k \in Codes, NEW S \in SUBSET Layers, NEW V \in SUBSET Layers,
           Configure(g, k, S, V)
    PROVE  Inv'
<1> DEFINE new == [status |-> "draft", code |-> k, members |-> S,
                   visible |-> V, revision |-> 0]
<1>1. new \in Group
  BY ConstantsAssumption DEF Group, GroupStatus
<1>2. TypeOK'
  <2>1. group' \in [Groups -> Group]
    BY <1>1 DEF Inv, TypeOK, Configure
  <2>2. layer' \in [Layers -> LayerState] /\ chosen' \in [Groups -> SUBSET Layers]
    BY DEF Inv, TypeOK, Configure, LayerState
  <2> QED BY <2>1, <2>2 DEF Inv, TypeOK, Configure
<1>3. reserved[k] = None /\ reserved' = [reserved EXCEPT ![k] = g]
  BY DEF Configure
<1>4. \A h \in Groups : reserved[k] # h
  BY <1>3, ConstantsAssumption
<1>5. CodesAreOwned'
  <2>1. \A h \in Groups : Exists(h)' => group'[h].code \in Codes /\ reserved'[group'[h].code] = h
    BY <1>3, <1>4 DEF Configure, Inv, TypeOK, CodesAreOwned, Exists
  <2>2. \A u \in Users : txn[u] # None => txn[u].g \in Groups
    BY DEF Inv, TypeOK, Txn
  <2>3. \A u \in Users : txn[u] # None =>
            /\ txn[u].read.code \in Codes /\ reserved'[txn[u].read.code] = txn[u].g
            /\ txn[u].kind # "delete" => txn[u].new.code = txn[u].read.code
    BY <1>3, <1>4, <2>2 DEF Inv, TypeOK, CodesAreOwned
  <2> QED BY <2>1, <2>3 DEF Configure, CodesAreOwned
<1>6. ServedByOwner'
  BY <1>3 DEF Configure, Inv, TypeOK, ServedByOwner
<1> QED BY <1>2, <1>5, <1>6 DEF Inv

LEMMA FinalOpenInv ==
    ASSUME Inv, NEW u \in Users, NEW g \in Groups, FinalOpen(u, g)
    PROVE  Inv'
<1> DEFINE new == IF group[g].members \subseteq Built THEN Published(g, group[g].members, group[g].visible)
                  ELSE [group[g] EXCEPT !.status = "failed"]
<1>1. group[g] \in Group /\ group[g].revision < MaxRevision /\ Exists(g)
  BY DEF Inv, TypeOK, FinalOpen
<1>2. Published(g, group[g].members, group[g].visible) \in Group /\ Published(g, group[g].members, group[g].visible).code = group[g].code
  BY <1>1, PublishedType DEF Inv, Group
<1>3. new \in Group /\ new.code = group[g].code
  BY <1>1, <1>2 DEF Group, GroupStatus
<1>4. Open(u, "final", g, new)
      /\ UNCHANGED <<layer, group, chosen, pending, reserved, served, view, guarded, failures,
                     crossed>>
  BY DEF FinalOpen
<1> HIDE DEF new
<1> QED BY <1>1, <1>3, <1>4, OpenInv

LEMMA UpdateOpenInv ==
    ASSUME Inv, NEW u \in Users, NEW S \in SUBSET Layers, NEW V \in SUBSET Layers,
           UpdateOpen(u, S, V)
    PROVE  Inv'
<1> DEFINE g == view[u].g
<1>1. g \in Groups /\ Exists(g) /\ group[g].revision < MaxRevision
  BY DEF Inv, TypeOK, View, UpdateOpen
<1>2. Published(g, S, V) \in Group /\ Published(g, S, V).code = group[g].code
  BY <1>1, PublishedType DEF Inv
<1>3. Open(u, "update", g, Published(g, S, V))
      /\ UNCHANGED <<layer, group, chosen, pending, reserved, served, view, guarded, failures,
                     crossed>>
  BY DEF UpdateOpen
<1> HIDE DEF g
<1> QED BY <1>1, <1>2, <1>3, OpenInv

LEMMA DeleteOpenInv ==
    ASSUME Inv, NEW u \in Users, NEW g \in Groups, DeleteOpen(u, g)
    PROVE  Inv'
BY OpenInv, AbsentType DEF DeleteOpen

(* A call that goes on keeps the code of what will be saved.               *)
LEMMA CalledTxn ==
    ASSUME Inv, NEW u \in Users, txn[u] # None, NEW new \in Group, Called(u, new),
           new.code = txn[u].new.code, UNCHANGED <<group, reserved>>
    PROVE  txn' \in [Users -> Txn \cup {None}] /\ CodesAreOwned'
<1>1. txn \in [Users -> Txn \cup {None}] /\ txn[u] \in Txn
  BY DEF Inv, TypeOK
<1> DEFINE t == [txn[u] EXCEPT !.called = TRUE, !.new = new]
<1>2. t \in Txn /\ t.read = txn[u].read /\ t.g = txn[u].g /\ t.kind = txn[u].kind /\ t.new = new
  BY <1>1 DEF Txn
<1>3. txn' = [txn EXCEPT ![u] = t]
  BY <1>1 DEF Called
<1>4. txn' \in [Users -> Txn \cup {None}]
  <2> HIDE DEF t
  <2> QED BY <1>1, <1>2, <1>3
<1>5. \A v \in Users : txn'[v] # None =>
          /\ txn'[v].read.code \in Codes /\ reserved[txn'[v].read.code] = txn'[v].g
          /\ txn'[v].kind # "delete" => txn'[v].new.code = txn'[v].read.code
  <2> HIDE DEF t
  <2> QED BY <1>1, <1>2, <1>3 DEF Inv, CodesAreOwned
<1> QED BY <1>4, <1>5 DEF Inv, CodesAreOwned, Exists

LEMMA CallInv ==
    ASSUME Inv, NEW u \in Users, Call(u)
    PROVE  Inv'
<1>1. txn[u] # None /\ txn[u].new \in Group /\ Called(u, txn[u].new)
      /\ UNCHANGED <<layer, group, chosen, pending, reserved, view, guarded, failures, crossed>>
  BY DEF Inv, TypeOK, Txn, Call, Calling
<1>2. txn' \in [Users -> Txn \cup {None}] /\ CodesAreOwned'
  BY <1>1, CalledTxn
<1>3. served' \in [Codes -> Map] /\ ServedByOwner'
  BY <1>1, AppliedType DEF Call, Inv, TypeOK, ServedByOwner
<1> QED BY <1>1, <1>2, <1>3 DEF Inv, TypeOK

LEMMA CallFailsInv ==
    ASSUME Inv, NEW u \in Users, CallFails(u)
    PROVE  Inv'
<1>1. txn[u] # None /\ txn[u].new \in Group
      /\ UNCHANGED <<layer, group, chosen, pending, reserved, view, guarded, crossed>>
  BY DEF Inv, TypeOK, Txn, CallFails, Calling
<1>2. failures' \in 0 .. MaxFailures
  BY ConstantsAssumption DEF Inv, TypeOK, CallFails
<1>3. served' \in [Codes -> Map] /\ ServedByOwner'
  BY <1>1, AppliedType DEF CallFails, Inv, TypeOK, ServedByOwner
<1>4. txn' \in [Users -> Txn \cup {None}] /\ CodesAreOwned'
  <2>1. CASE Called(u, txn[u].new)
    BY <1>1, <2>1, CalledTxn
  <2>2. CASE Called(u, [txn[u].new EXCEPT !.status = "failed"])
    <3>1. [txn[u].new EXCEPT !.status = "failed"] \in Group
          /\ [txn[u].new EXCEPT !.status = "failed"].code = txn[u].new.code
      BY <1>1 DEF Group, GroupStatus
    <3> QED BY <1>1, <2>2, <3>1, CalledTxn
  <2>3. CASE Close(u)
    BY <1>1, <2>3, CloseTxn DEF Inv, CodesAreOwned, Exists
  <2> QED BY <2>1, <2>2, <2>3 DEF CallFails
<1> QED BY <1>1, <1>2, <1>3, <1>4 DEF Inv, TypeOK

LEMMA CommitType ==
    ASSUME Inv, NEW u \in Users, txn[u] # None, Commit(u)
    PROVE  crossed' \in SUBSET Groups /\ Close(u)
<1>1. txn[u].g \in Groups /\ crossed \in SUBSET Groups
  BY DEF Inv, TypeOK, Txn
<1> QED BY <1>1 DEF Commit

LEMMA SaveCommitInv ==
    ASSUME Inv, NEW u \in Users, UpdateCommit(u) \/ FinalCommit(u)
    PROVE  Inv'
<1>0. crossed' \in SUBSET Groups /\ Close(u)
  BY CommitType DEF UpdateCommit, FinalCommit, Ready
<1>1. txn[u] # None /\ txn[u].kind # "delete" /\ SaveGroup(u)
      /\ UNCHANGED <<layer, chosen, reserved, served, view, guarded, failures>>
  BY DEF UpdateCommit, FinalCommit, Ready
<1>2. pending' \in SUBSET Groups
  BY DEF UpdateCommit, FinalCommit, Inv, TypeOK
<1>3. /\ group' \in [Groups -> Group]
      /\ \A g \in Groups : Exists(g)' => group'[g].code \in Codes /\ reserved[group'[g].code] = g
  BY <1>1, SaveGroupInv
<1>4. txn' \in [Users -> Txn \cup {None}] /\ CodesAreOwned'
  BY <1>0, <1>1, <1>3, CloseTxn DEF CodesAreOwned
<1> QED BY <1>0, <1>1, <1>2, <1>3, <1>4 DEF Inv, TypeOK, ServedByOwner

LEMMA DeleteCommitInv ==
    ASSUME Inv, NEW u \in Users, DeleteCommit(u)
    PROVE  Inv'
<1>1. txn[u].g \in Groups
  BY DEF DeleteCommit, Ready, Inv, TypeOK, Txn
<1>2. group' = [group EXCEPT ![txn[u].g] = Absent]
      /\ crossed' \in SUBSET Groups /\ Close(u)
      /\ UNCHANGED <<layer, chosen, pending, reserved, served, view, guarded, failures>>
  BY CommitType DEF DeleteCommit, Ready
<1>3. group' \in [Groups -> Group]
  BY <1>2, AbsentType DEF Inv, TypeOK
<1>4. txn' \in [Users -> Txn \cup {None}] /\ CodesAreOwned'
  BY <1>2, CloseTxn DEF CodesAreOwned, Exists, Absent, Inv, TypeOK
<1> QED BY <1>2, <1>3, <1>4 DEF Inv, TypeOK, ServedByOwner

LEMMA AbortInv ==
    ASSUME Inv, NEW u \in Users, Abort(u)
    PROVE  Inv'
<1>1. failures' \in 0 .. MaxFailures
  BY ConstantsAssumption DEF Inv, TypeOK, Abort
<1>2. txn' \in [Users -> Txn \cup {None}] /\ CodesAreOwned'
  BY CloseTxn DEF Abort, CodesAreOwned, Inv, Exists
<1> QED BY <1>1, <1>2 DEF Abort, Inv, TypeOK, ServedByOwner

(* The other actions touch no group, no code and no transaction.           *)
LEMMA OtherInv ==
    ASSUME Inv,
           \/ \E l \in Layers : Build(l)
           \/ \E u \in Users, g \in Groups : Load(u, g)
           \/ \E u \in Users, l \in Layers : Guard(u, l)
           \/ \E u \in Users : DeleteLayer(u)
           \/ UNCHANGED vars
    PROVE  Inv'
<1>1. UNCHANGED <<group, chosen, pending, reserved, served, txn, failures, crossed>>
  BY DEF Build, Load, Guard, DeleteLayer, vars
<1>2. layer' \in [Layers -> LayerState]
  BY DEF Build, Load, Guard, DeleteLayer, vars, Inv, TypeOK, LayerState
<1>3. view' \in [Users -> View]
  BY DEF Build, Load, Guard, DeleteLayer, vars, Inv, TypeOK, View, Group
<1>4. guarded' \in [Users -> Layers \cup {None}]
  BY DEF Build, Load, Guard, DeleteLayer, vars, Inv, TypeOK
<1> QED BY <1>1, <1>2, <1>3, <1>4 DEF Inv, TypeOK, CodesAreOwned, ServedByOwner, Exists

-----------------------------------------------------------------------------
(* The invariant is inductive.                                             *)

LEMMA InitInv == Init => Inv
<1> SUFFICES ASSUME Init PROVE Inv
  OBVIOUS
<1>1. group \in [Groups -> Group] /\ served \in [Codes -> Map]
  BY AbsentType, NothingType DEF Init
<1>2. TypeOK
  BY <1>1, ConstantsAssumption DEF Init, TypeOK, LayerState, View, NoView
<1>3. CodesAreOwned
  BY DEF Init, CodesAreOwned, Exists, Absent
<1>4. ServedByOwner
  BY DEF Init, ServedByOwner, Nothing
<1> QED BY <1>2, <1>3, <1>4 DEF Inv

LEMMA NextInv == Inv /\ [Next]_vars => Inv'
BY ConfigureInv, FinalOpenInv, UpdateOpenInv, DeleteOpenInv, CallInv, CallFailsInv, SaveCommitInv,
   DeleteCommitInv, AbortInv, OtherInv DEF Next

LEMMA InvHolds == Spec => []Inv
BY InitInv, NextInv, PTL DEF Spec

(***************************************************************************)
(* Type correctness of rows, reservations, representations and             *)
(* transactions in every interleaving and with every failure.              *)
(***************************************************************************)
THEOREM TypeCorrectness == Spec => []TypeOK
<1>1. Inv => TypeOK
  BY DEF Inv
<1> QED BY <1>1, InvHolds, PTL

(***************************************************************************)
(* The map under a group's code is its own or nothing, for any number of   *)
(* groups, codes and failures and with interleaved transactions as well:   *)
(* a reservation is never given up (catalog.py:333-342 keeps it), so a map *)
(* that outlives its group stays under a code nobody else can get.         *)
(***************************************************************************)
THEOREM PublicationsAreOwn == Spec => []PublicationIsOwn
<1>1. Inv => PublicationIsOwn
  BY DEF Inv, CodesAreOwned, ServedByOwner, PublicationIsOwn
<1> QED BY <1>1, InvHolds, PTL
-----------------------------------------------------------------------------
(* Revisions.  What a transaction saves is newer than what it has read, so *)
(* a row that a commit has replaced never returns, and a transaction that  *)
(* read it can only commit by crossing.                                    *)

\* A save has a new revision, or it fails the group and keeps the members.
SavesForward(t) ==
    /\ t.new.revision >= t.read.revision
    /\ t.new.revision = t.read.revision => t.new.members = t.read.members
    /\ t.new.status # "failed" => t.new.revision > t.read.revision
    /\ t.new.status = "published" => t.new.members # {}

TxnMoves ==
    \A u \in Users : txn[u] # None =>
        /\ txn[u].read.status # "absent"
        /\ txn[u].kind = "delete" => txn[u].new = Absent
        /\ txn[u].kind # "delete" => SavesForward(txn[u])
        /\ txn[u].kind = "update" /\ txn[u].g \notin crossed =>
               view[u].members = txn[u].read.members

\* A group that was there once is never configured again.
ChosenOnce ==
    /\ \A g \in Groups : Exists(g) => chosen[g] # {}
    /\ \A u \in Users :
           /\ view[u].g # None => chosen[view[u].g] # {}
           /\ txn[u] # None => chosen[txn[u].g] # {}

\* A revision stands for the members it was loaded with.
RevisionTells ==
    \A u \in Users : view[u].g # None /\ Exists(view[u].g) /\ view[u].g \notin crossed =>
        /\ view[u].revision <= group[view[u].g].revision
        /\ view[u].revision = group[view[u].g].revision =>
               view[u].members = group[view[u].g].members

RevInv == Inv /\ TxnMoves /\ ChosenOnce /\ RevisionTells

(* The group that is saved: as published, or as failed.                    *)
LEMMA PublishedForward ==
    ASSUME TypeOK, NEW g \in Groups, NEW S \in SUBSET Layers, NEW V \in SUBSET Layers, NEW t,
           t.read = group[g], t.new = Published(g, S, V)
    PROVE  SavesForward(t)
<1>1. group[g] \in Group
  BY DEF TypeOK
<1>2. /\ t.new.revision = group[g].revision + 1
      /\ t.new.status = IF S = {} THEN "draft" ELSE "published"
      /\ t.new.members = S
  BY <1>1 DEF Published, Group
<1>3. group[g].revision \in Nat
  BY <1>1 DEF Group
<1> QED BY <1>2, <1>3 DEF SavesForward

LEMMA FailedForward ==
    ASSUME TypeOK, NEW g \in Groups, NEW t,
           t.read = group[g], t.new = [group[g] EXCEPT !.status = "failed"]
    PROVE  SavesForward(t)
<1>1. group[g] \in Group
  BY DEF TypeOK
<1>2. /\ t.new.revision = group[g].revision /\ t.new.members = group[g].members
      /\ t.new.status = "failed"
  BY <1>1 DEF Group
<1>3. group[g].revision \in Nat
  BY <1>1 DEF Group
<1> QED BY <1>2, <1>3 DEF SavesForward

(* A transaction opens on a group that exists.                             *)
LEMMA OpenRev ==
    ASSUME RevInv, Inv', NEW u \in Users, NEW kind, NEW g \in Groups, NEW new,
           Exists(g), Open(u, kind, g, new),
           kind = "delete" => new = Absent,
           kind # "delete" => SavesForward([kind |-> kind, g |-> g, read |-> group[g],
                                            new |-> new, called |-> FALSE]),
           kind = "update" /\ g \notin crossed => view[u].members = group[g].members,
           UNCHANGED <<group, chosen, view, crossed>>
    PROVE  RevInv'
<1> DEFINE t == [kind |-> kind, g |-> g, read |-> group[g], new |-> new, called |-> FALSE]
<1>1. txn' = [txn EXCEPT ![u] = t] /\ txn \in [Users -> Txn \cup {None}]
  BY DEF Open, RevInv, Inv, TypeOK
<1>2. /\ t.kind = kind /\ t.g = g /\ t.read = group[g] /\ t.new = new
      /\ t.kind # "delete" => SavesForward(t)
  OBVIOUS
<1> HIDE DEF t
<1>3. TxnMoves'
  BY <1>1, <1>2 DEF RevInv, TxnMoves, Exists, SavesForward
<1>4. ChosenOnce' /\ RevisionTells'
  BY <1>1, <1>2 DEF RevInv, ChosenOnce, RevisionTells, Exists
<1> QED BY <1>3, <1>4 DEF RevInv

(* A commit over the row that was read replaces it by what is saved.       *)
LEMMA SavedIsNew ==
    ASSUME RevInv, NEW u \in Users, txn[u] # None, SaveGroup(u), group[txn[u].g] = txn[u].read
    PROVE  group' = [group EXCEPT ![txn[u].g] = txn[u].new]
<1> DEFINE t == txn[u]
           now == group[t.g]
           merged == [t.new EXCEPT !.status = Flushed(t.read.status, t.new.status, now.status),
                                   !.revision = Flushed(t.read.revision, t.new.revision, now.revision)]
<1>1. t.new \in Group /\ t.read = now
  BY DEF RevInv, Inv, TypeOK, Txn
<1>2. merged = t.new
  BY <1>1 DEF Group, Flushed
<1>3. group' = [group EXCEPT ![t.g] = t.new] \/ group' = [group EXCEPT ![t.g] = merged]
  BY DEF SaveGroup
<1> HIDE DEF t, merged
<1>4. group' = [group EXCEPT ![t.g] = t.new]
  BY <1>2, <1>3
<1> QED BY <1>4 DEF t

\* A commit writes the row of its own group only.
LEMMA CommitRow ==
    ASSUME RevInv, NEW u \in Users, UpdateCommit(u) \/ FinalCommit(u) \/ DeleteCommit(u)
    PROVE  /\ txn[u] # None /\ txn[u].called /\ txn[u].g \in Groups /\ Commit(u)
           /\ \A h \in Groups \ {txn[u].g} : group'[h] = group[h]
           /\ txn[u].g \notin crossed' =>
                  group[txn[u].g] = txn[u].read /\ group'[txn[u].g] = txn[u].new
           /\ UNCHANGED <<served, chosen, view, failures>>
<1>1. /\ txn[u] # None /\ txn[u].called /\ Commit(u)
      /\ \/ SaveGroup(u)
         \/ group' = [group EXCEPT ![txn[u].g] = Absent] /\ txn[u].kind = "delete"
      /\ UNCHANGED <<served, chosen, view, failures>>
  BY DEF UpdateCommit, FinalCommit, DeleteCommit, Ready
<1>2. txn[u].g \in Groups /\ group \in [Groups -> Group]
  BY <1>1 DEF RevInv, Inv, TypeOK, Txn
<1>3. \A h \in Groups \ {txn[u].g} : group'[h] = group[h]
  BY <1>1, <1>2 DEF SaveGroup
<1>4. ASSUME txn[u].g \notin crossed'
      PROVE  group[txn[u].g] = txn[u].read /\ group'[txn[u].g] = txn[u].new
  <2>1. group[txn[u].g] = txn[u].read
    BY <1>1, <1>2, <1>4 DEF Commit, RevInv, Inv, TypeOK
  <2>2. group' = [group EXCEPT ![txn[u].g] = txn[u].new]
    BY <1>1, <2>1, SavedIsNew DEF RevInv, TxnMoves
  <2> QED BY <1>2, <2>1, <2>2
<1> QED BY <1>1, <1>2, <1>3, <1>4

LEMMA CommitRev ==
    ASSUME RevInv, Inv', NEW u \in Users, UpdateCommit(u) \/ FinalCommit(u) \/ DeleteCommit(u)
    PROVE  RevInv'
<1> DEFINE k == txn[u].g
<1>1. /\ txn[u] # None /\ k \in Groups /\ Commit(u)
      /\ \A h \in Groups \ {k} : group'[h] = group[h]
      /\ k \notin crossed' => group[k] = txn[u].read /\ group'[k] = txn[u].new
      /\ UNCHANGED <<chosen, view>>
  BY CommitRow
<1>2. txn' = [txn EXCEPT ![u] = None] /\ crossed \subseteq crossed'
  BY <1>1 DEF Commit, Close
<1>3. /\ txn[u].read.status # "absent"
      /\ txn[u].kind = "delete" => txn[u].new = Absent
      /\ txn[u].kind # "delete" => SavesForward(txn[u])
      /\ chosen[k] # {}
  BY <1>1 DEF RevInv, TxnMoves, ChosenOnce
<1>4. TxnMoves'
  BY <1>1, <1>2 DEF RevInv, Inv, TypeOK, TxnMoves, SavesForward
<1>5. ChosenOnce'
  BY <1>1, <1>2, <1>3 DEF RevInv, Inv, TypeOK, ChosenOnce, Exists
<1>6. RevisionTells'
  <2> SUFFICES ASSUME NEW v \in Users, view[v].g # None, group'[view[v].g].status # "absent",
                      view[v].g \notin crossed'
               PROVE  /\ view[v].revision <= group'[view[v].g].revision
                      /\ view[v].revision = group'[view[v].g].revision =>
                             view[v].members = group'[view[v].g].members
    BY <1>1 DEF RevisionTells, Exists
  <2>1. view[v].g \in Groups /\ view[v].revision \in Nat
    BY DEF RevInv, Inv, TypeOK, View
  <2>2. CASE view[v].g # k
    BY <1>1, <1>2, <2>1, <2>2 DEF RevInv, RevisionTells, Exists
  <2>3. CASE view[v].g = k
    <3>1. txn[u].kind # "delete"
      BY <1>1, <1>3, <2>3 DEF Absent
    <3>2. SavesForward(txn[u]) /\ txn[u].read = group[k] /\ Exists(k)
      BY <1>1, <1>3, <2>3, <3>1 DEF Exists
    <3>3. txn[u].read.revision \in Nat /\ txn[u].new.revision \in Nat
      BY <1>1 DEF RevInv, Inv, TypeOK, Txn, Group
    <3>4. /\ view[v].revision <= txn[u].read.revision
          /\ view[v].revision = txn[u].read.revision => view[v].members = txn[u].read.members
      BY <1>2, <2>3, <3>2 DEF RevInv, RevisionTells
    <3> HIDE DEF k
    <3> QED BY <1>1, <2>1, <2>3, <3>2, <3>3, <3>4 DEF SavesForward
  <2> QED BY <2>2, <2>3
<1> QED BY <1>4, <1>5, <1>6 DEF RevInv

\* A call leaves the rows alone, and what it saves still moves forward.
LEMMA CalledRev ==
    ASSUME RevInv, Inv', NEW u \in Users, Calling(u), NEW new \in Group, Called(u, new),
           txn[u].kind = "delete" => new = Absent,
           txn[u].kind # "delete" => SavesForward([txn[u] EXCEPT !.new = new]),
           UNCHANGED <<group, chosen, view, crossed>>
    PROVE  RevInv'
<1>1. txn \in [Users -> Txn \cup {None}] /\ txn[u] # None /\ txn[u] \in Txn
  BY DEF RevInv, Inv, TypeOK, Calling
<1> DEFINE t == [txn[u] EXCEPT !.called = TRUE, !.new = new]
<1>2. t.kind = txn[u].kind /\ t.g = txn[u].g /\ t.read = txn[u].read /\ t.new = new
  BY <1>1 DEF Txn
<1>3. [txn[u] EXCEPT !.new = new].new = new /\ [txn[u] EXCEPT !.new = new].read = txn[u].read
  BY <1>1 DEF Txn
<1>4. txn[u].kind # "delete" => SavesForward(t)
  BY <1>2, <1>3 DEF SavesForward
<1>5. txn' = [txn EXCEPT ![u] = t]
  BY <1>1 DEF Called
<1> HIDE DEF t
<1>6. TxnMoves'
  BY <1>1, <1>2, <1>4, <1>5 DEF RevInv, TxnMoves, SavesForward
<1>7. ChosenOnce' /\ RevisionTells'
  BY <1>1, <1>2, <1>5 DEF RevInv, ChosenOnce, RevisionTells, Exists
<1> QED BY <1>6, <1>7 DEF RevInv

LEMMA CloseRev ==
    ASSUME RevInv, Inv', NEW u \in Users, Close(u), UNCHANGED <<group, chosen, view, crossed>>
    PROVE  RevInv'
<1>1. txn' = [txn EXCEPT ![u] = None] /\ txn \in [Users -> Txn \cup {None}]
  BY DEF Close, RevInv, Inv, TypeOK
<1>2. TxnMoves'
  BY <1>1 DEF RevInv, TxnMoves, SavesForward
<1>3. ChosenOnce' /\ RevisionTells'
  BY <1>1 DEF RevInv, ChosenOnce, RevisionTells, Exists
<1> QED BY <1>2, <1>3 DEF RevInv

LEMMA ConfigureRev ==
    ASSUME RevInv, Inv', NEW g \in Groups, NEW k \in Codes, NEW S \in SUBSET Layers,
           NEW V \in SUBSET Layers, Configure(g, k, S, V)
    PROVE  RevInv'
<1>1. /\ chosen[g] = {} /\ S # {}
      /\ group' = [group EXCEPT ![g] = [status |-> "draft", code |-> k, members |-> S,
                                        visible |-> V, revision |-> 0]]
      /\ chosen' = [chosen EXCEPT ![g] = S]
      /\ UNCHANGED <<txn, view, crossed>>
  BY DEF Configure
<1>2. group \in [Groups -> Group] /\ chosen \in [Groups -> SUBSET Layers] /\ view \in [Users -> View]
      /\ \A u \in Users : txn[u] # None => txn[u].g \in Groups
  BY DEF RevInv, Inv, TypeOK, Txn
<1>3. \A u \in Users : view[u].g # None => view[u].g \in Groups \ {g}
  BY <1>1, <1>2 DEF View, RevInv, ChosenOnce
<1>4. TxnMoves'
  BY <1>1 DEF RevInv, TxnMoves, SavesForward
<1>5. ChosenOnce' /\ RevisionTells'
  BY <1>1, <1>2, <1>3 DEF RevInv, ChosenOnce, RevisionTells, Exists
<1> QED BY <1>4, <1>5 DEF RevInv

LEMMA OpensRev ==
    ASSUME RevInv, Inv', NEW u \in Users,
           \/ \E g \in Groups : FinalOpen(u, g) \/ DeleteOpen(u, g)
           \/ \E S, V \in SUBSET Layers : UpdateOpen(u, S, V)
    PROVE  RevInv'
<1>0. TypeOK
  BY DEF RevInv, Inv
<1>1. ASSUME NEW g \in Groups, FinalOpen(u, g) PROVE RevInv'
  <2> DEFINE new == IF group[g].members \subseteq Built
                    THEN Published(g, group[g].members, group[g].visible)
                    ELSE [group[g] EXCEPT !.status = "failed"]
             t == [kind |-> "final", g |-> g, read |-> group[g], new |-> new, called |-> FALSE]
  <2>1. /\ t.read = group[g] /\ t.new = new
        /\ group[g].members \in SUBSET Layers /\ group[g].visible \in SUBSET Layers
    BY <1>0 DEF TypeOK, Group
  <2>2. Exists(g) /\ Open(u, "final", g, new) /\ UNCHANGED <<group, chosen, view, crossed>>
    BY <1>1 DEF FinalOpen
  <2>3. SavesForward(t)
    <3>1. CASE group[g].members \subseteq Built
      <4> HIDE DEF t
      <4> QED BY <1>0, <2>1, <3>1, PublishedForward
    <3>2. CASE ~(group[g].members \subseteq Built)
      <4> HIDE DEF t
      <4> QED BY <1>0, <2>1, <3>2, FailedForward
    <3> QED BY <3>1, <3>2
  <2> HIDE DEF new
  <2> QED BY <2>2, <2>3, OpenRev
<1>2. ASSUME NEW S \in SUBSET Layers, NEW V \in SUBSET Layers, UpdateOpen(u, S, V) PROVE RevInv'
  <2> DEFINE g == view[u].g
             new == Published(g, S, V)
             t == [kind |-> "update", g |-> g, read |-> group[g], new |-> new, called |-> FALSE]
  <2>1. /\ g \in Groups /\ Exists(g) /\ group[g].revision = view[u].revision
        /\ Open(u, "update", g, new)
        /\ UNCHANGED <<group, chosen, view, crossed>>
    BY <1>0, <1>2 DEF UpdateOpen, TypeOK, View
  <2>2. g \notin crossed => view[u].members = group[g].members
    BY <2>1, ConstantsAssumption DEF RevInv, RevisionTells
  <2>3. SavesForward(t)
    <3>1. t.read = group[g] /\ t.new = Published(g, S, V)
      OBVIOUS
    <3> HIDE DEF t, g
    <3> QED BY <1>0, <2>1, <3>1, PublishedForward
  <2> HIDE DEF new
  <2>4. g = view[u].g
    OBVIOUS
  <2> HIDE DEF g
  <2> QED BY <2>1, <2>2, <2>3, <2>4, OpenRev
<1>3. ASSUME NEW g \in Groups, DeleteOpen(u, g) PROVE RevInv'
  BY <1>3, OpenRev DEF DeleteOpen
<1> QED BY <1>1, <1>2, <1>3

LEMMA CallRev ==
    ASSUME RevInv, Inv', NEW u \in Users, Call(u) \/ CallFails(u)
    PROVE  RevInv'
<1>1. /\ txn[u] \in Txn /\ txn[u] # None /\ Calling(u)
      /\ UNCHANGED <<group, chosen, view, crossed>>
  BY DEF Call, CallFails, Calling, RevInv, Inv, TypeOK
<1>2. txn[u].new \in Group /\ [txn[u] EXCEPT !.new = txn[u].new] = txn[u]
  BY <1>1 DEF Txn
<1>3. /\ txn[u].kind = "delete" => txn[u].new = Absent
      /\ txn[u].kind # "delete" => SavesForward(txn[u])
  BY <1>1 DEF RevInv, TxnMoves
<1>4. CASE Called(u, txn[u].new)
  BY <1>1, <1>2, <1>3, <1>4, CalledRev
<1>5. CASE txn[u].kind = "final" /\ Called(u, [txn[u].new EXCEPT !.status = "failed"])
  <2> DEFINE new == [txn[u].new EXCEPT !.status = "failed"]
  <2>1. new \in Group /\ new.revision = txn[u].new.revision /\ new.members = txn[u].new.members
        /\ new.status = "failed"
    BY <1>2 DEF Group, GroupStatus
  <2>2. Called(u, new)
    BY <1>5
  <2> HIDE DEF new
  <2>3. SavesForward([txn[u] EXCEPT !.new = new])
    <3>1. [txn[u] EXCEPT !.new = new].new = new /\ [txn[u] EXCEPT !.new = new].read = txn[u].read
      BY <1>1 DEF Txn
    <3> QED BY <1>3, <1>5, <2>1, <3>1 DEF SavesForward
  <2> QED BY <1>1, <1>5, <2>1, <2>2, <2>3, CalledRev
<1>6. CASE Close(u)
  BY <1>1, <1>6, CloseRev
<1> QED BY <1>4, <1>5, <1>6 DEF Call, CallFails

\* Loading needs that the user has no transaction open.
LEMMA LoadRev ==
    ASSUME RevInv, Inv', NEW u \in Users, NEW g \in Groups, Load(u, g)
    PROVE  RevInv'
<1>1. /\ Exists(g) /\ txn[u] = None
      /\ view' = [view EXCEPT ![u] = [g |-> g, members |-> group[g].members,
                                      revision |-> group[g].revision]]
      /\ UNCHANGED <<group, chosen, txn, crossed>>
  BY DEF Load, MayOpen
<1>2. view \in [Users -> View] /\ group[g].revision \in Nat
  BY DEF RevInv, Inv, TypeOK, Group
<1>3. TxnMoves'
  BY <1>1, <1>2 DEF RevInv, TxnMoves, SavesForward
<1>4. ChosenOnce' /\ RevisionTells'
  BY <1>1, <1>2 DEF RevInv, ChosenOnce, RevisionTells, Exists
<1> QED BY <1>3, <1>4 DEF RevInv

LEMMA RevNext == RevInv /\ [Next]_vars => RevInv'
<1> SUFFICES ASSUME RevInv, [Next]_vars PROVE RevInv'
  OBVIOUS
<1>0. Inv'
  BY NextInv DEF RevInv
<1>1. ASSUME \/ \E l \in Layers : Build(l)
             \/ \E u \in Users, l \in Layers : Guard(u, l)
             \/ \E u \in Users : DeleteLayer(u)
             \/ UNCHANGED vars
      PROVE  RevInv'
  <2>1. UNCHANGED <<group, chosen, txn, view, crossed>>
    BY <1>1 DEF Build, Guard, DeleteLayer, vars
  <2> QED BY <1>0, <2>1 DEF RevInv, TxnMoves, ChosenOnce, RevisionTells, Exists, SavesForward
<1>2. ASSUME NEW u \in Users, Abort(u) PROVE RevInv'
  BY <1>0, <1>2, CloseRev DEF Abort
<1> QED BY <1>0, <1>1, <1>2, ConfigureRev, OpensRev, CallRev, CommitRev, LoadRev DEF Next

LEMMA RevInvHolds == Spec => []RevInv
<1>1. Init => RevInv
  BY InitInv DEF Init, RevInv, TxnMoves, ChosenOnce, RevisionTells, Exists, Absent, NoView
<1> QED BY <1>1, RevNext, PTL DEF Spec

(***************************************************************************)
(* An update that commits over the row it compared revisions with          *)
(* overwrites the members its user has loaded, for any number of groups,   *)
(* users and failures and in every interleaving: whatever changes the      *)
(* members gives them a revision of their own (map_batches.py:228-243).    *)
(***************************************************************************)
THEOREM RevisionsAreSeen == Spec => RevisionIsSeen
<1> DEFINE Step == \A u \in Users :
               /\ Ready(u, "update") /\ txn'[u] = None /\ group' # group
               /\ txn[u].g \notin crossed'
               => group[txn[u].g].members = view[u].members
<1>1. RevInv /\ [Next]_vars => [Step]_vars
  <2> SUFFICES ASSUME RevInv, Next, NEW u \in Users, Ready(u, "update"), txn'[u] = None,
                      group' # group, txn[u].g \notin crossed'
               PROVE  group[txn[u].g].members = view[u].members
    OBVIOUS
  <2>1. crossed \subseteq crossed'
    BY DEF Next, Configure, Build, FinalOpen, Load, DeleteOpen, UpdateOpen, Call, CallFails,
           UpdateCommit, FinalCommit, DeleteCommit, Abort, Guard, DeleteLayer, Commit
  <2>2. view[u].members = txn[u].read.members
    BY <2>1 DEF RevInv, TxnMoves, Ready
  <2>3. \E v \in Users : UpdateCommit(v) \/ FinalCommit(v) \/ DeleteCommit(v) \/ txn' = txn
                         \/ (\E g \in Groups, k \in Codes, S, V \in SUBSET Layers :
                                 Configure(g, k, S, V))
    BY DEF Next, Build, FinalOpen, Load, DeleteOpen, UpdateOpen, Call, CallFails, Abort, Guard,
           DeleteLayer
  <2>4. UpdateCommit(u) \/ FinalCommit(u) \/ DeleteCommit(u)
    BY <2>3, ConstantsAssumption DEF Configure, Ready, UpdateCommit, FinalCommit, DeleteCommit, Commit, Close,
       RevInv, Inv, TypeOK
  <2> QED BY <2>2, <2>4, CommitRow
<1> QED BY <1>1, RevInvHolds, PTL DEF Spec, RevisionIsSeen
-----------------------------------------------------------------------------
(* The maps.  As long as nothing failed, every transaction on a group ends *)
(* with a commit; what it has put under the code is then what its row      *)
(* says, unless another transaction on the group is still open.            *)

\* Rows grow older: with the revision, by failing, and by deletion.
Age(r) ==
    IF r.status = "absent" THEN 2 * MaxRevision + 2
    ELSE IF r.status = "failed" THEN 2 * r.revision + 1
    ELSE 2 * r.revision

Follows(new, old) == Age(new) >= Age(old) /\ (Age(new) = Age(old) => new = old)

AgesGrow ==
    \A u \in Users : txn[u] # None =>
        /\ Follows(txn[u].new, txn[u].read)
        /\ txn[u].g \notin crossed => Follows(group[txn[u].g], txn[u].read)

\* The map of a transaction is there, or one that will change the row is open.
CallIsServed ==
    \A u \in Users :
        /\ txn[u] # None /\ txn[u].called
        /\ txn[u].new.status = "published" /\ txn[u].new.visible # {}
        /\ txn[u].g \notin crossed /\ group[txn[u].g] = txn[u].read
        => \/ served[txn[u].read.code] = [by |-> txn[u].g, shows |-> txn[u].new.visible]
           \/ \E v \in Users \ {u} :
                  txn[v] # None /\ txn[v].g = txn[u].g /\ txn[v].new # txn[v].read

MapInv == RevInv /\ (failures = 0 => AgesGrow /\ CallIsServed) /\ MapShowsRows

LEMMA AgeType == \A r \in Group : Age(r) \in Nat /\ Age(r) <= Age(Absent)
BY ConstantsAssumption DEF Age, Group, Absent

LEMMA FollowsTrans ==
    ASSUME NEW a \in Group, NEW b \in Group, NEW c \in Group, Follows(a, b), Follows(b, c)
    PROVE  Follows(a, c) /\ (a # b => a # c)
BY AgeType DEF Follows

(* What is saved follows what was read.                                    *)
LEMMA PublishedFollows ==
    ASSUME TypeOK, NEW g \in Groups, NEW S \in SUBSET Layers, NEW V \in SUBSET Layers, Exists(g)
    PROVE  Follows(Published(g, S, V), group[g])
<1>1. group[g] \in Group
  BY DEF TypeOK
<1>2. /\ Published(g, S, V).revision = group[g].revision + 1
      /\ Published(g, S, V).status = IF S = {} THEN "draft" ELSE "published"
  BY <1>1 DEF Published, Group
<1>3. group[g].revision \in Nat /\ group[g].status # "absent"
  BY <1>1 DEF Group, Exists
<1>4. Age(Published(g, S, V)) = 2 * (group[g].revision + 1)
  BY <1>2 DEF Age
<1>5. Age(group[g]) \in {2 * group[g].revision, 2 * group[g].revision + 1}
  BY <1>3 DEF Age
<1>6. Age(Published(g, S, V)) > Age(group[g]) /\ Age(group[g]) \in Nat /\ Age(Published(g, S, V)) \in Nat
  BY <1>3, <1>4, <1>5
<1> QED BY <1>6 DEF Follows

LEMMA FailedFollows ==
    ASSUME TypeOK, NEW g \in Groups, Exists(g),
           NEW new, new = [group[g] EXCEPT !.status = "failed"]
    PROVE  Follows(new, group[g])
<1>1. group[g] \in Group
  BY DEF TypeOK
<1>2. /\ new.revision = group[g].revision /\ new.status = "failed"
      /\ group[g].status = "failed" => new = group[g]
  BY <1>1 DEF Group
<1>3. group[g].revision \in Nat /\ group[g].status # "absent"
  BY <1>1 DEF Group, Exists
<1>4. Age(new) = 2 * group[g].revision + 1
  BY <1>2, <1>3 DEF Age
<1>5. CASE group[g].status = "failed"
  BY <1>2, <1>3, <1>4, <1>5 DEF Follows
<1>6. CASE group[g].status # "failed"
  <2>1. Age(group[g]) = 2 * group[g].revision
    BY <1>3, <1>6 DEF Age
  <2>2. Age(new) > Age(group[g])
    BY <1>3, <1>4, <2>1
  <2>3. Age(new) \in Nat /\ Age(group[g]) \in Nat
    BY <1>3, <1>4, <2>1
  <2> QED BY <2>2, <2>3 DEF Follows
<1> QED BY <1>5, <1>6

LEMMA AbsentFollows ==
    ASSUME NEW r \in Group, r.status # "absent"
    PROVE  Follows(Absent, r)
BY ConstantsAssumption DEF Follows, Age, Absent, Group

(* A transaction opens with what it read as the row, and has not called.   *)
LEMMA OpenMap ==
    ASSUME MapInv, RevInv', NEW u \in Users, NEW kind \in {"final", "update", "delete"},
           NEW g \in Groups, NEW new \in Group, Open(u, kind, g, new), Follows(new, group[g]),
           UNCHANGED <<group, served, failures, crossed>>
    PROVE  MapInv'
<1> DEFINE t == [kind |-> kind, g |-> g, read |-> group[g], new |-> new, called |-> FALSE]
<1>1. txn' = [txn EXCEPT ![u] = t] /\ txn \in [Users -> Txn \cup {None}] /\ txn[u] = None
  BY DEF Open, MayOpen, MapInv, RevInv, Inv, TypeOK
<1>2. /\ t.kind = kind /\ t.g = g /\ t.read = group[g] /\ t.new = new /\ ~t.called
      /\ None # t
  <2>1. t \in Txn
    BY DEF MapInv, RevInv, Inv, TypeOK, Txn
  <2> QED BY <2>1, NoneAssumption
<1> HIDE DEF t
<1>3. Follows(group[g], group[g])
  BY AgeType DEF Follows, MapInv, RevInv, Inv, TypeOK
<1>4. failures' = 0 => AgesGrow'
  BY <1>1, <1>2, <1>3 DEF MapInv, AgesGrow, Follows, Age
<1>5. failures' = 0 => CallIsServed'
  BY <1>1, <1>2 DEF MapInv, CallIsServed
<1>6. MapShowsRows'
  BY <1>1, <1>2 DEF MapInv, MapShowsRows
<1> QED BY <1>4, <1>5, <1>6 DEF MapInv

LEMMA OpensMap ==
    ASSUME MapInv, RevInv', NEW u \in Users,
           \/ \E g \in Groups : FinalOpen(u, g) \/ DeleteOpen(u, g)
           \/ \E S, V \in SUBSET Layers : UpdateOpen(u, S, V)
    PROVE  MapInv'
<1>0. TypeOK
  BY DEF MapInv, RevInv, Inv
<1>1. ASSUME NEW g \in Groups, FinalOpen(u, g) PROVE MapInv'
  <2> DEFINE new == IF group[g].members \subseteq Built
                    THEN Published(g, group[g].members, group[g].visible)
                    ELSE [group[g] EXCEPT !.status = "failed"]
  <2>1. group[g].members \in SUBSET Layers /\ group[g].visible \in SUBSET Layers
    BY <1>0 DEF TypeOK, Group
  <2>2. Exists(g) /\ Open(u, "final", g, new) /\ UNCHANGED <<group, served, failures, crossed>>
    BY <1>1 DEF FinalOpen
  <2>3. Follows(new, group[g])
    BY <1>0, <2>1, <2>2, PublishedFollows, FailedFollows
  <2>4. group[g] \in Group /\ group[g].revision < MaxRevision
    BY <1>0, <1>1 DEF FinalOpen, TypeOK
  <2>5. Published(g, group[g].members, group[g].visible) \in Group
    BY <1>0, <2>1, <2>4, PublishedType
  <2>6. [group[g] EXCEPT !.status = "failed"] \in Group
    BY <2>4 DEF Group, GroupStatus
  <2>7. new \in Group
    BY <2>5, <2>6
  <2> HIDE DEF new
  <2> QED BY <2>2, <2>3, <2>7, OpenMap
<1>2. ASSUME NEW S \in SUBSET Layers, NEW V \in SUBSET Layers, UpdateOpen(u, S, V) PROVE MapInv'
  <2> DEFINE g == view[u].g
             new == Published(g, S, V)
  <2>1. /\ g \in Groups /\ Exists(g) /\ Open(u, "update", g, new)
        /\ UNCHANGED <<group, served, failures, crossed>>
    BY <1>0, <1>2 DEF UpdateOpen, TypeOK, View
  <2>2. Follows(new, group[g]) /\ group[g].revision < MaxRevision
    BY <1>0, <1>2, <2>1, PublishedFollows DEF UpdateOpen
  <2>3. new \in Group
    BY <1>0, <2>1, <2>2, PublishedType
  <2> HIDE DEF g, new
  <2> QED BY <2>1, <2>2, <2>3, OpenMap
<1>3. ASSUME NEW g \in Groups, DeleteOpen(u, g) PROVE MapInv'
  <2>1. Follows(Absent, group[g])
    BY <1>0, <1>3, AbsentFollows DEF DeleteOpen, Exists, TypeOK
  <2> QED BY <1>3, <2>1, AbsentType, OpenMap DEF DeleteOpen
<1> QED BY <1>1, <1>2, <1>3

\* A call that reaches GeoServer belongs to a transaction that changes the row.
LEMMA ReachChanges ==
    ASSUME RevInv, NEW u \in Users, txn[u] # None, Reaches(txn[u])
    PROVE  txn[u].new # txn[u].read
<1>1. txn[u].read \in Group /\ txn[u].new \in Group
  BY DEF RevInv, Inv, TypeOK, Txn
<1> QED BY <1>1 DEF RevInv, TxnMoves, SavesForward, Absent, Reaches, Group

LEMMA CallMap ==
    ASSUME MapInv, RevInv', NEW u \in Users, Call(u)
    PROVE  MapInv'
<1>1. /\ txn[u] \in Txn /\ txn[u] # None /\ ~txn[u].called /\ Called(u, txn[u].new)
      /\ served' = IF Reaches(txn[u]) THEN Applied(txn[u]) ELSE served
      /\ UNCHANGED <<group, failures, crossed, reserved>>
  BY DEF Call, Calling, MapInv, RevInv, Inv, TypeOK
<1> DEFINE t == [txn[u] EXCEPT !.called = TRUE, !.new = txn[u].new]
<1>2. t.kind = txn[u].kind /\ t.g = txn[u].g /\ t.read = txn[u].read /\ t.new = txn[u].new
      /\ t \in Txn
  BY <1>1 DEF Txn
<1>3. txn' = [txn EXCEPT ![u] = t] /\ txn \in [Users -> Txn \cup {None}] /\ t # None
  BY <1>1, <1>2, NoneAssumption DEF Called, MapInv, RevInv, Inv, TypeOK
<1> HIDE DEF t
<1>4. /\ txn[u].read.code \in Codes /\ reserved[txn[u].read.code] = txn[u].g
      /\ served \in [Codes -> Map]
  BY <1>1 DEF MapInv, RevInv, Inv, CodesAreOwned, TypeOK
<1>5. Reaches(txn[u]) => txn[u].new # txn[u].read
  BY <1>1, ReachChanges DEF MapInv
<1>6. \A k \in Codes : reserved[k] # txn[u].g => served'[k] = served[k]
  BY <1>1, <1>4 DEF Applied
<1>7. ASSUME txn[u].new.status = "published", txn[u].new.visible # {}
      PROVE  served'[txn[u].read.code] = [by |-> txn[u].g, shows |-> txn[u].new.visible]
  <2>1. txn[u].kind # "delete"
    BY <1>1, <1>7 DEF MapInv, RevInv, TxnMoves, Absent
  <2>2. txn[u].new.members # {} /\ Reaches(txn[u]) /\ ~Removes(txn[u])
    BY <1>1, <1>7, <2>1 DEF MapInv, RevInv, TxnMoves, SavesForward, Reaches, Removes
  <2> QED BY <1>1, <1>4, <2>2 DEF Applied
<1>8. failures' = 0 => AgesGrow'
  BY <1>1, <1>2, <1>3 DEF MapInv, AgesGrow, Follows, Age
<1>9. failures' = 0 => CallIsServed'
  <2> SUFFICES ASSUME failures = 0, NEW v \in Users, txn'[v] # None, txn'[v].called,
                      txn'[v].new.status = "published", txn'[v].new.visible # {},
                      txn'[v].g \notin crossed, group[txn'[v].g] = txn'[v].read
               PROVE  \/ served'[txn'[v].read.code] = [by |-> txn'[v].g, shows |-> txn'[v].new.visible]
                      \/ \E w \in Users \ {v} :
                             txn'[w] # None /\ txn'[w].g = txn'[v].g /\ txn'[w].new # txn'[w].read
    BY <1>1 DEF CallIsServed
  <2>1. CASE v = u
    BY <1>2, <1>3, <1>7, <2>1
  <2>2. CASE v # u
    <3>1. txn'[v] = txn[v] /\ txn[v].read.code \in Codes /\ reserved[txn[v].read.code] = txn[v].g
      BY <1>3, <2>2 DEF MapInv, RevInv, Inv, CodesAreOwned
    <3>2. \/ served[txn[v].read.code] = [by |-> txn[v].g, shows |-> txn[v].new.visible]
          \/ \E w \in Users \ {v} :
                 txn[w] # None /\ txn[w].g = txn[v].g /\ txn[w].new # txn[w].read
      BY <3>1 DEF MapInv, CallIsServed
    <3>3. CASE \E w \in Users \ {v} :
                   txn[w] # None /\ txn[w].g = txn[v].g /\ txn[w].new # txn[w].read
      <4>1. PICK w \in Users \ {v} :
                   txn[w] # None /\ txn[w].g = txn[v].g /\ txn[w].new # txn[w].read
        BY <3>3
      <4>2. txn'[w] # None /\ txn'[w].g = txn'[v].g /\ txn'[w].new # txn'[w].read
        BY <1>2, <1>3, <3>1, <4>1
      <4> QED BY <4>2
    <3>4. CASE served[txn[v].read.code] = [by |-> txn[v].g, shows |-> txn[v].new.visible]
      <4>1. CASE Reaches(txn[u]) /\ txn[v].g = txn[u].g
        <5>1. txn'[u] # None /\ txn'[u].g = txn'[v].g /\ txn'[u].new # txn'[u].read
          BY <1>2, <1>3, <1>5, <3>1, <4>1
        <5> QED BY <2>2, <5>1
      <4>2. CASE ~Reaches(txn[u]) \/ txn[v].g # txn[u].g
        BY <1>1, <1>6, <3>1, <3>4, <4>2
      <4> QED BY <4>1, <4>2
    <3> QED BY <3>2, <3>3, <3>4
  <2> QED BY <2>1, <2>2
<1>10. MapShowsRows'
  <2> SUFFICES ASSUME failures = 0, NEW h \in Groups \ crossed, group[h].status = "published",
                      group[h].visible # {}, \A v \in Users : ~(txn'[v] # None /\ txn'[v].g = h)
               PROVE  served'[group[h].code] = [by |-> h, shows |-> group[h].visible]
    BY <1>1 DEF MapShowsRows
  <2>1. h # txn[u].g /\ \A v \in Users : ~(txn[v] # None /\ txn[v].g = h)
    BY <1>2, <1>3
  <2>2. served[group[h].code] = [by |-> h, shows |-> group[h].visible]
    BY <2>1 DEF MapInv, MapShowsRows
  <2>3. group[h].code \in Codes /\ reserved[group[h].code] = h
    BY DEF MapInv, RevInv, Inv, CodesAreOwned, Exists
  <2> QED BY <1>6, <2>1, <2>2, <2>3
<1> QED BY <1>8, <1>9, <1>10 DEF MapInv

LEMMA CommitMap ==
    ASSUME MapInv, RevInv', NEW u \in Users, UpdateCommit(u) \/ FinalCommit(u) \/ DeleteCommit(u)
    PROVE  MapInv'
<1> DEFINE k == txn[u].g
<1>1. /\ txn[u] # None /\ txn[u].called /\ k \in Groups /\ Commit(u)
      /\ \A h \in Groups \ {k} : group'[h] = group[h]
      /\ k \notin crossed' => group[k] = txn[u].read /\ group'[k] = txn[u].new
      /\ UNCHANGED <<served, failures>>
  BY CommitRow DEF MapInv
<1>2. /\ txn' = [txn EXCEPT ![u] = None] /\ txn \in [Users -> Txn \cup {None}]
      /\ crossed \subseteq crossed'
  BY <1>1 DEF Commit, Close, MapInv, RevInv, Inv, TypeOK
<1>3. /\ \A v \in Users : txn[v] # None =>
             txn[v].g \in Groups /\ txn[v].read \in Group /\ txn[v].new \in Group
      /\ \A h \in Groups : group[h] \in Group
  BY DEF MapInv, RevInv, Inv, TypeOK, Txn
<1>4. \A v \in Users : txn'[v] # None => v # u /\ txn'[v] = txn[v] /\ txn[v] # None
  BY <1>2
<1> HIDE DEF k
<1>5. ASSUME failures = 0, k \notin crossed'
      PROVE  Follows(txn[u].new, group[k])
  BY <1>1, <1>5 DEF MapInv, AgesGrow
<1>6. failures' = 0 => AgesGrow'
  <2> SUFFICES ASSUME failures = 0, NEW v \in Users, txn'[v] # None, txn'[v].g \notin crossed'
               PROVE  Follows(group'[txn'[v].g], txn'[v].read)
    BY <1>1, <1>4 DEF AgesGrow, MapInv, Follows, Age
  <2>1. v # u /\ txn'[v] = txn[v] /\ txn[v].g \notin crossed /\ txn[v].g \in Groups
        /\ Follows(group[txn[v].g], txn[v].read)
    BY <1>2, <1>3, <1>4 DEF MapInv, AgesGrow
  <2>2. CASE txn[v].g # k
    BY <1>1, <2>1, <2>2
  <2>3. CASE txn[v].g = k
    BY <1>1, <1>3, <1>4, <1>5, <2>1, <2>3, FollowsTrans
  <2> QED BY <2>2, <2>3
<1>7. failures' = 0 => CallIsServed'
  <2> SUFFICES ASSUME failures = 0, NEW v \in Users, txn'[v] # None, txn'[v].called,
                      txn'[v].new.status = "published", txn'[v].new.visible # {},
                      txn'[v].g \notin crossed', group'[txn'[v].g] = txn'[v].read
               PROVE  \/ served[txn'[v].read.code] = [by |-> txn'[v].g, shows |-> txn'[v].new.visible]
                      \/ \E w \in Users \ {v} :
                             txn'[w] # None /\ txn'[w].g = txn'[v].g /\ txn'[w].new # txn'[w].read
    BY <1>1 DEF CallIsServed
  <2>1. v # u /\ txn'[v] = txn[v] /\ txn[v] # None /\ txn[v].g \notin crossed /\ txn[v].g \in Groups
    BY <1>2, <1>3, <1>4
  <2>2. group[txn[v].g] = txn[v].read /\ (txn[v].g = k => txn[u].new = txn[u].read)
    <3>1. CASE txn[v].g # k
      BY <1>1, <2>1, <3>1
    <3>2. CASE txn[v].g = k
      <4>1. Follows(group[k], txn[v].read) /\ Follows(txn[u].new, group[k])
            /\ group[k] = txn[u].read /\ group'[k] = txn[u].new
        BY <1>1, <1>5, <2>1, <3>2 DEF MapInv, AgesGrow
      <4>2. txn[u].new = txn[v].read
        BY <2>1, <3>2, <4>1
      <4>3. txn[u].new = group[k]
        BY <1>1, <1>3, <2>1, <4>1, <4>2, FollowsTrans
      <4> QED BY <3>2, <4>1, <4>2, <4>3
    <3> QED BY <3>1, <3>2
  <2>3. \/ served[txn[v].read.code] = [by |-> txn[v].g, shows |-> txn[v].new.visible]
        \/ \E w \in Users \ {v} :
               txn[w] # None /\ txn[w].g = txn[v].g /\ txn[w].new # txn[w].read
    BY <2>1, <2>2 DEF MapInv, CallIsServed
  <2>4. ASSUME NEW w \in Users \ {v}, txn[w] # None, txn[w].g = txn[v].g, txn[w].new # txn[w].read
        PROVE  txn'[w] # None /\ txn'[w].g = txn'[v].g /\ txn'[w].new # txn'[w].read
    <3>1. w # u
      BY <2>2, <2>4 DEF k
    <3> QED BY <1>2, <2>1, <2>4, <3>1
  <2> QED BY <2>1, <2>3, <2>4
<1>8. MapShowsRows'
  <2> SUFFICES ASSUME failures = 0, NEW h \in Groups \ crossed', group'[h].status = "published",
                      group'[h].visible # {}, \A v \in Users : ~(txn'[v] # None /\ txn'[v].g = h)
               PROVE  served[group'[h].code] = [by |-> h, shows |-> group'[h].visible]
    BY <1>1 DEF MapShowsRows
  <2>1. CASE h # k
    <3>1. \A v \in Users : ~(txn[v] # None /\ txn[v].g = h)
      BY <1>2, <2>1 DEF k
    <3> QED BY <1>1, <1>2, <2>1, <3>1 DEF MapInv, MapShowsRows
  <2>2. CASE h = k
    <3>1. group[k] = txn[u].read /\ group'[k] = txn[u].new
      BY <1>1, <2>2
    <3>2. txn[u].kind # "delete"
      BY <1>1, <2>2, <3>1 DEF MapInv, RevInv, TxnMoves, Absent
    <3>3. txn[u].new.code = txn[u].read.code
      BY <1>1, <3>2 DEF MapInv, RevInv, Inv, CodesAreOwned
    <3>4. ~\E v \in Users \ {u} :
              txn[v] # None /\ txn[v].g = txn[u].g /\ txn[v].new # txn[v].read
      BY <1>2, <2>2 DEF k
    <3>5. served[txn[u].read.code] = [by |-> txn[u].g, shows |-> txn[u].new.visible]
      BY <1>1, <1>2, <2>2, <3>1, <3>4 DEF MapInv, CallIsServed, k
    <3> QED BY <2>2, <3>1, <3>3, <3>5 DEF k
  <2> QED BY <2>1, <2>2
<1> QED BY <1>1, <1>6, <1>7, <1>8 DEF MapInv

LEMMA ConfigureMap ==
    ASSUME MapInv, RevInv', NEW g \in Groups, NEW k \in Codes, NEW S \in SUBSET Layers,
           NEW V \in SUBSET Layers, Configure(g, k, S, V)
    PROVE  MapInv'
<1>1. /\ chosen[g] = {}
      /\ group' = [group EXCEPT ![g] = [status |-> "draft", code |-> k, members |-> S,
                                        visible |-> V, revision |-> 0]]
      /\ UNCHANGED <<txn, served, failures, crossed>>
  BY DEF Configure
<1>2. group \in [Groups -> Group]
      /\ \A u \in Users : txn[u] # None => txn[u].g \in Groups \ {g}
  BY <1>1 DEF MapInv, RevInv, Inv, TypeOK, Txn, ChosenOnce
<1>3. \A h \in Groups \ {g} : group'[h] = group[h]
  BY <1>1, <1>2
<1>4. failures' = 0 => AgesGrow' /\ CallIsServed'
  BY <1>1, <1>2, <1>3 DEF MapInv, AgesGrow, CallIsServed, Follows, Age
<1>5. MapShowsRows'
  BY <1>1, <1>2 DEF MapInv, MapShowsRows
<1> QED BY <1>4, <1>5 DEF MapInv

LEMMA MapNext == MapInv /\ [Next]_vars => MapInv'
<1> SUFFICES ASSUME MapInv, [Next]_vars PROVE MapInv'
  OBVIOUS
<1>0. RevInv'
  BY RevNext DEF MapInv
<1>1. ASSUME \/ \E l \in Layers : Build(l)
             \/ \E u \in Users, g \in Groups : Load(u, g)
             \/ \E u \in Users, l \in Layers : Guard(u, l)
             \/ \E u \in Users : DeleteLayer(u)
             \/ UNCHANGED vars
      PROVE  MapInv'
  <2>1. UNCHANGED <<group, served, txn, failures, crossed>>
    BY <1>1 DEF Build, Load, Guard, DeleteLayer, vars
  <2> QED BY <1>0, <2>1 DEF MapInv, AgesGrow, CallIsServed, MapShowsRows, Follows, Age
<1>2. ASSUME NEW u \in Users, CallFails(u) \/ Abort(u) PROVE MapInv'
  <2>1. failures' # 0
    BY <1>2, ConstantsAssumption DEF CallFails, Abort, MapInv, RevInv, Inv, TypeOK
  <2> QED BY <1>0, <2>1 DEF MapInv, MapShowsRows
<1> QED BY <1>0, <1>1, <1>2, ConfigureMap, OpensMap, CallMap, CommitMap DEF Next

(***************************************************************************)
(* As long as no call or commit failed, a published group is served with   *)
(* its visible members, for any number of groups, users and revisions,     *)
(* although GeoServer is called before the commit and by transactions that *)
(* interleave: of two updates of one group the later commit crosses the    *)
(* earlier one, and a group without a crossing has the map of its row.     *)
(***************************************************************************)
THEOREM MapsShowTheirRows == Spec => []MapShowsRows
<1>1. Init => MapInv
  BY InitInv DEF Init, MapInv, RevInv, TxnMoves, ChosenOnce, RevisionTells, AgesGrow,
                 CallIsServed, MapShowsRows, Exists, Absent, NoView
<1>2. MapInv => MapShowsRows
  BY DEF MapInv
<1> QED BY <1>1, <1>2, MapNext, PTL DEF Spec
=============================================================================
