---------------------------- MODULE MainlineTopo ----------------------------
(***************************************************************************)
(* The mainline instance topology engine of the core service               *)
(* (source_controller/coreservice/core/mainline/manager.go): one request   *)
(* builds the tree of one business from the flat set, module and generic   *)
(* instance documents of the store.                                        *)
(*                                                                         *)
(* The engine is a single goroutine; a state of this module is the         *)
(* InstanceMainline value between two steps of the request.  The store     *)
(* contents are chosen in Init and stay fixed during the build; every      *)
(* store read may fail (StoreMayFail).  Detail payloads are abstracted to  *)
(* "empty" or "doc".  The store returns documents in one fixed order       *)
(* (SetToSeq), which fixes sibling order.                                  *)
(***************************************************************************)
EXTENDS Integers, Sequences, FiniteSets, SequencesExt, Functions, TLC

CONSTANTS
    BKInnerObjIDApp, BKInnerObjIDSet, BKInnerObjIDModule, \* built-in models
    Customs,            \* object ids of custom mainline models
    ModelTree,          \* the mainline model tree [obj, children]
    BizID,              \* the requested business id
    SetIds, ModuleIds, InstIds,  \* ids the set, module and inst tables may hold
    ParentIds,          \* values a bk_parent_id field may hold
    SetDefaults,        \* values the default field of a set row may hold
    MaxInstDocs,        \* bound on the number of generic instance documents
    StoreMayFail,       \* whether a store read may return an error
    NoField,            \* a document without a bk_parent_id field
    NoType,             \* the zero value "" read from objectParentMap
    Absent,             \* no document with this id in the table
    Spine               \* the intended spine, for the properties only

ObjTypes == {BKInnerObjIDApp, BKInnerObjIDSet, BKInnerObjIDModule} \cup Customs
BizKey == <<BKInnerObjIDApp, BizID>>

VARIABLES
    \* the store, fixed for one request
    setTable, moduleTable, instTable, appExists, withDetail,
    \* InstanceMainline fields
    modelIDs, objectParentMap,
    setInstances, moduleInstances, mainlineInstances,
    instanceMap, allTopoInstances,
    nodes, topoInstanceNodeMap, root,
    \* control: the step of the request, loop indices, the error returned
    pc, fillIdx, fillLen, cIdx, errKind

store == <<setTable, moduleTable, instTable, appExists, withDetail>>
vars == <<store, modelIDs, objectParentMap, setInstances, moduleInstances,
          mainlineInstances, instanceMap, allTopoInstances, nodes,
          topoInstanceNodeMap, root, pc, fillIdx, fillLen, cIdx, errKind>>

SetDoc == [parent : ParentIds, default : SetDefaults]
InstDoc == [obj : Customs, id : InstIds, parent : ParentIds \cup {NoField},
            label : BOOLEAN]
TopoInstance == [obj : ObjTypes \cup {NoType}, id : Nat, parent : Nat,
                 default : {0, 1}, detail : {"empty", "doc"}]
Key(t) == <<t.obj, t.id>>

(***************************************************************************)
(* Model spine resolution: TopoModelNode.LeftestObjectIDList and           *)
(* InstanceMainline.LoadModelParentMap.                                    *)
(***************************************************************************)
RECURSIVE LeftestObjectIDList(_)
LeftestObjectIDList(node) ==
    IF node.children = <<>> THEN <<node.obj>>
    ELSE <<node.obj>> \o LeftestObjectIDList(node.children[1])

\* mutant: the map pairs each model with its child instead of its parent
LoadModelParentMapReversed(ids) ==
    [o \in {ids[i] : i \in 1..Len(ids) - 1} |->
        ids[(CHOOSE i \in 1..Len(ids) - 1 : ids[i] = o) + 1]]

\* objectParentMap[modelIDs[idx]] = modelIDs[idx-1] for idx >= 1; a later
\* index overwrites an earlier one
LoadModelParentMap(ids) ==
    LET last(o) == CHOOSE i \in 2..Len(ids) :
                       ids[i] = o /\ \A j \in 2..Len(ids) : ids[j] = o => j <= i
    IN  [o \in {ids[i] : i \in 2..Len(ids)} |-> ids[last(o) - 1]]

\* a missing key of objectParentMap reads as the zero value ""
ParentType(o) ==
    IF o \in DOMAIN objectParentMap THEN objectParentMap[o] ELSE NoType

(***************************************************************************)
(* Init: the store holds any documents of the bounded universe; the       *)
(* engine is NewInstanceMainline after SetModelTree and LoadModelParentMap *)
(* (the request performs them before any store read).                      *)
(***************************************************************************)
InstTables == UNION {{Range(f) : f \in [1..k -> InstDoc]} : k \in 0..MaxInstDocs}

Init ==
    /\ setTable \in [SetIds -> SetDoc \cup {Absent}]
    /\ moduleTable \in [ModuleIds -> ParentIds \cup {Absent}]
    /\ instTable \in InstTables
    /\ appExists \in BOOLEAN
    /\ withDetail \in BOOLEAN
    /\ modelIDs = LeftestObjectIDList(ModelTree)
    /\ objectParentMap = LoadModelParentMap(LeftestObjectIDList(ModelTree))
    /\ setInstances = <<>>
    /\ moduleInstances = <<>>
    /\ mainlineInstances = <<>>
    /\ instanceMap = <<>>
    /\ allTopoInstances = <<>>
    /\ nodes = <<>>
    /\ topoInstanceNodeMap = <<>>
    /\ root = 0
    /\ pc = "loadSet"
    /\ fillIdx = 1 /\ fillLen = 0 /\ cIdx = 1
    /\ errKind = "none"

\* every step of the request returns on its first error
Fail(kind) ==
    /\ pc' = "error"
    /\ errKind' = kind
    /\ UNCHANGED <<store, modelIDs, objectParentMap, setInstances,
                   moduleInstances, mainlineInstances, instanceMap,
                   allTopoInstances, nodes, topoInstanceNodeMap, root,
                   fillIdx, fillLen, cIdx>>

StoreError == StoreMayFail /\ Fail("store")

(***************************************************************************)
(* The three loaders: Find(...).All on cc_SetBase, cc_ModuleBase (by      *)
(* bk_biz_id) and cc_ObjectBase (by metadata.label.bk_biz_id and bk_obj_id *)
(* in modelIDs).  The set and module tables hold this business's rows.     *)
(***************************************************************************)
LoadSetInstances ==
    /\ pc = "loadSet"
    /\ \/ StoreError
       \/ /\ setInstances' = SetToSeq({[id |-> i] @@ setTable[i] :
                                       i \in {j \in SetIds : setTable[j] # Absent}})
          /\ pc' = "loadModule"
          /\ UNCHANGED <<store, modelIDs, objectParentMap, moduleInstances,
                         mainlineInstances, instanceMap, allTopoInstances, nodes,
                         topoInstanceNodeMap, root, fillIdx, fillLen, cIdx, errKind>>

LoadModuleInstances ==
    /\ pc = "loadModule"
    /\ \/ StoreError
       \/ /\ moduleInstances' = SetToSeq({[id |-> i, parent |-> moduleTable[i]] :
                                          i \in {j \in ModuleIds : moduleTable[j] # Absent}})
          /\ pc' = "loadMainline"
          /\ UNCHANGED <<store, modelIDs, objectParentMap, setInstances,
                         mainlineInstances, instanceMap, allTopoInstances, nodes,
                         topoInstanceNodeMap, root, fillIdx, fillLen, cIdx, errKind>>

\* mutant: the metadata.label.bk_biz_id condition is left out
InMainlineCondUnlabelled(d) == d.obj \in Range(modelIDs)

\* metadata.label.bk_biz_id = bizID and bk_obj_id in modelIDs
InMainlineCond(d) == d.label /\ d.obj \in Range(modelIDs)

LoadMainlineInstances ==
    /\ pc = "loadMainline"
    /\ \/ StoreError
       \/ /\ mainlineInstances' =
                SetToSeq({d \in instTable : InMainlineCond(d)})
          /\ pc' = "bizTopo"
          /\ UNCHANGED <<store, modelIDs, objectParentMap, setInstances,
                         moduleInstances, instanceMap, allTopoInstances, nodes,
                         topoInstanceNodeMap, root, fillIdx, fillLen, cIdx, errKind>>

(***************************************************************************)
(* Normalisation: ConstructBizTopoInstance and the Organize*Instance      *)
(* loops append one TopoInstance per document to allTopoInstances and      *)
(* index it in instanceMap (a later document with the same key wins).      *)
(***************************************************************************)
DetailOf == IF withDetail THEN "doc" ELSE "empty"

PutAll(m, ts) == FoldLeft(LAMBDA acc, t : (Key(t) :> t) @@ acc, m, ts)

Organize(ts, next) ==
    /\ allTopoInstances' = allTopoInstances \o ts
    /\ instanceMap' = PutAll(instanceMap, ts)
    /\ pc' = next
    /\ UNCHANGED <<store, modelIDs, objectParentMap, setInstances,
                   moduleInstances, mainlineInstances, nodes,
                   topoInstanceNodeMap, root, fillIdx, cIdx, errKind>>

ConstructBizTopoInstance ==
    /\ pc = "bizTopo"
    /\ LET biz(detail) == [obj |-> BKInnerObjIDApp, id |-> BizID, parent |-> 0,
                           default |-> 0, detail |-> detail]
       IN \/ ~withDetail /\ Organize(<<biz("empty")>>, "orgSet")
                          /\ UNCHANGED fillLen
          \/ withDetail /\ StoreError
          \/ withDetail /\ ~appExists /\ Fail("bizNotFound")
          \/ withDetail /\ appExists /\ Organize(<<biz("doc")>>, "orgSet")
                                    /\ UNCHANGED fillLen

\* bk_set_id, bk_parent_id and default of a set row are always integers
SetTopoInstance(r) ==
    [obj |-> BKInnerObjIDSet, id |-> r.id, parent |-> r.parent,
     default |-> r.default, detail |-> DetailOf]

OrganizeSetInstance ==
    /\ pc = "orgSet"
    /\ Organize([i \in DOMAIN setInstances |-> SetTopoInstance(setInstances[i])],
                "orgModule")
    /\ UNCHANGED fillLen

OrganizeModuleInstance ==
    /\ pc = "orgModule"
    /\ Organize([i \in DOMAIN moduleInstances |->
                   [obj |-> BKInnerObjIDModule, id |-> moduleInstances[i].id,
                    parent |-> moduleInstances[i].parent,
                    default |-> 0, detail |-> DetailOf]],
                "orgMainline")
    /\ UNCHANGED fillLen

\* a document without bk_parent_id fails GetInt64ByInterface
ParentUnparsable(d) == d.parent = NoField

OrganizeMainlineInstance ==
    /\ pc = "orgMainline"
    /\ \/ /\ \E i \in DOMAIN mainlineInstances : ParentUnparsable(mainlineInstances[i])
          /\ Fail("fieldType")
       \/ /\ \A i \in DOMAIN mainlineInstances : ~ParentUnparsable(mainlineInstances[i])
          \* `range allTopoInstances` in CheckAndFillingMissingModels
          \* evaluates the slice, and so its length, once
          /\ fillLen' = Len(allTopoInstances) + Len(mainlineInstances)
          /\ Organize([i \in DOMAIN mainlineInstances |->
                         [obj |-> mainlineInstances[i].obj,
                          id |-> mainlineInstances[i].id,
                          parent |-> mainlineInstances[i].parent,
                          default |-> 0, detail |-> DetailOf]],
                      "fill")

(***************************************************************************)
(* Gap repair, CheckAndFillingMissingModels: one step per element of the  *)
(* slice as it was when the loop started (indices 1..fillLen).  A missing *)
(* parent is looked up in cc_ObjectBase by bk_inst_id alone.               *)
(***************************************************************************)
FillParentKey(t) ==
    IF t.obj = BKInnerObjIDSet /\ t.default = 1
    THEN <<BKInnerObjIDApp, t.parent>>
    ELSE <<ParentType(t.obj), t.parent>>

\* the idle pool set whose parent is the business itself
IdleSetOfBiz(t) == t.obj = BKInnerObjIDSet /\ t.parent = BizID

\* mutant: a document is taken to have a bk_parent_id field
HasParentFieldAlways(d) == TRUE

HasParentField(d) == d.parent # NoField

\* mutant: the repair lookup also filters by the business label
MissedInstancesLabelled(id) == {d \in instTable : d.id = id /\ d.label}

MissedInstances(id) == {d \in instTable : d.id = id}

FillNext ==
    /\ fillIdx' = fillIdx + 1
    /\ UNCHANGED <<store, modelIDs, objectParentMap, setInstances,
                   moduleInstances, mainlineInstances, nodes,
                   topoInstanceNodeMap, root, pc, fillLen, cIdx, errKind>>

CheckAndFillingMissingModels ==
    /\ pc = "fill"
    /\ fillIdx <= fillLen
    /\ LET t == allTopoInstances[fillIdx]
           ms == MissedInstances(t.parent)
       IN \/ /\ t.parent = 0 \/ FillParentKey(t) \in DOMAIN instanceMap
             /\ UNCHANGED <<instanceMap, allTopoInstances>>
             /\ FillNext
          \/ /\ t.parent # 0 /\ FillParentKey(t) \notin DOMAIN instanceMap
             /\ \/ StoreError
                \/ /\ ms = {} /\ IdleSetOfBiz(t)
                   /\ UNCHANGED <<instanceMap, allTopoInstances>>
                   /\ FillNext
                \/ ms = {} /\ ~IdleSetOfBiz(t) /\ Fail("missingParent")
                \/ Cardinality(ms) > 1 /\ Fail("ambiguousParent")
                \/ \E d \in ms :
                     /\ ms = {d}
                     /\ \/ ~HasParentField(d) /\ IdleSetOfBiz(t)
                           /\ UNCHANGED <<instanceMap, allTopoInstances>>
                           /\ FillNext
                        \/ ~HasParentField(d) /\ ~IdleSetOfBiz(t)
                           /\ Fail("fieldType")
                        \/ HasParentField(d)
                           /\ LET p == [obj |-> d.obj, id |-> d.id,
                                        parent |-> d.parent, default |-> 0,
                                        detail |-> DetailOf]
                              IN /\ allTopoInstances' = Append(allTopoInstances, p)
                                 /\ instanceMap' = (Key(p) :> p) @@ instanceMap
                           /\ FillNext

FillDone ==
    /\ pc = "fill"
    /\ fillIdx > fillLen
    /\ pc' = "construct"
    /\ UNCHANGED <<store, modelIDs, objectParentMap, setInstances,
                   moduleInstances, mainlineInstances, instanceMap,
                   allTopoInstances, nodes, topoInstanceNodeMap, root,
                   fillIdx, fillLen, cIdx, errKind>>

(***************************************************************************)
(* Tree assembly, ConstructInstanceTopoTree: one step per index of the    *)
(* growing slice (`index < len(im.allTopoInstances)` is re-read).  Nodes  *)
(* are TopoInstanceNode pointers, modelled as indices into `nodes`;       *)
(* topoInstanceNodeMap maps a key to a node index.                        *)
(***************************************************************************)
NewNode(t) == [obj |-> t.obj, id |-> t.id, detail |-> t.detail, children |-> <<>>]

\* extract tree root node pointer: a business parent node is the root
RootAfter(ns, p) == IF ns[p].obj = BKInnerObjIDApp THEN p ELSE root

\* Attach t under the node of parentKey pk: the node is reused from
\* topoInstanceNodeMap when fromMemo, else a new node is made from the
\* parent instance pi and registered under pk.  The child node is made on
\* first encounter and appended to the parent's children.
Attach(t, pk, pi, fromMemo) ==
    LET p == IF fromMemo THEN topoInstanceNodeMap[pk] ELSE Len(nodes) + 1
        n1 == IF fromMemo THEN nodes ELSE Append(nodes, NewNode(pi))
        m1 == IF fromMemo THEN topoInstanceNodeMap
              ELSE (pk :> p) @@ topoInstanceNodeMap
        known == Key(t) \in DOMAIN m1
        c == IF known THEN m1[Key(t)] ELSE Len(n1) + 1
        n2 == IF known THEN n1 ELSE Append(n1, NewNode(t))
    IN /\ nodes' = [n2 EXCEPT ![p].children = Append(@, c)]
       /\ topoInstanceNodeMap' = IF known THEN m1 ELSE (Key(t) :> c) @@ m1
       /\ root' = RootAfter(n2, p)

\* mutant: a skipped instance does not advance the loop index
ConstructNextStuck ==
    /\ cIdx' = cIdx
    /\ UNCHANGED <<store, modelIDs, objectParentMap, setInstances,
                   moduleInstances, mainlineInstances, pc, fillIdx, fillLen,
                   errKind>>

ConstructNext ==
    /\ cIdx' = cIdx + 1
    /\ UNCHANGED <<store, modelIDs, objectParentMap, setInstances,
                   moduleInstances, mainlineInstances, pc, fillIdx, fillLen,
                   errKind>>

ConstructInstanceTopoTree ==
    /\ pc = "construct"
    /\ cIdx <= Len(allTopoInstances)
    /\ LET t == allTopoInstances[cIdx]
           pk == <<ParentType(t.obj), t.parent>>
           \* the idle pool exception replaces the key and the object id
           idle == IdleSetOfBiz(t) /\ BizKey \in DOMAIN instanceMap
           lk == IF IdleSetOfBiz(t) THEN BizKey ELSE pk
           found == {d \in instTable : d.obj = lk[1] /\ d.id = t.parent}
       IN \/ /\ t.parent = 0
             /\ UNCHANGED <<instanceMap, allTopoInstances, nodes,
                            topoInstanceNodeMap, root>>
             /\ ConstructNext
          \/ /\ t.parent # 0 /\ pk \in DOMAIN topoInstanceNodeMap
             /\ Attach(t, pk, "none", TRUE)
             /\ UNCHANGED <<instanceMap, allTopoInstances>>
             /\ ConstructNext
          \/ /\ t.parent # 0 /\ pk \notin DOMAIN topoInstanceNodeMap
             /\ pk \in DOMAIN instanceMap
             /\ Attach(t, pk, instanceMap[pk], FALSE)
             /\ UNCHANGED <<instanceMap, allTopoInstances>>
             /\ ConstructNext
          \/ /\ t.parent # 0 /\ pk \notin DOMAIN topoInstanceNodeMap
             /\ pk \notin DOMAIN instanceMap /\ idle
             /\ Attach(t, BizKey, instanceMap[BizKey], FALSE)
             /\ UNCHANGED <<instanceMap, allTopoInstances>>
             /\ ConstructNext
          \/ /\ t.parent # 0 /\ pk \notin DOMAIN topoInstanceNodeMap
             /\ pk \notin DOMAIN instanceMap /\ ~idle
             \* Find(cond).One(context.Background(), &inst)
             /\ \/ StoreError
                \* not found: the child is skipped, the build goes on
                \/ /\ found = {}
                   /\ UNCHANGED <<instanceMap, allTopoInstances, nodes,
                                  topoInstanceNodeMap, root>>
                   /\ ConstructNext
                \/ \E d \in found :
                     \/ ~HasParentField(d) /\ Fail("fieldType")
                     \/ /\ HasParentField(d)
                        /\ LET pi == [obj |-> lk[1], id |-> t.parent,
                                      parent |-> d.parent, default |-> 0,
                                      detail |-> "doc"]
                           IN /\ instanceMap' = (lk :> pi) @@ instanceMap
                              /\ allTopoInstances' = Append(allTopoInstances, pi)
                              /\ Attach(t, lk, pi, FALSE)
                        /\ ConstructNext

ConstructDone ==
    /\ pc = "construct"
    /\ cIdx > Len(allTopoInstances)
    /\ pc' = "done"
    /\ UNCHANGED <<store, modelIDs, objectParentMap, setInstances,
                   moduleInstances, mainlineInstances, instanceMap,
                   allTopoInstances, nodes, topoInstanceNodeMap, root,
                   fillIdx, fillLen, cIdx, errKind>>

(***************************************************************************)
(* The request: the order in which TopoOperation.SearchMainlineInstanceTopo *)
(* calls the steps is the pc chain; it returns GetRoot() after the tree   *)
(* is built, or the first error.                                          *)
(***************************************************************************)
Next ==
    \/ LoadSetInstances
    \/ LoadModuleInstances
    \/ LoadMainlineInstances
    \/ ConstructBizTopoInstance
    \/ OrganizeSetInstance
    \/ OrganizeModuleInstance
    \/ OrganizeMainlineInstance
    \/ CheckAndFillingMissingModels
    \/ FillDone
    \/ ConstructInstanceTopoTree
    \/ ConstructDone

\* a finished request stays finished
Finished == pc \in {"done", "error"} /\ UNCHANGED vars

Spec == Init /\ [][Next \/ Finished]_vars /\ WF_vars(Next)

(***************************************************************************)
(* TopoInstanceNode.TraversalFindNode on the tree the build returns: a    *)
(* depth-first search that returns the path from the node found up to    *)
(* the node searched from, or nothing.  GetObjByType leaves the inner     *)
(* object ids as they are, so for a module the type test is equality.     *)
(* d bounds the recursion by the depth of the spine.                      *)
(***************************************************************************)
\* mutant: a hit in a child is returned without the node searched from
RECURSIVE TraversalFindNodeNoAppend(_, _, _, _)
TraversalFindNodeNoAppend(n, objectType, targetID, d) ==
    IF nodes[n].obj = objectType /\ nodes[n].id = targetID THEN <<n>>
    ELSE IF d = 0 THEN <<>>
    ELSE LET paths == [i \in DOMAIN nodes[n].children |->
                          TraversalFindNodeNoAppend(nodes[n].children[i], objectType, targetID, d - 1)]
             hits == {i \in DOMAIN paths : paths[i] # <<>>}
         IN IF hits = {} THEN <<>>
            ELSE paths[CHOOSE i \in hits : \A j \in hits : i <= j]

RECURSIVE TraversalFindNode(_, _, _, _)
TraversalFindNode(n, objectType, targetID, d) ==
    IF nodes[n].obj = objectType /\ nodes[n].id = targetID THEN <<n>>
    ELSE IF d = 0 THEN <<>>
    ELSE LET paths == [i \in DOMAIN nodes[n].children |->
                          TraversalFindNode(nodes[n].children[i], objectType, targetID, d - 1)]
             hits == {i \in DOMAIN paths : paths[i] # <<>>}
         IN IF hits = {} THEN <<>>
            ELSE Append(paths[CHOOSE i \in hits : \A j \in hits : i <= j], n)

TraversalFindModule(targetID) ==
    TraversalFindNode(root, BKInnerObjIDModule, targetID, Len(Spine))

(***************************************************************************)
(* Reference definitions for the properties, written from the spec (§3,   *)
(* §4.4) and independent of the definitions above.                        *)
(***************************************************************************)
RefParentType(o) ==
    IF \E i \in 2..Len(Spine) : Spine[i] = o
    THEN Spine[(CHOOSE i \in 2..Len(Spine) : Spine[i] = o) - 1]
    ELSE NoType

RefParentKey(r) ==
    IF r.obj = BKInnerObjIDSet /\ r.default = 1 THEN BizKey
    ELSE <<RefParentType(r.obj), r.parent>>

SetRecs == {[obj |-> BKInnerObjIDSet, id |-> i, parent |-> setTable[i].parent,
             default |-> setTable[i].default] : i \in {j \in SetIds : setTable[j] # Absent}}
ModuleRecs == {[obj |-> BKInnerObjIDModule, id |-> i, parent |-> moduleTable[i],
                default |-> 0] : i \in {j \in ModuleIds : moduleTable[j] # Absent}}
InstRecs(T) == {[obj |-> d.obj, id |-> d.id, parent |-> d.parent, default |-> 0] : d \in T}
\* the records the loaders return, and every record of the store
LoadedRecs == SetRecs \cup ModuleRecs
              \cup InstRecs({d \in instTable : d.label /\ d.obj \in Range(Spine)})
StoreRecs == SetRecs \cup ModuleRecs \cup InstRecs(instTable)
RecOf(k) == CHOOSE r \in StoreRecs : <<r.obj, r.id>> = k

\* key k has a record in the store whose parent chain reaches the business
RECURSIVE Resolves(_, _)
Resolves(k, d) ==
    \/ k = BizKey
    \/ /\ d > 0
       /\ \E r \in StoreRecs : /\ <<r.obj, r.id>> = k
                               /\ r.parent # NoField
                               /\ Resolves(RefParentKey(r), d - 1)

\* the data a correct topology has (spec §3): unique generic instance ids,
\* one idle pool set (the built-in set of the business) and it under the
\* business, every loaded record's ancestry in
\* the store, and the business document when detail is requested
WellFormed ==
    /\ withDetail => appExists
    /\ \A d1, d2 \in instTable : d1.id = d2.id => d1 = d2
    /\ \A r, q \in SetRecs : r.default = 1 /\ q.default = 1 => r = q
    /\ \A r \in SetRecs : r.default = 1 => r.parent = BizID
    /\ \A r \in LoadedRecs : r.parent # NoField /\ Resolves(RefParentKey(r), Len(Spine))

RECURSIVE Ancestry(_, _)
Ancestry(k, d) ==
    IF k = BizKey \/ d = 0 THEN {k}
    ELSE {k} \cup Ancestry(RefParentKey(RecOf(k)), d - 1)

ExpectedKeys == {BizKey} \cup UNION {Ancestry(<<r.obj, r.id>>, Len(Spine)) : r \in LoadedRecs}
ExpectedEdges == {<<RefParentKey(RecOf(k)), k>> : k \in ExpectedKeys \ {BizKey}}

\* the store's parent chain of key k, k first and the business last
RECURSIVE RefPath(_, _)
RefPath(k, d) ==
    IF k = BizKey \/ d = 0 THEN <<k>> ELSE <<k>> \o RefPath(RefParentKey(RecOf(k)), d - 1)

\* the tree below root: pre-order keys (a shared node counts each time)
NodeKey(n) == <<nodes[n].obj, nodes[n].id>>
RECURSIVE Flatten(_, _)
Flatten(n, d) ==
    <<NodeKey(n)>> \o
        IF d = 0 THEN <<>>
        ELSE FlattenSeq([i \in DOMAIN nodes[n].children |->
                             Flatten(nodes[n].children[i], d - 1)])
Flat == IF root = 0 THEN <<>> ELSE Flatten(root, Len(Spine))

RECURSIVE Below(_, _)
Below(n, d) ==
    {n} \cup IF d = 0 THEN {}
             ELSE UNION {Below(c, d - 1) : c \in Range(nodes[n].children)}
TreeEdges ==
    IF root = 0 THEN {}
    ELSE UNION {{<<NodeKey(p), NodeKey(c)>> : c \in Range(nodes[p].children)} :
                    p \in Below(root, Len(Spine))}

(***************************************************************************)
(* Properties                                                             *)
(***************************************************************************)
TypeOK ==
    /\ pc \in {"loadSet", "loadModule", "loadMainline", "bizTopo", "orgSet",
               "orgModule", "orgMainline", "fill", "construct", "done", "error"}
    /\ errKind \in {"none", "store", "bizNotFound", "fieldType",
                    "missingParent", "ambiguousParent"}
    /\ \A i \in DOMAIN allTopoInstances : allTopoInstances[i] \in TopoInstance
    /\ \A k \in DOMAIN instanceMap : instanceMap[k] \in TopoInstance
    /\ \A k \in DOMAIN topoInstanceNodeMap : topoInstanceNodeMap[k] \in DOMAIN nodes
    /\ root \in {0} \cup DOMAIN nodes
    /\ \A n \in DOMAIN nodes : Range(nodes[n].children) \subseteq DOMAIN nodes

\* On well-formed data a finished build returns the tree the spec
\* describes: rooted at the business, every loaded and every repaired
\* instance exactly once, each under its spine parent and the idle pool
\* set under the business (ConstructInstanceTopoTree after
\* CheckAndFillingMissingModels).
\* A business with nothing under it has no root: root is only set when a
\* child is attached to the business node.
WellFormedTreeExact ==
    pc = "done" /\ WellFormed =>
        IF ExpectedKeys = {BizKey} THEN root = 0
        ELSE
        /\ root # 0
        /\ IsInjective(Flat)
        /\ Range(Flat) = ExpectedKeys
        /\ TreeEdges = ExpectedEdges

\* On well-formed data, TraversalFindModule on the tree a finished build
\* returns gives, for every module of the business, the path of its
\* ancestors in the store: the module first, then its set, the custom
\* levels, and the business last (TraversalFindNode's depth-first search
\* and its append of each node on the way back up).
ModulePathsFollowStore ==
    pc = "done" /\ WellFormed /\ root # 0 =>
        \A r \in ModuleRecs :
            LET p == TraversalFindModule(r.id)
            IN [i \in DOMAIN p |-> NodeKey(p[i])] = RefPath(<<BKInnerObjIDModule, r.id>>, Len(Spine))

\* A build on well-formed data fails only when the store fails: neither
\* repair pass reports a missing, ambiguous or malformed parent that the
\* store in fact holds.
NoFalseFailure ==
    pc = "error" => errKind = "store" \/ ~WellFormed

\* Spec §5: no request blocks indefinitely.  Every build ends, with a
\* tree or an error, although ConstructInstanceTopoTree re-reads
\* len(im.allTopoInstances) while its parent lookups append to the slice:
\* an appended parent is of the spine type above the instance that needed
\* it, so every chain of appends stops at the business level.
BuildEnds == <>(pc \in {"done", "error"})

\* Whatever the data, every edge the assembler makes joins an instance to
\* a node of its spine parent type with its declared parent id, or an
\* idle pool set to the business (ConstructInstanceTopoTree's memo and
\* exception paths).
EdgesFollowSpine ==
    \A p \in DOMAIN nodes : \A i \in DOMAIN nodes[p].children :
        \E x \in Range(allTopoInstances) :
            /\ Key(x) = NodeKey(nodes[p].children[i])
            /\ x.parent = nodes[p].id
            /\ \/ nodes[p].obj = RefParentType(x.obj)
               \/ x.obj = BKInnerObjIDSet /\ NodeKey(p) = BizKey

\* Spec §3 and §8: a finished build returns one tree that holds every
\* instance it loaded, synthesized or repaired exactly once (one TopoNode
\* per identity key), with every idle pool set a direct child of the
\* business root; ConstructInstanceTopoTree must neither drop a child
\* whose parent it cannot find, nor let the idle exception replace the
\* business node or attach the set under another instance.
TreeHoldsEveryInstance ==
    pc = "done" /\ Len(allTopoInstances) > 1 =>
        /\ root # 0
        /\ IsInjective(Flat)
        /\ Range(Flat) = {Key(x) : x \in Range(allTopoInstances)}
        /\ \A x \in Range(allTopoInstances) :
               x.obj = BKInnerObjIDSet /\ x.default = 1 =>
                   \E i \in DOMAIN nodes[root].children :
                       NodeKey(nodes[root].children[i]) = Key(x)

====
