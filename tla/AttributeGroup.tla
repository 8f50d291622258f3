--------------------------- MODULE AttributeGroup ---------------------------
(***************************************************************************)
(* Object attributes and their property groups: the topology server's     *)
(* attribute operation (topo_server/core/operation/attribute.go) under     *)
(* concurrent requests.                                                    *)
(*                                                                         *)
(* Every store call is a step of its own: CreateObjectAttribute searches  *)
(* the attribute's group, creates the default group when the search finds *)
(* none, then creates the attribute; DeleteObjectAttribute reads the       *)
(* attributes, then deletes them one call at a time.  The group operation *)
(* CreateObjectAttribute calls is not in the repository: its group create *)
(* is taken to run the core service's groupIDIsExists and                 *)
(* groupNameIsExists (model_attribute_group_private.go) and then insert.  *)
(* The attribute store calls (att.Create, DeleteModelAttr,                *)
(* UpdateModelAttrsByCondition) write what they are given or fail.  The   *)
(* supplier account is one and is left out; a label is the bk_biz_id of   *)
(* the request's metadata.                                                 *)
(***************************************************************************)
EXTENDS Integers, FiniteSets

CONSTANTS
    Objs,           \* object ids
    GroupIds,       \* bk_group_id values
    Names,          \* bk_group_name values
    Default,        \* common.BKBizDefault, id and name of the default group
    Labels,         \* business labels of request metadata
    NoLabel,        \* a request without metadata
    Reqs,           \* concurrent requests, one operation each
    MaxClock        \* bound on the store writes

VARIABLES
    groups,         \* group rows: [row, id, name, obj, label]
    attrs,          \* attribute rows: [row, obj, group, label]
    req,            \* request -> its state
    clock           \* store writes so far (the row ids)

vars == <<groups, attrs, req, clock>>

LabelVals == Labels \cup {NoLabel}
Group == [row : 1..MaxClock, id : GroupIds, name : Names, obj : Objs,
          label : LabelVals]
Attr == [row : 1..MaxClock, obj : Objs, group : GroupIds, label : LabelVals]

\* the label condition both exists-helpers embed when the metadata has one
InScope(g, label) == label # NoLabel => g.label = label

\* groupIDIsExists: a group of obj with this bk_group_id, in the label scope
GroupIDIsExists(obj, id, label) ==
    \E g \in groups : g.id = id /\ g.obj = obj /\ InScope(g, label)

\* groupNameIsExists: the same search by bk_group_name
GroupNameIsExists(obj, name, label) ==
    \E g \in groups : g.name = name /\ g.obj = obj /\ InScope(g, label)

\* FindObjectGroup with bk_obj_id and bk_property_group_id
FindObjectGroup(obj, id) == {g \in groups : g.obj = obj /\ g.id = id}

\* FindObjectAttribute by id: with metadata, public and that business's
\* attributes; without, only attributes without a business label
FindObjectAttribute(id, label) ==
    {a \in attrs : a.row = id /\ IF label = NoLabel THEN a.label = NoLabel
                                ELSE a.label \in {NoLabel, label}}

Idle == [pc |-> "idle", op |-> "none", obj |-> "none", grp |-> "none",
         gid |-> "none", name |-> "none", label |-> NoLabel, items |-> {},
         detail |-> {}]

Init ==
    /\ groups = {}
    /\ attrs = {}
    /\ req = [r \in Reqs |-> Idle]
    /\ clock = 0

Done(r) == req' = [req EXCEPT ![r].pc = "done"]

(***************************************************************************)
(* CreateObjectAttribute up to its group search: Parse and IsValidObject  *)
(* may fail; FindObjectGroup fails, finds the attribute's group, or finds *)
(* nothing, and then the default group of the object is created.         *)
(***************************************************************************)
CreateObjectAttribute(r) ==
    /\ req[r].pc = "idle"
    /\ \E obj \in Objs, grp \in GroupIds, label \in LabelVals :
         LET q == [Idle EXCEPT !.op = "attr", !.obj = obj, !.grp = grp, !.label = label]
         IN \/ Done(r)
            \/ /\ FindObjectGroup(obj, grp) # {}
               /\ req' = [req EXCEPT ![r] = [q EXCEPT !.pc = "create"]]
            \/ /\ FindObjectGroup(obj, grp) = {}
               /\ req' = [req EXCEPT ![r] = [q EXCEPT !.pc = "check", !.gid = Default,
                                                        !.name = Default]]
    /\ UNCHANGED <<groups, attrs, clock>>

(***************************************************************************)
(* The CreateObjectGroup call for the default group: groupIDIsExists and  *)
(* groupNameIsExists in the request's label scope, then the insert.  A    *)
(* failure ends CreateObjectAttribute with                                 *)
(* CCErrTopoObjectGroupCreateFailed.                                       *)
(***************************************************************************)
CheckGroup(r) ==
    /\ req[r].pc = "check"
    /\ LET q == req[r]
       IN \/ Done(r)
          \/ /\ ~GroupIDIsExists(q.obj, q.gid, q.label)
             /\ ~GroupNameIsExists(q.obj, q.name, q.label)
             /\ req' = [req EXCEPT ![r].pc = "insert"]
    /\ UNCHANGED <<groups, attrs, clock>>

InsertGroup(r) ==
    /\ req[r].pc = "insert"
    /\ LET q == req[r]
       IN \/ Done(r) /\ UNCHANGED <<groups, clock>>
          \/ /\ clock < MaxClock
             /\ groups' = groups \cup {[row |-> clock + 1, id |-> q.gid, name |-> q.name,
                                         obj |-> q.obj, label |-> q.label]}
             /\ req' = [req EXCEPT ![r].pc = "create"]
             /\ clock' = clock + 1
    /\ UNCHANGED attrs

\* att.Create: the attribute is saved with its own bk_property_group
CreateAttr(r) ==
    /\ req[r].pc = "create"
    /\ LET q == req[r]
       IN \/ Done(r) /\ UNCHANGED <<attrs, clock>>
          \/ /\ clock < MaxClock
             /\ attrs' = attrs \cup {[row |-> clock + 1, obj |-> q.obj, group |-> q.grp,
                                       label |-> q.label]}
             /\ clock' = clock + 1
             /\ Done(r)
    /\ UNCHANGED groups

(***************************************************************************)
(* DeleteObjectAttribute of /objectattr/{id}: FindObjectAttribute, then   *)
(* one DeleteModelAttr with the id condition per attribute found; a       *)
(* failed call returns at once.                                            *)
(***************************************************************************)
DeleteObjectAttribute(r) ==
    /\ req[r].pc = "idle"
    /\ \E id \in 1..MaxClock, label \in LabelVals :
         \/ Done(r)
         \/ req' = [req EXCEPT ![r] = [Idle EXCEPT !.pc = "delAttr", !.op = "delAttr",
                                  !.label = label, !.items = FindObjectAttribute(id, label)]]
    /\ UNCHANGED <<groups, attrs, clock>>

DeleteModelAttr(r) ==
    /\ req[r].pc = "delAttr"
    /\ LET q == req[r]
       IN \/ q.items = {} /\ Done(r) /\ UNCHANGED attrs
          \/ \E a \in q.items :
               \/ Done(r) /\ UNCHANGED attrs
               \/ /\ attrs' = {b \in attrs : b.row # a.row}
                  /\ req' = [req EXCEPT ![r].items = @ \ {a}]
    /\ UNCHANGED <<groups, clock>>

\* UpdateObjectAttribute: UpdateModelAttrsByCondition with the id and the
\* request's data, which may name another bk_property_group
UpdateObjectAttribute(r) ==
    /\ req[r].pc = "idle"
    /\ \/ Done(r) /\ UNCHANGED <<attrs, clock>>
       \/ \E a \in attrs, grp \in GroupIds :
            /\ clock < MaxClock
            /\ attrs' = (attrs \ {a}) \cup {[a EXCEPT !.group = grp]}
            /\ clock' = clock + 1
            /\ Done(r)
    /\ UNCHANGED groups

(***************************************************************************)
(* FindObjectAttributeWithDetail: FindObjectAttribute, then one           *)
(* FindObjectGroup per attribute; PropertyGroupName is the name of the    *)
(* last group found ("should be only one"), "" when there is none.        *)
(***************************************************************************)
FindObjectAttributeWithDetail(r) ==
    /\ req[r].pc = "idle"
    /\ \E id \in 1..MaxClock, label \in LabelVals :
         \/ Done(r)
         \/ req' = [req EXCEPT ![r] = [Idle EXCEPT !.pc = "detail", !.op = "detail",
                                  !.label = label, !.items = FindObjectAttribute(id, label)]]
    /\ UNCHANGED <<groups, attrs, clock>>

DetailGroup(r) ==
    /\ req[r].pc = "detail"
    /\ LET q == req[r]
       IN \/ q.items = {} /\ Done(r)
          \/ \E a \in q.items :
               LET found == FindObjectGroup(a.obj, a.group)
               IN \/ Done(r)
                  \/ \E name \in IF found = {} THEN {""} ELSE {g.name : g \in found} :
                       req' = [req EXCEPT ![r].items = @ \ {a},
                                          ![r].detail = @ \cup {<<a.row, name>>}]
    /\ UNCHANGED <<groups, attrs, clock>>

\* every request has been answered
Finished == \A r \in Reqs : req[r].pc = "done"

Next ==
    \/ \E r \in Reqs :
         \/ CreateObjectAttribute(r) \/ CheckGroup(r) \/ InsertGroup(r) \/ CreateAttr(r)
         \/ DeleteObjectAttribute(r) \/ DeleteModelAttr(r) \/ UpdateObjectAttribute(r)
         \/ FindObjectAttributeWithDetail(r) \/ DetailGroup(r)
    \/ Finished /\ UNCHANGED vars

Spec == Init /\ [][Next]_vars

TypeOK ==
    /\ groups \subseteq Group
    /\ attrs \subseteq Attr
    /\ clock \in 0..MaxClock
    /\ \A r \in Reqs : req[r].pc \in {"idle", "check", "insert", "create", "delAttr",
                                      "detail", "done"}
    /\ \A r \in Reqs : req[r].items \subseteq Attr
    /\ \A r \in Reqs : req[r].detail \subseteq (1..MaxClock) \X (Names \cup {""})

\* Every attribute's bk_property_group is a group of its object: the
\* group search and default-group creation of CreateObjectAttribute exist
\* to ensure it.
AttrGroupExists ==
    \A a \in attrs : FindObjectGroup(a.obj, a.group) # {}
====
