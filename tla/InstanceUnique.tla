--------------------------- MODULE InstanceUnique ---------------------------
(***************************************************************************)
(* The unique-constraint validator of the core service's instance manager *)
(* (coreservice/core/instances/validator_unique.go: validCreateUnique and  *)
(* validUpdateUnique), run by concurrent create and update requests on     *)
(* one object's instance collection.                                       *)
(*                                                                         *)
(* A request validates, then writes.  The write itself (the insert of      *)
(* CreateModelInstance, the $set of UpdateModelInstance) is the caller's   *)
(* and is not in the repository; nothing in the repository makes the two  *)
(* steps atomic or creates a unique index, so another request may write    *)
(* between them.  The validator's reads (getInstDataByID, SearchUnique,    *)
(* one SearchModelInstance per constraint) are taken as one read.          *)
(*                                                                         *)
(* A document is its unique property values, its bk_data_status (on =     *)
(* not disabled) and its business label; the object is not an inner       *)
(* "object" type, so the bk_obj_id condition is not added.  A unique key  *)
(* whose id idToProperty does not know, or whose kind is not "property",  *)
(* is one of BadKeys.  Every error the validator returns fails the         *)
(* request the same way, so which error is not recorded.                   *)
(*                                                                         *)
(* Instances are also deleted (DeleteModelInstance of the core service's   *)
(* interface, reached from the topology server's DELETE /set routes); a    *)
(* created instance takes the next id of the object's id sequence, so ids  *)
(* are never reused.                                                       *)
(***************************************************************************)
EXTENDS Integers, FiniteSets, Functions, TLC

CONSTANTS
    Props,          \* property ids unique keys may name
    Vals,           \* non-empty property values
    Empty,          \* an empty value (isEmpty)
    BadKeys,        \* unique keys that fail idToProperty or the kind check
    UniqueSets,     \* the unique constraint sets SearchUnique may return
    Labels,         \* business labels (bk_biz_id of metadata.label)
    NoLabel,        \* no business label
    Reqs,           \* concurrent requests, one operation each
    MaxInit,        \* bound on the instances present at the start
    MaxInst,        \* bound on the instances created
    MaxDeletes,     \* bound on the instances deleted
    StoreMayFail    \* SearchUnique and SearchModelInstance may fail

VARIABLES
    uniques,        \* what SearchUnique returns for the object
    store,          \* instance id -> document
    req,            \* request -> its state
    snap,           \* instance id -> the store its last write validated on
    lastw,          \* instance id -> when it was last written (0: initial)
    clock,          \* writes so far
    nextId          \* the id the next created instance takes

vars == <<uniques, store, req, snap, lastw, clock, nextId>>

Values == Vals \cup {Empty}
Doc == [val : [Props -> Values], on : BOOLEAN, label : Labels \cup {NoLabel}]
Change == [prop : Props, to : Values] \cup [prop : {"status"}, to : BOOLEAN]

(***************************************************************************)
(* One unique constraint: the property ids of its keys (uniquekeys), and   *)
(* whether its key check fails before any search.                          *)
(***************************************************************************)
KeyProps(u) == u.keys \cap Props
BadUnique(u) == u.keys \cap BadKeys # {}

\* anyEmpty && !unique.MustCheck: the constraint is skipped for this data
Skipped(u, d) == (\E k \in KeyProps(u) : d.val[k] = Empty) /\ ~u.must

(***************************************************************************)
(* The search condition: equal values on every key, bk_data_status not    *)
(* disabled, and the business label when the request's metadata has one. *)
(* self is the instance an update excludes (0 for a create).              *)
(***************************************************************************)
Matches(u, d, label, self, st) ==
    {j \in DOMAIN st :
        /\ j # self
        /\ st[j].on
        /\ label # NoLabel => st[j].label = label
        /\ \A k \in KeyProps(u) : st[j].val[k] = d.val[k]}

\* the loop over the constraints: an error or a duplicate fails the request
Rejects(d, label, self, st) ==
    \E u \in uniques :
        \/ BadUnique(u)
        \/ ~Skipped(u, d) /\ Matches(u, d, label, self, st) # {}

\* validCreateUnique
ValidCreateUnique(d, label, st) == ~Rejects(d, label, 0, st)

\* mutant: the instanceData merge is dropped; the stored document is checked
ValidUpdateUniqueNoMerge(id, ch, label, st) ==
    ~Rejects(st[id], label, id, st)

Apply(d, ch) ==
    IF ch.prop = "status" THEN [d EXCEPT !.on = ch.to]
    ELSE [d EXCEPT !.val[ch.prop] = ch.to]

\* validUpdateUnique: the stored document merged with the update's data,
\* checked against every other instance (the bk_inst_id condition)
ValidUpdateUnique(id, ch, label, st) ==
    ~Rejects(Apply(st[id], ch), label, id, st)

Idle == [pc |-> "idle", op |-> "none", id |-> 0, ch |-> "none",
         doc |-> "none", view |-> "none"]

\* a store whose documents satisfy the constraints among themselves
Consistent(st) ==
    \A i \in DOMAIN st, u \in uniques :
        Skipped(u, st[i]) \/ Matches(u, st[i], st[i].label, i, st) = {}

Init ==
    /\ uniques \in UniqueSets
    /\ store \in {st \in UNION {[1..n -> Doc] : n \in 0..MaxInit} : Consistent(st)}
    /\ req = [r \in Reqs |-> Idle]
    /\ snap = [i \in DOMAIN store |-> store]
    /\ lastw = [i \in DOMAIN store |-> 0]
    /\ clock = 0
    /\ nextId = Cardinality(DOMAIN store) + 1

\* creates validated and not yet written (for the MaxInst bound)
Pending == {r \in Reqs : req[r].pc = "write" /\ req[r].op = "create"}

\* the validator fails on a store error, or rejects
Fails(ok) == ~ok \/ StoreMayFail

(***************************************************************************)
(* CreateModelInstance: validCreateUnique on the current store; the write *)
(* comes later.                                                            *)
(***************************************************************************)
Create(r) ==
    /\ req[r].pc = "idle"
    /\ nextId - 1 + Cardinality(Pending) < MaxInst
    /\ \E d \in [val : [Props -> Values], on : {TRUE}, label : Labels \cup {NoLabel}] :
         LET ok == ValidCreateUnique(d, d.label, store) IN
         \/ /\ ok
            /\ req' = [req EXCEPT ![r] = [Idle EXCEPT !.pc = "write", !.op = "create",
                                            !.doc = d, !.view = store]]
         \/ /\ Fails(ok)
            /\ req' = [req EXCEPT ![r].pc = "done"]
    /\ UNCHANGED <<uniques, store, snap, lastw, clock, nextId>>

(***************************************************************************)
(* UpdateModelInstance of one instance: getInstDataByID (the instance     *)
(* exists), then validUpdateUnique.  The metadata is the instance's own   *)
(* business label, or none.                                                *)
(***************************************************************************)
Update(r) ==
    /\ req[r].pc = "idle"
    /\ \E id \in DOMAIN store, ch \in Change : \E label \in {NoLabel, store[id].label} :
         LET ok == ValidUpdateUnique(id, ch, label, store) IN
         \/ /\ ok
            /\ req' = [req EXCEPT ![r] = [Idle EXCEPT !.pc = "write", !.op = "update",
                                            !.id = id, !.ch = ch, !.view = store]]
         \/ /\ Fails(ok)
            /\ req' = [req EXCEPT ![r].pc = "done"]
    /\ UNCHANGED <<uniques, store, snap, lastw, clock, nextId>>

\* the store an update of id was checked on, with id as written when the
\* version checked is the version overwritten
Checked(view, id, cur, ch) ==
    IF view[id] = cur THEN [view EXCEPT ![id] = Apply(cur, ch)] ELSE view

\* an update's $set: the fields set on the document as it now is; it
\* matches nothing when the instance was deleted since its validation
Written(q, id) ==
    IF id \in DOMAIN store
    THEN /\ store' = [store EXCEPT ![id] = Apply(@, q.ch)]
         /\ snap' = [snap EXCEPT ![id] = Checked(q.view, id, store[id], q.ch)]
         /\ lastw' = [lastw EXCEPT ![id] = clock + 1]
    ELSE UNCHANGED <<store, snap, lastw>>

\* mutant: a created document takes the id after the next one
WriteIdSkip(r) ==
    /\ req[r].pc = "write"
    /\ LET q == req[r]
           id == IF q.op = "create" THEN nextId + 1 ELSE q.id
       IN IF q.op = "create"
          THEN /\ store' = store @@ (id :> q.doc)
               /\ snap' = snap @@ (id :> (q.view @@ (id :> q.doc)))
               /\ lastw' = lastw @@ (id :> clock + 1)
               /\ nextId' = nextId + 1
          ELSE /\ Written(q, id)
               /\ UNCHANGED nextId
    /\ clock' = clock + 1
    /\ req' = [req EXCEPT ![r].pc = "done"]
    /\ UNCHANGED uniques

(***************************************************************************)
(* The write after a validation that passed: the new document is inserted *)
(* under the next id, or the update's fields are set on the document as    *)
(* it now is; an update of an instance deleted since matches nothing.     *)
(***************************************************************************)
Write(r) ==
    /\ req[r].pc = "write"
    /\ LET q == req[r]
           id == IF q.op = "create" THEN nextId ELSE q.id
       IN IF q.op = "create"
          THEN /\ store' = store @@ (id :> q.doc)
               /\ snap' = snap @@ (id :> (q.view @@ (id :> q.doc)))
               /\ lastw' = lastw @@ (id :> clock + 1)
               /\ nextId' = nextId + 1
          ELSE /\ Written(q, id)
               /\ UNCHANGED nextId
    /\ clock' = clock + 1
    /\ req' = [req EXCEPT ![r].pc = "done"]
    /\ UNCHANGED uniques

\* DeleteModelInstance of one instance: its document is removed (the ids
\* allocated and not in the store are the instances deleted so far)
DeleteModelInstance ==
    /\ nextId - 1 - Cardinality(DOMAIN store) < MaxDeletes
    /\ \E i \in DOMAIN store :
         LET rest == DOMAIN store \ {i} IN
         /\ store' = [j \in rest |-> store[j]]
         /\ snap' = [j \in rest |-> snap[j]]
         /\ lastw' = [j \in rest |-> lastw[j]]
    /\ UNCHANGED <<uniques, req, clock, nextId>>

\* every request has been answered, or is idle with no instance to update
\* and the MaxInst bound spent
Finished ==
    \A r \in Reqs :
        \/ req[r].pc = "done"
        \/ /\ req[r].pc = "idle" /\ DOMAIN store = {}
           /\ nextId - 1 + Cardinality(Pending) >= MaxInst

Next == \/ \E r \in Reqs : Create(r) \/ Update(r) \/ Write(r)
        \/ DeleteModelInstance
        \/ Finished /\ UNCHANGED vars

Spec == Init /\ [][Next]_vars

TypeOK ==
    /\ uniques \in UniqueSets
    /\ nextId \in 1..MaxInst + 1 /\ DOMAIN store \subseteq 1..nextId - 1
    /\ \A i \in DOMAIN store : store[i] \in Doc
    /\ DOMAIN snap = DOMAIN store /\ DOMAIN lastw = DOMAIN store
    /\ clock \in 0..Cardinality(Reqs)
    /\ \A r \in Reqs : req[r].pc \in {"idle", "write", "done"}
    /\ \A r \in Reqs : req[r].pc = "write" =>
           \/ req[r].op = "create" /\ req[r].doc \in Doc
           \/ req[r].op = "update" /\ req[r].id \in 1..nextId - 1 /\ req[r].ch \in Change

\* i and j are enabled documents of one business scope that a checked
\* constraint calls duplicates
Conflict(i, j) ==
    /\ i # j /\ store[i].on /\ store[j].on
    /\ store[i].label = store[j].label
    /\ \E u \in uniques :
          ~Skipped(u, store[i]) /\ \A k \in KeyProps(u) : store[i].val[k] = store[j].val[k]

\* the last write of i was validated on a version of j that is not j's
\* current one (or before j existed); for j = i, on a version of i that
\* another update had already replaced
Stale(i, j) == j \notin DOMAIN snap[i] \/ snap[i][j] # store[j]

\* Duplicates come only from the gap between the check and the write: two
\* enabled documents of one scope that a checked unique constraint calls
\* duplicates exist only when the later written of them was validated on a
\* stale version of the other or of itself.  validCreateUnique and
\* validUpdateUnique (the merge with the stored document, the exclusion of
\* the instance itself and of disabled data, the MustCheck skip) never let
\* a duplicate through on their own.
DuplicatesOnlyFromStaleChecks ==
    \A i, j \in DOMAIN store : Conflict(i, j) /\ lastw[i] > lastw[j] => Stale(i, j) \/ Stale(i, i)

====
