----------------------------- MODULE AuthCenter -----------------------------
(***************************************************************************)
(* AuthCenter.Authorize and AuthCenter.AuthorizeBatch                      *)
(* (auth/authcenter/authcenter.go): one request splits its resources into *)
(* business/system and any/exact batches, asks the auth center once per    *)
(* batch, and puts the answers back in request order.                      *)
(*                                                                         *)
(* A request is one goroutine; a state is the request between two steps.  *)
(* A resource is abstracted to the fields the code branches on: the       *)
(* outcome of the permit/adaptor helpers (kind), its type, action,        *)
(* business id and the ResourceID adaptor returns.  The auth center is    *)
(* the environment: each call may fail, return a wrong count, or return   *)
(* any verdicts, in request order or (AllowReorder) in any order.         *)
(***************************************************************************)
EXTENDS Integers, Sequences, FiniteSets, Functions, TLC

CONSTANTS
    Types,          \* resource types
    GlobalTypes,    \* MainlineModel, ModelTopology: forced to business id 0
    Actions,        \* action ids adaptorAction returns
    BizIds,         \* BusinessID values
    ResIDs,         \* ResourceID values adaptor returns for exact resources
    NoID,           \* the empty ResourceID of an "any" resource
    NoAnswer,       \* no verdict recorded yet for a resource
    MaxResources,   \* bound on the resources of one request
    AllowReorder    \* whether a batch reply may come out of request order

(* kind: "skipAction" Action == meta.SkipAction (Authorize filters it);     *)
(* "permitSkip" permit.ShouldSkipAuthorize holds; "badAction" adaptorAction *)
(* fails; "badType" adaptor fails; "normal" otherwise.                     *)
Kinds == {"normal", "skipAction", "permitSkip", "badAction", "badType"}
Resource == [kind : Kinds, type : Types, action : Actions, biz : BizIds,
             id : ResIDs \cup {NoID}]
ResourceAction == [type : Types, action : Actions, id : ResIDs \cup {NoID}]
Batch == [scope : {"biz", "sys"}, exact : BOOLEAN, biz : BizIds]

VARIABLES
    enable,     \* ac.Config.Enable
    request,    \* a.Resources as Authorize receives it
    resources,  \* the noSkipResources passed to AuthorizeBatch
    idx,        \* the index of the bucketing loop
    inputs,     \* batch -> its ResourceActions (the four input structures)
    indexes,    \* batch -> the resource index of each ResourceAction
    decisions,  \* AuthorizeBatch's decisions[i].Authorized
    called,     \* batches already sent to the auth center
    answered,   \* the auth center's verdict on each resource (history)
    batchErr,   \* AuthorizeBatch returned an error
    result,     \* the Decision Authorize returns
    pc

vars == <<enable, request, resources, idx, inputs, indexes, decisions,
          called, answered, batchErr, result, pc>>

Requests == UNION {[1..n -> Resource] : n \in 0..MaxResources}

Init ==
    /\ enable \in BOOLEAN
    /\ request \in Requests
    /\ resources = <<>>
    /\ idx = 1
    /\ inputs = <<>>
    /\ indexes = <<>>
    /\ decisions = <<>>
    /\ called = {}
    /\ answered = <<>>
    /\ batchErr = FALSE
    /\ result = "none"
    /\ pc = "authorize"

(***************************************************************************)
(* Authorize, up to the call of AuthorizeBatch.                           *)
(***************************************************************************)
NotSkipAction(r) == r.kind # "skipAction"

AuthorizeStart ==
    /\ pc = "authorize"
    /\ LET noSkip == SelectSeq(request, NotSkipAction)
       IN \/ /\ ~enable \/ noSkip = <<>>
             /\ result' = "authorized"
             /\ pc' = "end"
             /\ UNCHANGED <<resources, decisions, answered>>
          \/ /\ enable /\ noSkip # <<>>
             /\ resources' = noSkip
             /\ decisions' = [i \in DOMAIN noSkip |-> FALSE]
             /\ answered' = [i \in DOMAIN noSkip |-> NoAnswer]
             /\ pc' = "split"
             /\ UNCHANGED result
    /\ UNCHANGED <<enable, request, idx, inputs, indexes, called, batchErr>>

(***************************************************************************)
(* AuthorizeBatch's loop over resources: one step per resource.           *)
(***************************************************************************)
\* rsc.BusinessID = 0 for the global types, then BusinessID > 0 picks the
\* business batches; a non-empty ResourceID picks the exact ones
BatchOf(r) ==
    IF r.biz > 0 /\ r.type \notin GlobalTypes
    THEN [scope |-> "biz", exact |-> r.id # NoID, biz |-> r.biz]
    ELSE [scope |-> "sys", exact |-> r.id # NoID, biz |-> 0]

\* mutant: the resource index is recorded one too high
RecordIndexNext(ix, i) == Append(ix, i + 1)

\* indexes = append(indexes, index)
RecordIndex(ix, i) == Append(ix, i)

\* mutant: the decision of a skipped resource is left false
SkipDecisionUnset == FALSE

\* decisions[index].Authorized = true for a skipped resource
SkipDecision == TRUE

\* adaptorAction or adaptor failed: return nil, err
BatchFails ==
    /\ batchErr' = TRUE
    /\ pc' = "collect"
    /\ UNCHANGED <<idx, inputs, indexes, decisions>>

SplitResource ==
    /\ pc = "split"
    /\ idx <= Len(resources)
    /\ LET r == resources[idx]
           b == BatchOf(r)
           ra == [type |-> r.type, action |-> r.action, id |-> r.id]
       IN \/ r.kind = "badAction" /\ BatchFails
          \/ /\ r.kind = "permitSkip"
             /\ decisions' = [decisions EXCEPT ![idx] = SkipDecision]
             /\ idx' = idx + 1
             /\ UNCHANGED <<inputs, indexes, batchErr, pc>>
          \/ r.kind = "badType" /\ BatchFails
          \/ /\ r.kind = "normal"
             /\ inputs' = IF b \in DOMAIN inputs
                          THEN [inputs EXCEPT ![b] = Append(@, ra)]
                          ELSE (b :> <<ra>>) @@ inputs
             /\ indexes' = IF b \in DOMAIN indexes
                           THEN [indexes EXCEPT ![b] = RecordIndex(@, idx)]
                           ELSE (b :> RecordIndex(<<>>, idx)) @@ indexes
             /\ idx' = idx + 1
             /\ UNCHANGED <<decisions, batchErr, pc>>
    /\ UNCHANGED <<enable, request, resources, called, answered, result>>

SplitDone ==
    /\ pc = "split"
    /\ idx > Len(resources)
    /\ pc' = "call"
    /\ UNCHANGED <<enable, request, resources, idx, inputs, indexes, decisions,
                   called, answered, batchErr, result>>

(***************************************************************************)
(* The four rounds of calls: every business "any" batch (in map order),   *)
(* every business "exact" batch, then the system "any" and "exact"        *)
(* batches when they are not empty.                                       *)
(***************************************************************************)
Round(b) == CASE b.scope = "biz" /\ ~b.exact -> 1
              [] b.scope = "biz" /\ b.exact  -> 2
              [] b.scope = "sys" /\ ~b.exact -> 3
              [] b.scope = "sys" /\ b.exact  -> 4

\* mutant: each reply's decisions start again from false
ApplyStatusesReset(d, ix, pass) ==
    [i \in DOMAIN d |-> \E k \in DOMAIN ix : ix[k] = i /\ pass[k]]

\* decisions[indexes[index]].Authorized = status.IsPass
ApplyStatuses(d, ix, pass) ==
    [i \in DOMAIN d |-> IF \E k \in DOMAIN ix : ix[k] = i
                        THEN pass[CHOOSE k \in DOMAIN ix : ix[k] = i]
                        ELSE d[i]]

\* ResourceType != status.ResourceType || ActionID != status.ActionID
StatusMismatch(st, ra) == st.type # ra.type \/ st.action # ra.action

\* the orders in which the auth center may list the statuses
ReplyOrders(n) == IF AllowReorder THEN Permutations(1..n) ELSE {[k \in 1..n |-> k]}

CallBatch ==
    /\ pc = "call"
    /\ \E b \in DOMAIN inputs \ called :
         /\ \A c \in DOMAIN inputs \ called : Round(b) <= Round(c)
         /\ LET rq == inputs[b]
                ix == indexes[b]
            IN \/ \* the call fails, or len(statuses) != len(ResourceActions)
                  /\ batchErr' = TRUE
                  /\ pc' = "collect"
                  /\ UNCHANGED <<decisions, called, answered>>
               \/ \E order \in ReplyOrders(Len(rq)), pass \in [Range(rq) -> BOOLEAN] :
                    \* the auth center's verdict on an item depends on the item
                    \* only; status k answers item order[k]
                    LET status(k) == [type |-> rq[order[k]].type,
                                      action |-> rq[order[k]].action,
                                      pass |-> pass[rq[order[k]]]]
                        mismatch == \E k \in 1..Len(rq) : StatusMismatch(status(k), rq[k])
                    IN /\ answered' = [i \in DOMAIN answered |->
                                         IF \E k \in 1..Len(rq) : ix[k] = i
                                         THEN pass[rq[CHOOSE k \in 1..Len(rq) : ix[k] = i]]
                                         ELSE answered[i]]
                       /\ \/ mismatch /\ batchErr' = TRUE /\ pc' = "collect"
                             /\ UNCHANGED <<decisions, called>>
                          \/ /\ ~mismatch
                             /\ decisions' = ApplyStatuses(decisions, ix,
                                                [k \in 1..Len(rq) |-> status(k).pass])
                             /\ called' = called \cup {b}
                             /\ UNCHANGED <<batchErr, pc>>
    /\ UNCHANGED <<enable, request, resources, idx, inputs, indexes, result>>

CallsDone ==
    /\ pc = "call"
    /\ called = DOMAIN inputs
    /\ pc' = "collect"
    /\ UNCHANGED <<enable, request, resources, idx, inputs, indexes, decisions,
                   called, answered, batchErr, result>>

(***************************************************************************)
(* Authorize after AuthorizeBatch: the error is not checked; a resource   *)
(* of batchresult that is not authorized denies the request.              *)
(***************************************************************************)
Collect ==
    /\ pc = "collect"
    /\ LET batchresult == IF batchErr THEN <<>> ELSE decisions
       IN result' = IF \E i \in DOMAIN batchresult : ~batchresult[i]
                    THEN "denied" ELSE "authorized"
    /\ pc' = "end"
    /\ UNCHANGED <<enable, request, resources, idx, inputs, indexes, decisions,
                   called, answered, batchErr>>

Next ==
    \/ AuthorizeStart
    \/ SplitResource
    \/ SplitDone
    \/ CallBatch
    \/ CallsDone
    \/ Collect

Done == pc = "end" /\ UNCHANGED vars

Spec == Init /\ [][Next \/ Done]_vars /\ WF_vars(Next)

(***************************************************************************)
(* Properties                                                             *)
(***************************************************************************)
TypeOK ==
    /\ pc \in {"authorize", "split", "call", "collect", "end"}
    /\ result \in {"none", "authorized", "denied"}
    /\ resources \in Seq(Resource)
    /\ DOMAIN inputs = DOMAIN indexes /\ DOMAIN inputs \subseteq Batch
    /\ \A b \in DOMAIN inputs :
         /\ inputs[b] \in Seq(ResourceAction)
         /\ indexes[b] \in Seq(1..Len(resources))
         /\ Len(indexes[b]) = Len(inputs[b])
    /\ decisions \in [DOMAIN resources -> BOOLEAN]
    /\ answered \in [DOMAIN resources -> BOOLEAN \cup {NoAnswer}]
    /\ called \subseteq DOMAIN inputs

\* two items of one batch that the reply check cannot tell apart: the
\* same resource type and action, for different resources
Ambiguous(rq) ==
    \E k, l \in 1..Len(rq) :
        rq[k] # rq[l] /\ rq[k].type = rq[l].type /\ rq[k].action = rq[l].action

\* When AuthorizeBatch succeeds and no batch holds two items the reply
\* check cannot tell apart, decision i is true for a resource the permit
\* check skips and is otherwise exactly the verdict the auth center gave
\* for resource i, however the center ordered its replies: the per-batch
\* index lists carry every answer back to its resource across the four
\* rounds, and the type and action check turns every other reordering
\* into an error.
DecisionsFollowReplies ==
    pc \in {"collect", "end"} /\ ~batchErr
    /\ ~(\E b \in DOMAIN inputs : Ambiguous(inputs[b])) =>
        \A i \in DOMAIN resources :
            decisions[i] = IF resources[i].kind = "permitSkip" THEN TRUE
                           ELSE answered[i] = TRUE

\* With the auth center enabled and every call successful, Authorize
\* grants the request exactly when the auth center granted every resource
\* that is neither a SkipAction nor skipped by the permit check.
AuthorizeMatchesCenter ==
    pc = "end" /\ enable /\ ~batchErr =>
        (result = "authorized" <=>
            \A i \in DOMAIN resources :
                resources[i].kind = "permitSkip" \/ answered[i] = TRUE)

\* Authorize grants a request only if the auth center is disabled, or
\* every resource it asks about was granted: an error of AuthorizeBatch
\* must not turn into a grant.
AuthorizeFailsClosed ==
    pc = "end" /\ result = "authorized" /\ enable =>
        \A i \in DOMAIN resources :
            resources[i].kind = "permitSkip" \/ answered[i] = TRUE

=============================================================================
