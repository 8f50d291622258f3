----------------------------- MODULE ZkRegDiscv -----------------------------
(***************************************************************************)
(* common/registerdiscover/zkregdiscv.go: each process of Procs runs the   *)
(* RegisterAndWatch goroutine for one service path, and one process runs   *)
(* the Discover goroutine (loopDiscover / getServerInfoByPath) on the same *)
(* path.  The ZooKeeper ensemble is the environment.                       *)
(*                                                                         *)
(* Library behaviour assumed (go-zookeeper, through zkclient, neither of   *)
(* which is in the repository):                                            *)
(*  - a watch channel has room for one event and is closed after it, so a  *)
(*    received channel stays ready for ever ("closed"); a nil channel is   *)
(*    never ready;                                                          *)
(*  - ExistW on a missing node returns err = nil and a watch for its       *)
(*    creation; on an error it returns a nil channel;                      *)
(*  - expiry of a session deletes its ephemeral nodes and fires all of its *)
(*    watches (EventNotWatching);                                          *)
(*  - a children watch fires when a child is created or deleted.           *)
(* Any call may fail (a lost connection) while the session survives; each  *)
(* failure and each expiry spends one of MaxFaults.  A node name is its    *)
(* sequence number and its data the registering process.  The discoverer's *)
(* own session is not expired.                                             *)
(***************************************************************************)
EXTENDS Integers, Sequences, SequencesExt, FiniteSets

CONSTANTS
    Procs,          \* processes calling RegisterAndWatch on the path
    MaxFaults       \* bound on failed calls and session expiries

VARIABLES
    rpc,            \* register goroutine: "select", "existw" (between the
                    \* create and ExistW) or "exited"
    registerPath,   \* registerPath; 0 is ""
    watchEvn,       \* watchEvn: "nil", "armed", "ready" or "closed"
    session,        \* the id of each process's current ZooKeeper session
    nodes,          \* the ephemeral children: [seq, owner, sess]
    nextSeq,        \* the parent's sequence counter
    faults,         \* faults spent
    ctxDone,        \* rootCxt cancelled
    dpc,            \* discover goroutine: "watch", "children", "get",
                    \* "wait" or "exited"
    watchEnv,       \* the children watch: "nil", "armed" or "ready"
    servNodes,      \* the sorted child list being read
    servers,        \* discvEnv.Server gathered so far
    env,            \* the DiscoverEvent channel (capacity 1)
    last            \* the last event the consumer took

regVars == <<rpc, registerPath, watchEvn, session>>
dscVars == <<dpc, watchEnv, servNodes, servers, env, last>>
vars == <<regVars, nodes, nextSeq, faults, ctxDone, dscVars>>

Init ==
    /\ rpc = [p \in Procs |-> "select"]
    /\ registerPath = [p \in Procs |-> 0]
    /\ watchEvn = [p \in Procs |-> "nil"]
    /\ session = [p \in Procs |-> 1]
    /\ nodes = {}
    /\ nextSeq = 1
    /\ faults = 0
    /\ ctxDone = FALSE
    /\ dpc = "watch"
    /\ watchEnv = "nil"
    /\ servNodes = <<>>
    /\ servers = <<>>
    /\ env = <<>>
    /\ last = <<>>

Seqs(ns) == {n.seq : n \in ns}

\* sortNode: children ordered by the sequence number in their name
SortNode(seqs) == SetToSortSeq(seqs, <)

OwnerOf(s) == (CHOOSE n \in nodes : n.seq = s).owner

\* a call spends a fault to fail
Fail == /\ faults < MaxFaults
        /\ faults' = faults + 1

\* a change of the children fires an armed children watch
Notify == watchEnv' = IF nodes' # nodes /\ watchEnv = "armed"
                      THEN "ready" ELSE watchEnv

\* zkcli.Del(path, -1): the node goes, or the call fails and it stays
Del(s) == \/ /\ nodes' = {n \in nodes : n.seq # s}
             /\ UNCHANGED faults
          \/ /\ s # 0
             /\ Fail
             /\ UNCHANGED nodes

\* timer case with registerPath = "": CreateEphAndSeqEx, then ExistW
Tick(p) ==
    /\ rpc[p] = "select" /\ registerPath[p] = 0
    /\ \/ /\ nodes' = nodes \cup
                 {[seq |-> nextSeq, owner |-> p, sess |-> session[p]]}
          /\ nextSeq' = nextSeq + 1
          /\ registerPath' = [registerPath EXCEPT ![p] = nextSeq]
          /\ rpc' = [rpc EXCEPT ![p] = "existw"]
          /\ UNCHANGED faults
       \/ /\ Fail
          /\ UNCHANGED <<nodes, nextSeq, registerPath, rpc>>
    /\ Notify
    /\ UNCHANGED <<watchEvn, session, ctxDone, dpc, servNodes, servers, env, last>>

\* ExistW(registerPath); on an error Del it and clear registerPath
ExistW(p) ==
    /\ rpc[p] = "existw"
    /\ rpc' = [rpc EXCEPT ![p] = "select"]
    /\ \/ /\ watchEvn' = [watchEvn EXCEPT ![p] = "armed"]
          /\ UNCHANGED <<nodes, faults, registerPath>>
       \/ /\ Fail
          /\ watchEvn' = [watchEvn EXCEPT ![p] = "nil"]
          /\ registerPath' = [registerPath EXCEPT ![p] = 0]
          \* the Del in the same outage fails, or gets through
          /\ \/ nodes' = {n \in nodes : n.seq # registerPath[p]}
             \/ UNCHANGED nodes
    /\ Notify
    /\ UNCHANGED <<session, nextSeq, ctxDone, dpc, servNodes, servers, env, last>>

\* watchEvn case: Del(registerPath), registerPath = ""
WatchEvent(p) ==
    /\ rpc[p] = "select" /\ watchEvn[p] \in {"ready", "closed"}
    /\ Del(registerPath[p])
    /\ registerPath' = [registerPath EXCEPT ![p] = 0]
    /\ watchEvn' = [watchEvn EXCEPT ![p] = "closed"]
    /\ Notify
    /\ UNCHANGED <<rpc, session, nextSeq, ctxDone, dpc, servNodes, servers, env, last>>

\* mutant: the watchCtx.Done() case deletes the node and goes on selecting
RegisterDoneNoReturn(p) ==
    /\ rpc[p] = "select" /\ ctxDone
    /\ Del(registerPath[p])
    /\ Notify
    /\ UNCHANGED <<rpc, registerPath, watchEvn, session, nextSeq, ctxDone, dpc,
                   servNodes, servers, env, last>>

\* watchCtx.Done() case: Del(registerPath) and return
RegisterDone(p) ==
    /\ rpc[p] = "select" /\ ctxDone
    /\ Del(registerPath[p])
    /\ rpc' = [rpc EXCEPT ![p] = "exited"]
    /\ Notify
    /\ UNCHANGED <<registerPath, watchEvn, session, nextSeq, ctxDone, dpc,
                   servNodes, servers, env, last>>

(***************************************************************************)
(* The environment: session expiry and cancellation of rootCxt.            *)
(***************************************************************************)

\* the session of p expires: its ephemeral nodes go, its watches fire, and
\* the client continues on a new session
Expire(p) ==
    /\ rpc[p] # "exited"
    /\ Fail
    /\ nodes' = {n \in nodes : ~(n.owner = p /\ n.sess = session[p])}
    /\ session' = [session EXCEPT ![p] = @ + 1]
    /\ watchEvn' = [watchEvn EXCEPT ![p] = IF @ = "armed" THEN "ready" ELSE @]
    /\ Notify
    /\ UNCHANGED <<rpc, registerPath, nextSeq, ctxDone, dpc, servNodes,
                   servers, env, last>>

Cancel ==
    /\ ~ctxDone
    /\ ctxDone' = TRUE
    /\ UNCHANGED <<regVars, nodes, nextSeq, faults, dscVars>>

(***************************************************************************)
(* The discover goroutine.                                                 *)
(***************************************************************************)

\* loopDiscover: WatchChildren, retried after a sleep on an error
WatchChildren ==
    /\ dpc = "watch"
    /\ \/ /\ watchEnv' = "armed"
          /\ dpc' = "children"
          /\ UNCHANGED faults
       \/ /\ Fail
          /\ UNCHANGED <<watchEnv, dpc>>
    /\ UNCHANGED <<regVars, nodes, nextSeq, ctxDone, servNodes, servers, env, last>>

\* mutant: discvEnv is not reset when getServerInfoByPath starts over
GetChildrenNoReset ==
    /\ dpc = "children"
    /\ \/ /\ servNodes' = SortNode(Seqs(nodes))
          /\ dpc' = "get"
          /\ UNCHANGED <<faults, servers>>
       \/ /\ Fail
          /\ UNCHANGED <<servNodes, servers, dpc>>
    /\ UNCHANGED <<regVars, nodes, nextSeq, ctxDone, watchEnv, env, last>>

\* getServerInfoByPath: GetChildren and sortNode, retried on an error
GetChildren ==
    /\ dpc = "children"
    /\ \/ /\ servNodes' = SortNode(Seqs(nodes))
          /\ servers' = <<>>
          /\ dpc' = "get"
          /\ UNCHANGED faults
       \/ /\ Fail
          /\ UNCHANGED <<servNodes, servers, dpc>>
    /\ UNCHANGED <<regVars, nodes, nextSeq, ctxDone, watchEnv, env, last>>

\* mutant: a failed Get skips the child, as the ErrNodeExists branch does
GetNodeSkip ==
    /\ dpc = "get"
    /\ Len(servers) < Len(servNodes)
    /\ LET s == servNodes[Len(servers) + 1] IN
       \/ /\ s \in Seqs(nodes)
          /\ servers' = Append(servers, OwnerOf(s))
          /\ UNCHANGED <<dpc, faults, servNodes>>
       \/ /\ s \notin Seqs(nodes)
          /\ dpc' = "children"
          /\ UNCHANGED <<servers, faults, servNodes>>
       \/ /\ Fail
          /\ servNodes' = RemoveAt(servNodes, Len(servers) + 1)
          /\ UNCHANGED <<servers, dpc>>
    /\ UNCHANGED <<regVars, nodes, nextSeq, ctxDone, watchEnv, env, last>>

\* one Get of the server loop; an error (the child is gone, or the call
\* fails) starts getServerInfoByPath again
GetNode ==
    /\ dpc = "get"
    /\ Len(servers) < Len(servNodes)
    /\ LET s == servNodes[Len(servers) + 1] IN
       \/ /\ s \in Seqs(nodes)
          /\ servers' = Append(servers, OwnerOf(s))
          /\ UNCHANGED <<dpc, faults>>
       \/ /\ s \notin Seqs(nodes)
          /\ dpc' = "children"
          /\ UNCHANGED <<servers, faults>>
       \/ /\ Fail
          /\ dpc' = "children"
          /\ UNCHANGED servers
    /\ UNCHANGED <<regVars, nodes, nextSeq, ctxDone, watchEnv, servNodes, env, last>>

\* return discvEnv, and env <- it (blocks while the channel is full)
Send ==
    /\ dpc = "get"
    /\ Len(servers) = Len(servNodes)
    /\ env = <<>>
    /\ env' = <<servers>>
    /\ dpc' = "wait"
    /\ UNCHANGED <<regVars, nodes, nextSeq, faults, ctxDone, watchEnv,
                   servNodes, servers, last>>

\* the select of loopDiscover
WaitChange ==
    /\ dpc = "wait"
    /\ \/ /\ watchEnv = "ready"
          /\ dpc' = "watch"
       \/ /\ ctxDone
          /\ dpc' = "exited"
    /\ UNCHANGED <<regVars, nodes, nextSeq, faults, ctxDone, watchEnv,
                   servNodes, servers, env, last>>

\* the reader of the Discover channel
Consume ==
    /\ env # <<>>
    /\ last' = Head(env)
    /\ env' = <<>>
    /\ UNCHANGED <<regVars, nodes, nextSeq, faults, ctxDone, dpc, watchEnv,
                   servNodes, servers>>

Finished ==
    /\ ctxDone /\ dpc = "exited" /\ env = <<>>
    /\ \A p \in Procs : rpc[p] = "exited"
    /\ UNCHANGED vars

Register(p) == Tick(p) \/ ExistW(p) \/ WatchEvent(p) \/ RegisterDone(p)

Discover == WatchChildren \/ GetChildren \/ GetNode \/ Send \/ WaitChange

Next ==
    \/ \E p \in Procs : Register(p) \/ Expire(p)
    \/ Cancel
    \/ Discover
    \/ Consume
    \/ Finished

\* The goroutines never block for ever while a case is ready, and Go's
\* select picks among ready cases at random; the consumer keeps reading.
\* Faults and cancellation are the environment's and are not fair.
Fairness ==
    /\ \A p \in Procs : WF_vars(Register(p))
    /\ WF_vars(Discover)
    /\ WF_vars(Consume)

Spec == Init /\ [][Next]_vars /\ Fairness

(***************************************************************************)
(* Properties.                                                             *)
(***************************************************************************)

TypeOK ==
    /\ rpc \in [Procs -> {"select", "existw", "exited"}]
    /\ watchEvn \in [Procs -> {"nil", "armed", "ready", "closed"}]
    /\ registerPath \in [Procs -> 0..nextSeq - 1]
    /\ \A n \in nodes : n.seq \in 1..nextSeq - 1 /\ n.owner \in Procs
    /\ dpc \in {"watch", "children", "get", "wait", "exited"}
    /\ watchEnv \in {"nil", "armed", "ready"}
    /\ Len(servers) <= Len(servNodes) /\ Len(env) <= 1
    /\ faults \in 0..MaxFaults

\* The servers the path lists, in sequence order
Listed == [i \in 1..Cardinality(nodes) |-> OwnerOf(SortNode(Seqs(nodes))[i])]

\* Discovery converges: once registrations stop changing, the consumer
\* eventually holds an event listing exactly the registered servers, in
\* node order, and keeps it (loopDiscover re-reads on every children
\* event and getServerInfoByPath retries a read that raced a deletion).
DiscoveryConverges == <>[](ctxDone \/ last = Listed)

\* p is registered: the node registerPath names is alive
Registered(p) == registerPath[p] \in Seqs(nodes)

\* own nodes of p: the children whose data names p
Own(p) == {n \in nodes : n.owner = p}

\* Each process ends up registered exactly once: after the faults end, each
\* RegisterAndWatch goroutine eventually has its own node alive for good,
\* watched, and no other node of its own left behind, until it is cancelled.
RegisteredOnce ==
    \A p \in Procs : <>[](rpc[p] = "exited" \/
                          (Registered(p) /\ rpc[p] = "select" /\ Cardinality(Own(p)) = 1))


\* Cancelling rootCxt ends every goroutine of the package: each
\* RegisterAndWatch goroutine leaves through its watchCtx.Done() case
\* (its ticker case stays ready too, and select may pick it), and
\* loopDiscover returns at its select once its send on the one-slot env
\* channel, which has no Done case, has been taken by the reader.
ShutdownEnds ==
    ctxDone ~> (dpc = "exited" /\ \A p \in Procs : rpc[p] = "exited")

=============================================================================
