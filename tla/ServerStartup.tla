---------------------------- MODULE ServerStartup ----------------------------
(***************************************************************************)
(* Start-up of three servers built on common/backbone: the core service    *)
(* (source_controller/coreservice/app/server.go), the topology server      *)
(* (scene_server/topo_server/app/server.go) and the admin server           *)
(* (scene_server/admin_server/app/server.go).  Each Run goroutine builds   *)
(* its engine with backbone.NewBackbone, which registers the server in     *)
(* ZooKeeper and starts the config center; from then on the config center  *)
(* calls the server's ConfigUpdate callback on its own goroutine, and Run  *)
(* waits for the configuration before it builds its service.               *)
(*                                                                         *)
(* The config center package is not in the repository.  Its callbacks are *)
(* modelled as asynchronous, at any time after NewBackbone returns, which  *)
(* is what the polling loops of the core and topology servers wait for.    *)
(* A configuration is a record of the fields the servers read: configReady *)
(* (topology only), the Mongo and Redis addresses and AuthCenter.Enable.  *)
(* The core and topology callbacks take no lock, so each field write is a  *)
(* step of its own, in the order of the code; the admin callback holds     *)
(* configLock and is one step.  A connection, listen or client creation   *)
(* may fail: that is a nondeterministic error return.                      *)
(***************************************************************************)
EXTENDS Integers, FiniteSets, Sequences

CONSTANTS
    Configs,        \* configurations the config center may deliver
    Zero,           \* the zero value of a server's Config
    WaitTime,       \* common.APPConfigWaitTime (core polls this often)
    TopoWait,       \* waitForSeconds of CheckForReadiness
    MaxUpdates      \* bound on config callbacks per server

Servers == {"core", "topo", "admin"}

\* the fields each unlocked callback writes, in the order of the code
Writes == [core |-> <<"mongo", "redis">>,
           topo |-> <<"ready", "mongo", "auth">>]

NoConf == [ready |-> FALSE, mongo |-> "none", redis |-> "none", auth |-> "off"]

\* AuthCenter.Enable and EnableSync: off, on, or on with the synchroniser
AuthModes == {"off", "on", "sync"}

VARIABLES
    pc,             \* each Run goroutine's position
    conf,           \* each server's Config, as the callbacks leave it
    adminNil,       \* MigrateServer.Config is still nil
    ccOn,           \* the config center of the server is running
    upd,            \* callbacks the config center has begun
    inflight,       \* the configuration an unlocked callback is writing
    stage,          \* how many of its fields it has written
    delivered,      \* configurations whose callback has completed
    cnt,            \* sleepCnt (core) and i (topology) of the wait loops
    svc,            \* the Config the server's service was built with
    sync            \* the admin server's AuthSynchronizer: "none",
                    \* "running" or "failed"

vars == <<pc, conf, adminNil, ccOn, upd, inflight, stage, delivered, cnt, svc, sync>>

Init ==
    /\ pc = [s \in Servers |-> "info"]
    /\ conf = [s \in Servers |-> Zero]
    /\ adminNil = TRUE
    /\ ccOn = [s \in Servers |-> FALSE]
    /\ upd = [s \in Servers |-> 0]
    /\ inflight = [s \in Servers |-> NoConf]
    /\ stage = [s \in Servers |-> 0]
    /\ delivered = [s \in Servers |-> {}]
    /\ cnt = [core |-> 0, topo |-> 1, admin |-> 0]
    /\ svc = [s \in Servers |-> Zero]
    /\ sync = "none"

Fail(s) == /\ pc' = [pc EXCEPT ![s] = "error"]
           /\ UNCHANGED <<conf, adminNil, ccOn, upd, inflight, stage, delivered, cnt, svc, sync>>

(***************************************************************************)
(* Each Run begins with newServerInfo (the address and port of the server *)
(* options, os.Hostname), and returns its error.  The core service then   *)
(* builds its service and the backbone parameters; the admin server parses *)
(* its configuration file.                                                 *)
(***************************************************************************)
AfterInfo == [core |-> "backbone", topo |-> "backbone", admin |-> "parse"]

ServerInfo(s) ==
    /\ pc[s] = "info"
    /\ \/ Fail(s)
       \/ /\ pc' = [pc EXCEPT ![s] = AfterInfo[s]]
          /\ UNCHANGED <<conf, adminNil, ccOn, upd, inflight, stage, delivered, cnt, svc, sync>>

(***************************************************************************)
(* NewBackbone: validateParameter, the ZooKeeper client, the discovery,    *)
(* New (which registers the server through serviceRegister.Register) and   *)
(* NewConfigCenter.  Any of them may return an error, which Run returns.   *)
(* The admin server passes process.Config.Register.Address, a nil pointer  *)
(* dereference while its Config is nil.  On success the admin server       *)
(* copies *process.Config into service.Config.                             *)
(***************************************************************************)
\* the admin server's BackboneParameter reads process.Config.Register.Address
ParameterPanics(s) == s = "admin" /\ adminNil

\* where each Run goes once NewBackbone returns; the admin server first
\* sets service.Config = *process.Config
AfterBackbone == [core |-> "poll", topo |-> "check", admin |-> "loop"]

NewBackbone(s) ==
    /\ pc[s] = "backbone"
    /\ IF ParameterPanics(s)
       THEN /\ pc' = [pc EXCEPT ![s] = "panic"]
            /\ UNCHANGED <<conf, adminNil, ccOn, upd, inflight, stage, delivered, cnt, svc, sync>>
       ELSE \/ Fail(s)
            \/ /\ pc' = [pc EXCEPT ![s] = AfterBackbone[s]]
               /\ ccOn' = [ccOn EXCEPT ![s] = TRUE]
               /\ svc' = IF s = "admin" THEN [svc EXCEPT ![s] = conf[s]] ELSE svc
               /\ UNCHANGED <<conf, adminNil, upd, inflight, stage, delivered, cnt, sync>>

(***************************************************************************)
(* admin Run: ParseConfigWithFile, then onHostConfigUpdate with the file    *)
(* config, on the Run goroutine.  A file whose ConfigMap is empty leaves Config nil.  *)
(***************************************************************************)
ParseConfigFile ==
    /\ pc["admin"] = "parse"
    /\ \/ Fail("admin")
       \/ /\ pc' = [pc EXCEPT !["admin"] = "backbone"]
          /\ \/ UNCHANGED <<conf, adminNil>>
             \/ \E c \in Configs : /\ conf' = [conf EXCEPT !["admin"] = c]
                                   /\ adminNil' = FALSE
          /\ UNCHANGED <<ccOn, upd, inflight, stage, delivered, cnt, svc, sync>>

(***************************************************************************)
(* The config center begins an unlocked callback, onCoreServiceConfigUpdate *)
(* or onTopoConfigUpdate, with a new configuration, and the callback then  *)
(* writes its fields one at a time: the core callback Mongo then Redis,    *)
(* the topology callback configReady, then Mongo (with ConfigMap and the   *)
(* level maximum), then Auth.  Callbacks of one server do not overlap.     *)
(***************************************************************************)
BeginUpdate(s) ==
    /\ s \in DOMAIN Writes
    /\ ccOn[s]
    /\ stage[s] = 0
    /\ upd[s] < MaxUpdates
    /\ \E c \in Configs : inflight' = [inflight EXCEPT ![s] = c]
    /\ upd' = [upd EXCEPT ![s] = @ + 1]
    /\ stage' = [stage EXCEPT ![s] = 1]
    /\ UNCHANGED <<pc, conf, adminNil, ccOn, delivered, cnt, svc, sync>>

WriteField(s) ==
    /\ s \in DOMAIN Writes
    /\ stage[s] > 0
    /\ LET f == Writes[s][stage[s]]
           done == stage[s] = Len(Writes[s])
       IN /\ conf' = [conf EXCEPT ![s][f] = inflight[s][f]]
          /\ stage' = [stage EXCEPT ![s] = IF done THEN 0 ELSE @ + 1]
          /\ inflight' = IF done THEN [inflight EXCEPT ![s] = NoConf] ELSE inflight
          /\ delivered' = IF done THEN [delivered EXCEPT ![s] = @ \cup {inflight[s]}]
                                  ELSE delivered
    /\ UNCHANGED <<pc, adminNil, ccOn, upd, cnt, svc, sync>>

(***************************************************************************)
(* onHostConfigUpdate from the config center: under configLock, a         *)
(* non-empty ConfigMap allocates Config if it is nil and overwrites it.    *)
(***************************************************************************)
HostConfigUpdate ==
    /\ ccOn["admin"]
    /\ upd["admin"] < MaxUpdates
    /\ \E c \in Configs : /\ conf' = [conf EXCEPT !["admin"] = c]
                          /\ delivered' = [delivered EXCEPT !["admin"] = @ \cup {c}]
    /\ adminNil' = FALSE
    /\ upd' = [upd EXCEPT !["admin"] = @ + 1]
    /\ UNCHANGED <<pc, ccOn, inflight, stage, cnt, svc, sync>>

(***************************************************************************)
(* core Run: for sleepCnt < APPConfigWaitTime, continue while the Redis or *)
(* the Mongo address is empty; when the loop ends without both, return     *)
(* "Configuration item not found".                                         *)
(***************************************************************************)
ConfigComplete(c) == c.redis # "" /\ c.mongo # ""

\* mutant: the loop runs while sleepCnt <= APPConfigWaitTime
CoreWaitOffByOne ==
    /\ pc["core"] = "poll"
    /\ IF ConfigComplete(conf["core"])
       THEN /\ pc' = [pc EXCEPT !["core"] = "start"]
            /\ UNCHANGED cnt
       ELSE /\ cnt' = [cnt EXCEPT !["core"] = @ + 1]
            /\ pc' = [pc EXCEPT !["core"] = IF cnt["core"] + 1 > WaitTime
                                            THEN "error" ELSE "poll"]
    /\ UNCHANGED <<conf, adminNil, ccOn, upd, inflight, stage, delivered, svc, sync>>

\* mutant: sleepCnt is never incremented
CoreWaitNoCount ==
    /\ pc["core"] = "poll"
    /\ IF ConfigComplete(conf["core"])
       THEN pc' = [pc EXCEPT !["core"] = "start"]
       ELSE UNCHANGED pc
    /\ UNCHANGED <<conf, adminNil, ccOn, upd, inflight, stage, delivered, cnt, svc, sync>>

CoreWait ==
    /\ pc["core"] = "poll"
    /\ IF ConfigComplete(conf["core"])
       THEN /\ pc' = [pc EXCEPT !["core"] = "start"]
            /\ UNCHANGED cnt
       ELSE /\ cnt' = [cnt EXCEPT !["core"] = @ + 1]
            /\ pc' = [pc EXCEPT !["core"] = IF cnt["core"] + 1 = WaitTime
                                            THEN "error" ELSE "poll"]
    /\ UNCHANGED <<conf, adminNil, ccOn, upd, inflight, stage, delivered, svc, sync>>

\* coreService.SetConfig(coreSvr.Config, ...) copies the Config, then
\* StartServer listens; either may return an error
CoreStart ==
    /\ pc["core"] = "start"
    /\ \/ Fail("core")
       \/ /\ svc' = [svc EXCEPT !["core"] = conf["core"]]
          /\ pc' = [pc EXCEPT !["core"] = "serving"]
          /\ UNCHANGED <<conf, adminNil, ccOn, upd, inflight, stage, delivered, cnt, sync>>

(***************************************************************************)
(* topology CheckForReadiness: for i := 1; i < waitForSeconds, return nil  *)
(* once configReady is set; after the loop return a timeout error.         *)
(***************************************************************************)
\* mutant: the timeout returns nil instead of an error
CheckForReadinessTimeoutNil ==
    /\ pc["topo"] = "check"
    /\ IF conf["topo"].ready
       THEN /\ pc' = [pc EXCEPT !["topo"] = "start"]
            /\ UNCHANGED cnt
       ELSE /\ cnt' = [cnt EXCEPT !["topo"] = @ + 1]
            /\ pc' = [pc EXCEPT !["topo"] = IF cnt["topo"] + 1 = TopoWait
                                            THEN "start" ELSE "check"]
    /\ UNCHANGED <<conf, adminNil, ccOn, upd, inflight, stage, delivered, svc, sync>>

CheckForReadiness ==
    /\ pc["topo"] = "check"
    /\ IF conf["topo"].ready
       THEN /\ pc' = [pc EXCEPT !["topo"] = "start"]
            /\ UNCHANGED cnt
       ELSE /\ cnt' = [cnt EXCEPT !["topo"] = @ + 1]
            /\ pc' = [pc EXCEPT !["topo"] = IF cnt["topo"] + 1 = TopoWait
                                            THEN "error" ELSE "check"]
    /\ UNCHANGED <<conf, adminNil, ccOn, upd, inflight, stage, delivered, svc, sync>>

\* remote.NewWithDiscover(.., Config.Mongo) may fail; NewAuthCenter(Config.Auth)
\* is only logged on error; the service keeps server.Config; StartServer.
\* The reads of Config are taken in one step: a callback between them
\* tears the configuration as a callback before them already can.
TopoStart ==
    /\ pc["topo"] = "start"
    /\ \/ Fail("topo")
       \/ /\ svc' = [svc EXCEPT !["topo"] = conf["topo"]]
          /\ pc' = [pc EXCEPT !["topo"] = "serving"]
          /\ UNCHANGED <<conf, adminNil, ccOn, upd, inflight, stage, delivered, cnt, sync>>

(***************************************************************************)
(* AuthSynchronizer.Run, as the admin server calls it when AuthCenter has *)
(* Enable and EnableSync: NewAuthorize may fail, and Run returns the error *)
(* unread; otherwise it starts its workers and producer.                   *)
(***************************************************************************)
SynchronizerRun(c) == IF c.auth = "sync" THEN {"running", "failed"} ELSE {"none"}

(***************************************************************************)
(* admin Run's loop: Config is not nil here, so the body runs once: NewMgo *)
(* with Config.MongoDB, icenter.Start, and NewAuthCenter when              *)
(* AuthCenter.Enable; each may fail.  The auth client and the synchroniser *)
(* follow the Config of this moment, service.Config the copy taken after   *)
(* NewBackbone.                                                            *)
(***************************************************************************)
AdminStart ==
    /\ pc["admin"] = "loop"
    /\ ~adminNil
    /\ \/ Fail("admin")
       \/ /\ svc' = [svc EXCEPT !["admin"].auth = conf["admin"].auth]
          /\ sync' \in SynchronizerRun(conf["admin"])
          /\ pc' = [pc EXCEPT !["admin"] = "serving"]
          /\ UNCHANGED <<conf, adminNil, ccOn, upd, inflight, stage, delivered, cnt>>

Next ==
    \/ \E s \in Servers : ServerInfo(s) \/ NewBackbone(s)
    \/ ParseConfigFile
    \/ \E s \in DOMAIN Writes : BeginUpdate(s) \/ WriteField(s)
    \/ HostConfigUpdate
    \/ CoreWait \/ CoreStart
    \/ CheckForReadiness \/ TopoStart
    \/ AdminStart

\* the Run goroutines step until they return; a callback, once begun,
\* runs to its end; the config center itself promises no callback
Spec == /\ Init /\ [][Next]_vars
        /\ \A s \in Servers : WF_vars(ServerInfo(s)) /\ WF_vars(NewBackbone(s))
        /\ \A s \in DOMAIN Writes : WF_vars(WriteField(s))
        /\ WF_vars(ParseConfigFile)
        /\ WF_vars(CoreWait) /\ WF_vars(CoreStart)
        /\ WF_vars(CheckForReadiness) /\ WF_vars(TopoStart)
        /\ WF_vars(AdminStart)

Pcs == {"info", "parse", "backbone", "poll", "check", "loop", "start", "serving",
        "error", "panic"}

TypeOK ==
    /\ pc \in [Servers -> Pcs]
    /\ conf \in [Servers -> Configs \cup {Zero} \cup
                 [ready : BOOLEAN, mongo : {c.mongo : c \in Configs \cup {Zero}},
                  redis : {c.redis : c \in Configs \cup {Zero}}, auth : AuthModes]]
    /\ adminNil \in BOOLEAN
    /\ ccOn \in [Servers -> BOOLEAN]
    /\ upd \in [Servers -> 0..MaxUpdates]
    /\ inflight \in [Servers -> Configs \cup {NoConf}]
    /\ stage \in [Servers -> 0..3]
    /\ delivered \in [Servers -> SUBSET Configs]
    /\ cnt \in [core : 0..WaitTime, topo : 1..TopoWait, admin : {0}]
    /\ sync \in {"none", "running", "failed"}
    /\ svc \in [Servers -> [ready : BOOLEAN, mongo : {c.mongo : c \in Configs \cup {Zero}},
                            redis : {c.redis : c \in Configs \cup {Zero}}, auth : AuthModes]]

Ended(s) == pc[s] \in {"serving", "error", "panic"}

\* Every Run returns or serves, whatever the config center does: the core
\* poll and CheckForReadiness give up after their bounds even when no
\* configuration ever arrives.
StartupEnds == \A s \in Servers : <>Ended(s)

\* Neither the core nor the topology Run builds its service before its
\* config center has called its ConfigUpdate callback at least once.
WaitedForConfig ==
    \A s \in DOMAIN Writes : pc[s] \in {"start", "serving"} => upd[s] > 0

\* the fields of the Config a server's service reads
Read(s) == {f \in {Writes[s][i] : i \in 1..Len(Writes[s])} : f # "ready"}

\* The Config a core or topology service is built with agrees, on every
\* field it reads, with one configuration the config center delivered:
\* never the zero value, nor a mix of two callbacks.
ServesDeliveredConfig ==
    \A s \in DOMAIN Writes :
        pc[s] = "serving" =>
            \E c \in delivered[s] : \A f \in Read(s) : svc[s][f] = c[f]
====
