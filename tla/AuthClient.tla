----------------------------- MODULE AuthClient -----------------------------
(***************************************************************************)
(* The auth center client of auth/authcenter/authcenter.go outside        *)
(* Authorize: its configuration (ParseConfigFromKV, NewAuthCenter), the   *)
(* resource registration calls (RegisterResource with                     *)
(* DryRunRegisterResource, DeregisterResource, UpdateResource), the       *)
(* listing calls, and getScopeInfo.  Every call that reaches the auth     *)
(* center goes through the REST client, which asks acDiscovery for its    *)
(* servers first: AcDiscovery's GetServers is composed into each call.     *)
(*                                                                         *)
(* The topology and admin servers keep the AuthConfig ParseConfigFromKV   *)
(* returns even with an error, so Init builds the client from any         *)
(* configuration map.  The auth center holds the registry; authClient,    *)
(* adaptor, convertResourceType and GenerateResourceID are not in the     *)
(* repository, so a call's success and those helpers' errors are          *)
(* nondeterministic.  A configuration map is abstracted to the keys of    *)
(* the "auth" prefix; an address is the list strings.Split returns for    *)
(* the value with its spaces removed, so it has at least one part, and a  *)
(* part may be empty ("" gives [""]).                                     *)
(***************************************************************************)
EXTENDS Integers, Sequences, FiniteSets

CONSTANTS
    ServerPool,     \* auth center addresses
    Addresses,      \* the lists strings.Split gives for an address value
    Slashed,        \* the parts that already end in "/"
    Res,            \* resource attributes callers pass
    Typed,          \* those with a non-empty Basic.Type
    Named,          \* those with a non-empty Basic.Name
    AdaptorOk,      \* those adaptor (and the type helpers) accept
    Biz,            \* the BusinessID of each resource
    Absent          \* a key missing from the configuration map

VARIABLES
    confMap,        \* the configuration map the server was given
    cfg,            \* AuthCenter.Config (address: the list after the "/"
                    \* suffixing)
    perr,           \* ParseConfigFromKV returned an error
    client,         \* authClient: "none" (not built yet), "nil" (auth
                    \* disabled) or "rest"
    registry,       \* the auth center's registered resources
    nilCall,        \* a method used the nil authClient
    servers, index, firsts   \* acDiscovery, as in AcDiscovery

AD == INSTANCE AcDiscovery WITH MaxServers <- Cardinality(ServerPool)

adVars == <<servers, index, firsts>>
vars == <<confMap, cfg, perr, client, registry, nilCall, adVars>>

ZeroAuth == [enable |-> FALSE, sync |-> FALSE, address |-> <<>>,
             secret |-> "", code |-> ""]

ConfigMaps == [enable : {Absent, "true", "false", "bad"},
               enableSync : {Absent, "", "true", "bad"},
               address : {Absent} \cup Addresses,
               appSecret : {Absent, "", "s"},
               appCode : {Absent, "", "c"}]

\* the loop over cfg.Address: "/" is appended to a part without it
WithSlashes(a) == [i \in DOMAIN a |-> IF a[i] \in Slashed THEN a[i] ELSE a[i] \o "/"]

\* a missing key reads as "" (cfg.AppSecret, exist = configmap[...])
Val(v) == IF v = Absent THEN "" ELSE v

(***************************************************************************)
(* ParseConfigFromKV: the AuthConfig it returns and whether it returns an *)
(* error, in the order of its early returns.  Its len(cfg.Address) == 0   *)
(* return is never taken: strings.Split returns at least one part.        *)
(***************************************************************************)
ParseConfigFromKV(cm) ==
    LET on     == [ZeroAuth EXCEPT !.enable = TRUE,
                                   !.sync = (cm.enableSync = "true")]
        addr   == [on EXCEPT !.address = WithSlashes(cm.address)]
        secret == [addr EXCEPT !.secret = Val(cm.appSecret)]
        code   == [secret EXCEPT !.code = Val(cm.appCode)]
        R(c, e) == [cfg |-> c, err |-> e]
    IN IF cm.enable = Absent THEN R(ZeroAuth, FALSE)
       ELSE IF cm.enable = "bad" THEN R(ZeroAuth, TRUE)
       ELSE IF cm.enable = "false" THEN R(ZeroAuth, FALSE)
       ELSE IF cm.enableSync = "bad" THEN R(ZeroAuth, TRUE)
       ELSE IF cm.address = Absent THEN R(on, TRUE)
       ELSE IF cm.appSecret \in {Absent, ""} THEN R(secret, TRUE)
       ELSE IF cm.appCode \in {Absent, ""} THEN R(code, TRUE)
       ELSE R(code, FALSE)

Init ==
    /\ confMap \in ConfigMaps
    /\ cfg = ZeroAuth
    /\ perr = FALSE
    /\ client = "none"
    /\ servers = <<>>
    /\ index = 0
    /\ firsts = <<>>
    /\ registry = {}
    /\ nilCall = FALSE

\* ParseConfigFromKV, its error logged and its config kept, then
\* NewAuthCenter: a disabled config gives new(AuthCenter), whose authClient
\* is nil; otherwise acDiscovery takes cfg.Address as its servers.  Both
\* callers pass a nil TLS configuration to util.NewClient (not in the
\* repository), whose error is taken not to occur for it.
NewClient ==
    /\ client = "none"
    /\ LET r == ParseConfigFromKV(confMap)
       IN /\ cfg' = r.cfg
          /\ perr' = r.err
          /\ client' = IF r.cfg.enable THEN "rest" ELSE "nil"
          /\ servers' = r.cfg.address
    /\ UNCHANGED <<confMap, index, firsts, registry, nilCall>>

\* getScopeInfo: a business scope when BusinessID > 0, else the system
ScopeInfo(r) == IF Biz[r] > 0 THEN <<"biz", Biz[r]>> ELSE <<"system", "bk_cmdb">>

Entries(rs) == {[id |-> r, scope |-> ScopeInfo(r)] : r \in rs}

(***************************************************************************)
(* An authClient call: the REST client takes the server list from         *)
(* acDiscovery.GetServers, which fails when the list is empty (num == 0), *)
(* and the auth center then serves the request or fails.  Through a nil   *)
(* authClient the call would be a nil dereference, recorded in nilCall.   *)
(***************************************************************************)
Call(served) ==
    /\ nilCall' = (nilCall \/ client = "nil")
    /\ \/ /\ servers = <<>>
          /\ UNCHANGED <<adVars, registry>>
       \/ /\ servers # <<>>
          /\ AD!GetServers
          /\ registry' \in {registry, served}
    /\ UNCHANGED <<confMap, cfg, perr, client>>

\* DryRunRegisterResource: every resource needs a type, and adaptor must
\* accept it; the entities carry getScopeInfo's scope
DryRunRegisterResource(rs) == \A r \in rs : r \in Typed /\ r \in AdaptorOk

(***************************************************************************)
(* RegisterResource: nil when auth is disabled, an error for no resource  *)
(* or when the dry run fails, else one registerResource call for the      *)
(* batch; ErrDuplicated is reported as success.                            *)
(***************************************************************************)
RegisterResource ==
    \E rs \in SUBSET Res :
        \/ /\ ~(cfg.enable /\ rs # {} /\ DryRunRegisterResource(rs))
           /\ UNCHANGED vars
        \/ /\ cfg.enable /\ rs # {} /\ DryRunRegisterResource(rs)
           /\ Call(registry \cup Entries(rs))

\* DeregisterResource: the same checks resource by resource, then one
\* deregisterResource call; no resource is a nil return
DeregisterResource ==
    \E rs \in SUBSET Res :
        \/ /\ ~(cfg.enable /\ rs # {} /\ DryRunRegisterResource(rs))
           /\ UNCHANGED vars
        \/ /\ cfg.enable /\ rs # {} /\ DryRunRegisterResource(rs)
           /\ Call(registry \ Entries(rs))

\* UpdateResource: a type and a name are required; the registry's entry
\* keeps its identity (only the name changes, which is not modelled)
UpdateResource ==
    \E r \in Res :
        \/ /\ ~(cfg.enable /\ r \in Typed \cap Named \cap AdaptorOk)
           /\ UNCHANGED vars
        \/ /\ cfg.enable /\ r \in Typed \cap Named \cap AdaptorOk
           /\ Call(registry)

\* mutant: ListResources without its Config.Enable check
ListResourcesNoEnable ==
    \E r \in Res :
        \/ /\ r \notin AdaptorOk
           /\ UNCHANGED vars
        \/ /\ r \in AdaptorOk
           /\ Call(registry)

\* ListResources: convertResourceType and GenerateResourceID may fail
ListResources ==
    \E r \in Res :
        \/ /\ ~(cfg.enable /\ r \in AdaptorOk)
           /\ UNCHANGED vars
        \/ /\ cfg.enable /\ r \in AdaptorOk
           /\ Call(registry)

\* GetAnyAuthorizedBusinessList, GetExactAuthorizedBusinessList,
\* AdminEntrance, GetAuthorizedAuditList: a read when auth is enabled
QueryAuthorized ==
    \/ ~cfg.enable /\ UNCHANGED vars
    \/ cfg.enable /\ Call(registry)

Calls ==
    \/ RegisterResource \/ DeregisterResource \/ UpdateResource
    \/ ListResources \/ QueryAuthorized

Next ==
    \/ NewClient
    \/ client # "none" /\ Calls

Spec == Init /\ [][Next]_vars

TypeOK ==
    /\ cfg \in [enable : BOOLEAN, sync : BOOLEAN,
                address : {<<>>} \cup {WithSlashes(a) : a \in Addresses},
                secret : {"", "s"}, code : {"", "c"}]
    /\ confMap \in ConfigMaps
    /\ perr \in BOOLEAN
    /\ client \in {"none", "nil", "rest"}
    /\ registry \subseteq [id : Res, scope : {ScopeInfo(r) : r \in Res}]
    /\ nilCall \in BOOLEAN
    /\ servers = <<>> => index = 0 /\ firsts = <<>>
    /\ servers # <<>> => AD!TypeOK

\* RoundRobin of acDiscovery, now across every kind of call the client makes
RoundRobin == AD!RoundRobin

\* No method of AuthCenter uses the nil authClient that NewAuthCenter leaves
\* when auth is disabled: each checks Config.Enable before its call.
NoCallWithoutClient == ~nilCall
====
