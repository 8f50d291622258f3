# Model checking icenter: the mainline topology engine, the auth center client, ZooKeeper registration, server start-up, unique validation, the set iterator and attribute groups

This directory holds TLA+ models of the icenter code base (a fork of the BlueKing CMDB
services, in Go under `src/src`), the TLC configurations that check them, and
`PROJECT.json`, which maps every definition to the lines it models.

## 1. The system

The parts of the repository, and how they interact:

| part | code | state it keeps | operations |
|---|---|---|---|
| mainline instance topology engine | `source_controller/coreservice/core/mainline/manager.go`, `common/metadata/core_service.go` | one `InstanceMainline` per request: the spine `modelIDs`, `objectParentMap`, three document slices, `instanceMap`, `allTopoInstances`, and the tree root | `LoadModelParentMap`, `LoadSet/Module/MainlineInstances`, `ConstructBizTopoInstance`, `OrganizeSet/Module/MainlineInstance`, `CheckAndFillingMissingModels`, `ConstructInstanceTopoTree`, `GetRoot` |
| mainline REST handler | `coreservice/service/mainline.go` | none | decodes `bk_biz_id` and `with_detail` and calls `TopoOperation.SearchMainlineInstanceTopo` (not under `src`; it runs the engine's steps in order) |
| ZooKeeper register/discover | `common/registerdiscover/zkregdiscv.go`, `common/backbone/register.go` | the registered ephemeral path and the watch channel | `RegisterAndWatch` (ticker and watch loop), `loopDiscover`, `sortNode` |
| auth center client | `auth/authcenter/authcenter.go` | `acDiscovery{servers, index}` under a mutex | `AuthorizeBatch` (split into business/system and any/exact batches, then put the decisions back in request order), `GetServers` (round robin) |
| backbone and server start-up | `common/backbone/backbone.go`, `common/backbone/register.go`, `coreservice/app/server.go`, `topo_server/app/server.go`, `admin_server/app/server.go` | `Engine.Language`, `Engine.CCErr` under `Engine.Mutex`; each server's `Config`, written by its config callback (the core and topology callbacks with no lock, the admin one under `configLock`) | `NewBackbone` (validate, connect, register in ZooKeeper, start the config center), each server's `Run` with its wait loop, the config callbacks |
| auto actions | `common/core/cc/api/api_resource.go` | an error channel | `RunAutoAction` |
| auth synchroniser | `admin_server/synchronizer` | a 1000-slot work queue and 3 workers | `Run` (start-up only; the producer and workers are not under `src`), called by the admin server, which ignores its error |
| framework set iterator | `framework/core/output/module/inst/iterator_inst_set.go` | `buffer`, `bufIdx`, the query condition | `NewIteratorInstSet`, `Next`, `ForEach` (offset paging over the set collection, which requests write at the same time) |
| uniqueness validator | `coreservice/core/instances/validator_unique.go` | none of its own; it reads the instance collection | `validCreateUnique`, `validUpdateUnique` (one search per unique constraint, before the caller's write) |
| attributes and property groups | `topo_server/core/operation/attribute.go`, `coreservice/core/model/model_attribute_group_private.go` | none of their own; the attribute and group collections | `CreateObjectAttribute` (search the group, create the default group, create the attribute), `DeleteObjectAttribute`, `UpdateObjectAttribute`, `FindObjectAttributeWithDetail`; the helpers `groupIDIsExists` and `groupNameIsExists`, which the default group's create is taken to run |
| everything else | topo server services, admin upgraders, api machinery, metadata types | none | request decoding and forwarding, one-shot migrations, HTTP stubs |

The core, and the subject of `spec.md`, is the topology engine. A request runs
a single goroutine. It resolves the spine from the model tree by following the
first child down to the module. It then loads the business's sets, modules and
custom-level instances with three independent store reads, normalises every
document into a `TopoInstance` indexed by `"<obj>:<id>"`, and repairs missing
parents with a lookup by `bk_inst_id`. Finally it assembles the tree with a
memo map of nodes, repairing again on demand. The idle pool set, which hangs
directly under the business whatever the custom levels, is a special case in
both the repair and the assembly.

Behaviours that make the engine hard to get right, and that the model covers:

- The repair loop `range`s over a slice it appends to, so its length is read once. The assembly loop re-reads `len()` on every pass.
- The repair lookup filters by id alone. The assembly lookup filters by id and model.
- The idle pool exception is applied on different conditions in the two passes: `default == 1` with `biz:<bk_parent_id>` in the repair, and `bk_parent_id == bizID` in the assembly, which is only tried after the memo lookup.
- Every store read can fail. Every error ends the request, except a lookup that finds nothing in the assembly, which is skipped.
- The memo entry for a parent is written on every miss, and the root is whichever business-typed parent node was used last.

## 2. Modules

### `MainlineTopo.tla`: the engine

A state is the `InstanceMainline` between two steps of one request, plus the
store contents, which stay fixed during the request:

- `setTable`, `moduleTable`, `instTable`, `appExists`, `withDetail` hold the store contents and the request flag.
- `pc` is the step the request is at: `loadSet`, ..., `fill`, `construct`, and then `done` or `error`.
- `fillIdx`, `fillLen` and `cIdx` are the two loop indices. `fillLen` is the slice length that `range` captured.
- `errKind` is the error that was returned, abstracted to its kind.

Node pointers are indices into `nodes`, and `topoInstanceNodeMap` maps a key to
an index. Detail payloads are abstracted to `"empty"` or `"doc"`. A document
without `bk_parent_id` is the model value `NoField`. A missing
`objectParentMap` entry reads as `NoType`, the Go zero value.

There is one action per method:

- `LoadSetInstances`, `LoadModuleInstances`, `LoadMainlineInstances`, `ConstructBizTopoInstance`, `OrganizeSetInstance`, `OrganizeModuleInstance` and `OrganizeMainlineInstance` are the loaders and normalisers, each a whole method.
- `CheckAndFillingMissingModels` is one loop iteration of the repair, and `FillDone` is the loop's exit.
- `ConstructInstanceTopoTree` is one loop iteration of the assembly, and `ConstructDone` is its exit.

Every disjunct of an action is one path through the code: an early
`continue`, an error return, or the append. `StoreError` is an error return of
a store read, allowed when `StoreMayFail`. The order of the steps comes from
the spec (§2), because the orchestrating `TopoOperation` is not under `src`.

The properties compare the engine with reference definitions written from
`spec.md` §3–§8, not from the code:

- `WellFormed` describes correct data. Generic ids are unique, there is one idle pool set and it is under the business, and every loaded record's ancestry through the *intended* spine (`Spine`) is in the store.
- `ExpectedKeys` and `ExpectedEdges` are the tree that such data defines.
- `Flatten` is the pre-order traversal of the returned tree.
- `RefPath` is a key's chain of parents in the store.

`TraversalFindNode` is `TopoInstanceNode.TraversalFindNode` (`core_service.go`), the
depth-first search that callers run on the returned tree. It is a RECURSIVE
operator over `nodes`, bounded by the spine's depth, and is checked against
`RefPath`.

### `AuthCenter.tla`: `Authorize` and `AuthorizeBatch`

A state is one `Authorize` request between two steps. The variables are:

- `request` is `a.Resources`, and `resources` is the list after the `SkipAction` filter;
- `idx` is the bucketing loop index;
- `inputs` and `indexes` map each batch to its `ResourceAction`s and to their resource indices;
- `decisions`, `called`, `batchErr` and `result` are the request's progress and outcome;
- `answered` is a history variable holding the auth center's verdict on each resource.

The four structures of the code (business "any" and "exact" maps, and the
system "any" and "exact" lists) are one function keyed by a batch record
`[scope, exact, biz]`. A resource is abstracted to what the code branches on:

- `kind` is the outcome of `ShouldSkipAuthorize`, `adaptorAction` and `adaptor`, whose code is not under `src`, or the `SkipAction` action;
- its type, where `GlobalTypes` are forced to business 0;
- its action;
- its business id;
- the `ResourceID` that `adaptor` returns.

The actions are:

- `AuthorizeStart`: the enable check and the filter in `Authorize`;
- `SplitResource`: one iteration of the bucketing loop;
- `SplitDone`: the end of that loop;
- `CallBatch`: one call to the auth center, in the code's four rounds;
- `CallsDone`: the end of the rounds;
- `Collect`: the rest of `Authorize`.

The auth center is the environment. A call may fail, return a wrong count, or
return verdicts in request order, or in any order when `AllowReorder` holds.
A verdict depends only on the item asked.

### `AcDiscovery.tla` and `AuthClient.tla`: the rest of the auth center client

`AcDiscovery` is `acDiscovery.GetServers`. One action is one call, since the
mutex makes calls atomic. `firsts` keeps the first server of each of the last
`len(servers)` lists returned.

`AuthClient` starts from any configuration map of the `auth` prefix, with each
key missing, empty, valid or malformed. An address value is the list
`strings.Split` makes of it, which always has a part: `""` gives `[""]`, and
`WithSlashes` appends `"/"` to every part without it, so an empty value
becomes the server `"/"`. It runs `ParseConfigFromKV` (an operator that
follows the early returns in order; the `len(cfg.Address) == 0` return can
never be taken) and `NewAuthCenter`. The
config is kept even when parsing returns an error, as the topology and admin
servers do. The methods are actions, each with its `Config.Enable` check and
its validation:

- `RegisterResource` (with `DryRunRegisterResource`);
- `DeregisterResource`;
- `UpdateResource`;
- `ListResources`;
- the four listing queries, as `QueryAuthorized`.

Every call that reaches the auth center first steps `AD!GetServers`, the
instance of `AcDiscovery` (or takes `GetServers`' error when the list is
empty). The auth center serves the call or fails it. `registry` is what it
holds, keyed by resource and scope. Both callers hand `NewAuthCenter` a nil
TLS configuration, and the error of `util.NewClient` (not in the repository)
is taken not to occur for it.


### `ZkRegDiscv.tla`: `RegisterAndWatch` and `loopDiscover`

Each process of `Procs` runs the `RegisterAndWatch` goroutine for one service
path, and one process runs the discover goroutine on the same path. The
ZooKeeper ensemble is the environment. The variables are:

- per process: `rpc` (the loop's position), `registerPath` (0 is `""`), `watchEvn` (`"nil"`, `"armed"`, `"ready"` or `"closed"`) and `session`;
- in ZooKeeper: `nodes`, the ephemeral children as `[seq, owner, sess]` records, and `nextSeq`;
- for the discoverer: `dpc`, `watchEnv`, `servNodes` (the sorted list being read), `servers`, `env` (the capacity-1 `DiscoverEvent` channel) and `last` (what the consumer took);
- `faults` and `ctxDone`.

A node's name is its sequence number and its data the owning process.

Each `select` case of the register loop is an action: `Tick` (create or
fail), then `ExistW`, then `WatchEvent` and `RegisterDone`. The discover loop
has `WatchChildren`, `GetChildren`, `GetNode` (one child per step), `Send`
and `WaitChange`. The environment has `Expire`, `Cancel` and `Consume`.

The go-zookeeper library is not in the repository. Its behaviour is
assumed as follows:

- a watch channel holds one event and is then closed, so it stays ready;
- a nil channel is never ready;
- `ExistW` on a missing node watches for its creation;
- an expiry deletes the session's ephemeral nodes and fires its watches.

Each failed call or expiry spends one of `MaxFaults`.

### `ServerStartup.tla`: `NewBackbone` and the three `Run` functions

The module models the core service, the topology server and the admin
server. The variables are:

- `pc`: each `Run`'s position;
- `conf`: each server's `Config`, as its callbacks leave it, and `adminNil` for the admin server's nil pointer;
- `ccOn`, `upd`, `inflight`, `stage` and `delivered`: the config center and the callbacks;
- `cnt`: the wait loops' counters;
- `svc`: the `Config` each service was built with;
- `sync`: the admin server's `AuthSynchronizer`: not started, running, or failed in `NewAuthorize` (`SynchronizerRun`).

A configuration is a record of the fields the servers read: `configReady`,
the Mongo and Redis addresses, and the auth mode: off, on, or on with
`EnableSync`.

Every `Run` begins with `newServerInfo` (`ServerInfo`), which may fail; the
core and topology servers then go to `NewBackbone`, the admin server to its
configuration file (`AfterInfo`).

`NewBackbone` is one action. Its error returns (validation, connecting,
registering, the config center) are one nondeterministic failure. The admin
server's nil `Config` is a panic there.

The core and topology callbacks take no lock, so `BeginUpdate` and then one
`WriteField` per field write them in the order of the code (`Writes`). The
admin callback holds `configLock` and is one step (`HostConfigUpdate`).

The rest of each `Run` has these actions:

- core: `CoreWait` (one pass of the `sleepCnt` loop) and `CoreStart` (`SetConfig`, `StartServer`);
- topology: `CheckForReadiness` and `TopoStart`;
- admin: `ParseConfigFile` and `AdminStart`. With the synchroniser configured, `AdminStart` calls `AuthSynchronizer.Run`, which fails when `NewAuthorize` does; `Run` drops that error and the server serves anyway.

The config center package is not in the repository. Its callbacks are taken
to be asynchronous, after `NewBackbone` returns. That is what the polling
loops of the core and topology servers are written to wait for.

### `InstanceUnique.tla`: the unique-constraint validator

The validator runs before the caller writes: `CreateModelInstance` and
`UpdateModelInstance` (not in the repository) validate, then insert or
`$set`. Nothing makes the two steps atomic, and no unique index is created.
The module runs concurrent create and update requests on one object's
instances, each as two steps: `Create` or `Update` (the validator, on the
store as it is then) and `Write`. The variables are:

- `uniques`: the unique constraints `SearchUnique` returns;
- `store`: instance id to document (its key property values, `bk_data_status` and business label);
- `req`: each request's step and what it validated;
- `snap`, `lastw` and `clock`: for each instance, the store its last write was validated on and when that write happened;
- `nextId`: the id the next created instance takes.

Instances are also deleted (`DeleteModelInstance`, declared in the core
service's interface and reached from the topology server's `DELETE /set`
routes; its handler is not in the repository). Ids come from an increasing
sequence and are never reused; an update whose instance was deleted after
its validation matches nothing (`Written`).

`Rejects` is the loop over the constraints: a bad key (`idToProperty` or the
kind check), or a duplicate among enabled documents of the request's label
scope, unless the data has an empty key and the constraint is not
`MustCheck`. `ValidUpdateUnique` checks the stored document merged with the
update and excludes the instance itself. Every store call may fail.

### `SetIterator.tla` and `InstanceSetReads.tla`: the set iterator on a live collection

`SetIterator` reads a `store` variable it never writes. Its state is the
iterator's `buffer` and `bufIdx`, and for checking: `itPc`, `from` (the
offset a `ForEach` began at), `resumed` and `lastEnd` (how the previous
`ForEach` ended), `visited` (what the callback got), `begun` (the ids in the
collection when the `ForEach` began) and `calls`. `SearchSets(start)` is the
page of at most `PageSize` ids at offset `start` of the collection as it is
then, in id order: ids come from an increasing sequence, so insertion order
is id order. Sets are created and deleted between searches. A buffered item
is its id: no property looks at the copied document. The actions are `NewIteratorInstSet` (first page; a failed search
gives no iterator), `ForEachBegin` and `Next`, one turn of `ForEach`'s loop:
a search when the buffer is used up (an error ends `ForEach`; an empty page
resets `bufIdx` to 0, keeps the buffer, and is `io.EOF`), then the item at
`bufIdx` to the callback, which may return an error.

`InstanceSetReads` extends `InstanceUnique` with the iterator on the same
`store` (the object is `bk_set`): each step is a request's or the iterator's.

### `AttributeGroup.tla`: attributes and their property groups

Every store call is a step, so three concurrent requests interleave
between them. The variables are:

- `groups`: the group rows;
- `attrs`: the attribute rows;
- `req`: each request's step;
- `clock`: store writes so far, which number the rows.

`CreateObjectAttribute` searches for the attribute's group. Finding none,
it creates the object's default group (`CheckGroup`, then `InsertGroup`),
and then the attribute (`CreateAttr`). `DeleteObjectAttribute` reads with
`FindObjectAttribute`'s label condition, then deletes (`DeleteModelAttr`).
`UpdateObjectAttribute` writes the request data, group included.
`FindObjectAttributeWithDetail` reads each attribute's groups and reports
one name (`DetailGroup`).

The group operation that creates the default group, and the core service
handler behind it, are not in the repository. The model takes the create to
run the core service's `groupIDIsExists` and `groupNameIsExists` and then
insert.

### `MC_MainlineTopo.tla`: the model trees

This module defines three mainline model trees and their spines: the default
tree (business, set, module), a tree with one custom level (used by
`mainline_tree`), and a tree with two custom levels (used by
`mainline_nested`).

## 3. Runs

Both mainline runs use business id 1, two set ids, one module id, parent ids
{1, 2} and at most two generic instance documents; `mainline_tree` also lets
a set be the idle pool set. Every store read may fail, and both values of
`with_detail` occur. Ids 1 and 2 are enough
to produce every collision the code is sensitive to:

- a generic id equal to the business id;
- a generic id equal to a set id;
- a parent id naming no document;
- two documents with one id.

Two generic documents are enough for a two-deep chain of missing custom levels
and for an ambiguous lookup.

| run | cfg | expect | what it shows |
|---|---|---|---|
| mainline_nested | `MC_MainlineTopo_nested.cfg` | pass (484k states) | With two custom levels, a well-formed business yields exactly the tree of its spine (`WellFormedTreeExact`). The first pass repairs one level and, because of the `range` snapshot, not the next; the assembly's on-demand repair completes the chain. The build fails only on a store error or malformed data (`NoFalseFailure`). Every edge goes from a model to its spine parent, or from the business to the idle set (`EdgesFollowSpine`). Failing reads, unlabelled documents and generic ids equal to the business id all occur. On well-formed data, `TraversalFindModule` on the returned tree gives every module's chain of ancestors in the store, module first and business last (`ModulePathsFollowStore`). Every build ends (`BuildEnds`), although `ConstructInstanceTopoTree` re-reads the length of the slice its parent lookups append to: an appended parent is one spine level above the instance that needed it. |
| mainline_tree | `MC_MainlineTopo_tree.cfg` | violation of `TreeHoldsEveryInstance` | The returned tree does not hold every instance once with the idle pool under the business, in three ways. An idle pool set whose `bk_parent_id` names a custom instance is attached under that instance (manager.go:272, :368). The id-only repair lookup is satisfied by the child itself, the assembly then skips the child, and the build succeeds without it (manager.go:288, :384). Two sets with `bk_parent_id` equal to the business id in a custom-level business each create a business node, and the second replaces the first (manager.go:415). Each of the three is reachable under this cfg, and each breaks the property. |
| auth_batch | `AuthCenter_three.cfg` | pass (6.4M states) | Up to three resources with two resource ids cover all four rounds, with two business batches, and replies may come in any order. When no batch holds two different resources of one type and action, every decision is the auth center's verdict on its own resource (`DecisionsFollowReplies`): the reply check then matches every reordered reply to its own resource. When every call succeeds, `Authorize` grants exactly what the center grants (`AuthorizeMatchesCenter`). |
| auth_failopen | `AuthCenter_failopen.cfg` | violation of `AuthorizeFailsClosed` | `Authorize` ignores `AuthorizeBatch`'s error. A failed call yields a nil result with no denial, so the request is granted (authcenter.go:176). |
| auth_client | `MC_AuthClient.cfg` | pass (4.2k states) | From every auth configuration map, with address lists of one to four servers, empty parts and parts that already end in `/`, the client does the following. It never uses its nil `authClient` (`NoCallWithoutClient`). It keeps `GetServers`' round robin across every kind of call, including at the wrap (`RoundRobin`, `TypeOK`). |
| zk_discover | `ZkRegDiscv.cfg` | pass (1.4M states) | Two registering processes and the discoverer, with up to two failed calls or session expiries. Once the faults stop, the last event the consumer takes is the sorted list of live registrations, unless the context is cancelled (`DiscoveryConverges`). Once `rootCxt` is cancelled, every `RegisterAndWatch` goroutine and `loopDiscover` return (`ShutdownEnds`). This needs the reader of the `DiscoverEvent` channel to keep reading. The send has no `select` on the context, and with the reader's fairness removed TLC finds `loopDiscover` blocked in it after cancellation (zkregdiscv.go:136). |
| zk_once | `ZkRegDiscv_once.cfg` | violation of `RegisteredOnce` | A process must end up registered by exactly one live node of its own. Two scenarios break this, and each alone violates the property. TLC's shortest trace is the first: a session expiry between `CreateEphAndSeqEx` and `ExistW` leaves `ExistW` watching for the creation of a node that is gone, and the loop never registers again (zkregdiscv.go:71). The second shows when `Expire` is taken out of `Next`: `ExistW` fails, the following `Del` fails too, `registerPath` is cleared anyway, and the next tick creates a second node for the process (zkregdiscv.go:76). |
| startup | `MC_ServerStartup.cfg` | pass (75k states) | With `newServerInfo` failing or not, and the admin synchroniser running or failed, the core and topology servers never build their service before a config callback has run (`WaitedForConfig`), and every `Run` ends, serving or with an error or panic, whatever the config center does (`StartupEnds`). |
| startup_torn | `MC_ServerStartup_torn.cfg` | violation of `ServesDeliveredConfig` | The topology server sets `configReady` before the fields, so its service can be built with the zero `Config`, auth off (topo server.go:47). The core server can likewise get the Mongo address of one callback and the Redis address of another. |
| instance_unique | `MC_InstanceUnique.cfg` | pass (1.6M states) | Two concurrent create, update and delete requests on up to two sets, and the set iterator paging through them. Two enabled documents that a checked constraint calls duplicates exist only when the later written of them was validated on a stale version of the other, or of itself (`DuplicatesOnlyFromStaleChecks`). So the validator lets no duplicate through on its own, and the gap before the caller's write is the only way in. Every `ForEach` hands its callback sets in strictly increasing id order, so never one twice, although sets are created and deleted between its pages (`ForEachOnceInOrder`). |
| foreach_skip | `MC_InstanceUnique_skip.cfg` | violation of `ForEachSeesSurvivors` | A `ForEach` that ends at `EOF` and began at the first set has not handed its callback every set that was there when it began and is still there. A set deleted at or before the iterator's offset shifts the later sets down one, and the next offset search steps over one of them (iterator_inst_set.go:64). |
| attr_group_missing | `MC_AttributeGroup_group.cfg` | violation of `AttrGroupExists` | `CreateObjectAttribute` finds no group of the attribute's own, creates the default group instead, and stores the attribute under the missing group (attribute.go:94). |

`InstanceUnique` uses two key properties, one non-empty value and the empty
one, one business label, and two sets of constraints: one with a
non-`MustCheck` single key and a `MustCheck` pair, and one with a bad key.
The collection starts with at most one instance, at most two are ever
created, and at most one is deleted (`MaxInit`, `MaxInst`, `MaxDeletes`).
Two requests then reach both races: two creates checked before either
write, and two updates of one instance, each harmless alone, that together
duplicate the other instance. The iterator's page holds one set
(`PageSize`) and it runs `ForEach` twice (`MaxForEach`), so a set created
or deleted between pages, a second `ForEach` after `EOF` or after an error,
and a failed search all occur; the skip needs only a delete before the
iterator's offset and one set after it. The requests are interchangeable
model values, so the run uses symmetry over them. `AttributeGroup` is
checked only by its violation run, with one object, the default group and
one other, one label, three requests and four store writes: enough for an
attribute that names a group its object lacks, with or without the default
group already there.

The AuthCenter bounds are two types (one global), one or two actions,
business ids 0–2 and two resource ids. Three resources are enough to
reach a business batch, a system batch and a skipped resource in one request.
Two resources with different ids are enough to reach a reordered pair. When
two such resources have one type and action, the reply check at
authcenter.go:402 cannot tell their replies apart, and swapped replies make
the decisions swap; TLC finds this when the precondition of
`DecisionsFollowReplies` is dropped. The code and the repository say nothing
of whether the auth center may reorder one call's results, so the property
states what holds outside that case, and the case is a hazard of
`PROJECT.json`, not a run.

`ZkRegDiscv` uses two processes, because a second registration is what makes
the discoverer's sorted list and the node owners differ, and two faults,
because the violations need one fault plus one expiry or two failed calls.
`ServerStartup` uses `APPConfigWaitTime = 2` and `waitForSeconds = 3`: a
configuration can then arrive before the first poll, between polls or after
the last one. The passing run allows one callback per server. The violation
run allows two, with two complete configurations, so that two callbacks can
mix. The three servers are separate processes with no shared state, so the
model interleaves them only to check them in one run.

Each property of the passing runs has a mutant in `PROJECT.json`: a plausible
bug in the mapped code that TLC finds through that property. The mutants are:

- the parent map built child-wards;
- the label filter dropped from the generic loader;
- the lookup filtered by label;
- a set's parent read from its own id;
- `TraversalFindNode` returning a child's hit without appending the node searched from;
- the assembler's loop index not advanced past a skipped instance;
- an off-by-one in the recorded resource index;
- decisions rebuilt per reply;
- the skip decision left unset;
- `GetServers`' bound test loosened to `index < num` (for `TypeOK` and `RoundRobin`);
- `ListResources` without its `Config.Enable` check;
- `GetChildren` keeping the previous partial server list;
- a failed `Get` of one child skipping the child instead of starting again;
- the register loop's `Done` case deleting the node without returning;
- the core wait loop running while `sleepCnt <= APPConfigWaitTime`;
- the core wait loop never counting;
- `CheckForReadiness` returning nil on timeout;
- a created instance written under an id past the next one (`ReadsTypeOK`);
- `validUpdateUnique` checking the stored document without the update merged in;
- `Next` searching the next page from the offset before `bufIdx`, which hands a set over again.

The passing runs check for deadlock, except `startup`. `MainlineTopo` and
`AuthCenter` have no deadlock because every request ends in `done` or
`error`, and `Finished` and `Done` let them stutter there. `AuthClient` can
always take another call, and in `ZkRegDiscv` the ticker can always fire.
`InstanceUnique` stutters in `Finished` once every request is answered and
no create or delete is left within the bounds (the iterator's `ForEach`
calls are bounded by `MaxForEach`), and every request step has a failure
branch that is always enabled.
In `ServerStartup` every `Run` really stops: it returns, panics, or blocks on
`ctx.Done()` once serving, and the config center has a bounded number of
callbacks, so `MC_ServerStartup.cfg` says `CHECK_DEADLOCK FALSE`.

### Fairness

`MainlineTopo` and `AuthCenter` assume `WF_vars(Next)`. `AuthClient`, `InstanceUnique` and `SetIterator` check only safety and assume no fairness.

- A mainline request is one goroutine that performs its steps in sequence and never blocks. Every store read returns, with data or an error (spec §5).
- `Authorize` runs on one goroutine, and every call returns a reply or an error.

`ZkRegDiscv` is fair only to the code's goroutines, with weak fairness on
each register loop, on the discover loop and on the consumer. A Go `select`
picks among its ready cases at random, so a case that stays ready is
eventually taken. Faults, expiries and `Cancel` are the environment's and
get no fairness: the properties hold whether or not they happen, and
`DiscoveryConverges` speaks of the time after the last of them. The
consumer's fairness is an assumption about a reader that is not under
`src`; `ShutdownEnds` depends on it.

`ServerStartup` is fair to each `Run` goroutine and to a callback that has
begun, since it runs on the config center's goroutine and takes no lock that
`Run` holds. It is not fair to the config center's decision to call back. A
configuration may never come, and the wait loops must end anyway.

## 4. Findings

The violation runs, with the details in `PROJECT.json`:

1. The idle pool set is not always a child of the business (spec §4.4, §8).
2. A missing parent in the assembly drops a subtree silently, where the spec requires `MissingParentError` (§4.5, §8).
3. The business node can be replaced. That breaks one node per key and leaves a root that lacks children (§3).

All three break `TreeHoldsEveryInstance` in the `mainline_tree` run.
4. `Authorize` fails open. Any error of `AuthorizeBatch` becomes `Authorized: true`.
5. A session expiry right after the create leaves `RegisterAndWatch` waiting on a creation watch for a node that is gone. The process stays unregistered until the context ends.
6. When `ExistW` and then `Del` both fail while the session survives, the process ends up with two registrations.
7. The topology server can start with the zero `Config`, which means no Mongo address and auth disabled, because `configReady` is set before the fields. The core server can mix two configurations.
8. `CreateObjectAttribute` creates the default group when the attribute's own group is missing. It then stores the attribute under the missing group. If the default group already exists, the request fails.
9. `ForEach` pages by offset, so a set deleted before the iterator's position makes the next page skip a set that was there all along (`foreach_skip`).

These are recorded as hazards in `PROJECT.json` rather than as runs:

- A parent repaired in the assembly carries its document even without `with_detail`, against §6. The model builds such a parent with its document, but no run checks for it: every violation run slot holds a tree-shape, authorisation, registration, start-up or group finding.
- Two exact resources of one type and action can exchange decisions if the auth center reorders its reply; `DecisionsFollowReplies` excludes that case by its precondition.
- `ParseConfigFromKV` accepts an empty address value: `strings.Split` gives one empty part, and the client gets the server `"/"`. Its `len(cfg.Address) == 0` check can never fail.
- An admin config file with an empty `ConfigMap` makes `Run` dereference a nil `Config`.
- The admin server drops the error of `AuthSynchronizer.Run`. A failed `NewAuthorize` leaves it serving with synchronisation configured and never running.
- Two updates of one instance can each pass `validUpdateUnique` on a version the other replaces, and together make a duplicate.

These findings are not properties of the model:

- The repair's `range` snapshot differs from §4.4, which asks for iteration to the grown length. The checked runs show that the assembly's second repair hides this difference on well-formed data.
- An empty business returns a nil root, as §4.5 allows.

## 5. Not modelled, and the plan

Next, in this order:

1. **Concurrent writer** (`MainlineTopo` extended): a writer process that moves, creates or deletes set, module and generic documents between any two reads of a build (spec §5).
2. **Abstract topology**: a specification whose state is the pair of store and result, with `MainlineTopo` shown to refine it under `WellFormed` data (INSTANCE ... WITH).
3. **Set iterator contents**: document copies in the buffer, to state what a second `ForEach` after `EOF` replays: `Next` resets `bufIdx` but keeps `buffer`, so the callback gets the documents as the first `ForEach` read them.
4. Composing `ServerStartup`'s registration with `ZkRegDiscv`'s discoverer.

These parts are left out, with the reason for each:

- `RunAutoAction` has no caller in the repository, and the actions it runs are registered by packages that are not under `src`. It waits on an error channel that no goroutine writes when every action succeeds, and so blocks for good; with no caller, that wait is never reached.
- The object attribute group operations (create, delete, update) and the topology server's group routes exist only as REST client stubs and route tables; their handlers are not in the repository, and the model takes the default group's create to be the core service's checks and insert.
- The REST services, api machinery, upgraders, export and clear are request decoding and single store calls.
- The synchroniser's producer and workers, and the insert after `validCreateUnique`, are not under `src`.
- The config center, go-zookeeper and `authClient` are not in the repository; their behaviour is assumed as each module's header says.
- `onLanguageUpdate` and `onErrorUpdate` swap tables under the engine lock and hold nothing the servers wait for.
- A set or module row whose id fields do not parse as integers is left out. The parse error return is the same as the modelled one for generic documents.
