# TLA+ models of the HDF device manager and device nodes

This directory holds TLA+ models of the driver framework in `src/`. TLC checks them. The models cover four parts:

- the device manager service (`src/core/manager/src/devmgr_service.c`), with host processes that can die and restart;
- the device node of a host (`src/core/host/src/hdf_device_node.c`);
- the platform device and manager of the platform framework (`src/support/platform/include/fwk/platform_device.h`, `platform_manager.h`), modelled from their documented contracts because only the headers are under `src/`;
- the C service stub that the hdi-gen code generator emits (`src/tools/hdi-gen/codegen/c_service_stub_code_emitter.cpp`), as a pure function from a method signature to the stub's statements, and a run of the emitted stub.

`PROJECT.json` lists:

- every component, with its status;
- every TLC run, with its expected result;
- the mutants that show each checked property can fail;
- the map from each TLA+ definition to the source lines it models;
- the findings and the hazards.

## 1. The system

| Part | Source | State | Operations |
|---|---|---|---|
| Device manager (`DevmgrService`) | `devmgr_service.c` | the list of started hosts (`hosts`); for each host, its `hostService` proxy, its `deviceInfos` (with `preload` per device) and its `devices` list of device tokens; `devMgrMutex` (never taken) | `StartService`/`StartDeviceHosts`, `AttachDeviceHost` (boot install loop `LoadLeftDriver`), `AttachDevice`, `DetachDevice`, `UpdateStatus`, `LoadDevice`/`UnLoadDevice` (`FindAndActiveDevice` → `ActiveDevice`), `PowerStateChange`, Construct/Create/Release |
| Device node (`HdfDeviceNode`) | `hdf_device_node.c` | `devStatus` (NONE/INITED/LAUNCHED), `servStatus`, the device token, `servName`, `powerToken`, the published service | `Construct`, `NewInstance`, `LaunchNode` (Bind, Init, publish by policy, attach), `AddPowerStateListener`/`Remove…`, `PublishPublicService`/`RemoveService`, `ReleaseNode`, `Destruct`, `FreeInstance` |
| Device host (`DevHostService`) | not under `src/` | the host's nodes | `AddDevice` (NewInstance + LaunchNode, free on failure) and `DelDevice` (find node, FreeInstance). These are modelled from `spec.md` and marked `spec_modelled`. |
| Platform device/manager | `support/platform/include/fwk/*.h` (headers only) | refcount, ready flag, spinlock, `released` semaphore, notifiers, the manager's device list | Add, Get, Put, FindDevice/GetDeviceByNumber, Del (two steps), Reg/Unreg/Clear notifier, Notify. Spec-modelled in `PlatformDevice.tla`. |
| hdi-gen C stub emitter | `tools/hdi-gen/codegen/c_service_stub_code_emitter.cpp` | none in the emitter; the emitted `SerStub<Method>` has `ec`, the parameter locals and buffers, and the `data`/`reply` parcels | `EmitServiceStubMethodImpl` (locals, reads of IN parameters, the call, writes of OUT parameters), `EmitServiceStubOnRequestMethodImpl` (command dispatch). Modelled in `StubEmitter.tla`. |
| hc-gen | `src/tools/hc-gen/...` | none at run time | code generator writing text. **Out of scope.** |

**How the parts interact.**

1. The manager starts one host per entry of the host list. Each host calls `AttachDeviceHost`.
2. `AttachDeviceHost` records the host's proxy and device list. It then runs `LoadLeftDriver`, which calls the host's `AddDevice` for every device with preload `ENABLE`.
3. On the host, `AddDevice` creates a node and launches it. A successful launch calls back into the manager (`AttachDevice`), which appends a token and marks the device USABLE.
4. Clients call `LoadDevice` and `UnLoadDevice` at any time. These become `AddDevice` and `DelDevice` on the host. `DelDevice` frees the node. If the service was published, the node's `ReleaseNode` calls the manager's `DetachDevice`.
5. Every call is a remote call. The manager takes no lock.

**What is hard.**

- Manager calls from clients and from the install threads of different hosts overlap.
- `preload` is read before a remote call and written after it.
- The result of `DelDevice` is ignored.
- Detaching depends on the node's publish policy.
- Teardown of a node depends on how far its launch got.
- The power broadcast must go in forward order for wake states and in reverse order for suspend, and it must not stop at the first failure.

## 2. Modules

### `DeviceNode.tla`: one host's device nodes

**Node operations.** Each node function is a pure operator on a node record (`NodeRec`). Constants:

- `Devices`
- `Policy` (d → one of the five service policies)
- `Entry` (which of Bind/Init/Release the driver has)
- `Named` (devices with a non-empty service name)

The operators are:

- `HdfDeviceNodeNewInstance(alloc)`: `alloc` is the allocation outcome (`ok`, `noObject`, `noToken`, `noName`). With `noToken`, `Construct` leaves the token NULL and `NewInstance` writes through it (`hdf_device_node.c:229`): the result has `crash = TRUE`, and the host process dies.
- `HdfDeviceLaunchNode(d, n, o, attachOk)`: `o` is the outcome record of Bind, the driver service, Init, the registry add and the local publish.
- `HdfDeviceReleaseNode`, `HdfDeviceNodeDestruct`, `HdfDeviceNodeFreeInstance`: these return what they release, remove and detach, and the resources left unfreed (`lost`).

**One host as a state machine.**

- Variables: `node`, `live`, `svcReg` (the service registry) and `lost`.
- Actions:
  - `AddDeviceNoInstance`: `NewInstance` fails.
  - `AddDeviceLaunched`: the launch succeeds.
  - `AddDeviceFailed`: the launch fails and the node is freed.
  - `DelDevice`.
  - `AddPowerStateListener` / `RemovePowerStateListener`.

**Properties.**

- `TypeOK`.
- `RegistryMatchesNodes`: a service is registered exactly when its node is live and its `servStatus` is set.
- `NoLeak`: no allocated resource is lost.
- `DriverStateReleased`: what a driver set up in a Bind or Init that succeeded reaches its Release before the node is freed. The node record's `drv` field stands for that driver state. It depends on the order at `hdf_device_node.c:78`: `devStatus` becomes LAUNCHED before Bind and Init, and `Destruct` calls Release only for a LAUNCHED node. spec.md 9 calls this order an open question. Its mutant drops the early LAUNCHED, and TLC then finds a driver whose Init failed after Bind never gets its Release.

### `DevMgr.tla`: the manager with its hosts and concurrent callers

**Manager state.** The variables follow the structure of `DevmgrService`:

- `hosts`: the started host ids in list order;
- `hostService`: the host's proxy is set;
- `infos`: the device list was read;
- `preload`;
- `status`;
- `tokens`: the number of tokens per device in the host's `devices` list;
- `nodes`: per device, the sequence of node records the host holds;
- `svcReg`: the service registry;
- `boot`;
- `caller`: each caller's program counter;
- `pmLog`: the last power broadcast;
- `hostProc`: the host process is not started, started and not yet attached, or attached;
- `crashes`: the host deaths so far, bounded by `MaxCrashes`.

**Host death and restart.** `HostAddDeviceCrash` is an `AddDevice` whose `NewInstance` gets no token. The host process dies: all its nodes vanish, and it goes back to `starting`. The manager is not told. Its tokens, status and proxy stay as they were. A call waiting on a dead host fails at the transport (`HostCallFails`). The restarted host calls `AttachDeviceHost` again. That resets the device list (preload and status come from the fresh `deviceInfos`) but keeps the `devices` token list (`devmgr_service.c:195-205`).

**Callers.** There are three kinds:

- the clients (`Clients`);
- one install thread per host (keyed by the host id);
- the boot thread `Boot`.

A caller's remote call is split into three steps, so calls of different callers interleave:

1. issue: `DevmgrServiceFindAndActiveDevice`, `LoopActivate`;
2. host serve: `HostAddDevice*`, `HostDelDevice*`, `HostServe`;
3. reply: `ActiveDeviceReturn`, `LoopActivate`'s reply.

**Serialization.** The constant `Serialized` makes `MayStart` let a caller start only when every other caller is idle. This is the behaviour `devMgrMutex` would give. With `Serialized = FALSE`, callers overlap as the code allows.

**Composition with `DeviceNode`.** The host side uses the `DeviceNode` operators on `nodes[d]`. `DN == INSTANCE DeviceNode WITH node <- …, live <- …` gives the host side the node operators. No refinement of `DN!Spec` is checked: the host actions are built from the same operators, so it would only restate `AtMostOneNode`.

**Power broadcast.** `PmNotifyHosts` is RECURSIVE. It walks the host list (reversed for suspend states) and combines the answers. The whole broadcast is one step, although each `PmNotify` is a remote call. No property is stated about it: checked against this atomic step, its order would only restate the action.

**Properties.**

- `TypeOK`.
- `ManagerViewMatchesHost`: `tokens[d]` equals the number of nodes the host holds, and `status` is USABLE exactly when it holds one.
- `AtMostOneNode`.
- `PreloadMeansLoaded`: when every caller is idle, a found device marked ENABLE is loaded.
- `UnloadReportsRemoval` (action property): a successful unload removed a node.
- `TokenKeyedByDevice`: a device has at most one token in its host's `devices` list (spec.md: a TokenClient is keyed uniquely by deviceId, and a second attach is rejected).

### `StubEmitter.tla`: the emitted C service stub

spec.md leaves the code generators out of its scope, but the stub that hdi-gen emits is the server half of every HDI call, so its control is modelled.

**The emitter.** These are pure operators from a signature to a sequence of statements. A signature is a sequence of parameters `[kind, attr]`. A statement is a record `[op, p]` with no C text:

- `EmitStubLocalVariable`;
- `EmitReadStubMethodParameter` and `EmitReadCStringStubMethodParameter`: one branch per TypeKind, kernel or user mode;
- `StubReads`: the PARAM_IN loop;
- `EmitStubCallMethod` and `EmitCallParameter`;
- `EmitServiceStubMethodImpl`: puts these together in the emitter's order.

They are built with `FlattenSeq` and `SelectSeq`. The type emitters (`EmitCStubReadVar`, `EmitCWriteVar`) and `EmitErrorHandle` are not in the repository. A read or write is taken to move one value and, on failure, to set `ec` and jump to `errors`.

**The stub at run time.** Variables: `sig`, `kernel`, `pc`, `ec`, `mem` (each parameter's buffer pointer), `reads`, `writes`, `implRet`, `ret`. Actions:

- `OnRemoteRequest` and `OnRemoteRequestUnknown`: the switch and its default case.
- One action per kind of statement. Every read, allocation, call and write can fail: `ExecRead`/`ExecReadFail`, `ExecAlloc`, `ExecNullCheck`, `ExecCopy`, `ExecCall`, `ExecCallCheck`, `ExecWrite`/`ExecWriteFail`, `ExecReturn`.

**Properties.**

- `TypeOK`.
- `DeclaredBeforeUse`: every variable a statement uses was declared earlier. This covers the `<name>Len` locals and the kernel loop counter `i`.
- `ReadsMatchProxy`: at the call, exactly the IN parameters have been read, in declaration order.
- `ReplyOnlyAfterSuccess`: nothing is written to `reply` unless the implementation succeeded, and success is returned only with every OUT parameter written, in order.
- `NoWriteThroughNull` (action property): no read or copy goes into a buffer whose allocation failed.

`MC_StubEmitter` enumerates every signature of up to two parameters: seven kinds (one per branch of `EmitReadStubMethodParameter`) × IN/OUT, in kernel and user mode. That is 422 initial states. Two parameters are enough to show order and interference.

### `PlatformRegistry.tla`: the lifetime a platform device promises

This is the abstract specification. A device is `absent`, `live` or `dying`, and `handles[t][d]` counts the handles user `t` holds. The actions are:

- `Add`;
- `Acquire`: only for a live device;
- `Release`;
- `Kill`: Del begins;
- `Remove`: only for a dying device that nobody holds.

`PlatformDevice` maps onto it with `Registry == INSTANCE PlatformRegistry WITH life <- Life(d), handles <- held`. `Life(d)` is `absent` when the device is not inited, `live` when it is ready, and `dying` otherwise.

### `PlatformDevice.tla`: reference-counted platform devices

Constants: `Devs`, `Threads`, `Notifiers`, `MaxHold` (references one thread may hold on one device), `DelBare` (a caller contract; see below).

Variables: `inited`, `ready`, `ref` (the refcount, which includes the manager's own reference taken at Add), `sem` (the `released` semaphore), `notifiers`, `mgrList` (the manager's device list, in order), `held[t][d]` (references thread `t` holds), `pc[t]` (the device whose Del `t` is waiting in) and `seen` (the events each notifier has received).

Actions:

- `PlatformDeviceAdd`: Init, take the manager's reference, append to the list, set ready.
- `PlatformDeviceGet` (on a handle already held) and `PlatformManagerFindDevice` (first ready match in the list, under the lock): take a reference.
- `PlatformDevicePut`: drop a reference and post `released` when it was the last.
- `PlatformDeviceDel`: clear ready and drop the manager's reference. It then sleeps in `PlatformDeviceDelWait` until `released` is posted. After that it unlinks and uninitialises the device.
- `PlatformDeviceRegNotifier`, `UnregNotifier`, `ClearNotifier`, `Notify`: each is one atomic step under the device spinlock.

Properties:

- `TypeOK`.
- `NoHandleAfterDel`: no thread holds a reference to an uninitialised device.
- `RefCountMatchesHolders`: the count equals the references held plus the manager's.
- `PlatformRefinesRegistry`: the detailed module implements `PlatformRegistry`.
- `DelReturns` (liveness): every Del returns.

**Fairness.** There is weak fairness on `DelWait`. There is strong fairness on each thread's `Put` of each device: a caller must put every reference it takes, and a thread that is sleeping in Del cannot put in the meantime, so its puts are only intermittently enabled. `DelBare = TRUE` adds the contract that a thread calls Del only when it holds no references. Without that contract (`DelBare = FALSE`), Del can deadlock.

`MC_DeviceNode.tla` and `MC_DevMgr.tla` give the constants:

- **MC_DeviceNode:** four devices:
  - d1: PUBLIC with Bind;
  - d2: CAPACITY without Bind;
  - d3: PRIVATE;
  - d4: NONE without Init and without a name.
- **MC_DevMgr:** three hosts:
  - h1 holds d1 (preload ENABLE) and d2 (ENABLE_STEP2);
  - h2 holds d3 (DISABLE);
  - h3 holds no device.
- **MC_PlatformDevice:** two devices, two threads, one notifier.

## 3. Runs

| Run | cfg | Expect | What it shows |
|---|---|---|---|
| node_safety | DeviceNode_safety.cfg | pass (432 states) | Every add, failed add, delete and listener change keeps the registry equal to the published live nodes. The driver's Release gets back whatever a successful Bind or Init set up. |
| node_leak | DeviceNode_leak.cfg | violation | A failed `NewInstance` (`noName`) loses the node object and its token. Bind missing (NONE) and launch failures before LAUNCHED (INITED) are further leaks reachable in the same run. |
| mgr_serial | DevMgr_serial.cfg | pass (7298 states) | With serialized callers, boot install, load and unload keep tokens/status equal to the host's nodes, with at most one node per device. |
| mgr_private | DevMgr_private.cfg | violation | Unloading a PRIVATE device leaves its token and USABLE status (`hdf_device_node.c:184`). |
| mgr_race | DevMgr_race.cfg | violation | Two overlapping `LoadDevice` calls create two nodes for one device (`devmgr_service.c:29`, lock unused). |
| mgr_unload | DevMgr_unload.cfg | violation | `UnLoadDevice` of a never-loaded ENABLE_STEP2 device returns success (`devmgr_service.c:36-38`). |
| mgr_preload | DevMgr_preload.cfg | violation | A device whose boot install failed stays ENABLE with no node. `LoadDevice` refuses it as already loaded (`devmgr_service.c:28`) until a client first unloads it; that unload "succeeds" although nothing was loaded and resets it to DISABLE. |
| mgr_crash | DevMgr_crash.cfg | pass (4705 states) | One host death during boot install, restart and reinstall: the dead host's nodes are gone, so the reinstall never gives a device two nodes. |
| mgr_restart | DevMgr_restart.cfg | violation | `TokenKeyedByDevice`. The host dies on a NULL token while loading d2 (`hdf_device_node.c:229`); the manager keeps d1's dead token; the restarted host re-attaches (`devmgr_service.c:201` keeps the `devices` list) and its reinstall attaches d1 again, beside the dead token (`:156`). |
| plat_safety | PlatformDevice_safety.cfg | pass (16208 states) | Find/Get/Put, the notifier operations and Notify racing Del: no handle outlives Del, the count matches the holders, and the whole interleaving refines `PlatformRegistry`. With `DelBare = TRUE`, every Del returns. |
| stub_emitter | StubEmitter.cfg | pass (10226 states) | For every signature of up to two parameters, in both modes, the emitted stub declares what it uses, reads the IN parameters in the proxy's order, writes the reply only after success, and never writes through a failed allocation. |
| plat_crossdel | PlatformDevice_crossdel.cfg | violation | Two threads each hold the device the other deletes, and both sleep in Del forever (`platform_device.h:177`). |

Between them, the passing runs fire every action:

- node_safety fires every action of `DeviceNode`;
- mgr_serial fires every action of `DevMgr` except `PowerStateChange`;
- mgr_crash fires `HostAddDeviceCrash`, `HostCallFails` and `PowerStateChange`;
- stub_emitter fires every action of `StubEmitter`;
- plat_safety fires every action of `PlatformDevice`.

## 4. Bounds

**MC_DevMgr.**

- Three hosts give a first, middle and last position, so forward and reverse order are distinguishable. One of them is empty.
- Three devices cover the three preload values.
- `MaxNodes = 2` bounds the nodes a host may hold for one device. One is the correct maximum; two is enough to observe a duplicate.
- One client in the serial runs. Two clients in the race run, where two overlapping calls are the smallest case of the race.
- Power events: only an invalid state in mgr_crash, so the action is taken without multiplying the states.
- `MaxCrashes = 1` in the crash runs: one death already makes the dead nodes' tokens stale and the calls into it fail, and a second one repeats the same steps. All other runs use 0. mgr_crash has no clients, so that the boot install against a dying host is explored in full in seconds.

**MC_PlatformDevice.** Two devices and two threads are the smallest case of a Find racing a Del and of cross-deletion. `MaxHold = 2` lets a thread hold a device twice, so an unbalanced count shows up.

**MC_DeviceNode.** The four devices together reach every policy branch of `LaunchNode` and every case of `Destruct`:

- the publishing branches (PUBLIC, CAPACITY);
- the local-only branch (PRIVATE);
- Bind missing;
- Init missing;
- the unnamed case.

## 5. Fairness

`DevMgr` and `DeviceNode` are checked for safety only, and their `Spec`s have no fairness. A liveness property such as "every call returns" would hold only by the assumptions the model makes about the transport: a live host always answers, and a call into a dead host fails (`HostCallFails`). Neither is code under `src/`.

`PlatformDevice` has the fairness described in its section, for `DelReturns`.

## 6. Not modelled yet, and the plan for later sittings

1. **Abstract load-state specification for clients.** The manager's answers to `LoadDevice`/`UnLoadDevice` do not refine a plain loaded/unloaded specification. mgr_unload, mgr_private and mgr_race show three ways they diverge. Such a refinement would only restate those runs.
2. **Platform internals.** `PlatformManagerCreate/Get`, `CreateService`/`Bind`/`Unbind`, `GetDrs` and `FromHdf` only wire a platform device to its HDF device object. A failing `PlatformManagerAddDevice` (duplicate number) is not modelled yet.
3. **Notifier handlers.** `Notify` runs under the device spinlock and is atomic here. spec.md 4.3 says the handlers run outside the lock, so a handler may run after `UnregNotifier` has returned. The spec does not say whether `UnregNotifier` must wait, and the implementation is not under `src/`. This race is listed as a hazard without a property (`platform_device.h:131`).
4. **The remote transport.** Lost, delayed or timed-out replies are not modelled; nothing under `src/` decides what happens to them.
5. **Manager `Release`.** Not modelled: nothing in the running system calls it.
6. **hdi-gen beyond the stub method.** The following are text and are not modelled: the file layout, the header and the inclusions (`EmitServiceStubInclusions`). The callback stub's `EmitCbStubObtainImpl`/`EmitCbStubReleaseImpl` are not modelled either. The emitted Obtain leaks the stub when `HdfRemoteServiceObtain` fails (`c_service_stub_code_emitter.cpp:375`); this is listed as a hazard. User-mode stubs pass the implementation a NULL string when `strdup` fails (`:270`). The model reaches this, but no property is stated, because nothing in the repository states what an implementation may assume of its arguments.
7. **hc-gen, logging, the remote transport and object manager internals.** These are abstracted away. `macro_gen.h` only declares a text generator.
