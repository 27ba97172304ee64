-------------------------------- MODULE DevMgr --------------------------------
(***************************************************************************)
(* The device manager (src/core/manager/src/devmgr_service.c) composed     *)
(* with the device hosts it starts and the device nodes those hosts run.  *)
(*                                                                         *)
(* Callers of the manager run concurrently: clients that load and unload   *)
(* services, the boot thread (StartService, then LoadLeftDriver), and for *)
(* each host the thread that serves its AttachDeviceHost and installs its *)
(* drivers.  Every call the manager makes into a host (AddDevice,          *)
(* DelDevice) is a remote call: the caller issues it, the host serves it  *)
(* (running HdfDeviceLaunchNode or the node's teardown, which call back   *)
(* into the manager's AttachDevice or DetachDevice), and the caller       *)
(* resumes with the answer.  The manager takes no lock around any of this *)
(* (devMgrMutex is initialised and never acquired); Serialized = TRUE     *)
(* models callers that never overlap.                                      *)
(***************************************************************************)
EXTENDS Naturals, Sequences, SequencesExt, FiniteSets

CONSTANTS
  Devices, Policy, Entry, Named,  \* as in DeviceNode
  HostList,     \* HdfAttributeManagerGetHostList: host ids in list order
  DevicesOf,    \* DevicesOf[h]: HdfAttributeManagerGetDeviceList(h), in order
  InitPreload,  \* deviceInfo->preload as read from the configuration
  Clients,      \* callers of DevmgrServiceLoadDevice / UnLoadDevice
  Boot,         \* the thread that runs StartService and LoadLeftDriver
  NoDevice,     \* no device (an idle caller)
  PowerEvents,  \* the power states PowerStateChange may be called with
  Serialized,   \* TRUE: a caller starts an operation only when all are idle
  MaxNodes,     \* bound on the nodes a host holds for one device
  MaxCrashes    \* bound on the host process deaths in a behaviour

HostIds == Range(HostList)

\* HOSTID(devid): the host whose device list holds d.
HostOf(d) == CHOOSE h \in HostIds : d \in Range(DevicesOf[h])

Callers == Clients \cup HostIds \cup {Boot}

Preloads == {"DISABLE", "ENABLE", "ENABLE_STEP2"}

\* IsValidPowerState and IsPowerWakeState.
WakeStates  == {"RESUME", "DOZE_RESUME"}
PowerStates == WakeStates \cup {"SUSPEND", "DOZE_SUSPEND"}

ASSUME /\ \A h \in HostIds : DevicesOf[h] \in Seq(Devices)
       /\ \A d \in Devices : \E h \in HostIds : d \in Range(DevicesOf[h])
       /\ InitPreload \in [Devices -> Preloads]
       /\ NoDevice \notin Devices
       /\ Serialized \in BOOLEAN
       /\ MaxNodes \in Nat \ {0}
       /\ MaxCrashes \in Nat

VARIABLES
  boot,         \* "init", then "started" (StartService), then "step2" (LoadLeftDriver)
  hosts,        \* devMgrSvc->hosts: the host clients, in list order
  hostService,  \* hostService[h]: hostClnt->hostService is set
  infos,        \* infos[h]: hostClnt->deviceInfos is a list (not NULL)
  preload,      \* preload[d]: deviceInfo->preload
  status,       \* status[d]: deviceInfo->status
  tokens,       \* tokens[d]: token clients for d in hostClnt->devices
  nodes,        \* nodes[d]: the nodes for d the host holds, oldest first
  svcReg,       \* names in the global service registry
  caller,       \* caller[c]: what caller c is doing
  pmLog,        \* the last PowerStateChange: hosts notified, their answers, result
  hostProc,     \* hostProc[h]: the host process is "none", "starting" (running,
                \* not yet attached) or "attached"
  crashes       \* host process deaths so far

vars == <<boot, hosts, hostService, infos, preload, status, tokens, nodes,
          svcReg, caller, pmLog, hostProc, crashes>>

\* The node operators of DeviceNode.  The host's side of this model maps
\* onto DeviceNode's host: the oldest node of each device is its node.
NoHostNode == [devStatus |-> "NONE", servStatus |-> FALSE, token |-> FALSE,
               servName |-> FALSE, powerToken |-> 0, service |-> FALSE,
               drv |-> FALSE]

DN == INSTANCE DeviceNode
        WITH node <- [d \in Devices |-> IF nodes[d] = <<>> THEN NoHostNode
                                                           ELSE Head(nodes[d])],
             live <- {d \in Devices : nodes[d] # <<>>},
             lost <- {}

(***************************************************************************)
(* Callers                                                                 *)
(***************************************************************************)
Idle(ret) == [pc |-> "idle", op |-> "none", d |-> NoDevice, todo |-> <<>>,
              hret |-> "NONE", ret |-> ret]

Call(op, d) == [Idle("NONE") EXCEPT !.pc = "wait", !.op = op, !.d = d]

Loop(op, todo) == [Idle("NONE") EXCEPT !.pc = "run", !.op = op, !.todo = todo]

\* A caller may begin an operation; with Serialized only when no other
\* caller is inside one.
MayStart(c) ==
  /\ caller[c].pc = "idle"
  /\ Serialized => \A o \in Callers \ {c} : caller[o].pc = "idle"

(***************************************************************************)
(* Manager bookkeeping                                                     *)
(***************************************************************************)

\* DevmgrServiceFindDeviceHost: the host client is in the list.
DevmgrServiceFindDeviceHost(h) == h \in Range(hosts)

\* DevmgrServiceUpdateStatus: the deviceInfo's status, if the host has a list.
DevmgrServiceUpdateStatus(d, s) ==
  IF infos[HostOf(d)] THEN [status EXCEPT ![d] = s] ELSE status

\* DevmgrServiceAttachDevice, called by a node that launched: the token
\* client is linked into the host's device list and the deviceInfo marked
\* usable.  A second attach of the same device adds a second token.
DevmgrServiceAttachDevice(d) ==
  /\ tokens' = [tokens EXCEPT ![d] = @ + 1]
  /\ status' = DevmgrServiceUpdateStatus(d, "USABLE")

\* Mutant: the token client is unlinked without looking it up first.
DevmgrServiceDetachDeviceNoLookup(d) ==
  /\ status' = DevmgrServiceUpdateStatus(d, "UNUSABLE")
  /\ tokens' = [tokens EXCEPT ![d] = @ - 1]

\* Mutant: the token is looked up and the status updated, but the token
\* client is not unlinked.
DevmgrServiceDetachDeviceKeepToken(d) ==
  IF tokens[d] = 0
  THEN UNCHANGED <<tokens, status>>
  ELSE /\ status' = DevmgrServiceUpdateStatus(d, "UNUSABLE")
       /\ UNCHANGED tokens

\* DevmgrServiceDetachDevice, called by a node's teardown: NO_DEVICE when
\* no token matches, otherwise status unusable and one token unlinked.
DevmgrServiceDetachDevice(d) ==
  IF tokens[d] = 0
  THEN UNCHANGED <<tokens, status>>
  ELSE /\ status' = DevmgrServiceUpdateStatus(d, "UNUSABLE")
       /\ tokens' = [tokens EXCEPT ![d] = @ - 1]

(***************************************************************************)
(* Boot: DevmgrServiceStartService                                         *)
(***************************************************************************)

\* DevmgrServiceStartDeviceHosts: each host of the list gets a client,
\* linked at the tail; a client that cannot be allocated is skipped and one
\* whose process does not start is unlinked and freed.  started[h] is the
\* outcome for host h.
DevmgrServiceStartService ==
  /\ boot = "init"
  /\ \E started \in [HostIds -> BOOLEAN] :
       /\ hosts' = SelectSeq(HostList, LAMBDA h : started[h])
       /\ hostProc' = [h \in HostIds |-> IF started[h] THEN "starting" ELSE "none"]
  /\ boot' = "started"
  /\ UNCHANGED <<hostService, infos, preload, status, tokens, nodes, svcReg,
                 caller, pmLog, crashes>>

(***************************************************************************)
(* A host process attaches: DevmgrServiceAttachDeviceHost                  *)
(***************************************************************************)

\* The host binds its service and the manager reads its device list; when
\* the list is not NULL, the thread serving the call installs the drivers
\* (DevHostServiceClntInstallDriver), one AddDevice per deviceInfo.  The
\* host process calls this when it starts, and again each time it is
\* restarted after dying: the client's service and device list are simply
\* replaced (fresh deviceInfos: configured preload, unusable), and its
\* list of device tokens is left as it is.
DevmgrServiceAttachDeviceHost(h) ==
  /\ DevmgrServiceFindDeviceHost(h)
  /\ hostProc[h] = "starting"
  /\ MayStart(h)
  /\ hostService' = [hostService EXCEPT ![h] = TRUE]
  /\ hostProc' = [hostProc EXCEPT ![h] = "attached"]
  /\ \E listOk \in BOOLEAN :
       /\ infos' = [infos EXCEPT ![h] = listOk]
       /\ caller' = IF listOk
                    THEN [caller EXCEPT ![h] = Loop("install", DevicesOf[h])]
                    ELSE caller
  /\ preload' = [d \in Devices |-> IF HostOf(d) = h THEN InitPreload[d]
                                                     ELSE preload[d]]
  /\ status' = [d \in Devices |-> IF HostOf(d) = h THEN "UNUSABLE" ELSE status[d]]
  /\ UNCHANGED <<boot, hosts, tokens, nodes, svcReg, pmLog, crashes>>

(***************************************************************************)
(* Loading and unloading a service                                         *)
(***************************************************************************)

\* DevmgrServiceFindAndActiveDevice finds the deviceInfo with the service
\* name through the hosts in list order; a host without a device list has
\* none.  Service names are taken to be unique, so the name is d.
Found(d) == DevmgrServiceFindDeviceHost(HostOf(d)) /\ infos[HostOf(d)]

\* Mutant: load does not look at preload.
MayActivateAlways(d, isLoad) ==
  /\ hostService[HostOf(d)]
  /\ isLoad \/ preload[d] # "DISABLE"

\* The checks of DevmgrServiceActiveDevice before it calls the host.
MayActivate(d, isLoad) ==
  /\ hostService[HostOf(d)]
  /\ IF isLoad THEN preload[d] # "ENABLE" ELSE preload[d] # "DISABLE"

\* DevmgrServiceFindAndActiveDevice up to the call into the host: the
\* caller waits for AddDevice (load) or DelDevice (unload), or returns
\* HDF_FAILURE at once.
DevmgrServiceFindAndActiveDevice(c, d, isLoad) ==
  /\ MayStart(c)
  /\ caller' = [caller EXCEPT ![c] =
                  IF Found(d) /\ MayActivate(d, isLoad)
                  THEN Call(IF isLoad THEN "load" ELSE "unload", d)
                  ELSE Idle("FAILURE")]
  /\ UNCHANGED <<boot, hosts, hostService, infos, preload, status, tokens,
                 nodes, svcReg, pmLog, hostProc, crashes>>

DevmgrServiceLoadDevice(c, d) == DevmgrServiceFindAndActiveDevice(c, d, TRUE)

DevmgrServiceUnLoadDevice(c, d) == DevmgrServiceFindAndActiveDevice(c, d, FALSE)

\* DevmgrServiceActiveDevice after the host answered: a load that
\* succeeded marks preload ENABLE; an unload marks it DISABLE and returns
\* HDF_SUCCESS whatever DelDevice answered.  The loops resume.
ActiveDeviceReturn(c) ==
  LET cl == caller[c]
  IN  /\ cl.pc = "reply"
      /\ preload' = CASE cl.op = "unload" -> [preload EXCEPT ![cl.d] = "DISABLE"]
                      [] cl.op \in {"load", "left"} /\ cl.hret = "SUCCESS"
                                           -> [preload EXCEPT ![cl.d] = "ENABLE"]
                      [] OTHER             -> preload
      /\ caller' = [caller EXCEPT ![c] =
                      IF cl.op \in {"install", "left"}
                      THEN [cl EXCEPT !.pc = "run", !.d = NoDevice, !.hret = "NONE"]
                      ELSE Idle(IF cl.op = "unload" THEN "SUCCESS" ELSE cl.hret)]
      /\ UNCHANGED <<boot, hosts, hostService, infos, status, tokens, nodes,
                     svcReg, pmLog, hostProc, crashes>>

(***************************************************************************)
(* Loops: DevHostServiceClntInstallDriver and DevmgrServiceLoadLeftDriver  *)
(***************************************************************************)

\* DevmgrServiceLoadLeftDriver walks every host's device list in list order.
DevmgrServiceLoadLeftDriver ==
  /\ boot = "started"
  /\ MayStart(Boot)
  /\ boot' = "step2"
  /\ caller' = [caller EXCEPT ![Boot] =
                  Loop("left", FlattenSeq([i \in 1..Len(hosts) |-> DevicesOf[hosts[i]]]))]
  /\ UNCHANGED <<hosts, hostService, infos, preload, status, tokens, nodes,
                 svcReg, pmLog, hostProc, crashes>>

\* Mutant: installation also loads the deferred (ENABLE_STEP2) devices.
EligibleNoDefer(op, d) ==
  IF op = "install"
  THEN preload[d] # "DISABLE"
  ELSE Found(d) /\ preload[d] = "ENABLE_STEP2" /\ hostService[HostOf(d)]

\* Whether an iteration calls AddDevice for d.  Installation skips disabled
\* and deferred (ENABLE_STEP2) devices; LoadLeftDriver activates the
\* deferred ones of hosts with a device list and a service.
Eligible(op, d) ==
  IF op = "install"
  THEN preload[d] = "ENABLE"
  ELSE Found(d) /\ preload[d] = "ENABLE_STEP2" /\ hostService[HostOf(d)]

LoopActivate(c) ==
  LET cl == caller[c]
  IN  /\ cl.pc = "run"
      /\ cl.todo # <<>>
      /\ Eligible(cl.op, Head(cl.todo))
      /\ caller' = [caller EXCEPT ![c] = [cl EXCEPT !.pc = "wait", !.d = Head(cl.todo),
                                                    !.todo = Tail(cl.todo)]]
      /\ UNCHANGED <<boot, hosts, hostService, infos, preload, status, tokens,
                     nodes, svcReg, pmLog, hostProc, crashes>>

LoopSkip(c) ==
  LET cl == caller[c]
  IN  /\ cl.pc = "run"
      /\ cl.todo # <<>>
      /\ ~Eligible(cl.op, Head(cl.todo))
      /\ caller' = [caller EXCEPT ![c].todo = Tail(cl.todo)]
      /\ UNCHANGED <<boot, hosts, hostService, infos, preload, status, tokens,
                     nodes, svcReg, pmLog, hostProc, crashes>>

\* Both loops return HDF_SUCCESS whatever the iterations answered.
LoopDone(c) ==
  /\ caller[c].pc = "run"
  /\ caller[c].todo = <<>>
  /\ caller' = [caller EXCEPT ![c] = Idle("SUCCESS")]
  /\ UNCHANGED <<boot, hosts, hostService, infos, preload, status, tokens,
                 nodes, svcReg, pmLog, hostProc, crashes>>

(***************************************************************************)
(* The host serves the manager's calls (DevHostServiceAddDevice,          *)
(* DevHostServiceDelDevice); the nodes it launches or tears down call     *)
(* back into the manager's AttachDevice and DetachDevice.                  *)
(***************************************************************************)

\* The host's answer to caller c.
Answer(c, hret) == [caller EXCEPT ![c].pc = "reply", ![c].hret = hret]

\* Caller c waits on a call the host's live, attached process serves.
Serving(c) ==
  /\ caller[c].pc = "wait"
  /\ hostProc[HostOf(caller[c].d)] = "attached"

\* AddDevice: a new node is launched and the host keeps it.  The manager's
\* AttachDevice fails only if it cannot allocate the token client (tokOk).
HostAddDeviceLaunched(c) ==
  LET d == caller[c].d
  IN  /\ Serving(c)
      /\ caller[c].op # "unload"
      /\ Len(nodes[d]) < MaxNodes
      /\ \E o \in DN!Outcomes :
           LET l == DN!HdfDeviceLaunchNode(d, DN!HdfDeviceNodeNewInstance("ok").node, o,
                                           DevmgrServiceFindDeviceHost(HostOf(d)))
           IN  /\ l.ret = "SUCCESS"
               /\ nodes' = [nodes EXCEPT ![d] = Append(@, l.node)]
               /\ svcReg' = IF l.added THEN svcReg \cup {d} ELSE svcReg
               /\ DevmgrServiceAttachDevice(d)
      /\ caller' = Answer(c, "SUCCESS")
      /\ UNCHANGED <<boot, hosts, hostService, infos, preload, pmLog, hostProc, crashes>>

\* AddDevice: the launch fails and the host frees the node; a node that had
\* published its public service detaches from the manager on the way.
HostAddDeviceFailed(c) ==
  LET d == caller[c].d
  IN  /\ Serving(c)
      /\ caller[c].op # "unload"
      /\ \E o \in DN!Outcomes, tokOk \in BOOLEAN :
           LET l == DN!HdfDeviceLaunchNode(d, DN!HdfDeviceNodeNewInstance("ok").node, o,
                                           DevmgrServiceFindDeviceHost(HostOf(d)) /\ tokOk)
               f == DN!HdfDeviceNodeFreeInstance(d, l.node)
           IN  /\ l.ret # "SUCCESS"
               /\ svcReg' = (svcReg \cup (IF l.added THEN {d} ELSE {}))
                              \ (IF f.removed THEN {d} ELSE {})
               /\ IF f.detach THEN DevmgrServiceDetachDevice(d)
                              ELSE UNCHANGED <<tokens, status>>
      /\ caller' = Answer(c, "FAILURE")
      /\ UNCHANGED <<boot, hosts, hostService, infos, preload, nodes, pmLog, hostProc, crashes>>

\* DelDevice: the host frees its (oldest) node for d.
HostDelDevice(c) ==
  LET d == caller[c].d
  IN  /\ Serving(c)
      /\ caller[c].op = "unload"
      /\ nodes[d] # <<>>
      /\ LET f == DN!HdfDeviceNodeFreeInstance(d, Head(nodes[d]))
         IN  /\ svcReg' = IF f.removed THEN svcReg \ {d} ELSE svcReg
             /\ IF f.detach THEN DevmgrServiceDetachDevice(d)
                            ELSE UNCHANGED <<tokens, status>>
      /\ nodes' = [nodes EXCEPT ![d] = Tail(@)]
      /\ caller' = Answer(c, "SUCCESS")
      /\ UNCHANGED <<boot, hosts, hostService, infos, preload, pmLog, hostProc, crashes>>

\* DelDevice for a device the host has no node for.
HostDelDeviceMissing(c) ==
  /\ Serving(c)
  /\ caller[c].op = "unload"
  /\ nodes[caller[c].d] = <<>>
  /\ caller' = Answer(c, "FAILURE")
  /\ UNCHANGED <<boot, hosts, hostService, infos, preload, status, tokens,
                 nodes, svcReg, pmLog, hostProc, crashes>>

\* A call through the service of a host process that has died fails at
\* the transport (a dead remote object) and the caller resumes.
HostCallFails(c) ==
  /\ caller[c].pc = "wait"
  /\ hostProc[HostOf(caller[c].d)] # "attached"
  /\ caller' = Answer(c, "FAILURE")
  /\ UNCHANGED <<boot, hosts, hostService, infos, preload, status, tokens,
                 nodes, svcReg, pmLog, hostProc, crashes>>

\* AddDevice where the node's constructor got no device token:
\* HdfDeviceNodeNewInstance dereferences it and the host process dies with
\* every node it held.  Nothing tells the manager: its host client keeps
\* the service, the device list and the token clients of the dead nodes.
\* The process is restarted and will attach again; the caller's call fails.
HostAddDeviceCrash(c) ==
  LET d == caller[c].d
      h == HostOf(d)
  IN  /\ Serving(c)
      /\ caller[c].op # "unload"
      /\ crashes < MaxCrashes
      /\ DN!HdfDeviceNodeNewInstance("noToken").crash
      /\ nodes' = [e \in Devices |-> IF HostOf(e) = h THEN <<>> ELSE nodes[e]]
      /\ hostProc' = [hostProc EXCEPT ![h] = "starting"]
      /\ crashes' = crashes + 1
      /\ caller' = Answer(c, "FAILURE")
      /\ UNCHANGED <<boot, hosts, hostService, infos, preload, status, tokens,
                     svcReg, pmLog>>

HostServe(c) ==
  \/ HostAddDeviceLaunched(c)
  \/ HostAddDeviceFailed(c)
  \/ HostDelDevice(c)
  \/ HostDelDeviceMissing(c)
  \/ HostAddDeviceCrash(c)
  \/ HostCallFails(c)

(***************************************************************************)
(* DevmgrServicePowerStateChange                                           *)
(***************************************************************************)

\* The DLIST_FOR_EACH_ENTRY loop: every host client with a service is sent
\* PmNotify; ok[h] is its answer; any failure makes the result a failure.
RECURSIVE PmNotifyHosts(_, _, _)
PmNotifyHosts(hs, ok, acc) ==
  IF hs = <<>> THEN acc
  ELSE LET h == Head(hs)
           next == IF hostService[h]
                   THEN [visited |-> Append(acc.visited, <<h, ok[h]>>),
                         ret |-> IF ok[h] THEN acc.ret ELSE "FAILURE"]
                   ELSE acc
       IN  PmNotifyHosts(Tail(hs), ok, next)

\* Wake states go through the host list forward, suspend states backward.
DevmgrServicePowerStateChange(state) ==
  /\ boot # "init"
  /\ \E ok \in [HostIds -> BOOLEAN] :
       pmLog' = IF state \notin PowerStates
                THEN [state |-> state, visited |-> <<>>, ret |-> "INVALID_PARAM"]
                ELSE [state |-> state] @@
                     PmNotifyHosts(IF state \in WakeStates THEN hosts ELSE Reverse(hosts),
                                   ok, [visited |-> <<>>, ret |-> "SUCCESS"])
  /\ UNCHANGED <<boot, hosts, hostService, infos, preload, status, tokens,
                 nodes, svcReg, caller, hostProc, crashes>>

(***************************************************************************)
(* Specification                                                           *)
(***************************************************************************)

\* DevmgrServiceConstruct: an empty host list; every deviceInfo starts
\* unusable with its configured preload.
Init ==
  /\ boot = "init"
  /\ hosts = <<>>
  /\ hostService = [h \in HostIds |-> FALSE]
  /\ infos = [h \in HostIds |-> FALSE]
  /\ preload = InitPreload
  /\ status = [d \in Devices |-> "UNUSABLE"]
  /\ tokens = [d \in Devices |-> 0]
  /\ nodes = [d \in Devices |-> <<>>]
  /\ svcReg = {}
  /\ caller = [c \in Callers |-> Idle("NONE")]
  /\ pmLog = [state |-> "NONE", visited |-> <<>>, ret |-> "NONE"]
  /\ hostProc = [h \in HostIds |-> "none"]
  /\ crashes = 0

\* One step of the caller c.
Step(c) ==
  \/ HostServe(c)
  \/ ActiveDeviceReturn(c)
  \/ LoopActivate(c)
  \/ LoopSkip(c)
  \/ LoopDone(c)

Next ==
  \/ DevmgrServiceStartService
  \/ DevmgrServiceLoadLeftDriver
  \/ \E h \in HostIds : DevmgrServiceAttachDeviceHost(h)
  \/ \E c \in Clients, d \in Devices :
       DevmgrServiceLoadDevice(c, d) \/ DevmgrServiceUnLoadDevice(c, d)
  \/ \E s \in PowerEvents : DevmgrServicePowerStateChange(s)
  \/ \E c \in Callers : Step(c)

Spec == Init /\ [][Next]_vars

(***************************************************************************)
(* Properties                                                              *)
(***************************************************************************)

\* Type invariant.
TypeOK ==
  /\ boot \in {"init", "started", "step2"}
  /\ hosts \in Seq(HostIds)
  /\ hostService \in [HostIds -> BOOLEAN]
  /\ infos \in [HostIds -> BOOLEAN]
  /\ preload \in [Devices -> Preloads]
  /\ status \in [Devices -> {"USABLE", "UNUSABLE"}]
  /\ tokens \in [Devices -> Nat]
  /\ nodes \in [Devices -> Seq(DN!NodeRec)]
  /\ svcReg \subseteq Devices
  /\ hostProc \in [HostIds -> {"none", "starting", "attached"}]
  /\ crashes \in 0..MaxCrashes

\* The manager's view of a device matches the host: one token in the
\* host client's device list per node the host holds, and the deviceInfo
\* is usable exactly while a node runs.  Attach happens at the end of
\* HdfDeviceLaunchNode, detach in HdfDeviceReleaseNode.
ManagerViewMatchesHost ==
  \A d \in Devices :
    /\ tokens[d] = Len(nodes[d])
    /\ status[d] = "USABLE" <=> nodes[d] # <<>>

\* No device has two nodes: DevmgrServiceActiveDevice calls AddDevice only
\* for a device whose preload is not ENABLE.
AtMostOneNode == \A d \in Devices : Len(nodes[d]) <= 1

\* When no call is in progress, a device whose preload is ENABLE is loaded:
\* DevmgrServiceLoadDevice refuses such a device as already loaded.
PreloadMeansLoaded ==
  (\A c \in Callers : caller[c].pc = "idle") =>
    \A d \in Devices : Found(d) /\ preload[d] = "ENABLE" => nodes[d] # <<>>

\* DevmgrServiceUnLoadDevice reports success only when the host removed a
\* loaded node.
UnloadReportsRemoval ==
  [][\A c \in Clients :
       (caller[c].pc = "reply" /\ caller[c].op = "unload" /\ caller'[c].ret = "SUCCESS")
         => caller[c].hret = "SUCCESS"]_vars

\* A device has at most one token in its host's devices list: spec.md says
\* a TokenClient is keyed uniquely by deviceId and that attaching an
\* attached device is rejected.  AttachDevice appends without a lookup.
TokenKeyedByDevice == \A d \in Devices : tokens[d] <= 1

=============================================================================
