------------------------------ MODULE DeviceNode ------------------------------
(***************************************************************************)
(* Lifecycle of one HdfDeviceNode, the runtime record of a loaded driver   *)
(* inside a device host (src/core/host/src/hdf_device_node.c).            *)
(*                                                                         *)
(* The node operations are synchronous C calls that run to completion, so *)
(* each is written as an operator from a node record (and the outcomes of *)
(* the calls it makes into the driver, the service registry and the       *)
(* allocator) to the new record and the effects the call has outside the  *)
(* node.  DevMgr composes these operators into the host's AddDevice and   *)
(* DelDevice.  The state machine at the end of this module is the host as *)
(* seen by one node per device: it loads a driver (NewInstance, Launch,   *)
(* free on failure), unloads it, and lets the driver register and drop a  *)
(* power listener.                                                         *)
(***************************************************************************)
EXTENDS Naturals, FiniteSets

CONSTANTS
  Devices,  \* deviceInfo->deviceId of every driver the host may load
  Policy,   \* Policy[d]  : deviceInfo->policy
  Entry,    \* Entry[d]   : the members of the HdfDriverEntry that are not NULL
  Named     \* the devices whose deviceInfo->svcName is not the empty string

Policies == {"NONE", "PUBLIC", "FRIENDLY", "CAPACITY", "PRIVATE"}

ASSUME /\ Policy \in [Devices -> Policies]
       /\ Entry \in [Devices -> SUBSET {"Bind", "Init", "Release"}]
       /\ Named \subseteq Devices

\* SERVICE_POLICY_PUBLIC or SERVICE_POLICY_CAPACITY: the policies for which
\* Launch requires Bind and PublishService publishes into the global registry.
Publishes(d) == Policy[d] \in {"PUBLIC", "CAPACITY"}

(***************************************************************************)
(* A node is the part of struct HdfDeviceNode the lifecycle touches.       *)
(* token, servName and powerToken say whether the node holds that         *)
(* allocation (powerToken counts the power-state tokens it holds);        *)
(* service whether the driver's Bind set deviceObject.service; drv        *)
(* whether the driver keeps state in deviceObject from a Bind or Init     *)
(* that succeeded, which only its Release gives back.                     *)
(***************************************************************************)
DevStatus == {"NONE", "INITED", "LAUNCHED"}

NodeRec == [devStatus : DevStatus, servStatus : BOOLEAN, token : BOOLEAN,
            servName : BOOLEAN, powerToken : 0..1, service : BOOLEAN,
            drv : BOOLEAN]

\* What the driver, the registry and the local observer answer during one
\* launch: Bind's result and whether it set the service object, Init's
\* result, DevSvcManagerClntAddService's result, and the result of
\* HdfServiceObserverPublishService.
Outcomes == [bind : BOOLEAN, service : BOOLEAN, init : BOOLEAN,
             addService : BOOLEAN, localPub : BOOLEAN]

\* Allocation outcomes of HdfDeviceNodeNewInstance: all succeed, the object
\* manager returns NULL, HdfDeviceTokenNewInstance in the constructor
\* returns NULL, or HdfStringCopy of the service name returns NULL.
Allocs == {"ok", "noObject", "noToken", "noName"}

\* The resources a freed node may still hold ("driver": the driver's state).
Resources == {"node", "token", "servName", "powerToken", "driver"}

\* The memory a node occupies after it is freed (used as a placeholder).
FreedNode == [devStatus |-> "NONE", servStatus |-> FALSE, token |-> FALSE,
              servName |-> FALSE, powerToken |-> 0, service |-> FALSE,
              drv |-> FALSE]

\* HdfDeviceNodeConstruct on the zeroed object from the object manager:
\* a device object and the device token, NULL when it cannot be allocated.
HdfDeviceNodeConstruct(tokOk) == [FreedNode EXCEPT !.token = tokOk]

\* HdfDeviceNodeNewInstance: the node to launch when ok; when the service
\* name cannot be copied it returns NULL and leaves the object, with its
\* token, allocated and unreachable (lost); a NULL token is dereferenced,
\* which kills the host process (crash).
HdfDeviceNodeNewInstance(alloc) ==
  CASE alloc = "noObject" -> [ok |-> FALSE, crash |-> FALSE, node |-> FreedNode, lost |-> {}]
    \* devNode->token->devid is written without checking the token.
    [] alloc = "noToken"  -> [ok |-> FALSE, crash |-> TRUE, node |-> FreedNode, lost |-> {}]
    [] alloc = "noName"   -> [ok |-> FALSE, crash |-> FALSE, node |-> FreedNode,
                              lost |-> {"node", "token"}]
    [] OTHER -> [ok |-> TRUE, crash |-> FALSE, lost |-> {},
                 node |-> [HdfDeviceNodeConstruct(TRUE) EXCEPT !.servName = TRUE,
                                                           !.devStatus = "INITED"]]

\* HdfDeviceNodePublishLocalService: publishes into the host's observer.
\* devNode->hostService is set by the host before the node is launched.
HdfDeviceNodePublishLocalService(o) ==
  IF o.localPub THEN "SUCCESS" ELSE "FAILURE"

\* HdfDeviceNodePublishPublicService (the node's PublishService hook):
\* added says DevSvcManagerClntAddService registered the name.
HdfDeviceNodePublishPublicService(n, o) ==
  IF ~n.service
  THEN [node |-> n, ret |-> "FAILURE", added |-> FALSE]
  ELSE IF o.addService
  THEN [node |-> [n EXCEPT !.servStatus = TRUE], ret |-> "SUCCESS", added |-> TRUE]
  ELSE [node |-> n, ret |-> "FAILURE", added |-> FALSE]

\* HdfDeviceNodePublishService: nothing for policy NONE or an empty name;
\* otherwise the global registry first (PUBLIC, CAPACITY) and the local
\* observer only if that succeeded.
HdfDeviceNodePublishService(d, n, o) ==
  IF Policy[d] = "NONE" \/ d \notin Named
  THEN [node |-> n, ret |-> "SUCCESS", added |-> FALSE]
  ELSE LET pub == IF Publishes(d)
                  THEN HdfDeviceNodePublishPublicService(n, o)
                  ELSE [node |-> n, ret |-> "SUCCESS", added |-> FALSE]
       IN  [pub EXCEPT !.ret = IF @ = "SUCCESS"
                               THEN HdfDeviceNodePublishLocalService(o)
                               ELSE @]

\* Mutant: devStatus is not set to LAUNCHED before Bind and Init run.
DevNodeLaunchedNever(n) == n

\* devNode->devStatus = DEVNODE_LAUNCHED, before the driver is called.
DevNodeLaunched(n) == [n EXCEPT !.devStatus = "LAUNCHED"]

LaunchResult(n, ret, added, attached) ==
  [node |-> n, ret |-> ret, added |-> added, attached |-> attached]

\* HdfDeviceLaunchNode.  attachOk is the manager's answer to
\* DevmgrServiceClntAttachDevice; attached says the manager recorded the
\* token.  devStatus is LAUNCHED before Bind and Init run and stays so when
\* they fail; only a missing Bind under a publishing policy resets it.
HdfDeviceLaunchNode(d, n, o, attachOk) ==
  LET launched == DevNodeLaunched(n)
      bound    == IF Publishes(d)
                  THEN [launched EXCEPT !.service = o.service, !.drv = o.bind]
                  ELSE launched
      inited   == [bound EXCEPT !.drv = @ \/ o.init]
      pub      == HdfDeviceNodePublishService(d, inited, o)
  IN  IF "Init" \notin Entry[d]
      THEN LaunchResult(n, "INVALID_PARAM", FALSE, FALSE)
      ELSE IF Publishes(d) /\ "Bind" \notin Entry[d]
      THEN LaunchResult([n EXCEPT !.devStatus = "NONE"], "INVALID_OBJECT", FALSE, FALSE)
      ELSE IF Publishes(d) /\ ~o.bind
      THEN LaunchResult(bound, "DEV_INIT_FAIL", FALSE, FALSE)
      ELSE IF ~o.init
      THEN LaunchResult(bound, "DEV_INIT_FAIL", FALSE, FALSE)
      ELSE IF pub.ret # "SUCCESS"
      THEN LaunchResult(pub.node, "PUBLISH_FAIL", pub.added, FALSE)
      ELSE IF ~attachOk
      THEN LaunchResult(pub.node, "ATTACHDEV_FAIL", pub.added, FALSE)
      ELSE LaunchResult(pub.node, "SUCCESS", pub.added, TRUE)

\* Mutant: the listener is registered without looking at the token held.
HdfDeviceNodeAddPowerStateListenerNoGuard(n, allocOk) ==
  IF allocOk
  THEN [node |-> [n EXCEPT !.powerToken = @ + 1], ret |-> "SUCCESS"]
  ELSE [node |-> n, ret |-> "FAILURE"]

\* HdfDeviceNodeAddPowerStateListener: at most one power token per node.
HdfDeviceNodeAddPowerStateListener(n, allocOk) ==
  IF n.powerToken # 0
  THEN [node |-> n, ret |-> "FAILURE"]
  ELSE IF allocOk
  THEN [node |-> [n EXCEPT !.powerToken = 1], ret |-> "SUCCESS"]
  ELSE [node |-> n, ret |-> "FAILURE"]

\* HdfDeviceNodeRemovePowerStateListener: frees the token if there is one.
HdfDeviceNodeRemovePowerStateListener(n) == [n EXCEPT !.powerToken = 0]

\* HdfDeviceNodeRemoveService: removed says DevSvcManagerClntRemoveService
\* was called.
HdfDeviceNodeRemoveService(n) ==
  [node |-> [n EXCEPT !.servStatus = FALSE], removed |-> n.servStatus]

\* Mutant: the published service is left in the registry on release.
HdfDeviceReleaseNodeKeepService(d, n) ==
  [node |-> n, released |-> "Release" \in Entry[d],
   removed |-> FALSE, detach |-> n.servStatus]

\* HdfDeviceReleaseNode: the driver's Release, then, only for a node whose
\* public service is published, service removal and detach from the
\* manager (DevmgrServiceClntDetachDevice).
HdfDeviceReleaseNode(d, n) ==
  LET rm == HdfDeviceNodeRemoveService(n)
  IN  [node |-> rm.node, released |-> "Release" \in Entry[d],
       removed |-> rm.removed, detach |-> n.servStatus]

\* HdfDeviceNodeDestruct: the switch on devStatus, LAUNCHED falling through
\* into INITED.
HdfDeviceNodeDestruct(d, n) ==
  LET rel   == HdfDeviceReleaseNode(d, n)
      isL   == n.devStatus = "LAUNCHED"
      afterL == IF isL THEN [rel.node EXCEPT !.token = FALSE,
                                             !.drv = @ /\ ~rel.released]
                       ELSE n
      final == IF n.devStatus \in {"LAUNCHED", "INITED"}
               THEN [afterL EXCEPT !.powerToken = 0, !.servName = FALSE]
               ELSE n
  IN  [node |-> final, released |-> isL /\ rel.released,
       removed |-> isL /\ rel.removed, detach |-> isL /\ rel.detach]

\* The allocations a destructed node still holds when its memory is freed,
\* and the driver's state when the driver has a Release that was not called.
Leftover(d, n) ==
  {k \in {"token", "servName"} : n[k]} \cup
  (IF n.powerToken > 0 THEN {"powerToken"} ELSE {}) \cup
  (IF n.drv /\ "Release" \in Entry[d] THEN {"driver"} ELSE {})

\* HdfDeviceNodeFreeInstance: the object manager's release destructs the
\* node and frees its memory; lost is what nothing frees any more.
HdfDeviceNodeFreeInstance(d, n) ==
  LET de == HdfDeviceNodeDestruct(d, n)
  IN  [released |-> de.released, removed |-> de.removed,
       detach |-> de.detach, lost |-> Leftover(d, de.node)]

(***************************************************************************)
(* The host as seen by the nodes: one node per device at a time.  The      *)
(* manager's side of attach and detach is left to DevMgr; here it only    *)
(* answers.                                                                *)
(***************************************************************************)
VARIABLES
  node,    \* node[d]: the node the host holds for d (FreedNode if none)
  live,    \* the devices whose node the host holds
  svcReg,  \* the names in the global service registry (DevSvcManager)
  lost     \* <<d, resource>>: allocations of d's nodes nothing will free

vars == <<node, live, svcReg, lost>>

Init ==
  /\ node = [d \in Devices |-> FreedNode]
  /\ live = {}
  /\ svcReg = {}
  /\ lost = {}

\* Registry after a launch that published (added) and a release that
\* removed the name (removed).
NewRegistry(d, added, removed) ==
  (svcReg \cup (IF added THEN {d} ELSE {})) \ (IF removed THEN {d} ELSE {})

\* DevHostServiceAddDevice when HdfDeviceNodeNewInstance returns NULL (the
\* death of the host on a NULL token is modelled in DevMgr).
AddDeviceNoInstance(d) ==
  /\ d \notin live
  /\ \E alloc \in Allocs \ {"ok", "noToken"} :
       LET ni == HdfDeviceNodeNewInstance(alloc)
       IN  lost' = lost \cup ({d} \X ni.lost)
  /\ UNCHANGED <<node, live, svcReg>>

\* DevHostServiceAddDevice when the node launches: the host keeps it.
AddDeviceLaunched(d) ==
  /\ d \notin live
  /\ \E o \in Outcomes :
       LET l == HdfDeviceLaunchNode(d, HdfDeviceNodeNewInstance("ok").node, o, TRUE)
       IN  /\ l.ret = "SUCCESS"
           /\ node' = [node EXCEPT ![d] = l.node]
           /\ live' = live \cup {d}
           /\ svcReg' = NewRegistry(d, l.added, FALSE)
  /\ UNCHANGED lost

\* DevHostServiceAddDevice when the launch fails: the host frees the node.
AddDeviceFailed(d) ==
  /\ d \notin live
  /\ \E o \in Outcomes, attachOk \in BOOLEAN :
       LET l == HdfDeviceLaunchNode(d, HdfDeviceNodeNewInstance("ok").node, o, attachOk)
           f == HdfDeviceNodeFreeInstance(d, l.node)
       IN  /\ l.ret # "SUCCESS"
           /\ svcReg' = NewRegistry(d, l.added, f.removed)
           /\ lost' = lost \cup ({d} \X f.lost)
  /\ UNCHANGED <<node, live>>

\* DevHostServiceDelDevice: the host frees the node it holds.
DelDevice(d) ==
  /\ d \in live
  /\ LET f == HdfDeviceNodeFreeInstance(d, node[d])
     IN  /\ svcReg' = NewRegistry(d, FALSE, f.removed)
         /\ lost' = lost \cup ({d} \X f.lost)
  /\ node' = [node EXCEPT ![d] = FreedNode]
  /\ live' = live \ {d}

\* The driver registers a power listener (from its Bind or Init).
AddPowerStateListener(d) ==
  /\ d \in live
  /\ \E allocOk \in BOOLEAN :
       node' = [node EXCEPT ![d] = HdfDeviceNodeAddPowerStateListener(@, allocOk).node]
  /\ UNCHANGED <<live, svcReg, lost>>

\* The driver drops its power listener.
RemovePowerStateListener(d) ==
  /\ d \in live
  /\ node' = [node EXCEPT ![d] = HdfDeviceNodeRemovePowerStateListener(@)]
  /\ UNCHANGED <<live, svcReg, lost>>

Next ==
  \E d \in Devices :
    \/ AddDeviceNoInstance(d)
    \/ AddDeviceLaunched(d)
    \/ AddDeviceFailed(d)
    \/ DelDevice(d)
    \/ AddPowerStateListener(d)
    \/ RemovePowerStateListener(d)

Spec == Init /\ [][Next]_vars

(***************************************************************************)
(* Properties                                                              *)
(***************************************************************************)

\* Type invariant; a node holds at most one power-state token
\* (HdfDeviceNodeAddPowerStateListener refuses a second listener).
TypeOK ==
  /\ node \in [Devices -> NodeRec]
  /\ live \subseteq Devices
  /\ svcReg \subseteq Devices
  /\ lost \subseteq Devices \X Resources

\* The global service registry holds a device's name exactly while the host
\* holds a node for it whose public service is published: every failure
\* path of HdfDeviceLaunchNode after a successful global publish, and every
\* teardown through HdfDeviceNodeDestruct, removes the name again.
RegistryMatchesNodes ==
  \A d \in Devices : d \in svcReg <=> (d \in live /\ node[d].servStatus)

\* Freeing a node (HdfDeviceNodeFreeInstance after a failed or a finished
\* life, or a failed HdfDeviceNodeNewInstance) leaves no allocation of the
\* node behind: its object, device token, service name and power token.
NoLeak == lost = {}

\* Whatever a driver set up in a Bind or an Init that succeeded is handed
\* back to its Release before the node is freed, on every failure path of
\* HdfDeviceLaunchNode and on unload.  This is what setting DEVNODE_LAUNCHED
\* before Bind and Init buys: HdfDeviceNodeDestruct calls Release only for
\* a LAUNCHED node, so a node that stayed INITED would drop the driver's
\* state when Init fails after Bind succeeded.
DriverStateReleased == \A d \in Devices : <<d, "driver">> \notin lost

=============================================================================
