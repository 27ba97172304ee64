---------------------------- MODULE PlatformDevice ----------------------------
(***************************************************************************)
(* The platform device registry: struct PlatformDevice and struct          *)
(* PlatformManager (src/support/platform/include/fwk/platform_device.h,   *)
(* platform_manager.h).  Only the headers are under src/; the operations  *)
(* follow the contracts of their declarations and of spec.md 4.3.          *)
(*                                                                         *)
(* Normal-context threads add devices to the manager, look them up (which *)
(* takes a reference), get and put references and delete devices; an     *)
(* interrupt may notify a device's notifiers at any time.  The device's   *)
(* spinlock and the manager's lock make each short operation one step.    *)
(* PlatformDeviceDel is two steps: it marks the device dying and drops    *)
(* the manager's reference, then sleeps on the "released" semaphore until *)
(* the last reference is put, and only then unlinks and uninitialises the *)
(* device.                                                                 *)
(***************************************************************************)
EXTENDS Naturals, Sequences, SequencesExt, FiniteSets

CONSTANTS
  Devs,       \* the platform devices; a device's number identifies it
  Threads,    \* normal-context threads (Add and Del may sleep)
  Notifiers,  \* struct PlatformNotifier instances drivers may register
  MaxHold,    \* bound on the references one thread holds on one device
  DelBare     \* TRUE: a thread calls Del only when it holds no reference
              \* to any device; FALSE: only none to the device it deletes

ASSUME /\ Devs # {} /\ Threads # {}
       /\ MaxHold \in Nat \ {0}
       /\ DelBare \in BOOLEAN


\* enum PlatformEventType (PLAT_EVENT_MAX excluded).
Events == {"INIT", "DEAD"}

VARIABLES
  inited,     \* inited[d]: PlatformDeviceInit has run and Uninit not since
  mgrList,    \* manager->devices: the devices in the manager, in list order
  ready,      \* ready[d]: device->ready
  ref,        \* ref[d]: device->ref, the reference count
  sem,        \* sem[d]: the count of the "released" semaphore
  notifiers,  \* notifiers[d]: the notifiers on device->notifiers
  held,       \* held[t][d]: references to d thread t took and has not put
  pc,         \* pc[t]: "idle", or the device whose Del t sleeps in
  seen        \* seen[n]: the <<device, event>> pairs notifier n was called with

vars == <<inited, mgrList, ready, ref, sem, notifiers, held, pc, seen>>

Listed(d) == d \in Range(mgrList)

\* What the caller of PlatformDeviceDel(t, d) holds: never a reference to d
\* (it would sleep waiting for itself); with DelBare none at all.
MayDel(t, d) ==
  IF DelBare THEN \A e \in Devs : held[t][e] = 0 ELSE held[t][d] = 0

(***************************************************************************)
(* Device members                                                          *)
(***************************************************************************)

\* PlatformDeviceInit: an empty notifier list, not ready, the "released"
\* semaphore created with count 0 (and the reference count at zero).
PlatformDeviceInit(d) ==
  /\ inited' = [inited EXCEPT ![d] = TRUE]
  /\ sem' = [sem EXCEPT ![d] = 0]
  /\ notifiers' = [notifiers EXCEPT ![d] = {}]

\* PlatformDeviceUninit: the notifiers are cleared and the members destroyed.
PlatformDeviceUninit(d) ==
  /\ inited' = [inited EXCEPT ![d] = FALSE]
  /\ notifiers' = [notifiers EXCEPT ![d] = {}]

\* PlatformDeviceAdd (PlatformManagerAddDevice): the device is
\* initialised, linked at the tail of the manager's list under its lock with
\* the manager's reference, and marked ready.  Not from interrupt context.
PlatformDeviceAdd(t, d) ==
  /\ pc[t] = "idle"
  /\ ~inited[d]
  /\ PlatformDeviceInit(d)
  /\ ref' = [ref EXCEPT ![d] = 1]
  /\ mgrList' = Append(mgrList, d)
  /\ ready' = [ready EXCEPT ![d] = TRUE]
  /\ UNCHANGED <<held, pc, seen>>

(***************************************************************************)
(* References                                                              *)
(***************************************************************************)

\* Take one reference for t, under the device's spinlock; a device that is
\* not ready (being deleted) cannot be retained.
Retain(t, d) ==
  /\ ref' = [ref EXCEPT ![d] = @ + 1]
  /\ held' = [held EXCEPT ![t][d] = @ + 1]

\* PlatformDeviceGet on a device t already holds a reference to (and so a
\* valid pointer): one more reference, or NULL if the device is dying.
PlatformDeviceGet(t, d) ==
  /\ pc[t] = "idle"
  /\ 0 < held[t][d] /\ held[t][d] < MaxHold
  /\ ready[d]
  /\ Retain(t, d)
  /\ UNCHANGED <<inited, mgrList, ready, sem, notifiers, pc, seen>>

\* Mutant: a put without a matching get.
PlatformDevicePutUnbalanced(t, d) ==
  /\ pc[t] = "idle"
  /\ inited[d]
  /\ ref' = [ref EXCEPT ![d] = @ - 1]
  /\ held' = [held EXCEPT ![t][d] = IF @ > 0 THEN @ - 1 ELSE 0]
  /\ sem' = IF ref[d] = 1 THEN [sem EXCEPT ![d] = @ + 1] ELSE sem
  /\ UNCHANGED <<inited, mgrList, ready, notifiers, pc, seen>>

\* Mutant: every put signals "released", not only the last one.
PlatformDevicePutAlwaysSignal(t, d) ==
  /\ pc[t] = "idle"
  /\ held[t][d] > 0
  /\ ref' = [ref EXCEPT ![d] = @ - 1]
  /\ held' = [held EXCEPT ![t][d] = @ - 1]
  /\ sem' = [sem EXCEPT ![d] = @ + 1]
  /\ UNCHANGED <<inited, mgrList, ready, notifiers, pc, seen>>

\* PlatformDevicePut: one reference less; the last one signals "released",
\* which wakes a Del sleeping on it.
PlatformDevicePut(t, d) ==
  /\ pc[t] = "idle"
  /\ held[t][d] > 0
  /\ ref' = [ref EXCEPT ![d] = @ - 1]
  /\ held' = [held EXCEPT ![t][d] = @ - 1]
  /\ sem' = IF ref[d] = 1 THEN [sem EXCEPT ![d] = @ + 1] ELSE sem
  /\ UNCHANGED <<inited, mgrList, ready, notifiers, pc, seen>>

\* Mutant: the device found is got whether or not it is ready.
PlatformManagerFindDeviceNoReadyCheck(t, match) ==
  /\ pc[t] = "idle"
  /\ LET hits == SelectSeq(mgrList, LAMBDA e : e \in match)
     IN  /\ hits # <<>>
         /\ held[t][Head(hits)] < MaxHold
         /\ Retain(t, Head(hits))
  /\ UNCHANGED <<inited, mgrList, ready, sem, notifiers, pc, seen>>

\* Mutant: the device found is returned without taking a reference.
PlatformManagerFindDeviceNoGet(t, match) ==
  /\ pc[t] = "idle"
  /\ LET hits == SelectSeq(mgrList, LAMBDA e : e \in match)
     IN  /\ hits # <<>>
         /\ ready[Head(hits)]
         /\ held[t][Head(hits)] < MaxHold
         /\ held' = [held EXCEPT ![t][Head(hits)] = @ + 1]
  /\ UNCHANGED <<inited, mgrList, ready, ref, sem, notifiers, pc, seen>>

\* PlatformManagerFindDevice (and PlatformManagerGetDeviceByNumber, whose
\* match is the number): under the manager's lock, the first device of the
\* list the match function accepts is got, so it is returned with its
\* reference count increased; NULL if there is none or it is dying.
PlatformManagerFindDevice(t, match) ==
  /\ pc[t] = "idle"
  /\ LET hits == SelectSeq(mgrList, LAMBDA e : e \in match)
     IN  /\ hits # <<>>
         /\ ready[Head(hits)]
         /\ held[t][Head(hits)] < MaxHold
         /\ Retain(t, Head(hits))
  /\ UNCHANGED <<inited, mgrList, ready, sem, notifiers, pc, seen>>

(***************************************************************************)
(* Deleting a device                                                       *)
(***************************************************************************)

\* Mutant: Del sleeps without dropping the manager's reference.
PlatformDeviceDelKeepRef(t, d) ==
  /\ pc[t] = "idle"
  /\ Listed(d) /\ ready[d]
  /\ MayDel(t, d)
  /\ ready' = [ready EXCEPT ![d] = FALSE]
  /\ pc' = [pc EXCEPT ![t] = d]
  /\ UNCHANGED <<inited, mgrList, ref, sem, notifiers, held, seen>>

\* PlatformDeviceDel, first step: the device stops being retainable and
\* the manager's reference is put; t then sleeps on "released".
PlatformDeviceDel(t, d) ==
  /\ pc[t] = "idle"
  /\ Listed(d) /\ ready[d]
  /\ MayDel(t, d)
  /\ ready' = [ready EXCEPT ![d] = FALSE]
  /\ ref' = [ref EXCEPT ![d] = @ - 1]
  /\ sem' = IF ref[d] = 1 THEN [sem EXCEPT ![d] = @ + 1] ELSE sem
  /\ pc' = [pc EXCEPT ![t] = d]
  /\ UNCHANGED <<inited, mgrList, notifiers, held, seen>>

\* PlatformDeviceDel, second step: OsalSemDown on "released" returns; the
\* device is unlinked from the manager (PlatformManagerDelDevice) and
\* uninitialised.
PlatformDeviceDelWait(t) ==
  LET d == pc[t]
  IN  /\ d # "idle"
      /\ sem[d] > 0
      /\ sem' = [sem EXCEPT ![d] = @ - 1]
      /\ mgrList' = SelectSeq(mgrList, LAMBDA e : e # d)
      /\ PlatformDeviceUninit(d)
      /\ pc' = [pc EXCEPT ![t] = "idle"]
      /\ UNCHANGED <<ready, ref, held, seen>>

(***************************************************************************)
(* Notifiers                                                               *)
(***************************************************************************)

\* PlatformDeviceRegNotifier: a notifier node is appended under the spinlock.
PlatformDeviceRegNotifier(d, n) ==
  /\ inited[d]
  /\ n \notin notifiers[d]
  /\ notifiers' = [notifiers EXCEPT ![d] = @ \cup {n}]
  /\ UNCHANGED <<inited, mgrList, ready, ref, sem, held, pc, seen>>

\* PlatformDeviceUnregNotifier: its node is removed under the spinlock.
PlatformDeviceUnregNotifier(d, n) ==
  /\ n \in notifiers[d]
  /\ notifiers' = [notifiers EXCEPT ![d] = @ \ {n}]
  /\ UNCHANGED <<inited, mgrList, ready, ref, sem, held, pc, seen>>

\* PlatformDeviceClearNotifier: every node is removed.
PlatformDeviceClearNotifier(d) ==
  /\ notifiers[d] # {}
  /\ notifiers' = [notifiers EXCEPT ![d] = {}]
  /\ UNCHANGED <<inited, mgrList, ready, ref, sem, held, pc, seen>>

\* PlatformDeviceNotify, from interrupt context, for a device whose members
\* are valid: every registered handler is called under the spinlock.
PlatformDeviceNotify(d, e) ==
  /\ inited[d]
  /\ seen' = [n \in Notifiers |-> IF n \in notifiers[d] THEN seen[n] \cup {<<d, e>>}
                                                         ELSE seen[n]]
  /\ UNCHANGED <<inited, mgrList, ready, ref, sem, notifiers, held, pc>>

(***************************************************************************)
(* Specification                                                           *)
(***************************************************************************)

Init ==
  /\ inited = [d \in Devs |-> FALSE]
  /\ mgrList = <<>>
  /\ ready = [d \in Devs |-> FALSE]
  /\ ref = [d \in Devs |-> 0]
  /\ sem = [d \in Devs |-> 0]
  /\ notifiers = [d \in Devs |-> {}]
  /\ held = [t \in Threads |-> [d \in Devs |-> 0]]
  /\ pc = [t \in Threads |-> "idle"]
  /\ seen = [n \in Notifiers |-> {}]

Next ==
  \/ \E t \in Threads, d \in Devs :
       \/ PlatformDeviceAdd(t, d)
       \/ PlatformDeviceGet(t, d)
       \/ PlatformDevicePut(t, d)
       \/ PlatformDeviceDel(t, d)
  \/ \E t \in Threads, match \in SUBSET Devs : PlatformManagerFindDevice(t, match)
  \/ \E t \in Threads : PlatformDeviceDelWait(t)
  \/ \E d \in Devs, n \in Notifiers :
       PlatformDeviceRegNotifier(d, n) \/ PlatformDeviceUnregNotifier(d, n)
  \/ \E d \in Devs : PlatformDeviceClearNotifier(d)
  \/ \E d \in Devs, e \in Events : PlatformDeviceNotify(d, e)

\* A sleeping Del is woken once "released" is signalled (the semaphore
\* keeps the count), and, by the contract of Get and FindDevice, every
\* reference a thread takes it eventually puts.  A thread may be busy in
\* other calls (a Del of its own) between the chances it has to put, so
\* the put is strongly fair.
Fairness ==
  /\ \A t \in Threads : WF_vars(PlatformDeviceDelWait(t))
  /\ \A t \in Threads, d \in Devs : SF_vars(PlatformDevicePut(t, d))

Spec == Init /\ [][Next]_vars /\ Fairness

(***************************************************************************)
(* Properties                                                              *)
(***************************************************************************)

TypeOK ==
  /\ inited \in [Devs -> BOOLEAN]
  /\ mgrList \in Seq(Devs)
  /\ ready \in [Devs -> BOOLEAN]
  /\ ref \in [Devs -> Nat]
  /\ sem \in [Devs -> Nat]
  /\ notifiers \in [Devs -> SUBSET Notifiers]
  /\ held \in [Threads -> [Devs -> 0..MaxHold]]
  /\ pc \in [Threads -> Devs \cup {"idle"}]
  /\ seen \in [Notifiers -> SUBSET (Devs \X Events)]

\* Every reference a thread got from PlatformDeviceGet or FindDevice is to
\* a device whose members are still valid: Del never unlinks and
\* uninitialises a device someone still holds.
NoHandleAfterDel ==
  \A t \in Threads, d \in Devs : held[t][d] > 0 => inited[d]

\* The reference count is exactly the references threads hold plus the
\* manager's own one, which a device has from Add until its Del starts.
RefCountMatchesHolders ==
  \A d \in Devs :
    inited[d] =>
      ref[d] = SumFunction([t \in Threads |-> held[t][d]]) + (IF ready[d] THEN 1 ELSE 0)

\* The lifetime the users see: a device is absent until Add, live while
\* ready, and dying from PlatformDeviceDel until its wait ends.
Life(d) == IF ~inited[d] THEN "absent" ELSE IF ready[d] THEN "live" ELSE "dying"

Registry == INSTANCE PlatformRegistry WITH life <- [d \in Devs |-> Life(d)],
                                           handles <- held

\* Get, FindDevice, Put and the two steps of Del, interleaved with one
\* another and with the notifier calls, implement the abstract lifetime:
\* a reference is handed out only for a ready device, and Del's wait ends
\* and uninitialises the device only when no thread holds a reference.
PlatformRefinesRegistry == Registry!Spec

\* Every PlatformDeviceDel returns: the sleep on "released" ends.
DelReturns ==
  \A t \in Threads : pc[t] # "idle" ~> pc[t] = "idle"

=============================================================================
