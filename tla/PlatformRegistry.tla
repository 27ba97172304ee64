--------------------------- MODULE PlatformRegistry ---------------------------
(***************************************************************************)
(* What the platform core promises its users about the lifetime of a      *)
(* platform device (platform_device.h, platform_manager.h, spec.md 4.3),  *)
(* without reference counts, semaphores or lists: a device is absent,     *)
(* live, or dying once its Del has begun.  A user obtains a handle only   *)
(* to a live device, and a dying device goes away only when no user holds *)
(* a handle to it.  PlatformDevice refines this specification.            *)
(***************************************************************************)
EXTENDS Naturals

CONSTANTS Devs, Threads

Lives == {"absent", "live", "dying"}

VARIABLES
  life,     \* life[d]: where d is in its lifetime
  handles   \* handles[t][d]: the handles to d that user t holds

vars == <<life, handles>>

Init ==
  /\ life = [d \in Devs |-> "absent"]
  /\ handles = [t \in Threads |-> [d \in Devs |-> 0]]

\* The device is added and may be looked up.
Add(d) ==
  /\ life[d] = "absent"
  /\ life' = [life EXCEPT ![d] = "live"]
  /\ UNCHANGED handles

\* A user obtains one more handle to a live device.
Acquire(t, d) ==
  /\ life[d] = "live"
  /\ handles' = [handles EXCEPT ![t][d] = @ + 1]
  /\ UNCHANGED life

\* A user gives one handle back.
Release(t, d) ==
  /\ handles[t][d] > 0
  /\ handles' = [handles EXCEPT ![t][d] = @ - 1]
  /\ UNCHANGED life

\* Del begins: no new handle is handed out.
Kill(d) ==
  /\ life[d] = "live"
  /\ life' = [life EXCEPT ![d] = "dying"]
  /\ UNCHANGED handles

\* Del ends: the device goes away once nobody holds it.
Remove(d) ==
  /\ life[d] = "dying"
  /\ \A t \in Threads : handles[t][d] = 0
  /\ life' = [life EXCEPT ![d] = "absent"]
  /\ UNCHANGED handles

Next ==
  \/ \E d \in Devs : Add(d) \/ Kill(d) \/ Remove(d)
  \/ \E t \in Threads, d \in Devs : Acquire(t, d) \/ Release(t, d)

Spec == Init /\ [][Next]_vars

=============================================================================
