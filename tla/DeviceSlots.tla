---------------------------- MODULE DeviceSlots ----------------------------
(***************************************************************************)
(* What the authentication service promises about devices, without its     *)
(* requests, locks, tokens or caches: an installed application (a device)  *)
(* holds at most one session.  A login replaces, in one step, whatever the *)
(* device held; a revocation only takes sessions away; a session, once     *)
(* gone, never comes back; nothing opens on a banned device.               *)
(***************************************************************************)
CONSTANTS Device, Session

VARIABLES
  held,       \* [Device -> SUBSET Session]: the active session of each device
  spent,      \* the sessions that have been opened, active or not
  banned      \* the devices flagged as compromised

vars == <<held, spent, banned>>

Init ==
  /\ held = [d \in Device |-> {}]
  /\ spent = {}
  /\ banned = {}

(* A login: the new session takes the place of what the device held. *)
Open(d, s) ==
  /\ s \notin spent
  /\ d \notin banned
  /\ held' = [held EXCEPT ![d] = {s}]
  /\ spent' = spent \union {s}
  /\ UNCHANGED banned

(* A logout, a revocation or the reaper: some sessions end, and the device  *)
(* flag may be written in the same transaction.                             *)
Close(S, B) ==
  /\ held' = [d \in Device |-> held[d] \ S]
  /\ banned' = B
  /\ UNCHANGED spent

Next ==
  \/ \E d \in Device, s \in Session: Open(d, s)
  \/ \E S \in SUBSET Session, B \in SUBSET Device: Close(S, B)

Spec == Init /\ [][Next]_vars

=============================================================================
