------------------------------ MODULE Presence -------------------------------
(***************************************************************************)
(* The presence of one user, which two keys of the cache hold: the live    *)
(* key, with a lifetime, and the count of open websockets, without one.     *)
(* Each operation on the cache is a step of its own; a worker that is        *)
(* killed closes its sockets without counting them.                          *)
(*                                                                         *)
(* Seeded, the live key lasts 90 seconds and AWAY begins at 300, so that it *)
(* is never that old.  users.status is not modelled: effective_status       *)
(* compares it with IN_MEETING only, which nothing here sets.               *)
(***************************************************************************)
EXTENDS Requests, Integers
CONSTANTS
  Link,      \* websockets of the user
  MaxConns   \* bound: sockets counted

ASSUME LinksAreFinite == IsFiniteSet(Link)

VARIABLES
  live,        \* presence:{user}: "none", "fresh", or "due" to run out
  counted,     \* presence:conns:{user} is there
  conns,       \* its value
  link,        \* the handlers of the sockets
  miscounted,  \* history: two handlers met on the count
  silent       \* history: the live key ran out since the last sign of life

presenceVars == <<live, counted, conns, link, miscounted, silent>>

PresenceInit ==
  /\ live = "none" /\ counted = FALSE /\ conns = 0
  /\ link = [s \in Link |-> "closed"]
  /\ miscounted = FALSE /\ silent = FALSE

Moves(s, from, to) ==
  /\ link[s] = from
  /\ link' = [link EXCEPT ![s] = to]

SetLive == live' = "fresh" /\ silent' = FALSE

(* A handler has found that its socket was the last one. *)
Ending == \E s \in Link : link[s] \in {"delete", "clear"}

-----------------------------------------------------------------------------
(* mark_socket_open. *)

OpenSocket(s) ==
  /\ Moves(s, "closed", "count")
  /\ UNCHANGED <<live, counted, conns, miscounted, silent>>

(* incr, which fails where there is no count: *)
CountSocket(s) ==
  /\ Moves(s, "count", IF counted THEN "counted" ELSE "first")
  /\ conns < MaxConns
  /\ conns' = IF counted THEN conns + 1 ELSE conns
  /\ miscounted' = (miscounted \/ Ending)
  /\ UNCHANGED <<live, counted, silent>>

(* the count is set to 1, whatever another socket has done since. *)
CountFirst(s) ==
  /\ Moves(s, "first", "counted")
  /\ miscounted' = (miscounted \/ counted \/ Ending)
  /\ counted' = TRUE /\ conns' = 1
  /\ UNCHANGED <<live, silent>>

GoLive(s) ==
  /\ Moves(s, "counted", "open")
  /\ SetLive
  /\ UNCHANGED <<counted, conns, miscounted>>

(* PING. *)
Ping(s) ==
  /\ link[s] = "open"
  /\ SetLive
  /\ UNCHANGED <<counted, conns, link, miscounted>>

(* POST /me/presence/heartbeat, which needs no socket. *)
Heartbeat ==
  /\ SetLive
  /\ UNCHANGED <<counted, conns, link, miscounted>>

-----------------------------------------------------------------------------
(* mark_socket_close. *)

CloseSocket(s) ==
  /\ Moves(s, "open", "closing")
  /\ UNCHANGED <<live, counted, conns, miscounted, silent>>

(* Mutant: the last but one socket counts as the last. *)
UncountEarly(s) ==
  LET left == IF counted THEN conns - 1 ELSE 0 IN
  /\ Moves(s, "closing", IF left <= 1 THEN "delete" ELSE "closed")
  /\ conns' = IF counted THEN left ELSE conns
  /\ UNCHANGED <<live, counted, miscounted, silent>>

(* decr, which fails where there is no count. *)
UncountSocket(s) ==
  LET left == IF counted THEN conns - 1 ELSE 0 IN
  /\ Moves(s, "closing", IF left <= 0 THEN "delete" ELSE "closed")
  /\ conns' = IF counted THEN left ELSE conns
  /\ UNCHANGED <<live, counted, miscounted, silent>>

DeleteCount(s) ==
  /\ Moves(s, "delete", "clear")
  /\ counted' = FALSE /\ conns' = 0
  /\ UNCHANGED <<live, miscounted, silent>>

ClearLive(s) ==
  /\ Moves(s, "clear", "closed")
  /\ live' = "none"
  /\ UNCHANGED <<counted, conns, miscounted, silent>>

(* The worker of a socket is killed. *)
KillSocket(s) ==
  /\ link[s] # "closed"
  /\ link' = [link EXCEPT ![s] = "closed"]
  /\ UNCHANGED <<live, counted, conns, miscounted, silent>>

-----------------------------------------------------------------------------
(* The lifetime of the live key. *)

LifeWanes ==
  /\ live = "fresh" /\ live' = "due"
  /\ UNCHANGED <<counted, conns, link, miscounted, silent>>

(* Mutant: set without a timeout. *)
LifeStays == FALSE /\ UNCHANGED presenceVars

LifeEnds ==
  /\ live = "due" /\ live' = "none"
  /\ silent' = TRUE
  /\ UNCHANGED <<counted, conns, link, miscounted>>

PresenceNext ==
  \/ \E s \in Link :
       \/ OpenSocket(s) \/ CountSocket(s) \/ CountFirst(s) \/ GoLive(s) \/ Ping(s)
       \/ CloseSocket(s) \/ UncountSocket(s) \/ DeleteCount(s) \/ ClearLive(s) \/ KillSocket(s)
  \/ Heartbeat \/ LifeWanes \/ LifeEnds

PresenceSpec == PresenceInit /\ [][PresenceNext]_presenceVars

(* Time passes. *)
PresenceFairness == WF_presenceVars(LifeWanes) /\ WF_presenceVars(LifeEnds)
PresenceFairSpec == PresenceSpec /\ PresenceFairness

-----------------------------------------------------------------------------
(* Properties. *)

(* connection_status: a user with an open socket that gives signs of life is  *)
(* not OFFLINE, whatever other sockets open, close or die, unless two handlers *)
(* met on the count.                                                           *)
ConnectedIsOnline ==
  (\E s \in Link : link[s] = "open") => live # "none" \/ silent \/ miscounted

SignOfLife == Heartbeat \/ \E s \in Link : GoLive(s) \/ Ping(s)

(* A user of whom nothing is heard any more is OFFLINE at last, though the     *)
(* workers of the sockets were killed and the count stays above zero.          *)
GoneIsOffline == <>[][~SignOfLife]_presenceVars => <>[](live = "none")

=============================================================================
