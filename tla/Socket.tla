------------------------------- MODULE Socket --------------------------------
(***************************************************************************)
(* The websockets that follow one conversation.  Who may follow it is       *)
(* looked at when the client connects and when it subscribes, never again.   *)
(* A message is broadcast by the request that sends it, before that request  *)
(* commits; what the client has missed it fetches from the API.              *)
(***************************************************************************)
EXTENDS Requests
CONSTANTS
  Wire,   \* websockets
  Msg     \* messages of the conversation

VARIABLES
  accepted,    \* users who accepted the current terms (users.tos_version)
  onboarded,   \* users.onboarding_completed_at
  members,     \* active rows of conversation_members
  wire,        \* the consumers: user, position, their set of subscriptions
  followers,   \* the group of the channel layer
  posted,      \* committed messages
  draft,       \* the requests that send
  got,         \* history: what the client of a socket has received or fetched
  caughtUp,    \* history: sockets whose client has fetched since it subscribed
  between,     \* history: broadcast before the socket followed, committed after it fetched
  unsent       \* history: broadcasts that failed, silently

socketVars == <<accepted, onboarded, members, wire, followers, posted, draft, got, caughtUp,
                between, unsent>>
gateVars   == <<accepted, onboarded, members>>
clientVars == <<got, caughtUp, between>>

NoWire  == [user |-> None, pc |-> "off", subscribed |-> FALSE]
NoDraft == [pc |-> "idle", msg |-> None]

SocketInit ==
  /\ accepted = {} /\ onboarded = {}
  /\ members = User
  /\ wire = [s \in Wire |-> NoWire]
  /\ followers = {} /\ posted = {}
  /\ draft = [p \in Request |-> NoDraft]
  /\ got = [s \in Wire |-> {}] /\ caughtUp = {}
  /\ between = [s \in Wire |-> {}] /\ unsent = {}

-----------------------------------------------------------------------------
(* The gates, and the membership. *)

(* ComplianceGates, and the same two questions at connect. *)
Cleared(u) == u \in accepted \intersect onboarded

AcceptTos(u) ==
  /\ accepted' = accepted \union {u}
  /\ UNCHANGED <<onboarded, members, wire, followers, posted, draft, clientVars, unsent>>

CompleteOnboarding(u) ==
  /\ u \in accepted
  /\ onboarded' = onboarded \union {u}
  /\ UNCHANGED <<accepted, members, wire, followers, posted, draft, clientVars, unsent>>

(* The terms are changed (YAS_TOS_VERSION). *)
NewTosVersion ==
  /\ accepted # {} /\ accepted' = {}
  /\ UNCHANGED <<onboarded, members, wire, followers, posted, draft, clientVars, unsent>>

(* Members: nothing tells the sockets. *)
ChangeMember(u) ==
  /\ members' = IF u \in members THEN members \ {u} ELSE members \union {u}
  /\ UNCHANGED <<accepted, onboarded, wire, followers, posted, draft, clientVars, unsent>>

-----------------------------------------------------------------------------
(* The consumer. *)

ForgetClient(s) ==
  /\ got' = [got EXCEPT ![s] = {}]
  /\ caughtUp' = caughtUp \ {s}
  /\ between' = [between EXCEPT ![s] = {}]

ConnectWire(s, u) ==
  /\ wire[s].pc = "off" /\ Cleared(u)
  /\ wire' = [wire EXCEPT ![s] = [NoWire EXCEPT !.pc = "on", !.user = u]]
  /\ UNCHANGED <<gateVars, followers, posted, draft, clientVars, unsent>>

(* A conversation the socket follows already is passed over. *)
BeginSubscribe(s) ==
  /\ wire[s].pc = "on" /\ ~wire[s].subscribed
  /\ wire[s].user \in members
  /\ wire' = [wire EXCEPT ![s].pc = "join", ![s].subscribed = TRUE]
  /\ UNCHANGED <<gateVars, followers, posted, draft, clientVars, unsent>>

JoinGroup(s) ==
  /\ wire[s].pc = "join"
  /\ wire' = [wire EXCEPT ![s].pc = "on"]
  /\ followers' = followers \union {s}
  /\ UNCHANGED <<gateVars, posted, draft, clientVars, unsent>>

(* Mutant: the consumer goes on believing that it follows. *)
DiscardHalf(s) ==
  /\ wire[s].pc = "on"
  /\ followers' = followers \ {s}
  /\ ForgetClient(s)
  /\ UNCHANGED <<gateVars, wire, posted, draft, unsent>>

Unsubscribe(s) ==
  /\ wire[s].pc = "on"
  /\ wire' = [wire EXCEPT ![s].subscribed = FALSE]
  /\ followers' = followers \ {s}
  /\ ForgetClient(s)
  /\ UNCHANGED <<gateVars, posted, draft, unsent>>

Disconnect(s) ==
  /\ wire[s].pc = "on"
  /\ wire' = [wire EXCEPT ![s] = NoWire]
  /\ followers' = followers \ {s}
  /\ ForgetClient(s)
  /\ UNCHANGED <<gateVars, posted, draft, unsent>>

(* The client gets the messages of the conversation from the API, after the   *)
(* consumer has served its subscription: nothing acknowledges one, but a PONG  *)
(* sent behind it does.                                                      *)
Fetch(s) ==
  /\ wire[s].pc = "on" /\ wire[s].subscribed
  /\ Cleared(wire[s].user) /\ wire[s].user \in members
  /\ got' = [got EXCEPT ![s] = @ \union posted]
  /\ caughtUp' = caughtUp \union {s}
  /\ between' = [between EXCEPT ![s] =
       {draft[p].msg : p \in {q \in Request : draft[q].pc = "commit"}} \ got[s]]
  /\ UNCHANGED <<gateVars, wire, followers, posted, draft, unsent>>

-----------------------------------------------------------------------------
(* The request that sends a message. *)

WriteMsg(p, m) ==
  /\ draft[p].pc = "idle" /\ m \notin posted
  /\ \A q \in Request : draft[q].msg # m
  /\ draft' = [draft EXCEPT ![p] = [pc |-> "broadcast", msg |-> m]]
  /\ UNCHANGED <<gateVars, wire, followers, posted, clientVars, unsent>>

(* _group_send: an error of the channel layer is passed over. *)
BroadcastMsg(p) ==
  LET m == draft[p].msg IN
  /\ draft[p].pc = "broadcast"
  /\ draft' = [draft EXCEPT ![p].pc = "commit"]
  /\ \/ /\ got' = [s \in Wire |-> IF s \in followers THEN got[s] \union {m} ELSE got[s]]
        /\ UNCHANGED unsent
     \/ unsent' = unsent \union {m} /\ UNCHANGED got
  /\ UNCHANGED <<gateVars, wire, followers, posted, caughtUp, between>>

CommitMsg(p) ==
  /\ draft[p].pc = "commit"
  /\ posted' = posted \union {draft[p].msg}
  /\ draft' = [draft EXCEPT ![p] = NoDraft]
  /\ UNCHANGED <<gateVars, wire, followers, clientVars, unsent>>

(* A request may fail after its broadcast: the clients have a message that   *)
(* is in no row.                                                            *)
AbortMsg(p) ==
  /\ draft[p].pc # "idle"
  /\ draft' = [draft EXCEPT ![p] = NoDraft]
  /\ UNCHANGED <<gateVars, wire, followers, posted, clientVars, unsent>>

SocketNext ==
  \/ \E u \in User : AcceptTos(u) \/ CompleteOnboarding(u) \/ ChangeMember(u)
  \/ NewTosVersion
  \/ \E s \in Wire : \/ \E u \in User : ConnectWire(s, u)
                     \/ BeginSubscribe(s) \/ JoinGroup(s) \/ Unsubscribe(s) \/ Disconnect(s)
                     \/ Fetch(s)
  \/ \E p \in Request : \/ \E m \in Msg : WriteMsg(p, m)
                        \/ BroadcastMsg(p) \/ CommitMsg(p) \/ AbortMsg(p)

SocketSpec == SocketInit /\ [][SocketNext]_socketVars

-----------------------------------------------------------------------------
(* Properties. *)

(* A client that subscribes and then fetches has every message, across         *)
(* reconnections, changes of its membership and requests that commit late,      *)
(* except one that was broadcast before it followed and committed after it      *)
(* had fetched, or whose broadcast failed.                                      *)
NothingMissed ==
  \A s \in caughtUp : posted \subseteq got[s] \union between[s] \union unsent

=============================================================================
