------------------------------ MODULE Messages ------------------------------
(***************************************************************************)
(* One conversation: who is in it, its messages, and its unread counters,  *)
(* under concurrent sends, forwards, edits, deletions, "read all", and     *)
(* members who leave, are removed or are added.                            *)
(*                                                                         *)
(* As everywhere a request is one PostgreSQL transaction at READ           *)
(* COMMITTED.  Here a request first reads, without a lock, the rows its    *)
(* checks need, and writes later what it decided; most requests write one  *)
(* row in their last statement, so that their write and their commit are   *)
(* one action.  A send writes the counters of all other members before it  *)
(* goes on, and keeps these rows locked until it commits.                  *)
(*                                                                         *)
(* Roles are constants here (an ADMIN who left and is added again stays one *)
(* where the code makes it a MEMBER: that only allows more).  A refusal     *)
(* that changes nothing (blocked users, missing keys, a full group, an      *)
(* infected file), or a deadlock PostgreSQL breaks, is an Abort.            *)
(***************************************************************************)
EXTENDS Integers
CONSTANTS
  Request,
  User, Owner, Admin,
  Writer,       \* whom the role and the group's lock let send
  Message, ClientId,
  None

ASSUME RoleAssumption   == Owner \subseteq User /\ Admin \subseteq User
ASSUME WriterAssumption == Writer \subseteq User
ASSUME NoneAssumption   == None \notin User \union Message \union ClientId

VARIABLES
  active,       \* conversation_members.active
  unread,       \* conversation_members.unread_count
  message,      \* rows of messages; sender = None while there is no row
  req

db   == <<active, unread, message>>
vars == <<db, req>>

Privileged == Owner \union Admin
NoMessage  == [sender |-> None, client_id |-> None, content |-> "none", deleted |-> FALSE]
Idle       == [pc |-> "idle", user |-> None, msg |-> None, client_id |-> None, to |-> {}]
Steps      == {"idle", "insert", "count", "finish", "edit", "delete", "readAll", "leave", "join"}

Posted       == {m \in Message : message[m].sender # None}
FreeMessages == Message \ (Posted \union {req[p].msg : p \in Request})

(* Mutant: the readers are listed first and written without a lock. *)
HeldNothing(p) == {}

(* The member rows a send has incremented, until it commits. *)
Held(p)       == IF req[p].pc = "finish" THEN req[p].to ELSE {}
Unlocked(u)   == \A q \in Request : u \notin Held(q)

Starts(p, step, u, m, c) ==
  /\ req[p].pc = "idle"
  /\ active[u]
  /\ req' = [req EXCEPT ![p] = [Idle EXCEPT !.pc = step, !.user = u, !.msg = m,
                                            !.client_id = c]]
  /\ UNCHANGED db
Done(p) == req' = [req EXCEPT ![p] = Idle]

-----------------------------------------------------------------------------
(* A group just created: its owner is in.  (With no Owner and no Admin it is *)
(* a private conversation.)                                                  *)
Init ==
  /\ active \in [User -> BOOLEAN]
  /\ \A u \in Owner : active[u]
  /\ unread = [u \in User |-> 0]
  /\ message = [m \in Message |-> NoMessage]
  /\ req = [p \in Request |-> Idle]

(***************************************************************************)
(* Sending.                                                                *)
(***************************************************************************)

(* The sender is a member who may write, and no committed message of his    *)
(* carries this client_message_id.                                          *)
BeginSend(p, u, m, c) ==
  /\ u \in Writer
  /\ c # None => \A n \in Posted : message[n].sender # u \/ message[n].client_id # c
  /\ m \in FreeMessages
  /\ Starts(p, "insert", u, m, c)

(* A forward has no client_message_id. *)
BeginForward(p, u, m) ==
  /\ u \in Writer
  /\ m \in FreeMessages
  /\ Starts(p, "insert", u, m, None)

(* The INSERT, then the start of UPDATE ... SET unread_count = unread_count *)
(* + 1 on the other active members: those of this moment.                   *)
InsertMessage(p) ==
  /\ req[p].pc = "insert"
  /\ req' = [req EXCEPT ![p].pc = "count", ![p].to = {v \in User \ {req[p].user} : active[v]}]
  /\ UNCHANGED db

(* The UPDATE waits for rows others hold and then looks at them again: who  *)
(* is no longer active is skipped.                                          *)
CountUnread(p) ==
  /\ req[p].pc = "count"
  /\ \A q \in Request : req[p].to \intersect Held(q) = {}
  /\ req' = [req EXCEPT ![p].pc = "finish", ![p].to = {v \in req[p].to : active[v]}]
  /\ UNCHANGED db

(* conversation.save and the commit. *)
FinishSend(p) ==
  LET r == req[p] IN
  /\ r.pc = "finish"
  /\ message' = [message EXCEPT ![r.msg] = [sender |-> r.user, client_id |-> r.client_id,
                                            content |-> "sent", deleted |-> FALSE]]
  /\ unread' = [v \in User |-> IF v \in r.to THEN unread[v] + 1 ELSE unread[v]]
  /\ Done(p)
  /\ UNCHANGED active

(***************************************************************************)
(* Edit and delete for everyone.                                           *)
(***************************************************************************)

(* The author, within the edit window; deleted is not looked at. *)
BeginEdit(p, u, m) ==
  /\ message[m].sender = u
  /\ Starts(p, "edit", u, m, None)

FinishEdit(p) ==
  /\ req[p].pc = "edit"
  /\ message' = [message EXCEPT ![req[p].msg].content = "edited"]
  /\ Done(p)
  /\ UNCHANGED <<active, unread>>

(* The author within the delete window, or an OWNER or ADMIN. *)
BeginDelete(p, u, m) ==
  /\ m \in Posted
  /\ message[m].sender = u \/ u \in Privileged
  /\ Starts(p, "delete", u, m, None)

FinishDelete(p) ==
  /\ req[p].pc = "delete"
  /\ message' = [message EXCEPT ![req[p].msg].content = "purged", ![req[p].msg].deleted = TRUE]
  /\ Done(p)
  /\ UNCHANGED <<active, unread>>

(***************************************************************************)
(* Counters and membership.                                                *)
(***************************************************************************)

BeginReadAll(p, u, m) ==
  /\ m \in Posted
  /\ Starts(p, "readAll", u, m, None)

(* Mutant: the counter goes down by one message read instead of to zero. *)
FinishReadOne(p) ==
  /\ req[p].pc = "readAll"
  /\ Unlocked(req[p].user)
  /\ unread' = [unread EXCEPT ![req[p].user] = @ - 1]
  /\ Done(p)
  /\ UNCHANGED <<active, message>>

FinishReadAll(p) ==
  /\ req[p].pc = "readAll"
  /\ Unlocked(req[p].user)
  /\ unread' = [unread EXCEPT ![req[p].user] = 0]
  /\ Done(p)
  /\ UNCHANGED <<active, message>>

(* to is here the member who goes or comes. *)
StartsFor(p, step, u, v) ==
  /\ req[p].pc = "idle"
  /\ active[u]
  /\ req' = [req EXCEPT ![p] = [Idle EXCEPT !.pc = step, !.user = u, !.to = {v}]]
  /\ UNCHANGED db

Leave(p, u) == u \notin Owner /\ StartsFor(p, "leave", u, u)

Remove(p, u, v) ==
  /\ active[v]
  /\ \/ u \in Owner /\ v \notin Owner
     \/ u \in Admin /\ v \notin Privileged
  /\ StartsFor(p, "leave", u, v)

Add(p, u, v) ==
  /\ u \in Privileged
  /\ ~active[v]
  /\ StartsFor(p, "join", u, v)

FinishMove(p, step, value) ==
  /\ req[p].pc = step
  /\ \A v \in req[p].to : Unlocked(v)
  /\ active' = [v \in User |-> IF v \in req[p].to THEN value ELSE active[v]]
  /\ Done(p)
  /\ UNCHANGED <<unread, message>>

FinishLeave(p) == FinishMove(p, "leave", FALSE)
FinishAdd(p)   == FinishMove(p, "join", TRUE)

Abort(p) ==
  /\ req[p].pc # "idle"
  /\ Done(p)
  /\ UNCHANGED db

-----------------------------------------------------------------------------
Begin(p) ==
  \E u \in User :
    \/ \E m \in Message :
         \/ \E c \in ClientId \union {None} : BeginSend(p, u, m, c)
         \/ BeginForward(p, u, m)
         \/ BeginEdit(p, u, m)
         \/ BeginDelete(p, u, m)
         \/ BeginReadAll(p, u, m)
    \/ Leave(p, u)
    \/ \E v \in User : Remove(p, u, v) \/ Add(p, u, v)

Continue(p) ==
  \/ InsertMessage(p) \/ CountUnread(p) \/ FinishSend(p)
  \/ FinishEdit(p) \/ FinishDelete(p) \/ FinishReadAll(p)
  \/ FinishLeave(p) \/ FinishAdd(p)
  \/ Abort(p)

Next == \E p \in Request : Begin(p) \/ Continue(p)

Spec == Init /\ [][Next]_vars

-----------------------------------------------------------------------------
(* Properties. *)

MessageRow   == [sender : User \union {None}, client_id : ClientId \union {None},
                 content : {"none", "sent", "edited", "purged"}, deleted : BOOLEAN]
RequestState == [pc : Steps, user : User \union {None}, msg : Message \union {None},
                 client_id : ClientId \union {None}, to : SUBSET User]

(* Every variable has its type. *)
TypeOK ==
  /\ active \in [User -> BOOLEAN]
  /\ unread \in [User -> Nat]
  /\ message \in [Message -> MessageRow]
  /\ req \in [Request -> RequestState]

(* send_message, forward_message and mark_conversation_read keep the promise *)
(* of Mailboxes about unread counters: concurrent sends lose no increment,   *)
(* nobody who has left by the time a message is committed is counted, and an *)
(* edit that read a message before its deletion does not undelete it.        *)
Boxes == INSTANCE Mailboxes WITH
           inside <- {u \in User : active[u]},
           posted <- Posted,
           gone   <- {m \in Message : message[m].deleted}
ImplementsMailboxes == Boxes!Spec

-----------------------------------------------------------------------------
(* What the documentation says and the code does not keep. *)

(* A client_message_id is used by one message of its sender: a retried POST *)
(* is answered 409 and writes nothing.                                      *)
SentOnce ==
  \A m, n \in Posted :
    /\ message[m].client_id # None
    /\ message[m].client_id = message[n].client_id
    /\ message[m].sender = message[n].sender
    => m = n

=============================================================================
