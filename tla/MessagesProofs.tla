--------------------------- MODULE MessagesProofs ---------------------------
(***************************************************************************)
(* Messages implements Mailboxes, for every set of users, messages and     *)
(* requests.  What carries the proof: the key of a message being sent is   *)
(* its request's own (KeyInv), and the members a send has counted stay     *)
(* in the conversation until it commits, because their rows are locked     *)
(* (CountInv).                                                             *)
(***************************************************************************)
EXTENDS Messages, TLAPS

Sending(p) == req[p].pc \in {"insert", "count", "finish"}

(* A request that is not idle has a user; one that edits or deletes has a   *)
(* message that exists.                                                     *)
ActorInv ==
  \A p \in Request :
    /\ req[p].pc # "idle" => req[p].user \in User
    /\ req[p].pc \in {"edit", "delete"} => req[p].msg \in Posted

(* The message a send will insert exists neither in the table nor in another *)
(* request.                                                                  *)
KeyInv ==
  \A p \in Request : Sending(p) =>
    /\ req[p].msg \in Message
    /\ message[req[p].msg].sender = None
    /\ \A q \in Request \ {p} : req[q].msg # req[p].msg

(* The sender is not counted; who was counted is active until the commit. *)
CountInv ==
  \A p \in Request :
    /\ req[p].pc \in {"count", "finish"} => req[p].to \subseteq User \ {req[p].user}
    /\ req[p].pc = "finish" => \A v \in req[p].to : active[v]

(* Only a message that exists is deleted. *)
RowInv == \A m \in Message : message[m].deleted => m \in Posted

IInv == TypeOK /\ ActorInv /\ KeyInv /\ CountInv /\ RowInv

-----------------------------------------------------------------------------
(* The invariant holds initially. *)
LEMMA InitInv == Init => IInv
BY NoneAssumption DEF Init, IInv, TypeOK, ActorInv, KeyInv, CountInv, RowInv, Posted, Sending,
   NoMessage, Idle, MessageRow, RequestState, Steps

(* A request that starts gets a user, a message and a position; the rows     *)
(* do not change.                                                            *)
LEMMA StartInv ==
  ASSUME IInv, NEW p \in Request, NEW u \in User, NEW m \in Message,
         NEW c \in ClientId \union {None}, NEW step \in Steps \ {"idle", "count", "finish"},
         Starts(p, step, u, m, c),
         step = "insert" => m \in FreeMessages,
         step \in {"edit", "delete"} => m \in Posted,
         step # "insert" => m \in Posted
  PROVE  IInv'
PROOF
  <1> DEFINE r == [Idle EXCEPT !.pc = step, !.user = u, !.msg = m, !.client_id = c]
  <1>1. /\ r.pc = step /\ r.user = u /\ r.msg = m /\ r.client_id = c /\ r.to = {}
        /\ r \in RequestState
    BY DEF Idle, RequestState
  <1>2. /\ req' = [req EXCEPT ![p] = r]
        /\ UNCHANGED <<active, unread, message>>
    BY DEF Starts, db
  <1>3. req'[p] = r /\ \A q \in Request \ {p} : req'[q] = req[q]
    BY <1>2 DEF IInv, TypeOK
  <1> HIDE DEF r
  <1>4. TypeOK'
    BY <1>1, <1>2 DEF IInv, TypeOK
  <1>5. Posted' = Posted
    BY <1>2 DEF Posted
  <1>6. ActorInv'
    BY <1>1, <1>3, <1>5 DEF IInv, ActorInv
  <1>7. KeyInv'
    BY <1>1, <1>2, <1>3, <1>5 DEF IInv, KeyInv, Sending, FreeMessages, Posted
  <1>8. CountInv'
    BY <1>1, <1>2, <1>3 DEF IInv, CountInv, Steps
  <1>9. RowInv'
    BY <1>2, <1>5 DEF IInv, RowInv
  <1>. QED
    BY <1>4, <1>6, <1>7, <1>8, <1>9 DEF IInv

(* The same for a request that is to move a member. *)
LEMMA MoveStartInv ==
  ASSUME IInv, NEW p \in Request, NEW u \in User, NEW v \in User,
         NEW step \in {"leave", "join"}, StartsFor(p, step, u, v)
  PROVE  IInv'
PROOF
  <1> DEFINE r == [Idle EXCEPT !.pc = step, !.user = u, !.to = {v}]
  <1>1. /\ r.pc = step /\ r.user = u /\ r.msg = None /\ r.to = {v}
        /\ r \in RequestState
    BY DEF Idle, RequestState, Steps
  <1>2. /\ req' = [req EXCEPT ![p] = r]
        /\ UNCHANGED <<active, unread, message>>
    BY DEF StartsFor, db
  <1>3. req'[p] = r /\ \A q \in Request \ {p} : req'[q] = req[q]
    BY <1>2 DEF IInv, TypeOK
  <1> HIDE DEF r
  <1>4. TypeOK'
    BY <1>1, <1>2 DEF IInv, TypeOK
  <1>5. Posted' = Posted
    BY <1>2 DEF Posted
  <1>6. ActorInv' /\ CountInv' /\ RowInv'
    BY <1>1, <1>2, <1>3, <1>5 DEF IInv, ActorInv, CountInv, RowInv
  <1>7. KeyInv'
    BY <1>1, <1>2, <1>3, NoneAssumption DEF IInv, KeyInv, Sending
  <1>. QED
    BY <1>4, <1>6, <1>7 DEF IInv

(* A request that ends leaves its keys and its counted members. *)
LEMMA EndInv ==
  ASSUME IInv, NEW p \in Request, Done(p), TypeOK',
         \A m \in Posted : m \in Posted',
         \A m \in Message : message'[m].deleted => m \in Posted',
         \A q \in Request \ {p} : Sending(q) => message'[req[q].msg].sender = None,
         \A q \in Request \ {p} : req[q].pc = "finish" => \A v \in req[q].to : active'[v]
  PROVE  IInv'
PROOF
  <1>1. req'[p] = Idle /\ \A q \in Request \ {p} : req'[q] = req[q]
    BY DEF Done, IInv, TypeOK
  <1>2. Idle.pc = "idle" /\ Idle.msg = None
    BY DEF Idle
  <1>3. ActorInv' /\ CountInv'
    BY <1>1, <1>2 DEF IInv, ActorInv, CountInv
  <1>4. KeyInv'
    BY <1>1, <1>2, NoneAssumption DEF IInv, KeyInv, Sending
  <1>. QED
    BY <1>3, <1>4 DEF IInv, RowInv

(* Every way to begin keeps the invariant. *)
LEMMA BeginInv == ASSUME IInv, NEW p \in Request, Begin(p) PROVE IInv'
PROOF
  <1>1. PICK u \in User :
          \/ \E m \in Message :
               \/ \E c \in ClientId \union {None} : BeginSend(p, u, m, c)
               \/ BeginForward(p, u, m) \/ BeginEdit(p, u, m)
               \/ BeginDelete(p, u, m) \/ BeginReadAll(p, u, m)
          \/ Leave(p, u)
          \/ \E v \in User : Remove(p, u, v) \/ Add(p, u, v)
    BY DEF Begin
  <1>2. ASSUME NEW m \in Message, NEW c \in ClientId \union {None},
               BeginSend(p, u, m, c) \/ BeginForward(p, u, m)
        PROVE  IInv'
    <2>1. m \in FreeMessages
      BY <1>2 DEF BeginSend, BeginForward
    <2>2. Starts(p, "insert", u, m, c) \/ Starts(p, "insert", u, m, None)
      BY <1>2 DEF BeginSend, BeginForward
    <2>. QED
      BY <2>1, <2>2, StartInv DEF Steps
  <1>3. ASSUME NEW m \in Message, BeginEdit(p, u, m)
        PROVE  IInv'
    <2>1. m \in Posted
      BY <1>3, NoneAssumption DEF BeginEdit, Posted
    <2>. QED
      BY <1>3, <2>1, StartInv DEF BeginEdit, Steps
  <1>4. ASSUME NEW m \in Message, BeginDelete(p, u, m) PROVE IInv'
    BY <1>4, StartInv DEF BeginDelete, Steps
  <1>5. ASSUME NEW m \in Message, BeginReadAll(p, u, m) PROVE IInv'
    BY <1>5, StartInv DEF BeginReadAll, Steps
  <1>6. ASSUME Leave(p, u) PROVE IInv'
    BY <1>6, MoveStartInv DEF Leave
  <1>7. ASSUME NEW v \in User, Remove(p, u, v) \/ Add(p, u, v) PROVE IInv'
    BY <1>7, MoveStartInv DEF Remove, Add
  <1>. QED
    BY <1>1, <1>2, <1>3, <1>4, <1>5, <1>6, <1>7

(* A send moves on: the rows do not change, the counted members are read. *)
LEMMA CountingInv ==
  ASSUME IInv, NEW p \in Request, InsertMessage(p) \/ CountUnread(p)
  PROVE  IInv'
PROOF
  <1>1. PICK S \in SUBSET (User \ {req[p].user}), step \in {"count", "finish"} :
          /\ req' = [req EXCEPT ![p].pc = step, ![p].to = S]
          /\ step = "finish" => \A v \in S : active[v]
          /\ Sending(p)
          /\ UNCHANGED <<active, unread, message>>
    <2>1. CASE InsertMessage(p)
      BY <2>1 DEF InsertMessage, Sending, db
    <2>2. CASE CountUnread(p)
      <3>1. {v \in req[p].to : active[v]} \in SUBSET (User \ {req[p].user})
        BY <2>2 DEF CountUnread, IInv, CountInv
      <3>. QED
        BY <2>2, <3>1 DEF CountUnread, Sending, db
    <2>. QED
      BY <2>1, <2>2
  <1> DEFINE r == [req[p] EXCEPT !.pc = step, !.to = S]
  <1>2. /\ r.pc = step /\ r.to = S /\ r.user = req[p].user /\ r.msg = req[p].msg
        /\ r \in RequestState
    <2>1. req[p] \in RequestState /\ step \in Steps /\ S \in SUBSET User
      BY DEF IInv, TypeOK, Steps
    <2>. QED
      BY <2>1 DEF RequestState
  <1>3. req' = [req EXCEPT ![p] = r]
    <2>1. req \in [Request -> RequestState]
      BY DEF IInv, TypeOK
    <2>. QED
      BY <1>1, <2>1 DEF RequestState
  <1>4. req'[p] = r /\ \A q \in Request \ {p} : req'[q] = req[q]
    BY <1>3 DEF IInv, TypeOK
  <1>5. /\ step = "finish" => \A v \in S : active[v]
        /\ Sending(p)
        /\ UNCHANGED <<active, unread, message>>
    BY <1>1
  <1> HIDE DEF r
  <1>6. TypeOK'
    BY <1>2, <1>3, <1>5 DEF IInv, TypeOK
  <1>7. Posted' = Posted
    BY <1>5 DEF Posted
  <1>8. ActorInv'
    BY <1>2, <1>4, <1>5, <1>7 DEF IInv, ActorInv, Sending
  <1>9. RowInv'
    BY <1>5, <1>7 DEF IInv, RowInv
  <1>10. CountInv'
    BY <1>2, <1>4, <1>5 DEF IInv, CountInv
  <1>11. KeyInv'
    BY <1>2, <1>4, <1>5 DEF IInv, KeyInv, Sending
  <1>. QED
    BY <1>6, <1>8, <1>9, <1>10, <1>11 DEF IInv

(* The commit of a send. *)
LEMMA SendInv == ASSUME IInv, NEW p \in Request, FinishSend(p) PROVE IInv'
PROOF
  <1> DEFINE m == req[p].msg
             row == [sender |-> req[p].user, client_id |-> req[p].client_id,
                     content |-> "sent", deleted |-> FALSE]
  <1>1. /\ m \in Message /\ message[m].sender = None /\ req[p].user \in User
        /\ \A q \in Request \ {p} : req[q].msg # m
    BY DEF FinishSend, IInv, KeyInv, ActorInv, Sending
  <1>2. row \in MessageRow /\ row.sender # None /\ ~row.deleted
    BY <1>1, NoneAssumption DEF MessageRow, IInv, TypeOK, RequestState
  <1>3. message' = [message EXCEPT ![m] = row]
    BY DEF FinishSend
  <1> HIDE DEF row
  <1>4. message'[m] = row /\ \A n \in Message \ {m} : message'[n] = message[n]
    BY <1>1, <1>3 DEF IInv, TypeOK
  <1>5. unread' \in [User -> Nat]
    BY DEF FinishSend, IInv, TypeOK
  <1>6. Done(p) /\ UNCHANGED active
    BY DEF FinishSend
  <1>7. TypeOK'
    <2>1. Idle \in RequestState
      BY DEF Idle, RequestState, Steps
    <2>. QED
      BY <1>1, <1>2, <1>3, <1>5, <1>6, <2>1 DEF IInv, TypeOK, Done
  <1>8. /\ \A n \in Posted : n \in Posted'
        /\ \A n \in Message : message'[n].deleted => n \in Posted'
    BY <1>1, <1>2, <1>4 DEF Posted, IInv, RowInv
  <1>9. \A q \in Request \ {p} : Sending(q) => message'[req[q].msg].sender = None
    BY <1>1, <1>4 DEF IInv, KeyInv
  <1>10. \A q \in Request \ {p} : req[q].pc = "finish" => \A v \in req[q].to : active'[v]
    BY <1>6 DEF IInv, CountInv
  <1>. QED
    BY <1>6, <1>7, <1>8, <1>9, <1>10, EndInv

(* An edit or a deletion changes a message that exists. *)
LEMMA RewriteInv ==
  ASSUME IInv, NEW p \in Request, FinishEdit(p) \/ FinishDelete(p)
  PROVE  IInv'
PROOF
  <1> DEFINE m == req[p].msg
  <1>1. m \in Posted /\ m \in Message
    BY DEF FinishEdit, FinishDelete, IInv, ActorInv, Posted
  <1>2. PICK row \in MessageRow :
          /\ message' = [message EXCEPT ![m] = row]
          /\ row.sender = message[m].sender
    <2>1. CASE FinishEdit(p)
      <3> DEFINE new == [message[m] EXCEPT !.content = "edited"]
      <3>1. message' = [message EXCEPT ![m] = new]
        BY <2>1 DEF FinishEdit
      <3>2. new \in MessageRow /\ new.sender = message[m].sender
        BY <1>1 DEF IInv, TypeOK, MessageRow
      <3>. QED
        BY <3>1, <3>2
    <2>2. CASE FinishDelete(p)
      <3> DEFINE new == [message[m] EXCEPT !.content = "purged", !.deleted = TRUE]
      <3>1. message' = [message EXCEPT ![m] = new]
        BY <1>1, <2>2 DEF FinishDelete, IInv, TypeOK, MessageRow
      <3>2. new \in MessageRow /\ new.sender = message[m].sender
        BY <1>1 DEF IInv, TypeOK, MessageRow
      <3>. QED
        BY <3>1, <3>2
    <2>. QED
      BY <2>1, <2>2
  <1>3. Done(p) /\ UNCHANGED <<active, unread>>
    BY DEF FinishEdit, FinishDelete
  <1>4. \A n \in Message : message'[n].sender = message[n].sender
                          /\ (n # m => message'[n] = message[n])
    BY <1>1, <1>2 DEF IInv, TypeOK
  <1>5. Posted' = Posted
    BY <1>4 DEF Posted
  <1>6. TypeOK'
    <2>1. Idle \in RequestState
      BY DEF Idle, RequestState, Steps
    <2>. QED
      BY <1>2, <1>3, <2>1 DEF IInv, TypeOK, Done
  <1>7. \A n \in Message : message'[n].deleted => n \in Posted'
    BY <1>1, <1>4, <1>5 DEF IInv, RowInv
  <1>8. \A q \in Request \ {p} : Sending(q) => message'[req[q].msg].sender = None
    BY <1>4 DEF IInv, KeyInv
  <1>9. \A q \in Request \ {p} : req[q].pc = "finish" => \A v \in req[q].to : active'[v]
    BY <1>3 DEF IInv, CountInv
  <1>. QED
    BY <1>3, <1>5, <1>6, <1>7, <1>8, <1>9, EndInv

(* A counter reset, or a request that fails. *)
LEMMA ResetInv ==
  ASSUME IInv, NEW p \in Request, FinishReadAll(p) \/ Abort(p)
  PROVE  IInv'
PROOF
  <1>1. Done(p) /\ UNCHANGED <<active, message>>
    BY DEF FinishReadAll, Abort, db
  <1>2. unread' \in [User -> Nat]
    BY DEF FinishReadAll, Abort, db, IInv, TypeOK
  <1>3. TypeOK'
    <2>1. Idle \in RequestState
      BY DEF Idle, RequestState, Steps
    <2>. QED
      BY <1>1, <1>2, <2>1 DEF IInv, TypeOK, Done
  <1>4. Posted' = Posted
    BY <1>1 DEF Posted
  <1>. QED
    BY <1>1, <1>3, <1>4, EndInv DEF IInv, RowInv, KeyInv, CountInv

(* A member goes or comes: whom another send has counted is locked. *)
LEMMA MoveInv ==
  ASSUME IInv, NEW p \in Request, FinishLeave(p) \/ FinishAdd(p)
  PROVE  IInv'
PROOF
  <1>1. PICK step \in {"leave", "join"}, value \in BOOLEAN : FinishMove(p, step, value)
    BY DEF FinishLeave, FinishAdd
  <1>2. Done(p) /\ UNCHANGED <<unread, message>>
    BY <1>1 DEF FinishMove
  <1>3. /\ active' \in [User -> BOOLEAN]
        /\ \A v \in User \ req[p].to : active'[v] = active[v]
    BY <1>1 DEF FinishMove, IInv, TypeOK
  <1>4. TypeOK'
    <2>1. Idle \in RequestState
      BY DEF Idle, RequestState, Steps
    <2>. QED
      BY <1>2, <1>3, <2>1 DEF IInv, TypeOK, Done
  <1>5. ASSUME NEW q \in Request \ {p}, req[q].pc = "finish", NEW v \in req[q].to
        PROVE  active'[v]
    <2>1. v \in User /\ active[v]
      BY <1>5 DEF IInv, CountInv
    <2>2. v \notin req[p].to
      BY <1>1, <1>5 DEF FinishMove, Unlocked, Held
    <2>. QED
      BY <1>3, <2>1, <2>2
  <1>6. Posted' = Posted
    BY <1>2 DEF Posted
  <1>. QED
    BY <1>2, <1>4, <1>5, <1>6, EndInv DEF IInv, RowInv, KeyInv

(* The invariant is inductive. *)
LEMMA NextInv == IInv /\ [Next]_vars => IInv'
PROOF
  <1> SUFFICES ASSUME IInv, [Next]_vars PROVE IInv'
    OBVIOUS
  <1>1. ASSUME NEW p \in Request, Begin(p) PROVE IInv'
    BY <1>1, BeginInv
  <1>2. ASSUME NEW p \in Request, Continue(p) PROVE IInv'
    BY <1>2, CountingInv, SendInv, RewriteInv, ResetInv, MoveInv DEF Continue
  <1>3. CASE UNCHANGED vars
    BY <1>3 DEF vars, db, IInv, TypeOK, ActorInv, KeyInv, CountInv, RowInv, Posted, Sending
  <1>. QED
    BY <1>1, <1>2, <1>3 DEF Next

(* The invariant holds in every reachable state. *)
THEOREM Invariance == Spec => []IInv
PROOF
  <1>. QED
    BY InitInv, NextInv, PTL DEF Spec

(* Every variable keeps its type. *)
THEOREM TypeCorrect == Spec => []TypeOK
PROOF
  <1>1. IInv => TypeOK
    BY DEF IInv
  <1>. QED
    BY <1>1, Invariance, PTL

-----------------------------------------------------------------------------
(* Initially nothing is posted and every counter is zero. *)
LEMMA InitMaps == Init => Boxes!Init
BY DEF Init, Boxes!Init, Posted, NoMessage

(* The commit of a send delivers its message to the members it counted. *)
LEMMA SendMaps == ASSUME IInv, NEW p \in Request, FinishSend(p) PROVE Boxes!Next
PROOF
  <1> DEFINE m == req[p].msg
             u == req[p].user
             S == req[p].to
             row == [sender |-> u, client_id |-> req[p].client_id,
                     content |-> "sent", deleted |-> FALSE]
  <1>1. /\ m \in Message /\ m \notin Posted /\ u \in User
        /\ S \subseteq {v \in User : active[v]} \ {u}
    BY DEF FinishSend, IInv, KeyInv, ActorInv, CountInv, Sending, Posted
  <1>2. /\ message' = [message EXCEPT ![m] = row]
        /\ unread' = [v \in User |-> IF v \in S THEN unread[v] + 1 ELSE unread[v]]
        /\ active' = active
    BY DEF FinishSend
  <1>3. row.sender = u /\ row.deleted = FALSE /\ u # None
    BY <1>1, NoneAssumption
  <1> HIDE DEF row
  <1>4. message'[m] = row /\ \A n \in Message \ {m} : message'[n] = message[n]
    BY <1>1, <1>2 DEF IInv, TypeOK
  <1>5. Posted' = Posted \union {m}
    BY <1>1, <1>3, <1>4 DEF Posted
  <1>6. {n \in Message : message[n].deleted}' = {n \in Message : message[n].deleted}
    BY <1>1, <1>3, <1>4 DEF IInv, RowInv, Posted
  <1>7. Boxes!Deliver(m, u, S)
    BY <1>1, <1>2, <1>5, <1>6 DEF Boxes!Deliver
  <1>8. S \in SUBSET User
    BY <1>1
  <1>. QED
    BY <1>1, <1>7, <1>8 DEF Boxes!Next

(* An edit changes nothing a mailbox knows; a deletion deletes. *)
LEMMA RewriteMaps ==
  ASSUME IInv, NEW p \in Request, FinishEdit(p) \/ FinishDelete(p)
  PROVE  [Boxes!Next]_(Boxes!vars)
PROOF
  <1> DEFINE m == req[p].msg
  <1>1. m \in Posted /\ m \in Message
    BY DEF FinishEdit, FinishDelete, IInv, ActorInv, Posted
  <1>2. message \in [Message -> MessageRow] /\ message[m] \in MessageRow
    BY <1>1 DEF IInv, TypeOK
  <1>3. CASE FinishEdit(p)
    <2> DEFINE new == [message[m] EXCEPT !.content = "edited"]
    <2>1. message' = [message EXCEPT ![m] = new] /\ UNCHANGED <<active, unread>>
      BY <1>3 DEF FinishEdit
    <2>2. new.sender = message[m].sender /\ new.deleted = message[m].deleted
      BY <1>2 DEF MessageRow
    <2> HIDE DEF new
    <2>3. \A n \in Message : /\ message'[n].sender = message[n].sender
                             /\ message'[n].deleted = message[n].deleted
      BY <1>1, <1>2, <2>1, <2>2
    <2>. QED
      BY <2>1, <2>3 DEF Boxes!vars, Posted
  <1>4. CASE FinishDelete(p)
    <2> DEFINE new == [message[m] EXCEPT !.content = "purged", !.deleted = TRUE]
    <2>1. message' = [message EXCEPT ![m] = new] /\ UNCHANGED <<active, unread>>
      BY <1>2, <1>4 DEF FinishDelete, MessageRow
    <2>2. new.sender = message[m].sender /\ new.deleted = TRUE
      BY <1>2 DEF MessageRow
    <2> HIDE DEF new
    <2>3. /\ \A n \in Message : message'[n].sender = message[n].sender
          /\ message'[m].deleted
          /\ \A n \in Message \ {m} : message'[n].deleted = message[n].deleted
      BY <1>1, <1>2, <2>1, <2>2
    <2>4. Posted' = Posted
      BY <2>3 DEF Posted
    <2>5. \E n \in Message : Boxes!Delete(n)
      BY <1>1, <2>1, <2>3, <2>4 DEF Boxes!Delete
    <2>6. Boxes!Next
      BY <2>5 DEF Boxes!Next
    <2>. QED
      BY <2>6
  <1>. QED
    BY <1>3, <1>4

(* "Read all" and a move are steps of the mailboxes; the rest changes no row. *)
LEMMA OtherMaps ==
  ASSUME IInv, NEW p \in Request,
         \/ Begin(p) \/ InsertMessage(p) \/ CountUnread(p) \/ Abort(p)
         \/ FinishReadAll(p) \/ FinishLeave(p) \/ FinishAdd(p)
  PROVE  [Boxes!Next]_(Boxes!vars)
PROOF
  <1>1. CASE Begin(p) \/ InsertMessage(p) \/ CountUnread(p) \/ Abort(p)
    <2>1. UNCHANGED <<active, unread, message>>
      BY <1>1 DEF Begin, BeginSend, BeginForward, BeginEdit, BeginDelete, BeginReadAll, Starts,
         Leave, Remove, Add, StartsFor, InsertMessage, CountUnread, Abort, db
    <2>. QED
      BY <2>1 DEF Boxes!vars, Posted
  <1>2. CASE FinishReadAll(p)
    <2>1. /\ unread' = [unread EXCEPT ![req[p].user] = 0]
          /\ UNCHANGED <<active, message>>
      BY <1>2 DEF FinishReadAll
    <2>2. req[p].user \in User
      BY <1>2 DEF FinishReadAll, IInv, ActorInv
    <2>3. Boxes!ReadAll(req[p].user)
      BY <2>1 DEF Boxes!ReadAll, Posted
    <2>. QED
      BY <2>2, <2>3 DEF Boxes!Next
  <1>3. CASE FinishLeave(p) \/ FinishAdd(p)
    <2> DEFINE S == {u \in User : active'[u]}
    <2>1. UNCHANGED <<unread, message>>
      BY <1>3 DEF FinishLeave, FinishAdd, FinishMove
    <2>2. S \in SUBSET User
      OBVIOUS
    <2>3. \E T \in SUBSET User : Boxes!Move(T)
      BY <2>1, <2>2 DEF Boxes!Move, Posted
    <2>4. Boxes!Next
      BY <2>3 DEF Boxes!Next
    <2>. QED
      BY <2>4
  <1>. QED
    BY <1>1, <1>2, <1>3

(* The messaging requests implement the mailboxes: no increment is lost or   *)
(* misdirected, no deletion undone, whatever the number of requests.         *)
THEOREM Refinement == Spec => ImplementsMailboxes
PROOF
  <1>1. IInv /\ [Next]_vars => [Boxes!Next]_(Boxes!vars)
    <2> SUFFICES ASSUME IInv, [Next]_vars PROVE [Boxes!Next]_(Boxes!vars)
      OBVIOUS
    <2>1. ASSUME NEW p \in Request, Begin(p) \/ Continue(p)
          PROVE  [Boxes!Next]_(Boxes!vars)
      BY <2>1, SendMaps, RewriteMaps, OtherMaps DEF Continue
    <2>2. CASE UNCHANGED vars
      BY <2>2 DEF vars, db, Boxes!vars, Posted
    <2>. QED
      BY <2>1, <2>2 DEF Next
  <1>. QED
    BY <1>1, InitMaps, Invariance, PTL DEF Spec, ImplementsMailboxes, Boxes!Spec

=============================================================================
