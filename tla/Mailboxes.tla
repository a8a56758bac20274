----------------------------- MODULE Mailboxes -----------------------------
(***************************************************************************)
(* What a conversation promises its members about unread counters, without *)
(* its requests and row locks: posting a message adds, in one step, exactly *)
(* one to the counter of members who are in the conversation at that        *)
(* moment, never to its author's; a counter otherwise only returns to zero; *)
(* a message is posted once and deleted for good.                          *)
(***************************************************************************)
EXTENDS Naturals
CONSTANTS User, Message

VARIABLES
  inside,     \* the members of the conversation
  unread,     \* [User -> Nat]
  posted,     \* the messages posted so far
  gone        \* those of them deleted for everyone

vars == <<inside, unread, posted, gone>>

Init ==
  /\ inside \in SUBSET User
  /\ unread = [u \in User |-> 0]
  /\ posted = {}
  /\ gone = {}

Deliver(m, author, readers) ==
  /\ m \notin posted
  /\ readers \subseteq inside \ {author}
  /\ posted' = posted \union {m}
  /\ unread' = [u \in User |-> IF u \in readers THEN unread[u] + 1 ELSE unread[u]]
  /\ UNCHANGED <<inside, gone>>

ReadAll(u) ==
  /\ unread' = [unread EXCEPT ![u] = 0]
  /\ UNCHANGED <<inside, posted, gone>>

Move(S) ==
  /\ inside' = S
  /\ UNCHANGED <<unread, posted, gone>>

Delete(m) ==
  /\ m \in posted
  /\ gone' = gone \union {m}
  /\ UNCHANGED <<inside, unread, posted>>

Next ==
  \/ \E m \in Message, author \in User, S \in SUBSET User : Deliver(m, author, S)
  \/ \E u \in User : ReadAll(u)
  \/ \E S \in SUBSET User : Move(S)
  \/ \E m \in Message : Delete(m)

Spec == Init /\ [][Next]_vars

=============================================================================
