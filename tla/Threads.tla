------------------------------- MODULE Threads -------------------------------
(***************************************************************************)
(* Private conversations and blocks.  A private conversation is looked for   *)
(* before it is created, and nothing in the database makes it the only one   *)
(* of its two members.                                                      *)
(***************************************************************************)
EXTENDS Requests, FiniteSets
CONSTANT Thread

ASSUME NoneIsNoThread == None \notin Thread

VARIABLES
  owner,     \* conversations.owner of a private conversation, None before it exists
  open,      \* its two members, those that are active
  blocks,    \* blocked_users: pairs of the blocker and the blocked
  call,      \* the requests
  doubled    \* history: pairs for whom two creations overlapped

threadVars == <<owner, open, blocks, call, doubled>>

NoCall == [pc |-> "idle", user |-> None, peer |-> None]
Pair(p) == {call[p].user, call[p].peer}
FreeThreads == {t \in Thread : owner[t] = None}

ThreadInit ==
  /\ owner = [t \in Thread |-> None]
  /\ open = [t \in Thread |-> {}]
  /\ blocks = {}
  /\ call = [p \in Request |-> NoCall]
  /\ doubled = {}

StartsCall(p, pc, u, v) ==
  /\ call[p].pc = "idle" /\ u # v
  /\ call' = [call EXCEPT ![p] = [pc |-> pc, user |-> u, peer |-> v]]
  /\ UNCHANGED <<owner, open, blocks, doubled>>
EndsCall(p) == call' = [call EXCEPT ![p] = NoCall]

Blocked(u, v) == blocks \intersect {<<u, v>>, <<v, u>>} # {}

(* Mutant: only among the conversations that the caller has created. *)
FoundOwned(u, v) == \E t \in Thread : open[t] = {u, v} /\ owner[t] = u

(* The look-up of find_or_create_private: both are still active in it. *)
Found(u, v) == \E t \in Thread : open[t] = {u, v}

BeginOpen(p, u, v) ==
  /\ ~Blocked(u, v) /\ ~Found(u, v)
  /\ StartsCall(p, "open", u, v)

CommitOpen(p) ==
  /\ call[p].pc = "open"
  /\ \E t \in FreeThreads :
       /\ owner' = [owner EXCEPT ![t] = call[p].user]
       /\ open' = [open EXCEPT ![t] = Pair(p)]
  /\ doubled' = IF \E q \in Request \ {p} : call[q].pc = "open" /\ Pair(q) = Pair(p)
                THEN doubled \union {Pair(p)} ELSE doubled
  /\ EndsCall(p)
  /\ UNCHANGED blocks

(* leave_conversation asks an OWNER to stay, and a private one has none. *)
LeaveThread(p, u, t) ==
  /\ call[p].pc = "idle" /\ u \in open[t]
  /\ open' = [open EXCEPT ![t] = @ \ {u}]
  /\ UNCHANGED <<owner, blocks, call, doubled>>

BeginBlock(p, u, v) == <<u, v>> \notin blocks /\ StartsCall(p, "block", u, v)

(* The unique index refuses the second of two. *)
CommitBlock(p) ==
  /\ call[p].pc = "block" /\ <<call[p].user, call[p].peer>> \notin blocks
  /\ blocks' = blocks \union {<<call[p].user, call[p].peer>>}
  /\ EndsCall(p)
  /\ UNCHANGED <<owner, open, doubled>>

Unblock(p, u, v) ==
  /\ call[p].pc = "idle" /\ <<u, v>> \in blocks
  /\ blocks' = blocks \ {<<u, v>>}
  /\ UNCHANGED <<owner, open, call, doubled>>

AbortCall(p) ==
  /\ call[p].pc # "idle"
  /\ EndsCall(p)
  /\ UNCHANGED <<owner, open, blocks, doubled>>

ThreadNext ==
  \E p \in Request :
    \/ \E u, v \in User : BeginOpen(p, u, v) \/ BeginBlock(p, u, v) \/ Unblock(p, u, v)
    \/ \E u \in User, t \in Thread : LeaveThread(p, u, t)
    \/ CommitOpen(p) \/ CommitBlock(p) \/ AbortCall(p)

ThreadSpec == ThreadInit /\ [][ThreadNext]_threadVars

-----------------------------------------------------------------------------
(* Properties. *)

(* Two users share one conversation that both are in, whoever leaves, blocks  *)
(* and opens again, unless two creations for them overlapped.                *)
OneOpenThread ==
  \A s, t \in Thread : s # t /\ open[s] = open[t] /\ Cardinality(open[s]) = 2
                       => open[s] \in doubled

=============================================================================
