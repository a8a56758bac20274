----------------------------- MODULE DeviceLinks ------------------------------
(***************************************************************************)
(* Linking a device by a QR code.  The waiting device polls a challenge in *)
(* the cache; the phone confirms it.  A confirmation opens the session in    *)
(* the database, puts its tokens in the cache, and only then commits; the    *)
(* poll that finds the tokens deletes the challenge and is answered.         *)
(* What ends a session later is the matter of Sessions.                      *)
(***************************************************************************)
EXTENDS Requests, Naturals
CONSTANTS
  Qr,     \* challenges, each of a device of its own
  Grant   \* sessions with their tokens

VARIABLES
  entry,      \* device_link:{challenge} in the cache
  grant,      \* the sessions
  ask,        \* the requests: confirmations and polls
  given,     \* history: answers that carried the tokens of a session
  contested,  \* history: challenges that two confirmations had read at once
  repolled,   \* history: sessions whose tokens two polls had read at once
  failed      \* history: sessions rolled back after their tokens were in the cache

linkVars == <<entry, grant, ask, given, contested, repolled, failed>>

NoEntry == [status |-> "none", grant |-> None]
NoGrant == [qr |-> None, state |-> "none"]
NoAsk   == [pc |-> "idle", qr |-> None, grant |-> None]

LinkInit ==
  /\ entry = [q \in Qr |-> NoEntry]
  /\ grant = [g \in Grant |-> NoGrant]
  /\ ask = [p \in Request |-> NoAsk]
  /\ given = [g \in Grant |-> 0]
  /\ contested = {} /\ repolled = {} /\ failed = {}

Confirming(q) == {p \in Request : ask[p].qr = q /\ ask[p].pc \in {"login", "store", "commit"}}
Polling(g)    == {p \in Request : ask[p].grant = g /\ ask[p].pc = "answer"}

StartsAsk(p, a) ==
  /\ ask[p].pc = "idle"
  /\ ask' = [ask EXCEPT ![p] = a]

-----------------------------------------------------------------------------
(* The waiting device. *)

StartLink(q) ==
  /\ entry[q].status = "none"
  /\ entry' = [entry EXCEPT ![q].status = "pending"]
  /\ UNCHANGED <<grant, ask, given, contested, repolled, failed>>

(* poll_device_link; one that finds PENDING changes nothing. *)
BeginPoll(p, q) ==
  /\ entry[q].status = "approved"
  /\ StartsAsk(p, [pc |-> "answer", qr |-> q, grant |-> entry[q].grant])
  /\ repolled' = IF Polling(entry[q].grant) # {} THEN repolled \union {entry[q].grant}
                 ELSE repolled
  /\ UNCHANGED <<entry, grant, given, contested, failed>>

(* The challenge is deleted whatever it holds by now; the answer may be lost. *)
AnswerPoll(p, lost) ==
  LET a == ask[p] IN
  /\ a.pc = "answer"
  /\ entry' = [entry EXCEPT ![a.qr] = [status |-> "gone", grant |-> None]]
  /\ given' = IF lost THEN given ELSE [given EXCEPT ![a.grant] = @ + 1]
  /\ ask' = [ask EXCEPT ![p] = NoAsk]
  /\ UNCHANGED <<grant, contested, repolled, failed>>

(* The lifetime of the challenge. *)
LinkExpires(q) ==
  /\ entry[q].status \in {"pending", "approved"}
  /\ entry' = [entry EXCEPT ![q] = [status |-> "gone", grant |-> None]]
  /\ UNCHANGED <<grant, ask, given, contested, repolled, failed>>

-----------------------------------------------------------------------------
(* The phone. *)

(* Mutant: a challenge is confirmed again. *)
BeginConfirmAgain(p, q) ==
  /\ entry[q].status \in {"pending", "approved"}
  /\ StartsAsk(p, [pc |-> "login", qr |-> q, grant |-> None])
  /\ contested' = IF Confirming(q) # {} THEN contested \union {q} ELSE contested
  /\ UNCHANGED <<entry, grant, given, repolled, failed>>

(* The challenge is read, and the code of the phone is right. *)
BeginConfirm(p, q) ==
  /\ entry[q].status = "pending"
  /\ StartsAsk(p, [pc |-> "login", qr |-> q, grant |-> None])
  /\ contested' = IF Confirming(q) # {} THEN contested \union {q} ELSE contested
  /\ UNCHANGED <<entry, grant, given, repolled, failed>>

(* complete_login holds the row of the device from here to the commit. *)
OpenSession(p, g) ==
  /\ ask[p].pc = "login"
  /\ \A r \in Confirming(ask[p].qr) : ask[r].pc = "login"
  /\ grant[g] = NoGrant
  /\ grant' = [grant EXCEPT ![g] = [qr |-> ask[p].qr, state |-> "open"]]
  /\ ask' = [ask EXCEPT ![p].pc = "store", ![p].grant = g]
  /\ UNCHANGED <<entry, given, contested, repolled, failed>>

(* The challenge it has read is set, approved, even if it has gone. *)
StoreTokens(p) ==
  LET a == ask[p] IN
  /\ a.pc = "store"
  /\ entry' = [entry EXCEPT ![a.qr] = [status |-> "approved", grant |-> a.grant]]
  /\ ask' = [ask EXCEPT ![p].pc = "commit"]
  /\ UNCHANGED <<grant, given, contested, repolled, failed>>

(* The sessions that the device had are ended with it. *)
CommitConfirm(p) ==
  LET a == ask[p] IN
  /\ a.pc = "commit"
  /\ grant' = [g \in Grant |->
                 IF g = a.grant THEN [grant[g] EXCEPT !.state = "live"]
                 ELSE IF grant[g] = [qr |-> a.qr, state |-> "live"]
                      THEN [grant[g] EXCEPT !.state = "ended"] ELSE grant[g]]
  /\ ask' = [ask EXCEPT ![p] = NoAsk]
  /\ UNCHANGED <<entry, given, contested, repolled, failed>>

(* A request that fails rolls the session back, and leaves the cache as it is. *)
AbortAsk(p) ==
  LET a == ask[p] IN
  /\ a.pc # "idle"
  /\ grant' = IF a.pc \in {"store", "commit"}
              THEN [grant EXCEPT ![a.grant].state = "void"] ELSE grant
  /\ failed' = IF a.pc = "commit" THEN failed \union {a.grant} ELSE failed
  /\ ask' = [ask EXCEPT ![p] = NoAsk]
  /\ UNCHANGED <<entry, given, contested, repolled>>

LinkNext ==
  \/ \E q \in Qr : StartLink(q) \/ LinkExpires(q)
  \/ \E p \in Request :
       \/ \E q \in Qr : BeginPoll(p, q) \/ BeginConfirm(p, q)
       \/ \E lost \in BOOLEAN : AnswerPoll(p, lost)
       \/ \E g \in Grant : OpenSession(p, g)
       \/ StoreTokens(p) \/ CommitConfirm(p) \/ AbortAsk(p)

LinkSpec == LinkInit /\ [][LinkNext]_linkVars

-----------------------------------------------------------------------------
(* Properties. *)

(* "one-shot : 2e poll = 410": tokens are handed out once, and what the       *)
(* waiting device was handed is a session that stands or is about to be         *)
(* committed, however confirmations, polls and expiry interleave.  Excepted     *)
(* are tokens two polls read at once, tokens of a request that failed between    *)
(* the cache and its commit, and challenges that two confirmations read at once. *)
HandedSessionStands ==
  \A g \in Grant : given[g] > 0 =>
    /\ given[g] = 1 \/ g \in repolled
    /\ \/ grant[g].state \in {"open", "live"}
       \/ g \in failed \/ grant[g].qr \in contested

=============================================================================
