---------------------------- MODULE PasswordReset ----------------------------
(***************************************************************************)
(* The password of one account: its rotation, the reset by an              *)
(* administrator, and the reset by a ticket, which a second factor earns.  *)
(* Tickets and the user are read without a lock; the UPDATE that sets the  *)
(* password holds the users row to the commit.  The sessions ended          *)
(* afterwards are those of Sessions.                                        *)
(***************************************************************************)
EXTENDS Requests, Integers, FiniteSets
CONSTANTS
  Ticket,
  Password,
  HistoryLength,   \* password_history_n
  MaxChanges       \* bound: password changes

ASSUME HistoryAssumption == HistoryLength \in Nat \ {0} /\ MaxChanges \in Nat
ASSUME NoneIsNoTicket    == None \notin Ticket \union Password

VARIABLES
  password,     \* users.password
  archive,      \* password_history: [id, hash], id grows with created_at
  changes,      \* the last id drawn
  ticket,       \* password_reset_tokens
  resettable,   \* the account is active, approved and not locked
  change,       \* the requests
  resets        \* history: password changes by each ticket

passwordVars == <<password, archive, changes, ticket, resettable, change, resets>>
passwordDb   == <<password, archive, changes, ticket, resettable, resets>>

TicketStates == {"none", "live", "revoked", "expired", "used"}
NoChange == [pc |-> "idle", row |-> 0, saw |-> None, new |-> None, with |-> None,
             drop |-> {}, revoke |-> {}]

PasswordInit ==
  /\ password \in Password
  /\ archive = {} /\ changes = 0
  /\ ticket = [t \in Ticket |-> "none"]
  /\ resettable \in BOOLEAN
  /\ change = [p \in Request |-> NoChange]
  /\ resets = [t \in Ticket |-> 0]

LiveTickets == {t \in Ticket : ticket[t] = "live"}
Newest(n, rows) == {r \in rows : Cardinality({s \in rows : s.id > r.id}) < n}

(* Neither the current hash nor one of the last archived. *)
NotReused(w) == w # password /\ \A r \in Newest(HistoryLength, archive) : r.hash # w

StartsChange(p, w, t) ==
  /\ change[p].pc = "idle"
  /\ NotReused(w)
  /\ change' = [change EXCEPT ![p] = [NoChange EXCEPT !.pc = "archive", !.saw = password,
                                                      !.new = w, !.with = t]]
  /\ UNCHANGED passwordDb

(* The old password is compared with the user as the request has read it. *)
BeginRotate(p, w) == StartsChange(p, w, None)
BeginAdminReset(p, w) == StartsChange(p, w, None)

(* Mutant: used_at is not looked at. *)
BeginResetUsed(p, w, t) == ticket[t] \in {"live", "used"} /\ StartsChange(p, w, t)

(* A live ticket is enough, whatever the account has become since. *)
BeginReset(p, w, t) == ticket[t] = "live" /\ StartsChange(p, w, t)

(* Mutant: one row too many is kept besides the new one. *)
ArchiveOldKeeping(p) ==
  /\ change[p].pc = "archive"
  /\ changes < MaxChanges
  /\ changes' = changes + 1
  /\ change' = [change EXCEPT ![p].pc = "set", ![p].row = changes + 1,
                              ![p].drop = archive \ Newest(HistoryLength, archive)]
  /\ UNCHANGED <<password, archive, ticket, resettable, resets>>

(* _archive_and_set: the old hash is inserted; of the rows then visible only *)
(* the newest stay.                                                          *)
ArchiveOld(p) ==
  /\ change[p].pc = "archive"
  /\ changes < MaxChanges
  /\ changes' = changes + 1
  /\ change' = [change EXCEPT ![p].pc = "set", ![p].row = changes + 1,
                              ![p].drop = archive \ Newest(HistoryLength - 1, archive)]
  /\ UNCHANGED <<password, archive, ticket, resettable, resets>>

(* The UPDATE of users.password waits for the row. *)
SetPassword(p) ==
  /\ change[p].pc = "set"
  /\ FreeFor(change, p, {"commit"})
  /\ change' = [change EXCEPT ![p].pc = "commit"]
  /\ UNCHANGED passwordDb

CommitChange(p) ==
  LET r == change[p] IN
  /\ r.pc = "commit"
  /\ password' = r.new
  /\ archive' = (archive \ r.drop) \union {[id |-> r.row, hash |-> r.saw]}
  /\ ticket' = [t \in Ticket |-> IF t = r.with THEN "used" ELSE ticket[t]]
  /\ resets' = [t \in Ticket |-> IF t = r.with THEN resets[t] + 1 ELSE resets[t]]
  /\ change' = [change EXCEPT ![p] = NoChange]
  /\ UNCHANGED <<changes, resettable>>

(* request_reset: the tickets of before are revoked. *)
Forgot(p) ==
  /\ change[p].pc = "idle"
  /\ resettable
  /\ ticket' = [t \in Ticket |-> IF t \in LiveTickets THEN "revoked" ELSE ticket[t]]
  /\ UNCHANGED <<password, archive, changes, resettable, change, resets>>

(* verify_reset_mfa, the second factor being right: the tickets it sees are  *)
(* revoked, and a new one is inserted.                                       *)
BeginTicket(p, t) ==
  /\ change[p].pc = "idle"
  /\ resettable
  /\ ticket[t] = "none" /\ \A q \in Request : change[q].with # t
  /\ change' = [change EXCEPT ![p] = [NoChange EXCEPT !.pc = "issue", !.with = t,
                                                      !.revoke = LiveTickets]]
  /\ UNCHANGED passwordDb

(* Mutant: the tickets of before stay. *)
CommitTicketOnly(p) ==
  /\ change[p].pc = "issue"
  /\ ticket' = [ticket EXCEPT ![change[p].with] = "live"]
  /\ change' = [change EXCEPT ![p] = NoChange]
  /\ UNCHANGED <<password, archive, changes, resettable, resets>>

CommitTicket(p) ==
  LET r == change[p] IN
  /\ r.pc = "issue"
  /\ ticket' = [t \in Ticket |-> IF t = r.with THEN "live"
                                 ELSE IF t \in r.revoke \intersect LiveTickets THEN "revoked"
                                 ELSE ticket[t]]
  /\ change' = [change EXCEPT ![p] = NoChange]
  /\ UNCHANGED <<password, archive, changes, resettable, resets>>

TicketExpires(t) ==
  /\ ticket[t] = "live"
  /\ ticket' = [ticket EXCEPT ![t] = "expired"]
  /\ UNCHANGED <<password, archive, changes, resettable, change, resets>>

(* The account is locked, unlocked, disabled or enabled. *)
StatusChanges ==
  /\ resettable' = ~resettable
  /\ UNCHANGED <<password, archive, changes, ticket, change, resets>>

AbortChange(p) ==
  /\ change[p].pc # "idle"
  /\ change' = [change EXCEPT ![p] = NoChange]
  /\ UNCHANGED passwordDb

PasswordNext ==
  \/ \E p \in Request :
       \/ \E w \in Password : BeginRotate(p, w) \/ BeginAdminReset(p, w)
                              \/ \E t \in Ticket : BeginReset(p, w, t)
       \/ ArchiveOld(p) \/ SetPassword(p) \/ CommitChange(p)
       \/ Forgot(p) \/ (\E t \in Ticket : BeginTicket(p, t)) \/ CommitTicket(p)
       \/ AbortChange(p)
  \/ \E t \in Ticket : TicketExpires(t)
  \/ StatusChanges

PasswordSpec == PasswordInit /\ [][PasswordNext]_passwordVars

-----------------------------------------------------------------------------
(* Properties. *)

(* A ticket is used only by requests that read it before it was used,       *)
(* revoked or expired: a used ticket comes back neither by a reset that read *)
(* it earlier nor by a revocation that meets it.                             *)
Tickets == INSTANCE OneTimeUse WITH
             Holder <- Request, Credential <- Ticket,
             live <- LiveTickets,
             spent <- {t \in Ticket : ticket[t] \in {"revoked", "expired", "used"}},
             holding <- [p \in Request |-> IF change[p].pc \in {"archive", "set", "commit"}
                                           THEN {change[p].with} \ {None} ELSE {}],
             uses <- resets
TicketsAreOneTime == Tickets!Spec

(* Concurrent verifications do not see each other's ticket, and concurrent   *)
(* changes trim the history to the rows they see. What they leave behind is   *)
(* bounded by their overlap: as many live tickets as requests, and one old    *)
(* password too many for each request beyond the first.                       *)
FewLeftovers ==
  /\ Cardinality(LiveTickets) <= Cardinality(Request)
  /\ Cardinality(archive) <= HistoryLength + Cardinality(Request) - 1

=============================================================================
