------------------------------ MODULE Sessions ------------------------------
(***************************************************************************)
(* Sessions, refresh tokens and devices of the IAM application: login,     *)
(* device link, rotation of the refresh token, every kind of logout,       *)
(* device revocation and ban, account disabling, and the session reaper.   *)
(*                                                                         *)
(* A request runs in one PostgreSQL transaction (ATOMIC_REQUESTS, READ     *)
(* COMMITTED).  What it has written is seen by nobody before the commit,   *)
(* but the rows it has written stay locked; the variables below hold       *)
(* COMMITTED rows, req[p] holds what request p has read, its position and, *)
(* through it, its locks.  The reaper runs without a transaction, so each  *)
(* of its UPDATEs commits by itself.                                       *)
(*                                                                         *)
(* The cache is outside the transaction: its writes are visible at once    *)
(* and survive a rollback.  Of its entries only the MFA challenge is kept. *)
(* A blacklisted access JTI and the answer replayed in the grace after a   *)
(* rotation may be evicted, or the cache be down, at any moment; both only *)
(* refuse a bearer or spare a session, and what the model lets happen is   *)
(* what happens without them.                                              *)
(*                                                                         *)
(* A token stands for one issued pair: the access JWT (its jti) and the    *)
(* refresh row.  A JWT's own expiry and a refresh row's own expiry only    *)
(* refuse the bearer, which changes nothing here.                          *)
(***************************************************************************)
CONSTANTS
  Request,      \* concurrent requests (or runs of the reaper)
  User, LdapUser,
  Device, OwnerOf,
  Session, Token, Challenge,
  None

ASSUME OwnerAssumption == OwnerOf \in [Device -> User]
ASSUME LdapAssumption  == LdapUser \subseteq User
ASSUME NoneAssumption  ==
  None \notin User \union Device \union Session \union Token \union Challenge

VARIABLES
  isActive,     \* users.is_active
  compromised,  \* devices.compromised
  session,      \* rows of sessions; device = None while there is no row
  refresh,      \* rows of refresh_tokens; session = None while there is no row
  challenge,    \* cache mfa:challenge:*, the device a first factor was given for
  req

db    == <<isActive, compromised, session, refresh>>
vars  == <<db, challenge, req>>

Steps == {"idle", "verify", "upsert", "revoke", "killSessions", "killTokens",
          "rotateRow", "saveSession", "finish"}
Ops   == {"none", "login", "refresh", "revoke", "device", "disable", "reap"}

NoSession == [device |-> None, is_active |-> FALSE, token |-> None, age |-> "fresh"]
NoRow     == [session |-> None, state |-> "none"]
Idle      == [pc |-> "idle", op |-> "none", user |-> None, device |-> None,
              chal |-> None, sids |-> {}, rows |-> {}, sid |-> None, tid |-> None,
              ban |-> FALSE]

-----------------------------------------------------------------------------
(* What the rows say. *)

Active        == {s \in Session : session[s].is_active}
ActiveOn(d)   == {s \in Active : session[s].device = d}
ActiveOf(u)   == {s \in Active : OwnerOf[session[s].device] = u}
LiveRowsOfAll(S) == {k \in Token : refresh[k].state = "live"}    \* mutant: no session filter
LiveRows(S)   == {k \in Token : refresh[k].session \in S /\ refresh[k].state = "live"}
UserOf(s)     == OwnerOf[session[s].device]

(* session_dead: logged out or killed, past the 30 days, or idle too long. *)
Dead(s) == ~session[s].is_active \/ session[s].age # "fresh"

(* The bearer check of every request, REST or WebSocket: the access token's *)
(* jti is the session's and the session is not dead.                        *)
Authenticated(s) == ~Dead(s)

(* Mutant: the device is read without FOR UPDATE. *)
HeldNoDevice(p) ==
  LET r == req[p] IN
  UNION {IF r.op # "reap" /\ r.pc \in {"killTokens", "finish"} THEN r.sids ELSE {},
         IF r.pc \in {"saveSession", "finish"} THEN r.rows ELSE {},
         IF r.op = "disable" THEN {r.user} ELSE {}}

(* Row locks: every row a transaction has written, until it ends.  The      *)
(* login's update_or_create locks the device row from its first statement;  *)
(* the reaper's statements keep nothing.                                    *)
Held(p) ==
  LET r == req[p] IN
  UNION {IF r.op = "login" /\ r.pc \in {"revoke", "killSessions", "killTokens", "finish"}
           THEN {r.device} ELSE {},
         IF r.op # "reap" /\ r.pc \in {"killTokens", "finish"} THEN r.sids ELSE {},
         IF r.pc \in {"saveSession", "finish"} THEN r.rows ELSE {},
         IF r.op = "disable" THEN {r.user} ELSE {}}

(* The rows the next statement of p writes. *)
Wanted(p) ==
  LET r == req[p] IN
  CASE r.pc = "upsert"                        -> {r.device}
    [] r.pc \in {"killSessions", "saveSession"} -> r.sids
    [] r.pc = "killTokens"                    -> r.rows \intersect LiveRows(r.sids)
    [] r.pc = "rotateRow"                     -> r.rows
    [] r.pc = "finish" /\ r.op = "device"     -> {r.device}
    [] r.pc = "finish" /\ r.op = "login"      -> {OwnerOf[r.device]}
    [] OTHER                                  -> {}

WaitsFor(p, q) == q # p /\ Wanted(p) \intersect Held(q) # {}
Granted(p)     == \A q \in Request : ~WaitsFor(p, q)
Unlocked(row)  == \A q \in Request : row \notin Held(q)

(* Fresh primary keys: uuid4 values no row has and no other request drew. *)
FreeSessions == {s \in Session : session[s].device = None /\ \A q \in Request : req[q].sid # s}
FreeTokens   == {k \in Token : refresh[k].session = None /\ \A q \in Request : req[q].tid # k}

(* The writes of kill_session_rows, and the move of a request. *)
Deactivated(S) == [s \in Session |->
  IF s \in S THEN [session[s] EXCEPT !.is_active = FALSE] ELSE session[s]]
Revoked(R)     == [k \in Token |->
  IF k \in R THEN [refresh[k] EXCEPT !.state = "revoked"] ELSE refresh[k]]
Goto(p, step)  == req' = [req EXCEPT ![p].pc = step]
Done(p)        == req' = [req EXCEPT ![p] = Idle]

-----------------------------------------------------------------------------
Init ==
  /\ isActive = [u \in User |-> TRUE]
  /\ compromised = [d \in Device |-> FALSE]
  /\ session = [s \in Session |-> NoSession]
  /\ refresh = [k \in Token |-> NoRow]
  /\ challenge = [c \in Challenge |-> None]
  /\ req = [p \in Request |-> Idle]

(***************************************************************************)
(* Opening a session.                                                      *)
(***************************************************************************)

(* Mutant: the challenge keeps the user, not the device specification. *)
LoginForUser(d, c) ==
  /\ isActive[OwnerOf[d]]
  /\ challenge[c] = None
  /\ challenge' = [challenge EXCEPT ![c] = OwnerOf[d]]
  /\ UNCHANGED <<db, req>>

(* First factor: the password (or AD bind) is right and the account active; *)
(* the answer is a challenge, never a token.                                *)
Login(d, c) ==
  /\ isActive[OwnerOf[d]]
  /\ challenge[c] = None
  /\ challenge' = [challenge EXCEPT ![c] = d]
  /\ UNCHANGED <<db, req>>

(* complete_login starts: the rows it will insert get their keys. *)
BeginCompleteLogin(p, step, d, c) ==
  \E s \in FreeSessions, k \in FreeTokens :
    req' = [req EXCEPT ![p] = [Idle EXCEPT !.pc = step, !.op = "login", !.device = d,
                                           !.chal = c, !.sid = s, !.tid = k]]

(* verify_mfa reads the challenge ... *)
VerifyBegin(p, c) ==
  /\ req[p].pc = "idle"
  /\ challenge[c] # None
  /\ BeginCompleteLogin(p, "verify", challenge[c], c)
  /\ UNCHANGED <<db, challenge>>

(* ... and, the TOTP or backup code being right, deletes it. *)
VerifyAccept(p) ==
  /\ req[p].pc = "verify"
  /\ challenge' = [challenge EXCEPT ![req[p].chal] = None]
  /\ req' = [req EXCEPT ![p].pc = "upsert", ![p].chal = None]
  /\ UNCHANGED db

(* confirm_device_link: a signed-in phone opens a session for another device. *)
ConfirmDeviceLink(p, a, d) ==
  /\ req[p].pc = "idle"
  /\ Authenticated(a)
  /\ OwnerOf[d] = UserOf(a)
  /\ d # session[a].device
  /\ BeginCompleteLogin(p, "upsert", d, None)
  /\ UNCHANGED <<db, challenge>>

(* update_or_create takes the device row for update; a compromised device is *)
(* refused (403, the request ends).                                          *)
UpsertDevice(p) ==
  /\ req[p].pc = "upsert"
  /\ Granted(p)
  /\ IF compromised[req[p].device] THEN Done(p) ELSE Goto(p, "revoke")
  /\ UNCHANGED <<db, challenge>>

(* kill_session_rows up to its first UPDATE: the rows are read.             *)
KillReads(p, r, S) ==
  /\ req' = [req EXCEPT ![p] = [r EXCEPT !.sids = S,
                                         !.pc = IF S = {} THEN "finish" ELSE "killSessions"]]
  /\ UNCHANGED <<db, challenge>>

(* Mutant: the previous session of the device is left alone. *)
KeepSameDevice(p) ==
  /\ req[p].pc = "revoke"
  /\ Goto(p, "finish")
  /\ UNCHANGED <<db, challenge>>

RevokeSameDevice(p) ==
  /\ req[p].pc = "revoke"
  /\ KillReads(p, req[p], ActiveOn(req[p].device))

(* Session and refresh row are inserted and the transaction commits.  The   *)
(* login also updates its user row, so it waits for a running disable_user. *)
InsertSession(p) ==
  LET r == req[p] IN
  /\ r.pc = "finish" /\ r.op = "login"
  /\ Granted(p)
  /\ session' = [Deactivated(r.sids) EXCEPT ![r.sid] =
                   [device |-> r.device, is_active |-> TRUE, token |-> r.tid, age |-> "fresh"]]
  /\ refresh' = [Revoked(r.rows) EXCEPT ![r.tid] = [session |-> r.sid, state |-> "live"]]
  /\ Done(p)
  /\ UNCHANGED <<isActive, compromised, challenge>>

(***************************************************************************)
(* Ending sessions: kill_session_rows, shared by every path.               *)
(***************************************************************************)

(* UPDATE sessions: waits for the rows, then holds them (the reaper's own   *)
(* statement commits).  The rows the second UPDATE will look at are those   *)
(* live now.                                                                *)
KillSessions(p) ==
  LET r == req[p] IN
  /\ r.pc = "killSessions"
  /\ Granted(p)
  /\ req' = [req EXCEPT ![p].pc = "killTokens", ![p].rows = LiveRows(r.sids)]
  /\ session' = IF r.op = "reap" THEN Deactivated(r.sids) ELSE session
  /\ UNCHANGED <<isActive, compromised, refresh, challenge>>

(* UPDATE refresh_tokens WHERE revoked_at IS NULL: rows revoked meanwhile   *)
(* are skipped; a row inserted since is seen only if it committed before    *)
(* the statement began.                                                     *)
KillTokens(p) ==
  LET r    == req[p]
      live == LiveRows(r.sids)
  IN
  /\ r.pc = "killTokens"
  /\ Granted(p)
  /\ \E late \in SUBSET {k \in live \ r.rows : Unlocked(k)} :
       LET dead == (r.rows \intersect live) \union late IN
       IF r.op = "reap"
         THEN refresh' = Revoked(dead) /\ Done(p)
         ELSE /\ req' = [req EXCEPT ![p].pc = "finish", ![p].rows = dead]
              /\ UNCHANGED refresh
  /\ UNCHANGED <<isActive, compromised, session, challenge>>

(* The transaction of a logout commits. *)
KillCommits(p) ==
  /\ session' = Deactivated(req[p].sids)
  /\ refresh' = Revoked(req[p].rows)
  /\ Done(p)

FinishRevoke(p) ==
  /\ req[p].pc = "finish" /\ req[p].op = "revoke"
  /\ KillCommits(p)
  /\ UNCHANGED <<isActive, compromised, challenge>>

(* kill_device saves the device last, and writes back `compromised` as it   *)
(* read it before the kill unless it is banning.                            *)
FinishDevice(p) ==
  /\ req[p].pc = "finish" /\ req[p].op = "device"
  /\ Granted(p)
  /\ KillCommits(p)
  /\ compromised' = [compromised EXCEPT ![req[p].device] = req[p].ban]
  /\ UNCHANGED <<isActive, challenge>>

FinishDisable(p) ==
  /\ req[p].pc = "finish" /\ req[p].op = "disable"
  /\ KillCommits(p)
  /\ isActive' = [isActive EXCEPT ![req[p].user] = FALSE]
  /\ UNCHANGED <<compromised, challenge>>

Kill(p, S) ==
  /\ req[p].pc = "idle"
  /\ KillReads(p, [Idle EXCEPT !.op = "revoke"], S)

LogoutCurrent(p, a)       == Authenticated(a) /\ Kill(p, {a})
LogoutSession(p, a, s)    == Authenticated(a) /\ s \in ActiveOf(UserOf(a)) /\ Kill(p, {s})
LogoutAll(p, a)           == Authenticated(a) /\ Kill(p, ActiveOf(UserOf(a)))
LogoutDevice(p, a, d)     == Authenticated(a) /\ OwnerOf[d] = UserOf(a) /\ Kill(p, ActiveOn(d))
(* rotate_password with logout_others keeps the caller's session. *)
RotatePassword(p, a)      == Authenticated(a) /\ Kill(p, ActiveOf(UserOf(a)) \ {a})
(* The administrator's revoke-all; password resets and the MFA reset end    *)
(* with the same call.                                                      *)
RevokeAllSessions(p, u)   == ActiveOf(u) # {} /\ Kill(p, ActiveOf(u))

KillDevice(p, d, ban) ==
  /\ req[p].pc = "idle"
  /\ KillReads(p, [Idle EXCEPT !.op = "device", !.device = d, !.ban = ban], ActiveOn(d))

RevokeDevice(p, a, d) ==
  Authenticated(a) /\ OwnerOf[d] = UserOf(a) /\ KillDevice(p, d, compromised[d])
CompromiseOwned(p, a, d) ==
  /\ Authenticated(a) /\ OwnerOf[d] = UserOf(a) /\ d # session[a].device
  /\ KillDevice(p, d, TRUE)
CompromiseAdmin(p, d) == KillDevice(p, d, TRUE)

ClearCompromise(d) ==
  /\ compromised[d]
  /\ Unlocked(d)
  /\ compromised' = [compromised EXCEPT ![d] = FALSE]
  /\ UNCHANGED <<isActive, session, refresh, challenge, req>>

(* disable_user writes the user row first, then kills: AD accounts are      *)
(* refused.  An account already inactive is not written, only its sessions. *)
DisableUser(p, u) ==
  /\ req[p].pc = "idle"
  /\ u \notin LdapUser
  /\ Unlocked(u)
  /\ KillReads(p, [Idle EXCEPT !.op = IF isActive[u] THEN "disable" ELSE "revoke",
                               !.user = IF isActive[u] THEN u ELSE None], ActiveOf(u))

EnableUser(u) ==
  /\ u \notin LdapUser
  /\ ~isActive[u]
  /\ isActive' = [isActive EXCEPT ![u] = TRUE]
  /\ UNCHANGED <<compromised, session, refresh, challenge, req>>

(* The AD synchronisation flips is_active and leaves the sessions alone. *)
SyncLdapAccount(u) ==
  /\ u \in LdapUser
  /\ isActive' = [isActive EXCEPT ![u] = ~isActive[u]]
  /\ UNCHANGED <<compromised, session, refresh, challenge, req>>

(* Mutant: the reaper forgets the INACTIVITY batch. *)
ReapOnlyExpired(p, why) ==
  LET old == {s \in Active : session[s].age = why} IN
  /\ req[p].pc = "idle"
  /\ why = "expired" /\ old # {}
  /\ KillReads(p, [Idle EXCEPT !.op = "reap"], old)

(* One batch of the reaper: INACTIVITY, then EXPIRED. *)
ReapSessions(p, why) ==
  LET old == {s \in Active : session[s].age = why} IN
  /\ req[p].pc = "idle"
  /\ old # {}
  /\ KillReads(p, [Idle EXCEPT !.op = "reap"], old)

(***************************************************************************)
(* Refresh.                                                                *)
(***************************************************************************)

(* A live token of a usable session. *)
RefreshBegin(p, k) ==
  LET s == refresh[k].session IN
  /\ req[p].pc = "idle"
  /\ refresh[k].state = "live"
  /\ ~Dead(s)
  /\ \E j \in FreeTokens :
       req' = [req EXCEPT ![p] = [Idle EXCEPT !.pc = "rotateRow", !.op = "refresh",
                                              !.sids = {s}, !.rows = {k}, !.tid = j]]
  /\ UNCHANGED <<db, challenge>>

(* A token already rotated or revoked: every session of its user is killed, *)
(* unless the cache still has the answer of the rotation (nothing changes). *)
RefreshReuse(p, k) ==
  /\ refresh[k].state \in {"rotated", "revoked"}
  /\ Kill(p, ActiveOf(UserOf(refresh[k].session)))

(* UPDATE refresh_tokens: waits for the row, then holds it. *)
RotateRow(p) ==
  /\ req[p].pc = "rotateRow"
  /\ Granted(p)
  /\ Goto(p, "saveSession")
  /\ UNCHANGED <<db, challenge>>

(* UPDATE sessions, then the INSERT of the new row.                         *)
SaveSession(p) ==
  /\ req[p].pc = "saveSession"
  /\ Granted(p)
  /\ Goto(p, "finish")
  /\ UNCHANGED <<db, challenge>>

(* Mutant: save() without update_fields writes the whole row as it was read. *)
SavedWholeRow(row, k) == [row EXCEPT !.token = k, !.is_active = TRUE, !.age = "fresh"]

(* save(update_fields) wrote the token and last_activity, nothing else. *)
SavedSession(row, k) ==
  [row EXCEPT !.token = k, !.age = IF row.age = "idle" THEN "fresh" ELSE row.age]

CommitRefresh(p) ==
  LET r == req[p] IN
  /\ r.pc = "finish" /\ r.op = "refresh"
  /\ session' = [s \in Session |->
       IF s \in r.sids THEN SavedSession(session[s], r.tid) ELSE session[s]]
  /\ refresh' = [k \in Token |->
       IF k = r.tid THEN [session |-> CHOOSE s \in r.sids : TRUE, state |-> "live"]
       ELSE IF k \in r.rows THEN [refresh[k] EXCEPT !.state = "rotated"]
       ELSE refresh[k]]
  /\ Done(p)
  /\ UNCHANGED <<isActive, compromised, challenge>>

(***************************************************************************)
(* The environment: failures, the deadlock detector, time.                 *)
(***************************************************************************)

(* The process dies, the database fails, or a later check answers 4xx/5xx   *)
(* before anything is written: no row changes.                              *)
Abort(p) ==
  /\ req[p].pc # "idle"
  /\ Done(p)
  /\ UNCHANGED <<db, challenge>>

(* Mutant: the locks live in the cache, where PostgreSQL sees no cycle. *)
UnseenDeadlock(p) == FALSE /\ Abort(p)

(* PostgreSQL aborts one transaction of a set in which each waits for a row *)
(* that another one holds.                                                  *)
DeadlockVictim(p) ==
  /\ \E C \in SUBSET Request :
       p \in C /\ \A q \in C : \E r \in C : WaitsFor(q, r)
  /\ Abort(p)

(* Time passes for a session: 7 idle days, or 30 days since the login. *)
Grow(s, age) ==
  /\ session[s].is_active
  /\ session[s].age # "expired" /\ session[s].age # age
  /\ session' = [session EXCEPT ![s].age = age]
  /\ UNCHANGED <<isActive, compromised, refresh, challenge, req>>

(* The challenge times out or is evicted. *)
ForgetChallenge(c) ==
  /\ challenge[c] # None
  /\ challenge' = [challenge EXCEPT ![c] = None]
  /\ UNCHANGED <<db, req>>

-----------------------------------------------------------------------------
OpenStep(p) ==
  \/ \E c \in Challenge : VerifyBegin(p, c)
  \/ VerifyAccept(p)
  \/ \E a \in Session, d \in Device : ConfirmDeviceLink(p, a, d)
  \/ UpsertDevice(p)
  \/ RevokeSameDevice(p)
  \/ InsertSession(p)

KillStart(p) ==
  \/ \E a \in Session :
       \/ LogoutCurrent(p, a)
       \/ LogoutAll(p, a)
       \/ RotatePassword(p, a)
       \/ \E s \in Session : LogoutSession(p, a, s)
       \/ \E d \in Device : LogoutDevice(p, a, d) \/ RevokeDevice(p, a, d)
                            \/ CompromiseOwned(p, a, d)
  \/ \E u \in User : RevokeAllSessions(p, u) \/ DisableUser(p, u)
  \/ \E d \in Device : CompromiseAdmin(p, d)
  \/ \E why \in {"idle", "expired"} : ReapSessions(p, why)
  \/ \E k \in Token : RefreshReuse(p, k)

KillStep(p) ==
  \/ KillSessions(p)
  \/ KillTokens(p)
  \/ FinishRevoke(p)
  \/ FinishDevice(p)
  \/ FinishDisable(p)

RefreshStep(p) ==
  \/ \E k \in Token : RefreshBegin(p, k)
  \/ RotateRow(p)
  \/ SaveSession(p)
  \/ CommitRefresh(p)

Environment ==
  \/ \E d \in Device, c \in Challenge : Login(d, c)
  \/ \E d \in Device : ClearCompromise(d)
  \/ \E u \in User : EnableUser(u) \/ SyncLdapAccount(u)
  \/ \E s \in Session : Grow(s, "idle") \/ Grow(s, "expired")
  \/ \E c \in Challenge : ForgetChallenge(c)

Next ==
  \/ \E p \in Request : OpenStep(p) \/ KillStart(p) \/ KillStep(p) \/ RefreshStep(p)
                        \/ Abort(p) \/ DeadlockVictim(p)
  \/ Environment

Spec == Init /\ [][Next]_vars

(* Fairness.  PostgreSQL queues the waiters of a row lock, so a request     *)
(* whose next statement can run again and again does run it; the deadlock   *)
(* detector always fires; cron starts the reaper for ever; and at some      *)
(* point requests stop failing for other reasons.  Nothing is assumed of    *)
(* the clients: they may never send another request, or never stop.         *)
Step(p) ==
  \/ VerifyAccept(p) \/ UpsertDevice(p) \/ RevokeSameDevice(p) \/ InsertSession(p)
  \/ KillStep(p)
  \/ RotateRow(p) \/ SaveSession(p) \/ CommitRefresh(p)

ReapRun(why) == \E p \in Request : ReapSessions(p, why)
Failure      == \E p \in Request : Abort(p) /\ ~DeadlockVictim(p)

FairSpec ==
  /\ Spec
  /\ \A p \in Request : SF_vars(Step(p)) /\ WF_vars(DeadlockVictim(p))
  /\ SF_vars(ReapRun("idle")) /\ SF_vars(ReapRun("expired"))
  /\ <>[][~Failure]_vars

-----------------------------------------------------------------------------
(* Properties. *)

SessionRow == [device : Device \union {None}, is_active : BOOLEAN,
               token : Token \union {None}, age : {"fresh", "idle", "expired"}]
RefreshRow == [session : Session \union {None},
               state : {"none", "live", "rotated", "revoked"}]
RequestState == [pc : Steps, op : Ops, user : User \union {None},
                 device : Device \union {None}, chal : Challenge \union {None},
                 sids : SUBSET Session, rows : SUBSET Token,
                 sid : Session \union {None}, tid : Token \union {None}, ban : BOOLEAN]

(* Every variable has its type: rows, cache entries and request states. *)
TypeOK ==
  /\ isActive \in [User -> BOOLEAN]
  /\ compromised \in [Device -> BOOLEAN]
  /\ session \in [Session -> SessionRow]
  /\ refresh \in [Token -> RefreshRow]
  /\ challenge \in [Challenge -> Device \union {None}]
  /\ req \in [Request -> RequestState]

(* AUTH-12: a device never has two active sessions, whatever logins, device *)
(* links and refreshes run at the same time.  complete_login revokes and    *)
(* inserts in separate statements; the device row update_or_create locked   *)
(* is what keeps two of them apart.                                         *)
OneActivePerDevice ==
  \A s, t \in Active : session[s].device = session[t].device => s = t

(* A session that is active can be refreshed: its own token's row is live.  *)
(* No order of rotations, kills and crashes of the reaper leaves an active  *)
(* session whose next refresh would be answered FORCE_LOGOUT.               *)
ActiveSessionRefreshable ==
  \A s \in Active : /\ session[s].token # None
                    /\ refresh[session[s].token] = [session |-> s, state |-> "live"]

(* What can no longer come back: a session that was ended or passed its     *)
(* absolute limit, a token whose session is one of these or has moved on to *)
(* another token.                                                           *)
Ended(s) == /\ session[s].device # None
            /\ ~session[s].is_active \/ session[s].age = "expired"
Void(k)  == /\ refresh[k].session # None
            /\ Ended(refresh[k].session) \/ session[refresh[k].session].token # k

(* Logout, revocation and rotation are final: a refresh that read the       *)
(* session before it was killed and saves it after, or any other step,      *)
(* revives neither the session nor a superseded access token.               *)
RevocationIsFinal ==
  [][/\ \A s \in Session : Ended(s) => Ended(s)'
     /\ \A k \in Token : Void(k) => Void(k)']_vars

(* AUTH-33: no session is opened on a device that is compromised at that    *)
(* moment, although the flag is read several statements before the INSERT.  *)
NoLoginOnCompromised ==
  [][\A s \in Session : ~session[s].is_active /\ session'[s].is_active
                          => ~compromised[session'[s].device]]_vars

(* The committed rows implement the abstract promise of DeviceSlots. *)
Slots == INSTANCE DeviceSlots WITH
           held   <- [d \in Device |-> ActiveOn(d)],
           spent  <- {s \in Session : session[s].device # None},
           banned <- {d \in Device : compromised[d]}
ImplementsDeviceSlots == Slots!Spec

(* Every request ends, although login, refresh and kill take row locks in   *)
(* orders that deadlock: login device-then-sessions, kill_device the        *)
(* reverse, refresh token-then-session, kill_session_rows the reverse.      *)
RequestsTerminate == \A p \in Request : req[p].pc # "idle" ~> req[p].pc = "idle"

(* session_reaper: an active session that has gone idle or expired does not *)
(* stay so for ever, although the reaper waits for rows that refreshes and  *)
(* kills of the same session keep taking before it.                         *)
OldSessionsAreReaped ==
  \A s \in Session : (session[s].is_active /\ session[s].age # "fresh")
                        ~> ~(session[s].is_active /\ session[s].age # "fresh")

-----------------------------------------------------------------------------
(* What the documentation says and the code does not keep. *)

(* ADMIN-A: after `disable` of a local account no session is active and     *)
(* login answers 403.                                                       *)
DisabledUserHasNoSession ==
  \A u \in User \ LdapUser : ~isActive[u] => ActiveOf(u) = {}

(* AUTH-E: after `compromise`, login is refused until clear-compromise. *)
OnlyClearLiftsBan ==
  [][\A d \in Device : compromised[d] /\ ~compromised'[d] => ClearCompromise(d)]_vars

(* The comment on the grace: tabs racing on one refresh token get the pair  *)
(* already issued, so a session has one refresh token that works.           *)
OneLiveRefreshPerSession ==
  \A s \in Active : \A j, k \in LiveRows({s}) : j = k

=============================================================================
