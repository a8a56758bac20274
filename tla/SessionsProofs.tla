--------------------------- MODULE SessionsProofs ---------------------------
(***************************************************************************)
(* Theorems about Sessions, for any number of users, devices, sessions,    *)
(* tokens and concurrent requests.  Everything rests on the inductive      *)
(* invariant IInv: the rows are consistent, a request holds what its       *)
(* position says, fresh keys are drawn once, and the device row lock of a  *)
(* login covers what the login has read.                                   *)
(***************************************************************************)
EXTENDS Sessions, TLAPS

-----------------------------------------------------------------------------
(* The inductive invariant. *)

(* Inserted rows carry their foreign keys. *)
RowsInv ==
  /\ \A s \in Session : session[s].device = None => ~session[s].is_active
  /\ \A k \in Token : refresh[k].state # "none" => refresh[k].session # None
  /\ \A k \in Token : refresh[k].session # None =>
                        session[refresh[k].session].device # None

(* A drawn key is in no table and in no other request. *)
KeysInv ==
  \A p \in Request :
    /\ req[p].sid # None => session[req[p].sid].device = None
    /\ req[p].tid # None => refresh[req[p].tid].session = None
    /\ \A q \in Request \ {p} : /\ req[p].sid # None => req[q].sid # req[p].sid
                                /\ req[p].tid # None => req[q].tid # req[p].tid

LoginSteps   == {"verify", "upsert", "revoke"}
RefreshSteps == {"rotateRow", "saveSession"}

(* What a request has read, by kind and position. *)
Shape(p) ==
  LET r == req[p] IN
  /\ r.pc = "idle" <=> r.op = "none"
  /\ r.pc = "idle" => r = Idle
  /\ r.pc \in LoginSteps => r.op = "login" /\ r.rows = {}
  /\ r.pc = "verify" => r.chal # None
  /\ r.op = "login" => /\ r.pc \notin RefreshSteps
                       /\ r.device # None /\ r.sid # None /\ r.tid # None
                       /\ \A s \in r.sids : session[s].device = r.device
  /\ r.pc \in RefreshSteps => r.op = "refresh"
  /\ r.op = "refresh" => /\ r.pc \in RefreshSteps \union {"finish"}
                         /\ r.tid # None
                         /\ \E s \in Session : r.sids = {s}
  /\ r.op = "device" => r.device # None
  /\ r.op = "disable" => r.user # None
  /\ r.op = "reap" => r.pc \in {"killSessions", "killTokens"}
  /\ \A s \in r.sids : session[s].device # None
  /\ \A k \in r.rows : refresh[k].session \in r.sids
  /\ r.op = "reap" /\ r.pc = "killTokens" => \A s \in r.sids : ~session[s].is_active

ShapeInv == \A p \in Request : Shape(p)

HoldsDevice(p) ==
  req[p].op = "login" /\ req[p].pc \in {"revoke", "killSessions", "killTokens", "finish"}

(* The device row lock: one holder, an uncompromised device, and, once the  *)
(* sessions of the device have been read, no other active session on it.    *)
LockInv ==
  \A p \in Request : HoldsDevice(p) =>
    /\ \A q \in Request : HoldsDevice(q) /\ req[q].device = req[p].device => q = p
    /\ ~compromised[req[p].device]
    /\ req[p].pc # "revoke" => ActiveOn(req[p].device) \subseteq req[p].sids

RefreshInv == \A s \in Session : session[s].is_active =>
                 /\ session[s].token \in Token
                 /\ refresh[session[s].token] = [session |-> s, state |-> "live"]

IInv == /\ TypeOK /\ RowsInv /\ KeysInv /\ ShapeInv /\ LockInv
        /\ RefreshInv /\ OneActivePerDevice

-----------------------------------------------------------------------------
(* The ways a kill starts differ only in the sessions they list. *)
StartsKill(p) ==
  \E r \in RequestState, S \in SUBSET Active :
    /\ req[p].pc = "idle"
    /\ r.rows = {} /\ r.sid = None /\ r.tid = None
    /\ r.op \in {"revoke", "device", "disable", "reap"}
    /\ r.op = "device" => r.device # None
    /\ r.op = "disable" => r.user # None
    /\ r.op = "reap" => S # {}
    /\ KillReads(p, r, S)

(* A request that is not running has a well-typed state. *)
LEMMA IdleType == Idle \in RequestState
  BY DEF Idle, RequestState, Steps, Ops

(* Every logout, revocation, ban, disabling and reaper batch starts as a    *)
(* kill of sessions that are active when they are read.                     *)
LEMMA KillStartForm ==
  ASSUME TypeOK, RowsInv, NEW p \in Request, KillStart(p)
  PROVE  StartsKill(p)
<1>1. \A S \in SUBSET Active : Kill(p, S) => StartsKill(p)
  <2>1. [Idle EXCEPT !.op = "revoke"] \in RequestState
    BY DEF Idle, RequestState, Steps, Ops
  <2>. QED
    BY <2>1 DEF Kill, StartsKill, Idle
<1>2. \A d \in Device, ban \in BOOLEAN : KillDevice(p, d, ban) => StartsKill(p)
  <2>. TAKE d \in Device, ban \in BOOLEAN
  <2>1. [Idle EXCEPT !.op = "device", !.device = d, !.ban = ban] \in RequestState
    BY DEF Idle, RequestState, Steps, Ops
  <2>. QED
    BY <2>1, NoneAssumption DEF KillDevice, StartsKill, Idle, ActiveOn
<1>3. \A u \in User : DisableUser(p, u) => StartsKill(p)
  <2>. TAKE u \in User
  <2>. DEFINE r == [Idle EXCEPT !.op = IF isActive[u] THEN "disable" ELSE "revoke",
                                !.user = IF isActive[u] THEN u ELSE None]
  <2>1. r \in RequestState
    BY DEF Idle, RequestState, Steps, Ops
  <2>. QED
    BY <2>1, NoneAssumption DEF DisableUser, StartsKill, Idle, ActiveOf
<1>4. \A why \in {"idle", "expired"} : ReapSessions(p, why) => StartsKill(p)
  <2>1. [Idle EXCEPT !.op = "reap"] \in RequestState
    BY DEF Idle, RequestState, Steps, Ops
  <2>. QED
    BY <2>1 DEF ReapSessions, StartsKill, Idle
<1>5. \A a \in Session : Authenticated(a) => a \in Active
  BY DEF Authenticated, Dead, Active
<1>. QED
  BY <1>1, <1>2, <1>3, <1>4, <1>5
     DEF KillStart, LogoutCurrent, LogoutSession, LogoutAll, LogoutDevice, RotatePassword,
         RevokeAllSessions, RevokeDevice, CompromiseOwned, CompromiseAdmin, RefreshReuse,
         ActiveOf, ActiveOn, TypeOK

(* The steps of Next, with the kills in their common form. *)
ReqStep(p) ==
  \/ StartsKill(p)
  \/ \E c \in Challenge : VerifyBegin(p, c)
  \/ VerifyAccept(p)
  \/ \E a \in Session, d \in Device : ConfirmDeviceLink(p, a, d)
  \/ UpsertDevice(p)
  \/ RevokeSameDevice(p)
  \/ InsertSession(p)
  \/ KillSessions(p)
  \/ KillTokens(p)
  \/ FinishRevoke(p)
  \/ FinishDevice(p)
  \/ FinishDisable(p)
  \/ \E k \in Token : RefreshBegin(p, k)
  \/ RotateRow(p)
  \/ SaveSession(p)
  \/ CommitRefresh(p)
  \/ Abort(p)

(* A step of Next is a step of one request or of the environment. *)
LEMMA NextForm ==
  ASSUME TypeOK, RowsInv, Next
  PROVE  (\E p \in Request : ReqStep(p)) \/ Environment
<1>1. \A p \in Request : KillStart(p) => StartsKill(p)
  BY KillStartForm
<1>2. \A p \in Request : DeadlockVictim(p) => Abort(p)
  BY DEF DeadlockVictim
<1>. QED
  BY <1>1, <1>2 DEF Next, ReqStep, OpenStep, KillStep, RefreshStep

-----------------------------------------------------------------------------
(* Types. *)

(* Updates that keep a record in its type. *)
LEMMA RequestUpdates ==
  ASSUME NEW r \in RequestState
  PROVE  /\ \A step \in Steps : [r EXCEPT !.pc = step] \in RequestState
         /\ \A step \in Steps, S \in SUBSET Session :
              [r EXCEPT !.sids = S, !.pc = step] \in RequestState
         /\ \A step \in Steps, R \in SUBSET Token :
              [r EXCEPT !.pc = step, !.rows = R] \in RequestState
         /\ \A step \in Steps : [r EXCEPT !.pc = step, !.chal = None] \in RequestState
  BY DEF RequestState

(* The column updates of the handlers keep the rows in their types. *)
LEMMA RowUpdates ==
  /\ \A row \in SessionRow :
       /\ [row EXCEPT !.is_active = FALSE] \in SessionRow
       /\ \A age \in {"idle", "expired"} : [row EXCEPT !.age = age] \in SessionRow
       /\ \A k \in Token : SavedSession(row, k) \in SessionRow
  /\ \A row \in RefreshRow : /\ [row EXCEPT !.state = "revoked"] \in RefreshRow
                             /\ [row EXCEPT !.state = "rotated"] \in RefreshRow
  BY DEF SessionRow, RefreshRow, SavedSession

(* kill_session_rows keeps both tables in their types. *)
LEMMA KillTypes ==
  ASSUME TypeOK
  PROVE  /\ \A S : Deactivated(S) \in [Session -> SessionRow]
         /\ \A R : Revoked(R) \in [Token -> RefreshRow]
  BY RowUpdates DEF TypeOK, Deactivated, Revoked

(* Moving one request. *)
LEMMA MoveType ==
  ASSUME TypeOK, NEW p \in Request
  PROVE  /\ \A X \in RequestState : req' = [req EXCEPT ![p] = X]
                                       => req' \in [Request -> RequestState]
         /\ \A step \in Steps : Goto(p, step) => req' \in [Request -> RequestState]
         /\ Done(p) => req' \in [Request -> RequestState]
<1>1. req \in [Request -> RequestState] /\ req[p] \in RequestState
  BY DEF TypeOK
<1>2. \A X \in RequestState : [req EXCEPT ![p] = X] \in [Request -> RequestState]
  BY <1>1
<1>3. \A step \in Steps : [req[p] EXCEPT !.pc = step] \in RequestState
  BY <1>1, RequestUpdates
<1>. QED
  BY <1>2, <1>3, IdleType DEF Goto, Done

(* Every step keeps TypeOK; it needs the foreign keys of RowsInv and what   *)
(* ShapeInv says a request has read.                                        *)
LEMMA TypeStep ==
  ASSUME TypeOK, RowsInv, ShapeInv, [Next]_vars
  PROVE  TypeOK'
<1>0. /\ isActive \in [User -> BOOLEAN] /\ compromised \in [Device -> BOOLEAN]
      /\ session \in [Session -> SessionRow] /\ refresh \in [Token -> RefreshRow]
      /\ challenge \in [Challenge -> Device \union {None}]
      /\ req \in [Request -> RequestState]
  BY DEF TypeOK
<1>a. ASSUME NEW p \in Request, NEW r \in RequestState, NEW S \in SUBSET Session,
             KillReads(p, r, S)
      PROVE  TypeOK'
  <2>1. (IF S = {} THEN "finish" ELSE "killSessions") \in Steps
    BY DEF Steps
  <2>2. [r EXCEPT !.sids = S, !.pc = IF S = {} THEN "finish" ELSE "killSessions"] \in RequestState
    BY <2>1, RequestUpdates
  <2>3. req' \in [Request -> RequestState]
    BY <1>a, <2>2, MoveType DEF KillReads
  <2>. QED
    BY <1>0, <1>a, <2>3 DEF KillReads, TypeOK, db
<1>1. ASSUME NEW p \in Request, StartsKill(p) PROVE TypeOK'
  BY <1>1, <1>a DEF StartsKill, Active
<1>2. ASSUME NEW p \in Request, NEW d \in Device, NEW step \in {"verify", "upsert"},
             NEW c \in Challenge \union {None}, BeginCompleteLogin(p, step, d, c)
      PROVE  req' \in [Request -> RequestState]
  <2>1. PICK s \in FreeSessions, k \in FreeTokens :
          req' = [req EXCEPT ![p] = [Idle EXCEPT !.pc = step, !.op = "login", !.device = d,
                                                 !.chal = c, !.sid = s, !.tid = k]]
    BY <1>2 DEF BeginCompleteLogin
  <2>2. [Idle EXCEPT !.pc = step, !.op = "login", !.device = d,
                     !.chal = c, !.sid = s, !.tid = k] \in RequestState
    BY DEF FreeSessions, FreeTokens, Idle, Ops, Steps, RequestState
  <2>. QED
    BY <2>1, <2>2, MoveType
<1>3. ASSUME NEW p \in Request, NEW c \in Challenge, VerifyBegin(p, c) PROVE TypeOK'
  <2>1. challenge[c] \in Device
    BY <1>0, <1>3 DEF VerifyBegin
  <2>. QED
    BY <1>0, <1>2, <1>3, <2>1 DEF VerifyBegin, TypeOK, db
<1>4. ASSUME NEW p \in Request, VerifyAccept(p) PROVE TypeOK'
  <2>1. [req[p] EXCEPT !.pc = "upsert", !.chal = None] \in RequestState
    BY <1>0, RequestUpdates DEF Steps
  <2>2. req' \in [Request -> RequestState]
    <3>1. req' = [req EXCEPT ![p] = [req[p] EXCEPT !.pc = "upsert", !.chal = None]]
      BY <1>0, <1>4 DEF VerifyAccept
    <3>. QED
      BY <2>1, <3>1, MoveType
  <2>. QED
    BY <1>0, <1>4, <2>2 DEF VerifyAccept, TypeOK, db
<1>5. ASSUME NEW p \in Request, NEW a \in Session, NEW d \in Device,
             ConfirmDeviceLink(p, a, d)
      PROVE  TypeOK'
  BY <1>0, <1>2, <1>5 DEF ConfirmDeviceLink, TypeOK, db
<1>6. ASSUME NEW p \in Request, UpsertDevice(p) PROVE TypeOK'
  BY <1>0, <1>6, MoveType DEF UpsertDevice, TypeOK, Steps, db
<1>7. ASSUME NEW p \in Request, RevokeSameDevice(p) PROVE TypeOK'
  BY <1>0, <1>7, <1>a DEF RevokeSameDevice, ActiveOn, Active
<1>8. ASSUME NEW p \in Request, InsertSession(p) PROVE TypeOK'
  <2>1. /\ req[p].device \in Device /\ req[p].sid \in Session /\ req[p].tid \in Token
    BY <1>0, <1>8 DEF InsertSession, ShapeInv, Shape, RequestState
  <2>2. /\ [device |-> req[p].device, is_active |-> TRUE, token |-> req[p].tid,
             age |-> "fresh"] \in SessionRow
        /\ [session |-> req[p].sid, state |-> "live"] \in RefreshRow
    BY <2>1 DEF SessionRow, RefreshRow
  <2>3. session' \in [Session -> SessionRow] /\ refresh' \in [Token -> RefreshRow]
    BY <1>8, <2>2, KillTypes DEF InsertSession
  <2>4. req' \in [Request -> RequestState]
    BY <1>0, <1>8, MoveType DEF InsertSession
  <2>. QED
    BY <1>0, <1>8, <2>3, <2>4 DEF InsertSession, TypeOK
<1>9. ASSUME NEW p \in Request, KillSessions(p) PROVE TypeOK'
  <2>1. [req[p] EXCEPT !.pc = "killTokens", !.rows = LiveRows(req[p].sids)] \in RequestState
    BY <1>0, RequestUpdates DEF Steps, LiveRows
  <2>2. req' \in [Request -> RequestState]
    <3>1. req' = [req EXCEPT ![p] = [req[p] EXCEPT !.pc = "killTokens",
                                                   !.rows = LiveRows(req[p].sids)]]
      BY <1>9 DEF KillSessions
    <3>. QED
      BY <2>1, <3>1, MoveType
  <2>. QED
    BY <1>0, <1>9, <2>2, KillTypes DEF KillSessions, TypeOK
<1>10. ASSUME NEW p \in Request, KillTokens(p) PROVE TypeOK'
  <2>. DEFINE live == LiveRows(req[p].sids)
  <2>1. PICK late \in SUBSET {k \in live \ req[p].rows : Unlocked(k)} :
          LET dead == (req[p].rows \intersect live) \union late IN
          IF req[p].op = "reap" THEN refresh' = Revoked(dead) /\ Done(p)
          ELSE /\ req' = [req EXCEPT ![p].pc = "finish", ![p].rows = dead]
               /\ UNCHANGED refresh
    BY <1>10 DEF KillTokens
  <2>. DEFINE dead == (req[p].rows \intersect live) \union late
  <2>2. [req[p] EXCEPT !.pc = "finish", !.rows = dead] \in RequestState
    BY <1>0, RequestUpdates DEF Steps, LiveRows
  <2>3. req' \in [Request -> RequestState] /\ refresh' \in [Token -> RefreshRow]
    BY <1>0, <2>1, <2>2, MoveType, KillTypes
  <2>. QED
    BY <1>0, <1>10, <2>3 DEF KillTokens, TypeOK
<1>11. ASSUME NEW p \in Request, KillCommits(p)
       PROVE  /\ session' \in [Session -> SessionRow]
              /\ refresh' \in [Token -> RefreshRow]
              /\ req' \in [Request -> RequestState]
  BY <1>11, MoveType, KillTypes DEF KillCommits
<1>12. ASSUME NEW p \in Request, FinishRevoke(p) PROVE TypeOK'
  BY <1>0, <1>11, <1>12 DEF FinishRevoke, TypeOK
<1>13. ASSUME NEW p \in Request, FinishDevice(p) PROVE TypeOK'
  <2>1. req[p].ban \in BOOLEAN
    BY <1>0 DEF RequestState
  <2>2. compromised' \in [Device -> BOOLEAN]
    BY <1>0, <1>13, <2>1 DEF FinishDevice
  <2>. QED
    BY <1>0, <1>11, <1>13, <2>2 DEF FinishDevice, TypeOK
<1>14. ASSUME NEW p \in Request, FinishDisable(p) PROVE TypeOK'
  BY <1>0, <1>11, <1>14 DEF FinishDisable, TypeOK
<1>15. ASSUME NEW p \in Request, NEW k \in Token, RefreshBegin(p, k) PROVE TypeOK'
  <2>1. refresh[k].session \in Session
    BY <1>0, <1>15 DEF RefreshBegin, RowsInv, RefreshRow
  <2>2. PICK j \in FreeTokens :
          req' = [req EXCEPT ![p] = [Idle EXCEPT !.pc = "rotateRow", !.op = "refresh",
                    !.sids = {refresh[k].session}, !.rows = {k}, !.tid = j]]
    BY <1>15 DEF RefreshBegin
  <2>3. [Idle EXCEPT !.pc = "rotateRow", !.op = "refresh",
          !.sids = {refresh[k].session}, !.rows = {k}, !.tid = j] \in RequestState
    BY <2>1 DEF FreeTokens, Idle, Ops, Steps, RequestState
  <2>. QED
    BY <1>0, <1>15, <2>2, <2>3, MoveType DEF RefreshBegin, TypeOK, db
<1>16. ASSUME NEW p \in Request, RotateRow(p) \/ SaveSession(p) PROVE TypeOK'
  BY <1>0, <1>16, MoveType DEF RotateRow, SaveSession, Steps, TypeOK, db
<1>17. ASSUME NEW p \in Request, CommitRefresh(p) PROVE TypeOK'
  <2>1. PICK s \in Session : req[p].sids = {s}
    BY <1>17 DEF CommitRefresh, ShapeInv, Shape
  <2>2. (CHOOSE t \in req[p].sids : TRUE) \in Session /\ req[p].tid \in Token
    BY <1>0, <1>17, <2>1 DEF CommitRefresh, ShapeInv, Shape, RequestState
  <2>3. [session |-> CHOOSE t \in req[p].sids : TRUE, state |-> "live"] \in RefreshRow
    BY <2>2 DEF RefreshRow
  <2>4. session' \in [Session -> SessionRow]
    BY <1>0, <1>17, <2>2, RowUpdates DEF CommitRefresh
  <2>5. refresh' \in [Token -> RefreshRow]
    BY <1>0, <1>17, <2>3, RowUpdates DEF CommitRefresh
  <2>. QED
    BY <1>0, <1>17, <2>4, <2>5, MoveType DEF CommitRefresh, TypeOK
<1>18. ASSUME NEW p \in Request, Abort(p) PROVE TypeOK'
  BY <1>0, <1>18, MoveType DEF Abort, TypeOK, db
<1>19. ASSUME Environment PROVE TypeOK'
  <2>1. ASSUME NEW s \in Session, NEW age \in {"idle", "expired"}, Grow(s, age)
        PROVE  TypeOK'
    <3>1. [session[s] EXCEPT !.age = age] \in SessionRow
      BY <1>0, RowUpdates
    <3>. QED
      BY <1>0, <2>1, <3>1 DEF Grow, TypeOK
  <2>. QED
    BY <1>0, <1>19, <2>1 DEF Environment, Login, ClearCompromise, EnableUser,
                             SyncLdapAccount, ForgetChallenge, TypeOK, db
<1>20. CASE UNCHANGED vars
  BY <1>0, <1>20 DEF vars, db, TypeOK
<1>21. CASE Next
  BY <1>21, NextForm, <1>1, <1>3, <1>4, <1>5, <1>6, <1>7, <1>8, <1>9, <1>10, <1>12, <1>13,
     <1>14, <1>15, <1>16, <1>17, <1>18, <1>19 DEF ReqStep
<1>. QED
  BY <1>20, <1>21

-----------------------------------------------------------------------------
(* Frames: what one step leaves alone. *)

(* A step of a request moves that request only; the environment moves none. *)
LEMMA ReqFrame ==
  ASSUME TypeOK
  PROVE  /\ \A p \in Request : ReqStep(p) => \A q \in Request \ {p} : req'[q] = req[q]
         /\ Environment => req' = req
<1>1. ASSUME NEW p \in Request, ReqStep(p)
      PROVE  \A q \in Request \ {p} : req'[q] = req[q]
  <2>1. req \in [Request -> RequestState]
    BY DEF TypeOK
  <2>2. \/ \E X : req' = [req EXCEPT ![p] = X]
        \/ \E step : Goto(p, step)
        \/ Done(p)
        \/ VerifyAccept(p) \/ KillSessions(p) \/ KillTokens(p)
    BY <1>1 DEF ReqStep, StartsKill, KillReads, VerifyBegin, ConfirmDeviceLink,
                BeginCompleteLogin, UpsertDevice, RevokeSameDevice, InsertSession,
                FinishRevoke, FinishDevice, FinishDisable, KillCommits, RefreshBegin,
                RotateRow, SaveSession, CommitRefresh, Abort
  <2>. QED
    BY <2>1, <2>2 DEF Goto, Done, VerifyAccept, KillSessions, KillTokens
<1>2. Environment => req' = req
  BY DEF Environment, Login, ClearCompromise, EnableUser, SyncLdapAccount, Grow,
         ForgetChallenge
<1>. QED
  BY <1>1, <1>2

(* Outside the two commits that insert rows, no session is inserted or      *)
(* activated, no token is issued, and only existing tokens change state.    *)
QuietRows ==
  /\ \A s \in Session : /\ session'[s].device = session[s].device
                        /\ session'[s].is_active => session[s].is_active
  /\ \A k \in Token : /\ refresh'[k].session = refresh[k].session
                      /\ refresh'[k].state # "none" => refresh[k].session # None

(* Only the commits of a login and of a refresh insert rows. *)
LEMMA Quiet ==
  ASSUME TypeOK, RowsInv, ShapeInv
  PROVE  /\ \A p \in Request : ReqStep(p) => InsertSession(p) \/ CommitRefresh(p) \/ QuietRows
         /\ Environment => QuietRows
         /\ UNCHANGED vars => QuietRows
<1>0. /\ session \in [Session -> SessionRow] /\ refresh \in [Token -> RefreshRow]
      /\ req \in [Request -> RequestState]
  BY DEF TypeOK
<1>1. \A S : \A s \in Session :
        /\ Deactivated(S)[s].device = session[s].device
        /\ Deactivated(S)[s].is_active => session[s].is_active
  BY <1>0 DEF Deactivated, SessionRow
<1>2. \A R \in SUBSET Token : (\A k \in R : refresh[k].session # None) =>
        \A k \in Token : /\ Revoked(R)[k].session = refresh[k].session
                         /\ Revoked(R)[k].state # "none" => refresh[k].session # None
  BY <1>0 DEF Revoked, RefreshRow, RowsInv
<1>3. UNCHANGED <<session, refresh>> => QuietRows
  BY DEF QuietRows, RowsInv
<1>4. ASSUME NEW p \in Request
      PROVE  \A k \in req[p].rows : refresh[k].session # None
  BY <1>0, NoneAssumption DEF ShapeInv, Shape, RequestState
<1>5. ASSUME NEW p \in Request, KillSessions(p) PROVE QuietRows
  <2>1. session' = Deactivated(req[p].sids) \/ session' = session
    BY <1>5 DEF KillSessions
  <2>. QED
    BY <1>1, <1>5, <2>1 DEF KillSessions, QuietRows, RowsInv
<1>6. ASSUME NEW p \in Request, KillTokens(p) PROVE QuietRows
  <2>1. PICK late \in SUBSET {k \in LiveRows(req[p].sids) \ req[p].rows : Unlocked(k)} :
          \/ refresh' = Revoked((req[p].rows \intersect LiveRows(req[p].sids)) \union late)
          \/ refresh' = refresh
    BY <1>6 DEF KillTokens
  <2>2. \A k \in (req[p].rows \intersect LiveRows(req[p].sids)) \union late :
          refresh[k].session # None
    BY <1>0, <1>4, NoneAssumption DEF LiveRows, RowsInv
  <2>3. (req[p].rows \intersect LiveRows(req[p].sids)) \union late \in SUBSET Token
    BY DEF LiveRows
  <2>4. session' = session
    BY <1>6 DEF KillTokens
  <2>. QED
    BY <1>2, <2>1, <2>2, <2>3, <2>4 DEF QuietRows, RowsInv
<1>7. ASSUME NEW p \in Request, KillCommits(p) PROVE QuietRows
  <2>1. req[p].rows \in SUBSET Token
    BY <1>0 DEF RequestState
  <2>. QED
    BY <1>1, <1>2, <1>4, <1>7, <2>1 DEF KillCommits, QuietRows
<1>8. ASSUME NEW p \in Request, ReqStep(p), ~InsertSession(p), ~CommitRefresh(p)
      PROVE  QuietRows
  BY <1>3, <1>5, <1>6, <1>7, <1>8
     DEF ReqStep, StartsKill, KillReads, VerifyBegin, VerifyAccept, ConfirmDeviceLink,
         UpsertDevice, RevokeSameDevice, FinishRevoke, FinishDevice, FinishDisable,
         RefreshBegin, RotateRow, SaveSession, Abort, db
<1>9. ASSUME Environment PROVE QuietRows
  <2>1. ASSUME NEW s \in Session, NEW age \in {"idle", "expired"}, Grow(s, age)
        PROVE  QuietRows
    BY <1>0, <2>1 DEF Grow, QuietRows, RowsInv, SessionRow
  <2>. QED
    BY <1>3, <1>9, <2>1 DEF Environment, Login, ClearCompromise, EnableUser,
                            SyncLdapAccount, ForgetChallenge, db
<1>. QED
  BY <1>3, <1>8, <1>9 DEF vars, db

(* The two inserting commits, field by field. *)
InsertEffect(p) ==
  LET r == req[p] IN
  /\ r.device \in Device /\ r.sid \in Session /\ r.tid \in Token
  /\ session'[r.sid] = [device |-> r.device, is_active |-> TRUE, token |-> r.tid,
                        age |-> "fresh"]
  /\ refresh'[r.tid] = [session |-> r.sid, state |-> "live"]
  /\ \A s \in Session \ {r.sid} :
       /\ s \in r.sids => session'[s] = [session[s] EXCEPT !.is_active = FALSE]
       /\ s \notin r.sids => session'[s] = session[s]
  /\ \A k \in Token \ {r.tid} :
       /\ k \in r.rows => refresh'[k] = [refresh[k] EXCEPT !.state = "revoked"]
       /\ k \notin r.rows => refresh'[k] = refresh[k]

RefreshEffect(p, s) ==
  LET r == req[p] IN
  /\ r.tid \in Token
  /\ r.sids = {s}
  /\ session[s].device # None
  /\ session'[s] = SavedSession(session[s], r.tid)
  /\ refresh'[r.tid] = [session |-> s, state |-> "live"]
  /\ \A t \in Session \ {s} : session'[t] = session[t]
  /\ \A k \in Token \ {r.tid} :
       /\ k \in r.rows => refresh'[k] = [refresh[k] EXCEPT !.state = "rotated"]
       /\ k \notin r.rows => refresh'[k] = refresh[k]

(* InsertSession writes what InsertEffect says. *)
LEMMA Inserted ==
  ASSUME TypeOK, ShapeInv, NEW p \in Request, InsertSession(p)
  PROVE  InsertEffect(p)
<1>1. /\ req[p].device \in Device /\ req[p].sid \in Session /\ req[p].tid \in Token
  BY DEF InsertSession, ShapeInv, Shape, TypeOK, RequestState
<1>. QED
  BY <1>1 DEF InsertSession, InsertEffect, Deactivated, Revoked, TypeOK

(* CommitRefresh writes what RefreshEffect says, for its one session. *)
LEMMA Refreshed ==
  ASSUME TypeOK, ShapeInv, NEW p \in Request, CommitRefresh(p)
  PROVE  \E s \in Session : RefreshEffect(p, s)
<1>1. req[p].tid \in Token
  BY DEF CommitRefresh, ShapeInv, Shape, TypeOK, RequestState
<1>2. PICK s \in Session : req[p].sids = {s} /\ session[s].device # None
  BY DEF CommitRefresh, ShapeInv, Shape
<1>3. (CHOOSE t \in req[p].sids : TRUE) = s
  BY <1>2
<1>4. /\ session'[s] = SavedSession(session[s], req[p].tid)
      /\ \A t \in Session \ {s} : session'[t] = session[t]
  BY <1>2 DEF CommitRefresh
<1>5. /\ refresh'[req[p].tid] = [session |-> s, state |-> "live"]
      /\ \A k \in Token \ {req[p].tid} :
           /\ k \in req[p].rows => refresh'[k] = [refresh[k] EXCEPT !.state = "rotated"]
           /\ k \notin req[p].rows => refresh'[k] = refresh[k]
  BY <1>1, <1>3 DEF CommitRefresh
<1>. QED
  BY <1>1, <1>2, <1>4, <1>5 DEF RefreshEffect

(* Ending a row changes one column of it. *)
LEMMA EndedFields ==
  /\ \A row \in SessionRow : LET e == [row EXCEPT !.is_active = FALSE] IN
       ~e.is_active /\ e.device = row.device /\ e.token = row.token /\ e.age = row.age
  /\ \A row \in RefreshRow :
       /\ [row EXCEPT !.state = "revoked"].session = row.session
       /\ [row EXCEPT !.state = "rotated"].session = row.session
  BY DEF SessionRow, RefreshRow

(* A refresh saves the token; it neither activates the session nor takes    *)
(* it back from its absolute limit.                                         *)
LEMMA SavedFields ==
  ASSUME NEW row \in SessionRow, NEW k \in Token
  PROVE  /\ SavedSession(row, k).device = row.device
         /\ SavedSession(row, k).is_active = row.is_active
         /\ SavedSession(row, k).token = k
         /\ SavedSession(row, k).age = "expired" <=> row.age = "expired"
  BY DEF SavedSession, SessionRow

(* InsertEffect column by column. *)
LEMMA InsertFields ==
  ASSUME TypeOK, NEW p \in Request, InsertEffect(p)
  PROVE  /\ \A s \in Session \ {req[p].sid} :
              /\ session'[s].device = session[s].device
              /\ session'[s].token = session[s].token
              /\ session'[s].age = session[s].age
              /\ session'[s].is_active <=> session[s].is_active /\ s \notin req[p].sids
         /\ \A k \in Token \ {req[p].tid} :
              refresh'[k].session = refresh[k].session
         /\ session'[req[p].sid].device = req[p].device
         /\ session'[req[p].sid].token = req[p].tid
         /\ session'[req[p].sid].is_active
         /\ refresh'[req[p].tid].session = req[p].sid
         /\ refresh'[req[p].tid].state = "live"
<1>1. session \in [Session -> SessionRow] /\ refresh \in [Token -> RefreshRow]
  BY DEF TypeOK
<1>2. ASSUME NEW s \in Session \ {req[p].sid}
      PROVE  /\ session'[s].device = session[s].device
             /\ session'[s].token = session[s].token
             /\ session'[s].age = session[s].age
             /\ session'[s].is_active <=> session[s].is_active /\ s \notin req[p].sids
  <2>1. CASE s \in req[p].sids
    <3>1. session[s] \in SessionRow /\ session'[s] = [session[s] EXCEPT !.is_active = FALSE]
      BY <1>1, <2>1 DEF InsertEffect
    <3>. QED
      BY <2>1, <3>1, EndedFields
  <2>2. CASE s \notin req[p].sids
    BY <2>2 DEF InsertEffect
  <2>. QED
    BY <2>1, <2>2
<1>3. \A k \in Token \ {req[p].tid} : refresh'[k].session = refresh[k].session
  <2>. TAKE k \in Token \ {req[p].tid}
  <2>1. refresh[k] \in RefreshRow
    BY <1>1
  <2>. QED
    BY <2>1, EndedFields DEF InsertEffect
<1>. QED
  BY <1>2, <1>3 DEF InsertEffect

(* Every step keeps the foreign keys. *)
LEMMA RowsStep ==
  ASSUME TypeOK, RowsInv, ShapeInv, [Next]_vars
  PROVE  RowsInv'
<1>0. /\ session \in [Session -> SessionRow] /\ refresh \in [Token -> RefreshRow]
      /\ req \in [Request -> RequestState]
      /\ refresh' \in [Token -> RefreshRow]
  BY TypeStep DEF TypeOK
<1>1. CASE QuietRows
  <2>1. \A k \in Token : refresh'[k].session # None =>
                           refresh[k].session \in Session
    BY <1>0, <1>1 DEF QuietRows, RefreshRow
  <2>. QED
    BY <1>1, <2>1 DEF QuietRows, RowsInv
<1>2. ASSUME NEW p \in Request, InsertSession(p) PROVE RowsInv'
  <2>0. InsertEffect(p)
    BY <1>2, Inserted
  <2>1. \A s \in Session : /\ session[s].device # None => session'[s].device # None
                           /\ session'[s].device = None => ~session'[s].is_active
    <3>1. req[p].device # None /\ req[p].sid \in Session
      BY <2>0, NoneAssumption DEF InsertEffect
    <3>. QED
      BY <2>0, <3>1, InsertFields DEF RowsInv
  <2>2. \A k \in Token \ {req[p].tid} :
          /\ refresh'[k].session = refresh[k].session
          /\ k \in req[p].rows => refresh[k].session # None
          /\ k \notin req[p].rows => refresh'[k].state = refresh[k].state
    BY <1>0, <2>0, NoneAssumption
       DEF InsertEffect, RefreshRow, ShapeInv, Shape, RequestState
  <2>3. /\ refresh'[req[p].tid].session = req[p].sid
        /\ req[p].sid # None /\ session'[req[p].sid].device # None
    BY <2>0, NoneAssumption DEF InsertEffect
  <2>4. \A k \in Token : refresh[k].session # None => refresh[k].session \in Session
    BY <1>0 DEF RefreshRow
  <2>. QED
    BY <2>1, <2>2, <2>3, <2>4 DEF RowsInv
<1>3. ASSUME NEW p \in Request, CommitRefresh(p) PROVE RowsInv'
  <2>0. PICK s \in Session : RefreshEffect(p, s)
    BY <1>3, Refreshed
  <2>1. \A t \in Session : /\ session'[t].device = session[t].device
                           /\ session'[t].is_active = session[t].is_active
    BY <1>0, <2>0, SavedFields DEF RefreshEffect
  <2>2. \A k \in Token \ {req[p].tid} :
          /\ refresh'[k].session = refresh[k].session
          /\ k \in req[p].rows => refresh[k].session # None
          /\ k \notin req[p].rows => refresh'[k].state = refresh[k].state
    BY <1>0, <2>0, NoneAssumption
       DEF RefreshEffect, RefreshRow, ShapeInv, Shape, RequestState
  <2>3. /\ refresh'[req[p].tid].session \in Session
        /\ session[refresh'[req[p].tid].session].device # None
    BY <2>0 DEF RefreshEffect
  <2>4. \A k \in Token : refresh[k].session # None => refresh[k].session \in Session
    BY <1>0 DEF RefreshRow
  <2>. QED
    BY <2>1, <2>2, <2>3, <2>4, NoneAssumption DEF RowsInv
<1>. QED
  BY <1>1, <1>2, <1>3, Quiet, NextForm

-----------------------------------------------------------------------------
(* Keys.  Two requests never hold the same one: it is drawn among those no  *)
(* row and no request has.                                                  *)

(* How a step changes the keys of its request. *)
KeysOf(p, sid, tid) == req'[p].sid = sid /\ req'[p].tid = tid

(* A request keeps its keys, gives them up, or draws fresh ones. *)
LEMMA KeysMove ==
  ASSUME TypeOK, NEW p \in Request, ReqStep(p)
  PROVE  \/ KeysOf(p, req[p].sid, req[p].tid)
         \/ KeysOf(p, None, None)
         \/ \E s \in FreeSessions, k \in FreeTokens :
              KeysOf(p, s, k) /\ UNCHANGED <<session, refresh>>
         \/ \E k \in FreeTokens : KeysOf(p, None, k) /\ UNCHANGED <<session, refresh>>
<1>0. req \in [Request -> RequestState] /\ req[p] \in RequestState
  BY DEF TypeOK
<1>1. Idle \in RequestState /\ Idle.sid = None /\ Idle.tid = None
  BY IdleType DEF Idle
<1>2. Done(p) => KeysOf(p, None, None)
  BY <1>0, <1>1 DEF Done, KeysOf
<1>3. \A step : Goto(p, step) => KeysOf(p, req[p].sid, req[p].tid)
  BY <1>0 DEF Goto, KeysOf, RequestState
<1>4. StartsKill(p) => KeysOf(p, None, None)
  BY <1>0 DEF StartsKill, KillReads, KeysOf, RequestState
<1>5. ASSUME NEW d, NEW c, NEW step, BeginCompleteLogin(p, step, d, c)
      PROVE  \E s \in FreeSessions, k \in FreeTokens : KeysOf(p, s, k)
  BY <1>0, <1>5 DEF BeginCompleteLogin, KeysOf, Idle
<1>6. \A k \in Token : RefreshBegin(p, k) =>
        \E j \in FreeTokens : KeysOf(p, None, j) /\ UNCHANGED <<session, refresh>>
  BY <1>0 DEF RefreshBegin, KeysOf, Idle, db
<1>7. /\ VerifyAccept(p) => KeysOf(p, req[p].sid, req[p].tid)
      /\ KillSessions(p) => KeysOf(p, req[p].sid, req[p].tid)
      /\ RevokeSameDevice(p) => KeysOf(p, req[p].sid, req[p].tid)
  <2>1. VerifyAccept(p) => KeysOf(p, req[p].sid, req[p].tid)
    BY <1>0 DEF VerifyAccept, KeysOf, RequestState
  <2>2. KillSessions(p) => KeysOf(p, req[p].sid, req[p].tid)
    BY <1>0 DEF KillSessions, KeysOf, RequestState
  <2>3. RevokeSameDevice(p) => KeysOf(p, req[p].sid, req[p].tid)
    BY <1>0 DEF RevokeSameDevice, KillReads, KeysOf, RequestState
  <2>. QED
    BY <2>1, <2>2, <2>3
<1>8. KillTokens(p) => KeysOf(p, req[p].sid, req[p].tid) \/ KeysOf(p, None, None)
  BY <1>0, <1>2 DEF KillTokens, KeysOf, RequestState
<1>. QED
  BY <1>2, <1>3, <1>4, <1>5, <1>6, <1>7, <1>8
     DEF ReqStep, VerifyBegin, ConfirmDeviceLink, UpsertDevice, InsertSession, FinishRevoke,
         FinishDevice, FinishDisable, KillCommits, RotateRow, SaveSession, CommitRefresh,
         Abort, db

(* Every step keeps the keys apart. *)
LEMMA KeysStep ==
  ASSUME TypeOK, RowsInv, ShapeInv, KeysInv, [Next]_vars
  PROVE  KeysInv'
<1>0. req \in [Request -> RequestState] /\ TypeOK'
  BY TypeStep DEF TypeOK
<1>1. ASSUME req' = req, QuietRows PROVE KeysInv'
  BY <1>0, <1>1 DEF KeysInv, QuietRows, RequestState
<1>2. ASSUME NEW p \in Request, ReqStep(p) PROVE KeysInv'
  <2>1. \A q \in Request \ {p} : req'[q] = req[q]
    BY <1>2, ReqFrame
  <2>2. \A q \in Request : /\ req[q].sid \in Session \union {None}
                           /\ req[q].tid \in Token \union {None}
    BY <1>0 DEF RequestState
  <2>3. CASE UNCHANGED <<session, refresh>>
    <3>1. CASE KeysOf(p, req[p].sid, req[p].tid) \/ KeysOf(p, None, None)
      BY <2>1, <2>3, <3>1 DEF KeysOf, KeysInv
    <3>2. ASSUME NEW s \in FreeSessions, NEW k \in FreeTokens, KeysOf(p, s, k)
          PROVE  KeysInv'
      BY <2>1, <2>3, <3>2 DEF KeysOf, KeysInv, FreeSessions, FreeTokens
    <3>3. ASSUME NEW k \in FreeTokens, KeysOf(p, None, k)
          PROVE  KeysInv'
      BY <2>1, <2>3, <3>3 DEF KeysOf, KeysInv, FreeTokens
    <3>. QED
      BY <1>2, <3>1, <3>2, <3>3, KeysMove
  <2>4. CASE QuietRows /\ ~UNCHANGED <<session, refresh>>
    <3>1. KeysOf(p, req[p].sid, req[p].tid) \/ KeysOf(p, None, None)
      BY <1>2, <2>4, KeysMove
    <3>. QED
      BY <2>1, <2>2, <2>4, <3>1 DEF KeysOf, KeysInv, QuietRows
  <2>5. CASE InsertSession(p)
    <3>1. InsertEffect(p) /\ KeysOf(p, None, None)
      <4>1. Idle \in RequestState /\ Idle.sid = None /\ Idle.tid = None
        BY IdleType DEF Idle
      <4>. QED
        BY <1>0, <2>5, <4>1, Inserted DEF InsertSession, Done, KeysOf
    <3>2. req[p].sid # None /\ req[p].tid # None
      BY <3>1, NoneAssumption DEF InsertEffect
    <3>. QED
      BY <2>1, <2>2, <3>1, <3>2, InsertFields DEF KeysOf, KeysInv
  <2>6. CASE CommitRefresh(p)
    <3>1. PICK s \in Session : RefreshEffect(p, s)
      BY <2>6, Refreshed
    <3>2. KeysOf(p, None, None)
      <4>1. Idle \in RequestState /\ Idle.sid = None /\ Idle.tid = None
        BY IdleType DEF Idle
      <4>. QED
        BY <1>0, <2>6, <4>1 DEF CommitRefresh, Done, KeysOf
    <3>3. /\ \A t \in Session : session'[t].device = session[t].device
          /\ req[p].tid # None
      BY <3>1, SavedFields, NoneAssumption DEF RefreshEffect, TypeOK
    <3>4. ASSUME NEW k \in Token \ {req[p].tid}
          PROVE  refresh'[k].session = refresh[k].session
      BY <3>1, EndedFields DEF RefreshEffect, TypeOK
    <3>. QED
      BY <2>1, <2>2, <3>2, <3>3, <3>4 DEF KeysOf, KeysInv
  <2>. QED
    BY <1>2, <2>3, <2>4, <2>5, <2>6, Quiet
<1>3. CASE UNCHANGED vars
  BY <1>1, <1>3, Quiet DEF vars
<1>. QED
  BY <1>1, <1>2, <1>3, NextForm, Quiet, ReqFrame

-----------------------------------------------------------------------------
(* Shapes.  Rows never lose what a request has read of them. *)

(* An existing session keeps its device and is never activated; an issued   *)
(* token keeps its session.                                                 *)
RowsKept ==
  /\ \A s \in Session : session[s].device # None =>
       /\ session'[s].device = session[s].device
       /\ session'[s].is_active => session[s].is_active
  /\ \A k \in Token : refresh[k].session # None => refresh'[k].session = refresh[k].session

(* Every step keeps RowsKept: primary keys are fresh when they are inserted. *)
LEMMA Kept ==
  ASSUME TypeOK, RowsInv, ShapeInv, KeysInv, [Next]_vars
  PROVE  RowsKept
<1>1. CASE QuietRows
  BY <1>1 DEF QuietRows, RowsKept
<1>2. ASSUME NEW p \in Request, InsertSession(p) PROVE RowsKept
  <2>1. InsertEffect(p)
    BY <1>2, Inserted
  <2>2. session[req[p].sid].device = None /\ refresh[req[p].tid].session = None
    BY <2>1, NoneAssumption DEF InsertEffect, KeysInv
  <2>. QED
    BY <2>1, <2>2, InsertFields DEF RowsKept
<1>3. ASSUME NEW p \in Request, CommitRefresh(p) PROVE RowsKept
  <2>1. PICK s \in Session : RefreshEffect(p, s)
    BY <1>3, Refreshed
  <2>2. refresh[req[p].tid].session = None
    BY <2>1, NoneAssumption DEF RefreshEffect, KeysInv
  <2>3. \A t \in Session : /\ session'[t].device = session[t].device
                           /\ session'[t].is_active = session[t].is_active
    BY <2>1, SavedFields DEF RefreshEffect, TypeOK
  <2>4. ASSUME NEW k \in Token \ {req[p].tid}
        PROVE  refresh'[k].session = refresh[k].session
    BY <2>1, EndedFields DEF RefreshEffect, TypeOK
  <2>. QED
    BY <2>2, <2>3, <2>4 DEF RowsKept
<1>. QED
  BY <1>1, <1>2, <1>3, NextForm, Quiet

(* What a request has read stays true while another one moves. *)
LEMMA ShapeKept ==
  ASSUME TypeOK, RowsKept, NEW q \in Request, Shape(q), req'[q] = req[q]
  PROVE  Shape(q)'
<1>1. /\ req[q].sids \in SUBSET Session /\ req[q].rows \in SUBSET Token
  BY DEF TypeOK, RequestState
<1>2. \A s \in req[q].sids : /\ session'[s].device # None
                             /\ session'[s].device = session[s].device
                             /\ session'[s].is_active => session[s].is_active
  BY <1>1 DEF Shape, RowsKept
<1>3. \A k \in req[q].rows : refresh'[k].session \in req[q].sids
  BY <1>1, NoneAssumption DEF Shape, RowsKept
<1>. QED
  BY <1>2, <1>3 DEF Shape

(* A request that ends leaves nothing read. *)
LEMMA IdleShape == ASSUME NEW p \in Request, req'[p] = Idle PROVE Shape(p)'
  BY DEF Shape, Idle, LoginSteps, RefreshSteps

(* An active session has a row. *)
LEMMA ActiveRows ==
  ASSUME RowsInv PROVE \A s \in Active : session[s].device # None
  BY DEF RowsInv, Active

(* A request that moves has the shape of its next position. *)
LEMMA ShapeMoved ==
  ASSUME TypeOK, RowsInv, ShapeInv, KeysInv, RowsKept, NEW p \in Request, ReqStep(p)
  PROVE  Shape(p)'
<1>0. /\ req \in [Request -> RequestState] /\ req[p] \in RequestState
      /\ session \in [Session -> SessionRow] /\ refresh \in [Token -> RefreshRow]
      /\ challenge \in [Challenge -> Device \union {None}]
      /\ Shape(p)
  BY DEF TypeOK, ShapeInv
<1>d. Done(p) => Shape(p)'
  BY <1>0, IdleShape DEF Done
<1>s. USE DEF LoginSteps, RefreshSteps
<1>1. CASE StartsKill(p)
  <2>1. PICK r \in RequestState, S \in SUBSET Active :
          /\ r.rows = {} /\ r.sid = None /\ r.tid = None
          /\ r.op \in {"revoke", "device", "disable", "reap"}
          /\ r.op = "device" => r.device # None
          /\ r.op = "disable" => r.user # None
          /\ r.op = "reap" => S # {}
          /\ KillReads(p, r, S)
    BY <1>1 DEF StartsKill
  <2>2. req'[p] = [r EXCEPT !.sids = S, !.pc = IF S = {} THEN "finish" ELSE "killSessions"]
    BY <1>0, <2>1 DEF KillReads
  <2>3. /\ req'[p].pc = IF S = {} THEN "finish" ELSE "killSessions"
        /\ req'[p].op = r.op /\ req'[p].sids = S /\ req'[p].rows = {}
        /\ req'[p].device = r.device /\ req'[p].user = r.user
    BY <2>1, <2>2 DEF RequestState
  <2>4. session' = session
    BY <2>1 DEF KillReads, db
  <2>. QED
    BY <2>1, <2>3, <2>4, ActiveRows DEF Shape
<1>2. ASSUME NEW d \in Device, NEW c \in Challenge \union {None},
             NEW step \in {"verify", "upsert"}, step = "verify" => c # None,
             BeginCompleteLogin(p, step, d, c)
      PROVE  Shape(p)'
  <2>1. PICK s \in FreeSessions, k \in FreeTokens :
          req'[p] = [Idle EXCEPT !.pc = step, !.op = "login", !.device = d,
                                 !.chal = c, !.sid = s, !.tid = k]
    BY <1>0, <1>2 DEF BeginCompleteLogin
  <2>2. d # None /\ s # None /\ k # None
    BY NoneAssumption DEF FreeSessions, FreeTokens
  <2>3. /\ req'[p].pc = step /\ req'[p].op = "login" /\ req'[p].device = d
        /\ req'[p].chal = c /\ req'[p].sid = s /\ req'[p].tid = k
        /\ req'[p].sids = {} /\ req'[p].rows = {}
    BY <2>1 DEF Idle
  <2>. QED
    BY <1>2, <2>2, <2>3 DEF Shape
<1>3. ASSUME NEW c \in Challenge, VerifyBegin(p, c) PROVE Shape(p)'
  BY <1>0, <1>2, <1>3, NoneAssumption DEF VerifyBegin
<1>4. CASE VerifyAccept(p)
  <2>1. req'[p] = [req[p] EXCEPT !.pc = "upsert", !.chal = None]
    BY <1>0, <1>4 DEF VerifyAccept
  <2>2. /\ req'[p].pc = "upsert" /\ req'[p].op = req[p].op /\ req'[p].device = req[p].device
        /\ req'[p].sid = req[p].sid /\ req'[p].tid = req[p].tid
        /\ req'[p].sids = req[p].sids /\ req'[p].rows = req[p].rows
    BY <1>0, <2>1 DEF RequestState
  <2>3. session' = session /\ refresh' = refresh
    BY <1>4 DEF VerifyAccept, db
  <2>. QED
    BY <1>0, <1>4, <2>2, <2>3 DEF Shape, VerifyAccept
<1>5. ASSUME NEW a \in Session, NEW d \in Device, ConfirmDeviceLink(p, a, d)
      PROVE  Shape(p)'
  BY <1>2, <1>5 DEF ConfirmDeviceLink
<1>6. ASSUME NEW step \in {"revoke", "saveSession", "finish"}, Goto(p, step),
             session' = session, refresh' = refresh,
             \/ req[p].pc = "upsert" /\ step = "revoke"
             \/ req[p].pc = "rotateRow" /\ step = "saveSession"
             \/ req[p].pc = "saveSession" /\ step = "finish"
      PROVE  Shape(p)'
  <2>1. req'[p] = [req[p] EXCEPT !.pc = step]
    BY <1>0, <1>6 DEF Goto
  <2>2. /\ req'[p].pc = step /\ req'[p].op = req[p].op /\ req'[p].device = req[p].device
        /\ req'[p].sid = req[p].sid /\ req'[p].tid = req[p].tid
        /\ req'[p].sids = req[p].sids /\ req'[p].rows = req[p].rows
        /\ req'[p].user = req[p].user
    BY <1>0, <2>1 DEF RequestState
  <2>. QED
    BY <1>0, <1>6, <2>2 DEF Shape
<1>7. CASE RevokeSameDevice(p)
  <2>. DEFINE S == ActiveOn(req[p].device)
  <2>1. req'[p] = [req[p] EXCEPT !.sids = S,
                                 !.pc = IF S = {} THEN "finish" ELSE "killSessions"]
    BY <1>0, <1>7 DEF RevokeSameDevice, KillReads
  <2>2. /\ req'[p].pc = IF S = {} THEN "finish" ELSE "killSessions"
        /\ req'[p].op = req[p].op /\ req'[p].device = req[p].device
        /\ req'[p].sid = req[p].sid /\ req'[p].tid = req[p].tid
        /\ req'[p].sids = S /\ req'[p].rows = req[p].rows
    BY <1>0, <2>1 DEF RequestState
  <2>3. session' = session /\ req[p].op = "login" /\ S \subseteq Active
    BY <1>0, <1>7 DEF RevokeSameDevice, KillReads, ActiveOn, Shape, db
  <2>4. req[p].rows = {}
    BY <1>0, <1>7 DEF RevokeSameDevice, Shape
  <2>5. \A s \in S : session[s].device = req[p].device
    BY DEF ActiveOn
  <2>. QED
    BY <1>0, <2>2, <2>3, <2>4, <2>5, ActiveRows DEF Shape
<1>8. CASE KillSessions(p)
  <2>1. req'[p] = [req[p] EXCEPT !.pc = "killTokens", !.rows = LiveRows(req[p].sids)]
    BY <1>0, <1>8 DEF KillSessions
  <2>2. /\ req'[p].pc = "killTokens" /\ req'[p].op = req[p].op
        /\ req'[p].device = req[p].device
        /\ req'[p].sid = req[p].sid /\ req'[p].tid = req[p].tid
        /\ req'[p].sids = req[p].sids /\ req'[p].rows = LiveRows(req[p].sids)
        /\ req'[p].user = req[p].user
    BY <1>0, <2>1 DEF RequestState
  <2>3. \A s \in req[p].sids : /\ session'[s].device # None
                               /\ session'[s].device = session[s].device
    BY <1>0 DEF Shape, RowsKept, RequestState
  <2>4. refresh' = refresh
    BY <1>8 DEF KillSessions
  <2>5. req[p].op = "reap" => \A s \in req[p].sids : ~session'[s].is_active
    <3>. SUFFICES ASSUME req[p].op = "reap", NEW s \in req[p].sids
                  PROVE  ~session'[s].is_active
      OBVIOUS
    <3>1. s \in Session /\ session'[s] = [session[s] EXCEPT !.is_active = FALSE]
      BY <1>0, <1>8 DEF KillSessions, Deactivated, RequestState
    <3>. QED
      BY <1>0, <3>1, EndedFields
  <2>6. req[p].op # "none" /\ req[p].op # "refresh"
    BY <1>0, <1>8 DEF KillSessions, Shape
  <2>. QED
    BY <1>0, <2>2, <2>3, <2>4, <2>5, <2>6 DEF Shape, LiveRows
<1>9. CASE KillTokens(p)
  <2>. DEFINE live == LiveRows(req[p].sids)
  <2>1. PICK late \in SUBSET {k \in live \ req[p].rows : Unlocked(k)} :
          LET dead == (req[p].rows \intersect live) \union late IN
          IF req[p].op = "reap" THEN refresh' = Revoked(dead) /\ Done(p)
          ELSE /\ req' = [req EXCEPT ![p].pc = "finish", ![p].rows = dead]
               /\ UNCHANGED refresh
    BY <1>9 DEF KillTokens
  <2>2. CASE req[p].op = "reap"
    BY <1>d, <2>1, <2>2
  <2>3. CASE req[p].op # "reap"
    <3>. DEFINE dead == (req[p].rows \intersect live) \union late
    <3>1. req'[p] = [req[p] EXCEPT !.pc = "finish", !.rows = dead]
      BY <1>0, <2>1, <2>3
    <3>2. /\ req'[p].pc = "finish" /\ req'[p].op = req[p].op
          /\ req'[p].device = req[p].device
          /\ req'[p].sid = req[p].sid /\ req'[p].tid = req[p].tid
          /\ req'[p].sids = req[p].sids /\ req'[p].rows = dead
          /\ req'[p].user = req[p].user
      BY <1>0, <3>1 DEF RequestState
    <3>3. session' = session /\ refresh' = refresh /\ req[p].pc = "killTokens"
      BY <1>9, <2>1, <2>3 DEF KillTokens
    <3>4. \A k \in dead : refresh[k].session \in req[p].sids
      BY DEF LiveRows
    <3>. QED
      BY <1>0, <2>3, <3>2, <3>3, <3>4 DEF Shape
  <2>. QED
    BY <2>2, <2>3
<1>10. ASSUME NEW k \in Token, RefreshBegin(p, k) PROVE Shape(p)'
  <2>. DEFINE s == refresh[k].session
  <2>1. PICK j \in FreeTokens :
          req'[p] = [Idle EXCEPT !.pc = "rotateRow", !.op = "refresh",
                                 !.sids = {s}, !.rows = {k}, !.tid = j]
    BY <1>0, <1>10 DEF RefreshBegin
  <2>2. /\ req'[p].pc = "rotateRow" /\ req'[p].op = "refresh"
        /\ req'[p].sids = {s} /\ req'[p].rows = {k} /\ req'[p].tid = j
    BY <2>1 DEF Idle
  <2>3. s \in Session /\ session[s].device # None
    BY <1>0, <1>10 DEF RefreshBegin, RowsInv, RefreshRow
  <2>4. session' = session /\ refresh' = refresh /\ j # None
    BY <1>10, NoneAssumption DEF RefreshBegin, FreeTokens, db
  <2>. QED
    BY <2>2, <2>3, <2>4 DEF Shape
<1>11. (UpsertDevice(p) \/ RotateRow(p) \/ SaveSession(p)) => Shape(p)'
  BY <1>d, <1>6 DEF UpsertDevice, RotateRow, SaveSession, db
<1>12. (InsertSession(p) \/ FinishRevoke(p) \/ FinishDevice(p) \/ FinishDisable(p)
          \/ CommitRefresh(p) \/ Abort(p)) => Shape(p)'
  BY <1>d DEF InsertSession, FinishRevoke, FinishDevice, FinishDisable, KillCommits,
              CommitRefresh, Abort
<1>. QED
  BY <1>1, <1>3, <1>4, <1>5, <1>7, <1>8, <1>9, <1>10, <1>11, <1>12 DEF ReqStep

(* Every step keeps ShapeInv. *)
LEMMA ShapeStep ==
  ASSUME TypeOK, RowsInv, ShapeInv, KeysInv, [Next]_vars
  PROVE  ShapeInv'
<1>0. RowsKept
  BY Kept
<1>1. ASSUME NEW p \in Request, ReqStep(p) PROVE ShapeInv'
  <2>1. Shape(p)'
    BY <1>0, <1>1, ShapeMoved
  <2>2. \A q \in Request \ {p} : Shape(q)'
    BY <1>0, <1>1, ReqFrame, ShapeKept DEF ShapeInv
  <2>. QED
    BY <2>1, <2>2 DEF ShapeInv
<1>2. req' = req => ShapeInv'
  BY <1>0, ShapeKept DEF ShapeInv
<1>. QED
  BY <1>1, <1>2, NextForm, ReqFrame DEF vars

-----------------------------------------------------------------------------
(* The device lock. *)

(* A login past its upsert holds the lock of its device row. *)
LEMMA LockIsHeld ==
  ASSUME NEW p \in Request, HoldsDevice(p)
  PROVE  req[p].device \in Held(p)
  BY DEF HoldsDevice, Held

(* How a step changes a login's hold on its device. *)
LEMMA HoldMoved ==
  ASSUME TypeOK, ShapeInv, NEW p \in Request, ReqStep(p), HoldsDevice(p)'
  PROVE  \/ /\ UpsertDevice(p) /\ ~compromised[req[p].device]
            /\ req'[p].device = req[p].device /\ req'[p].pc = "revoke"
         \/ /\ RevokeSameDevice(p) /\ HoldsDevice(p)
            /\ req'[p].device = req[p].device /\ req'[p].sids = ActiveOn(req[p].device)
         \/ /\ KillSessions(p) \/ KillTokens(p)
            /\ HoldsDevice(p) /\ req[p].pc # "revoke" /\ req[p].op = "login"
            /\ req'[p].device = req[p].device /\ req'[p].sids = req[p].sids
<1>0. /\ req \in [Request -> RequestState] /\ req[p] \in RequestState /\ Shape(p)
  BY DEF TypeOK, ShapeInv
<1>1. ~Done(p)
  <2>1. Idle.op = "none"
    BY DEF Idle
  <2>. QED
    BY <1>0, <2>1 DEF Done, HoldsDevice
<1>2. CASE UpsertDevice(p)
  <2>1. req'[p] = [req[p] EXCEPT !.pc = "revoke"] /\ ~compromised[req[p].device]
    BY <1>0, <1>1, <1>2 DEF UpsertDevice, Goto
  <2>. QED
    BY <1>0, <1>2, <2>1 DEF RequestState
<1>3. CASE RevokeSameDevice(p)
  <2>. DEFINE S == ActiveOn(req[p].device)
  <2>1. req'[p] = [req[p] EXCEPT !.sids = S,
                                 !.pc = IF S = {} THEN "finish" ELSE "killSessions"]
    BY <1>0, <1>3 DEF RevokeSameDevice, KillReads
  <2>2. req'[p].device = req[p].device /\ req'[p].sids = S /\ req'[p].op = req[p].op
    BY <1>0, <2>1 DEF RequestState
  <2>3. req[p].pc = "revoke"
    BY <1>3 DEF RevokeSameDevice
  <2>. QED
    BY <1>3, <2>2, <2>3 DEF HoldsDevice
<1>4. CASE KillSessions(p)
  <2>1. req'[p] = [req[p] EXCEPT !.pc = "killTokens", !.rows = LiveRows(req[p].sids)]
    BY <1>0, <1>4 DEF KillSessions
  <2>2. /\ req'[p].device = req[p].device /\ req'[p].sids = req[p].sids
        /\ req'[p].op = req[p].op
    BY <1>0, <2>1 DEF RequestState
  <2>. QED
    BY <1>4, <2>2 DEF HoldsDevice, KillSessions
<1>5. CASE KillTokens(p)
  <2>1. PICK R : req' = [req EXCEPT ![p].pc = "finish", ![p].rows = R]
    BY <1>1, <1>5 DEF KillTokens
  <2>2. req'[p] = [req[p] EXCEPT !.pc = "finish", !.rows = R]
    BY <1>0, <2>1
  <2>3. /\ req'[p].device = req[p].device /\ req'[p].sids = req[p].sids
        /\ req'[p].op = req[p].op
    BY <1>0, <2>2 DEF RequestState
  <2>. QED
    BY <1>5, <2>3 DEF HoldsDevice, KillTokens
<1>6. CASE StartsKill(p)
  <2>1. req'[p].op # "login"
    BY <1>0, <1>6 DEF StartsKill, KillReads, RequestState
  <2>. QED
    BY <2>1 DEF HoldsDevice
<1>7. ASSUME NEW d, NEW c, NEW step \in {"verify", "upsert"}, BeginCompleteLogin(p, step, d, c)
      PROVE  FALSE
  <2>1. req'[p].pc = step
    BY <1>0, <1>7 DEF BeginCompleteLogin, Idle
  <2>. QED
    BY <2>1 DEF HoldsDevice
<1>8. CASE VerifyAccept(p)
  <2>1. req'[p] = [req[p] EXCEPT !.pc = "upsert", !.chal = None]
    BY <1>0, <1>8 DEF VerifyAccept
  <2>. QED
    BY <1>0, <2>1 DEF HoldsDevice, RequestState
<1>9. ASSUME NEW k \in Token, RefreshBegin(p, k) PROVE FALSE
  <2>1. req'[p].op = "refresh"
    BY <1>0, <1>9 DEF RefreshBegin, Idle
  <2>. QED
    BY <2>1 DEF HoldsDevice
<1>10. CASE RotateRow(p) \/ SaveSession(p)
  <2>1. req'[p].op = req[p].op /\ req[p].op = "refresh"
    BY <1>0, <1>10 DEF RotateRow, SaveSession, Goto, Shape, RefreshSteps, RequestState
  <2>. QED
    BY <2>1 DEF HoldsDevice
<1>. QED
  BY <1>1, <1>2, <1>3, <1>4, <1>5, <1>6, <1>7, <1>8, <1>9, <1>10
     DEF ReqStep, VerifyBegin, ConfirmDeviceLink, InsertSession, FinishRevoke, FinishDevice,
         FinishDisable, KillCommits, CommitRefresh, Abort

(* A device held by a login is not banned by another request. *)
LEMMA BanWaits ==
  ASSUME TypeOK, RowsInv, [Next]_vars, NEW q \in Request, HoldsDevice(q),
         ~compromised[req[q].device]
  PROVE  ~compromised'[req[q].device]
<1>1. ASSUME NEW p \in Request, FinishDevice(p) PROVE ~compromised'[req[q].device]
  <2>1. CASE p = q
    BY <1>1, <2>1 DEF FinishDevice, HoldsDevice
  <2>2. CASE p # q
    <3>1. req[p].device \notin Held(q)
      BY <1>1, <2>2 DEF FinishDevice, Granted, WaitsFor, Wanted
    <3>. QED
      BY <1>1, <3>1, LockIsHeld DEF FinishDevice, TypeOK
  <2>. QED
    BY <2>1, <2>2
<1>2. \A d \in Device : ClearCompromise(d) => ~compromised'[req[q].device]
  BY DEF ClearCompromise, TypeOK
<1>3. (\A p \in Request : ~FinishDevice(p)) /\ (\A d \in Device : ~ClearCompromise(d))
        => compromised' = compromised
  <2>1. ASSUME NEW p \in Request, ReqStep(p), ~FinishDevice(p)
        PROVE  compromised' = compromised
    BY <2>1
       DEF ReqStep, StartsKill, KillReads, VerifyBegin, VerifyAccept, ConfirmDeviceLink,
           UpsertDevice, RevokeSameDevice, InsertSession, KillSessions, KillTokens,
           FinishRevoke, FinishDisable, RefreshBegin, RotateRow, SaveSession, CommitRefresh,
           Abort, db
  <2>2. ASSUME Environment, \A d \in Device : ~ClearCompromise(d)
        PROVE  compromised' = compromised
    BY <2>2 DEF Environment, Login, EnableUser, SyncLdapAccount, Grow, ForgetChallenge, db
  <2>3. CASE UNCHANGED vars
    BY <2>3 DEF vars, db
  <2>4. CASE Next
    BY <2>1, <2>2, <2>4, NextForm
  <2>. QED
    BY <2>3, <2>4
<1>. QED
  BY <1>1, <1>2, <1>3

(* A session becomes active only by InsertSession, on the device its        *)
(* request holds.                                                           *)
LEMMA ActiveOnKept ==
  ASSUME TypeOK, RowsInv, ShapeInv, KeysInv, [Next]_vars, NEW d \in Device,
         \A p \in Request : InsertSession(p) => req[p].device # d
  PROVE  ActiveOn(d)' \subseteq ActiveOn(d)
<1>. SUFFICES ASSUME NEW s \in Session, session'[s].is_active, session'[s].device = d
              PROVE  session[s].is_active /\ session[s].device = d
  BY DEF ActiveOn, Active
<1>1. CASE QuietRows
  BY <1>1 DEF QuietRows
<1>2. ASSUME NEW p \in Request, InsertSession(p)
      PROVE  session[s].is_active /\ session[s].device = d
  <2>1. InsertEffect(p)
    BY <1>2, Inserted
  <2>. QED
    BY <1>2, <2>1, InsertFields
<1>3. ASSUME NEW p \in Request, CommitRefresh(p)
      PROVE  session[s].is_active /\ session[s].device = d
  <2>1. PICK t \in Session : RefreshEffect(p, t)
    BY <1>3, Refreshed
  <2>. QED
    BY <2>1, SavedFields DEF RefreshEffect, TypeOK
<1>. QED
  BY <1>1, <1>2, <1>3, NextForm, Quiet

(* The commit of a login still holds its device. *)
LEMMA InsertHolds ==
  ASSUME NEW p \in Request, InsertSession(p)
  PROVE  HoldsDevice(p) /\ req[p].pc # "revoke"
  BY DEF InsertSession, HoldsDevice

(* What LockInv says of one request. *)
Locked(p) ==
  /\ \A q \in Request : HoldsDevice(q) /\ req[q].device = req[p].device => q = p
  /\ ~compromised[req[p].device]
  /\ req[p].pc # "revoke" => ActiveOn(req[p].device) \subseteq req[p].sids

(* A request that kept its device, and whose lock nobody else took. *)
LEMMA LockKept ==
  ASSUME TypeOK, RowsInv, ShapeInv, KeysInv, LockInv, [Next]_vars,
         NEW p \in Request, HoldsDevice(p), ~InsertSession(p),
         req'[p].device = req[p].device, req'[p].sids = req[p].sids,
         req[p].pc # "revoke" \/ req'[p].pc = "revoke",
         \A q \in Request : HoldsDevice(q)' =>
           \/ HoldsDevice(q) /\ req'[q].device = req[q].device
           \/ req'[q].device # req[p].device
  PROVE  Locked(p)'
<1>1. Locked(p) /\ req[p].device \in Device
  BY DEF LockInv, Locked, ShapeInv, Shape, HoldsDevice, TypeOK, RequestState
<1>2. \A q \in Request : HoldsDevice(q)' /\ req'[q].device = req'[p].device => q = p
  BY <1>1 DEF Locked
<1>3. ~compromised'[req'[p].device]
  BY <1>1, BanWaits DEF Locked
<1>4. ActiveOn(req[p].device)' \subseteq ActiveOn(req[p].device)
  <2>1. \A r \in Request : InsertSession(r) => req[r].device # req[p].device
    BY <1>1, InsertHolds DEF Locked
  <2>2. \A d \in Device : d = req[p].device => ActiveOn(d)' \subseteq ActiveOn(d)
    BY <2>1, ActiveOnKept
  <2>3. ActiveOn(req[p].device)' = {s \in Session : session'[s].is_active
                                                    /\ session'[s].device = req'[p].device}
    BY DEF ActiveOn, Active
  <2>. QED
    BY <1>1, <2>2, <2>3 DEF ActiveOn, Active
<1>. QED
  BY <1>1, <1>2, <1>3, <1>4 DEF Locked

(* Every step keeps LockInv: a second login waits for the device row, a     *)
(* ban waits for it, and no other step activates a session on the device.   *)
LEMMA LockStep ==
  ASSUME TypeOK, RowsInv, ShapeInv, KeysInv, LockInv, [Next]_vars
  PROVE  LockInv'
<1>1. SUFFICES ASSUME NEW p \in Request, HoldsDevice(p)' PROVE Locked(p)'
  BY DEF LockInv, Locked
<1>2. ASSUME req' = req PROVE Locked(p)'
  <2>1. \A q \in Request : HoldsDevice(q)' <=> HoldsDevice(q)
    BY <1>2 DEF HoldsDevice
  <2>2. ~InsertSession(p)
    <3>1. SUFFICES ASSUME InsertSession(p) PROVE FALSE
      OBVIOUS
    <3>2. req'[p] = Idle
      BY <3>1 DEF InsertSession, Done, TypeOK
    <3>. QED
      BY <1>1, <3>2 DEF HoldsDevice, Idle
  <2>. QED
    BY <1>1, <1>2, <2>1, <2>2, LockKept
<1>3. ASSUME NEW m \in Request, ReqStep(m) PROVE Locked(p)'
  <2>1. \A q \in Request \ {m} : req'[q] = req[q]
    BY <1>3, ReqFrame
  <2>2. \A q \in Request \ {m} : HoldsDevice(q)' <=> HoldsDevice(q)
    BY <2>1 DEF HoldsDevice
  <2>3. ~InsertSession(p)
    <3>1. SUFFICES ASSUME InsertSession(p) PROVE FALSE
      OBVIOUS
    <3>2. req'[p] = Idle
      BY <3>1 DEF InsertSession, Done, TypeOK
    <3>. QED
      BY <1>1, <3>2 DEF HoldsDevice, Idle
  <2>4. UpsertDevice(m) => \A q \in Request \ {m} : HoldsDevice(q)
                                                    => req[q].device # req[m].device
    BY LockIsHeld DEF UpsertDevice, Granted, WaitsFor, Wanted
  <2>5. HoldsDevice(m)' => /\ req'[m].device = req[m].device
                           /\ UpsertDevice(m) \/ HoldsDevice(m)
    BY <1>3, HoldMoved
  <2>6. CASE p # m
    <3>1. HoldsDevice(p) /\ req'[p] = req[p]
      BY <1>1, <2>1, <2>2, <2>6
    <3>2. \A q \in Request : HoldsDevice(q)' =>
             \/ HoldsDevice(q) /\ req'[q].device = req[q].device
             \/ req'[q].device # req[p].device
      BY <2>1, <2>2, <2>4, <2>5, <2>6, <3>1
    <3>. QED
      BY <2>3, <3>1, <3>2, LockKept
  <2>7. CASE p = m /\ UpsertDevice(m) /\ req'[m].pc = "revoke"
    <3>1. ~compromised[req[m].device] /\ req'[m].device = req[m].device
      BY <1>1, <1>3, <2>7, HoldMoved DEF UpsertDevice, RevokeSameDevice, KillSessions, KillTokens
    <3>2. compromised' = compromised
      BY <2>7 DEF UpsertDevice, db
    <3>. QED
      BY <2>1, <2>2, <2>4, <2>7, <3>1, <3>2 DEF Locked
  <2>8. CASE p = m /\ RevokeSameDevice(m) /\ HoldsDevice(m)
    <3>1. /\ req'[m].device = req[m].device
          /\ req'[m].sids = ActiveOn(req[m].device)
      BY <1>1, <1>3, <2>8, HoldMoved DEF UpsertDevice, RevokeSameDevice, KillSessions, KillTokens
    <3>2. session' = session /\ compromised' = compromised
      BY <2>8 DEF RevokeSameDevice, KillReads, db
    <3>3. Locked(m)
      BY <2>8 DEF LockInv, Locked
    <3>4. \A q \in Request : HoldsDevice(q)' /\ req'[q].device = req'[m].device => q = m
      BY <2>1, <2>2, <3>1, <3>3 DEF Locked
    <3>5. ActiveOn(req[m].device)' = ActiveOn(req[m].device)
      BY <3>1, <3>2 DEF ActiveOn, Active
    <3>. QED
      BY <2>8, <3>1, <3>2, <3>3, <3>4, <3>5 DEF Locked
  <2>9. CASE p = m /\ (KillSessions(m) \/ KillTokens(m)) /\ HoldsDevice(m)
    <3>1. /\ req[m].pc # "revoke" /\ req'[m].device = req[m].device
          /\ req'[m].sids = req[m].sids
      BY <1>1, <1>3, <2>9, HoldMoved DEF UpsertDevice, RevokeSameDevice, KillSessions, KillTokens
    <3>2. \A q \in Request : HoldsDevice(q)' =>
             \/ HoldsDevice(q) /\ req'[q].device = req[q].device
             \/ req'[q].device # req[m].device
      BY <2>1, <2>2, <2>9, <3>1
    <3>. QED
      BY <2>3, <2>9, <3>1, <3>2, LockKept
  <2>. QED
    BY <1>1, <1>3, <2>6, <2>7, <2>8, <2>9, HoldMoved
<1>. QED
  BY <1>2, <1>3, NextForm, ReqFrame DEF vars

-----------------------------------------------------------------------------
(* Refreshable sessions. *)

(* Outside the two inserting commits no session changes its token, none     *)
(* comes back from expiry, and a session that stays active keeps the row of *)
(* its token: a kill that ends the row ends the session no later.           *)
Steady ==
  \A s \in Session :
    /\ session'[s].token = session[s].token
    /\ session[s].age = "expired" => session'[s].age = "expired"
    /\ session'[s].is_active /\ RefreshInv => refresh'[session[s].token] = refresh[session[s].token]

(* Killing the sessions and rows a request has listed is a steady step. *)
LEMMA KillSteady ==
  ASSUME TypeOK, NEW S \in SUBSET Session, NEW R \in SUBSET Token,
         \A k \in R : refresh[k].session \in S,
         session' = Deactivated(S) \/ (session' = session /\ \A s \in S : ~session[s].is_active),
         refresh' = Revoked(R)
  PROVE  Steady
<1>. SUFFICES ASSUME NEW s \in Session
              PROVE  /\ session'[s].token = session[s].token
                     /\ session[s].age = "expired" => session'[s].age = "expired"
                     /\ session'[s].is_active /\ RefreshInv
                          => refresh'[session[s].token] = refresh[session[s].token]
  BY DEF Steady
<1>1. session[s] \in SessionRow
  BY DEF TypeOK
<1>2. /\ session'[s].token = session[s].token /\ session'[s].age = session[s].age
      /\ session'[s].is_active => session[s].is_active /\ s \notin S
  <2>1. CASE session' = Deactivated(S)
    <3>1. session'[s] = IF s \in S THEN [session[s] EXCEPT !.is_active = FALSE] ELSE session[s]
      BY <2>1 DEF Deactivated
    <3>. QED
      BY <1>1, <3>1, EndedFields
  <2>2. CASE session' = session /\ \A t \in S : ~session[t].is_active
    BY <2>2
  <2>. QED
    BY <2>1, <2>2
<1>3. ASSUME session'[s].is_active, RefreshInv
      PROVE  refresh'[session[s].token] = refresh[session[s].token]
  <2>0. /\ session[s].token \in Token
        /\ refresh[session[s].token] = [session |-> s, state |-> "live"]
    BY <1>2, <1>3 DEF RefreshInv
  <2>1. session[s].token \in Token /\ refresh[session[s].token].session = s
    BY <2>0
  <2>2. session[s].token \notin R
    BY <1>2, <1>3, <2>1
  <2>. QED
    BY <2>1, <2>2 DEF Revoked
<1>. QED
  BY <1>2, <1>3

(* Every other step is steady, the reaper's separate statements included.   *)
LEMMA SteadyStep ==
  ASSUME TypeOK, ShapeInv
  PROVE  /\ \A p \in Request : ReqStep(p) => InsertSession(p) \/ CommitRefresh(p) \/ Steady
         /\ Environment => Steady
         /\ UNCHANGED vars => Steady
<1>0. /\ session \in [Session -> SessionRow] /\ refresh \in [Token -> RefreshRow]
      /\ req \in [Request -> RequestState]
  BY DEF TypeOK
<1>1. UNCHANGED <<session, refresh>> => Steady
  BY DEF Steady
<1>2. \A p \in Request : /\ req[p].sids \in SUBSET Session /\ req[p].rows \in SUBSET Token
                         /\ \A k \in req[p].rows : refresh[k].session \in req[p].sids
  BY <1>0 DEF RequestState, ShapeInv, Shape
<1>3. Revoked({}) = refresh
  BY <1>0 DEF Revoked
<1>4. ASSUME NEW p \in Request, KillSessions(p) PROVE Steady
  <2>1. refresh' = Revoked({}) /\ (session' = Deactivated(req[p].sids) \/ session' = session)
    BY <1>3, <1>4 DEF KillSessions
  <2>2. CASE session' = session
    BY <1>1, <1>4, <2>2 DEF KillSessions
  <2>3. CASE session' = Deactivated(req[p].sids)
    BY <1>2, <2>1, <2>3, KillSteady
  <2>. QED
    BY <2>1, <2>2, <2>3
<1>5. ASSUME NEW p \in Request, KillTokens(p) PROVE Steady
  <2>. DEFINE live == LiveRows(req[p].sids)
  <2>1. PICK late \in SUBSET {k \in live \ req[p].rows : Unlocked(k)} :
          \/ req[p].op = "reap" /\ refresh' = Revoked((req[p].rows \intersect live) \union late)
          \/ refresh' = refresh
    BY <1>5 DEF KillTokens
  <2>2. session' = session
    BY <1>5 DEF KillTokens
  <2>3. CASE refresh' = refresh
    BY <1>1, <2>2, <2>3
  <2>4. CASE req[p].op = "reap" /\ refresh' = Revoked((req[p].rows \intersect live) \union late)
    <3>. DEFINE dead == (req[p].rows \intersect live) \union late
    <3>1. \A s \in req[p].sids : ~session[s].is_active
      BY <1>5, <2>4 DEF KillTokens, ShapeInv, Shape
    <3>2. dead \in SUBSET Token /\ \A k \in dead : refresh[k].session \in req[p].sids
      BY DEF LiveRows
    <3>3. refresh' = Revoked(dead)
      BY <2>4
    <3>4. req[p].sids \in SUBSET Session
      BY <1>2
    <3>. HIDE DEF dead
    <3>. QED
      BY <2>2, <3>1, <3>2, <3>3, <3>4, KillSteady
  <2>. QED
    BY <2>1, <2>3, <2>4
<1>6. ASSUME NEW p \in Request, KillCommits(p) PROVE Steady
  BY <1>2, <1>6, KillSteady DEF KillCommits
<1>7. ASSUME NEW p \in Request, ReqStep(p), ~InsertSession(p), ~CommitRefresh(p)
      PROVE  Steady
  BY <1>1, <1>4, <1>5, <1>6, <1>7
     DEF ReqStep, StartsKill, KillReads, VerifyBegin, VerifyAccept, ConfirmDeviceLink,
         UpsertDevice, RevokeSameDevice, FinishRevoke, FinishDevice, FinishDisable,
         RefreshBegin, RotateRow, SaveSession, Abort, db
<1>8. ASSUME Environment PROVE Steady
  <2>1. ASSUME NEW t \in Session, NEW age \in {"idle", "expired"}, Grow(t, age)
        PROVE  Steady
    <3>1. /\ \A s \in Session : session'[s].token = session[s].token
          /\ \A s \in Session : session[s].age = "expired" => session'[s].age = "expired"
      BY <1>0, <2>1 DEF Grow, SessionRow
    <3>. QED
      BY <2>1, <3>1 DEF Grow, Steady
  <2>. QED
    BY <1>1, <1>8, <2>1 DEF Environment, Login, ClearCompromise, EnableUser,
                            SyncLdapAccount, ForgetChallenge, db
<1>. QED
  BY <1>1, <1>7, <1>8 DEF vars, db

(* An active session stays refreshable: its row is neither superseded       *)
(* without the session moving on, nor ended without the session.            *)
LEMMA RefreshStepInv ==
  ASSUME TypeOK, RowsInv, ShapeInv, KeysInv, RefreshInv, [Next]_vars
  PROVE  RefreshInv'
<1>. SUFFICES ASSUME NEW s \in Session, session'[s].is_active
              PROVE  /\ session'[s].token \in Token
                     /\ refresh'[session'[s].token] = [session |-> s, state |-> "live"]
  BY DEF RefreshInv
<1>. DEFINE Goal == /\ session'[s].token \in Token
                    /\ refresh'[session'[s].token] = [session |-> s, state |-> "live"]
<1>0. ASSUME session[s].is_active
      PROVE  /\ session[s].token \in Token
             /\ refresh[session[s].token] = [session |-> s, state |-> "live"]
             /\ refresh[session[s].token].session = s
             /\ s # None
  BY <1>0, NoneAssumption DEF RefreshInv
<1>1. CASE QuietRows /\ Steady
  BY <1>0, <1>1 DEF QuietRows, Steady
<1>2. ASSUME NEW p \in Request, InsertSession(p) PROVE Goal
  <2>1. InsertEffect(p)
    BY <1>2, Inserted
  <2>2. CASE s = req[p].sid
    BY <2>1, <2>2 DEF InsertEffect
  <2>3. CASE s # req[p].sid
    <3>1. session[s].is_active /\ s \notin req[p].sids /\ session'[s].token = session[s].token
      BY <2>1, <2>3, InsertFields
    <3>2. session[s].token # req[p].tid
      BY <1>0, <2>1, <3>1, NoneAssumption DEF InsertEffect, KeysInv
    <3>3. session[s].token \notin req[p].rows
      BY <1>0, <3>1 DEF ShapeInv, Shape
    <3>4. refresh'[session[s].token] = refresh[session[s].token]
      BY <1>0, <2>1, <3>1, <3>2, <3>3 DEF InsertEffect
    <3>. QED
      BY <1>0, <3>1, <3>4
  <2>. QED
    BY <2>2, <2>3
<1>3. ASSUME NEW p \in Request, CommitRefresh(p) PROVE Goal
  <2>1. PICK t \in Session : RefreshEffect(p, t)
    BY <1>3, Refreshed
  <2>2. CASE s = t
    BY <2>1, <2>2, SavedFields DEF RefreshEffect, TypeOK
  <2>3. CASE s # t
    <3>1. session'[s] = session[s] /\ s \notin req[p].sids
      BY <2>1, <2>3 DEF RefreshEffect
    <3>2. session[s].token # req[p].tid
      BY <1>0, <2>1, <3>1, NoneAssumption DEF RefreshEffect, KeysInv
    <3>3. session[s].token \notin req[p].rows
      BY <1>0, <3>1 DEF ShapeInv, Shape
    <3>4. refresh'[session[s].token] = refresh[session[s].token]
      BY <1>0, <2>1, <3>1, <3>2, <3>3 DEF RefreshEffect
    <3>. QED
      BY <1>0, <3>1, <3>4
  <2>. QED
    BY <2>2, <2>3
<1>. QED
  BY <1>1, <1>2, <1>3, NextForm, Quiet, SteadyStep

-----------------------------------------------------------------------------
(* One active session per device. *)

(* Sessions keep their device, so only a login can put a second one on it,  *)
(* and a login ends, in the commit that inserts, all that LockInv says.     *)
LEMMA OneActiveStep ==
  ASSUME TypeOK, RowsInv, ShapeInv, KeysInv, LockInv, OneActivePerDevice, [Next]_vars
  PROVE  OneActivePerDevice'
<1>. SUFFICES ASSUME NEW s \in Session, NEW t \in Session,
                     session'[s].is_active, session'[t].is_active,
                     session'[s].device = session'[t].device
              PROVE  s = t
  BY DEF OneActivePerDevice, Active
<1>1. CASE QuietRows
  BY <1>1 DEF QuietRows, OneActivePerDevice, Active
<1>2. ASSUME NEW p \in Request, InsertSession(p) PROVE s = t
  <2>1. InsertEffect(p)
    BY <1>2, Inserted
  <2>2. ActiveOn(req[p].device) \subseteq req[p].sids
    BY <1>2, InsertHolds DEF LockInv
  <2>3. ASSUME NEW u \in Session \ {req[p].sid}, session'[u].is_active
        PROVE  session[u].is_active /\ session'[u].device # req[p].device
    BY <2>1, <2>2, <2>3, InsertFields DEF ActiveOn, Active
  <2>. QED
    BY <2>1, <2>3, InsertFields DEF OneActivePerDevice, Active
<1>3. ASSUME NEW p \in Request, CommitRefresh(p) PROVE s = t
  <2>1. PICK u \in Session : RefreshEffect(p, u)
    BY <1>3, Refreshed
  <2>2. \A v \in Session : /\ session'[v].device = session[v].device
                           /\ session'[v].is_active = session[v].is_active
    BY <2>1, SavedFields DEF RefreshEffect, TypeOK
  <2>. QED
    BY <2>2 DEF OneActivePerDevice, Active
<1>. QED
  BY <1>1, <1>2, <1>3, NextForm, Quiet

-----------------------------------------------------------------------------
(* The theorems. *)

(* The empty tables and the idle requests satisfy IInv. *)
LEMMA InitInv == Init => IInv
<1>. SUFFICES ASSUME Init PROVE IInv
  OBVIOUS
<1>1. /\ \A s \in Session : session[s] = NoSession
      /\ \A k \in Token : refresh[k] = NoRow
      /\ \A p \in Request : req[p] = Idle
  BY DEF Init
<1>2. /\ NoSession.device = None /\ ~NoSession.is_active
      /\ NoRow.session = None /\ NoRow.state = "none"
      /\ Idle.pc = "idle" /\ Idle.op = "none" /\ Idle.sid = None /\ Idle.tid = None
      /\ Idle.sids = {} /\ Idle.rows = {}
  BY DEF NoSession, NoRow, Idle
<1>3. NoSession \in SessionRow /\ NoRow \in RefreshRow /\ Idle \in RequestState
  BY IdleType DEF NoSession, NoRow, SessionRow, RefreshRow
<1>4. TypeOK
  BY <1>3 DEF Init, TypeOK
<1>5. RowsInv /\ KeysInv /\ RefreshInv /\ OneActivePerDevice
  BY <1>1, <1>2 DEF RowsInv, KeysInv, RefreshInv, OneActivePerDevice, Active
<1>6. ShapeInv /\ LockInv
  BY <1>1, <1>2 DEF ShapeInv, Shape, LockInv, HoldsDevice, LoginSteps, RefreshSteps
<1>. QED
  BY <1>4, <1>5, <1>6 DEF IInv

(* Every step preserves IInv. *)
LEMMA NextInv == IInv /\ [Next]_vars => IInv'
<1>. SUFFICES ASSUME IInv, [Next]_vars PROVE IInv'
  OBVIOUS
<1>1. TypeOK /\ RowsInv /\ KeysInv /\ ShapeInv /\ LockInv /\ RefreshInv /\ OneActivePerDevice
  BY DEF IInv
<1>2. TypeOK' /\ RowsInv' /\ ShapeInv'
  BY <1>1, TypeStep, RowsStep, ShapeStep
<1>3. KeysInv' /\ LockInv'
  BY <1>1, KeysStep, LockStep
<1>4. RefreshInv' /\ OneActivePerDevice'
  BY <1>1, RefreshStepInv, OneActiveStep
<1>. QED
  BY <1>2, <1>3, <1>4 DEF IInv

(* IInv holds in every reachable state, for any number of requests, users,  *)
(* devices, sessions and tokens.                                            *)
THEOREM Invariance == Spec => []IInv
  BY InitInv, NextInv, PTL DEF Spec

(* The rows, the cache and the requests keep their types: in particular a   *)
(* refresh always knows its session and a login its keys.                   *)
THEOREM TypeCorrect == Spec => []TypeOK
<1>1. IInv => TypeOK
  BY DEF IInv
<1>. QED
  BY <1>1, Invariance, PTL

(* complete_login never leaves two active sessions on one device.           *)
THEOREM DeviceExclusive == Spec => []OneActivePerDevice
<1>1. IInv => OneActivePerDevice
  BY DEF IInv
<1>. QED
  BY <1>1, Invariance, PTL

(* An active session can always be refreshed with the token it last got.    *)
THEOREM Refreshable == Spec => []ActiveSessionRefreshable
<1>1. IInv => ActiveSessionRefreshable
  BY NoneAssumption DEF IInv, RefreshInv, ActiveSessionRefreshable, Active
<1>. QED
  BY <1>1, Invariance, PTL

(* No step of a login, a refresh, a kill or the reaper brings back an ended *)
(* session or a superseded token.                                           *)
LEMMA FinalStep ==
  ASSUME IInv, [Next]_vars
  PROVE  /\ \A s \in Session : Ended(s) => Ended(s)'
         /\ \A k \in Token : Void(k) => Void(k)'
<1>0. /\ TypeOK /\ RowsInv /\ ShapeInv /\ KeysInv
      /\ session \in [Session -> SessionRow] /\ refresh \in [Token -> RefreshRow]
  BY DEF IInv, TypeOK
<1>1. RowsKept
  BY <1>0, Kept
<1>2. ASSUME NEW s \in Session, session[s].device # None
      PROVE  /\ session[s].age = "expired" => session'[s].age = "expired"
             /\ \A k \in Token : refresh[k].session = s /\ session[s].token # k
                                   => session'[s].token # k
  <2>1. CASE Steady
    BY <2>1 DEF Steady
  <2>2. ASSUME NEW p \in Request, InsertSession(p)
        PROVE  session'[s].age = session[s].age /\ session'[s].token = session[s].token
    <3>1. InsertEffect(p)
      BY <1>0, <2>2, Inserted
    <3>2. s # req[p].sid
      BY <1>0, <1>2, <3>1, NoneAssumption DEF InsertEffect, KeysInv
    <3>. QED
      BY <1>0, <3>1, <3>2, InsertFields
  <2>3. ASSUME NEW p \in Request, CommitRefresh(p)
        PROVE  /\ session[s].age = "expired" => session'[s].age = "expired"
               /\ \A k \in Token : refresh[k].session = s /\ session[s].token # k
                                     => session'[s].token # k
    <3>1. PICK t \in Session : RefreshEffect(p, t)
      BY <1>0, <2>3, Refreshed
    <3>2. refresh[req[p].tid].session = None /\ s # None
      BY <1>0, <3>1, NoneAssumption DEF RefreshEffect, KeysInv
    <3>3. CASE s = t
      BY <1>0, <3>1, <3>2, <3>3, SavedFields DEF RefreshEffect
    <3>4. CASE s # t
      BY <3>1, <3>4 DEF RefreshEffect
    <3>. QED
      BY <3>3, <3>4
  <2>. QED
    BY <1>0, <2>1, <2>2, <2>3, NextForm, SteadyStep
<1>3. \A s \in Session : Ended(s) => Ended(s)'
  BY <1>1, <1>2 DEF Ended, RowsKept
<1>4. ASSUME NEW k \in Token, Void(k) PROVE Void(k)'
  <2>1. refresh[k].session \in Session /\ refresh'[k].session = refresh[k].session
    BY <1>0, <1>1, <1>4 DEF Void, RowsKept, RefreshRow
  <2>2. session[refresh[k].session].device # None
    BY <1>0, <1>4 DEF RowsInv, Void
  <2>3. CASE Ended(refresh[k].session)
    BY <1>3, <1>4, <2>1, <2>3 DEF Void, Ended
  <2>4. CASE session[refresh[k].session].token # k
    BY <1>2, <1>4, <2>1, <2>2, <2>4 DEF Void
  <2>. QED
    BY <1>4, <2>3, <2>4 DEF Void
<1>. QED
  BY <1>3, <1>4

(* A revocation is final: nothing revives an ended session or a superseded  *)
(* token, whatever a refresh had read before.                               *)
THEOREM Finality == Spec => RevocationIsFinal
<1>1. IInv /\ [Next]_vars => [/\ \A s \in Session : Ended(s) => Ended(s)'
                              /\ \A k \in Token : Void(k) => Void(k)']_vars
  BY FinalStep
<1>. QED
  BY <1>1, Invariance, PTL DEF Spec, RevocationIsFinal

(* A session becomes active by one step alone, the commit of a login that   *)
(* has held its device since it read the flag.                              *)
LEMMA OnlyLoginOpens ==
  ASSUME IInv, [Next]_vars, NEW s \in Session, ~session[s].is_active, session'[s].is_active
  PROVE  \E p \in Request : InsertSession(p) /\ session'[s].device = req[p].device
<1>0. TypeOK /\ RowsInv /\ ShapeInv /\ KeysInv
  BY DEF IInv
<1>1. ~QuietRows
  BY DEF QuietRows
<1>2. ASSUME NEW p \in Request, CommitRefresh(p) PROVE FALSE
  <2>1. PICK t \in Session : RefreshEffect(p, t)
    BY <1>0, <1>2, Refreshed
  <2>. QED
    BY <1>0, <2>1, SavedFields DEF RefreshEffect, TypeOK
<1>3. ASSUME NEW p \in Request, InsertSession(p)
      PROVE  session'[s].device = req[p].device
  <2>1. InsertEffect(p)
    BY <1>0, <1>3, Inserted
  <2>. QED
    BY <1>0, <2>1, InsertFields
<1>. QED
  BY <1>0, <1>1, <1>2, <1>3, NextForm, Quiet

(* AUTH-33 holds at the commit: the device a session opens on is not banned *)
(* then, although the flag was read statements earlier.                     *)
THEOREM NoBannedLogin == Spec => NoLoginOnCompromised
<1>1. IInv /\ [Next]_vars =>
        [\A s \in Session : ~session[s].is_active /\ session'[s].is_active
                              => ~compromised[session'[s].device]]_vars
  <2>. SUFFICES ASSUME IInv, [Next]_vars, NEW s \in Session,
                       ~session[s].is_active, session'[s].is_active
                PROVE  ~compromised[session'[s].device]
    OBVIOUS
  <2>1. PICK p \in Request : InsertSession(p) /\ session'[s].device = req[p].device
    BY OnlyLoginOpens
  <2>. QED
    BY <2>1, InsertHolds DEF IInv, LockInv
<1>. QED
  BY <1>1, Invariance, PTL DEF Spec, NoLoginOnCompromised

-----------------------------------------------------------------------------
(* The refinement of DeviceSlots. *)

Spent  == {s \in Session : session[s].device # None}
Banned == {d \in Device : compromised[d]}

(* The commit of a login opens its session in the slot of its device.       *)
LEMMA OpenMapped ==
  ASSUME IInv, [Next]_vars, NEW p \in Request, InsertSession(p),
         NEW d \in Device, NEW s \in Session, d = req[p].device, s = req[p].sid
  PROVE  /\ s \notin Spent /\ d \notin Banned
         /\ ActiveOn(d)' = {s}
         /\ \A e \in Device \ {d} : ActiveOn(e)' = ActiveOn(e)
         /\ Spent' = Spent \union {s}
         /\ Banned' = Banned
<1>1. TypeOK /\ RowsInv /\ ShapeInv /\ KeysInv /\ LockInv
  BY DEF IInv
<1>2. InsertEffect(p)
  BY <1>1, Inserted
<1>3. d # None /\ s # None
  BY NoneAssumption
<1>4. session[s].device = None
  BY <1>1, <1>3 DEF KeysInv
<1>5. ~compromised[d] /\ ActiveOn(d) \subseteq req[p].sids
  BY <1>1, InsertHolds DEF LockInv
<1>6. \A t \in req[p].sids : session[t].device = d
  BY <1>1 DEF InsertSession, ShapeInv, Shape
<1>7. \A t \in Session \ {s} :
        /\ session'[t].device = session[t].device
        /\ session'[t].is_active <=> session[t].is_active /\ t \notin req[p].sids
  BY <1>1, <1>2, InsertFields
<1>8. session'[s].device = d /\ session'[s].is_active
  BY <1>1, <1>2, InsertFields
<1>9. ActiveOn(d)' = {s}
  BY <1>5, <1>7, <1>8 DEF ActiveOn, Active
<1>10. ASSUME NEW e \in Device \ {d}
       PROVE  ActiveOn(e)' = ActiveOn(e)
  <2>1. \A t \in Session \ {s} : t \in ActiveOn(e)' <=> t \in ActiveOn(e)
    BY <1>6, <1>7 DEF ActiveOn, Active
  <2>2. s \notin ActiveOn(e)' /\ s \notin ActiveOn(e)
    BY <1>1, <1>4, <1>8 DEF ActiveOn, Active, RowsInv
  <2>. QED
    BY <2>1, <2>2 DEF ActiveOn, Active
<1>11. Spent' = Spent \union {s}
  BY <1>3, <1>7, <1>8 DEF Spent
<1>12. Banned' = Banned
  BY DEF InsertSession, Banned
<1>. QED
  BY <1>4, <1>5, <1>9, <1>10, <1>11, <1>12 DEF Spent, Banned

(* Every other step only takes sessions out of slots.                       *)
LEMMA CloseMapped ==
  ASSUME IInv, [Next]_vars, \A p \in Request : ~InsertSession(p)
  PROVE  LET gone == {s \in Session : ~session'[s].is_active} IN
         /\ \A d \in Device : ActiveOn(d)' = ActiveOn(d) \ gone
         /\ Spent' = Spent
<1>1. TypeOK /\ RowsInv /\ ShapeInv
  BY DEF IInv
<1>2. \A s \in Session : /\ session'[s].device = session[s].device
                         /\ session'[s].is_active => session[s].is_active
  <2>1. CASE QuietRows
    BY <2>1 DEF QuietRows
  <2>2. ASSUME NEW p \in Request, CommitRefresh(p)
        PROVE  \A s \in Session : /\ session'[s].device = session[s].device
                                  /\ session'[s].is_active => session[s].is_active
    <3>1. PICK t \in Session : RefreshEffect(p, t)
      BY <1>1, <2>2, Refreshed
    <3>. QED
      BY <1>1, <3>1, SavedFields DEF RefreshEffect, TypeOK
  <2>. QED
    BY <1>1, <2>1, <2>2, NextForm, Quiet
<1>. QED
  BY <1>2 DEF ActiveOn, Active, Spent

(* The requests, with their locks and partial reads, implement the promise  *)
(* of DeviceSlots: a login replaces what its device held in one step.       *)
THEOREM Refinement == Spec => ImplementsDeviceSlots
<1>1. Init => Slots!Init
  <2>. SUFFICES ASSUME Init PROVE Slots!Init
    OBVIOUS
  <2>1. \A s \in Session : session[s].device = None /\ ~session[s].is_active
    BY DEF Init, NoSession
  <2>. QED
    BY <2>1 DEF Init, Slots!Init, ActiveOn, Active
<1>2. IInv /\ [Next]_vars => [Slots!Next]_(Slots!vars)
  <2>. SUFFICES ASSUME IInv, [Next]_vars PROVE Slots!Next
    OBVIOUS
  <2>1. ASSUME NEW p \in Request, InsertSession(p) PROVE Slots!Next
    <3>1. InsertEffect(p)
      BY <2>1, Inserted DEF IInv
    <3>2. PICK d \in Device, s \in Session : d = req[p].device /\ s = req[p].sid
      BY <3>1 DEF InsertEffect
    <3>3. /\ s \notin Spent /\ d \notin Banned
          /\ ActiveOn(d)' = {s}
          /\ \A e \in Device \ {d} : ActiveOn(e)' = ActiveOn(e)
          /\ Spent' = Spent \union {s}
          /\ Banned' = Banned
      BY <2>1, <3>2, OpenMapped
    <3>4. [e \in Device |-> ActiveOn(e)]' = [[e \in Device |-> ActiveOn(e)] EXCEPT ![d] = {s}]
      BY <3>3
    <3>5. Slots!Open(d, s)
      BY <3>3, <3>4 DEF Slots!Open, Spent, Banned
    <3>. QED
      BY <3>5 DEF Slots!Next
  <2>2. ASSUME \A p \in Request : ~InsertSession(p) PROVE Slots!Next
    <3>. DEFINE gone == {s \in Session : ~session'[s].is_active}
    <3>1. /\ \A d \in Device : ActiveOn(d)' = ActiveOn(d) \ gone
          /\ Spent' = Spent
      BY <2>2, CloseMapped
    <3>2. PICK S \in SUBSET Session, B \in SUBSET Device : S = gone /\ B = Banned'
      BY DEF Banned
    <3>3. Slots!Close(S, B)
      BY <3>1, <3>2 DEF Slots!Close, Spent, Banned
    <3>. QED
      BY <3>3 DEF Slots!Next
  <2>. QED
    BY <2>1, <2>2
<1>. QED
  BY <1>1, <1>2, Invariance, PTL DEF Spec, ImplementsDeviceSlots, Slots!Spec
=============================================================================
