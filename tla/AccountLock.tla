----------------------------- MODULE AccountLock -----------------------------
(***************************************************************************)
(* The lock of one account: wrong passwords are written to the login       *)
(* history, the one that makes it LockAfter since the last success or      *)
(* unlock locks the account, and a lock ends by its duration (at the next  *)
(* right password or by the scheduled job) or by an administrator.  No      *)
(* statement relates two accounts.                                          *)
(*                                                                         *)
(* history holds the rows that still count, in the order of created_at:    *)
(* a row is written (and dated) before it is committed, and what a request  *)
(* counts are the committed rows and its own.                               *)
(***************************************************************************)
EXTENDS Requests, Integers, Sequences, FiniteSets, SequencesExt
CONSTANTS
  LockAfter,    \* lock_after_failures
  MaxHistory    \* bound: rows of the history kept

ASSUME LockAssumption    == LockAfter \in Nat \ {0} /\ MaxHistory \in Nat
ASSUME RequestAssumption == Request # {} /\ None \notin Request

VARIABLES
  lock,         \* users.is_locked and locked_at, compared with the clock
  history,      \* login_history and unlock rows of audit_log since the last cutoff
  challenge,    \* a second factor is pending for this account
  login,        \* the requests
  reaper,       \* the position of the scheduled job
  guesses       \* history: wrong passwords answered since the last lock or cutoff

lockVars == <<lock, history, challenge, login, reaper, guesses>>

(* "undated": is_locked without locked_at, as the fixtures have it. *)
LockValues == {"none", "fresh", "expired", "undated"}
Cutoffs    == {"success", "unlock"}
NoLogin    == [pc |-> "idle", saw |-> "none", lock |-> "kept"]

LockInit ==
  /\ lock \in {"none", "undated"}
  /\ history = <<>>
  /\ challenge = FALSE
  /\ login = [p \in Request |-> NoLogin]
  /\ reaper = "idle"
  /\ guesses = 0

(* Who is about to commit an UPDATE of the users row. *)
HoldsUser(p) == login[p].pc \in {"audit", "commit"}
UserRowFree  == \A p \in Request : ~HoldsUser(p)

Row(kind, p)  == [kind |-> kind, by |-> p]
Visible(p, e) == e.by \in {None, p}

(* The failures p sees after the last success or unlock it sees. *)
FailuresSince(p) ==
  LET seen == {i \in DOMAIN history : Visible(p, history[i])}
      cut  == {i \in seen : history[i].kind \in Cutoffs}
  IN  Cardinality({i \in seen : \A j \in cut : j < i})

(* The rows of p become committed; what lies before a committed cutoff is   *)
(* never counted again.                                                     *)
CommittedHistory(p) ==
  LET rows == [i \in DOMAIN history |->
                 IF history[i].by = p THEN [history[i] EXCEPT !.by = None] ELSE history[i]]
      cut  == {i \in DOMAIN rows : rows[i].kind \in Cutoffs /\ rows[i].by = None}
  IN  SubSeq(rows, Max(cut \union {0}) + 1, Len(rows))

Writes(p, e) ==
  /\ Len(history) < MaxHistory
  /\ history' = Append(history, Row(e, p))

-----------------------------------------------------------------------------
(* The requests. *)

(* login and login_ldap read the user once; an attempt the rate limits      *)
(* refuse ends here.                                                        *)
ReadUser(p) ==
  /\ login[p].pc = "idle"
  /\ login' = [login EXCEPT ![p] = [NoLogin EXCEPT !.pc = "judge", !.saw = lock]]
  /\ UNCHANGED <<lock, history, challenge, reaper, guesses>>

(* A wrong password or a refused bind: a row is written, and the failures   *)
(* are counted unless the account was locked when it was read.              *)
WrongPassword(p) ==
  /\ login[p].pc = "judge"
  /\ Writes(p, "failure")
  /\ login' = [login EXCEPT ![p].pc = IF login[p].saw = "none" THEN "count" ELSE "failed"]
  /\ UNCHANGED <<lock, challenge, reaper, guesses>>

(* Mutant: one failure more than lock_after_failures. *)
CountFailuresLate(p) ==
  /\ login[p].pc = "count"
  /\ login' = [login EXCEPT ![p].pc = IF FailuresSince(p) <= LockAfter THEN "failed" ELSE "lock"]
  /\ UNCHANGED <<lock, history, challenge, reaper, guesses>>

(* maybe_lock_after_failure: its own row is among those it counts. *)
CountFailures(p) ==
  /\ login[p].pc = "count"
  /\ login' = [login EXCEPT ![p].pc = IF FailuresSince(p) < LockAfter THEN "failed" ELSE "lock"]
  /\ UNCHANGED <<lock, history, challenge, reaper, guesses>>

(* The UPDATE of the users row waits for it; its commit follows. *)
LockAccount(p) ==
  /\ login[p].pc = "lock"
  /\ UserRowFree
  /\ login' = [login EXCEPT ![p].pc = "commit", ![p].lock = "fresh"]
  /\ UNCHANGED <<lock, history, challenge, reaper, guesses>>

CommitFailure(p) ==
  /\ login[p].pc = "failed"
  /\ history' = CommittedHistory(p)
  /\ guesses' = IF login[p].saw = "none" THEN guesses + 1 ELSE guesses
  /\ login' = [login EXCEPT ![p] = NoLogin]
  /\ UNCHANGED <<lock, challenge, reaper>>

(* A right password: a lock that was over when it was read is lifted        *)
(* (lazy_unlock); any other lock refuses; else the second factor is asked.  *)
RightPassword(p) ==
  /\ login[p].pc = "judge"
  /\ login' = [login EXCEPT ![p] = IF @.saw = "expired" THEN [@ EXCEPT !.pc = "unlock"] ELSE NoLogin]
  /\ challenge' = (challenge \/ login[p].saw = "none")
  /\ UNCHANGED <<lock, history, reaper, guesses>>

(* unlock_user, whatever the account is. *)
AdminUnlock(p) ==
  /\ login[p].pc = "idle"
  /\ login' = [login EXCEPT ![p] = [NoLogin EXCEPT !.pc = "unlock"]]
  /\ UNCHANGED <<lock, history, challenge, reaper, guesses>>

UnlockAccount(p) ==
  /\ login[p].pc = "unlock"
  /\ UserRowFree
  /\ login' = [login EXCEPT ![p].pc = "audit", ![p].lock = "none"]
  /\ UNCHANGED <<lock, history, challenge, reaper, guesses>>

AuditUnlock(p) ==
  /\ login[p].pc = "audit"
  /\ Writes(p, "unlock")
  /\ login' = [login EXCEPT ![p].pc = "commit"]
  /\ challenge' = (challenge \/ login[p].saw = "expired")
  /\ UNCHANGED <<lock, reaper, guesses>>

(* complete_login, after the second factor: users.last_login, then the row  *)
(* of the success.  is_locked is not looked at.                             *)
CompleteLogin(p) ==
  /\ login[p].pc = "idle"
  /\ challenge
  /\ UserRowFree
  /\ Writes(p, "success")
  /\ challenge' = FALSE
  /\ login' = [login EXCEPT ![p] = [NoLogin EXCEPT !.pc = "commit"]]
  /\ UNCHANGED <<lock, reaper, guesses>>

CommitUser(p) ==
  /\ login[p].pc = "commit"
  /\ lock' = IF login[p].lock = "kept" THEN lock ELSE login[p].lock
  /\ history' = CommittedHistory(p)
  /\ guesses' = 0
  /\ login' = [login EXCEPT ![p] = NoLogin]
  /\ UNCHANGED <<challenge, reaper>>

(* A request that fails does not leave the row it has written. *)
AbortLogin(p) ==
  /\ login[p].pc # "idle"
  /\ \/ \E i \in DOMAIN history : history[i].by = p /\ history' = RemoveAt(history, i)
     \/ history' = history /\ \A i \in DOMAIN history : history[i].by # p
  /\ login' = [login EXCEPT ![p] = NoLogin]
  /\ UNCHANGED <<lock, challenge, reaper, guesses>>

-----------------------------------------------------------------------------
(* The scheduled job: each statement commits by itself, so that a crash may *)
(* leave the account unlocked without the row that says so.                 *)

ReapSelect ==
  /\ reaper = "idle"
  /\ lock = "expired"
  /\ reaper' = "unlock"
  /\ UNCHANGED <<lock, history, challenge, login, guesses>>

(* Mutant: the job saves other columns than is_locked. *)
ReapUnsaved ==
  /\ reaper = "unlock"
  /\ UserRowFree
  /\ reaper' = "audit"
  /\ UNCHANGED <<lock, history, challenge, login, guesses>>

ReapUnlock ==
  /\ reaper = "unlock"
  /\ UserRowFree
  /\ lock' = "none"
  /\ reaper' = "audit"
  /\ UNCHANGED <<history, challenge, login, guesses>>

ReapAudit ==
  /\ reaper = "audit"
  /\ history' = <<>>
  /\ guesses' = 0
  /\ reaper' = "idle"
  /\ UNCHANGED <<lock, challenge, login>>

ReapCrash ==
  /\ reaper # "idle"
  /\ reaper' = "idle"
  /\ UNCHANGED <<lock, history, challenge, login, guesses>>

(* The clock reaches the end of the lock. *)
LockExpires ==
  /\ lock = "fresh"
  /\ lock' = "expired"
  /\ login' = [p \in Request |-> IF login[p].saw = "fresh" THEN [login[p] EXCEPT !.saw = "expired"]
                                 ELSE login[p]]
  /\ UNCHANGED <<history, challenge, reaper, guesses>>

ForgetSecondFactor ==
  /\ challenge
  /\ challenge' = FALSE
  /\ UNCHANGED <<lock, history, login, reaper, guesses>>

LockRequest(p) ==
  \/ WrongPassword(p) \/ CountFailures(p) \/ LockAccount(p) \/ CommitFailure(p)
  \/ RightPassword(p) \/ UnlockAccount(p) \/ AuditUnlock(p) \/ CommitUser(p)
  \/ AbortLogin(p)

Reaper == ReapSelect \/ ReapUnlock \/ ReapAudit \/ ReapCrash

LockNext ==
  \/ \E p \in Request : ReadUser(p) \/ AdminUnlock(p) \/ CompleteLogin(p) \/ LockRequest(p)
  \/ Reaper \/ LockExpires \/ ForgetSecondFactor

LockSpec == LockInit /\ [][LockNext]_lockVars

(* Requests end, time passes, cron starts the job again and again, and from  *)
(* some moment on it does not crash; a statement waiting for a row is queued. *)
LockFairness ==
  /\ \A p \in Request : WF_lockVars(LockRequest(p))
  /\ WF_lockVars(LockExpires) /\ WF_lockVars(ReapSelect) /\ WF_lockVars(ReapAudit)
  /\ SF_lockVars(ReapUnlock)
  /\ <>[][~ReapCrash]_lockVars
LockFairSpec == LockSpec /\ LockFairness

-----------------------------------------------------------------------------
(* Properties. *)

(* Every variable has its type. *)
LockTypeOK ==
  /\ lock \in LockValues
  /\ history \in Seq([kind : {"failure", "success", "unlock"}, by : Request \union {None}])
  /\ challenge \in BOOLEAN
  /\ login \in [Request -> [pc : {"idle", "judge", "count", "failed", "lock", "unlock", "audit",
                                  "commit"}, saw : LockValues, lock : LockValues \union {"kept"}]]
  /\ reaper \in {"idle", "unlock", "audit"}
  /\ guesses \in Nat

(* However wrong passwords overlap with one another, with successes, unlocks *)
(* and the job, an account answers at most LockAfter - 1 of them before it is  *)
(* locked, and besides those of requests that were running when the count     *)
(* began anew, or that overlap with the last one.                              *)
GuessesBeforeLock == guesses <= LockAfter - 1 + (2 * Cardinality(Request) - 1)

(* lock_service promises that a lock lasts lock_duration_seconds: requests that *)
(* read the account before it was locked, and lock it again, put the end off,  *)
(* but not for ever.                                                            *)
LockEnds == lock = "fresh" ~> lock = "none"

=============================================================================
