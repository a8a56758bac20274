---------------------------- MODULE SecondFactor ----------------------------
(***************************************************************************)
(* The second factor of one account: challenges in the cache, the row of    *)
(* the authenticator with its backup codes in the database.  A request      *)
(* reads the row once, without a lock, and later writes columns of it; the  *)
(* cache is written at once and survives a rollback.                        *)
(***************************************************************************)
EXTENDS Requests, Integers, FiniteSets
CONSTANTS
  Challenge,
  Code,
  BackupCount   \* YAS_MFA_BACKUP_COUNT

ASSUME BackupAssumption    == BackupCount \in Nat \ {0}
ASSUME NoneIsNoChallenge   == None \notin Challenge

VARIABLES
  pending,      \* mfa:challenge:* in the cache
  otp,          \* the row of otp_secrets
  issued,       \* backup codes drawn so far
  burnt,        \* history: codes consumed, or replaced by new ones
  factor,       \* the requests
  logins        \* history: logins completed with each challenge

factorVars == <<pending, otp, issued, burnt, factor, logins>>
factorDb   == <<otp, burnt, logins>>

NoOtp    == [row |-> FALSE, ready |-> FALSE, codes |-> {}]
NewOtp   == [NoOtp EXCEPT !.row = TRUE]
NoFactor == [pc |-> "idle", with |-> None, saw |-> NoOtp, codes |-> {},
             writes |-> FALSE, enables |-> FALSE]

FactorInit ==
  /\ pending = [c \in Challenge |-> "none"]
  /\ otp = NoOtp
  /\ issued = {} /\ burnt = {}
  /\ factor = [p \in Request |-> NoFactor]
  /\ logins = [c \in Challenge |-> 0]

OtpRowFree(p) == \A q \in Request \ {p} : ~factor[q].writes
FreshCodes == {s \in SUBSET (Code \ issued) : Cardinality(s) = BackupCount}

Continues(p, r) == factor' = [factor EXCEPT ![p] = r]

(* begin_mfa: the challenge is in the cache at once; an account that has not *)
(* finished its enrolment is given a new secret.                             *)
BeginMfa(p, c) ==
  /\ factor[p].pc = "idle"
  /\ pending[c] = "none"
  /\ pending' = [pending EXCEPT ![c] = "live"]
  /\ Continues(p, IF otp.ready THEN NoFactor ELSE [NoFactor EXCEPT !.pc = "provision"])
  /\ UNCHANGED <<otp, issued, burnt, logins>>

(* provision_qr: the row is locked, and replaced whatever it has become.     *)
Provision(p) ==
  /\ factor[p].pc = "provision"
  /\ OtpRowFree(p)
  /\ otp' = NewOtp
  /\ burnt' = burnt \union otp.codes
  /\ Continues(p, NoFactor)
  /\ UNCHANGED <<pending, issued, logins>>

(* verify_mfa fetches the challenge, then the user with the row. *)
BeginVerify(p, c) ==
  /\ factor[p].pc = "idle"
  /\ pending[c] = "live"
  /\ Continues(p, [NoFactor EXCEPT !.pc = "verify", !.with = c, !.saw = otp])
  /\ UNCHANGED <<pending, issued, factorDb>>

(* A right TOTP of an enrolled account: nothing is written. *)
RightTotp(p) ==
  /\ factor[p].pc = "verify"
  /\ factor[p].saw.ready
  /\ Continues(p, [factor[p] EXCEPT !.pc = "accept"])
  /\ UNCHANGED <<pending, issued, factorDb>>

(* _consume_backup: the list that was read, without the code, is written.    *)
ConsumeBackup(p, k) ==
  /\ factor[p].pc \in {"verify", "reset"}
  /\ factor[p].saw.row /\ factor[p].saw.ready /\ k \in factor[p].saw.codes
  /\ OtpRowFree(p)
  /\ Continues(p, [factor[p] EXCEPT !.pc = IF @ = "verify" THEN "accept" ELSE "complete",
                                    !.codes = factor[p].saw.codes \ {k}, !.writes = TRUE])
  /\ UNCHANGED <<pending, issued, factorDb>>

(* The end of an enrolment: the secret that was read is proved, the row that *)
(* is there is enabled, with new backup codes.                               *)
Enrol(p, codes) ==
  /\ factor[p].pc = "verify"
  /\ factor[p].saw.row /\ ~factor[p].saw.ready
  /\ OtpRowFree(p)
  /\ codes \in FreshCodes
  /\ issued' = issued \union codes
  /\ Continues(p, [factor[p] EXCEPT !.pc = "accept", !.codes = codes, !.writes = TRUE,
                                    !.enables = TRUE])
  /\ UNCHANGED <<pending, factorDb>>

(* Mutant: the challenge is left to its lifetime. *)
KeepChallenge(p) ==
  /\ factor[p].pc = "accept"
  /\ Continues(p, [factor[p] EXCEPT !.pc = "complete"])
  /\ UNCHANGED <<pending, issued, factorDb>>

(* cache.delete: seen at once, and not undone if the login fails. *)
DropChallenge(p) ==
  /\ factor[p].pc = "accept"
  /\ pending' = [pending EXCEPT ![factor[p].with] = "gone"]
  /\ Continues(p, [factor[p] EXCEPT !.pc = "complete"])
  /\ UNCHANGED <<issued, factorDb>>

(* verify_reset_mfa and regenerate_backup_codes read the row as well. *)
BeginResetByCode(p) ==
  /\ factor[p].pc = "idle" /\ otp.ready
  /\ Continues(p, [NoFactor EXCEPT !.pc = "reset", !.saw = otp])
  /\ UNCHANGED <<pending, issued, factorDb>>

Regenerate(p, codes) ==
  /\ factor[p].pc = "idle" /\ otp.ready /\ OtpRowFree(p)
  /\ codes \in FreshCodes
  /\ issued' = issued \union codes
  /\ Continues(p, [NoFactor EXCEPT !.pc = "complete", !.saw = otp, !.codes = codes, !.writes = TRUE])
  /\ UNCHANGED <<pending, factorDb>>

(* The commit: complete_login or the end of the request.  Only the columns   *)
(* of the codes and of the enrolment are written.                            *)
CommitFactor(p) ==
  LET r == factor[p] IN
  /\ r.pc = "complete"
  /\ otp' = IF r.writes THEN [otp EXCEPT !.codes = r.codes, !.ready = @ \/ r.enables] ELSE otp
  /\ burnt' = IF r.writes THEN burnt \union ((otp.codes \union r.saw.codes) \ r.codes) ELSE burnt
  /\ logins' = [c \in Challenge |-> IF c = r.with THEN logins[c] + 1 ELSE logins[c]]
  /\ Continues(p, NoFactor)
  /\ UNCHANGED <<pending, issued>>

(* admin_reset_mfa deletes the row: whoever saves the row it had read fails  *)
(* from now on, even when there is a new one.                                *)
AdminResetMfa(p) ==
  /\ factor[p].pc = "idle" /\ OtpRowFree(p)
  /\ otp' = NoOtp
  /\ burnt' = burnt \union otp.codes
  /\ factor' = [q \in Request |-> [factor[q] EXCEPT !.saw.row = FALSE]]
  /\ UNCHANGED <<pending, issued, logins>>

ChallengeExpires(c) ==
  /\ pending[c] = "live"
  /\ pending' = [pending EXCEPT ![c] = "gone"]
  /\ UNCHANGED <<otp, issued, burnt, factor, logins>>

(* A wrong code, an attempt too many, a banned device, any failure. *)
AbortFactor(p) ==
  /\ factor[p].pc # "idle"
  /\ Continues(p, NoFactor)
  /\ UNCHANGED <<pending, issued, factorDb>>

FactorNext ==
  \/ \E p \in Request :
       \/ \E c \in Challenge : BeginMfa(p, c) \/ BeginVerify(p, c)
       \/ Provision(p) \/ RightTotp(p) \/ DropChallenge(p) \/ CommitFactor(p)
       \/ \E k \in Code : ConsumeBackup(p, k)
       \/ \E codes \in FreshCodes : Enrol(p, codes) \/ Regenerate(p, codes)
       \/ BeginResetByCode(p) \/ AdminResetMfa(p) \/ AbortFactor(p)
  \/ \E c \in Challenge : ChallengeExpires(c)

FactorSpec == FactorInit /\ [][FactorNext]_factorVars

-----------------------------------------------------------------------------
(* Properties. *)

(* A challenge completes a login only for requests that fetched it before it *)
(* was deleted or expired, and a request that failed after the deletion does *)
(* not bring it back.                                                        *)
Challenges == INSTANCE OneTimeUse WITH
                Holder <- Request, Credential <- Challenge,
                live <- {c \in Challenge : pending[c] = "live"},
                spent <- {c \in Challenge : pending[c] = "gone"},
                holding <- [p \in Request |-> {factor[p].with} \ {None}],
                uses <- logins
ChallengesAreOneTime == Challenges!Spec

-----------------------------------------------------------------------------
(* What the documentation says and the code does not keep. *)

(* A consumed or replaced backup code is never accepted again. *)
BackupCodesStaySpent == otp.codes \intersect burnt = {}

=============================================================================
