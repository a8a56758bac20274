------------------------------ MODULE Accounts ------------------------------
(***************************************************************************)
(* The rows of users from registration on, and the tickets that verify an  *)
(* e-mail address.  Every request here checks rows it reads without a lock  *)
(* and writes in its last statements, so that its writes are one action     *)
(* with its commit; the unique indexes refuse what the checks let through.  *)
(***************************************************************************)
EXTENDS Requests, FiniteSets, Naturals
CONSTANTS
  Email,
  Name,         \* usernames
  Token         \* tickets of email_verifications

ASSUME NoneIsNoEmail == None \notin Email \union Name \union Token

VARIABLES
  account,      \* rows of users
  directory,    \* external: the accounts Active Directory lets log on
  token,        \* rows of email_verifications
  dossier,      \* the requests
  verified      \* history: how often each ticket took effect

accountVars == <<account, directory, token, dossier, verified>>
accountDb   == <<account, directory, token, verified>>

NoAccount == [row |-> FALSE, email |-> None, name |-> None, ldap |-> FALSE, active |-> FALSE,
              pending |-> FALSE]
NoToken   == [user |-> None, email |-> None, purpose |-> None, state |-> "none"]
NoDossier == [pc |-> "idle", user |-> None, row |-> NoAccount, token |-> None, new |-> NoToken,
              revoke |-> {}]

AccountInit ==
  /\ account = [u \in User |-> NoAccount]
  /\ directory = User
  /\ token = [t \in Token |-> NoToken]
  /\ dossier = [p \in Request |-> NoDossier]
  /\ verified = [t \in Token |-> 0]

Registered == {u \in User : account[u].row}
Taken(e)   == \E u \in Registered : account[u].email = e
Named(n)   == \E u \in Registered : account[u].name = n
Unused(u, purpose) ==
  {t \in Token : token[t].user = u /\ token[t].purpose = purpose /\ token[t].state = "live"}
FreshToken(t) == token[t].state = "none" /\ \A q \in Request : dossier[q].token # t
FreshUser(u)  == ~account[u].row /\ \A q \in Request : dossier[q].user # u

StartsDossier(p, r) ==
  /\ dossier[p].pc = "idle"
  /\ dossier' = [dossier EXCEPT ![p] = r]
  /\ UNCHANGED accountDb

EndsDossier(p) == dossier' = [dossier EXCEPT ![p] = NoDossier]

NewAccount(u, e, n, ldap, active) ==
  [NoDossier EXCEPT !.pc = "insert", !.user = u,
     !.row = [row |-> TRUE, email |-> e, name |-> n, ldap |-> ldap, active |-> active,
              pending |-> ~active]]

(* issue_email_verification: the unused tickets it sees are revoked, and a   *)
(* new one is inserted.                                                      *)
Issues(r, u, e, purpose, t) ==
  [r EXCEPT !.user = u, !.token = t, !.revoke = Unused(u, purpose),
            !.new = [user |-> u, email |-> e, purpose |-> purpose, state |-> "live"]]

-----------------------------------------------------------------------------
(* New accounts. *)

(* register_local: unknown to the directory, or the directory does not       *)
(* answer; the account waits for its approval.                               *)
BeginRegisterLocal(p, u, e, n, t) ==
  /\ FreshUser(u) /\ ~Taken(e) /\ ~Named(n) /\ FreshToken(t)
  /\ StartsDossier(p, Issues(NewAccount(u, e, n, FALSE, FALSE), u, e, "register", t))

(* register_ad: address and name come from the directory, after a bind. *)
BeginRegisterAd(p, u, e, n) ==
  /\ u \in directory
  /\ FreshUser(u) /\ ~Taken(e) /\ ~Named(n)
  /\ StartsDossier(p, NewAccount(u, e, n, TRUE, TRUE))

BeginCreateLocalUser(p, u, e, n) ==
  /\ FreshUser(u) /\ ~Taken(e) /\ ~Named(n)
  /\ StartsDossier(p, NewAccount(u, e, n, FALSE, TRUE))

TokensAfter(r) ==
  [t \in Token |-> IF t = r.token THEN r.new
                   ELSE IF t \in r.revoke /\ token[t].state = "live"
                        THEN [token[t] EXCEPT !.state = "revoked"]
                   ELSE token[t]]

(* Mutant: no unique index. *)
InsertUnchecked(p) ==
  LET r == dossier[p] IN
  /\ r.pc = "insert"
  /\ account' = [account EXCEPT ![r.user] = r.row]
  /\ token' = TokensAfter(r)
  /\ EndsDossier(p)
  /\ UNCHANGED <<directory, verified>>

InsertAccount(p) ==
  LET r == dossier[p] IN
  /\ r.pc = "insert"
  /\ ~Taken(r.row.email) /\ ~Named(r.row.name)
  /\ account' = [account EXCEPT ![r.user] = r.row]
  /\ token' = TokensAfter(r)
  /\ EndsDossier(p)
  /\ UNCHANGED <<directory, verified>>

-----------------------------------------------------------------------------
(* Decisions of administrators, on the account as they read it. *)

Reads(p, pc, u) ==
  /\ u \in Registered
  /\ StartsDossier(p, [NoDossier EXCEPT !.pc = pc, !.user = u])

Approve(p, u) ==
  /\ ~account[u].ldap
  /\ ~account[u].active \/ account[u].pending
  /\ Reads(p, "approve", u)
Reject(p, u) == ~account[u].ldap /\ Reads(p, "reject", u)

(* Mutant: an account that waits for approval can be enabled. *)
EnableAnyway(p, u) == ~account[u].ldap /\ ~account[u].active /\ Reads(p, "enable", u)

Enable(p, u) ==
  /\ ~account[u].ldap /\ ~account[u].active /\ ~account[u].pending
  /\ Reads(p, "enable", u)
Disable(p, u) == ~account[u].ldap /\ account[u].active /\ Reads(p, "disable", u)

DirectoryChanges(u) ==
  /\ directory' = (directory \ {u}) \union ({u} \ directory)
  /\ UNCHANGED <<account, token, dossier, verified>>

(* sync_ldap_accounts, for one account: the state of the directory and the  *)
(* row were read before the row is written.  (A locked account is not       *)
(* enabled: then the job takes no step.)                                    *)
BeginSync(p, u) ==
  /\ account[u].ldap /\ account[u].active # (u \in directory)
  /\ Reads(p, IF u \in directory THEN "enable" ELSE "disable", u)

(* save(update_fields): only the columns named are written. *)
Decide(p) ==
  LET r == dossier[p] IN
  /\ r.pc \in {"approve", "reject", "enable", "disable"}
  /\ account' = [account EXCEPT ![r.user] =
       IF r.pc = "approve" THEN [@ EXCEPT !.active = TRUE, !.pending = FALSE]
       ELSE IF r.pc = "reject" THEN [@ EXCEPT !.pending = FALSE]
       ELSE [@ EXCEPT !.active = (r.pc = "enable")]]
  /\ EndsDossier(p)
  /\ UNCHANGED <<directory, token, verified>>

-----------------------------------------------------------------------------
(* Tickets. *)

(* resend_verification: an inactive local account. *)
BeginResend(p, u, t) ==
  /\ u \in Registered /\ ~account[u].active /\ ~account[u].ldap /\ FreshToken(t)
  /\ StartsDossier(p, Issues([NoDossier EXCEPT !.pc = "issue"], u, account[u].email, "register", t))

BeginEmailChange(p, u, e, t) ==
  /\ u \in Registered /\ account[u].active /\ ~account[u].ldap
  /\ ~Taken(e) /\ FreshToken(t)
  /\ StartsDossier(p, Issues([NoDossier EXCEPT !.pc = "issue"], u, e, "change", t))

(* resend_email_change: the same address again, under a new ticket. *)
BeginResendChange(p, u, t, old) ==
  /\ old \in Unused(u, "change") /\ FreshToken(t)
  /\ StartsDossier(p, Issues([NoDossier EXCEPT !.pc = "issue"], u, token[old].email, "change", t))

IssueToken(p) ==
  /\ dossier[p].pc = "issue"
  /\ token' = TokensAfter(dossier[p])
  /\ EndsDossier(p)
  /\ UNCHANGED <<account, directory, verified>>

(* verify_email: a ticket that is live; one already verified is answered     *)
(* without effect; a new address must be free.                               *)
BeginVerifyEmail(p, t) ==
  /\ token[t].state = "live"
  /\ token[t].purpose = "change" =>
       \A u \in Registered \ {token[t].user} : account[u].email # token[t].email
  /\ StartsDossier(p, [NoDossier EXCEPT !.pc = "verify", !.user = token[t].user, !.token = t])

(* Mutant: verified_at is not written. *)
VerifyForgotten(p) ==
  LET t == dossier[p].token IN
  /\ dossier[p].pc = "verify"
  /\ token[t].purpose = "change" =>
       \A u \in Registered \ {token[t].user} : account[u].email # token[t].email
  /\ account' = IF token[t].purpose = "change"
                THEN [account EXCEPT ![token[t].user].email = token[t].email] ELSE account
  /\ verified' = [verified EXCEPT ![t] = @ + 1]
  /\ EndsDossier(p)
  /\ UNCHANGED <<directory, token>>

VerifyEmail(p) ==
  LET t == dossier[p].token IN
  /\ dossier[p].pc = "verify"
  /\ token[t].purpose = "change" =>
       \A u \in Registered \ {token[t].user} : account[u].email # token[t].email
  /\ account' = IF token[t].purpose = "change"
                THEN [account EXCEPT ![token[t].user].email = token[t].email] ELSE account
  /\ token' = [token EXCEPT ![t].state = "verified"]
  /\ verified' = [verified EXCEPT ![t] = @ + 1]
  /\ EndsDossier(p)
  /\ UNCHANGED directory

TokenExpires(t) ==
  /\ token[t].state = "live"
  /\ token' = [token EXCEPT ![t].state = "expired"]
  /\ UNCHANGED <<account, directory, dossier, verified>>

(* A refusal, a unique index, a lost worker. *)
AbortDossier(p) ==
  /\ dossier[p].pc # "idle"
  /\ EndsDossier(p)
  /\ UNCHANGED accountDb

AccountNext ==
  \/ \E p \in Request :
       \/ \E u \in User, e \in Email, n \in Name :
            \/ \E t \in Token : BeginRegisterLocal(p, u, e, n, t)
            \/ BeginRegisterAd(p, u, e, n) \/ BeginCreateLocalUser(p, u, e, n)
       \/ InsertAccount(p)
       \/ \E u \in User : Approve(p, u) \/ Reject(p, u) \/ Enable(p, u) \/ Disable(p, u) \/ BeginSync(p, u)
       \/ Decide(p)
       \/ \E u \in User, t \in Token :
            \/ BeginResend(p, u, t)
            \/ \E e \in Email : BeginEmailChange(p, u, e, t)
            \/ \E old \in Token : BeginResendChange(p, u, t, old)
       \/ IssueToken(p)
       \/ \E t \in Token : BeginVerifyEmail(p, t)
       \/ VerifyEmail(p) \/ AbortDossier(p)
  \/ \E t \in Token : TokenExpires(t)
  \/ \E u \in User : DirectoryChanges(u)

AccountSpec == AccountInit /\ [][AccountNext]_accountVars

-----------------------------------------------------------------------------
(* Properties. *)

(* Registrations, creations and changes of address that overlap never give  *)
(* two accounts one address or one name.                                    *)
UniqueAccounts ==
  \A u, v \in Registered :
    account[u].email = account[v].email \/ account[u].name = account[v].name => u = v

(* However approval, rejection, enabling and disabling overlap, an account   *)
(* that still waits for its approval is inactive.                            *)
PendingIsInactive == \A u \in User : account[u].pending => ~account[u].active

(* A ticket takes effect only for requests that read it before it was used, *)
(* revoked by a newer one, or expired.                                      *)
EmailTokens == INSTANCE OneTimeUse WITH
                 Holder <- Request, Credential <- Token,
                 live <- {t \in Token : token[t].state = "live"},
                 spent <- {t \in Token : token[t].state \in {"verified", "revoked", "expired"}},
                 holding <- [p \in Request |-> IF dossier[p].pc = "verify" THEN {dossier[p].token}
                                               ELSE {}],
                 uses <- verified
EmailTokensAreOneTime == EmailTokens!Spec

=============================================================================
