--------------------------- MODULE AccountsProofs ---------------------------
(***************************************************************************)
(* Proofs about the components around an account: the counters of attempts, *)
(* the one-time tickets and challenges, the registration, the password.      *)
(***************************************************************************)
EXTENDS RateLimits, Accounts, SecondFactor, PasswordReset, FiniteFacts, TLAPS

-----------------------------------------------------------------------------
(* Counters of attempts.  An attempt that passed the check is pending until it  *)
(* is counted: the value and the attempts still to be counted never exceed the  *)
(* limit by more than the other requests.                                     *)

Pending == {p \in Request : attempt[p] # "idle"}
Bound   == counter.limit + Cardinality(Request) - 1

WindowInv ==
  /\ LimitTypeOK
  /\ hits = Absent => admitted = 0 /\ overwritten = 0
  /\ hits + Cardinality(Pending) <= Bound
  /\ hits # Absent => admitted <= Bound * overwritten + hits

LEMMA LimitIsPositive ==
  ASSUME LimitTypeOK
  PROVE  counter.limit \in Nat \ {0} /\ Bound \in Nat /\ Cardinality(Request) \in Nat
PROOF
  <1>1. counter.limit \in Nat \ {0}
    BY LimitAssumption
    DEF LimitTypeOK, Counters, LoginCounter, MfaCounter, DeviceLinkCounter, ForgotCounter,
        EmailResendCounter, PushTestCounter
  <1>2. Cardinality(Request) \in Nat
    BY RequestsAreFinite, FS_CardinalityType
  <1>. QED
    BY <1>1, <1>2 DEF Bound

LEMMA PendingIsFinite ==
  ASSUME NEW S \in SUBSET Request
  PROVE  IsFiniteSet(S) /\ Cardinality(S) \in Nat /\ Cardinality(S) <= Cardinality(Request)
BY RequestsAreFinite, FS_Subset, FS_CardinalityType

LEMMA OneFewer ==
  ASSUME NEW S \in SUBSET Request, NEW p \in S
  PROVE  Cardinality(S \ {p}) = Cardinality(S) - 1
BY PendingIsFinite, FS_RemoveElement

LEMMA BoundTimesNext ==
  ASSUME NEW b \in Nat, NEW n \in Nat
  PROVE  b * (n + 1) = b * n + b /\ b * n \in Nat
OBVIOUS

LEMMA WindowStep == WindowInv /\ [LimitNext]_limitVars => WindowInv'
PROOF
  <1>. SUFFICES ASSUME WindowInv, [LimitNext]_limitVars PROVE WindowInv'
    OBVIOUS
  <1>0. /\ counter.limit \in Nat \ {0} /\ Bound \in Nat /\ Cardinality(Request) \in Nat
        /\ hits \in Nat \union {Absent} /\ admitted \in Nat /\ overwritten \in Nat
        /\ Cardinality(Pending) \in Nat /\ Pending \in SUBSET Request
        /\ Cardinality(Pending) <= Cardinality(Request)
        /\ Bound * overwritten \in Nat
    <2>1. LimitTypeOK /\ Pending \in SUBSET Request
      BY DEF WindowInv, Pending
    <2>2. counter.limit \in Nat \ {0} /\ Bound \in Nat /\ Cardinality(Request) \in Nat
      BY <2>1, LimitIsPositive
    <2>. QED
      BY <2>1, <2>2, PendingIsFinite, BoundTimesNext DEF LimitTypeOK
  <1>1. CASE UNCHANGED limitVars
    BY <1>1 DEF limitVars, WindowInv, LimitTypeOK, Pending, Bound
  <1>2. ASSUME NEW p \in Request, CheckLimit(p) PROVE WindowInv'
    <2>1. LimitTypeOK' /\ Bound' = Bound /\ Pending' \in SUBSET Request
      BY <1>2 DEF CheckLimit, Attempts, WindowInv, LimitTypeOK, Bound, Pending
    <2>2. hits < counter.limit
      BY <1>2, <1>0 DEF CheckLimit, Limited, Absent
    <2>3. Cardinality(Pending') \in Nat /\ Cardinality(Pending') <= Cardinality(Request)
      BY <2>1, PendingIsFinite
    <2>4. hits + Cardinality(Pending') <= Bound
      BY <1>0, <2>2, <2>3 DEF Bound, Absent
    <2>. QED
      BY <1>2, <2>1, <2>4 DEF CheckLimit, WindowInv
  <1>3. ASSUME NEW p \in Request, AddKey(p) PROVE WindowInv'
    <2>1. LimitTypeOK' /\ Bound' = Bound /\ Pending' = Pending
      BY <1>3 DEF AddKey, Attempts, WindowInv, LimitTypeOK, Bound, Pending, Absent
    <2>2. CASE hits # Absent
      BY <1>3, <2>1, <2>2 DEF AddKey, WindowInv
    <2>3. CASE hits = Absent
      <3>1. hits' = 0 /\ admitted' = 0 /\ overwritten' = 0
        BY <1>3, <2>3 DEF AddKey, WindowInv
      <3>2. Cardinality(Pending) <= Bound
        BY <1>0 DEF Bound
      <3>. QED
        BY <1>0, <2>1, <3>1, <3>2 DEF WindowInv, Absent
    <2>. QED
      BY <2>2, <2>3
  <1>4. ASSUME NEW p \in Request, IncrKey(p) PROVE WindowInv'
    <2>1. /\ LimitTypeOK' /\ Bound' = Bound /\ Pending' = Pending \ {p} /\ p \in Pending
          /\ hits \in Nat /\ hits' = hits + 1 /\ admitted' = admitted + 1
          /\ overwritten' = overwritten
      BY <1>4 DEF IncrKey, Attempts, WindowInv, LimitTypeOK, Bound, Pending, Absent
    <2>2. Cardinality(Pending') = Cardinality(Pending) - 1
      BY <1>0, <2>1, OneFewer
    <2>. QED
      BY <1>0, <2>1, <2>2 DEF WindowInv, Absent
  <1>5. ASSUME NEW p \in Request, IncrMissed(p) PROVE WindowInv'
    BY <1>5 DEF IncrMissed, Attempts, WindowInv, LimitTypeOK, Bound, Pending
  <1>6. ASSUME NEW p \in Request, SetOne(p) PROVE WindowInv'
    <2>1. /\ LimitTypeOK' /\ Bound' = Bound /\ Pending' = Pending \ {p} /\ p \in Pending
          /\ hits' = 1 /\ admitted' = admitted + 1
      BY <1>6 DEF SetOne, Attempts, WindowInv, LimitTypeOK, Bound, Pending, Absent
    <2>2. Cardinality(Pending') = Cardinality(Pending) - 1
      BY <1>0, <2>1, OneFewer
    <2>3. hits' + Cardinality(Pending') <= Bound
      BY <1>0, <2>1, <2>2 DEF Bound
    <2>4. CASE hits = Absent
      BY <1>0, <1>6, <2>1, <2>3, <2>4 DEF SetOne, WindowInv, Absent
    <2>5. CASE hits # Absent
      <3>1. overwritten' = overwritten + 1 /\ hits <= Bound /\ hits \in Nat
        BY <1>0, <1>6, <2>5 DEF SetOne, WindowInv
      <3>2. Bound * (overwritten + 1) = Bound * overwritten + Bound
        BY <1>0, BoundTimesNext
      <3>3. admitted + 1 <= Bound * (overwritten + 1) + 1
        BY <1>0, <2>5, <3>1, <3>2 DEF WindowInv
      <3>. QED
        BY <2>1, <2>3, <3>1, <3>3 DEF WindowInv, Absent
    <2>. QED
      BY <2>4, <2>5
  <1>7. ASSUME NEW p \in Request, LoseAttempt(p) PROVE WindowInv'
    <2>1. LimitTypeOK' /\ Bound' = Bound /\ Pending' = Pending \ {p} /\ p \in Pending
      BY <1>7 DEF LoseAttempt, WindowInv, LimitTypeOK, Bound, Pending
    <2>2. Cardinality(Pending') = Cardinality(Pending) - 1
      BY <1>0, <2>1, OneFewer
    <2>. QED
      BY <1>0, <1>7, <2>1, <2>2 DEF LoseAttempt, WindowInv, Absent
  <1>8. ASSUME ForgetKey PROVE WindowInv'
    <2>1. LimitTypeOK' /\ Bound' = Bound /\ Pending' = Pending /\ hits' = Absent
      BY <1>8 DEF ForgetKey, WindowInv, LimitTypeOK, Bound, Pending
    <2>. QED
      BY <1>0, <1>8, <2>1 DEF ForgetKey, WindowInv, Absent, Bound
  <1>. QED
    BY <1>1, <1>2, <1>3, <1>4, <1>5, <1>6, <1>7, <1>8 DEF LimitNext, ResetAfterSuccess, WindowEnds

(* The counters of rate_limit_service (is_limited, hit, reset and their like): *)
(* for any number of requests and any limit.                                 *)
THEOREM WindowsAreBounded == LimitSpec => []WindowBound
PROOF
  <1>1. LimitInit => WindowInv
    <2>. SUFFICES ASSUME LimitInit PROVE WindowInv
      OBVIOUS
    <2>1. LimitTypeOK /\ Pending = {}
      BY DEF LimitInit, LimitTypeOK, Pending, Absent
    <2>2. Cardinality(Pending) = 0 /\ Bound \in Nat
      BY <2>1, FS_EmptySet, LimitIsPositive
    <2>. QED
      BY <2>1, <2>2 DEF LimitInit, WindowInv, Absent
  <1>2. WindowInv => WindowBound
    <2>. SUFFICES ASSUME WindowInv PROVE WindowBound
      OBVIOUS
    <2>1. /\ Bound \in Nat /\ hits \in Nat \union {Absent}
          /\ admitted \in Nat /\ overwritten \in Nat /\ Cardinality(Pending) \in Nat
      <3>1. Pending \in SUBSET Request
        BY DEF Pending
      <3>. QED
        BY <3>1, LimitIsPositive, PendingIsFinite DEF WindowInv, LimitTypeOK
    <2>2. Bound * (overwritten + 1) = Bound * overwritten + Bound /\ Bound * overwritten \in Nat
      BY <2>1, BoundTimesNext
    <2>3. admitted <= Bound * (overwritten + 1)
      BY <2>1, <2>2 DEF WindowInv, Absent
    <2>. QED
      BY <2>3 DEF WindowBound, Bound
  <1>. QED
    BY <1>1, <1>2, WindowStep, PTL DEF LimitSpec

-----------------------------------------------------------------------------
(* Registration and tickets of addresses.  A request that inserts an account   *)
(* holds an identifier that no row and no other such request has, and a request *)
(* that enables an account has read it when it was not waiting.               *)

AccountRow == [row : BOOLEAN, email : Email \union {None}, name : Name \union {None},
               ldap : BOOLEAN, active : BOOLEAN, pending : BOOLEAN]
TokenRow   == [user : User \union {None}, email : Email \union {None},
               purpose : {"register", "change", None},
               state : {"none", "live", "verified", "revoked", "expired"}]
Dossier    == [pc : {"idle", "insert", "approve", "reject", "enable", "disable", "issue", "verify"},
               user : User \union {None}, row : AccountRow, token : Token \union {None},
               new : TokenRow, revoke : SUBSET Token]

AccountTypeOK ==
  /\ account \in [User -> AccountRow]
  /\ token \in [Token -> TokenRow]
  /\ dossier \in [Request -> Dossier]
  /\ verified \in [Token -> Nat]

Issuing(r) == r.pc \in {"insert", "issue"} /\ r.token # None

(* What a request has read still stands as far as it matters. *)
DossierFits(r) ==
  /\ r.pc = "insert" =>
       /\ r.user \in User /\ ~account[r.user].row
       /\ r.row.pending => ~r.row.active /\ ~r.row.ldap
  /\ r.pc = "enable" => r.user \in User /\ account[r.user].row /\ ~account[r.user].pending
  /\ Issuing(r) => token[r.token].state = "none" /\ r.new.state = "live"
  /\ r.pc = "verify" => r.token \in Token /\ token[r.token].state # "none"

Apart(r, s) ==
  /\ r.pc = "insert" /\ s.pc = "insert" => r.user # s.user
  /\ Issuing(r) /\ Issuing(s) => r.token # s.token

AccountInv ==
  /\ AccountTypeOK
  /\ UniqueAccounts
  /\ \A u \in User : account[u].pending => ~account[u].active /\ ~account[u].ldap
  /\ \A p \in Request : DossierFits(dossier[p])
  /\ \A p, q \in Request : p # q => Apart(dossier[p], dossier[q])

LEMMA NoDossierFits ==
  /\ NoDossier \in Dossier /\ NoDossier.pc = "idle"
  /\ DossierFits(NoDossier) /\ ~Issuing(NoDossier)
PROOF
  <1>1. NoAccount \in AccountRow /\ NoToken \in TokenRow
    BY DEF NoAccount, AccountRow, NoToken, TokenRow
  <1>2. NoDossier \in Dossier /\ NoDossier.pc = "idle"
    BY <1>1 DEF NoDossier, Dossier
  <1>. QED
    BY <1>2 DEF DossierFits, Issuing

LEMMA IssuesFits ==
  ASSUME AccountTypeOK, NEW r \in Dossier, NEW u \in User, NEW e \in Email \union {None},
         NEW purpose \in {"register", "change"}, NEW t \in Token,
         NEW s, s = Issues(r, u, e, purpose, t)
  PROVE  /\ s \in Dossier /\ s.pc = r.pc /\ s.user = u /\ s.row = r.row /\ s.token = t
         /\ s.new.state = "live"
PROOF
  <1> DEFINE new == [user |-> u, email |-> e, purpose |-> purpose, state |-> "live"]
  <1>1. new \in TokenRow /\ new.state = "live"
    BY DEF TokenRow
  <1>2. Unused(u, purpose) \in SUBSET Token
    BY DEF Unused
  <1>3. s = [r EXCEPT !.user = u, !.token = t, !.revoke = Unused(u, purpose), !.new = new]
    BY DEF Issues
  <1> HIDE DEF new
  <1>. QED
    BY <1>1, <1>2, <1>3 DEF Dossier

(* A request that reads. *)
LEMMA DossierStarts ==
  ASSUME AccountInv, NEW p \in Request, NEW r \in Dossier, StartsDossier(p, r), DossierFits(r),
         \A q \in Request : r.pc = "insert" => dossier[q].user # r.user,
         \A q \in Request : Issuing(r) => dossier[q].token # r.token
  PROVE  AccountInv'
PROOF
  <1>1. /\ dossier' = [dossier EXCEPT ![p] = r]
        /\ account' = account /\ token' = token /\ verified' = verified
    BY DEF StartsDossier, accountDb
  <1>2. dossier'[p] = r /\ \A q \in Request \ {p} : dossier'[q] = dossier[q]
    BY <1>1 DEF AccountInv, AccountTypeOK
  <1>3. AccountTypeOK'
    BY <1>1 DEF AccountInv, AccountTypeOK
  <1>4. UniqueAccounts' /\ \A u \in User : account'[u].pending => ~account'[u].active /\ ~account'[u].ldap
    BY <1>1 DEF AccountInv, UniqueAccounts, Registered
  <1>5. \A q \in Request : DossierFits(dossier[q])'
    <2>1. ASSUME NEW q \in Request \ {p} PROVE DossierFits(dossier[q])'
      <3>1. DossierFits(dossier[q])
        BY DEF AccountInv
      <3>. QED
        BY <1>1, <1>2, <3>1 DEF DossierFits, Issuing
    <2>2. DossierFits(dossier[p])'
      BY <1>1, <1>2 DEF DossierFits, Issuing
    <2>. QED
      BY <2>1, <2>2
  <1>6. \A x, q \in Request : x # q => Apart(dossier[x], dossier[q])'
    BY <1>2 DEF AccountInv, Apart
  <1>. QED
    BY <1>3, <1>4, <1>5, <1>6 DEF AccountInv

(* A request that ends, with what its commit leaves to the others. *)
LEMMA DossierEnds ==
  ASSUME AccountInv, NEW p \in Request, EndsDossier(p),
         account' \in [User -> AccountRow], token' \in [Token -> TokenRow],
         verified' \in [Token -> Nat], UniqueAccounts',
         \A u \in User : account'[u].pending => ~account'[u].active /\ ~account'[u].ldap,
         \A q \in Request \ {p} :
           /\ dossier[q].pc = "insert" => ~account'[dossier[q].user].row
           /\ dossier[q].pc = "enable" => /\ account'[dossier[q].user].row
                                          /\ ~account'[dossier[q].user].pending
           /\ Issuing(dossier[q]) => token'[dossier[q].token].state = "none"
           /\ dossier[q].pc = "verify" => token'[dossier[q].token].state # "none"
  PROVE  AccountInv'
PROOF
  <1>1. dossier'[p] = NoDossier /\ \A q \in Request \ {p} : dossier'[q] = dossier[q]
    BY DEF EndsDossier, AccountInv, AccountTypeOK
  <1>2. AccountTypeOK'
    BY NoDossierFits DEF EndsDossier, AccountInv, AccountTypeOK
  <1>3. \A q \in Request : DossierFits(dossier[q])'
    <2>1. ASSUME NEW q \in Request \ {p} PROVE DossierFits(dossier[q])'
      <3>1. DossierFits(dossier[q])
        BY DEF AccountInv
      <3>. QED
        BY <1>1, <3>1 DEF DossierFits, Issuing
    <2>2. DossierFits(dossier[p])'
      BY <1>1, NoDossierFits DEF DossierFits, Issuing
    <2>. QED
      BY <2>1, <2>2
  <1>4. \A x, q \in Request : x # q => Apart(dossier[x], dossier[q])'
    BY <1>1, NoDossierFits DEF AccountInv, Apart
  <1>. QED
    BY <1>2, <1>3, <1>4 DEF AccountInv

(* The tickets after a commit that issues one: no other request holds it. *)
LEMMA TokensAfterFit ==
  ASSUME AccountInv, NEW p \in Request, dossier[p].pc \in {"insert", "issue"}
  PROVE  LET after == TokensAfter(dossier[p]) IN
         /\ after \in [Token -> TokenRow]
         /\ \A t \in Token : token[t].state # "none" => after[t].state # "none"
         /\ \A q \in Request \ {p} :
              Issuing(dossier[q]) => after[dossier[q].token].state = "none"
PROOF
  <1> DEFINE r == dossier[p]
             after == TokensAfter(r)
  <1>1. r \in Dossier /\ DossierFits(r) /\ token \in [Token -> TokenRow]
    BY DEF AccountInv, AccountTypeOK
  <1>2. after \in [Token -> TokenRow]
    BY <1>1 DEF TokensAfter, Dossier, TokenRow
  <1>3. ASSUME NEW t \in Token, token[t].state # "none" PROVE after[t].state # "none"
    <2>1. t # r.token
      BY <1>1, <1>3, NoneIsNoEmail DEF DossierFits, Issuing
    <2>. QED
      BY <1>1, <1>3, <2>1 DEF TokensAfter, TokenRow
  <1>4. ASSUME NEW q \in Request \ {p}, Issuing(dossier[q])
        PROVE  after[dossier[q].token].state = "none"
    <2>1. /\ dossier[q].token \in Token /\ token[dossier[q].token].state = "none"
          /\ Apart(r, dossier[q])
      BY <1>4 DEF AccountInv, AccountTypeOK, DossierFits, Issuing, Dossier
    <2>2. dossier[q].token # r.token
      BY <1>1, <1>4, <2>1, NoneIsNoEmail DEF Apart, Issuing
    <2>. QED
      BY <2>1, <2>2 DEF TokensAfter
  <1>. QED
    BY <1>2, <1>3, <1>4

LEMMA InsertKeepsInv ==
  ASSUME AccountInv, NEW p \in Request, InsertAccount(p)
  PROVE  AccountInv'
PROOF
  <1> DEFINE r == dossier[p]
  <1>1. /\ r \in Dossier /\ DossierFits(r) /\ r.pc = "insert" /\ r.user \in User
        /\ account \in [User -> AccountRow] /\ verified' \in [Token -> Nat]
        /\ account' = [account EXCEPT ![r.user] = r.row] /\ token' = TokensAfter(r)
        /\ ~Taken(r.row.email) /\ ~Named(r.row.name) /\ EndsDossier(p)
    BY DEF InsertAccount, AccountInv, AccountTypeOK, DossierFits
  <1>2. /\ account' \in [User -> AccountRow] /\ account'[r.user] = r.row
        /\ \A u \in User \ {r.user} : account'[u] = account[u]
    BY <1>1 DEF Dossier
  <1>3. UniqueAccounts'
    BY <1>1, <1>2 DEF AccountInv, UniqueAccounts, Registered, Taken, Named
  <1>4. \A u \in User : account'[u].pending => ~account'[u].active /\ ~account'[u].ldap
    BY <1>1, <1>2 DEF AccountInv, DossierFits
  <1>5. ASSUME NEW q \in Request \ {p}
        PROVE  /\ dossier[q].pc = "insert" => ~account'[dossier[q].user].row
               /\ dossier[q].pc = "enable" => /\ account'[dossier[q].user].row
                                              /\ ~account'[dossier[q].user].pending
               /\ Issuing(dossier[q]) => token'[dossier[q].token].state = "none"
               /\ dossier[q].pc = "verify" => token'[dossier[q].token].state # "none"
    <2>1. DossierFits(dossier[q]) /\ Apart(r, dossier[q])
      BY DEF AccountInv
    <2>. QED
      BY <1>1, <1>2, <2>1, TokensAfterFit DEF DossierFits, Apart
  <1>6. token' \in [Token -> TokenRow]
    BY <1>1, TokensAfterFit
  <1> HIDE DEF r
  <1>. QED
    BY <1>1, <1>2, <1>3, <1>4, <1>5, <1>6, DossierEnds

LEMMA IssueKeepsInv ==
  ASSUME AccountInv, NEW p \in Request, IssueToken(p)
  PROVE  AccountInv'
PROOF
  <1>1. /\ dossier[p].pc = "issue" /\ account' = account /\ verified' = verified
        /\ token' = TokensAfter(dossier[p]) /\ EndsDossier(p)
    BY DEF IssueToken
  <1>2. AccountTypeOK
    BY DEF AccountInv
  <1>3. UniqueAccounts' /\ \A u \in User : account'[u].pending => ~account'[u].active /\ ~account'[u].ldap
    BY <1>1 DEF AccountInv, UniqueAccounts, Registered
  <1>4. ASSUME NEW q \in Request \ {p}
        PROVE  /\ dossier[q].pc = "insert" => ~account'[dossier[q].user].row
               /\ dossier[q].pc = "enable" => /\ account'[dossier[q].user].row
                                              /\ ~account'[dossier[q].user].pending
               /\ Issuing(dossier[q]) => token'[dossier[q].token].state = "none"
               /\ dossier[q].pc = "verify" => token'[dossier[q].token].state # "none"
    <2>1. DossierFits(dossier[q])
      BY DEF AccountInv
    <2>. QED
      BY <1>1, <2>1, TokensAfterFit DEF DossierFits
  <1>5. token' \in [Token -> TokenRow]
    BY <1>1, TokensAfterFit
  <1>. QED
    BY <1>1, <1>2, <1>3, <1>4, <1>5, DossierEnds DEF AccountTypeOK

LEMMA DecideKeepsInv ==
  ASSUME AccountInv, NEW p \in Request, Decide(p)
  PROVE  AccountInv'
PROOF
  <1> DEFINE r == dossier[p]
  <1>1. /\ r \in Dossier /\ DossierFits(r) /\ account \in [User -> AccountRow]
        /\ r.pc \in {"approve", "reject", "enable", "disable"}
        /\ token' = token /\ token \in [Token -> TokenRow]
        /\ verified' = verified /\ verified \in [Token -> Nat]  /\ EndsDossier(p)
        /\ account' = [account EXCEPT ![r.user] =
             IF r.pc = "approve" THEN [@ EXCEPT !.active = TRUE, !.pending = FALSE]
             ELSE IF r.pc = "reject" THEN [@ EXCEPT !.pending = FALSE]
             ELSE [@ EXCEPT !.active = (r.pc = "enable")]]
    BY DEF Decide, AccountInv, AccountTypeOK
  <1>2. /\ account' \in [User -> AccountRow]
        /\ \A u \in User : /\ account'[u].row = account[u].row /\ account'[u].email = account[u].email
                           /\ account'[u].name = account[u].name /\ account'[u].ldap = account[u].ldap
                           /\ account'[u].pending => account[u].pending
                           /\ account'[u].active => account[u].active \/ ~account'[u].pending
                                                    \/ (u = r.user /\ r.pc = "enable")
    <2> DEFINE row == account[r.user]
               now == IF r.pc = "approve" THEN [row EXCEPT !.active = TRUE, !.pending = FALSE]
                      ELSE IF r.pc = "reject" THEN [row EXCEPT !.pending = FALSE]
                      ELSE [row EXCEPT !.active = (r.pc = "enable")]
    <2>1. account' = [account EXCEPT ![r.user] = now]
      BY <1>1
    <2>2. ASSUME r.user \in User
          PROVE  /\ now \in AccountRow /\ now.row = row.row /\ now.email = row.email
                 /\ now.name = row.name /\ now.ldap = row.ldap
                 /\ now.pending => row.pending
                 /\ now.active => row.active \/ ~now.pending \/ r.pc = "enable"
      <3>1. row \in AccountRow
        BY <1>1, <2>2
      <3>2. CASE r.pc = "approve"
        <4>1. now = [row EXCEPT !.active = TRUE, !.pending = FALSE]
          BY <3>2
        <4>. QED
          BY <3>1, <4>1 DEF AccountRow
      <3>3. CASE r.pc = "reject"
        <4>1. now = [row EXCEPT !.pending = FALSE]
          BY <3>3
        <4>. QED
          BY <3>1, <4>1 DEF AccountRow
      <3>4. CASE r.pc = "enable"
        <4>1. now = [row EXCEPT !.active = TRUE]
          BY <3>4
        <4>. QED
          BY <3>1, <3>4, <4>1 DEF AccountRow
      <3>5. CASE r.pc = "disable"
        <4>1. now = [row EXCEPT !.active = FALSE]
          BY <3>5
        <4>. QED
          BY <3>1, <4>1 DEF AccountRow
      <3>. QED
        BY <1>1, <3>2, <3>3, <3>4, <3>5
    <2>3. account \in [User -> AccountRow]
      BY <1>1
    <2> HIDE DEF now
    <2>4. account' \in [User -> AccountRow]
      BY <2>1, <2>2, <2>3
    <2>5. \A u \in User : account'[u] = IF u = r.user THEN now ELSE account[u]
      BY <2>1, <2>3
    <2>. QED
      BY <2>2, <2>4, <2>5
  <1>3. UniqueAccounts'
    BY <1>2 DEF AccountInv, UniqueAccounts, Registered
  <1>4. \A u \in User : account'[u].pending => ~account'[u].active /\ ~account'[u].ldap
    BY <1>1, <1>2 DEF AccountInv, DossierFits
  <1>5. ASSUME NEW q \in Request \ {p}
        PROVE  /\ dossier[q].pc = "insert" => ~account'[dossier[q].user].row
               /\ dossier[q].pc = "enable" => /\ account'[dossier[q].user].row
                                              /\ ~account'[dossier[q].user].pending
               /\ Issuing(dossier[q]) => token'[dossier[q].token].state = "none"
               /\ dossier[q].pc = "verify" => token'[dossier[q].token].state # "none"
    <2>1. DossierFits(dossier[q])
      BY DEF AccountInv
    <2>2. \A u \in User : /\ account'[u].row = account[u].row
                          /\ account'[u].pending => account[u].pending
      BY <1>2
    <2>3. account' \in [User -> AccountRow] /\ account \in [User -> AccountRow] /\ token' = token
      BY <1>1, <1>2
    <2>. QED
      BY <2>1, <2>2, <2>3 DEF DossierFits, AccountRow
  <1> HIDE DEF r
  <1>. QED
    BY <1>1, <1>2, <1>3, <1>4, <1>5, DossierEnds

(* Only an address that no other account has is taken over. *)
LEMMA VerifyKeepsInv ==
  ASSUME AccountInv, NEW p \in Request, VerifyEmail(p)
  PROVE  AccountInv'
PROOF
  <1> DEFINE t == dossier[p].token
  <1>1. /\ t \in Token /\ token \in [Token -> TokenRow] /\ token[t].state # "none"
        /\ account \in [User -> AccountRow] /\ verified \in [Token -> Nat] /\ EndsDossier(p)
        /\ token' = [token EXCEPT ![t].state = "verified"]
        /\ verified' = [verified EXCEPT ![t] = @ + 1]
    BY DEF VerifyEmail, AccountInv, AccountTypeOK, DossierFits
  <1>2. /\ account' \in [User -> AccountRow] /\ token' \in [Token -> TokenRow]
        /\ verified' \in [Token -> Nat]
        /\ \A x \in Token : (token[x].state = "none") <=> (token'[x].state = "none")
    <2>1. account' \in [User -> AccountRow]
      <3>1. CASE token[t].purpose = "change"
        <4>1. account' = [account EXCEPT ![token[t].user].email = token[t].email]
          BY <3>1 DEF VerifyEmail
        <4>. QED
          BY <1>1, <4>1 DEF AccountRow, TokenRow
      <3>. QED
        BY <1>1, <3>1 DEF VerifyEmail
    <2> HIDE DEF t
    <2>2. \A x \in Token : token'[x] = IF x = t THEN [token[t] EXCEPT !.state = "verified"]
                                      ELSE token[x]
      BY <1>1
    <2>3. ASSUME NEW x \in Token
          PROVE  /\ token'[x] \in TokenRow
                 /\ (token[x].state = "none") <=> (token'[x].state = "none")
      BY <1>1, <2>2 DEF TokenRow
    <2>4. token' \in [Token -> TokenRow]
      BY <1>1, <2>3
    <2>5. verified' \in [Token -> Nat]
      BY <1>1
    <2>. QED
      BY <2>1, <2>3, <2>4, <2>5
  <1>3. \A u \in User : /\ account'[u].row = account[u].row
                        /\ account'[u].name = account[u].name /\ account'[u].ldap = account[u].ldap
                        /\ account'[u].pending = account[u].pending
                        /\ account'[u].active = account[u].active
                        /\ account'[u].email # account[u].email =>
                             /\ u = token[t].user /\ account'[u].email = token[t].email
                             /\ \A v \in Registered \ {u} : account[v].email # token[t].email
    <2>1. CASE token[t].purpose = "change"
      <3>1. /\ account' = [account EXCEPT ![token[t].user].email = token[t].email]
            /\ \A u \in Registered \ {token[t].user} : account[u].email # token[t].email
        BY <2>1 DEF VerifyEmail
      <3>2. \A u \in User : account'[u] = IF u = token[t].user
                                        THEN [account[u] EXCEPT !.email = token[t].email]
                                        ELSE account[u]
        BY <1>1, <3>1
      <3>. HIDE DEF t
      <3>. QED
        BY <1>1, <3>1, <3>2 DEF AccountRow
    <2>2. CASE token[t].purpose # "change"
      <3>1. account' = account
        BY <2>2 DEF VerifyEmail
      <3>. QED
        BY <3>1
    <2>. QED
      BY <2>1, <2>2
  <1>4. UniqueAccounts'
    <2>. SUFFICES ASSUME NEW u \in User, NEW v \in User, account[u].row, account[v].row,
                         \/ account'[u].email = account'[v].email
                         \/ account'[u].name = account'[v].name
                  PROVE  u = v
      BY <1>3 DEF UniqueAccounts, Registered
    <2>1. u \in Registered /\ v \in Registered
      BY DEF Registered
    <2>2. account[u].email = account[v].email \/ account[u].name = account[v].name => u = v
      BY <2>1 DEF AccountInv, UniqueAccounts
    <2>. QED
      BY <1>3, <2>1, <2>2
  <1>5. \A u \in User : account'[u].pending => ~account'[u].active /\ ~account'[u].ldap
    BY <1>3 DEF AccountInv
  <1>6. ASSUME NEW q \in Request \ {p}
        PROVE  /\ dossier[q].pc = "insert" => ~account'[dossier[q].user].row
               /\ dossier[q].pc = "enable" => /\ account'[dossier[q].user].row
                                              /\ ~account'[dossier[q].user].pending
               /\ Issuing(dossier[q]) => token'[dossier[q].token].state = "none"
               /\ dossier[q].pc = "verify" => token'[dossier[q].token].state # "none"
    <2>1. DossierFits(dossier[q]) /\ dossier[q] \in Dossier
      BY DEF AccountInv, AccountTypeOK
    <2>. QED
      BY <1>2, <1>3, <2>1 DEF DossierFits, Issuing, Dossier
  <1> HIDE DEF t
  <1>. QED
    BY <1>1, <1>2, <1>4, <1>5, <1>6, DossierEnds

(* What the first statements of every kind of request come to. *)
Begins(p) ==
  \E r \in Dossier :
    /\ StartsDossier(p, r)
    /\ DossierFits(r)
    /\ r.pc = "insert" => \A q \in Request : dossier[q].user # r.user
    /\ Issuing(r) => \A q \in Request : dossier[q].token # r.token
    /\ r.pc = "verify" => token[r.token].state = "live"

LEMMA RegistrationBegins ==
  ASSUME AccountInv, NEW p \in Request, NEW u \in User, NEW e \in Email, NEW n \in Name,
         \/ \E t \in Token : BeginRegisterLocal(p, u, e, n, t)
         \/ BeginRegisterAd(p, u, e, n)
         \/ BeginCreateLocalUser(p, u, e, n)
  PROVE  Begins(p)
PROOF
  <1>1. AccountTypeOK
    BY DEF AccountInv
  <1>2. ASSUME NEW t \in Token, BeginRegisterLocal(p, u, e, n, t) PROVE Begins(p)
    <2> DEFINE a == NewAccount(u, e, n, FALSE, FALSE)
               r == Issues(a, u, e, "register", t)
    <2>1. a \in Dossier /\ a.pc = "insert" /\ (a.row.pending => ~a.row.active /\ ~a.row.ldap)
      <3> DEFINE row == [row |-> TRUE, email |-> e, name |-> n, ldap |-> FALSE, active |-> FALSE,
                         pending |-> ~FALSE]
      <3>1. row \in AccountRow /\ ~row.active /\ ~row.ldap
        BY DEF AccountRow
      <3>2. a = [NoDossier EXCEPT !.pc = "insert", !.user = u, !.row = row]
        BY DEF NewAccount
      <3> HIDE DEF row, a
      <3>3. a \in Dossier /\ a.pc = "insert" /\ a.row = row
        BY <3>1, <3>2, NoDossierFits DEF Dossier
      <3>. QED
        BY <3>1, <3>3
    <2>2. StartsDossier(p, r) /\ FreshUser(u) /\ FreshToken(t)
      BY <1>2 DEF BeginRegisterLocal
    <2> HIDE DEF a
    <2>3. r \in Dossier /\ r.pc = a.pc /\ r.user = u /\ r.row = a.row /\ r.token = t /\ r.new.state = "live"
      BY <1>1, <2>1, IssuesFits
    <2> HIDE DEF r
    <2>4. DossierFits(r)
      BY <2>1, <2>2, <2>3 DEF DossierFits, Issuing, FreshUser, FreshToken
    <2>. QED
      BY <2>1, <2>2, <2>3, <2>4 DEF Begins, FreshUser, FreshToken
  <1>3. ASSUME NEW ldap \in BOOLEAN, FreshUser(u),
               StartsDossier(p, NewAccount(u, e, n, ldap, TRUE))
        PROVE  Begins(p)
    <2> DEFINE r == NewAccount(u, e, n, ldap, TRUE)
    <2>1. /\ r \in Dossier /\ r.pc = "insert" /\ r.user = u /\ r.token = None
          /\ r.row.pending => ~r.row.active /\ ~r.row.ldap
      <3> DEFINE row == [row |-> TRUE, email |-> e, name |-> n, ldap |-> ldap, active |-> TRUE,
                         pending |-> ~TRUE]
      <3>1. row \in AccountRow /\ ~row.pending
        BY DEF AccountRow
      <3>2. r = [NoDossier EXCEPT !.pc = "insert", !.user = u, !.row = row]
        BY DEF NewAccount
      <3> HIDE DEF row, r
      <3>3. r \in Dossier /\ r.pc = "insert" /\ r.user = u /\ r.row = row
        BY <3>1, <3>2, NoDossierFits DEF Dossier
      <3>4. r.token = None
        BY <3>2, NoDossierFits DEF Dossier, NoDossier
      <3>. QED
        BY <3>1, <3>3, <3>4
    <2> HIDE DEF r
    <2>2. DossierFits(r) /\ ~Issuing(r)
      BY <1>3, <2>1 DEF DossierFits, Issuing, FreshUser
    <2>3. StartsDossier(p, r)
      BY <1>3 DEF r
    <2>. QED
      BY <1>3, <2>1, <2>2, <2>3 DEF Begins, FreshUser
  <1>. QED
    BY <1>2, <1>3 DEF BeginRegisterAd, BeginCreateLocalUser

LEMMA DecisionBegins ==
  ASSUME AccountInv, NEW p \in Request, NEW u \in User,
         Approve(p, u) \/ Reject(p, u) \/ Enable(p, u) \/ Disable(p, u) \/ BeginSync(p, u)
  PROVE  Begins(p)
PROOF
  <1>1. ASSUME NEW pc \in {"approve", "reject", "enable", "disable"}, Reads(p, pc, u),
               pc = "enable" => ~account[u].pending
        PROVE  Begins(p)
    <2> DEFINE r == [NoDossier EXCEPT !.pc = pc, !.user = u]
    <2>1. r \in Dossier /\ r.pc = pc /\ r.user = u
      BY NoDossierFits DEF Dossier
    <2>2. StartsDossier(p, r) /\ account[u].row
      BY <1>1 DEF Reads, Registered
    <2> HIDE DEF r
    <2>3. DossierFits(r) /\ ~Issuing(r) /\ r.pc # "insert" /\ r.pc # "verify"
      BY <1>1, <2>1, <2>2 DEF DossierFits, Issuing
    <2>. QED
      BY <2>1, <2>2, <2>3 DEF Begins
  <1>2. account[u].pending => ~account[u].ldap
    BY DEF AccountInv
  <1>. QED
    BY <1>1, <1>2 DEF Approve, Reject, Enable, Disable, BeginSync

LEMMA TicketBegins ==
  ASSUME AccountInv, NEW p \in Request, NEW t \in Token,
         \/ \E u \in User : \/ BeginResend(p, u, t)
                            \/ \E e \in Email : BeginEmailChange(p, u, e, t)
                            \/ \E old \in Token : BeginResendChange(p, u, t, old)
         \/ BeginVerifyEmail(p, t)
  PROVE  Begins(p)
PROOF
  <1>1. AccountTypeOK
    BY DEF AccountInv
  <1>2. ASSUME NEW u \in User, NEW e \in Email \union {None}, NEW purpose \in {"register", "change"},
               FreshToken(t),
               StartsDossier(p, Issues([NoDossier EXCEPT !.pc = "issue"], u, e, purpose, t))
        PROVE  Begins(p)
    <2> DEFINE a == [NoDossier EXCEPT !.pc = "issue"]
               r == Issues(a, u, e, purpose, t)
    <2>1. a \in Dossier /\ a.pc = "issue"
      BY NoDossierFits DEF Dossier
    <2>2. StartsDossier(p, r)
      BY <1>2
    <2> HIDE DEF a
    <2>3. r \in Dossier /\ r.pc = "issue" /\ r.token = t /\ r.new.state = "live"
      BY <1>1, <2>1, IssuesFits
    <2> HIDE DEF r
    <2>4. DossierFits(r)
      BY <1>2, <2>3 DEF DossierFits, Issuing, FreshToken
    <2>. QED
      BY <1>2, <2>2, <2>3, <2>4 DEF Begins, FreshToken
  <1>3. ASSUME NEW u \in User, BeginResend(p, u, t) PROVE Begins(p)
    <2>1. account[u].email \in Email \union {None}
      BY <1>1 DEF AccountTypeOK, AccountRow
    <2>. QED
      BY <1>2, <1>3, <2>1 DEF BeginResend
  <1>4. ASSUME NEW u \in User, NEW e \in Email, BeginEmailChange(p, u, e, t) PROVE Begins(p)
    BY <1>2, <1>4 DEF BeginEmailChange
  <1>5. ASSUME NEW u \in User, NEW old \in Token, BeginResendChange(p, u, t, old) PROVE Begins(p)
    <2>1. token[old].email \in Email \union {None}
      BY <1>1 DEF AccountTypeOK, TokenRow
    <2>. QED
      BY <1>2, <1>5, <2>1 DEF BeginResendChange
  <1>6. ASSUME BeginVerifyEmail(p, t) PROVE Begins(p)
    <2> DEFINE r == [NoDossier EXCEPT !.pc = "verify", !.user = token[t].user, !.token = t]
    <2>1. token[t].user \in User \union {None}
      BY <1>1 DEF AccountTypeOK, TokenRow
    <2>2. r \in Dossier /\ r.pc = "verify" /\ r.token = t
      BY <2>1, NoDossierFits DEF Dossier
    <2>3. StartsDossier(p, r) /\ token[t].state = "live"
      BY <1>6 DEF BeginVerifyEmail
    <2> HIDE DEF r
    <2>. QED
      BY <2>2, <2>3 DEF Begins, DossierFits, Issuing
  <1>. QED
    BY <1>3, <1>4, <1>5, <1>6

LEMMA AccountCases ==
  ASSUME AccountInv, AccountNext
  PROVE  \/ \E p \in Request : \/ Begins(p) \/ InsertAccount(p) \/ Decide(p) \/ IssueToken(p)
                               \/ VerifyEmail(p) \/ AbortDossier(p)
         \/ \E t \in Token : TokenExpires(t)
         \/ \E u \in User : DirectoryChanges(u)
PROOF
  <1>1. ASSUME NEW p \in Request, NEW u \in User, NEW e \in Email, NEW n \in Name,
               \/ \E t \in Token : BeginRegisterLocal(p, u, e, n, t)
               \/ BeginRegisterAd(p, u, e, n)
               \/ BeginCreateLocalUser(p, u, e, n)
        PROVE  Begins(p)
    BY <1>1, RegistrationBegins
  <1>2. ASSUME NEW p \in Request, NEW u \in User, NEW t \in Token,
               \/ BeginResend(p, u, t)
               \/ \E e \in Email : BeginEmailChange(p, u, e, t)
               \/ \E old \in Token : BeginResendChange(p, u, t, old)
        PROVE  Begins(p)
    BY <1>2, TicketBegins
  <1>3. ASSUME NEW p \in Request, NEW t \in Token, BeginVerifyEmail(p, t) PROVE Begins(p)
    BY <1>3, TicketBegins
  <1>. QED
    BY <1>1, <1>2, <1>3, DecisionBegins DEF AccountNext

LEMMA AccountStep == AccountInv /\ [AccountNext]_accountVars => AccountInv'
PROOF
  <1>. SUFFICES ASSUME AccountInv, [AccountNext]_accountVars PROVE AccountInv'
    OBVIOUS
  <1>1. CASE UNCHANGED accountVars
    BY <1>1 DEF accountVars, AccountInv, AccountTypeOK, UniqueAccounts, Registered, DossierFits,
                Issuing, Apart
  <1>2. ASSUME NEW p \in Request, Begins(p) PROVE AccountInv'
    BY <1>2, DossierStarts DEF Begins
  <1>3. ASSUME NEW p \in Request, AbortDossier(p) PROVE AccountInv'
    <2>1. /\ EndsDossier(p) /\ account' = account /\ token' = token /\ verified' = verified
      BY <1>3 DEF AbortDossier, accountDb
    <2>2. UniqueAccounts'
      BY <2>1 DEF AccountInv, UniqueAccounts, Registered
    <2>3. \A q \in Request \ {p} : DossierFits(dossier[q])
      BY DEF AccountInv
    <2>. QED
      BY <2>1, <2>2, <2>3, DossierEnds DEF AccountInv, AccountTypeOK, DossierFits
  <1>4. ASSUME NEW t \in Token, TokenExpires(t) PROVE AccountInv'
    <2>1. /\ token' \in [Token -> TokenRow] /\ token \in [Token -> TokenRow]
          /\ \A x \in Token : (token[x].state = "none") <=> (token'[x].state = "none")
      BY <1>4 DEF TokenExpires, AccountInv, AccountTypeOK, TokenRow
    <2>2. \A q \in Request : DossierFits(dossier[q])'
      <3>1. TAKE q \in Request
      <3>2. DossierFits(dossier[q]) /\ dossier[q] \in Dossier
        BY DEF AccountInv, AccountTypeOK
      <3>. QED
        BY <1>4, <2>1, <3>2 DEF TokenExpires, DossierFits, Issuing, Dossier
    <2>. QED
      BY <1>4, <2>1, <2>2
      DEF TokenExpires, AccountInv, AccountTypeOK, UniqueAccounts, Registered, Issuing, Apart
  <1>5. ASSUME NEW u \in User, DirectoryChanges(u) PROVE AccountInv'
    BY <1>5 DEF DirectoryChanges, AccountInv, AccountTypeOK, UniqueAccounts, Registered, DossierFits,
                Issuing, Apart
  <1>. QED
    BY <1>1, <1>2, <1>3, <1>4, <1>5, AccountCases, InsertKeepsInv, DecideKeepsInv, IssueKeepsInv,
       VerifyKeepsInv

LEMMA AccountInitInv == AccountInit => AccountInv
PROOF
  <1>. SUFFICES ASSUME AccountInit PROVE AccountInv
    OBVIOUS
  <1>1. NoAccount \in AccountRow /\ NoAccount.row = FALSE /\ NoAccount.pending = FALSE
        /\ NoToken \in TokenRow
    BY DEF NoAccount, AccountRow, NoToken, TokenRow
  <1>2. AccountTypeOK /\ Registered = {} /\ \A u \in User : account[u].pending = FALSE
    BY <1>1, NoDossierFits DEF AccountInit, AccountTypeOK, Registered
  <1>3. \A p \in Request : dossier[p] = NoDossier
    BY DEF AccountInit
  <1>. QED
    BY <1>2, <1>3, NoDossierFits DEF AccountInv, UniqueAccounts, Apart

(* Two requests that found an address or a name free do not both insert it:   *)
(* register_local, register_ad, create_local_user and verify_email.           *)
THEOREM AddressesAreUnique == AccountSpec => []UniqueAccounts
PROOF
  <1>1. AccountInv => UniqueAccounts
    BY DEF AccountInv
  <1>. QED
    BY <1>1, AccountInitInv, AccountStep, PTL DEF AccountSpec

(* approve_user, reject_user, enable_user, disable_user and the                *)
(* synchronisation with the directory, however they overlap.                  *)
THEOREM WaitingIsInactive == AccountSpec => []PendingIsInactive
PROOF
  <1>1. AccountInv => PendingIsInactive
    BY DEF AccountInv, PendingIsInactive
  <1>. QED
    BY <1>1, AccountInitInv, AccountStep, PTL DEF AccountSpec

LiveTokens  == {t \in Token : token[t].state = "live"}
SpentTokens == {t \in Token : token[t].state \in {"verified", "revoked", "expired"}}
Verifying   == [p \in Request |-> IF dossier[p].pc = "verify" THEN {dossier[p].token} ELSE {}]

LEMMA EmailTokensStep ==
  AccountInv /\ [AccountNext]_accountVars => [EmailTokens!Next]_(EmailTokens!oneTimeVars)
PROOF
  <1>. SUFFICES ASSUME AccountInv, [AccountNext]_accountVars
                PROVE  [EmailTokens!Next]_(EmailTokens!oneTimeVars)
    OBVIOUS
  <1>. USE DEF LiveTokens, SpentTokens, Verifying
  <1>0. /\ token \in [Token -> TokenRow] /\ dossier \in [Request -> Dossier]
        /\ verified \in [Token -> Nat]
    BY DEF AccountInv, AccountTypeOK
  <1>1. ASSUME LiveTokens' = LiveTokens, SpentTokens' = SpentTokens, verified' = verified,
               Verifying' = Verifying
        PROVE  UNCHANGED EmailTokens!oneTimeVars
    BY <1>1 DEF EmailTokens!oneTimeVars
  <1>2. ASSUME NEW p \in Request, LiveTokens' = LiveTokens, SpentTokens' = SpentTokens,
               verified' = verified, EndsDossier(p)
        PROVE  EmailTokens!GiveUp(p)
    <2>1. Verifying' = [Verifying EXCEPT ![p] = {}]
      BY <1>0, <1>2, NoDossierFits DEF EndsDossier
    <2>. QED
      BY <1>2, <2>1 DEF EmailTokens!GiveUp
  <1>3. CASE UNCHANGED accountVars
    BY <1>1, <1>3 DEF accountVars
  <1>4. ASSUME NEW p \in Request, Begins(p)
        PROVE  [EmailTokens!Next]_(EmailTokens!oneTimeVars)
    <2>1. PICK r \in Dossier : /\ StartsDossier(p, r) /\ DossierFits(r)
                               /\ r.pc = "verify" => token[r.token].state = "live"
      BY <1>4 DEF Begins
    <2>2. /\ dossier[p].pc = "idle" /\ dossier' = [dossier EXCEPT ![p] = r]
          /\ token' = token /\ verified' = verified
      BY <2>1 DEF StartsDossier, accountDb
    <2>3. CASE r.pc = "verify"
      <3>1. Verifying' = [Verifying EXCEPT ![p] = {r.token}] /\ Verifying[p] = {}
        BY <1>0, <2>2, <2>3
      <3>2. r.token \in Token /\ r.token \in LiveTokens
        BY <2>1, <2>3 DEF DossierFits
      <3>3. EmailTokens!Look(p, r.token)
        BY <2>2, <3>1, <3>2 DEF EmailTokens!Look
      <3>. QED
        BY <3>2, <3>3 DEF EmailTokens!Next
    <2>4. CASE r.pc # "verify"
      <3>1. Verifying' = Verifying
        BY <1>0, <2>2, <2>4
      <3>. QED
        BY <1>1, <2>2, <3>1
    <2>. QED
      BY <2>3, <2>4
  <1>5. ASSUME NEW p \in Request, dossier[p].pc \in {"insert", "issue"}, EndsDossier(p),
               token' = TokensAfter(dossier[p]), verified' = verified
        PROVE  EmailTokens!Next
    <2>0. PICK r, new, old : /\ r = dossier[p] /\ new = {r.token} \ {None}
                             /\ old = (r.revoke \intersect LiveTokens) \ new
      OBVIOUS
    <2>1. /\ r \in Dossier /\ DossierFits(r)
          /\ r.token \in Token => token[r.token].state = "none" /\ r.new.state = "live"
      BY <1>5, <2>0, NoneIsNoEmail DEF AccountInv, AccountTypeOK, DossierFits, Issuing
    <2>2. new \in SUBSET (Token \ (LiveTokens \union SpentTokens)) /\ old \in SUBSET LiveTokens
      BY <2>0, <2>1 DEF Dossier
    <2>3. \A t \in Token : token'[t].state = IF t = r.token THEN "live"
                                             ELSE IF t \in r.revoke /\ token[t].state = "live"
                                                  THEN "revoked" ELSE token[t].state
      BY <1>0, <1>5, <2>0, <2>1 DEF TokensAfter, TokenRow
    <2>4. LiveTokens' = (LiveTokens \ old) \union new
      BY <2>0, <2>1, <2>2, <2>3, NoneIsNoEmail
    <2>5. SpentTokens' = SpentTokens \union old
      BY <2>0, <2>1, <2>2, <2>3, NoneIsNoEmail
    <2>6. Verifying' = Verifying
      BY <1>0, <1>5, NoDossierFits DEF EndsDossier
    <2>7. EmailTokens!Issue(new, old)
      BY <1>5, <2>2, <2>4, <2>5, <2>6 DEF EmailTokens!Issue
    <2>. QED
      BY <2>2, <2>7 DEF EmailTokens!Next
  <1>6. ASSUME NEW p \in Request, VerifyEmail(p) PROVE EmailTokens!Next
    <2>0. PICK t : t = dossier[p].token
      OBVIOUS
    <2>1. t \in Token /\ dossier[p].pc = "verify" /\ token[t].state # "none" /\ EndsDossier(p)
      BY <1>6, <2>0 DEF VerifyEmail, AccountInv, DossierFits
    <2>2. token' = [token EXCEPT ![t].state = "verified"] /\ verified' = [verified EXCEPT ![t] = @ + 1]
      BY <1>6, <2>0 DEF VerifyEmail
    <2>3. LiveTokens' = LiveTokens \ {t} /\ SpentTokens' = SpentTokens \union {t}
      BY <1>0, <2>1, <2>2 DEF TokenRow
    <2>4. Verifying' = [Verifying EXCEPT ![p] = {}] /\ t \in Verifying[p]
      BY <1>0, <2>0, <2>1, NoDossierFits DEF EndsDossier
    <2>5. EmailTokens!Use(p, t)
      BY <2>2, <2>3, <2>4 DEF EmailTokens!Use
    <2>. QED
      BY <2>1, <2>5 DEF EmailTokens!Next
  <1>7. ASSUME NEW t \in Token, TokenExpires(t) PROVE EmailTokens!Next
    <2>1. LiveTokens' = LiveTokens \ {t} /\ SpentTokens' = SpentTokens \union {t} /\ t \in LiveTokens
      BY <1>0, <1>7 DEF TokenExpires, TokenRow
    <2>2. EmailTokens!Issue({}, {t})
      BY <1>7, <2>1 DEF TokenExpires, EmailTokens!Issue
    <2>. QED
      BY <2>2 DEF EmailTokens!Next
  <1>8. ASSUME NEW p \in Request, Decide(p) \/ AbortDossier(p) PROVE EmailTokens!Next
    <2>1. EmailTokens!GiveUp(p)
      BY <1>2, <1>8 DEF Decide, AbortDossier, accountDb
    <2>. QED
      BY <2>1 DEF EmailTokens!Next
  <1>9. ASSUME NEW u \in User, DirectoryChanges(u) PROVE UNCHANGED EmailTokens!oneTimeVars
    BY <1>1, <1>9 DEF DirectoryChanges
  <1>. QED
    BY <1>3, <1>4, <1>5, <1>6, <1>7, <1>8, <1>9, AccountCases DEF InsertAccount, IssueToken

(* verify_email and issue_email_verification keep what a one-time credential  *)
(* promises: for any number of tickets, and of requests that look at one.      *)
THEOREM EmailTokensRefine == AccountSpec => EmailTokensAreOneTime
PROOF
  <1>1. AccountInit => EmailTokens!Init
    BY DEF AccountInit, NoToken, NoDossier, EmailTokens!Init
  <1>. QED
    BY <1>1, AccountInitInv, AccountStep, EmailTokensStep, PTL
    DEF AccountSpec, EmailTokensAreOneTime, EmailTokens!Spec

-----------------------------------------------------------------------------
(* Challenges of the second factor.  A login that is complete has taken its    *)
(* challenge out of the cache before, and no challenge appears twice.         *)

OtpRow    == [row : BOOLEAN, ready : BOOLEAN, codes : SUBSET Code]
FactorRow == [pc : {"idle", "provision", "verify", "reset", "accept", "complete"},
              with : Challenge \union {None}, saw : OtpRow, codes : SUBSET Code,
              writes : BOOLEAN, enables : BOOLEAN]

FactorTypeOK ==
  /\ pending \in [Challenge -> {"none", "live", "gone"}]
  /\ otp \in OtpRow
  /\ factor \in [Request -> FactorRow]
  /\ logins \in [Challenge -> Nat]

FactorFits(r) ==
  /\ r.pc \in {"idle", "provision", "reset"} => r.with = None
  /\ r.pc \in {"verify", "accept"} => r.with \in Challenge /\ pending[r.with] # "none"
  /\ r.pc = "complete" => r.with = None \/ (r.with \in Challenge /\ pending[r.with] = "gone")

FactorInv == FactorTypeOK /\ \A p \in Request : FactorFits(factor[p])

LEMMA NoFactorFits ==
  NoFactor \in FactorRow /\ NoFactor.pc = "idle" /\ NoFactor.with = None /\ FactorFits(NoFactor)
PROOF
  <1>1. NoOtp \in OtpRow
    BY DEF NoOtp, OtpRow
  <1>. QED
    BY <1>1 DEF NoFactor, FactorRow, FactorFits

LiveChallenges == {c \in Challenge : pending[c] = "live"}
GoneChallenges == {c \in Challenge : pending[c] = "gone"}
Presented      == [p \in Request |-> {factor[p].with} \ {None}]

(* A request that reads, or writes what the challenges do not depend on. *)
LEMMA FactorGoesOn ==
  ASSUME FactorInv, NEW p \in Request, NEW r \in FactorRow, Continues(p, r),
         r.with = factor[p].with, pending' = pending, otp' \in OtpRow, logins' = logins,
         FactorFits(r)
  PROVE  FactorInv' /\ UNCHANGED Challenges!oneTimeVars
PROOF
  <1>1. /\ factor \in [Request -> FactorRow] /\ factor' = [factor EXCEPT ![p] = r]
        /\ factor' \in [Request -> FactorRow]
    BY DEF FactorInv, FactorTypeOK, Continues
  <1>2. FactorInv'
    BY <1>1 DEF FactorInv, FactorTypeOK, FactorFits
  <1>3. Presented' = Presented
    BY <1>1 DEF Presented
  <1>. QED
    BY <1>2, <1>3 DEF Presented, Challenges!oneTimeVars

LEMMA FactorStep ==
  FactorInv /\ [FactorNext]_factorVars
    => FactorInv' /\ [Challenges!Next]_(Challenges!oneTimeVars)
PROOF
  <1>. SUFFICES ASSUME FactorInv, [FactorNext]_factorVars
                PROVE  FactorInv' /\ [Challenges!Next]_(Challenges!oneTimeVars)
    OBVIOUS
  <1>0. /\ pending \in [Challenge -> {"none", "live", "gone"}] /\ otp \in OtpRow
        /\ factor \in [Request -> FactorRow] /\ logins \in [Challenge -> Nat]
        /\ \A p \in Request : FactorFits(factor[p])
    BY DEF FactorInv, FactorTypeOK
  <1>1. CASE UNCHANGED factorVars
    BY <1>1 DEF factorVars, FactorInv, FactorTypeOK, FactorFits, Challenges!oneTimeVars
  <1>2. ASSUME NEW p \in Request, NEW c \in Challenge, BeginMfa(p, c)
        PROVE  FactorInv' /\ Challenges!Next
    <2>1. PICK r : r = IF otp.ready THEN NoFactor ELSE [NoFactor EXCEPT !.pc = "provision"]
      OBVIOUS
    <2>2. r \in FactorRow /\ r.with = None /\ r.pc \in {"idle", "provision"}
      BY <2>1, NoFactorFits DEF FactorRow
    <2>3. /\ factor' = [factor EXCEPT ![p] = r] /\ factor[p].with = None
          /\ pending' = [pending EXCEPT ![c] = "live"] /\ pending[c] = "none"
          /\ otp' = otp /\ logins' = logins
      BY <1>0, <1>2, <2>1 DEF BeginMfa, Continues, FactorFits
    <2>4. FactorInv'
      BY <1>0, <2>2, <2>3 DEF FactorInv, FactorTypeOK, FactorFits
    <2>5. Presented' = Presented
      BY <1>0, <2>2, <2>3 DEF Presented
    <2>6. /\ LiveChallenges' = LiveChallenges \union {c} /\ GoneChallenges' = GoneChallenges
          /\ c \notin LiveChallenges \union GoneChallenges
      BY <1>0, <2>3 DEF LiveChallenges, GoneChallenges
    <2>7. Challenges!Issue({c}, {})
      BY <2>3, <2>5, <2>6 DEF LiveChallenges, GoneChallenges, Presented, Challenges!Issue
    <2>. QED
      BY <2>4, <2>7 DEF Challenges!Next
  <1>3. ASSUME NEW p \in Request, Provision(p)
        PROVE  FactorInv' /\ UNCHANGED Challenges!oneTimeVars
    <2>1. NewOtp \in OtpRow
      BY DEF NewOtp, NoOtp, OtpRow
    <2>2. factor[p].with = None
      BY <1>0, <1>3 DEF Provision, FactorFits
    <2>. QED
      BY <1>3, <2>1, <2>2, NoFactorFits, FactorGoesOn DEF Provision
  <1>4. ASSUME NEW p \in Request, NEW c \in Challenge, BeginVerify(p, c)
        PROVE  FactorInv' /\ Challenges!Next
    <2>1. PICK r : r = [NoFactor EXCEPT !.pc = "verify", !.with = c, !.saw = otp]
      OBVIOUS
    <2>2. r \in FactorRow /\ r.with = c /\ r.pc = "verify"
      BY <1>0, <2>1, NoFactorFits DEF FactorRow
    <2>3. /\ factor' = [factor EXCEPT ![p] = r] /\ factor[p].with = None /\ pending[c] = "live"
          /\ pending' = pending /\ otp' = otp /\ logins' = logins
      BY <1>0, <1>4, <2>1 DEF BeginVerify, Continues, FactorFits, factorDb
    <2>4. FactorInv'
      BY <1>0, <2>2, <2>3 DEF FactorInv, FactorTypeOK, FactorFits
    <2>5. Presented' = [Presented EXCEPT ![p] = {c}] /\ Presented[p] = {}
      BY <1>0, <2>2, <2>3, NoneIsNoChallenge DEF Presented
    <2>6. Challenges!Look(p, c)
      BY <2>3, <2>5 DEF Presented, Challenges!Look
    <2>. QED
      BY <2>4, <2>6 DEF Challenges!Next
  <1>5. ASSUME NEW p \in Request, RightTotp(p)
        PROVE  FactorInv' /\ UNCHANGED Challenges!oneTimeVars
    <2>1. PICK r : r = [factor[p] EXCEPT !.pc = "accept"]
      OBVIOUS
    <2>2. r \in FactorRow /\ r.pc = "accept" /\ r.with = factor[p].with
      BY <1>0, <2>1 DEF FactorRow
    <2>3. FactorFits(r)
      BY <1>0, <1>5, <2>2 DEF RightTotp, FactorFits
    <2>. QED
      BY <1>0, <1>5, <2>1, <2>2, <2>3, FactorGoesOn DEF RightTotp, factorDb
  <1>6. ASSUME NEW p \in Request, NEW k \in Code, ConsumeBackup(p, k)
        PROVE  FactorInv' /\ UNCHANGED Challenges!oneTimeVars
    <2>1. PICK r : r = [factor[p] EXCEPT !.pc = IF @ = "verify" THEN "accept" ELSE "complete",
                                         !.codes = factor[p].saw.codes \ {k}, !.writes = TRUE]
      OBVIOUS
    <2>2. factor[p].saw.codes \ {k} \in SUBSET Code
      BY <1>0 DEF FactorRow, OtpRow
    <2>3. /\ r \in FactorRow /\ r.with = factor[p].with
          /\ r.pc = IF factor[p].pc = "verify" THEN "accept" ELSE "complete"
      BY <1>0, <2>1, <2>2 DEF FactorRow
    <2>4. FactorFits(r)
      BY <1>0, <1>6, <2>3 DEF ConsumeBackup, FactorFits
    <2>. QED
      BY <1>0, <1>6, <2>1, <2>3, <2>4, FactorGoesOn DEF ConsumeBackup, factorDb
  <1>7. ASSUME NEW p \in Request, NEW codes \in FreshCodes, Enrol(p, codes)
        PROVE  FactorInv' /\ UNCHANGED Challenges!oneTimeVars
    <2>1. PICK r : r = [factor[p] EXCEPT !.pc = "accept", !.codes = codes, !.writes = TRUE,
                                         !.enables = TRUE]
      OBVIOUS
    <2>2. codes \in SUBSET Code
      BY DEF FreshCodes
    <2>3. r \in FactorRow /\ r.with = factor[p].with /\ r.pc = "accept"
      BY <1>0, <2>1, <2>2 DEF FactorRow
    <2>4. FactorFits(r)
      BY <1>0, <1>7, <2>3 DEF Enrol, FactorFits
    <2>. QED
      BY <1>0, <1>7, <2>1, <2>3, <2>4, FactorGoesOn DEF Enrol, factorDb
  <1>8. ASSUME NEW p \in Request, DropChallenge(p)
        PROVE  FactorInv' /\ [Challenges!Next]_(Challenges!oneTimeVars)
    <2>1. PICK r, c : r = [factor[p] EXCEPT !.pc = "complete"] /\ c = factor[p].with
      OBVIOUS
    <2>2. r \in FactorRow /\ r.with = c /\ r.pc = "complete"
      BY <1>0, <2>1 DEF FactorRow
    <2>3. /\ factor' = [factor EXCEPT ![p] = r] /\ c \in Challenge /\ pending[c] # "none"
          /\ pending' = [pending EXCEPT ![c] = "gone"] /\ otp' = otp /\ logins' = logins
      BY <1>0, <1>8, <2>1 DEF DropChallenge, Continues, FactorFits, factorDb
    <2>4. FactorInv'
      BY <1>0, <2>2, <2>3 DEF FactorInv, FactorTypeOK, FactorFits
    <2>5. Presented' = Presented
      BY <1>0, <2>1, <2>2, <2>3 DEF Presented
    <2>6. CASE pending[c] = "live"
      <3>1. /\ LiveChallenges' = LiveChallenges \ {c} /\ GoneChallenges' = GoneChallenges \union {c}
            /\ c \in LiveChallenges
        BY <1>0, <2>3, <2>6 DEF LiveChallenges, GoneChallenges
      <3>2. Challenges!Issue({}, {c})
        BY <2>3, <2>5, <3>1 DEF LiveChallenges, GoneChallenges, Presented, Challenges!Issue
      <3>. QED
        BY <2>3, <2>4, <3>2 DEF Challenges!Next
    <2>7. CASE pending[c] = "gone"
      <3>1. pending' = pending
        BY <1>0, <2>3, <2>7
      <3>. QED
        BY <2>3, <2>4, <2>5, <3>1 DEF Presented, Challenges!oneTimeVars
    <2>. QED
      BY <1>0, <2>3, <2>6, <2>7
  <1>9. ASSUME NEW p \in Request, BeginResetByCode(p)
        PROVE  FactorInv' /\ UNCHANGED Challenges!oneTimeVars
    <2>1. PICK r : r = [NoFactor EXCEPT !.pc = "reset", !.saw = otp]
      OBVIOUS
    <2>2. r \in FactorRow /\ r.with = None /\ r.pc = "reset"
      BY <1>0, <2>1, NoFactorFits DEF FactorRow
    <2>3. FactorFits(r) /\ factor[p].with = None
      BY <1>0, <1>9, <2>2 DEF BeginResetByCode, FactorFits
    <2>. QED
      BY <1>0, <1>9, <2>1, <2>2, <2>3, FactorGoesOn DEF BeginResetByCode, factorDb
  <1>10. ASSUME NEW p \in Request, NEW codes \in FreshCodes, Regenerate(p, codes)
         PROVE  FactorInv' /\ UNCHANGED Challenges!oneTimeVars
    <2>1. PICK r : r = [NoFactor EXCEPT !.pc = "complete", !.saw = otp, !.codes = codes, !.writes = TRUE]
      OBVIOUS
    <2>2. codes \in SUBSET Code
      BY DEF FreshCodes
    <2>3. r \in FactorRow /\ r.with = None /\ r.pc = "complete"
      BY <1>0, <2>1, <2>2, NoFactorFits DEF FactorRow
    <2>4. FactorFits(r) /\ factor[p].with = None
      BY <1>0, <1>10, <2>3 DEF Regenerate, FactorFits
    <2>. QED
      BY <1>0, <1>10, <2>1, <2>3, <2>4, FactorGoesOn DEF Regenerate, factorDb
  <1>11. ASSUME NEW p \in Request, CommitFactor(p)
         PROVE  FactorInv' /\ [Challenges!Next]_(Challenges!oneTimeVars)
    <2>1. PICK c : c = factor[p].with
      OBVIOUS
    <2>2. /\ factor' = [factor EXCEPT ![p] = NoFactor] /\ pending' = pending
          /\ c = None \/ (c \in Challenge /\ pending[c] = "gone")
          /\ logins' = [d \in Challenge |-> IF d = c THEN logins[d] + 1 ELSE logins[d]]
      BY <1>0, <1>11, <2>1 DEF CommitFactor, Continues, FactorFits
    <2>3. otp' \in OtpRow
      <3>1. factor[p].codes \in SUBSET Code /\ (otp.ready \/ factor[p].enables) \in BOOLEAN
        BY <1>0 DEF FactorRow
      <3>2. \/ otp' = otp
            \/ otp' = [otp EXCEPT !.codes = factor[p].codes, !.ready = otp.ready \/ factor[p].enables]
        BY <1>11 DEF CommitFactor
      <3>. QED
        BY <1>0, <3>1, <3>2 DEF OtpRow
    <2>4. FactorInv'
      BY <1>0, <2>2, <2>3, NoFactorFits DEF FactorInv, FactorTypeOK, FactorFits
    <2>5. Presented' = [Presented EXCEPT ![p] = {}] /\ Presented[p] = {c} \ {None}
      BY <1>0, <2>1, <2>2, NoFactorFits DEF Presented
    <2>6. CASE c = None
      <3>1. logins' = logins /\ Presented' = Presented
        BY <1>0, <2>2, <2>5, <2>6, NoneIsNoChallenge DEF Presented
      <3>. QED
        BY <2>2, <2>4, <3>1 DEF Presented, Challenges!oneTimeVars
    <2>7. CASE c \in Challenge
      <3>1. /\ c \in Presented[p] /\ logins' = [logins EXCEPT ![c] = @ + 1]
            /\ LiveChallenges' = LiveChallenges \ {c} /\ GoneChallenges' = GoneChallenges \union {c}
        BY <1>0, <2>2, <2>5, <2>7, NoneIsNoChallenge DEF LiveChallenges, GoneChallenges
      <3>2. Challenges!Use(p, c)
        BY <2>5, <3>1 DEF LiveChallenges, GoneChallenges, Presented, Challenges!Use
      <3>. QED
        BY <2>4, <2>7, <3>2 DEF Challenges!Next
    <2>. QED
      BY <2>2, <2>6, <2>7
  <1>12. ASSUME NEW p \in Request, AdminResetMfa(p)
         PROVE  FactorInv' /\ UNCHANGED Challenges!oneTimeVars
    <2>1. /\ NoOtp \in OtpRow /\ otp' = NoOtp /\ pending' = pending /\ logins' = logins
          /\ factor' = [q \in Request |-> [factor[q] EXCEPT !.saw.row = FALSE]]
      BY <1>12 DEF AdminResetMfa, NoOtp, OtpRow
    <2>2. ASSUME NEW q \in Request
          PROVE  /\ factor'[q] \in FactorRow /\ factor'[q].pc = factor[q].pc
                 /\ factor'[q].with = factor[q].with
      <3>1. [factor[q].saw EXCEPT !.row = FALSE] \in OtpRow
        BY <1>0 DEF FactorRow, OtpRow
      <3>2. factor'[q] = [factor[q] EXCEPT !.saw = [factor[q].saw EXCEPT !.row = FALSE]]
        BY <2>1
      <3>. QED
        BY <1>0, <3>1, <3>2 DEF FactorRow
    <2>3. factor' \in [Request -> FactorRow]
      BY <2>1, <2>2
    <2>4. FactorInv'
      BY <1>0, <2>1, <2>2, <2>3 DEF FactorInv, FactorTypeOK, FactorFits
    <2>5. Presented' = Presented
      BY <2>2 DEF Presented
    <2>. QED
      BY <2>1, <2>4, <2>5 DEF Presented, Challenges!oneTimeVars
  <1>13. ASSUME NEW p \in Request, AbortFactor(p)
         PROVE  FactorInv' /\ Challenges!Next
    <2>1. /\ factor' = [factor EXCEPT ![p] = NoFactor]
          /\ pending' = pending /\ otp' = otp /\ logins' = logins
      BY <1>13 DEF AbortFactor, Continues, factorDb
    <2>2. FactorInv'
      BY <1>0, <2>1, NoFactorFits DEF FactorInv, FactorTypeOK, FactorFits
    <2>3. Presented' = [Presented EXCEPT ![p] = {}]
      BY <1>0, <2>1, NoFactorFits DEF Presented
    <2>4. Challenges!GiveUp(p)
      BY <2>1, <2>3 DEF Presented, Challenges!GiveUp
    <2>. QED
      BY <2>2, <2>4 DEF Challenges!Next
  <1>14. ASSUME NEW c \in Challenge, ChallengeExpires(c)
         PROVE  FactorInv' /\ Challenges!Next
    <2>1. /\ pending[c] = "live" /\ pending' = [pending EXCEPT ![c] = "gone"]
          /\ factor' = factor /\ otp' = otp /\ logins' = logins
      BY <1>14 DEF ChallengeExpires
    <2>2. FactorInv'
      BY <1>0, <2>1 DEF FactorInv, FactorTypeOK, FactorFits
    <2>3. /\ LiveChallenges' = LiveChallenges \ {c} /\ GoneChallenges' = GoneChallenges \union {c}
          /\ c \in LiveChallenges
      BY <1>0, <2>1 DEF LiveChallenges, GoneChallenges
    <2>4. Challenges!Issue({}, {c})
      BY <2>1, <2>3 DEF LiveChallenges, GoneChallenges, Challenges!Issue
    <2>. QED
      BY <2>2, <2>4 DEF Challenges!Next
  <1>. QED
    BY <1>1, <1>2, <1>3, <1>4, <1>5, <1>6, <1>7, <1>8, <1>9, <1>10, <1>11, <1>12, <1>13, <1>14
    DEF FactorNext

(* verify_mfa and complete_login: a challenge that was deleted, or that has    *)
(* expired, completes no login of a request that comes after it.              *)
THEOREM ChallengesRefine == FactorSpec => ChallengesAreOneTime
PROOF
  <1>1. FactorInit => FactorInv
    BY NoFactorFits DEF FactorInit, FactorInv, FactorTypeOK, FactorFits, NoOtp, OtpRow
  <1>2. FactorInit => Challenges!Init
    BY NoFactorFits DEF FactorInit, Challenges!Init
  <1>. QED
    BY <1>1, <1>2, FactorStep, PTL DEF FactorSpec, ChallengesAreOneTime, Challenges!Spec

-----------------------------------------------------------------------------
(* The password.  Whatever set of pending requests one takes, what their        *)
(* commits will leave of the tickets and of the history, with one row for each *)
(* of them, stays within the bound.                                          *)

HashRow   == [id : Nat, hash : Password \union {None}]
ChangeRow == [pc : {"idle", "archive", "set", "commit", "issue"}, row : Nat,
              saw : Password \union {None}, new : Password \union {None},
              with : Ticket \union {None}, drop : SUBSET HashRow, revoke : SUBSET Ticket]

PasswordTypeOK ==
  /\ password \in Password \union {None}
  /\ archive \in SUBSET HashRow /\ changes \in Nat
  /\ ticket \in [Ticket -> TicketStates]
  /\ change \in [Request -> ChangeRow]
  /\ resets \in [Ticket -> Nat]

Issuers   == {p \in Request : change[p].pc = "issue"}
Archivers == {p \in Request : change[p].pc \in {"set", "commit"}}

TicketFits(r) ==
  /\ r.pc = "issue" => r.with \in Ticket /\ ticket[r.with] = "none"
  /\ r.pc \in {"archive", "set", "commit"} /\ r.with # None => ticket[r.with] # "none"

RowFits(r) ==
  r.pc \in {"set", "commit"} => r.row <= changes /\ \A x \in archive : x.id # r.row

ChangesApart(r, s) ==
  /\ r.pc = "issue" => s.with # r.with
  /\ r.pc \in {"set", "commit"} /\ s.pc \in {"set", "commit"} => r.row # s.row

IdsApart == \A x, y \in archive : x.id <= changes /\ (x.id = y.id => x = y)

KeptTickets(S) == {t \in LiveTickets : \A s \in S : t \notin change[s].revoke}
KeptRows(S)    == {x \in archive : \A s \in S : x \notin change[s].drop}

FewTickets ==
  /\ IsFiniteSet(LiveTickets)
  /\ \A S \in SUBSET Request : S \subseteq Issuers =>
       Cardinality(KeptTickets(S)) + Cardinality(S) <= Cardinality(Request)

FewRows ==
  /\ IsFiniteSet(archive)
  /\ \A S \in SUBSET Request : S \subseteq Archivers =>
       Cardinality(KeptRows(S)) + Cardinality(S) <= HistoryLength - 1 + Cardinality(Request)

PasswordInv ==
  /\ PasswordTypeOK /\ IdsApart /\ FewTickets /\ FewRows
  /\ \A p \in Request : TicketFits(change[p]) /\ RowFits(change[p])
  /\ \A p, q \in Request : p # q => ChangesApart(change[p], change[q])

(* Of rows with ids of their own, the n newest are at most n.                  *)
LEMMA NewestAreFew ==
  ASSUME NEW rows \in SUBSET HashRow, IsFiniteSet(rows), NEW n \in Nat,
         \A x, y \in rows : x.id = y.id => x = y
  PROVE  IsFiniteSet(Newest(n, rows)) /\ Cardinality(Newest(n, rows)) <= n
PROOF
  <1> DEFINE top == Newest(n, rows)
             after(r) == {s \in rows : s.id > r.id}
  <1>1. top \in SUBSET rows /\ \A r \in top : Cardinality(after(r)) < n
    BY DEF Newest
  <1>2. IsFiniteSet(top)
    BY <1>1, FS_Subset
  <1>3. CASE top = {}
    BY <1>2, <1>3, FS_EmptySet
  <1>4. CASE top # {}
    <2>1. {r.id : r \in top} \in SUBSET Nat /\ {r.id : r \in top} # {}
      BY <1>1, <1>4 DEF HashRow
    <2>2. PICK m \in {r.id : r \in top} : \A k \in {r.id : r \in top} : m <= k
      BY <2>1, LeastNumber
    <2>3. PICK r \in top : \A s \in top : r.id <= s.id
      BY <2>2
    <2>4. top \ {r} \in SUBSET after(r)
      <3>1. ASSUME NEW s \in top, s # r PROVE s.id > r.id
        <4>1. s \in rows /\ r \in rows /\ s.id \in Nat /\ r.id \in Nat
          BY <1>1 DEF HashRow
        <4>2. s.id # r.id /\ r.id <= s.id
          BY <2>3, <3>1, <4>1
        <4>. QED
          BY <4>1, <4>2
      <3>. QED
        BY <1>1, <3>1
    <2>5. after(r) \in SUBSET rows /\ Cardinality(after(r)) < n
      BY <1>1
    <2> HIDE DEF top, after
    <2>6. IsFiniteSet(after(r)) /\ Cardinality(after(r)) \in Nat
      BY <2>5, FS_Subset, FS_CardinalityType
    <2>7. Cardinality(top \ {r}) <= Cardinality(after(r))
      BY <2>4, <2>6, FS_Subset
    <2>8. Cardinality(top \ {r}) = Cardinality(top) - 1 /\ Cardinality(top) \in Nat
      BY <1>2, <2>3, FS_RemoveElement, FS_CardinalityType
    <2>9. Cardinality(top) <= n
      BY <2>5, <2>6, <2>7, <2>8
    <2>. QED
      BY <1>2, <2>9 DEF top
  <1>. QED
    BY <1>3, <1>4

LEMMA TicketsShrink ==
  ASSUME PasswordInv, LiveTickets' \subseteq LiveTickets,
         \A q \in Request : change'[q].pc = "issue" =>
                              change[q].pc = "issue" /\ change'[q].revoke = change[q].revoke
  PROVE  FewTickets'
PROOF
  <1>1. IsFiniteSet(LiveTickets) /\ IsFiniteSet(LiveTickets')
    BY FS_Subset DEF PasswordInv, FewTickets
  <1>2. ASSUME NEW S \in SUBSET Request, S \subseteq Issuers'
        PROVE  Cardinality(KeptTickets(S)') + Cardinality(S) <= Cardinality(Request)
    <2>1. S \subseteq Issuers /\ KeptTickets(S)' \in SUBSET KeptTickets(S)
      BY <1>2 DEF Issuers, KeptTickets
    <2>2. IsFiniteSet(KeptTickets(S))
      <3>1. KeptTickets(S) \in SUBSET LiveTickets
        BY DEF KeptTickets
      <3>. QED
        BY <1>1, <3>1, FS_Subset
    <2>3. /\ Cardinality(KeptTickets(S)') <= Cardinality(KeptTickets(S))
          /\ Cardinality(KeptTickets(S)') \in Nat /\ Cardinality(KeptTickets(S)) \in Nat
      BY <2>1, <2>2, FS_Subset, FS_CardinalityType
    <2>4. Cardinality(KeptTickets(S)) + Cardinality(S) <= Cardinality(Request)
      BY <2>1 DEF PasswordInv, FewTickets
    <2>. QED
      BY <2>3, <2>4, PendingIsFinite
  <1>. QED
    BY <1>1, <1>2 DEF FewTickets

LEMMA RowsShrink ==
  ASSUME PasswordInv, archive' \subseteq archive,
         \A q \in Request : change'[q].pc \in {"set", "commit"} =>
                              change[q].pc \in {"set", "commit"} /\ change'[q].drop = change[q].drop
  PROVE  FewRows'
PROOF
  <1>1. IsFiniteSet(archive) /\ IsFiniteSet(archive')
    BY FS_Subset DEF PasswordInv, FewRows
  <1>2. ASSUME NEW S \in SUBSET Request, S \subseteq Archivers'
        PROVE  Cardinality(KeptRows(S)') + Cardinality(S) <= HistoryLength - 1 + Cardinality(Request)
    <2>1. S \subseteq Archivers /\ KeptRows(S)' \in SUBSET KeptRows(S)
      BY <1>2 DEF Archivers, KeptRows
    <2>2. IsFiniteSet(KeptRows(S))
      <3>1. KeptRows(S) \in SUBSET archive
        BY DEF KeptRows
      <3>. QED
        BY <1>1, <3>1, FS_Subset
    <2>3. /\ Cardinality(KeptRows(S)') <= Cardinality(KeptRows(S))
          /\ Cardinality(KeptRows(S)') \in Nat /\ Cardinality(KeptRows(S)) \in Nat
      BY <2>1, <2>2, FS_Subset, FS_CardinalityType
    <2>4. Cardinality(KeptRows(S)) + Cardinality(S) <= HistoryLength - 1 + Cardinality(Request)
      BY <2>1 DEF PasswordInv, FewRows
    <2>. QED
      BY <2>3, <2>4, PendingIsFinite, HistoryAssumption, RequestsAreFinite, FS_CardinalityType
  <1>. QED
    BY <1>1, <1>2 DEF FewRows

(* A request that goes on, while the tickets and the history stay. *)
LEMMA ChangeGoesOn ==
  ASSUME PasswordInv, NEW p \in Request, NEW r \in ChangeRow, change' = [change EXCEPT ![p] = r],
         password' = password, archive' = archive, ticket' = ticket, resets' = resets,
         changes' \in Nat, changes <= changes', TicketFits(r),
         \A q \in Request \ {p} : ChangesApart(r, change[q]) /\ ChangesApart(change[q], r),
         r.pc \in {"set", "commit"} => r.row <= changes' /\ \A x \in archive : x.id # r.row,
         FewTickets', FewRows'
  PROVE  PasswordInv'
PROOF
  <1>1. change'[p] = r /\ \A q \in Request \ {p} : change'[q] = change[q]
    BY DEF PasswordInv, PasswordTypeOK
  <1>2. PasswordTypeOK'
    BY DEF PasswordInv, PasswordTypeOK
  <1>3. IdsApart'
    <2>1. \A x \in archive : x.id \in Nat
      BY DEF PasswordInv, PasswordTypeOK, HashRow
    <2>. QED
      BY <2>1 DEF PasswordInv, PasswordTypeOK, IdsApart
  <1>4. \A q \in Request : TicketFits(change[q])' /\ RowFits(change[q])'
    <2>1. ASSUME NEW q \in Request \ {p} PROVE TicketFits(change[q])' /\ RowFits(change[q])'
      <3>1. TicketFits(change[q]) /\ RowFits(change[q]) /\ change[q].row \in Nat /\ changes \in Nat
        BY DEF PasswordInv, PasswordTypeOK, ChangeRow
      <3>. QED
        BY <1>1, <3>1 DEF TicketFits, RowFits
    <2>2. TicketFits(change[p])' /\ RowFits(change[p])'
      BY <1>1 DEF TicketFits, RowFits
    <2>. QED
      BY <2>1, <2>2
  <1>5. \A x, q \in Request : x # q => ChangesApart(change[x], change[q])'
    BY <1>1 DEF PasswordInv, ChangesApart
  <1>. QED
    BY <1>2, <1>3, <1>4, <1>5 DEF PasswordInv

(* Tickets that are withdrawn while no request moves. *)
LEMMA TicketsWithdrawn ==
  ASSUME PasswordInv, UNCHANGED <<password, archive, changes, change, resets>>,
         ticket' \in [Ticket -> TicketStates], LiveTickets' \subseteq LiveTickets,
         \A t \in Ticket : (ticket'[t] = "none") <=> (ticket[t] = "none")
  PROVE  PasswordInv'
PROOF
  <1>1. FewTickets' /\ FewRows'
    BY TicketsShrink, RowsShrink
  <1>2. \A p \in Request : TicketFits(change[p])'
    <2>1. TAKE p \in Request
    <2>2. TicketFits(change[p]) /\ change[p].with \in Ticket \union {None}
      BY DEF PasswordInv, PasswordTypeOK, ChangeRow
    <2>. QED
      BY <2>2 DEF TicketFits
  <1>. QED
    BY <1>1, <1>2 DEF PasswordInv, PasswordTypeOK, IdsApart, RowFits, ChangesApart

LEMMA NoChangeFits ==
  /\ NoChange \in ChangeRow /\ NoChange.pc = "idle" /\ NoChange.with = None
  /\ TicketFits(NoChange)
BY DEF NoChange, ChangeRow, TicketFits

LEMMA StartKeepsInv ==
  ASSUME PasswordInv, NEW p \in Request, NEW w \in Password, NEW t \in Ticket \union {None},
         StartsChange(p, w, t), t # None => ticket[t] = "live"
  PROVE  PasswordInv'
PROOF
  <1> DEFINE r == [NoChange EXCEPT !.pc = "archive", !.saw = password, !.new = w, !.with = t]
  <1>1. r \in ChangeRow /\ r.pc = "archive" /\ r.with = t
    BY NoChangeFits DEF PasswordInv, PasswordTypeOK, ChangeRow
  <1>2. /\ change' = [change EXCEPT ![p] = r] /\ password' = password /\ archive' = archive
        /\ changes' = changes /\ ticket' = ticket /\ resets' = resets /\ changes \in Nat
    BY DEF StartsChange, passwordDb, PasswordInv, PasswordTypeOK
  <1> HIDE DEF r
  <1>3. TicketFits(r)
    BY <1>1 DEF TicketFits
  <1>4. \A q \in Request \ {p} : ChangesApart(r, change[q]) /\ ChangesApart(change[q], r)
    <2>1. TAKE q \in Request \ {p}
    <2>2. TicketFits(change[q]) /\ (change[q].pc = "issue" => change[q].with # t)
      BY NoneIsNoTicket DEF PasswordInv, TicketFits
    <2>. QED
      BY <1>1, <2>2 DEF ChangesApart
  <1>5. \A q \in Request : /\ change'[q].pc = "issue" => change[q].pc = "issue" /\ change'[q] = change[q]
                           /\ change'[q].pc \in {"set", "commit"} =>
                                change[q].pc \in {"set", "commit"} /\ change'[q] = change[q]
    BY <1>1, <1>2 DEF PasswordInv, PasswordTypeOK
  <1>6. FewTickets' /\ FewRows'
    BY <1>2, <1>5, TicketsShrink, RowsShrink DEF LiveTickets
  <1>7. changes' \in Nat /\ changes <= changes'
    BY <1>2
  <1>8. r.pc \notin {"set", "commit"}
    BY <1>1
  <1>. QED
    BY <1>1, <1>2, <1>3, <1>4, <1>6, <1>7, <1>8, ChangeGoesOn

(* The rows that survive the trimming are fewer than the bound by one. *)
LEMMA ArchiveKeepsInv ==
  ASSUME PasswordInv, NEW p \in Request, ArchiveOld(p)
  PROVE  PasswordInv'
PROOF
  <1> DEFINE drop == archive \ Newest(HistoryLength - 1, archive)
             r == [change[p] EXCEPT !.pc = "set", !.row = changes + 1, !.drop = drop]
  <1>0. /\ change[p] \in ChangeRow /\ changes \in Nat /\ archive \in SUBSET HashRow
        /\ change[p].pc = "archive" /\ TicketFits(change[p]) /\ RowFits(change[p])
    BY DEF PasswordInv, PasswordTypeOK, ArchiveOld
  <1>1. /\ r \in ChangeRow /\ r.pc = "set" /\ r.with = change[p].with /\ r.row = changes + 1
        /\ r.drop = drop
    <2>1. drop \in SUBSET HashRow /\ changes + 1 \in Nat
      BY <1>0
    <2> HIDE DEF drop
    <2>. QED
      BY <1>0, <2>1 DEF ChangeRow
  <1>2. /\ change' = [change EXCEPT ![p] = r] /\ password' = password /\ archive' = archive
        /\ changes' = changes + 1 /\ ticket' = ticket /\ resets' = resets
    BY DEF ArchiveOld
  <1> HIDE DEF r
  <1>3. TicketFits(r)
    BY <1>0, <1>1 DEF TicketFits
  <1>4. \A q \in Request \ {p} : ChangesApart(r, change[q]) /\ ChangesApart(change[q], r)
    <2>1. TAKE q \in Request \ {p}
    <2>2. ChangesApart(change[q], change[p]) /\ RowFits(change[q]) /\ change[q].row \in Nat
      BY DEF PasswordInv, PasswordTypeOK, ChangeRow
    <2>. QED
      BY <1>0, <1>1, <2>2 DEF ChangesApart, RowFits
  <1>5. r.row <= changes' /\ \A x \in archive : x.id # r.row
    <2>1. \A x \in archive : x.id \in Nat /\ x.id <= changes
      BY DEF PasswordInv, PasswordTypeOK, HashRow, IdsApart
    <2>. QED
      BY <1>0, <1>1, <1>2, <2>1
  <1>6. change'[p] = r /\ \A q \in Request \ {p} : change'[q] = change[q]
    BY <1>2 DEF PasswordInv, PasswordTypeOK
  <1>7. FewTickets'
    BY <1>1, <1>2, <1>6, TicketsShrink DEF LiveTickets
  <1>8. FewRows'
    <2>1. IsFiniteSet(archive)
      BY DEF PasswordInv, FewRows
    <2>2. HistoryLength - 1 \in Nat /\ Cardinality(Request) \in Nat
      BY HistoryAssumption, RequestsAreFinite, FS_CardinalityType
    <2>3. ASSUME NEW S \in SUBSET Request, S \subseteq Archivers'
          PROVE  Cardinality(KeptRows(S)') + Cardinality(S)
                   <= HistoryLength - 1 + Cardinality(Request)
      <3>1. CASE p \in S
        <4>1. KeptRows(S)' \in SUBSET Newest(HistoryLength - 1, archive)
          BY <1>1, <1>2, <1>6, <3>1 DEF KeptRows
        <4>2. /\ IsFiniteSet(Newest(HistoryLength - 1, archive))
              /\ Cardinality(Newest(HistoryLength - 1, archive)) <= HistoryLength - 1
          BY <1>0, <2>1, <2>2, NewestAreFew DEF PasswordInv, IdsApart
        <4>3. /\ Cardinality(KeptRows(S)') <= Cardinality(Newest(HistoryLength - 1, archive))
              /\ Cardinality(KeptRows(S)') \in Nat
              /\ Cardinality(Newest(HistoryLength - 1, archive)) \in Nat
          BY <4>1, <4>2, FS_Subset, FS_CardinalityType
        <4>. QED
          BY <2>2, <4>2, <4>3, PendingIsFinite
      <3>2. CASE p \notin S
        <4>1. S \subseteq Archivers /\ KeptRows(S)' = KeptRows(S)
          BY <1>2, <1>6, <2>3, <3>2 DEF Archivers, KeptRows
        <4>. QED
          BY <4>1 DEF PasswordInv, FewRows
      <3>. QED
        BY <3>1, <3>2
    <2>. QED
      BY <1>2, <2>1, <2>3 DEF FewRows
  <1>9. changes' \in Nat /\ changes <= changes'
    BY <1>0, <1>2
  <1> HIDE DEF drop
  <1>. QED
    BY <1>1, <1>2, <1>3, <1>4, <1>5, <1>7, <1>8, <1>9, ChangeGoesOn

LEMMA SetKeepsInv ==
  ASSUME PasswordInv, NEW p \in Request, SetPassword(p)
  PROVE  PasswordInv'
PROOF
  <1> DEFINE r == [change[p] EXCEPT !.pc = "commit"]
  <1>0. /\ change[p] \in ChangeRow /\ changes \in Nat /\ change[p].pc = "set"
        /\ TicketFits(change[p]) /\ RowFits(change[p])
    BY DEF PasswordInv, PasswordTypeOK, SetPassword
  <1>1. /\ r \in ChangeRow /\ r.pc = "commit" /\ r.with = change[p].with
        /\ r.row = change[p].row /\ r.drop = change[p].drop
    BY <1>0 DEF ChangeRow
  <1>2. /\ change' = [change EXCEPT ![p] = r] /\ password' = password /\ archive' = archive
        /\ changes' = changes /\ ticket' = ticket /\ resets' = resets
    BY DEF SetPassword, passwordDb
  <1> HIDE DEF r
  <1>3. TicketFits(r) /\ r.row <= changes /\ \A x \in archive : x.id # r.row
    BY <1>0, <1>1 DEF TicketFits, RowFits
  <1>4. \A q \in Request \ {p} : ChangesApart(r, change[q]) /\ ChangesApart(change[q], r)
    BY <1>0, <1>1 DEF PasswordInv, ChangesApart
  <1>5. change'[p] = r /\ \A q \in Request \ {p} : change'[q] = change[q]
    BY <1>2 DEF PasswordInv, PasswordTypeOK
  <1>6. FewTickets'
    BY <1>1, <1>2, <1>5, TicketsShrink DEF LiveTickets
  <1>7. FewRows'
    BY <1>0, <1>1, <1>2, <1>5, RowsShrink
  <1>8. changes' \in Nat /\ changes <= changes' /\ r.row <= changes'
    BY <1>0, <1>2, <1>3
  <1>. QED
    BY <1>1, <1>2, <1>3, <1>4, <1>6, <1>7, <1>8, ChangeGoesOn

LEMMA AbortKeepsInv ==
  ASSUME PasswordInv, NEW p \in Request, AbortChange(p)
  PROVE  PasswordInv'
PROOF
  <1>1. /\ change' = [change EXCEPT ![p] = NoChange] /\ password' = password /\ archive' = archive
        /\ changes' = changes /\ ticket' = ticket /\ resets' = resets /\ changes \in Nat
    BY DEF AbortChange, passwordDb, PasswordInv, PasswordTypeOK
  <1>2. \A q \in Request \ {p} : ChangesApart(NoChange, change[q]) /\ ChangesApart(change[q], NoChange)
    <2>1. TAKE q \in Request \ {p}
    <2>2. TicketFits(change[q])
      BY DEF PasswordInv
    <2>. QED
      BY <2>2, NoChangeFits, NoneIsNoTicket DEF ChangesApart, TicketFits
  <1>3. change'[p] = NoChange /\ \A q \in Request \ {p} : change'[q] = change[q]
    BY <1>1 DEF PasswordInv, PasswordTypeOK
  <1>4. FewTickets' /\ FewRows'
    BY <1>1, <1>3, NoChangeFits, TicketsShrink, RowsShrink DEF LiveTickets
  <1>5. changes' \in Nat /\ changes <= changes' /\ NoChange.pc \notin {"set", "commit"}
    BY <1>1, NoChangeFits
  <1>. QED
    BY <1>1, <1>2, <1>4, <1>5, NoChangeFits, ChangeGoesOn

(* A new ticket withdraws those its request has seen. *)
LEMMA BeginTicketKeepsInv ==
  ASSUME PasswordInv, NEW p \in Request, NEW t \in Ticket, BeginTicket(p, t)
  PROVE  PasswordInv'
PROOF
  <1> DEFINE r == [NoChange EXCEPT !.pc = "issue", !.with = t, !.revoke = LiveTickets]
  <1>1. r \in ChangeRow /\ r.pc = "issue" /\ r.with = t /\ r.revoke = LiveTickets
    BY NoChangeFits DEF ChangeRow, LiveTickets
  <1>2. /\ change' = [change EXCEPT ![p] = r] /\ password' = password /\ archive' = archive
        /\ changes' = changes /\ ticket' = ticket /\ resets' = resets
        /\ ticket[t] = "none" /\ \A q \in Request : change[q].with # t
    BY DEF BeginTicket, passwordDb
  <1> HIDE DEF r
  <1>3. TicketFits(r) /\ changes' \in Nat /\ changes <= changes' /\ r.pc \notin {"set", "commit"}
    BY <1>1, <1>2 DEF TicketFits, PasswordInv, PasswordTypeOK
  <1>4. \A q \in Request \ {p} : ChangesApart(r, change[q]) /\ ChangesApart(change[q], r)
    BY <1>1, <1>2 DEF ChangesApart
  <1>5. change'[p] = r /\ \A q \in Request \ {p} : change'[q] = change[q]
    BY <1>2 DEF PasswordInv, PasswordTypeOK
  <1>6. FewRows'
    BY <1>1, <1>2, <1>5, RowsShrink
  <1>7. FewTickets'
    <2>1. IsFiniteSet(LiveTickets) /\ LiveTickets' = LiveTickets
      BY <1>2 DEF PasswordInv, FewTickets, LiveTickets
    <2>2. ASSUME NEW S \in SUBSET Request, S \subseteq Issuers'
          PROVE  Cardinality(KeptTickets(S)') + Cardinality(S) <= Cardinality(Request)
      <3>1. CASE p \in S
        <4>1. KeptTickets(S)' = {}
          BY <1>1, <1>5, <2>1, <3>1 DEF KeptTickets
        <4>. QED
          BY <4>1, FS_EmptySet, PendingIsFinite
      <3>2. CASE p \notin S
        <4>1. S \subseteq Issuers /\ KeptTickets(S)' = KeptTickets(S)
          BY <1>5, <2>1, <2>2, <3>2 DEF Issuers, KeptTickets
        <4>. QED
          BY <4>1 DEF PasswordInv, FewTickets
      <3>. QED
        BY <3>1, <3>2
    <2>. QED
      BY <2>1, <2>2 DEF FewTickets
  <1>. QED
    BY <1>1, <1>2, <1>3, <1>4, <1>6, <1>7, ChangeGoesOn

(* A request that ends: what the others have read stands. *)
LEMMA ChangeEnds ==
  ASSUME PasswordInv, NEW p \in Request, change' = [change EXCEPT ![p] = NoChange],
         PasswordTypeOK', IdsApart', FewTickets', FewRows',
         \A q \in Request \ {p} : TicketFits(change[q])' /\ RowFits(change[q])'
  PROVE  PasswordInv'
PROOF
  <1>1. change'[p] = NoChange /\ \A q \in Request \ {p} : change'[q] = change[q]
    BY DEF PasswordInv, PasswordTypeOK
  <1>2. TicketFits(change[p])' /\ RowFits(change[p])'
    BY <1>1, NoChangeFits DEF TicketFits, RowFits
  <1>3. \A x, q \in Request : x # q => ChangesApart(change[x], change[q])'
    <2>1. \A q \in Request : change[q].pc = "issue" => change[q].with # None
      BY NoneIsNoTicket DEF PasswordInv, TicketFits
    <2>. QED
      BY <1>1, <2>1, NoChangeFits DEF PasswordInv, ChangesApart
  <1>. QED
    BY <1>2, <1>3 DEF PasswordInv

LEMMA CommitTicketKeepsInv ==
  ASSUME PasswordInv, NEW p \in Request, CommitTicket(p)
  PROVE  PasswordInv'
PROOF
  <1> DEFINE r == change[p]
  <1>0. /\ r \in ChangeRow /\ r.pc = "issue" /\ r.with \in Ticket /\ ticket[r.with] = "none"
        /\ ticket \in [Ticket -> TicketStates]
    BY DEF PasswordInv, PasswordTypeOK, TicketFits, CommitTicket
  <1>1. /\ change' = [change EXCEPT ![p] = NoChange] /\ password' = password /\ archive' = archive
        /\ changes' = changes /\ resets' = resets
        /\ ticket' = [t \in Ticket |-> IF t = r.with THEN "live"
                                       ELSE IF t \in r.revoke \intersect LiveTickets THEN "revoked"
                                       ELSE ticket[t]]
    BY DEF CommitTicket
  <1>2. change'[p] = NoChange /\ \A q \in Request \ {p} : change'[q] = change[q]
    BY <1>1 DEF PasswordInv, PasswordTypeOK
  <1>3. PasswordTypeOK' /\ IdsApart'
    BY <1>1, NoChangeFits DEF PasswordInv, PasswordTypeOK, IdsApart, TicketStates
  <1>4. FewRows'
    BY <1>1, <1>2, NoChangeFits, RowsShrink
  <1>5. LiveTickets' = (LiveTickets \ r.revoke) \union {r.with} /\ r.with \notin LiveTickets
    BY <1>0, <1>1 DEF LiveTickets
  <1>6. \A q \in Request \ {p} : TicketFits(change[q])' /\ RowFits(change[q])'
    <2>1. TAKE q \in Request \ {p}
    <2>2. /\ TicketFits(change[q]) /\ RowFits(change[q]) /\ ChangesApart(r, change[q])
          /\ change[q].with \in Ticket \union {None}
      BY DEF PasswordInv, PasswordTypeOK, ChangeRow
    <2>3. RowFits(change[q])'
      BY <1>1, <1>2, <2>2 DEF RowFits
    <2>4. TicketFits(change[q])'
      BY <1>0, <1>1, <1>2, <2>2 DEF TicketFits, ChangesApart, LiveTickets
    <2>. QED
      BY <2>3, <2>4
  <1>7. FewTickets'
    <2>1. IsFiniteSet(LiveTickets) /\ IsFiniteSet(LiveTickets')
      <3>1. IsFiniteSet(LiveTickets) /\ IsFiniteSet(LiveTickets \ r.revoke)
        BY FS_Subset DEF PasswordInv, FewTickets
      <3>. QED
        BY <1>5, <3>1, FS_AddElement
    <2>2. ASSUME NEW S \in SUBSET Request, S \subseteq Issuers'
          PROVE  Cardinality(KeptTickets(S)') + Cardinality(S) <= Cardinality(Request)
      <3> DEFINE T == S \union {p}
                 kept == KeptTickets(T)
      <3>1. p \notin S /\ T \in SUBSET Request /\ T \subseteq Issuers
        BY <1>0, <1>2, <2>2, NoChangeFits DEF Issuers
      <3>2. Cardinality(kept) + Cardinality(T) <= Cardinality(Request)
        BY <3>1 DEF PasswordInv, FewTickets
      <3>3. Cardinality(T) = Cardinality(S) + 1 /\ Cardinality(S) \in Nat
        BY <3>1, PendingIsFinite, FS_AddElement
      <3>4. KeptTickets(S)' \in SUBSET (kept \union {r.with})
        BY <1>2, <1>5, <3>1 DEF KeptTickets
      <3>5. IsFiniteSet(kept) /\ r.with \notin kept
        <4>1. kept \in SUBSET LiveTickets
          BY DEF KeptTickets
        <4>. QED
          BY <1>5, <2>1, <4>1, FS_Subset
      <3> HIDE DEF kept, T, r
      <3>6. /\ IsFiniteSet(kept \union {r.with}) /\ Cardinality(kept \union {r.with}) = Cardinality(kept) + 1
            /\ Cardinality(kept) \in Nat
        BY <3>5, FS_AddElement, FS_CardinalityType
      <3>7. /\ Cardinality(KeptTickets(S)') <= Cardinality(kept \union {r.with})
            /\ Cardinality(KeptTickets(S)') \in Nat
        BY <3>4, <3>6, FS_Subset, FS_CardinalityType
      <3>. QED
        BY <3>2, <3>3, <3>6, <3>7, PendingIsFinite
    <2>. QED
      BY <2>1, <2>2 DEF FewTickets
  <1> HIDE DEF r
  <1>. QED
    BY <1>1, <1>3, <1>4, <1>6, <1>7, ChangeEnds

LEMMA CommitChangeKeepsInv ==
  ASSUME PasswordInv, NEW p \in Request, CommitChange(p)
  PROVE  PasswordInv'
PROOF
  <1> DEFINE r == change[p]
             row == [id |-> r.row, hash |-> r.saw]
  <1>0. /\ r \in ChangeRow /\ r.pc = "commit" /\ TicketFits(r) /\ RowFits(r)
        /\ ticket \in [Ticket -> TicketStates] /\ resets \in [Ticket -> Nat]
        /\ archive \in SUBSET HashRow /\ changes \in Nat
    BY DEF PasswordInv, PasswordTypeOK, CommitChange
  <1>1. /\ change' = [change EXCEPT ![p] = NoChange] /\ password' = r.new /\ changes' = changes
        /\ archive' = (archive \ r.drop) \union {row}
        /\ ticket' = [t \in Ticket |-> IF t = r.with THEN "used" ELSE ticket[t]]
        /\ resets' = [t \in Ticket |-> IF t = r.with THEN resets[t] + 1 ELSE resets[t]]
    BY DEF CommitChange
  <1>2. change'[p] = NoChange /\ \A q \in Request \ {p} : change'[q] = change[q]
    BY <1>1 DEF PasswordInv, PasswordTypeOK
  <1>3. row \in HashRow /\ row.id = r.row /\ row \notin archive /\ r.row \in Nat
    BY <1>0 DEF ChangeRow, HashRow, RowFits
  <1> HIDE DEF row
  <1>4. PasswordTypeOK'
    <2>1. ticket' \in [Ticket -> TicketStates] /\ resets' \in [Ticket -> Nat]
      BY <1>0, <1>1 DEF TicketStates
    <2>2. password' \in Password \union {None} /\ archive' \in SUBSET HashRow
      BY <1>0, <1>1, <1>3 DEF ChangeRow
    <2>3. change' \in [Request -> ChangeRow]
      BY <1>1, NoChangeFits DEF PasswordInv, PasswordTypeOK
    <2>. QED
      BY <1>0, <1>1, <2>1, <2>2, <2>3 DEF PasswordTypeOK
  <1>5. IdsApart'
    BY <1>0, <1>1, <1>3 DEF PasswordInv, IdsApart, RowFits
  <1>6. LiveTickets' \subseteq LiveTickets
    BY <1>1 DEF LiveTickets
  <1>7. FewTickets'
    BY <1>2, <1>6, NoChangeFits, TicketsShrink
  <1>8. \A q \in Request \ {p} : TicketFits(change[q])' /\ RowFits(change[q])'
    <2>1. TAKE q \in Request \ {p}
    <2>2. /\ TicketFits(change[q]) /\ RowFits(change[q])
          /\ ChangesApart(r, change[q]) /\ ChangesApart(change[q], r)
          /\ change[q].with \in Ticket \union {None}
      BY DEF PasswordInv, PasswordTypeOK, ChangeRow
    <2>3. RowFits(change[q])'
      BY <1>0, <1>1, <1>2, <1>3, <2>2 DEF RowFits, ChangesApart
    <2>4. TicketFits(change[q])'
      BY <1>1, <1>2, <2>2 DEF TicketFits, ChangesApart
    <2>. QED
      BY <2>3, <2>4
  <1>9. FewRows'
    <2>1. IsFiniteSet(archive) /\ IsFiniteSet(archive')
      <3>1. IsFiniteSet(archive) /\ IsFiniteSet(archive \ r.drop)
        BY FS_Subset DEF PasswordInv, FewRows
      <3>. QED
        BY <1>1, <3>1, FS_AddElement
    <2>2. ASSUME NEW S \in SUBSET Request, S \subseteq Archivers'
          PROVE  Cardinality(KeptRows(S)') + Cardinality(S)
                   <= HistoryLength - 1 + Cardinality(Request)
      <3> DEFINE T == S \union {p}
                 kept == KeptRows(T)
      <3>1. p \notin S /\ T \in SUBSET Request /\ T \subseteq Archivers
        BY <1>0, <1>2, <2>2, NoChangeFits DEF Archivers
      <3>2. Cardinality(kept) + Cardinality(T) <= HistoryLength - 1 + Cardinality(Request)
        BY <3>1 DEF PasswordInv, FewRows
      <3>3. Cardinality(T) = Cardinality(S) + 1 /\ Cardinality(S) \in Nat
        BY <3>1, PendingIsFinite, FS_AddElement
      <3>4. KeptRows(S)' \in SUBSET (kept \union {row})
        BY <1>1, <1>2, <3>1 DEF KeptRows
      <3>5. IsFiniteSet(kept) /\ row \notin kept
        <4>1. kept \in SUBSET archive
          BY DEF KeptRows
        <4>. QED
          BY <1>3, <2>1, <4>1, FS_Subset
      <3> HIDE DEF kept, T, r
      <3>6. /\ IsFiniteSet(kept \union {row}) /\ Cardinality(kept \union {row}) = Cardinality(kept) + 1
            /\ Cardinality(kept) \in Nat
        BY <3>5, FS_AddElement, FS_CardinalityType
      <3>7. /\ Cardinality(KeptRows(S)') <= Cardinality(kept \union {row})
            /\ Cardinality(KeptRows(S)') \in Nat
        BY <3>4, <3>6, FS_Subset, FS_CardinalityType
      <3>8. HistoryLength - 1 \in Nat /\ Cardinality(Request) \in Nat
        BY HistoryAssumption, RequestsAreFinite, FS_CardinalityType
      <3>. QED
        BY <3>2, <3>3, <3>6, <3>7, <3>8
    <2>. QED
      BY <2>1, <2>2 DEF FewRows
  <1> HIDE DEF r
  <1>. QED
    BY <1>1, <1>4, <1>5, <1>7, <1>8, <1>9, ChangeEnds

LEMMA PasswordCases ==
  ASSUME PasswordNext
  PROVE  \/ \E p \in Request, w \in Password, t \in Ticket \union {None} :
              StartsChange(p, w, t) /\ (t # None => ticket[t] = "live")
         \/ \E p \in Request : \/ ArchiveOld(p) \/ SetPassword(p) \/ CommitChange(p) \/ Forgot(p)
                               \/ CommitTicket(p) \/ AbortChange(p)
         \/ \E p \in Request, t \in Ticket : BeginTicket(p, t)
         \/ \E t \in Ticket : TicketExpires(t)
         \/ StatusChanges
PROOF
  <1>1. ASSUME NEW p \in Request, NEW w \in Password, BeginRotate(p, w) \/ BeginAdminReset(p, w)
        PROVE  StartsChange(p, w, None)
    BY <1>1 DEF BeginRotate, BeginAdminReset
  <1>2. ASSUME NEW p \in Request, NEW w \in Password, NEW t \in Ticket, BeginReset(p, w, t)
        PROVE  StartsChange(p, w, t) /\ ticket[t] = "live"
    BY <1>2 DEF BeginReset
  <1>. QED
    BY <1>1, <1>2 DEF PasswordNext

LEMMA PasswordStep == PasswordInv /\ [PasswordNext]_passwordVars => PasswordInv'
PROOF
  <1>. SUFFICES ASSUME PasswordInv, [PasswordNext]_passwordVars PROVE PasswordInv'
    OBVIOUS
  <1>1. CASE UNCHANGED passwordVars
    BY <1>1, TicketsWithdrawn DEF passwordVars, PasswordInv, PasswordTypeOK, LiveTickets
  <1>2. ASSUME NEW p \in Request, Forgot(p) PROVE PasswordInv'
    <2>1. /\ ticket' \in [Ticket -> TicketStates] /\ LiveTickets' \subseteq LiveTickets
          /\ \A t \in Ticket : (ticket'[t] = "none") <=> (ticket[t] = "none")
      BY <1>2 DEF Forgot, LiveTickets, PasswordInv, PasswordTypeOK, TicketStates
    <2>. QED
      BY <1>2, <2>1, TicketsWithdrawn DEF Forgot
  <1>3. ASSUME NEW t \in Ticket, TicketExpires(t) PROVE PasswordInv'
    <2>1. /\ ticket' \in [Ticket -> TicketStates] /\ LiveTickets' \subseteq LiveTickets
          /\ \A x \in Ticket : (ticket'[x] = "none") <=> (ticket[x] = "none")
      BY <1>3 DEF TicketExpires, LiveTickets, PasswordInv, PasswordTypeOK, TicketStates
    <2>. QED
      BY <1>3, <2>1, TicketsWithdrawn DEF TicketExpires
  <1>4. CASE StatusChanges
    BY <1>4, TicketsWithdrawn DEF StatusChanges, PasswordInv, PasswordTypeOK, LiveTickets
  <1>. QED
    BY <1>1, <1>2, <1>3, <1>4, PasswordCases, StartKeepsInv, ArchiveKeepsInv, SetKeepsInv,
       CommitChangeKeepsInv, CommitTicketKeepsInv, AbortKeepsInv, BeginTicketKeepsInv

LEMMA PasswordInitInv == PasswordInit => PasswordInv
PROOF
  <1>. SUFFICES ASSUME PasswordInit PROVE PasswordInv
    OBVIOUS
  <1>1. /\ LiveTickets = {} /\ archive = {} /\ changes = 0
        /\ \A p \in Request : change[p] = NoChange
    BY DEF PasswordInit, LiveTickets
  <1>2. PasswordTypeOK
    BY NoChangeFits DEF PasswordInit, PasswordTypeOK, TicketStates
  <1>3. \A S : KeptTickets(S) = {} /\ KeptRows(S) = {}
    BY <1>1 DEF KeptTickets, KeptRows
  <1>4. FewTickets
    BY <1>1, <1>3, FS_EmptySet, PendingIsFinite DEF FewTickets
  <1>5. FewRows
    BY <1>1, <1>3, FS_EmptySet, PendingIsFinite, HistoryAssumption, RequestsAreFinite,
       FS_CardinalityType
    DEF FewRows
  <1>. QED
    BY <1>1, <1>2, <1>4, <1>5, NoChangeFits
    DEF PasswordInv, IdsApart, TicketFits, RowFits, ChangesApart

(* verify_reset_mfa and _archive_and_set, for any number of requests that do   *)
(* not see each other and any length of the history.                          *)
THEOREM LeftoversAreFew == PasswordSpec => []FewLeftovers
PROOF
  <1>1. PasswordInv => FewLeftovers
    <2>. SUFFICES ASSUME PasswordInv PROVE FewLeftovers
      OBVIOUS
    <2>1. {} \in SUBSET Request /\ {} \subseteq Issuers /\ {} \subseteq Archivers /\ Cardinality({}) = 0
      BY FS_EmptySet
    <2>2. KeptTickets({}) = LiveTickets /\ KeptRows({}) = archive
      BY DEF KeptTickets, KeptRows
    <2>3. Cardinality(LiveTickets) \in Nat /\ Cardinality(archive) \in Nat
      BY FS_CardinalityType DEF PasswordInv, FewTickets, FewRows
    <2>4. /\ Cardinality(LiveTickets) + 0 <= Cardinality(Request)
          /\ Cardinality(archive) + 0 <= HistoryLength - 1 + Cardinality(Request)
      BY <2>1, <2>2 DEF PasswordInv, FewTickets, FewRows
    <2>. QED
      BY <2>3, <2>4, HistoryAssumption, RequestsAreFinite, FS_CardinalityType DEF FewLeftovers
  <1>. QED
    BY <1>1, PasswordInitInv, PasswordStep, PTL DEF PasswordSpec

SpentTickets == {t \in Ticket : ticket[t] \in {"revoked", "expired", "used"}}
Resetting    == [p \in Request |-> IF change[p].pc \in {"archive", "set", "commit"}
                                   THEN {change[p].with} \ {None} ELSE {}]

LEMMA TicketsStep ==
  PasswordInv /\ [PasswordNext]_passwordVars => [Tickets!Next]_(Tickets!oneTimeVars)
PROOF
  <1>. SUFFICES ASSUME PasswordInv, [PasswordNext]_passwordVars
                PROVE  [Tickets!Next]_(Tickets!oneTimeVars)
    OBVIOUS
  <1>. USE DEF SpentTickets, Resetting
  <1>0. /\ ticket \in [Ticket -> TicketStates] /\ change \in [Request -> ChangeRow]
        /\ resets \in [Ticket -> Nat] /\ \A p \in Request : TicketFits(change[p])
    BY DEF PasswordInv, PasswordTypeOK
  <1>1. ASSUME LiveTickets' = LiveTickets, SpentTickets' = SpentTickets, resets' = resets,
               Resetting' = Resetting
        PROVE  UNCHANGED Tickets!oneTimeVars
    BY <1>1 DEF Tickets!oneTimeVars
  <1>2. CASE UNCHANGED passwordVars
    BY <1>1, <1>2 DEF passwordVars, LiveTickets
  <1>3. ASSUME NEW p \in Request, NEW w \in Password, NEW t \in Ticket \union {None},
               StartsChange(p, w, t), t # None => ticket[t] = "live"
        PROVE  [Tickets!Next]_(Tickets!oneTimeVars)
    <2>1. PICK r : r = [NoChange EXCEPT !.pc = "archive", !.saw = password, !.new = w, !.with = t]
      OBVIOUS
    <2>2. /\ change' = [change EXCEPT ![p] = r] /\ change[p].pc = "idle" /\ ticket' = ticket
          /\ resets' = resets /\ r.pc = "archive" /\ r.with = t
      BY <1>3, <2>1, NoChangeFits DEF StartsChange, passwordDb, ChangeRow
    <2>3. Resetting' = [Resetting EXCEPT ![p] = {t} \ {None}] /\ Resetting[p] = {}
      BY <1>0, <2>2
    <2>4. CASE t = None
      <3>1. Resetting' = Resetting
        BY <2>3, <2>4
      <3>. QED
        BY <1>1, <2>2, <3>1 DEF LiveTickets
    <2>5. CASE t \in Ticket
      <3>1. {t} \ {None} = {t} /\ t \in LiveTickets
        BY <1>3, <2>5, NoneIsNoTicket DEF LiveTickets
      <3>2. /\ LiveTickets' = LiveTickets /\ SpentTickets' = SpentTickets
            /\ Resetting' = [Resetting EXCEPT ![p] = {t}]
        BY <2>2, <2>3, <3>1 DEF LiveTickets
      <3>3. Tickets!Look(p, t)
        BY <2>2, <2>3, <3>1, <3>2 DEF Tickets!Look
      <3>. QED
        BY <2>5, <3>3 DEF Tickets!Next
    <2>. QED
      BY <2>4, <2>5
  <1>4. ASSUME NEW p \in Request, ArchiveOld(p) \/ SetPassword(p)
        PROVE  UNCHANGED Tickets!oneTimeVars
    <2>1. /\ ticket' = ticket /\ resets' = resets
          /\ change[p].pc \in {"archive", "set"} /\ change'[p].pc \in {"set", "commit"}
          /\ change'[p].with = change[p].with
          /\ \A q \in Request \ {p} : change'[q] = change[q]
      BY <1>0, <1>4 DEF ArchiveOld, SetPassword, passwordDb, ChangeRow
    <2>2. Resetting' = Resetting
      BY <2>1
    <2>. QED
      BY <1>1, <2>1, <2>2 DEF LiveTickets
  <1>5. ASSUME NEW p \in Request, CommitChange(p)
        PROVE  [Tickets!Next]_(Tickets!oneTimeVars)
    <2>1. PICK t : t = change[p].with
      OBVIOUS
    <2>2. /\ change' = [change EXCEPT ![p] = NoChange] /\ change[p].pc = "commit"
          /\ ticket' = [x \in Ticket |-> IF x = t THEN "used" ELSE ticket[x]]
          /\ resets' = [x \in Ticket |-> IF x = t THEN resets[x] + 1 ELSE resets[x]]
          /\ t \in Ticket \union {None} /\ (t # None => ticket[t] # "none")
      BY <1>0, <1>5, <2>1 DEF CommitChange, TicketFits, ChangeRow
    <2>3. Resetting' = [Resetting EXCEPT ![p] = {}] /\ Resetting[p] = {t} \ {None}
      BY <1>0, <2>1, <2>2, NoChangeFits
    <2>4. CASE t = None
      <3>1. \A x \in Ticket : x # t
        BY <2>4, NoneIsNoTicket
      <3>2. ticket' = ticket /\ resets' = resets
        BY <1>0, <2>2, <3>1
      <3>3. Resetting' = Resetting
        BY <2>3, <2>4
      <3>. QED
        BY <1>1, <3>2, <3>3 DEF LiveTickets
    <2>5. CASE t \in Ticket
      <3>1. LiveTickets' = LiveTickets \ {t}
        BY <2>2, <2>5 DEF LiveTickets
      <3>2. SpentTickets' = SpentTickets \union {t}
        BY <1>0, <2>2, <2>5
      <3>3. resets' = [resets EXCEPT ![t] = @ + 1] /\ t \in Resetting[p]
        BY <1>0, <2>2, <2>3, <2>5, NoneIsNoTicket
      <3>4. Tickets!Use(p, t)
        BY <2>3, <3>1, <3>2, <3>3 DEF Tickets!Use
      <3>. QED
        BY <2>5, <3>4 DEF Tickets!Next
    <2>. QED
      BY <2>2, <2>4, <2>5
  <1>6. ASSUME NEW p \in Request, Forgot(p) PROVE Tickets!Next
    <2>1. PICK old : old = LiveTickets
      OBVIOUS
    <2>2. /\ LiveTickets' = LiveTickets \ old /\ SpentTickets' = SpentTickets \union old
          /\ old \in SUBSET Ticket /\ resets' = resets /\ Resetting' = Resetting
      BY <1>0, <1>6, <2>1 DEF Forgot, LiveTickets, TicketStates
    <2>3. Tickets!Issue({}, old)
      BY <2>1, <2>2 DEF Tickets!Issue
    <2>. QED
      BY <2>2, <2>3 DEF Tickets!Next
  <1>7. ASSUME NEW p \in Request, NEW t \in Ticket, BeginTicket(p, t)
        PROVE  UNCHANGED Tickets!oneTimeVars
    <2>1. /\ ticket' = ticket /\ resets' = resets
          /\ change[p].pc = "idle" /\ change'[p].pc = "issue"
          /\ \A q \in Request \ {p} : change'[q] = change[q]
      BY <1>0, <1>7, NoChangeFits DEF BeginTicket, passwordDb, ChangeRow
    <2>2. Resetting' = Resetting
      BY <2>1
    <2>. QED
      BY <1>1, <2>1, <2>2 DEF LiveTickets
  <1>8. ASSUME NEW p \in Request, CommitTicket(p) PROVE Tickets!Next
    <2>1. PICK new, old : new = change[p].with /\ old = change[p].revoke \intersect LiveTickets
      OBVIOUS
    <2>2. /\ change' = [change EXCEPT ![p] = NoChange] /\ change[p].pc = "issue" /\ resets' = resets
          /\ ticket' = [t \in Ticket |-> IF t = new THEN "live"
                                         ELSE IF t \in old THEN "revoked" ELSE ticket[t]]
          /\ new \in Ticket /\ ticket[new] = "none"
          /\ old \in SUBSET LiveTickets /\ old \in SUBSET Ticket
      BY <1>0, <1>8, <2>1 DEF CommitTicket, TicketFits, LiveTickets
    <2>3. Resetting' = Resetting
      BY <1>0, <2>2, NoChangeFits
    <2>4. /\ new \notin LiveTickets \union SpentTickets
          /\ LiveTickets' = (LiveTickets \ old) \union {new} /\ SpentTickets' = SpentTickets \union old
      BY <1>0, <2>2 DEF LiveTickets
    <2>5. Tickets!Issue({new}, old)
      BY <2>2, <2>3, <2>4 DEF Tickets!Issue
    <2>. QED
      BY <2>2, <2>5 DEF Tickets!Next
  <1>9. ASSUME NEW t \in Ticket, TicketExpires(t) PROVE Tickets!Next
    <2>1. /\ LiveTickets' = LiveTickets \ {t} /\ SpentTickets' = SpentTickets \union {t}
          /\ t \in LiveTickets /\ resets' = resets /\ Resetting' = Resetting
      BY <1>0, <1>9 DEF TicketExpires, LiveTickets
    <2>2. Tickets!Issue({}, {t})
      BY <2>1 DEF Tickets!Issue
    <2>. QED
      BY <2>2 DEF Tickets!Next
  <1>10. CASE StatusChanges
    BY <1>1, <1>10 DEF StatusChanges, LiveTickets
  <1>11. ASSUME NEW p \in Request, AbortChange(p) PROVE Tickets!Next
    <2>1. /\ change' = [change EXCEPT ![p] = NoChange] /\ ticket' = ticket /\ resets' = resets
      BY <1>11 DEF AbortChange, passwordDb
    <2>2. Resetting' = [Resetting EXCEPT ![p] = {}]
      BY <1>0, <2>1, NoChangeFits
    <2>3. Tickets!GiveUp(p)
      BY <2>1, <2>2 DEF LiveTickets, Tickets!GiveUp
    <2>. QED
      BY <2>3 DEF Tickets!Next
  <1>. QED
    BY <1>2, <1>3, <1>4, <1>5, <1>6, <1>7, <1>8, <1>9, <1>10, <1>11, PasswordCases

(* reset_password: a ticket that was used, revoked or has expired earns no      *)
(* reset to a request that comes after it.                                   *)
THEOREM TicketsRefine == PasswordSpec => TicketsAreOneTime
PROOF
  <1>1. PasswordInit => Tickets!Init
    BY NoChangeFits DEF PasswordInit, LiveTickets, Tickets!Init
  <1>. QED
    BY <1>1, PasswordInitInv, PasswordStep, TicketsStep, PTL
    DEF PasswordSpec, TicketsAreOneTime, Tickets!Spec

=============================================================================
