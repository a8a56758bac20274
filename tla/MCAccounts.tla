----------------------------- MODULE MCAccounts -----------------------------
(* The components around an account, side by side: a behaviour is one of   *)
(* one component, and the others keep one initial state.                    *)
EXTENDS RateLimits, AccountLock, SecondFactor, PasswordReset, Accounts, TLC

VARIABLE part

FirstPassword == CHOOSE w \in Password : TRUE

MCInit ==
  /\ LimitInit /\ LockInit /\ FactorInit /\ PasswordInit /\ AccountInit
  /\ part \in {"limit", "lock", "factor", "rotation", "tickets", "account"}
  /\ part # "limit" => counter = LoginCounter
  /\ part # "lock" => lock = "none"
  /\ part # "tickets" => resettable
  /\ password = FirstPassword

(* Three changes without tickets, two with them. *)
MCPasswordNext ==
  /\ PasswordNext
  /\ part = "rotation" => ticket' = ticket /\ resettable' = resettable
                          /\ \A p \in Request : change'[p].pc # "issue"
  /\ part = "tickets" => changes' <= 2

MCNext ==
  \/ part = "limit" /\ LimitNext
     /\ UNCHANGED <<part, lockVars, factorVars, passwordVars, accountVars>>
  \/ part = "lock" /\ LockNext
     /\ UNCHANGED <<part, limitVars, factorVars, passwordVars, accountVars>>
  \/ part = "factor" /\ FactorNext
     /\ UNCHANGED <<part, limitVars, lockVars, passwordVars, accountVars>>
  \/ part \in {"rotation", "tickets"} /\ MCPasswordNext
     /\ UNCHANGED <<part, limitVars, lockVars, factorVars, accountVars>>
  \/ part = "account" /\ AccountNext
     /\ UNCHANGED <<part, limitVars, lockVars, factorVars, passwordVars>>

MCSpec == MCInit
  /\ [][MCNext]_<<part, limitVars, lockVars, factorVars, passwordVars, accountVars>>

(* Email and Name, Token and Challenge are one set of model values each;     *)
(* they are tickets too.                                                    *)
MCSymmetry == UNION {Permutations(S) : S \in {Request, User, Email, Token}}
=============================================================================
