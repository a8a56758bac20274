----------------------------- MODULE RateLimits -----------------------------
(***************************************************************************)
(* One counter of attempts in the cache.  An attempt reads the counter     *)
(* first and is counted afterwards, by cache.add, then cache.incr and, when *)
(* the key expired in between, cache.set(key, 1).  The cache is not         *)
(* transactional: every step is seen at once.                               *)
(*                                                                         *)
(* Most attempts are counted under two keys, of the account and of the     *)
(* address they come from.  Each key is a counter of this module, and the  *)
(* refusal by the other key is an attempt that does not happen here.       *)
(***************************************************************************)
EXTENDS Requests, Integers, FiniteSets
CONSTANTS LoginLimit, MfaLimit, DeviceLinkLimit, ForgotLimit, EmailResendLimit

ASSUME LimitAssumption ==
  /\ LoginLimit \in Nat \ {0} /\ MfaLimit \in Nat \ {0} /\ DeviceLinkLimit \in Nat \ {0}
  /\ ForgotLimit \in Nat \ {0} /\ EmailResendLimit \in Nat \ {0}

VARIABLES
  counter,      \* which counter this is; it does not change
  hits,         \* its value in the cache; Absent: no such key
  admitted,     \* history: attempts counted since the key appeared
  overwritten,  \* history: how often cache.set hit a key that was there again
  attempt       \* where each attempt stands

limitVars == <<counter, hits, admitted, overwritten, attempt>>

Absent == -1

(* The counters of the application: how many attempts a window admits, and  *)
(* whether a success deletes the key.                                       *)
LoginCounter       == [limit |-> LoginLimit,       forgotten |-> TRUE]
MfaCounter         == [limit |-> MfaLimit,         forgotten |-> TRUE]
DeviceLinkCounter  == [limit |-> DeviceLinkLimit,  forgotten |-> FALSE]
ForgotCounter      == [limit |-> ForgotLimit,      forgotten |-> FALSE]
EmailResendCounter == [limit |-> EmailResendLimit, forgotten |-> FALSE]
PushTestCounter    == [limit |-> 1,                forgotten |-> FALSE]
Counters == {LoginCounter, MfaCounter, DeviceLinkCounter, ForgotCounter, EmailResendCounter,
             PushTestCounter}

Limited == hits >= counter.limit

Attempts(p, from, to) == attempt[p] = from /\ attempt' = [attempt EXCEPT ![p] = to]

LimitInit ==
  /\ counter \in Counters
  /\ hits = Absent
  /\ admitted = 0
  /\ overwritten = 0
  /\ attempt = [p \in Request |-> "idle"]

(* Mutant: the counter is compared once more than the limit allows. *)
CheckLimitLate(p) ==
  /\ hits <= counter.limit
  /\ Attempts(p, "idle", "add")
  /\ UNCHANGED <<counter, hits, admitted, overwritten>>

(* The attempt is refused, with nothing counted, when the limit is reached. *)
CheckLimit(p) ==
  /\ ~Limited
  /\ Attempts(p, "idle", "add")
  /\ UNCHANGED <<counter, hits, admitted, overwritten>>

(* Mutant: cache.set instead of cache.add. *)
SetKey(p) ==
  /\ Attempts(p, "add", "incr")
  /\ hits' = 0
  /\ UNCHANGED <<counter, admitted, overwritten>>

(* cache.add creates the key with its lifetime, if it is absent. *)
AddKey(p) ==
  /\ Attempts(p, "add", "incr")
  /\ hits' = IF hits = Absent THEN 0 ELSE hits
  /\ UNCHANGED <<counter, admitted, overwritten>>

(* cache.incr is atomic; it refuses an absent key. *)
IncrKey(p) ==
  /\ hits # Absent
  /\ Attempts(p, "incr", "idle")
  /\ hits' = hits + 1
  /\ admitted' = admitted + 1
  /\ UNCHANGED <<counter, overwritten>>

IncrMissed(p) ==
  /\ hits = Absent
  /\ Attempts(p, "incr", "set")
  /\ UNCHANGED <<counter, hits, admitted, overwritten>>

(* cache.set(key, 1): whatever others counted meanwhile is overwritten. *)
SetOne(p) ==
  /\ Attempts(p, "set", "idle")
  /\ hits' = 1
  /\ admitted' = admitted + 1
  /\ overwritten' = IF hits = Absent THEN overwritten ELSE overwritten + 1
  /\ UNCHANGED counter

(* The worker is lost, or the cache refuses, between two steps. *)
LoseAttempt(p) ==
  /\ attempt[p] # "idle"
  /\ attempt' = [attempt EXCEPT ![p] = "idle"]
  /\ UNCHANGED <<counter, hits, admitted, overwritten>>

ForgetKey ==
  /\ hits # Absent
  /\ hits' = Absent /\ admitted' = 0 /\ overwritten' = 0
  /\ UNCHANGED <<counter, attempt>>

(* A complete login, a right code, or the unlocking of the account. *)
ResetAfterSuccess == counter.forgotten /\ ForgetKey

(* The end of the window. *)
WindowEnds == ForgetKey

LimitNext ==
  \/ \E p \in Request :
       \/ CheckLimit(p) \/ AddKey(p) \/ IncrKey(p) \/ IncrMissed(p) \/ SetOne(p)
       \/ LoseAttempt(p)
  \/ ResetAfterSuccess
  \/ WindowEnds

LimitSpec == LimitInit /\ [][LimitNext]_limitVars

-----------------------------------------------------------------------------
(* Properties. *)

(* Every variable has its type. *)
LimitTypeOK ==
  /\ counter \in Counters
  /\ hits \in Nat \union {Absent}
  /\ admitted \in Nat /\ overwritten \in Nat
  /\ attempt \in [Request -> {"idle", "add", "incr", "set"}]

(* However the checks, additions, increments and expiries of concurrent      *)
(* attempts interleave, a window admits its limit, and one more for each     *)
(* other request that had passed the check; only a cache.set that finds the  *)
(* key there again gives that much back, once.                               *)
WindowBound ==
  admitted <= (counter.limit + Cardinality(Request) - 1) * (overwritten + 1)

=============================================================================
