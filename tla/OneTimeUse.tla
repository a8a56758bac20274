----------------------------- MODULE OneTimeUse -----------------------------
(***************************************************************************)
(* What a one-time credential promises when it is not locked while it is   *)
(* looked at: a request may look at it while it is live, and may still use *)
(* it after others have spent it; but nobody who comes after it was spent   *)
(* or withdrawn uses it.  Who looks at it once uses it at most once.        *)
(***************************************************************************)
EXTENDS Naturals
CONSTANTS Holder, Credential

VARIABLES
  live,         \* credentials that would be accepted now
  spent,        \* credentials that no longer are, and never will be again
  holding,      \* what each holder has looked at while it was live
  uses          \* how often each credential took effect

oneTimeVars == <<live, spent, holding, uses>>

Init ==
  /\ live = {} /\ spent = {}
  /\ holding = [h \in Holder |-> {}]
  /\ uses = [c \in Credential |-> 0]

(* New credentials; those of before may be withdrawn in the same step. *)
Issue(new, old) ==
  /\ new \subseteq Credential \ (live \union spent)
  /\ old \subseteq live
  /\ live' = (live \ old) \union new
  /\ spent' = spent \union old
  /\ UNCHANGED <<holding, uses>>

Look(h, c) ==
  /\ c \in live
  /\ holding[h] = {}
  /\ holding' = [holding EXCEPT ![h] = {c}]
  /\ UNCHANGED <<live, spent, uses>>

Use(h, c) ==
  /\ c \in holding[h]
  /\ uses' = [uses EXCEPT ![c] = @ + 1]
  /\ live' = live \ {c}
  /\ spent' = spent \union {c}
  /\ holding' = [holding EXCEPT ![h] = {}]

GiveUp(h) ==
  /\ holding' = [holding EXCEPT ![h] = {}]
  /\ UNCHANGED <<live, spent, uses>>

Next ==
  \/ \E new, old \in SUBSET Credential : Issue(new, old)
  \/ \E h \in Holder :
       GiveUp(h) \/ \E c \in Credential : Look(h, c) \/ Use(h, c)

Spec == Init /\ [][Next]_oneTimeVars

=============================================================================
