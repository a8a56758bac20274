------------------------------ MODULE MCGroups ------------------------------
(* Groups, private conversations, polls, catch-up, edits and assignments,    *)
(* side by side: a behaviour is one of one component.  After a first overlap *)
(* that voids their property, the components stop.                          *)
EXTENDS Members, Threads, Polls, CatchUp, Edits, Assignments, TLC

VARIABLE part

(* In the other components there is no group, and its properties are void. *)
NoGroup ==
  /\ role = [u \in User |-> "none"] /\ inGroup = [u \in User |-> FALSE]
  /\ limitOf = [u \in User |-> 0] /\ ceiling = 0
  /\ wish = [p \in Request |-> NoWish]
  /\ crossed = FALSE /\ resigned = TRUE

MCInit ==
  /\ part \in {"members", "threads", "polls", "catch-up", "edits", "assignments"}
  /\ IF part = "members" THEN MembersInit ELSE NoGroup
  /\ ThreadInit /\ PollInit /\ CatchUpInit /\ EditInit /\ AssignInit
  /\ part # "polls" => multiple

(* Two users vote. *)
TwoVoters ==
  Cardinality({v[2] : v \in votes'} \union ({ballot'[p].user : p \in Request} \ {None})) <= 2

MCNext ==
  \/ part = "members" /\ ~(crossed \/ resigned) /\ MembersNext
     /\ UNCHANGED <<part, threadVars, pollVars, catchUpVars, editVars, assignVars>>
  \/ part = "threads" /\ ThreadNext
     /\ UNCHANGED <<part, memberVars, pollVars, catchUpVars, editVars, assignVars>>
  \/ part = "polls" /\ PollNext /\ TwoVoters
     /\ UNCHANGED <<part, memberVars, threadVars, catchUpVars, editVars, assignVars>>
  \/ part = "catch-up" /\ CatchUpNext
     /\ UNCHANGED <<part, memberVars, threadVars, pollVars, editVars, assignVars>>
  \/ part = "edits" /\ ~editsMet /\ EditNext
     /\ UNCHANGED <<part, memberVars, threadVars, pollVars, catchUpVars, assignVars>>
  \/ part = "assignments" /\ ~raced /\ AssignNext
     /\ UNCHANGED <<part, memberVars, threadVars, pollVars, catchUpVars, editVars>>

MCSpec == MCInit
  /\ [][MCNext]_<<part, memberVars, threadVars, pollVars, catchUpVars, editVars, assignVars>>

(* Users and messages are one set of model values, and so are requests,      *)
(* conversations, options, assignments and segments.                        *)
MCSymmetry == Permutations(Request) \union Permutations(User)
=============================================================================
