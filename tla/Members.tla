------------------------------- MODULE Members -------------------------------
(***************************************************************************)
(* The members of one group, their roles, and the size limit, which is read *)
(* from the settings row of whoever is the owner.  A request reads the rows *)
(* of the caller and of the target, decides, and writes at its commit.      *)
(* READ_ONLY is a MEMBER here.                                              *)
(***************************************************************************)
EXTENDS Requests, FiniteSetsExt, Naturals
CONSTANT MaxMembers     \* the values of max_members; 0 is "no limit"

ASSUME MaxMembersAssumption == MaxMembers \subseteq Nat /\ 0 \in MaxMembers

VARIABLES
  role,         \* conversation_members.role; "none": no row
  inGroup,      \* conversation_members.active
  limitOf,      \* conversation_settings.max_members of each user; 0: none
  wish,         \* the requests
  crossed,      \* history: a transfer overlapped a change of one of its two
  resigned,     \* history: an owner gave himself or another owner a lower role
  ceiling       \* history: the size the limits allowed since there is one

memberVars == <<role, inGroup, limitOf, wish, crossed, resigned, ceiling>>

Privileged == {"OWNER", "ADMIN"}
In(r)      == {u \in User : inGroup[u] /\ role[u] \in r}
Size       == Cardinality({u \in User : inGroup[u]})
NoWish     == [pc |-> "idle", by |-> None, who |-> None, role |-> "none", limit |-> 0]

(* _owner_member takes one of the owners. *)
InForce == {limitOf[u] : u \in In({"OWNER"})}

(* create_group: an owner, members, no limit yet. *)
MembersInit ==
  /\ role \in [User -> {"OWNER", "MEMBER", "none"}]
  /\ Cardinality({u \in User : role[u] = "OWNER"}) = 1
  /\ \E u \in User : role[u] = "MEMBER"
  /\ inGroup = [u \in User |-> role[u] # "none"]
  /\ limitOf = [u \in User |-> 0]
  /\ wish = [p \in Request |-> NoWish]
  /\ crossed = FALSE /\ resigned = FALSE
  /\ ceiling = Size

Wishes(p, w) ==
  /\ wish[p].pc = "idle" /\ inGroup[w.by]
  /\ wish' = [wish EXCEPT ![p] = w]
  /\ UNCHANGED <<role, inGroup, limitOf, crossed, resigned, ceiling>>

BeginTransfer(p, u, v) ==
  /\ role[u] = "OWNER" /\ inGroup[v] /\ u # v
  /\ Wishes(p, [NoWish EXCEPT !.pc = "transfer", !.by = u, !.who = v])

BeginRole(p, u, v, r) ==
  /\ inGroup[v] /\ role[u] \in Privileged
  /\ role[u] = "ADMIN" => role[v] \notin Privileged
  /\ Wishes(p, [NoWish EXCEPT !.pc = "role", !.by = u, !.who = v, !.role = r])

(* Mutant: an owner is removed like anybody else. *)
BeginRemoveAnybody(p, u, v) ==
  /\ inGroup[v] /\ role[u] \in Privileged
  /\ Wishes(p, [NoWish EXCEPT !.pc = "out", !.by = u, !.who = v])

BeginRemove(p, u, v) ==
  /\ inGroup[v] /\ role[u] \in Privileged
  /\ role[v] # "OWNER" /\ ~(role[u] = "ADMIN" /\ role[v] = "ADMIN")
  /\ Wishes(p, [NoWish EXCEPT !.pc = "out", !.by = u, !.who = v])

BeginLeave(p, u) ==
  /\ role[u] # "OWNER"
  /\ Wishes(p, [NoWish EXCEPT !.pc = "out", !.by = u, !.who = u])

(* Mutant: the group may have one member too many. *)
BeginAddOneMore(p, u, v) ==
  /\ role[u] \in Privileged /\ ~inGroup[v]
  /\ \E m \in InForce : m # 0 => Size <= m + 1
  /\ Wishes(p, [NoWish EXCEPT !.pc = "add", !.by = u, !.who = v, !.role = role[v]])

(* Not blocked, willing to be invited: what refuses is an AbortWish.         *)
BeginAdd(p, u, v) ==
  /\ role[u] \in Privileged /\ ~inGroup[v]
  /\ \E m \in InForce : m # 0 => Size < m
  /\ Wishes(p, [NoWish EXCEPT !.pc = "add", !.by = u, !.who = v, !.role = role[v]])

BeginLimit(p, u, o, m) ==
  /\ role[u] \in Privileged /\ o \in In({"OWNER"})
  /\ Wishes(p, [NoWish EXCEPT !.pc = "limit", !.by = u, !.who = o, !.limit = m])

-----------------------------------------------------------------------------
(* Commits. *)

Concerned(w) == IF w.pc = "transfer" THEN {w.by, w.who} ELSE {w.who}
Crosses(p, q) ==
  /\ wish[q].pc # "idle" /\ "transfer" \in {wish[p].pc, wish[q].pc}
  /\ Concerned(wish[p]) \intersect Concerned(wish[q]) # {}

(* What every commit does to the history variables. *)
Ends(p) ==
  /\ wish' = [wish EXCEPT ![p] = NoWish]
  /\ crossed' = (crossed \/ \E q \in Request \ {p} : Crosses(p, q))
  /\ ceiling' = IF \A m \in InForce' : m = 0 THEN Size'
                ELSE Max(InForce' \union {IF \A m \in InForce : m = 0 THEN Size' ELSE ceiling})

CommitTransfer(p) ==
  LET w == wish[p] IN
  /\ w.pc = "transfer"
  /\ role' = [role EXCEPT ![w.by] = "ADMIN", ![w.who] = "OWNER"]
  /\ UNCHANGED <<inGroup, limitOf, resigned>>
  /\ Ends(p)

CommitRole(p) ==
  LET w == wish[p] IN
  /\ w.pc = "role"
  /\ role' = [role EXCEPT ![w.who] = w.role]
  /\ resigned' = (resigned \/ role[w.who] = "OWNER")
  /\ UNCHANGED <<inGroup, limitOf>>
  /\ Ends(p)

CommitOut(p) ==
  /\ wish[p].pc = "out"
  /\ inGroup' = [inGroup EXCEPT ![wish[p].who] = FALSE]
  /\ UNCHANGED <<role, limitOf, resigned>>
  /\ Ends(p)

(* A new row (unique per user), or the old one made a MEMBER again. *)
CommitAdd(p) ==
  LET w == wish[p] IN
  /\ w.pc = "add" /\ (w.role = "none" => role[w.who] = "none")
  /\ role' = [role EXCEPT ![w.who] = "MEMBER"]
  /\ inGroup' = [inGroup EXCEPT ![w.who] = TRUE]
  /\ UNCHANGED <<limitOf, resigned>>
  /\ Ends(p)

CommitLimit(p) ==
  /\ wish[p].pc = "limit"
  /\ limitOf' = [limitOf EXCEPT ![wish[p].who] = wish[p].limit]
  /\ UNCHANGED <<role, inGroup, resigned>>
  /\ Ends(p)

AbortWish(p) ==
  /\ wish[p].pc # "idle"
  /\ wish' = [wish EXCEPT ![p] = NoWish]
  /\ UNCHANGED <<role, inGroup, limitOf, crossed, resigned, ceiling>>

MembersNext ==
  \E p \in Request :
    \/ \E u \in User :
         \/ BeginLeave(p, u)
         \/ \E v \in User : \/ BeginTransfer(p, u, v) \/ BeginRemove(p, u, v)
                            \/ BeginAdd(p, u, v)
                            \/ \E r \in {"ADMIN", "MEMBER"} : BeginRole(p, u, v, r)
                            \/ \E m \in MaxMembers : BeginLimit(p, u, v, m)
    \/ CommitTransfer(p) \/ CommitRole(p) \/ CommitOut(p) \/ CommitAdd(p) \/ CommitLimit(p)
    \/ AbortWish(p)

MembersSpec == MembersInit /\ [][MembersNext]_memberVars

-----------------------------------------------------------------------------
(* Properties. *)

(* Members who are removed, leave, are added again and change roles while    *)
(* others do the same leave the group exactly one owner, as long as no       *)
(* transfer overlaps a change of its two and no owner lowers an owner's role. *)
OneOwner == crossed \/ resigned \/ Cardinality(In({"OWNER"})) = 1

(* While there is a limit, additions that overlap pass the largest limit, or  *)
(* the size the group had when the limit came, by less than their number.    *)
SizeBound ==
  crossed \/ resigned \/ (\A m \in InForce : m = 0)
  \/ Size <= ceiling + Cardinality(Request) - 1

=============================================================================
