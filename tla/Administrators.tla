--------------------------- MODULE Administrators ---------------------------
(***************************************************************************)
(* Who has which role, and that somebody remains an administrator.  The    *)
(* last-administrator rule counts the others when a request reads, and the  *)
(* role is written at its commit.                                           *)
(***************************************************************************)
EXTENDS Requests
CONSTANT FreeRole     \* roles besides ADMIN; USER is one of them

ASSUME FreeRoleAssumption == FreeRole # {} /\ "ADMIN" \notin FreeRole

VARIABLES
  roleRows,     \* rows of roles
  roleOf,       \* users.role_id
  enabled,      \* users.is_active
  decision,     \* the requests
  overlapped    \* history: two withdrawals of administrators overlapped

adminVars == <<roleRows, roleOf, enabled, decision, overlapped>>

NoDecision == [pc |-> "idle", user |-> None, role |-> None]

AdminInit ==
  /\ roleRows = FreeRole \union {"ADMIN"}
  /\ roleOf \in [User -> roleRows] /\ \E u \in User : roleOf[u] = "ADMIN"
  /\ enabled = [u \in User |-> TRUE]
  /\ decision = [p \in Request |-> NoDecision]
  /\ overlapped = FALSE

StartsDecision(p, d) ==
  /\ decision[p].pc = "idle"
  /\ decision' = [decision EXCEPT ![p] = d]
  /\ UNCHANGED <<roleRows, roleOf, enabled, overlapped>>

(* The other administrators, disabled or not. *)
OtherAdmin(u) == \E v \in User \ {u} : roleOf[v] = "ADMIN"

(* Mutant: the other administrators are not looked for. *)
BeginAssignAnyway(p, u, r) ==
  r \in roleRows /\ StartsDecision(p, [pc |-> "assign", user |-> u, role |-> r])

BeginAssign(p, u, r) ==
  /\ r \in roleRows
  /\ roleOf[u] = "ADMIN" /\ r # "ADMIN" => OtherAdmin(u)
  /\ StartsDecision(p, [pc |-> "assign", user |-> u, role |-> r])

Demotes(p) ==
  decision[p].pc = "assign" /\ roleOf[decision[p].user] = "ADMIN" /\ decision[p].role # "ADMIN"

(* users.role_id is a foreign key. *)
CommitAssign(p) ==
  /\ decision[p].pc = "assign" /\ decision[p].role \in roleRows
  /\ roleOf' = [roleOf EXCEPT ![decision[p].user] = decision[p].role]
  /\ overlapped' = (overlapped \/ (Demotes(p) /\ \E q \in Request \ {p} : Demotes(q)))
  /\ decision' = [decision EXCEPT ![p] = NoDecision]
  /\ UNCHANGED <<roleRows, enabled>>

BeginDisable(p, u) ==
  /\ enabled[u]
  /\ roleOf[u] = "ADMIN" => OtherAdmin(u)
  /\ StartsDecision(p, [pc |-> "disable", user |-> u, role |-> None])
BeginEnable(p, u) ==
  ~enabled[u] /\ StartsDecision(p, [pc |-> "enable", user |-> u, role |-> None])
CommitActive(p) ==
  /\ decision[p].pc \in {"disable", "enable"}
  /\ enabled' = [enabled EXCEPT ![decision[p].user] = (decision[p].pc = "enable")]
  /\ decision' = [decision EXCEPT ![p] = NoDecision]
  /\ UNCHANGED <<roleRows, roleOf, overlapped>>

(* delete_role: a custom role that nobody has, neither when it is read nor,   *)
(* by the foreign key, at the commit.                                        *)
BeginDrop(p, r) ==
  /\ r \in (roleRows \intersect FreeRole) \ {"USER"}
  /\ \A u \in User : roleOf[u] # r
  /\ StartsDecision(p, [pc |-> "drop", user |-> None, role |-> r])
CommitDrop(p) ==
  /\ decision[p].pc = "drop" /\ \A u \in User : roleOf[u] # decision[p].role
  /\ roleRows' = roleRows \ {decision[p].role}
  /\ decision' = [decision EXCEPT ![p] = NoDecision]
  /\ UNCHANGED <<roleOf, enabled, overlapped>>

AbortDecision(p) ==
  /\ decision[p].pc # "idle"
  /\ decision' = [decision EXCEPT ![p] = NoDecision]
  /\ UNCHANGED <<roleRows, roleOf, enabled, overlapped>>

AdminNext ==
  \E p \in Request :
    \/ \E u \in User : BeginDisable(p, u) \/ BeginEnable(p, u)
                       \/ \E r \in roleRows : BeginAssign(p, u, r)
    \/ \E r \in FreeRole : BeginDrop(p, r)
    \/ CommitAssign(p) \/ CommitActive(p) \/ CommitDrop(p) \/ AbortDecision(p)

AdminSpec == AdminInit /\ [][AdminNext]_adminVars

-----------------------------------------------------------------------------
(* Properties. *)

(* Unless two withdrawals of administrators overlapped, neither seeing the   *)
(* other, somebody is an administrator, whatever roles are assigned, deleted  *)
(* and however often accounts are disabled.                                  *)
AdministratorRemains == overlapped \/ \E u \in User : roleOf[u] = "ADMIN"

=============================================================================
