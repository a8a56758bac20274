----------------------------- MODULE MCDirectory -----------------------------
(* Roles, administrators and the segment tree, side by side: a behaviour is *)
(* one of one component; custom roles and custom permissions take turns.    *)
EXTENDS Rbac, Administrators, OrgTree, TLC

VARIABLE part

MCInit ==
  /\ RbacInit /\ AdminInit /\ TreeInit
  /\ part \in {"roles", "permissions", "admin", "tree"}
  /\ part # "admin" => \A u \in User : roleOf[u] = "ADMIN"

MCNext ==
  \/ part \in {"roles", "permissions"} /\ RbacNext
     /\ (part = "roles" => permissions' = SystemPermission)
     /\ (part = "permissions" => roles' = SystemRole)
     /\ UNCHANGED <<part, adminVars, treeVars>>
  \/ part = "admin" /\ AdminNext /\ UNCHANGED <<part, rbacVars, treeVars>>
  \/ part = "tree" /\ TreeNext /\ UNCHANGED <<part, rbacVars, adminVars>>

MCSpec == MCInit /\ [][MCNext]_<<part, rbacVars, adminVars, treeVars>>

MCSymmetry == Permutations(Request) \union Permutations(Segment)
=============================================================================
