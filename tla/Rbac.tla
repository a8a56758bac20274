-------------------------------- MODULE Rbac --------------------------------
(***************************************************************************)
(* Roles, their permissions, and the cache that the permission check of    *)
(* every request reads.  A change of a role writes its rows, deletes the   *)
(* key of the cache, and commits: a check that runs before the commit puts  *)
(* the old set back for the lifetime of the key.  Who has which role is     *)
(* left to Administrators.                                                  *)
(***************************************************************************)
EXTENDS Requests, FiniteSets, Naturals
CONSTANTS
  CustomRole,
  SystemPermission,   \* the catalogue
  SelfPermission,     \* its part that USER has
  CustomPermission

ASSUME CatalogueAssumption ==
  /\ SelfPermission \subseteq SystemPermission
  /\ SystemPermission \intersect CustomPermission = {}
  /\ {"ADMIN", "USER"} \intersect CustomRole = {}

VARIABLES
  roles,        \* rows of roles
  permissions,  \* rows of permissions
  granted,      \* role_permissions, by role
  cached,       \* rbac:role:* in the cache; NoKey: absent
  edit          \* the requests: a permission check, then perhaps a change

rbacVars == <<roles, permissions, granted, cached, edit>>

SystemRole == {"ADMIN", "USER"}
RoleCode   == SystemRole \union CustomRole
Permission == SystemPermission \union CustomPermission
NoKey      == {None}
NoEdit     == [pc |-> "idle", role |-> None, perms |-> {}, add |-> {}, drop |-> {}]

RbacInit ==
  /\ roles = SystemRole
  /\ permissions = SystemPermission
  /\ granted = [r \in RoleCode |-> IF r = "ADMIN" THEN SystemPermission
                                   ELSE IF r = "USER" THEN SelfPermission ELSE {}]
  /\ cached = [r \in RoleCode |-> NoKey]
  /\ edit = [p \in Request |-> NoEdit]

StartsEdit(p, e) ==
  /\ edit[p].pc = "idle"
  /\ edit' = [edit EXCEPT ![p] = e]
  /\ UNCHANGED <<roles, permissions, granted, cached>>

-----------------------------------------------------------------------------
(* The permissions of a role. *)

Rewrites(p, r, add, drop) ==
  /\ r \in roles
  /\ StartsEdit(p, [NoEdit EXCEPT !.pc = "written", !.role = r, !.add = add, !.drop = drop])

BeginAddPermissions(p, r, codes) ==
  codes \subseteq permissions /\ Rewrites(p, r, codes \ granted[r], {})

(* _admin_frozen: ADMIN keeps the catalogue. *)
Frozen(r, remaining) ==
  r = "ADMIN" /\ ~(permissions \intersect SystemPermission \subseteq remaining)

BeginRemovePermissions(p, r, codes) ==
  /\ codes \subseteq permissions
  /\ ~Frozen(r, granted[r] \ codes)
  /\ Rewrites(p, r, {}, codes \intersect granted[r])

(* Mutant: the set is not compared with the catalogue. *)
BeginSetUnfrozen(p, r, codes) ==
  codes \subseteq permissions /\ Rewrites(p, r, codes \ granted[r], granted[r] \ codes)

BeginSetPermissions(p, r, codes) ==
  /\ codes \subseteq permissions
  /\ ~Frozen(r, codes)
  /\ Rewrites(p, r, codes \ granted[r], granted[r] \ codes)

(* seed_rbac: what the two system roles lack of the catalogue. *)
BeginSeed(p, r) ==
  /\ r \in SystemRole
  /\ LET wanted == IF r = "USER" THEN SelfPermission ELSE SystemPermission IN
     wanted \ granted[r] # {} /\ Rewrites(p, r, wanted \ granted[r], {})

(* invalidate_role_cache, of the role or of the roles of a permission. *)
Invalidate(p) ==
  LET e == edit[p] IN
  /\ e.pc \in {"written", "deleted", "removed"}
  /\ cached' = [r \in RoleCode |->
       IF r = e.role \/ (e.pc = "removed" /\ e.perms \intersect granted[r] # {})
       THEN NoKey ELSE cached[r]]
  /\ edit' = [edit EXCEPT ![p].pc = IF e.pc = "written" THEN "grants"
                                    ELSE IF e.pc = "deleted" THEN "role" ELSE "permission"]
  /\ UNCHANGED <<roles, permissions, granted>>

(* The unique index and the foreign keys refuse a row that another request   *)
(* has inserted, or whose role or permission it has deleted.                 *)
CommitGrants(p) ==
  LET e == edit[p] IN
  /\ e.pc = "grants"
  /\ e.role \in roles /\ e.add \subseteq permissions /\ e.add \intersect granted[e.role] = {}
  /\ granted' = [granted EXCEPT ![e.role] = (@ \ e.drop) \union e.add]
  /\ edit' = [edit EXCEPT ![p] = NoEdit]
  /\ UNCHANGED <<roles, permissions, cached>>

-----------------------------------------------------------------------------
(* The rows of roles and permissions. *)

CreateRole(p, r) ==
  /\ edit[p].pc = "idle" /\ r \in CustomRole \ roles
  /\ roles' = roles \union {r}
  /\ UNCHANGED <<permissions, granted, cached, edit>>

(* A custom role nobody has. *)
BeginDeleteRole(p, r) ==
  /\ r \in roles \ SystemRole
  /\ StartsEdit(p, [NoEdit EXCEPT !.pc = "deleted", !.role = r])

(* A user who got the role meanwhile makes the foreign key refuse this.      *)
CommitDeleteRole(p) ==
  LET r == edit[p].role IN
  /\ edit[p].pc = "role"
  /\ roles' = roles \ {r}
  /\ granted' = [granted EXCEPT ![r] = {}]
  /\ edit' = [edit EXCEPT ![p] = NoEdit]
  /\ UNCHANGED <<permissions, cached>>

CreatePermission(p, k) ==
  /\ edit[p].pc = "idle" /\ k \in CustomPermission \ permissions
  /\ permissions' = permissions \union {k}
  /\ UNCHANGED <<roles, granted, cached, edit>>

BeginDeletePermission(p, k) ==
  /\ k \in permissions \ SystemPermission
  /\ StartsEdit(p, [NoEdit EXCEPT !.pc = "removed", !.perms = {k}])

CommitDeletePermission(p) ==
  LET e == edit[p] IN
  /\ e.pc = "permission"
  /\ permissions' = permissions \ e.perms
  /\ granted' = [r \in RoleCode |-> granted[r] \ e.perms]
  /\ edit' = [edit EXCEPT ![p] = NoEdit]
  /\ UNCHANGED <<roles, cached>>

AbortEdit(p) ==
  /\ edit[p].pc # "idle"
  /\ edit' = [edit EXCEPT ![p] = NoEdit]
  /\ UNCHANGED <<roles, permissions, granted, cached>>

-----------------------------------------------------------------------------
(* The check: load_role_perm_codes reads the cache, and on a miss the rows.  *)

MissCache(p, r) ==
  /\ r \in roles /\ cached[r] = NoKey
  /\ StartsEdit(p, [NoEdit EXCEPT !.pc = "fill", !.role = r, !.perms = granted[r]])

FillCache(p) ==
  /\ edit[p].pc = "fill"
  /\ cached' = [cached EXCEPT ![edit[p].role] = edit[p].perms]
  /\ edit' = [edit EXCEPT ![p] = NoEdit]
  /\ UNCHANGED <<roles, permissions, granted>>

(* Mutant: a key without a lifetime. *)
CacheStays(r) == FALSE /\ UNCHANGED rbacVars

CacheExpires(r) ==
  /\ cached[r] # NoKey
  /\ cached' = [cached EXCEPT ![r] = NoKey]
  /\ UNCHANGED <<roles, permissions, granted, edit>>

RbacEdits(p) ==
  \/ \E r \in RoleCode, codes \in SUBSET Permission :
       BeginAddPermissions(p, r, codes) \/ BeginRemovePermissions(p, r, codes)
       \/ BeginSetPermissions(p, r, codes)
  \/ \E r \in RoleCode : BeginSeed(p, r) \/ CreateRole(p, r) \/ BeginDeleteRole(p, r)
  \/ \E k \in Permission : CreatePermission(p, k) \/ BeginDeletePermission(p, k)
  \/ Invalidate(p) \/ CommitGrants(p) \/ CommitDeleteRole(p) \/ CommitDeletePermission(p)
  \/ AbortEdit(p)

RbacNext ==
  \/ \E p \in Request : RbacEdits(p) \/ FillCache(p) \/ \E r \in RoleCode : MissCache(p, r)
  \/ \E r \in RoleCode : CacheExpires(r)

RbacSpec == RbacInit /\ [][RbacNext]_rbacVars

(* A check that has read the rows goes on, and a key lives 60 seconds.       *)
RbacFairness ==
  /\ \A p \in Request : WF_rbacVars(FillCache(p))
  /\ \A r \in RoleCode : WF_rbacVars(CacheExpires(r))
RbacFairSpec == RbacSpec /\ RbacFairness

-----------------------------------------------------------------------------
(* Properties. *)

(* Additions, removals, whole sets and deleted permissions that overlap      *)
(* never take a permission of the catalogue from ADMIN.                      *)
AdminKeepsCatalogue == SystemPermission \subseteq granted["ADMIN"]

(* Whatever old sets the checks put back into the cache, a permission that   *)
(* stays withdrawn is at last no longer served from it.                      *)
WithdrawalSettles ==
  \A r \in RoleCode, k \in Permission :
    <>[](k \notin granted[r]) => <>[](k \notin cached[r])

=============================================================================
