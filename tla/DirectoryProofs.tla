-------------------------- MODULE DirectoryProofs --------------------------
(***************************************************************************)
(* The theorems about roles, administrators and the segment tree, for any   *)
(* number of users, roles, permissions, segments and requests.              *)
(***************************************************************************)
EXTENDS Administrators, Rbac, OrgTree, FiniteFacts

-----------------------------------------------------------------------------
(* Administrators.  A request that is about to demote an administrator has  *)
(* seen another one; until it commits that other one can only be demoted    *)
(* by a request that overlaps with it.                                      *)

AdminTypeOK ==
  /\ roleOf \in [User -> FreeRole \union {"ADMIN"}]
  /\ roleRows \subseteq FreeRole \union {"ADMIN"}
  /\ decision \in [Request -> [pc   : {"idle", "assign", "disable", "enable", "drop"},
                               user : User \union {None},
                               role : FreeRole \union {"ADMIN", None}]]

ActsOnUser == \A p \in Request : decision[p].pc = "assign" => decision[p].user \in User

SparesOne ==
  overlapped \/ \A p \in Request : Demotes(p) => OtherAdmin(decision[p].user)

AdminInv == AdminTypeOK /\ ActsOnUser /\ SparesOne /\ AdministratorRemains

LEMMA AdminInitInv == AdminInit => AdminInv
BY DEF AdminInit, AdminInv, AdminTypeOK, ActsOnUser, SparesOne, AdministratorRemains,
       NoDecision, Demotes

(* A request that begins, or ends without a new role. *)
LEMMA DecisionInv ==
  ASSUME AdminInv, NEW p \in Request,
         NEW d \in [pc : {"idle", "assign", "disable", "enable", "drop"},
                    user : User \union {None}, role : FreeRole \union {"ADMIN", None}],
         decision' = [decision EXCEPT ![p] = d],
         roleOf' = roleOf, overlapped' = overlapped,
         roleRows' \subseteq roleRows,
         d.pc = "assign" => /\ d.user \in User
                            /\ roleOf[d.user] = "ADMIN" /\ d.role # "ADMIN" => OtherAdmin(d.user)
  PROVE  AdminInv'
PROOF
  <1>1. AdminTypeOK'
    BY DEF AdminInv, AdminTypeOK
  <1>2. decision'[p] = d /\ \A q \in Request \ {p} : decision'[q] = decision[q]
    BY DEF AdminInv, AdminTypeOK
  <1>3. ActsOnUser'
    BY <1>2 DEF AdminInv, ActsOnUser
  <1>4. SparesOne' /\ AdministratorRemains'
    BY <1>2 DEF AdminInv, SparesOne, AdministratorRemains, Demotes, OtherAdmin
  <1>. QED
    BY <1>1, <1>3, <1>4 DEF AdminInv

LEMMA AssignInv ==
  ASSUME AdminInv, NEW p \in Request, CommitAssign(p)
  PROVE  AdminInv'
PROOF
  <1>1. AdminTypeOK'
    BY DEF AdminInv, AdminTypeOK, ActsOnUser, CommitAssign, NoDecision
  <1>2. /\ decision'[p] = NoDecision
        /\ \A q \in Request \ {p} : decision'[q] = decision[q]
    BY DEF AdminInv, AdminTypeOK, CommitAssign
  <1>3. ActsOnUser'
    BY <1>2 DEF AdminInv, ActsOnUser, NoDecision
  <1>4. PICK u \in User : u = decision[p].user
    BY DEF AdminInv, ActsOnUser, CommitAssign
  <1>5. roleOf' = [roleOf EXCEPT ![u] = decision[p].role]
    BY <1>4 DEF CommitAssign
  <1>6. /\ roleOf'[u] = decision[p].role
        /\ \A v \in User \ {u} : roleOf'[v] = roleOf[v]
    BY <1>5 DEF AdminInv, AdminTypeOK
  <1>7. CASE overlapped'
    BY <1>1, <1>3, <1>7 DEF AdminInv, SparesOne, AdministratorRemains
  <1>8. CASE ~overlapped' /\ Demotes(p)
    <2>1. \A q \in Request \ {p} : ~Demotes(q)
      BY <1>8 DEF CommitAssign
    <2>2. \A q \in Request : ~Demotes(q)'
      BY <1>2, <1>4, <1>6, <1>8, <2>1 DEF Demotes, NoDecision, AdminInv, ActsOnUser
    <2>3. OtherAdmin(u)
      BY <1>4, <1>8 DEF AdminInv, SparesOne, CommitAssign
    <2>4. \E v \in User : roleOf'[v] = "ADMIN"
      BY <1>6, <2>3 DEF OtherAdmin
    <2>. QED
      BY <1>1, <1>3, <2>2, <2>4 DEF AdminInv, SparesOne, AdministratorRemains
  <1>9. CASE ~overlapped' /\ ~Demotes(p)
    <2>1. ~overlapped
      BY <1>9 DEF CommitAssign
    <2>2. \A v \in User : roleOf[v] = "ADMIN" => roleOf'[v] = "ADMIN"
      BY <1>4, <1>6, <1>9 DEF Demotes, CommitAssign
    <2>3. PICK a \in User : roleOf[a] = "ADMIN"
      BY <2>1 DEF AdminInv, AdministratorRemains
    <2>4. ASSUME NEW q \in Request, Demotes(q)'
          PROVE  OtherAdmin(decision[q].user)' /\ decision'[q].user = decision[q].user
      <3>1. q # p /\ decision'[q] = decision[q] /\ decision[q].user \in User
        BY <1>2, <2>4 DEF Demotes, NoDecision, AdminInv, ActsOnUser
      <3>2. CASE roleOf[decision[q].user] = "ADMIN"
        BY <2>1, <2>2, <2>4, <3>1, <3>2 DEF AdminInv, SparesOne, Demotes, OtherAdmin
      <3>3. CASE roleOf[decision[q].user] # "ADMIN"
        BY <2>2, <2>3, <3>1, <3>3 DEF OtherAdmin
      <3>. QED
        BY <3>2, <3>3
    <2>. QED
      BY <1>1, <1>3, <2>2, <2>3, <2>4 DEF AdminInv, SparesOne, AdministratorRemains, OtherAdmin
  <1>. QED
    BY <1>7, <1>8, <1>9

LEMMA AdminStep == AdminInv /\ [AdminNext]_adminVars => AdminInv'
PROOF
  <1>. SUFFICES ASSUME AdminInv, [AdminNext]_adminVars PROVE AdminInv'
    OBVIOUS
  <1>1. CASE UNCHANGED adminVars
    BY <1>1 DEF adminVars, AdminInv, AdminTypeOK, ActsOnUser, SparesOne, AdministratorRemains,
                Demotes, OtherAdmin
  <1>2. ASSUME NEW p \in Request, NEW u \in User, BeginDisable(p, u) \/ BeginEnable(p, u)
        PROVE  AdminInv'
    BY <1>2, DecisionInv DEF BeginDisable, BeginEnable, StartsDecision
  <1>3. ASSUME NEW p \in Request, NEW u \in User, NEW r \in roleRows, BeginAssign(p, u, r)
        PROVE  AdminInv'
    BY <1>3, DecisionInv DEF BeginAssign, StartsDecision, AdminInv, AdminTypeOK
  <1>4. ASSUME NEW p \in Request, NEW r \in FreeRole, BeginDrop(p, r) PROVE AdminInv'
    BY <1>4, DecisionInv DEF BeginDrop, StartsDecision
  <1>5. ASSUME NEW p \in Request, CommitActive(p) \/ CommitDrop(p) \/ AbortDecision(p)
        PROVE  AdminInv'
    BY <1>5, DecisionInv DEF CommitActive, CommitDrop, AbortDecision, NoDecision
  <1>. QED
    BY <1>1, <1>2, <1>3, <1>4, <1>5, AssignInv DEF AdminNext

(* The last-administrator rule of rbac_service and admin_user_service holds  *)
(* until two withdrawals overlap, for any number of users and requests.       *)
THEOREM SomebodyAdministers == AdminSpec => []AdministratorRemains
PROOF
  <1>1. AdminInv => AdministratorRemains
    BY DEF AdminInv
  <1>. QED
    BY <1>1, AdminInitInv, AdminStep, PTL DEF AdminSpec
-----------------------------------------------------------------------------
(* Rbac.  A change of ADMIN was compared with the catalogue when it began;  *)
(* the rows of the catalogue are never deleted, so that the comparison is    *)
(* not stale when the change commits, whatever committed in between.         *)

Edit == [pc    : {"idle", "written", "grants", "deleted", "role", "removed", "permission", "fill"},
         role  : RoleCode \union {None},
         perms : SUBSET Permission, add : SUBSET Permission, drop : SUBSET Permission]

RbacTypeOK ==
  /\ roles \subseteq RoleCode
  /\ permissions \subseteq Permission
  /\ granted \in [RoleCode -> SUBSET Permission]
  /\ edit \in [Request -> Edit]

SparesCatalogue(e) ==
  /\ e.pc \in {"written", "grants"} =>
       e.role \in RoleCode /\ (e.role = "ADMIN" => e.drop \intersect SystemPermission = {})
  /\ e.pc \in {"deleted", "role"} => e.role \in CustomRole
  /\ e.pc \in {"removed", "permission"} => e.perms \intersect SystemPermission = {}
  /\ e.pc = "fill" => e.role \in RoleCode

RbacInv ==
  /\ RbacTypeOK
  /\ SystemPermission \subseteq permissions
  /\ \A p \in Request : SparesCatalogue(edit[p])
  /\ AdminKeepsCatalogue

LEMMA RbacInitInv == RbacInit => RbacInv
BY CatalogueAssumption
   DEF RbacInit, RbacInv, RbacTypeOK, SparesCatalogue, AdminKeepsCatalogue, NoEdit, Edit, RoleCode,
       SystemRole, Permission

(* A request that begins, moves on or ends and writes no row. *)
LEMMA EditInv ==
  ASSUME RbacInv, NEW p \in Request, NEW e \in Edit, SparesCatalogue(e),
         edit' = [edit EXCEPT ![p] = e],
         UNCHANGED <<roles, permissions, granted>>
  PROVE  RbacInv'
BY DEF RbacInv, RbacTypeOK, SparesCatalogue, AdminKeepsCatalogue, Edit

LEMMA NoEditFits == NoEdit \in Edit /\ SparesCatalogue(NoEdit)
BY DEF NoEdit, Edit, SparesCatalogue

LEMMA RewriteInv ==
  ASSUME RbacInv, NEW p \in Request, NEW r \in RoleCode, NEW codes \in SUBSET Permission,
         \/ BeginAddPermissions(p, r, codes) \/ BeginRemovePermissions(p, r, codes)
         \/ BeginSetPermissions(p, r, codes)
  PROVE  RbacInv'
PROOF
  <1>1. PICK add, drop \in SUBSET Permission :
          /\ Rewrites(p, r, add, drop)
          /\ r = "ADMIN" => drop \intersect SystemPermission = {}
    <2>1. granted[r] \in SUBSET Permission
      BY DEF RbacInv, RbacTypeOK
    <2>2. CASE BeginAddPermissions(p, r, codes)
      BY <2>1, <2>2 DEF BeginAddPermissions
    <2>3. CASE BeginRemovePermissions(p, r, codes)
      <3>1. r = "ADMIN" => (codes \intersect granted[r]) \intersect SystemPermission = {}
        BY <2>3 DEF BeginRemovePermissions, Frozen, RbacInv
      <3>. QED
        BY <2>1, <2>3, <3>1 DEF BeginRemovePermissions
    <2>4. CASE BeginSetPermissions(p, r, codes)
      <3>1. r = "ADMIN" => (granted[r] \ codes) \intersect SystemPermission = {}
        BY <2>4 DEF BeginSetPermissions, Frozen, RbacInv
      <3>. QED
        BY <2>1, <2>4, <3>1 DEF BeginSetPermissions
    <2>. QED
      BY <2>2, <2>3, <2>4
  <1> DEFINE e == [NoEdit EXCEPT !.pc = "written", !.role = r, !.add = add, !.drop = drop]
  <1>2. e \in Edit /\ SparesCatalogue(e)
    BY <1>1 DEF NoEdit, Edit, SparesCatalogue
  <1>. QED
    BY <1>1, <1>2, EditInv DEF Rewrites, StartsEdit

LEMMA SeedInv ==
  ASSUME RbacInv, NEW p \in Request, NEW r \in RoleCode, BeginSeed(p, r)
  PROVE  RbacInv'
PROOF
  <1> DEFINE add == (IF r = "USER" THEN SelfPermission ELSE SystemPermission) \ granted[r]
             e == [NoEdit EXCEPT !.pc = "written", !.role = r, !.add = add, !.drop = {}]
  <1>1. add \in SUBSET Permission
    BY CatalogueAssumption DEF Permission
  <1>2. e \in Edit /\ SparesCatalogue(e)
    BY <1>1 DEF NoEdit, Edit, SparesCatalogue
  <1>. QED
    BY <1>2, EditInv DEF BeginSeed, Rewrites, StartsEdit

LEMMA RowsInv ==
  ASSUME RbacInv, NEW p \in Request,
         \/ CommitGrants(p) \/ CommitDeleteRole(p) \/ CommitDeletePermission(p)
  PROVE  RbacInv'
PROOF
  <1>1. NoEdit \in Edit /\ SparesCatalogue(NoEdit)
    BY NoEditFits
  <1>2. edit' = [edit EXCEPT ![p] = NoEdit] /\ \A q \in Request : SparesCatalogue(edit'[q])
    BY <1>1 DEF RbacInv, RbacTypeOK, CommitGrants, CommitDeleteRole, CommitDeletePermission
  <1>3. edit[p] \in Edit /\ SparesCatalogue(edit[p])
    BY DEF RbacInv, RbacTypeOK, Edit
  <1>4. "ADMIN" \in RoleCode /\ "ADMIN" \notin CustomRole
    BY CatalogueAssumption DEF RoleCode, SystemRole
  <1>5. CASE CommitGrants(p)
    BY <1>1, <1>2, <1>3, <1>4, <1>5
       DEF RbacInv, RbacTypeOK, SparesCatalogue, AdminKeepsCatalogue, CommitGrants, Edit
  <1>6. CASE CommitDeleteRole(p)
    <2>1. edit[p].role \in RoleCode /\ edit[p].role # "ADMIN"
      BY <1>3, <1>4, <1>6 DEF SparesCatalogue, CommitDeleteRole, RoleCode
    <2>. QED
      BY <1>1, <1>2, <1>4, <1>6, <2>1
         DEF RbacInv, RbacTypeOK, SparesCatalogue, AdminKeepsCatalogue, CommitDeleteRole, Edit
  <1>7. CASE CommitDeletePermission(p)
    <2>1. edit[p].perms \intersect SystemPermission = {}
      BY <1>3, <1>7 DEF SparesCatalogue, CommitDeletePermission
    <2>. QED
      BY <1>1, <1>2, <1>4, <1>7, <2>1
         DEF RbacInv, RbacTypeOK, SparesCatalogue, AdminKeepsCatalogue, CommitDeletePermission, Edit
  <1>. QED
    BY <1>5, <1>6, <1>7

LEMMA RbacStep == RbacInv /\ [RbacNext]_rbacVars => RbacInv'
PROOF
  <1>. SUFFICES ASSUME RbacInv, [RbacNext]_rbacVars PROVE RbacInv'
    OBVIOUS
  <1>1. CASE UNCHANGED rbacVars
    BY <1>1 DEF rbacVars, RbacInv, RbacTypeOK, SparesCatalogue, AdminKeepsCatalogue
  <1>2. ASSUME NEW p \in Request, NEW r \in RoleCode,
               BeginDeleteRole(p, r) \/ CreateRole(p, r) \/ MissCache(p, r)
        PROVE  RbacInv'
    <2>1. CASE BeginDeleteRole(p, r)
      <3> DEFINE e == [NoEdit EXCEPT !.pc = "deleted", !.role = r]
      <3>1. e \in Edit /\ SparesCatalogue(e)
        BY <2>1 DEF NoEdit, Edit, SparesCatalogue, BeginDeleteRole, RoleCode, RbacInv, RbacTypeOK
      <3>. QED
        BY <2>1, <3>1, EditInv DEF BeginDeleteRole, StartsEdit
    <2>2. CASE CreateRole(p, r)
      BY <2>2 DEF CreateRole, RbacInv, RbacTypeOK, SparesCatalogue, AdminKeepsCatalogue
    <2>3. CASE MissCache(p, r)
      <3> DEFINE e == [NoEdit EXCEPT !.pc = "fill", !.role = r, !.perms = granted[r]]
      <3>1. e \in Edit /\ SparesCatalogue(e)
        BY DEF NoEdit, Edit, SparesCatalogue, RbacInv, RbacTypeOK
      <3>. QED
        BY <2>3, <3>1, EditInv DEF MissCache, StartsEdit
    <2>. QED
      BY <1>2, <2>1, <2>2, <2>3
  <1>3. ASSUME NEW p \in Request, NEW k \in Permission,
               CreatePermission(p, k) \/ BeginDeletePermission(p, k)
        PROVE  RbacInv'
    <2>1. CASE CreatePermission(p, k)
      BY <2>1 DEF CreatePermission, RbacInv, RbacTypeOK, SparesCatalogue, AdminKeepsCatalogue
    <2>2. CASE BeginDeletePermission(p, k)
      <3> DEFINE e == [NoEdit EXCEPT !.pc = "removed", !.perms = {k}]
      <3>1. e \in Edit /\ SparesCatalogue(e)
        BY <2>2 DEF NoEdit, Edit, SparesCatalogue, BeginDeletePermission
      <3>. QED
        BY <2>2, <3>1, EditInv DEF BeginDeletePermission, StartsEdit
    <2>. QED
      BY <1>3, <2>1, <2>2
  <1>4. ASSUME NEW p \in Request, Invalidate(p) PROVE RbacInv'
    <2> DEFINE e == [edit[p] EXCEPT !.pc = IF edit[p].pc = "written" THEN "grants"
                                    ELSE IF edit[p].pc = "deleted" THEN "role" ELSE "permission"]
    <2>1. edit' = [edit EXCEPT ![p] = e]
      BY <1>4 DEF Invalidate, RbacInv, RbacTypeOK
    <2>2. e \in Edit /\ SparesCatalogue(e)
      BY <1>4 DEF Invalidate, RbacInv, RbacTypeOK, Edit, SparesCatalogue
    <2>. QED
      BY <1>4, <2>1, <2>2, EditInv DEF Invalidate
  <1>5. ASSUME NEW p \in Request, AbortEdit(p) \/ FillCache(p) PROVE RbacInv'
    BY <1>5, NoEditFits, EditInv DEF AbortEdit, FillCache
  <1>6. ASSUME NEW r \in RoleCode, CacheExpires(r) PROVE RbacInv'
    BY <1>6 DEF CacheExpires, RbacInv, RbacTypeOK, SparesCatalogue, AdminKeepsCatalogue
  <1>. QED
    BY <1>1, <1>2, <1>3, <1>4, <1>5, <1>6, RewriteInv, SeedInv, RowsInv DEF RbacNext, RbacEdits

(* However the additions, removals, whole sets and deletions of any number of *)
(* requests overlap, ADMIN keeps every permission of the catalogue.           *)
THEOREM AdminPermissionsStand == RbacSpec => []AdminKeepsCatalogue
PROOF
  <1>1. RbacInv => AdminKeepsCatalogue
    BY DEF RbacInv
  <1>. QED
    BY <1>1, RbacInitInv, RbacStep, PTL DEF RbacSpec
-----------------------------------------------------------------------------
(* OrgTree.  What every request keeps: parents are rows, a segment that is  *)
(* being created is named by nobody else, and a walk has its new parent and  *)
(* its segment among what it has seen.                                       *)

Patch == [pc    : {"idle", "create", "walk", "delete"},
          seg   : Segment \union {None},
          new   : Segment \union {None},
          level : Level \union {None, Kept},
          next  : Segment \union {None},
          seen  : SUBSET Segment]

TreeTypeOK ==
  /\ parent \in [Segment -> Segment \union {None, Absent}]
  /\ kind \in [Segment -> Level \union {None}]
  /\ patch \in [Request -> Patch]
  /\ crossed \in BOOLEAN /\ retyped \in BOOLEAN

RowsPointToRows ==
  \A s \in Segment : /\ s \in Rows => parent[s] \in Rows \union {None}
                     /\ s \notin Rows => kind[s] = None

Named(r) == {r.seg, r.new, r.next} \union r.seen

NamesFit(p) ==
  LET r == patch[p] IN
  /\ r.pc # "idle" => r.seg \in Segment
  /\ r.pc = "create" => /\ r.seg \notin Rows /\ r.new # r.seg /\ r.level \in Level \union {None}
                        /\ \A q \in Request \ {p} : r.seg \notin Named(patch[q])
  /\ r.pc = "walk" => /\ r.new \in r.seen /\ r.seg \in r.seen /\ r.new # r.seg
                      /\ r.new \in Segment

PatchNames == \A p \in Request : NamesFit(p)

TreeShape == TreeTypeOK /\ RowsPointToRows /\ PatchNames

LEMMA TreeInitShape == TreeInit => TreeShape
PROOF
  <1>. SUFFICES ASSUME TreeInit PROVE TreeShape
    OBVIOUS
  <1>1. NoPatch \in Patch
    BY DEF NoPatch, Patch
  <1>2. TreeTypeOK
    BY <1>1 DEF TreeInit, TreeTypeOK
  <1>3. Rows = {}
    BY DEF TreeInit, Rows
  <1>4. RowsPointToRows /\ PatchNames
    BY <1>3 DEF TreeInit, RowsPointToRows, PatchNames, NamesFit, NoPatch
  <1>. QED
    BY <1>2, <1>4 DEF TreeShape

(* A request that begins, moves on or ends and writes no row. *)
LEMMA PatchShape ==
  ASSUME TreeShape, NEW p \in Request, NEW r \in Patch,
         patch' = [patch EXCEPT ![p] = r],
         UNCHANGED <<parent, kind, crossed, retyped>>,
         Named(r) \intersect Segment \subseteq
           Rows \union Named(patch[p]) \union (IF r.pc = "create" THEN {r.seg} ELSE {}),
         r.pc # "idle" => r.seg \in Segment,
         r.pc = "create" => /\ r.seg \notin Rows /\ r.new # r.seg /\ r.level \in Level \union {None}
                            /\ \A q \in Request : r.seg \notin Named(patch[q]),
         r.pc = "walk" => /\ r.new \in r.seen /\ r.seg \in r.seen /\ r.new # r.seg
                          /\ r.new \in Segment
  PROVE  TreeShape'
PROOF
  <1>1. patch'[p] = r /\ \A q \in Request \ {p} : patch'[q] = patch[q]
    BY DEF TreeShape, TreeTypeOK
  <1>2. TreeTypeOK' /\ RowsPointToRows'
    BY DEF TreeShape, TreeTypeOK, RowsPointToRows, Rows
  <1>3. Rows' = Rows
    BY DEF Rows
  <1>4. ASSUME NEW q \in Request \ {p}, patch[q].pc = "create"
        PROVE  patch[q].seg \notin Named(r)
    <2>1. /\ patch[q].seg \in Segment /\ patch[q].seg \notin Rows
          /\ patch[q].seg \notin Named(patch[p])
      BY <1>4 DEF TreeShape, PatchNames, NamesFit
    <2>2. r.pc = "create" => r.seg # patch[q].seg
      BY DEF Named
    <2>. QED
      BY <2>1, <2>2
  <1>. HIDE DEF Named
  <1>5. PatchNames'
    <2>. SUFFICES ASSUME NEW q \in Request PROVE NamesFit(q)'
      BY DEF PatchNames
    <2>1. CASE q = p
      BY <1>1, <1>3, <2>1 DEF NamesFit, Named
    <2>2. CASE q # p
      <3>1. patch'[q] = patch[q]
        BY <1>1, <2>2
      <3>2. NamesFit(q)
        BY DEF TreeShape, PatchNames
      <3>. QED
        BY <1>1, <1>3, <1>4, <2>2, <3>1, <3>2 DEF NamesFit, Named
    <2>. QED
      BY <2>1, <2>2
  <1>. QED
    BY <1>2, <1>5 DEF TreeShape

(* A row that is written keeps the shape. *)
LEMMA CreateShape ==
  ASSUME TreeShape, NEW p \in Request, CommitCreate(p)
  PROVE  /\ TreeShape'
         /\ Rows' = Rows \union {patch[p].seg}
         /\ patch[p].seg \in Segment \ Rows
         /\ \A s \in Segment \ {patch[p].seg} : parent'[s] = parent[s] /\ kind'[s] = kind[s]
         /\ parent'[patch[p].seg] = patch[p].new /\ kind'[patch[p].seg] = patch[p].level
         /\ patch'[p] = NoPatch /\ \A q \in Request \ {p} : patch'[q] = patch[q]
PROOF
  <1> DEFINE r == patch[p]
  <1>1. r.seg \in Segment \ Rows /\ r.new # r.seg /\ r.level \in Level \union {None} /\ r \in Patch
    BY DEF TreeShape, TreeTypeOK, PatchNames, NamesFit, CommitCreate
  <1>2. /\ patch'[p] = NoPatch /\ \A q \in Request \ {p} : patch'[q] = patch[q]
        /\ NoPatch \in Patch
    BY DEF TreeShape, TreeTypeOK, CommitCreate, EndsPatch, Patch, NoPatch
  <1>3. /\ \A s \in Segment \ {r.seg} : parent'[s] = parent[s] /\ kind'[s] = kind[s]
        /\ parent'[r.seg] = r.new /\ kind'[r.seg] = r.level
    BY <1>1 DEF TreeShape, TreeTypeOK, CommitCreate
  <1>4. Rows' = Rows \union {r.seg}
    BY <1>1, <1>3, NoneIsNoSegment, NoneIsNotAbsent DEF Rows, Absent, CommitCreate
  <1>5. TreeTypeOK'
    BY <1>1, <1>2 DEF TreeShape, TreeTypeOK, CommitCreate, EndsPatch, Patch
  <1>6. RowsPointToRows'
    BY <1>1, <1>3, <1>4 DEF TreeShape, RowsPointToRows, CommitCreate
  <1>7. PatchNames'
    <2>. SUFFICES ASSUME NEW q \in Request PROVE NamesFit(q)'
      BY DEF PatchNames
    <2>1. CASE q = p
      BY <1>2, <2>1 DEF NamesFit, NoPatch
    <2>2. CASE q # p
      <3>1. NamesFit(q) /\ NamesFit(p)
        BY DEF TreeShape, PatchNames
      <3>2. patch'[q] = patch[q] /\ (patch[q].pc = "create" => patch[q].seg # r.seg)
        BY <1>2, <2>2, <3>1 DEF NamesFit, Named, CommitCreate
      <3>. QED
        BY <1>2, <1>4, <2>2, <3>1, <3>2, NoneIsNoSegment DEF NamesFit, Named, NoPatch
    <2>. QED
      BY <2>1, <2>2
  <1>. QED
    BY <1>1, <1>2, <1>3, <1>4, <1>5, <1>6, <1>7 DEF TreeShape

(* A row that moves, is deleted or changes its level: no row appears, and a   *)
(* request at most ends.                                                     *)
LEMMA RowShape ==
  ASSUME TreeShape, TreeTypeOK', RowsPointToRows', Rows' \subseteq Rows,
         \A q \in Request : patch'[q] \in {patch[q], NoPatch}
  PROVE  TreeShape'
PROOF
  <1>1. ASSUME NEW q \in Request PROVE NamesFit(q)'
    <2>1. NamesFit(q)
      BY DEF TreeShape, PatchNames
    <2>2. CASE patch'[q] = NoPatch
      BY <2>2 DEF NamesFit, NoPatch
    <2>3. CASE patch'[q] = patch[q]
      <3>1. ASSUME NEW x \in Request PROVE Named(patch'[x]) \subseteq Named(patch[x]) \union {None}
        BY DEF Named, NoPatch
      <3>2. patch[q].pc = "create" =>
              patch[q].seg # None /\ \A x \in Request \ {q} : patch[q].seg \notin Named(patch[x])
        BY <2>1, NoneIsNoSegment DEF NamesFit
      <3>3. patch[q].pc = "create" =>
              \A x \in Request \ {q} : patch[q].seg \notin Named(patch'[x])
        BY <3>1, <3>2
      <3>. QED
        BY <2>1, <2>3, <3>3 DEF NamesFit
    <2>. QED
      BY <2>2, <2>3
  <1>. QED
    BY <1>1 DEF TreeShape, PatchNames

LEMMA RequestStepShape ==
  ASSUME TreeShape, NEW p \in Request,
         \/ \E s \in Segment, q \in Segment \union {None}, l \in Level \union {None} :
              BeginCreate(p, s, q, l)
         \/ \E s, q \in Segment, l \in Level \union {None, Kept} : BeginMove(p, s, q, l)
         \/ \E s \in Segment : BeginDelete(p, s)
         \/ Hop(p) \/ AbortPatch(p)
  PROVE  TreeShape'
PROOF
  <1>1. ASSUME NEW s \in Segment, NEW q \in Segment \union {None}, NEW l \in Level \union {None},
               BeginCreate(p, s, q, l)
        PROVE  TreeShape'
    <2> DEFINE r == [NoPatch EXCEPT !.pc = "create", !.seg = s, !.new = q, !.level = l]
    <2>1. r \in Patch
      BY DEF Patch, NoPatch
    <2>2. /\ Named(r) \intersect Segment \subseteq Rows \union {s}
          /\ \A x \in Request : s \notin Named(patch[x])
          /\ s \notin Rows /\ q # s
      BY <1>1, NoneIsNoSegment DEF BeginCreate, Named, NoPatch
    <2>. QED
      BY <1>1, <2>1, <2>2, PatchShape DEF BeginCreate, StartsPatch, NoPatch
  <1>2. ASSUME NEW s \in Segment, NEW q \in Segment, NEW l \in Level \union {None, Kept},
               BeginMove(p, s, q, l)
        PROVE  TreeShape'
    <2> DEFINE r == [pc |-> "walk", seg |-> s, new |-> q, level |-> l, next |-> parent[q],
                     seen |-> {s, q}]
    <2>1. parent[q] \in Rows \union {None} /\ s \in Rows /\ q \in Rows /\ s # q
      BY <1>2 DEF BeginMove, TreeShape, RowsPointToRows
    <2>2. r \in Patch /\ Named(r) \intersect Segment \subseteq Rows
      BY <2>1, NoneIsNoSegment DEF Patch, Named, Rows
    <2>. QED
      BY <1>2, <2>1, <2>2, PatchShape DEF BeginMove, StartsPatch
  <1>3. ASSUME NEW s \in Segment, BeginDelete(p, s) PROVE TreeShape'
    <2> DEFINE r == [NoPatch EXCEPT !.pc = "delete", !.seg = s]
    <2>1. r \in Patch /\ Named(r) \intersect Segment \subseteq Rows
      BY <1>3, NoneIsNoSegment DEF BeginDelete, Patch, NoPatch, Named
    <2>. QED
      BY <1>3, <2>1, PatchShape DEF BeginDelete, StartsPatch, NoPatch
  <1>4. CASE Hop(p)
    <2> DEFINE r == [patch[p] EXCEPT !.next = parent[patch[p].next],
                                     !.seen = @ \union {patch[p].next}]
    <2>1. /\ patch[p] \in Patch /\ NamesFit(p)
          /\ patch[p].next \in Rows /\ parent[patch[p].next] \in Rows \union {None}
      BY <1>4 DEF Hop, TreeShape, TreeTypeOK, PatchNames, RowsPointToRows, Rows
    <2>2. r \in Patch /\ patch' = [patch EXCEPT ![p] = r]
      BY <1>4, <2>1 DEF Hop, Patch, Rows, TreeShape, TreeTypeOK
    <2>3. Named(r) \intersect Segment \subseteq Rows \union Named(patch[p])
      BY <2>1, NoneIsNoSegment DEF Named, Patch, Rows
    <2>4. r.pc = "walk" /\ r.seg = patch[p].seg /\ r.new = patch[p].new /\ patch[p].seen \subseteq r.seen
      BY <1>4, <2>1 DEF Hop, Patch
    <2> HIDE DEF r
    <2>. QED
      BY <1>4, <2>1, <2>2, <2>3, <2>4, PatchShape DEF Hop, NamesFit
  <1>5. CASE AbortPatch(p)
    <2>1. NoPatch \in Patch /\ Named(NoPatch) \intersect Segment = {} /\ NoPatch.pc = "idle"
      BY NoneIsNoSegment DEF Patch, NoPatch, Named
    <2>. QED
      BY <1>5, <2>1, PatchShape DEF AbortPatch, EndsPatch
  <1>. QED
    BY <1>1, <1>2, <1>3, <1>4, <1>5

LEMMA RowStepShape ==
  ASSUME TreeShape, NEW p \in Request,
         \/ \E s \in Segment, l \in Level \union {None, Kept} : MoveToRoot(p, s, l)
         \/ \E s \in Segment, l \in Level \union {None} : Retype(p, s, l)
         \/ \E l, new \in Level : PatchType(p, l, new)
         \/ CommitMove(p) \/ CommitDelete(p)
  PROVE  TreeShape'
PROOF
  <1>. USE NoneIsNoSegment, NoneIsNotAbsent
  <1>1. ASSUME NEW s \in Segment, NEW l \in Level \union {None, Kept}, MoveToRoot(p, s, l)
        PROVE  TreeShape'
    <2>1. /\ s \in Rows /\ parent'[s] = None /\ \A x \in Segment \ {s} : parent'[x] = parent[x]
          /\ \A x \in Segment \ {s} : kind'[x] = kind[x]
      BY <1>1 DEF MoveToRoot, TreeShape, TreeTypeOK
    <2>2. Rows' = Rows
      BY <2>1 DEF Rows, Absent
    <2>3. TreeTypeOK'
      BY <1>1 DEF MoveToRoot, TreeShape, TreeTypeOK
    <2>4. RowsPointToRows'
      BY <2>1, <2>2 DEF TreeShape, RowsPointToRows
    <2>. QED
      BY <1>1, <2>2, <2>3, <2>4, RowShape DEF MoveToRoot
  <1>2. ASSUME NEW s \in Segment, NEW l \in Level \union {None}, Retype(p, s, l)
        PROVE  TreeShape'
    <2>1. s \in Rows /\ \A x \in Segment \ {s} : kind'[x] = kind[x]
      BY <1>2 DEF Retype, TreeShape, TreeTypeOK
    <2>2. Rows' = Rows
      BY <1>2 DEF Retype, Rows
    <2>3. TreeTypeOK'
      BY <1>2 DEF Retype, TreeShape, TreeTypeOK
    <2>4. RowsPointToRows'
      BY <1>2, <2>1, <2>2 DEF Retype, TreeShape, RowsPointToRows
    <2>. QED
      BY <1>2, <2>2, <2>3, <2>4, RowShape DEF Retype
  <1>3. ASSUME NEW l \in Level, NEW new \in Level, PatchType(p, l, new) PROVE TreeShape'
    <2>1. Rows' = Rows
      BY <1>3 DEF PatchType, Rows
    <2>2. TreeTypeOK'
      BY <1>3 DEF PatchType, TreeShape, TreeTypeOK
    <2>3. RowsPointToRows'
      BY <1>3, <2>1 DEF PatchType, TreeShape, RowsPointToRows
    <2>. QED
      BY <1>3, <2>1, <2>2, <2>3, RowShape DEF PatchType
  <1>4. CASE CommitMove(p)
    <2> DEFINE r == patch[p]
    <2>1. r \in Patch /\ r.seg \in Segment /\ r.new \in Segment
      BY <1>4 DEF CommitMove, TreeShape, TreeTypeOK, PatchNames, NamesFit
    <2>2. /\ r.seg \in Rows /\ r.new \in Rows
          /\ parent'[r.seg] = r.new /\ \A x \in Segment \ {r.seg} : parent'[x] = parent[x]
          /\ \A x \in Segment \ {r.seg} : kind'[x] = kind[x]
      BY <1>4, <2>1 DEF CommitMove, TreeShape, TreeTypeOK
    <2>3. Rows' = Rows
      BY <2>1, <2>2 DEF Rows, Absent
    <2>4. NoPatch \in Patch
      BY DEF NoPatch, Patch
    <2>5. kind' \in [Segment -> Level \union {None}]
      BY <1>4, <2>1 DEF CommitMove, TreeShape, TreeTypeOK, Patch
    <2>6. TreeTypeOK'
      BY <1>4, <2>1, <2>4, <2>5 DEF CommitMove, EndsPatch, TreeShape, TreeTypeOK
    <2>7. RowsPointToRows'
      BY <2>1, <2>2, <2>3 DEF TreeShape, RowsPointToRows
    <2>8. \A q \in Request : patch'[q] \in {patch[q], NoPatch}
      BY <1>4 DEF CommitMove, EndsPatch, TreeShape, TreeTypeOK
    <2>. QED
      BY <2>3, <2>6, <2>7, <2>8, RowShape
  <1>5. CASE CommitDelete(p)
    <2> DEFINE s == patch[p].seg
    <2>1. s \in Segment /\ s \in Rows
      BY <1>5 DEF CommitDelete, Rows
    <2>2. /\ parent'[s] = Absent /\ kind'[s] = None
          /\ \A x \in Segment \ {s} : /\ parent'[x] = IF parent[x] = s THEN None ELSE parent[x]
                                      /\ kind'[x] = kind[x]
      BY <1>5, <2>1 DEF CommitDelete, TreeShape, TreeTypeOK
    <2>3. Rows' = Rows \ {s}
      BY <2>1, <2>2 DEF Rows, Absent
    <2>4. NoPatch \in Patch
      BY DEF NoPatch, Patch
    <2>5. TreeTypeOK'
      BY <1>5, <2>1, <2>4 DEF CommitDelete, EndsPatch, TreeShape, TreeTypeOK
    <2>6. RowsPointToRows'
      BY <2>1, <2>2, <2>3 DEF TreeShape, RowsPointToRows
    <2>7. \A q \in Request : patch'[q] \in {patch[q], NoPatch}
      BY <1>5 DEF CommitDelete, EndsPatch, TreeShape, TreeTypeOK
    <2>. QED
      BY <2>3, <2>5, <2>6, <2>7, RowShape
  <1>. QED
    BY <1>1, <1>2, <1>3, <1>4, <1>5

LEMMA TreeStepShape == TreeShape /\ [TreeNext]_treeVars => TreeShape'
PROOF
  <1>. SUFFICES ASSUME TreeShape, [TreeNext]_treeVars PROVE TreeShape'
    OBVIOUS
  <1>1. CASE UNCHANGED treeVars
    BY <1>1 DEF treeVars, TreeShape, TreeTypeOK, RowsPointToRows, PatchNames, NamesFit, Rows
  <1>2. ASSUME NEW p \in Request, CommitCreate(p) PROVE TreeShape'
    BY <1>2, CreateShape
  <1>. QED
    BY <1>1, <1>2, RequestStepShape, RowStepShape DEF TreeNext

(* Levels: until a level changes, they decrease from a typed parent to a     *)
(* typed child, and they will after what is pending.                         *)

Given(r) == IF r.level = Kept THEN kind[r.seg] ELSE r.level

LevelsDescend == \A s \in Rows : LevelFits(parent[s], kind[s])

LevelsFit(p) ==
  LET r == patch[p] IN
  /\ r.pc = "create" /\ r.new \in Rows => LevelFits(r.new, r.level)
  /\ r.pc = "walk" /\ r.new \in Rows /\ r.seg \in Rows => LevelFits(r.new, Given(r))

PatchesFit == \A p \in Request : LevelsFit(p)

LevelsInv == TreeShape /\ (retyped \/ (LevelsDescend /\ PatchesFit))

(* A level that a step leaves alone still fits. *)
LEMMA StillFits ==
  ASSUME NEW q, kind'[q] = kind[q], NEW l, LevelFits(q, l)
  PROVE  LevelFits(q, l)'
BY DEF LevelFits

LEMMA LevelsStep ==
  ASSUME LevelsInv, TreeShape', [TreeNext]_treeVars
  PROVE  LevelsInv'
PROOF
  <1>. SUFFICES ASSUME ~retyped' PROVE LevelsDescend' /\ PatchesFit'
    BY DEF LevelsInv
  <1>. USE NoneIsNoSegment, NoneIsNotAbsent
  <1>1. CASE UNCHANGED treeVars
    BY <1>1 DEF treeVars, LevelsInv, LevelsDescend, PatchesFit, LevelsFit, LevelFits, Given, Rows
  <1>2. ASSUME UNCHANGED <<parent, kind>>, ~retyped, NEW p \in Request, NEW r \in Patch,
               patch' = [patch EXCEPT ![p] = r],
               r.pc = "create" /\ r.new \in Rows => LevelFits(r.new, r.level),
               r.pc = "walk" /\ r.new \in Rows /\ r.seg \in Rows => LevelFits(r.new, Given(r))
        PROVE  LevelsDescend' /\ PatchesFit'
    <2>1. Rows' = Rows /\ LevelsDescend' /\ patch'[p] = r
      BY <1>2 DEF Rows, LevelsInv, LevelsDescend, LevelFits, TreeShape, TreeTypeOK
    <2>2. \A q \in Request \ {p} : patch'[q] = patch[q]
      BY <1>2 DEF LevelsInv, TreeShape, TreeTypeOK
    <2>. QED
      BY <1>2, <2>1, <2>2 DEF LevelsInv, PatchesFit, LevelsFit, LevelFits, Given
  <1>3. ASSUME NEW p \in Request, NEW s \in Segment, NEW q \in Segment \union {None},
               NEW l \in Level \union {None}, BeginCreate(p, s, q, l)
        PROVE  LevelsDescend' /\ PatchesFit'
    <2> DEFINE r == [NoPatch EXCEPT !.pc = "create", !.seg = s, !.new = q, !.level = l]
    <2>1. r \in Patch /\ r.pc = "create" /\ r.new = q /\ r.level = l
      BY DEF Patch, NoPatch
    <2>. QED
      BY <1>2, <1>3, <2>1 DEF BeginCreate, StartsPatch
  <1>4. ASSUME NEW p \in Request, NEW s \in Segment, NEW q \in Segment,
               NEW l \in Level \union {None, Kept}, BeginMove(p, s, q, l)
        PROVE  LevelsDescend' /\ PatchesFit'
    <2> DEFINE r == [pc |-> "walk", seg |-> s, new |-> q, level |-> l, next |-> parent[q],
                     seen |-> {s, q}]
    <2>1. r \in Patch
      BY <1>4 DEF BeginMove, LevelsInv, TreeShape, RowsPointToRows, Patch, Rows
    <2>. QED
      BY <1>2, <1>4, <2>1 DEF BeginMove, StartsPatch, Given
  <1>5. ASSUME NEW p \in Request, AbortPatch(p) \/ \E s \in Segment : BeginDelete(p, s)
        PROVE  LevelsDescend' /\ PatchesFit'
    <2>1. /\ NoPatch \in Patch /\ NoPatch.pc = "idle"
          /\ \A s \in Segment : LET r == [NoPatch EXCEPT !.pc = "delete", !.seg = s]
                                IN  r \in Patch /\ r.pc = "delete"
      BY DEF Patch, NoPatch
    <2>. QED
      BY <1>2, <1>5, <2>1 DEF AbortPatch, BeginDelete, StartsPatch, EndsPatch
  <1>6. ASSUME NEW p \in Request, Hop(p)
        PROVE  LevelsDescend' /\ PatchesFit'
    <2> DEFINE r == [patch[p] EXCEPT !.next = parent[patch[p].next],
                                     !.seen = @ \union {patch[p].next}]
    <2>1. patch[p] \in Patch /\ patch[p].next \in Rows /\ parent[patch[p].next] \in Rows \union {None}
      BY <1>6 DEF Hop, LevelsInv, TreeShape, TreeTypeOK, RowsPointToRows, Rows
    <2>2. r \in Patch /\ patch' = [patch EXCEPT ![p] = r]
      BY <1>6, <2>1 DEF Hop, Patch, Rows, LevelsInv, TreeShape, TreeTypeOK
    <2>3. r.pc = "walk" /\ r.seg = patch[p].seg /\ r.new = patch[p].new /\ r.level = patch[p].level
      BY <1>6, <2>1 DEF Hop, Patch
    <2>4. ~retyped /\ UNCHANGED <<parent, kind>>
      BY <1>6 DEF Hop
    <2>5. Given(r) = Given(patch[p]) /\ LevelsFit(p)
      BY <2>3, <2>4 DEF Given, LevelsInv, PatchesFit
    <2> HIDE DEF r
    <2>6. r.new \in Rows /\ r.seg \in Rows => LevelFits(r.new, Given(r))
      BY <1>6, <2>3, <2>5 DEF Hop, LevelsFit
    <2>. QED
      BY <1>2, <2>2, <2>3, <2>4, <2>6
  <1>7. ASSUME NEW p \in Request, CommitCreate(p)
        PROVE  LevelsDescend' /\ PatchesFit'
    <2> DEFINE n == patch[p].seg
    <2>1. /\ Rows' = Rows \union {n} /\ n \in Segment \ Rows
          /\ \A s \in Segment \ {n} : parent'[s] = parent[s] /\ kind'[s] = kind[s]
          /\ parent'[n] = patch[p].new /\ kind'[n] = patch[p].level
          /\ patch'[p] = NoPatch /\ \A q \in Request \ {p} : patch'[q] = patch[q]
      BY <1>7, CreateShape DEF LevelsInv
    <2>2. ~retyped /\ patch[p].new \in Rows \union {None} /\ LevelsDescend /\ PatchesFit
      BY <1>7 DEF CommitCreate, LevelsInv
    <2>3. \A s \in Segment \ {n} : \A l : LevelFits(s, l) => LevelFits(s, l)'
      BY <2>1, StillFits
    <2>4. LevelFits(n, kind[n]) /\ \A l : LevelFits(None, l)'
      BY <2>1 DEF LevelFits, LevelsInv, TreeShape, RowsPointToRows
    <2>5. LevelsDescend'
      <3>. SUFFICES ASSUME NEW s \in Rows \union {n} PROVE LevelFits(parent[s], kind[s])'
        BY <2>1 DEF LevelsDescend
      <3>1. CASE s = n
        <4>1. patch[p].new \in Rows => LevelFits(patch[p].new, patch[p].level)
          BY <1>7, <2>2 DEF PatchesFit, LevelsFit, CommitCreate
        <4>. QED
          BY <2>1, <2>2, <2>3, <2>4, <3>1, <4>1 DEF Rows, LevelFits
      <3>2. CASE s # n
        <4>1. s \in Rows /\ parent[s] \in Rows \union {None} /\ LevelFits(parent[s], kind[s])
          BY <2>2, <3>2 DEF LevelsDescend, LevelsInv, TreeShape, RowsPointToRows, Rows
        <4>. QED
          BY <2>1, <2>3, <2>4, <3>2, <4>1 DEF Rows, LevelFits
      <3>. QED
        BY <3>1, <3>2
    <2>6. PatchesFit'
      <3>1. ASSUME NEW q \in Request \ {p} PROVE LevelsFit(q)'
        <4>1. n \notin {patch[q].seg, patch[q].new}
          BY <1>7 DEF LevelsInv, TreeShape, PatchNames, NamesFit, Named, CommitCreate
        <4>2. LevelsFit(q) /\ patch'[q] = patch[q]
          BY <2>1, <2>2 DEF PatchesFit
        <4>. QED
          BY <2>1, <2>3, <4>1, <4>2 DEF LevelsFit, LevelFits, Given, Rows
      <3>2. LevelsFit(p)'
        BY <2>1 DEF LevelsFit, NoPatch
      <3>. QED
        BY <3>1, <3>2 DEF PatchesFit
    <2>. QED
      BY <2>5, <2>6
  <1>8. ASSUME ~retyped, Rows' \subseteq Rows, \A s \in Rows' : kind'[s] = kind[s],
               \A s \in Rows' :
                 parent'[s] \notin {parent[s], None} => LevelFits(parent'[s], kind[s]),
               \A q \in Request : patch'[q] \in {patch[q], NoPatch}
        PROVE  LevelsDescend' /\ PatchesFit'
    <2>1. \A s \in Rows' : \A l : LevelFits(s, l) => LevelFits(s, l)'
      BY <1>8, StillFits
    <2>2. LevelsDescend'
      <3>. SUFFICES ASSUME NEW s \in Rows' PROVE LevelFits(parent[s], kind[s])'
        BY DEF LevelsDescend
      <3>1. parent'[s] \in Rows' \union {None} /\ kind'[s] = kind[s]
        BY <1>8 DEF TreeShape, RowsPointToRows, Rows
      <3>2. parent'[s] # None => LevelFits(parent'[s], kind[s])
        BY <1>8, <3>1 DEF LevelsInv, LevelsDescend
      <3>. QED
        BY <2>1, <3>1, <3>2 DEF LevelFits
    <2>3. PatchesFit'
      BY <1>8, <2>1 DEF LevelsInv, PatchesFit, LevelsFit, LevelFits, Given, NoPatch
    <2>. QED
      BY <2>2, <2>3
  <1>9. ASSUME NEW p \in Request, NEW s \in Segment, NEW l \in Level \union {None, Kept},
               MoveToRoot(p, s, l)
        PROVE  LevelsDescend' /\ PatchesFit'
    <2>1. kind' = kind /\ ~retyped
      BY <1>9 DEF MoveToRoot
    <2>2. /\ \A x \in Segment : parent'[x] \in {parent[x], None}
          /\ Rows' \subseteq Rows
      BY <1>9 DEF MoveToRoot, Rows, LevelsInv, TreeShape, TreeTypeOK
    <2>. QED
      BY <1>8, <1>9, <2>1, <2>2 DEF MoveToRoot, Rows
  <1>10. ASSUME NEW p \in Request, CommitMove(p)
         PROVE  LevelsDescend' /\ PatchesFit'
    <2> DEFINE r == patch[p]
    <2>1. kind' = kind /\ ~retyped /\ \A q \in Request : patch'[q] \in {patch[q], NoPatch}
      BY <1>10 DEF CommitMove, EndsPatch, LevelsInv, TreeShape, TreeTypeOK
    <2>2. r.seg \in Rows /\ r.new \in Rows /\ r.pc = "walk"
      BY <1>10 DEF CommitMove, LevelsInv, TreeShape, PatchNames, NamesFit
    <2>3. /\ parent'[r.seg] = r.new /\ \A x \in Segment \ {r.seg} : parent'[x] = parent[x]
          /\ Rows' = Rows
      BY <1>10, <2>2 DEF CommitMove, Rows, Absent, LevelsInv, TreeShape, TreeTypeOK
    <2>4. kind[r.seg] = Given(r)
      BY <1>10, <2>1, <2>2 DEF CommitMove, Given, Rows, LevelsInv, TreeShape, TreeTypeOK
    <2>5. LevelFits(r.new, kind[r.seg])
      BY <2>1, <2>2, <2>4 DEF LevelsInv, PatchesFit, LevelsFit
    <2>. QED
      BY <1>8, <2>1, <2>2, <2>3, <2>5 DEF Rows
  <1>11. ASSUME NEW p \in Request, CommitDelete(p)
         PROVE  LevelsDescend' /\ PatchesFit'
    <2> DEFINE s == patch[p].seg
    <2>1. /\ s \in Segment /\ parent'[s] = Absent
          /\ \A x \in Segment \ {s} : parent'[x] \in {parent[x], None} /\ kind'[x] = kind[x]
          /\ \A q \in Request : patch'[q] \in {patch[q], NoPatch}
      BY <1>11 DEF CommitDelete, EndsPatch, Rows, LevelsInv, TreeShape, TreeTypeOK
    <2>2. Rows' \subseteq Rows \ {s} /\ ~retyped
      <3>1. \A x \in Segment \ {s} : parent[x] = Absent => parent'[x] = Absent
        BY <1>11 DEF CommitDelete, Absent, Rows
      <3>. QED
        BY <1>11, <2>1, <3>1 DEF Rows, CommitDelete
    <2>. QED
      BY <1>8, <2>1, <2>2 DEF Rows
  <1>12. ASSUME NEW p \in Request,
                \/ \E s \in Segment, l \in Level \union {None} : Retype(p, s, l)
                \/ \E l, new \in Level : PatchType(p, l, new)
         PROVE  FALSE
    BY <1>12 DEF Retype, PatchType
  <1>13. CASE TreeNext
    BY <1>3, <1>4, <1>5, <1>6, <1>7, <1>9, <1>10, <1>11, <1>12, <1>13 DEF TreeNext
  <1>. QED
    BY <1>1, <1>13

(* The level rule of segments: whatever moves overlap, segments that all have  *)
(* a level never form a cycle until a level changes; the least level of a     *)
(* cycle would be above that of its parent.                                   *)
THEOREM LevelsKeepForest == TreeSpec => []LevelsForbidCycles
PROOF
  <1>1. TreeInit => LevelsInv
    <2>. SUFFICES ASSUME TreeInit PROVE LevelsInv
      OBVIOUS
    <2>1. TreeShape /\ Rows = {} /\ \A p \in Request : patch[p].pc = "idle"
      BY TreeInitShape DEF TreeInit, NoPatch, Rows
    <2>. QED
      BY <2>1 DEF LevelsInv, LevelsDescend, PatchesFit, LevelsFit
  <1>2. LevelsInv /\ [TreeNext]_treeVars => LevelsInv'
    BY LevelsStep, TreeStepShape DEF LevelsInv
  <1>3. LevelsInv => LevelsForbidCycles
    <2>. SUFFICES ASSUME LevelsInv, ~retyped, NEW C \in SUBSET Segment, Cycle(C),
                         \A s \in C : kind[s] # None
                  PROVE  FALSE
      BY DEF LevelsForbidCycles
    <2> DEFINE A == {kind[s] : s \in C}
    <2>1. C \subseteq Rows
      BY NoneIsNoSegment DEF Cycle, Rows, Absent
    <2>2. A \in SUBSET Nat /\ A # {}
      <3>1. \A s \in C : kind[s] \in Level
        BY DEF LevelsInv, TreeShape, TreeTypeOK
      <3>. QED
        BY <3>1, LevelAssumption DEF Cycle
    <2>3. PICK m \in A : \A k \in A : m <= k
      BY <2>2, LeastNumber
    <2>4. PICK s \in C : kind[s] = m
      BY <2>3
    <2>5. parent[s] \in C /\ kind[parent[s]] \in A /\ parent[s] # None
      BY NoneIsNoSegment DEF Cycle
    <2>6. kind[parent[s]] < kind[s]
      BY <2>1, <2>5 DEF LevelsInv, LevelsDescend, LevelFits
    <2>7. kind[parent[s]] \in Nat /\ m \in Nat /\ m <= kind[parent[s]]
      BY <2>2, <2>3, <2>5
    <2>. QED
      BY <2>4, <2>6, <2>7
  <1>. QED
    BY <1>1, <1>2, <1>3, PTL DEF TreeSpec

(* The walk: until two moves overlap, what a walk has seen above its segment  *)
(* is closed under parents but for the one it reads next.                     *)

Above(r) == r.seen \ {r.seg}

WalksClosed ==
  \A p \in Request : LET r == patch[p] IN
    r.pc = "walk" => \A s \in Above(r) : parent[s] \in Above(r) \union {r.next, None, Absent}

Forest == \A C \in SUBSET Segment : ~Cycle(C)

ForestInv == TreeShape /\ (crossed \/ (WalksClosed /\ Forest))

LEMMA ForestStep ==
  ASSUME ForestInv, TreeShape', [TreeNext]_treeVars
  PROVE  ForestInv'
PROOF
  <1>. SUFFICES ASSUME ~crossed' PROVE WalksClosed' /\ Forest'
    BY DEF ForestInv
  <1>. USE NoneIsNoSegment, NoneIsNotAbsent
  (* Steps that change no parent. *)
  <1>1. ASSUME ~crossed, parent' = parent PROVE Forest'
    BY <1>1 DEF ForestInv, Forest, Cycle
  <1>2. ASSUME ~crossed, parent' = parent,
               \A q \in Request : \/ patch'[q] = patch[q] \/ patch'[q].pc # "walk"
        PROVE  WalksClosed'
    BY <1>2 DEF ForestInv, WalksClosed, Above
  <1>3. CASE UNCHANGED treeVars
    BY <1>1, <1>2, <1>3 DEF treeVars
  <1>4. ASSUME NEW p \in Request, NEW s, NEW q, NEW l, NEW m,
               \/ AbortPatch(p) \/ BeginDelete(p, s) \/ BeginCreate(p, s, q, l)
               \/ Retype(p, s, l) \/ PatchType(p, l, m)
        PROVE  WalksClosed' /\ Forest'
    <2>1. ~crossed /\ parent' = parent
      BY <1>4 DEF AbortPatch, BeginDelete, Retype, PatchType, BeginCreate, StartsPatch
    <2>2. \/ patch' = patch \/ patch' = [patch EXCEPT ![p] = NoPatch]
          \/ patch' = [patch EXCEPT ![p] = [NoPatch EXCEPT !.pc = "delete", !.seg = s]]
          \/ patch' = [patch EXCEPT ![p] = [NoPatch EXCEPT !.pc = "create", !.seg = s, !.new = q,
                                                          !.level = l]]
      BY <1>4 DEF AbortPatch, BeginDelete, Retype, PatchType, BeginCreate, StartsPatch, EndsPatch
    <2>3. PICK r : patch' = patch \/ (patch' = [patch EXCEPT ![p] = r] /\ r.pc # "walk")
      <3> DEFINE d == [NoPatch EXCEPT !.pc = "delete", !.seg = s]
                 c == [NoPatch EXCEPT !.pc = "create", !.seg = s, !.new = q, !.level = l]
      <3>1. NoPatch.pc # "walk" /\ d.pc # "walk" /\ c.pc # "walk"
        BY DEF NoPatch
      <3> HIDE DEF d, c
      <3>. QED
        BY <2>2, <3>1 DEF d, c
    <2>4. \A x \in Request : \/ patch'[x] = patch[x] \/ patch'[x].pc # "walk"
      BY <2>3 DEF ForestInv, TreeShape, TreeTypeOK
    <2>. QED
      BY <1>1, <1>2, <2>1, <2>4
  <1>5. ASSUME NEW p \in Request, NEW s \in Segment, NEW q \in Segment,
               NEW l \in Level \union {None, Kept}, BeginMove(p, s, q, l)
        PROVE  WalksClosed' /\ Forest'
    <2>1. ~crossed /\ parent' = parent
      BY <1>5 DEF BeginMove, StartsPatch
    <2>2. /\ patch'[p].seen = {s, q} /\ patch'[p].seg = s /\ patch'[p].next = parent[q]
          /\ \A x \in Request \ {p} : patch'[x] = patch[x]
      BY <1>5 DEF BeginMove, StartsPatch, ForestInv, TreeShape, TreeTypeOK
    <2>3. WalksClosed'
      BY <2>1, <2>2 DEF ForestInv, WalksClosed, Above
    <2>. QED
      BY <1>1, <2>1, <2>3
  <1>6. ASSUME NEW p \in Request, Hop(p) PROVE WalksClosed' /\ Forest'
    <2>1. ~crossed /\ parent' = parent
      BY <1>6 DEF Hop
    <2>2. /\ patch'[p].seen = patch[p].seen \union {patch[p].next} /\ patch'[p].seg = patch[p].seg
          /\ patch'[p].next = parent[patch[p].next] /\ patch[p].next \notin patch[p].seen
          /\ \A x \in Request \ {p} : patch'[x] = patch[x]
      BY <1>6 DEF Hop, ForestInv, TreeShape, TreeTypeOK, Patch
    <2>3. patch[p].next # patch[p].seg
      BY <1>6, <2>2 DEF Hop, ForestInv, TreeShape, PatchNames, NamesFit
    <2>4. Above(patch'[p]) = Above(patch[p]) \union {patch[p].next}
      BY <2>2, <2>3 DEF Above
    <2>5. \A s \in Above(patch[p]) : parent[s] \in Above(patch'[p]) \union {None, Absent}
      BY <1>6, <2>1, <2>4 DEF Hop, ForestInv, WalksClosed
    <2>6. WalksClosed'
      BY <2>1, <2>2, <2>4, <2>5 DEF ForestInv, WalksClosed, Above
    <2>. QED
      BY <1>1, <2>1, <2>6
  (* A parent that becomes none, or a row that goes. *)
  <1>7. ASSUME ~crossed, \A s \in Segment : parent'[s] \in {parent[s], None, Absent},
               \A q \in Request : patch'[q] \in {patch[q], NoPatch}
        PROVE  WalksClosed' /\ Forest'
    <2>1. \A s \in Segment : parent'[s] \in Segment => parent'[s] = parent[s]
      BY <1>7 DEF Absent
    <2>2. Forest'
      BY <1>7, <2>1 DEF ForestInv, Forest, Cycle
    <2>3. WalksClosed'
      <3>. SUFFICES ASSUME NEW q \in Request, patch'[q] = patch[q], patch[q].pc = "walk",
                           NEW s \in Above(patch[q])
                    PROVE  parent'[s] \in Above(patch[q]) \union {patch[q].next, None, Absent}
        BY <1>7 DEF WalksClosed, NoPatch
      <3>1. s \in Segment
        BY DEF ForestInv, TreeShape, TreeTypeOK, Patch, Above
      <3>. QED
        BY <1>7, <3>1 DEF ForestInv, WalksClosed
    <2>. QED
      BY <2>2, <2>3
  <1>8. ASSUME NEW p \in Request,
               CommitDelete(p) \/ \E s \in Segment, l \in Level \union {None, Kept} : MoveToRoot(p, s, l)
        PROVE  WalksClosed' /\ Forest'
    <2>1. ~crossed /\ \A s \in Segment : parent'[s] \in {parent[s], None, Absent}
      BY <1>8 DEF CommitDelete, MoveToRoot, ForestInv, TreeShape, TreeTypeOK
    <2>2. \A q \in Request : patch'[q] \in {patch[q], NoPatch}
      BY <1>8 DEF CommitDelete, MoveToRoot, EndsPatch, ForestInv, TreeShape, TreeTypeOK
    <2>. QED
      BY <1>7, <2>1, <2>2
  <1>9. ASSUME NEW p \in Request, CommitCreate(p) PROVE WalksClosed' /\ Forest'
    <2> DEFINE n == patch[p].seg
    <2>1. /\ n \in Segment \ Rows
          /\ \A s \in Segment \ {n} : parent'[s] = parent[s]
          /\ parent'[n] = patch[p].new
          /\ patch'[p] = NoPatch /\ \A q \in Request \ {p} : patch'[q] = patch[q]
      BY <1>9, CreateShape DEF ForestInv
    <2>2. ~crossed /\ patch[p].new # n /\ \A q \in Request \ {p} : n \notin Named(patch[q])
      BY <1>9 DEF CommitCreate, ForestInv, TreeShape, PatchNames, NamesFit
    <2>3. \A s \in Segment : parent[s] # n
      BY <2>1 DEF ForestInv, TreeShape, RowsPointToRows, Rows, Absent
    <2>4. Forest'
      <3>. SUFFICES ASSUME NEW C \in SUBSET Segment, Cycle(C)' PROVE FALSE
        BY DEF Forest
      <3>1. /\ C \ {n} # {}
            /\ \A s \in C \ {n} : parent[s] \in C \ {n}
        BY <2>1, <2>2, <2>3 DEF Cycle
      <3>. QED
        BY <2>2, <3>1 DEF ForestInv, Forest, Cycle
    <2>5. WalksClosed'
      <3>. SUFFICES ASSUME NEW q \in Request \ {p}, patch[q].pc = "walk", NEW s \in Above(patch[q])
                    PROVE  parent'[s] \in Above(patch[q]) \union {patch[q].next, None, Absent}
        BY <2>1 DEF WalksClosed, NoPatch
      <3>1. s \in Segment \ {n}
        BY <2>2 DEF Named, ForestInv, TreeShape, TreeTypeOK, Patch, Above
      <3>. QED
        BY <2>1, <2>2, <3>1 DEF ForestInv, WalksClosed
    <2>. QED
      BY <2>4, <2>5
  (* The walk of a move that commits alone is still true. *)
  <1>10. ASSUME NEW p \in Request, CommitMove(p) PROVE WalksClosed' /\ Forest'
    <2> DEFINE r == patch[p]
               D == Above(r)
    <2>1. ~crossed /\ r.next = None /\ \A q \in Request \ {p} : patch[q].pc # "walk"
      BY <1>10 DEF CommitMove, Moving
    <2>2. r \in Patch /\ r.seg \in Segment /\ r.new \in D /\ D \subseteq Segment
      BY <1>10 DEF CommitMove, ForestInv, TreeShape, TreeTypeOK, PatchNames, NamesFit, Patch, Above
    <2>3. parent'[r.seg] = r.new /\ \A x \in Segment \ {r.seg} : parent'[x] = parent[x]
      BY <1>10, <2>2 DEF CommitMove, ForestInv, TreeShape, TreeTypeOK
    <2>4. WalksClosed'
      <3>1. \A q \in Request : patch'[q].pc # "walk"
        BY <1>10, <2>1 DEF CommitMove, EndsPatch, NoPatch, ForestInv, TreeShape, TreeTypeOK
      <3>. QED
        BY <3>1 DEF WalksClosed
    <2>5. Forest'
      <3>. SUFFICES ASSUME NEW C \in SUBSET Segment, Cycle(C)' PROVE FALSE
        BY DEF Forest
      <3>1. CASE r.seg \notin C
        <4>1. Cycle(C)
          BY <2>3, <3>1 DEF Cycle
        <4>. QED
          BY <2>1, <4>1 DEF ForestInv, Forest
      <3>2. CASE r.seg \in C
        <4>1. r.new \in C \intersect D
          BY <2>2, <2>3, <3>2 DEF Cycle
        <4>2. ASSUME NEW s \in C \intersect D PROVE parent[s] \in C \intersect D
          <5>1. parent[s] = parent'[s] /\ parent[s] \in C /\ parent[s] \in Segment
            BY <2>2, <2>3, <4>2 DEF Cycle, Above
          <5>2. parent[s] \in D \union {None, Absent}
            BY <1>10, <2>1, <4>2 DEF ForestInv, WalksClosed, CommitMove
          <5>. QED
            BY <5>1, <5>2 DEF Absent
        <4>3. Cycle(C \intersect D)
          BY <4>1, <4>2 DEF Cycle
        <4>. QED
          BY <2>1, <4>3 DEF ForestInv, Forest
      <3>. QED
        BY <3>1, <3>2
    <2>. QED
      BY <2>4, <2>5
  <1>11. CASE TreeNext
    BY <1>4, <1>5, <1>6, <1>8, <1>9, <1>10, <1>11 DEF TreeNext
  <1>. QED
    BY <1>3, <1>11

(* The walk to the root of a move: until two moves overlap the segments are a  *)
(* forest, whatever is created, deleted, retyped and put at the root between   *)
(* two queries of a walk.                                                     *)
THEOREM WalkKeepsForest == TreeSpec => []ForestUnlessMovesCross
PROOF
  <1>1. TreeInit => ForestInv
    <2>. SUFFICES ASSUME TreeInit PROVE ForestInv
      OBVIOUS
    <2>1. TreeShape /\ \A p \in Request : patch[p].pc # "walk"
      BY TreeInitShape DEF TreeInit, NoPatch
    <2>2. \A s \in Segment : parent[s] \notin Segment
      BY NoneIsNoSegment DEF TreeInit, Absent
    <2>. QED
      BY <2>1, <2>2 DEF ForestInv, WalksClosed, Forest, Cycle
  <1>2. ForestInv /\ [TreeNext]_treeVars => ForestInv'
    BY ForestStep, TreeStepShape DEF ForestInv
  <1>3. ForestInv => ForestUnlessMovesCross
    BY DEF ForestInv, Forest, ForestUnlessMovesCross
  <1>. QED
    BY <1>1, <1>2, <1>3, PTL DEF TreeSpec
=============================================================================
