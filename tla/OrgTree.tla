------------------------------- MODULE OrgTree -------------------------------
(***************************************************************************)
(* The segments of the organisation and their parents.  A segment type      *)
(* counts by its level only, so that a type is its level here.  A move      *)
(* walks from the new parent to the root, one query per segment, and writes  *)
(* the parent at its commit.                                                *)
(***************************************************************************)
EXTENDS Requests, FiniteSets, Integers
CONSTANTS
  Segment,
  Level,        \* the levels of the segment types
  MaxDepth      \* MAX_DEPTH

ASSUME LevelAssumption   == Level \subseteq Nat /\ MaxDepth \in Nat \ {0}
ASSUME NoneIsNoSegment   == None \notin Segment \union Level /\ "absent" \notin Segment
ASSUME NoneIsNotAbsent   == None # "absent"

VARIABLES
  parent,       \* segments.parent_segment_id; Absent: no row
  kind,         \* the level of segments.segment_type_id, None without a type
  patch,        \* the requests
  crossed,      \* history: two moves overlapped
  retyped       \* history: a segment or a type changed its level

treeVars == <<parent, kind, patch, crossed, retyped>>

Absent  == "absent"
Kept    == -1        \* a patch that does not name the type
NoPatch == [pc |-> "idle", seg |-> None, new |-> None, level |-> None, next |-> None, seen |-> {}]
Rows    == {s \in Segment : parent[s] # Absent}

TreeInit ==
  /\ parent = [s \in Segment |-> Absent]
  /\ kind = [s \in Segment |-> None]
  /\ patch = [p \in Request |-> NoPatch]
  /\ crossed = FALSE /\ retyped = FALSE

StartsPatch(p, r) ==
  /\ patch[p].pc = "idle"
  /\ patch' = [patch EXCEPT ![p] = r]
  /\ UNCHANGED <<parent, kind, crossed, retyped>>
EndsPatch(p) == patch' = [patch EXCEPT ![p] = NoPatch]

(* Mutant: a child may have the level of its parent. *)
LevelFitsLoosely(q, l) ==
  q # None /\ kind[q] # None /\ l # None => kind[q] <= l

(* _check_level: two types are compared, anything untyped fits. *)
LevelFits(q, l) ==
  q # None /\ kind[q] # None /\ l # None => kind[q] < l

BeginCreate(p, s, q, l) ==
  /\ s \notin Rows
  /\ \A r \in Request : s \notin {patch[r].seg, patch[r].new, patch[r].next} \union patch[r].seen
  /\ q \in Rows \union {None}
  /\ LevelFits(q, l)
  /\ StartsPatch(p, [NoPatch EXCEPT !.pc = "create", !.seg = s, !.new = q, !.level = l])

(* The parent is a foreign key. *)
CommitCreate(p) ==
  LET r == patch[p] IN
  /\ r.pc = "create" /\ r.new \in Rows \union {None}
  /\ parent' = [parent EXCEPT ![r.seg] = r.new]
  /\ kind' = [kind EXCEPT ![r.seg] = r.level]
  /\ EndsPatch(p)
  /\ UNCHANGED <<crossed, retyped>>

-----------------------------------------------------------------------------
(* patch_segment with a new parent, and perhaps a new type. *)

BeginMove(p, s, q, l) ==
  /\ s \in Rows /\ q \in Rows /\ s # q
  /\ LevelFits(q, IF l = Kept THEN kind[s] ELSE l)
  /\ StartsPatch(p, [pc |-> "walk", seg |-> s, new |-> q, level |-> l, next |-> parent[q],
                     seen |-> {s, q}])

(* Without a parent nothing is walked, and what is written does not depend on  *)
(* what was read.                                                             *)
MoveToRoot(p, s, l) ==
  /\ patch[p].pc = "idle" /\ s \in Rows
  /\ parent' = [parent EXCEPT ![s] = None]
  /\ kind' = IF l = Kept THEN kind ELSE [kind EXCEPT ![s] = l]
  /\ retyped' = (retyped \/ kind' # kind)
  /\ UNCHANGED <<patch, crossed>>

(* One hop of _resolve_parent: the next segment is read now, with its parent. *)
Hop(p) ==
  LET r == patch[p] IN
  /\ r.pc = "walk" /\ r.next \in Rows
  /\ r.next \notin r.seen /\ Cardinality(r.seen) <= MaxDepth
  /\ patch' = [patch EXCEPT ![p].next = parent[r.next], ![p].seen = @ \union {r.next}]
  /\ UNCHANGED <<parent, kind, crossed, retyped>>

Moving(p) == patch[p].pc = "walk"

(* Mutant: the walk is not finished. *)
CommitMoveEarly(p) ==
  LET r == patch[p] IN
  /\ r.pc = "walk" /\ r.seg \in Rows /\ r.new \in Rows \union {None}
  /\ parent' = [parent EXCEPT ![r.seg] = r.new]
  /\ kind' = IF r.level = Kept THEN kind ELSE [kind EXCEPT ![r.seg] = r.level]
  /\ crossed' = (crossed \/ \E q \in Request \ {p} : Moving(q))
  /\ retyped' = (retyped \/ kind' # kind)
  /\ EndsPatch(p)

CommitMove(p) ==
  LET r == patch[p] IN
  /\ r.pc = "walk" /\ r.next = None
  /\ r.seg \in Rows /\ r.new \in Rows \union {None}
  /\ parent' = [parent EXCEPT ![r.seg] = r.new]
  /\ kind' = IF r.level = Kept THEN kind ELSE [kind EXCEPT ![r.seg] = r.level]
  /\ crossed' = (crossed \/ \E q \in Request \ {p} : Moving(q))
  /\ retyped' = (retyped \/ kind' # kind)
  /\ EndsPatch(p)

(* patch_segment with a new type alone: the children are not looked at. *)
Retype(p, s, l) ==
  /\ patch[p].pc = "idle" /\ s \in Rows /\ kind[s] # l
  /\ LevelFits(parent[s], l)
  /\ kind' = [kind EXCEPT ![s] = l]
  /\ retyped' = TRUE
  /\ UNCHANGED <<parent, patch, crossed>>

(* patch_segment_type: the level of every segment of the type. *)
PatchType(p, l, new) ==
  /\ patch[p].pc = "idle" /\ l # new /\ \E s \in Rows : kind[s] = l
  /\ kind' = [s \in Segment |-> IF kind[s] = l THEN new ELSE kind[s]]
  /\ retyped' = TRUE
  /\ UNCHANGED <<parent, patch, crossed>>

-----------------------------------------------------------------------------
(* delete_segment: no child and nobody assigned when it looks; who became a  *)
(* child since is put at the root (SET_NULL).                                *)
BeginDelete(p, s) ==
  /\ s \in Rows /\ \A c \in Rows : parent[c] # s
  /\ StartsPatch(p, [NoPatch EXCEPT !.pc = "delete", !.seg = s])

CommitDelete(p) ==
  LET s == patch[p].seg IN
  /\ patch[p].pc = "delete" /\ s \in Rows
  /\ parent' = [c \in Segment |-> IF c = s THEN Absent ELSE IF parent[c] = s THEN None ELSE parent[c]]
  /\ kind' = [kind EXCEPT ![s] = None]
  /\ EndsPatch(p)
  /\ UNCHANGED <<crossed, retyped>>

(* A cycle found, a row that is gone, any failure. *)
AbortPatch(p) ==
  /\ patch[p].pc # "idle"
  /\ EndsPatch(p)
  /\ UNCHANGED <<parent, kind, crossed, retyped>>

TreeNext ==
  \E p \in Request :
    \/ \E s \in Segment, l \in Level \union {None} :
         Retype(p, s, l) \/ \E q \in Segment \union {None} : BeginCreate(p, s, q, l)
    \/ \E s \in Segment, l \in Level \union {None, Kept} :
         MoveToRoot(p, s, l) \/ \E q \in Segment : BeginMove(p, s, q, l)
    \/ \E l, new \in Level : PatchType(p, l, new)
    \/ \E s \in Segment : BeginDelete(p, s)
    \/ CommitCreate(p) \/ Hop(p) \/ CommitMove(p) \/ CommitDelete(p) \/ AbortPatch(p)

TreeSpec == TreeInit /\ [][TreeNext]_treeVars

-----------------------------------------------------------------------------
(* Properties. *)

Cycle(C) == C # {} /\ \A s \in C : parent[s] \in C

(* The walk keeps the segments a forest, whatever is created, deleted and    *)
(* retyped meanwhile, as long as no two moves overlap.                       *)
ForestUnlessMovesCross == \A C \in SUBSET Segment : Cycle(C) => crossed

(* Even moves that overlap make no cycle of segments whose types all have a   *)
(* level, until a level changes.                                             *)
LevelsForbidCycles ==
  \A C \in SUBSET Segment : Cycle(C) /\ ~retyped => \E s \in C : kind[s] = None

=============================================================================
