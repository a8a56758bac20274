----------------------------- MODULE Assignments -----------------------------
(***************************************************************************)
(* The assignments of one user to segments, and the copy of the current    *)
(* segment in users.segment_id.  No statement relates two users.  A request *)
(* writes a row, looks for the latest open one among those it sees, and     *)
(* writes the copy; its rows are committed with it.                         *)
(***************************************************************************)
EXTENDS Requests, Integers
CONSTANTS
  Assignment,   \* rows of user_segments, by id
  Unit,         \* segments
  Date          \* dates, in their order

ASSUME DateAssumption == Date \subseteq Nat
ASSUME AssignmentsAreFinite == IsFiniteSet(Assignment)
ASSUME NoneIsNoUnit   == None \notin Unit /\ None \notin Assignment

VARIABLES
  assigned,     \* rows of user_segments
  segmentOf,    \* users.segment_id
  move,         \* the requests
  raced         \* history: two requests for this user overlapped

assignVars == <<assigned, segmentOf, move, raced>>

NoRow  == [row |-> FALSE, open |-> FALSE, unit |-> None, start |-> 0]
NoAssignment == [pc |-> "idle", id |-> None, was |-> NoRow, row |-> NoRow, closes |-> None, copy |-> None]

AssignInit ==
  /\ assigned = [a \in Assignment |-> NoRow]
  /\ segmentOf = None
  /\ move = [p \in Request |-> NoAssignment]
  /\ raced = FALSE

NewRow(open, unit, start) == [row |-> TRUE, open |-> open, unit |-> unit, start |-> start]
OpenRows(rows) == {a \in Assignment : rows[a].row /\ rows[a].open}
Latest(rows)   == {a \in OpenRows(rows) : \A b \in OpenRows(rows) : rows[b].start <= rows[a].start}
Fresh(a)       == ~assigned[a].row /\ \A q \in Request : move[q].id # a

StartsAssignment(p, m) ==
  /\ move[p].pc = "idle"
  /\ move' = [move EXCEPT ![p] = m]
  /\ UNCHANGED <<assigned, segmentOf, raced>>

(* open_assignment: one of the open rows is closed. *)
BeginAssignment(p, a, unit, start) ==
  /\ Fresh(a)
  /\ \E prev \in IF OpenRows(assigned) = {} THEN {None} ELSE OpenRows(assigned) :
       StartsAssignment(p, [NoAssignment EXCEPT !.pc = "write", !.id = a, !.row = NewRow(TRUE, unit, start),
                                    !.closes = prev])

(* create_assignment with an end date: the row is closed at once, and the     *)
(* copy is left alone.                                                       *)
CreateClosed(p, a, unit, start) ==
  /\ move[p].pc = "idle" /\ Fresh(a)
  /\ assigned' = [assigned EXCEPT ![a] = NewRow(FALSE, unit, start)]
  /\ UNCHANGED <<segmentOf, move, raced>>

(* patch_assignment: segment, dates and activity as the client likes. *)
BeginPatch(p, a, open, unit, start) ==
  /\ assigned[a].row
  /\ StartsAssignment(p, [NoAssignment EXCEPT !.pc = "write", !.id = a, !.was = assigned[a],
                                  !.row = NewRow(open, unit, start)])

BeginRemoval(p, a) ==
  /\ assigned[a].row
  /\ StartsAssignment(p, [NoAssignment EXCEPT !.pc = "write", !.id = a, !.was = assigned[a]])

(* What p sees after its own writes.  save(update_fields) writes the columns *)
(* that change, into the row as it is now.                                   *)
Written(p) ==
  LET m == move[p]
      now == assigned[m.id]
      row == IF ~m.was.row \/ ~m.row.row THEN m.row
             ELSE [row |-> TRUE,
                   open  |-> IF m.row.open # m.was.open THEN m.row.open ELSE now.open,
                   unit  |-> IF m.row.unit # m.was.unit THEN m.row.unit ELSE now.unit,
                   start |-> IF m.row.start # m.was.start THEN m.row.start ELSE now.start]
  IN  [a \in Assignment |->
         IF a = m.id THEN row
         ELSE IF a = m.closes THEN [assigned[a] EXCEPT !.open = FALSE] ELSE assigned[a]]

Holds(q, a) == move[q].pc \in {"sync", "commit"} /\ a \in {move[q].id, move[q].closes}

(* The rows are written when nobody else holds them, and still exist. *)
WriteRows(p) ==
  LET m == move[p] IN
  /\ m.pc = "write"
  /\ \A q \in Request \ {p}, a \in {m.id, m.closes} \ {None} : ~Holds(q, a)
  /\ m.was.row => assigned[m.id].row
  /\ move' = [move EXCEPT ![p].pc = "sync"]
  /\ UNCHANGED <<assigned, segmentOf, raced>>

(* Mutant: the first open row, not the latest. *)
SyncAny(p) ==
  LET rows == Written(p) IN
  /\ move[p].pc = "sync"
  /\ \E a \in IF OpenRows(rows) = {} THEN {None} ELSE OpenRows(rows) :
       move' = [move EXCEPT ![p].pc = "commit", ![p].copy = IF a = None THEN None ELSE rows[a].unit]
  /\ UNCHANGED <<assigned, segmentOf, raced>>

(* sync_users_segment_id: the latest open row; then the UPDATE of users       *)
(* waits for whoever has written it.                                         *)
Sync(p) ==
  LET rows == Written(p) IN
  /\ move[p].pc = "sync"
  /\ \E a \in IF Latest(rows) = {} THEN {None} ELSE Latest(rows) :
       move' = [move EXCEPT ![p].pc = "commit", ![p].copy = IF a = None THEN None ELSE rows[a].unit]
  /\ UNCHANGED <<assigned, segmentOf, raced>>

CommitAssignment(p) ==
  /\ move[p].pc = "commit"
  /\ assigned' = Written(p)
  /\ segmentOf' = move[p].copy
  /\ raced' = (raced \/ \E q \in Request \ {p} : move[q].pc # "idle")
  /\ move' = [move EXCEPT ![p] = NoAssignment]

AbortAssignment(p) ==
  /\ move[p].pc # "idle"
  /\ move' = [move EXCEPT ![p] = NoAssignment]
  /\ UNCHANGED <<assigned, segmentOf, raced>>

AssignNext ==
  \E p \in Request :
    \/ \E a \in Assignment, unit \in Unit, start \in Date :
         \/ BeginAssignment(p, a, unit, start) \/ CreateClosed(p, a, unit, start)
         \/ \E open \in BOOLEAN : BeginPatch(p, a, open, unit, start)
    \/ \E a \in Assignment : BeginRemoval(p, a)
    \/ WriteRows(p) \/ Sync(p) \/ CommitAssignment(p) \/ AbortAssignment(p)

AssignSpec == AssignInit /\ [][AssignNext]_assignVars

-----------------------------------------------------------------------------
(* Properties. *)

(* Unless two requests for the same user overlapped, the segment copied into  *)
(* users is that of a latest open assignment, and none when none is open,     *)
(* however rows were opened, closed, reopened, back-dated and deleted.        *)
CopyIsCurrent ==
  raced \/ segmentOf \in {assigned[a].unit : a \in Latest(assigned)}
        \/ (segmentOf = None /\ OpenRows(assigned) = {})

=============================================================================
