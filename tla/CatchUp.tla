------------------------------- MODULE CatchUp -------------------------------
(***************************************************************************)
(* A client that was away asks a conversation for what is newer than its    *)
(* cursor, page by page.  The cursor is a sent_at: the clock of the sending  *)
(* request before its commit.                                               *)
(***************************************************************************)
EXTENDS FiniteSets, Integers
CONSTANTS
  Post,        \* messages, by id
  PageLimit,
  MaxClock     \* bound: instants of the clock

ASSUME PageAssumption == PageLimit \in Nat \ {0} /\ MaxClock \in Nat

VARIABLES
  clock,     \* timezone.now()
  sent,      \* messages.sent_at
  stage,     \* "none", "sending", "shown" once committed, "deleted" for everyone
  hidden,    \* message_deletes of the reader with the scope SELF
  cursor,    \* the client's after=
  page,      \* the answer on its way
  seen,      \* messages the client was given
  late,      \* history: committed behind the cursor
  tied       \* history: cut off by a page that ended at their sent_at

catchUpVars == <<clock, sent, stage, hidden, cursor, page, seen, late, tied>>
NoPage == [asked |-> FALSE, rows |-> {}, last |-> 0, cut |-> {}]

CatchUpInit ==
  /\ clock = 1 /\ cursor = 0
  /\ sent = [m \in Post |-> 0]
  /\ stage = [m \in Post |-> "none"]
  /\ page = NoPage
  /\ hidden = {} /\ seen = {} /\ late = {} /\ tied = {}

ClockTicks ==
  /\ clock < MaxClock
  /\ clock' = clock + 1
  /\ UNCHANGED <<sent, stage, hidden, cursor, page, seen, late, tied>>

InsertPost(m) ==
  /\ stage[m] = "none"
  /\ stage' = [stage EXCEPT ![m] = "sending"]
  /\ sent' = [sent EXCEPT ![m] = clock]
  /\ UNCHANGED <<clock, hidden, cursor, page, seen, late, tied>>

CommitPost(m) ==
  /\ stage[m] = "sending"
  /\ stage' = [stage EXCEPT ![m] = "shown"]
  /\ late' = IF sent[m] <= cursor \/ sent[m] <= page.last THEN late \union {m} ELSE late
  /\ UNCHANGED <<clock, sent, hidden, cursor, page, seen, tied>>

AbortPost(m) ==
  /\ stage[m] = "sending"
  /\ stage' = [stage EXCEPT ![m] = "none"]
  /\ UNCHANGED <<clock, sent, hidden, cursor, page, seen, late, tied>>

DeleteForEveryone(m) ==
  /\ stage[m] = "shown"
  /\ stage' = [stage EXCEPT ![m] = "deleted"]
  /\ UNCHANGED <<clock, sent, hidden, cursor, page, seen, late, tied>>

DeleteForSelf(m) ==
  /\ stage[m] \in {"shown", "deleted"} /\ m \notin hidden
  /\ hidden' = hidden \union {m}
  /\ UNCHANGED <<clock, sent, stage, cursor, page, seen, late, tied>>

Listed == {m \in Post : stage[m] = "shown" /\ m \notin hidden}
Newer  == {m \in Listed : sent[m] > cursor}
IsPage(rows) == rows # {} /\ (Cardinality(rows) = PageLimit
                              \/ (rows = Newer /\ Cardinality(rows) < PageLimit))

Asks(rows) ==
  /\ ~page.asked
  /\ \E m \in rows :
       /\ \A r \in rows : sent[r] <= sent[m]
       /\ page' = [asked |-> TRUE, rows |-> rows, last |-> sent[m],
                   cut |-> {x \in Newer \ rows : sent[x] = sent[m]}]
  /\ UNCHANGED <<clock, sent, stage, hidden, cursor, seen, late, tied>>

(* Mutant: the newest first, as without a cursor. *)
AskNewest(rows) ==
  /\ IsPage(rows)
  /\ \A r \in rows, x \in Newer \ rows : sent[r] >= sent[x]
  /\ Asks(rows)

(* list_messages with after=: the oldest rows behind the cursor, those of one  *)
(* instant in any order.                                                     *)
AskPage(rows) ==
  /\ IsPage(rows)
  /\ \A r \in rows, x \in Newer \ rows : sent[r] <= sent[x]
  /\ Asks(rows)

ReceivePage ==
  /\ page.asked
  /\ seen' = seen \union page.rows
  /\ cursor' = page.last
  /\ tied' = tied \union page.cut
  /\ page' = NoPage
  /\ UNCHANGED <<clock, sent, stage, hidden, late>>

LosePage ==
  /\ page.asked
  /\ page' = NoPage
  /\ UNCHANGED <<clock, sent, stage, hidden, cursor, seen, late, tied>>

CatchUpNext ==
  \/ \E m \in Post : InsertPost(m) \/ CommitPost(m) \/ AbortPost(m)
                     \/ DeleteForEveryone(m) \/ DeleteForSelf(m)
  \/ \E rows \in SUBSET Newer : AskPage(rows)
  \/ ReceivePage \/ LosePage \/ ClockTicks

CatchUpSpec == CatchUpInit /\ [][CatchUpNext]_catchUpVars

-----------------------------------------------------------------------------
(* Properties. *)

(* What the cursor has passed the client was given, whatever was deleted and  *)
(* whichever answers were lost, except messages that committed behind the     *)
(* cursor and those a page boundary separated from one of the same instant.   *)
NothingSkipped ==
  \A m \in Listed : sent[m] <= cursor => m \in seen \union late \union tied

=============================================================================
