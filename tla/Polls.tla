-------------------------------- MODULE Polls --------------------------------
(***************************************************************************)
(* One poll of a group.  A vote replaces the voter's earlier votes and then  *)
(* recounts every option, each in a statement of its own: it counts the      *)
(* committed votes and its own, and waits for the row of the option only     *)
(* when it stores what it has counted.                                      *)
(***************************************************************************)
EXTENDS Requests, FiniteSets, Integers
CONSTANT Option

ASSUME OptionAssumption == Option # {} /\ IsFiniteSet(Option)

VARIABLES
  multiple,   \* message_polls.multiple_choices, given at the creation
  closed,     \* message_polls.closed_at is set
  votes,      \* rows of poll_votes, pairs of an option and a user
  stored,     \* poll_options.vote_count
  ballot,     \* the requests
  metLast,    \* history: the last vote met the commit of another one
  twice       \* history: users of whom two votes overlapped

pollVars == <<multiple, closed, votes, stored, ballot, metLast, twice>>

VotesFor(rows, o) == {v \in rows : v[1] = o}
VotesBy(rows, u)  == {v \in rows : v[2] = u}
Uncounted == -1
NoBallot  == [pc |-> "idle", user |-> None, choice |-> {}, dropped |-> {},
              counts |-> [o \in Option |-> Uncounted], written |-> {}, met |-> FALSE]

PollInit ==
  /\ multiple \in BOOLEAN
  /\ closed = FALSE
  /\ votes = {}
  /\ stored = [o \in Option |-> 0]
  /\ ballot = [p \in Request |-> NoBallot]
  /\ metLast = FALSE /\ twice = {}

Voting(p) == ballot[p].pc \in {"dropped", "cast"}

StartsBallot(p, u, choice) ==
  /\ ballot[p].pc = "idle"
  /\ choice # {}
  /\ ballot' = [ballot EXCEPT ![p] = [NoBallot EXCEPT
                  !.pc = "begun", !.user = u, !.choice = choice \X {u}]]
  /\ UNCHANGED <<multiple, closed, votes, stored, metLast, twice>>

(* An open poll; without multiple_choices, one option. *)
BeginVote(p, u, choice) ==
  /\ ~closed
  /\ ~multiple => Cardinality(choice) = 1
  /\ StartsBallot(p, u, choice)

(* DELETE: the committed votes of the voter. *)
DropVotes(p) ==
  /\ ballot[p].pc = "begun"
  /\ ballot' = [ballot EXCEPT ![p].pc = "dropped", ![p].dropped = VotesBy(votes, ballot[p].user)]
  /\ UNCHANGED <<multiple, closed, votes, stored, metLast, twice>>

(* INSERT.  It waits for a transaction that deletes the same rows or inserts  *)
(* the same pair; a pair another one has committed meanwhile is refused.     *)
CastVotes(p) ==
  /\ ballot[p].pc = "dropped"
  /\ ballot[p].choice \intersect (votes \ ballot[p].dropped) = {}
  /\ \A q \in Request \ {p} : ballot[q].pc = "cast" =>
       /\ ballot[q].choice \intersect ballot[p].choice = {}
       /\ ballot[q].dropped \intersect ballot[p].dropped = {}
  /\ ballot' = [ballot EXCEPT ![p].pc = "cast"]
  /\ UNCHANGED <<multiple, closed, votes, stored, metLast, twice>>

Seen(p) == (votes \ ballot[p].dropped) \union ballot[p].choice

CountOption(p, o) ==
  /\ ballot[p].pc = "cast" /\ ballot[p].counts[o] = Uncounted
  /\ \A x \in Option : ballot[p].counts[x] # Uncounted => x \in ballot[p].written
  /\ ballot' = [ballot EXCEPT ![p].counts[o] = Cardinality(VotesFor(Seen(p), o))]
  /\ UNCHANGED <<multiple, closed, votes, stored, metLast, twice>>

WriteCount(p, o) ==
  /\ ballot[p].pc = "cast" /\ ballot[p].counts[o] # Uncounted /\ o \notin ballot[p].written
  /\ \A q \in Request \ {p} : o \notin ballot[q].written
  /\ ballot' = [ballot EXCEPT ![p].written = @ \union {o}]
  /\ UNCHANGED <<multiple, closed, votes, stored, metLast, twice>>

Counted(p, options) ==
  /\ ballot[p].pc = "cast" /\ options \subseteq ballot[p].written
  /\ votes' = Seen(p)
  /\ stored' = [o \in Option |-> IF o \in ballot[p].written THEN ballot[p].counts[o] ELSE stored[o]]
  /\ ballot' = [q \in Request |-> IF q = p THEN NoBallot
                                  ELSE [ballot[q] EXCEPT !.met = @ \/ Voting(q)]]
  /\ metLast' = ballot[p].met
  /\ twice' = IF \E q \in Request \ {p} : Voting(q) /\ ballot[q].user = ballot[p].user
              THEN twice \union {ballot[p].user} ELSE twice
  /\ UNCHANGED <<multiple, closed>>

(* Mutant: only the options voted for are counted again. *)
CommitChosen(p) == Counted(p, {v[1] : v \in ballot[p].choice})

CommitVote(p) == Counted(p, Option)

(* The creator of the poll or a privileged member. *)
ClosePoll(p) ==
  /\ ballot[p].pc = "idle" /\ ~closed
  /\ closed' = TRUE
  /\ UNCHANGED <<multiple, votes, stored, ballot, metLast, twice>>

AbortVote(p) ==
  /\ ballot[p].pc # "idle"
  /\ ballot' = [ballot EXCEPT ![p] = NoBallot]
  /\ UNCHANGED <<multiple, closed, votes, stored, metLast, twice>>

PollNext ==
  \E p \in Request :
    \/ \E u \in User, choice \in SUBSET Option : BeginVote(p, u, choice)
    \/ \E o \in Option : CountOption(p, o) \/ WriteCount(p, o)
    \/ DropVotes(p) \/ CastVotes(p) \/ CommitVote(p) \/ ClosePoll(p) \/ AbortVote(p)

PollSpec == PollInit /\ [][PollNext]_pollVars

-----------------------------------------------------------------------------
(* Properties. *)

(* However wrong overlapping votes have left the counts, one vote that no     *)
(* other vote commits into makes all of them exact again; and where one       *)
(* choice is allowed a user has one vote, unless two of his own overlapped.   *)
PollAddsUp ==
  /\ metLast \/ \A o \in Option : stored[o] = Cardinality(VotesFor(votes, o))
  /\ multiple \/ \A u \in User : Cardinality(VotesBy(votes, u)) > 1 => u \in twice

=============================================================================
