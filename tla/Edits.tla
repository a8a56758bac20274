-------------------------------- MODULE Edits --------------------------------
(***************************************************************************)
(* The texts of one message: an edit archives the text it has read and      *)
(* overwrites whatever is there by then; a deletion for everyone empties it. *)
(***************************************************************************)
EXTENDS Requests, Naturals
CONSTANT MaxTexts     \* bound: texts of the message

ASSUME TextAssumption == MaxTexts \in Nat

VARIABLES
  text,        \* messages.encrypted_content: the number of a text, 0 when emptied
  texts,       \* the number of texts so far
  archived,    \* message_edits.previous_encrypted_content
  rewrite,     \* the requests
  emptied,     \* history: the texts a deletion has taken away
  editsMet     \* history: two edits overlapped

editVars == <<text, texts, archived, rewrite, emptied, editsMet>>
Emptied   == 0
NoRewrite == [pc |-> "idle", saw |-> Emptied, deletes |-> FALSE]

EditInit ==
  /\ text = 1 /\ texts = 1
  /\ archived = {} /\ emptied = {}
  /\ rewrite = [p \in Request |-> NoRewrite]
  /\ editsMet = FALSE

(* The author; the request does not ask whether the message is deleted. *)
BeginRewrite(p, deletes) ==
  /\ rewrite[p].pc = "idle"
  /\ rewrite' = [rewrite EXCEPT ![p] = [pc |-> "read", saw |-> text, deletes |-> deletes]]
  /\ UNCHANGED <<text, texts, archived, emptied, editsMet>>

(* The UPDATE of the message waits for the row. *)
HoldMessage(p) ==
  /\ rewrite[p].pc = "read"
  /\ FreeFor(rewrite, p, {"held"})
  /\ rewrite' = [rewrite EXCEPT ![p].pc = "held"]
  /\ UNCHANGED <<text, texts, archived, emptied, editsMet>>

Editing(p) == rewrite[p].pc # "idle" /\ ~rewrite[p].deletes
Stores(p, kept) ==
  /\ rewrite[p].pc = "held" /\ Editing(p)
  /\ texts < MaxTexts
  /\ texts' = texts + 1 /\ text' = texts + 1
  /\ archived' = archived \union {kept}
  /\ editsMet' = (editsMet \/ \E q \in Request \ {p} : Editing(q))
  /\ rewrite' = [rewrite EXCEPT ![p] = NoRewrite]
  /\ UNCHANGED emptied

(* Mutant: the text is archived after it was replaced. *)
CommitEditLate(p) == Stores(p, texts + 1)

CommitEdit(p) == Stores(p, rewrite[p].saw)

CommitEmpty(p) ==
  /\ rewrite[p].pc = "held" /\ rewrite[p].deletes
  /\ text' = Emptied
  /\ emptied' = emptied \union {text}
  /\ rewrite' = [rewrite EXCEPT ![p] = NoRewrite]
  /\ UNCHANGED <<texts, archived, editsMet>>

AbortRewrite(p) ==
  /\ rewrite[p].pc # "idle"
  /\ rewrite' = [rewrite EXCEPT ![p] = NoRewrite]
  /\ UNCHANGED <<text, texts, archived, emptied, editsMet>>

EditNext ==
  \E p \in Request :
    \/ \E deletes \in BOOLEAN : BeginRewrite(p, deletes)
    \/ HoldMessage(p) \/ CommitEdit(p) \/ CommitEmpty(p) \/ AbortRewrite(p)

EditSpec == EditInit /\ [][EditNext]_editVars

-----------------------------------------------------------------------------
(* Properties. *)

(* Every text the message has had is shown, archived or taken away by a       *)
(* deletion, also when edits overlap deletions; only two overlapping edits    *)
(* lose one.                                                                 *)
EveryTextKept ==
  editsMet \/ \A t \in 1..texts : t \in {text} \union archived \union emptied

=============================================================================
