------------------------------ MODULE Settings -------------------------------
(***************************************************************************)
(* The rows that users and administrators edit field by field: a request   *)
(* reads the row, sets the fields it was given, and saves.  Some rows are   *)
(* saved with the given fields only (update_fields), preferences with all   *)
(* their columns and the settings of a group with all four, as they were     *)
(* read.  Preferences share their language with users.                       *)
(***************************************************************************)
EXTENDS Requests, FiniteSets
CONSTANTS
  Field,     \* columns of a row; "language" is one of preferences and of users
  Setting    \* values

ASSUME SettingsAssumption == "language" \in Field

VARIABLES
  scope,    \* the rows of this behaviour: no request edits rows of two scopes
  stored,   \* the committed rows
  lost,     \* history: fields <<row, field>> without what was asked of them last
  patch,    \* the requests
  met       \* history: rows of which two requests were under way at once

settingVars == <<scope, stored, lost, patch, met>>

Rows     == {"users", "preferences", "privacy", "notifications", "conversation", "group"}
Scopes   == {{"users", "preferences"}} \union {{r} : r \in Rows \ {"users", "preferences"}}
WholeRow == {"preferences", "group"}
NoPatch  == [pc |-> "idle", row |-> None, fields |-> {}, to |-> None, read |-> <<>>]

SettingsInit ==
  /\ scope \in Scopes
  /\ \E v \in Setting : stored = [r \in Rows |-> [f \in Field |-> v]]
  /\ lost = {} /\ met = {}
  /\ patch = [p \in Request |-> NoPatch]

(* What a request for r writes to: preferences take their language along to  *)
(* users, which has it first.                                               *)
Touches(r, fields) ==
  IF r = "preferences" /\ "language" \in fields THEN {r, "users"} ELSE {r}

(* What it is asked to change. *)
Asked(e) == {<<e.row, f>> : f \in e.fields}
            \union {<<r, "language">> : r \in Touches(e.row, e.fields) \ {e.row}}

(* The fields are checked, and the row is read. *)
BeginPatch(p, r, fields, v) ==
  /\ patch[p].pc = "idle" /\ r \in scope /\ fields # {}
  /\ patch' = [patch EXCEPT ![p] = [pc |-> "save", row |-> r, fields |-> fields, to |-> v,
                                    read |-> IF r \in WholeRow THEN stored[r] ELSE <<>>]]
  /\ met' = met \union {x \in Touches(r, fields) : \E q \in Request \ {p} :
               patch[q].pc # "idle" /\ x \in Touches(patch[q].row, patch[q].fields)}
  /\ UNCHANGED <<scope, stored, lost>>

(* The language of users is set with the preferences only. *)
PatchProfile(p, fields, v)     == "language" \notin fields /\ BeginPatch(p, "users", fields, v)
PatchPresence(p, fields, v)    == "language" \notin fields /\ BeginPatch(p, "users", fields, v)
PatchPreferences(p, fields, v) == BeginPatch(p, "preferences", fields, v)
PatchOnboarding(p, fields, v)  == BeginPatch(p, "preferences", fields, v)
PatchPrivacy(p, fields, v)     == BeginPatch(p, "privacy", fields, v)
PatchNotifications(p, fields, v)  == BeginPatch(p, "notifications", fields, v)
UpdateConversation(p, fields, v)  == BeginPatch(p, "conversation", fields, v)
UpdateGroupSettings(p, fields, v) == BeginPatch(p, "group", fields, v)

(* The UPDATE waits for the rows. *)
SavePatch(p) ==
  /\ patch[p].pc = "save"
  /\ \A q \in Request \ {p} : patch[q].pc = "commit" =>
       Touches(patch[q].row, patch[q].fields)
         \intersect Touches(patch[p].row, patch[p].fields) = {}
  /\ patch' = [patch EXCEPT ![p].pc = "commit"]
  /\ UNCHANGED <<scope, stored, lost, met>>

(* Mutant: what is given to one row goes to the others. *)
WrittenTwice(r, e, f) ==
  IF f \in e.fields THEN e.to
  ELSE IF r = e.row /\ r \in WholeRow THEN e.read[f] ELSE stored[r][f]

(* What the field f of the row r is after the save. *)
Written(r, e, f) ==
  IF <<r, f>> \in Asked(e) THEN e.to
  ELSE IF r = e.row /\ r \in WholeRow THEN e.read[f] ELSE stored[r][f]

CommitPatch(p) ==
  LET e == patch[p] IN
  /\ e.pc = "commit"
  /\ stored' = [r \in Rows |-> [f \in Field |-> Written(r, e, f)]]
  /\ lost' = (lost \ Asked(e)) \union {x \in Rows \X Field :
                 x \notin Asked(e) /\ Written(x[1], e, x[2]) # stored[x[1]][x[2]]}
  /\ patch' = [patch EXCEPT ![p] = NoPatch]
  /\ UNCHANGED <<scope, met>>

AbortPatch(p) ==
  /\ patch[p].pc # "idle"
  /\ patch' = [patch EXCEPT ![p] = NoPatch]
  /\ UNCHANGED <<scope, stored, lost, met>>

SettingsNext ==
  \E p \in Request :
    \/ \E fields \in SUBSET Field, v \in Setting :
         \/ PatchProfile(p, fields, v) \/ PatchPresence(p, fields, v)
         \/ PatchPreferences(p, fields, v) \/ PatchOnboarding(p, fields, v)
         \/ PatchPrivacy(p, fields, v) \/ PatchNotifications(p, fields, v)
         \/ UpdateConversation(p, fields, v) \/ UpdateGroupSettings(p, fields, v)
    \/ SavePatch(p) \/ CommitPatch(p) \/ AbortPatch(p)

SettingsSpec == SettingsInit /\ [][SettingsNext]_settingVars

-----------------------------------------------------------------------------
(* Properties. *)

(* Every field has what the last request that named it asked, and users has   *)
(* the language of preferences: where two requests edit one row at once, this  *)
(* stands for the rows saved with the given fields, and not for the others.    *)
LastAskedStays ==
  /\ \A x \in lost : x[1] \in WholeRow \intersect met
  /\ "preferences" \in met
     \/ stored["users"]["language"] = stored["preferences"]["language"]

=============================================================================
