------------------------------- MODULE Uploads -------------------------------
(***************************************************************************)
(* The files of one user: their rows, their objects in the store, and the  *)
(* user's count of used bytes.  The store takes part in no transaction: an  *)
(* object is put and deleted at once, what a request does to its row and to  *)
(* the count is committed at its end.  The client puts the object of a       *)
(* presigned upload by itself.                                               *)
(***************************************************************************)
EXTENDS Requests, Integers, FiniteSets
CONSTANTS
  File,
  MaxBytes,   \* max_*_bytes, in units of the model; an object may be larger
  Quota       \* quota_bytes, which a user need not have

ASSUME UploadAssumption == MaxBytes \in Nat \ {0} /\ Quota \in Nat
ASSUME FileAssumption   == None \notin File /\ IsFiniteSet(File)

VARIABLES
  file,       \* rows of media_files; one with a checksum is complete
  object,     \* sizes of the objects in the store, 0: none (an empty one is left out)
  used,       \* storage_usage.used_bytes
  up,         \* the requests
  clashed,    \* history: two requests were past reading the count, or about one file
  discarded,  \* history: an upload that was not complete was deleted
  replaced,   \* history: objects put again after their size had been read
  undone      \* history: files whose deletion failed after the object was gone

uploadVars == <<file, object, used, up, clashed, discarded, replaced, undone>>

Absent == [state |-> "absent", size |-> 0, url |-> FALSE]
NoUp   == [pc |-> "idle", file |-> None, size |-> 0, delta |-> 0, saw |-> 0, to |-> "absent"]

UploadInit ==
  /\ file = [f \in File |-> Absent]
  /\ object = [f \in File |-> 0]
  /\ used = 0
  /\ up = [p \in Request |-> NoUp]
  /\ clashed = FALSE /\ discarded = FALSE
  /\ replaced = {} /\ undone = {}

Exists(f)     == file[f].state \in {"pending", "complete"}
Others(p)     == Request \ {p}
About(f)      == {p \in Request : up[p].file = f}
RowHeld(p, f) == \E q \in Others(p) : up[q].file = f /\ up[q].pc \in {"count", "add", "commit"}

(* _check_quota: a user without a quota has no limit. *)
WithinQuota(n) == Quota = 0 \/ used + n <= Quota

StartsUp(p, u) ==
  /\ up[p].pc = "idle"
  /\ up' = [up EXCEPT ![p] = u]
  /\ clashed' = (clashed \/ About(u.file) # {})

-----------------------------------------------------------------------------
(* A presigned upload: the row, then the object, then its completion.       *)

(* The declared size is compared with the limits, nothing is counted.       *)
InitPresignedUpload(f, n) ==
  /\ file[f] = Absent /\ object[f] = 0 /\ About(f) = {}
  /\ n <= MaxBytes /\ WithinQuota(n)
  /\ file' = [file EXCEPT ![f] = [state |-> "pending", size |-> n, url |-> TRUE]]
  /\ UNCHANGED <<object, used, up, clashed, discarded, replaced, undone>>

(* The URL is good for 900 seconds, whatever becomes of the row meanwhile. *)
PutObject(f, n) ==
  /\ file[f].url
  /\ object' = [object EXCEPT ![f] = n]
  /\ replaced' = IF file[f].state # "pending" \/ About(f) # {} THEN replaced \union {f} ELSE replaced
  /\ UNCHANGED <<file, used, up, clashed, discarded, undone>>

(* Mutant: the object is not looked for. *)
BeginCompleteUnseen(p, f) ==
  /\ file[f].state = "pending"
  /\ StartsUp(p, [NoUp EXCEPT !.pc = "save", !.file = f, !.size = object[f],
                              !.delta = object[f], !.to = "complete"])
  /\ UNCHANGED <<file, object, used, discarded, replaced, undone>>

(* complete_upload reads the row and the size of the object.  One that is   *)
(* too large is deleted with its row, and that is committed.                *)
BeginComplete(p, f) ==
  /\ file[f].state = "pending" /\ object[f] > 0
  /\ StartsUp(p, IF object[f] > MaxBytes
                 THEN [NoUp EXCEPT !.pc = "drop", !.file = f]
                 ELSE [NoUp EXCEPT !.pc = "save", !.file = f, !.size = object[f],
                                   !.delta = object[f], !.to = "complete"])
  /\ UNCHANGED <<file, object, used, discarded, replaced, undone>>

(* The UPDATE of the row waits for it; a row that is gone, or a checksum    *)
(* that another row has, refuses it.                                        *)
SaveRow(p) ==
  LET u == up[p] IN
  /\ u.pc = "save"
  /\ Exists(u.file) /\ ~RowHeld(p, u.file)
  /\ up' = [up EXCEPT ![p].pc = "count"]
  /\ UNCHANGED <<file, object, used, clashed, discarded, replaced, undone>>

-----------------------------------------------------------------------------
(* direct_upload: the object first, then the row. *)

BeginDirect(p, f, n) ==
  /\ file[f] = Absent /\ object[f] = 0 /\ About(f) = {}
  /\ n <= MaxBytes /\ WithinQuota(n)
  /\ StartsUp(p, [NoUp EXCEPT !.pc = "count", !.file = f, !.size = n, !.delta = n,
                              !.to = "complete"])
  /\ object' = [object EXCEPT ![f] = n]
  /\ UNCHANGED <<file, used, discarded, replaced, undone>>

-----------------------------------------------------------------------------
(* delete_media, of a complete file and of a pending one alike. *)

BeginDelete(p, f) ==
  /\ Exists(f)
  /\ StartsUp(p, [NoUp EXCEPT !.pc = "drop", !.file = f, !.delta = -file[f].size])
  /\ discarded' = (discarded \/ file[f].state = "pending")
  /\ UNCHANGED <<file, object, used, replaced, undone>>

DropObject(p) ==
  /\ up[p].pc = "drop"
  /\ object' = [object EXCEPT ![up[p].file] = 0]
  /\ up' = [up EXCEPT ![p].pc = "remove"]
  /\ UNCHANGED <<file, used, clashed, discarded, replaced, undone>>

(* The DELETE waits for the row, and finds none if another request has       *)
(* deleted it; only a deletion that the user asked for changes the count.    *)
RemoveRow(p) ==
  LET u == up[p] IN
  /\ u.pc = "remove" /\ ~RowHeld(p, u.file)
  /\ up' = [up EXCEPT ![p].pc = IF u.delta = 0 THEN "commit" ELSE "count"]
  /\ UNCHANGED <<file, object, used, clashed, discarded, replaced, undone>>

-----------------------------------------------------------------------------
(* _apply_quota_delta reads the count and writes it back. *)

ReadCount(p) ==
  /\ up[p].pc = "count"
  /\ up' = [up EXCEPT ![p].pc = "add", ![p].saw = used]
  /\ clashed' = (clashed \/ \E q \in Others(p) :
                           up[q].delta # 0 /\ up[q].pc \in {"add", "commit"})
  /\ UNCHANGED <<file, object, used, discarded, replaced, undone>>

(* The UPDATE of the count waits for its row. *)
AddDelta(p) ==
  /\ up[p].pc = "add"
  /\ \A q \in Others(p) : up[q].pc = "commit" => up[q].delta = 0
  /\ up' = [up EXCEPT ![p].pc = "commit"]
  /\ UNCHANGED <<file, object, used, clashed, discarded, replaced, undone>>

(* Mutant: a deletion keeps the bytes counted. *)
CountKept(u) == IF u.delta <= 0 THEN used ELSE u.saw + u.delta

(* Never below zero. *)
Counted(u) ==
  IF u.delta = 0 THEN used ELSE IF u.saw + u.delta < 0 THEN 0 ELSE u.saw + u.delta

CommitUpload(p) ==
  LET u == up[p] IN
  /\ u.pc = "commit"
  /\ file' = [file EXCEPT ![u.file].state = IF u.to = "absent" THEN "deleted" ELSE u.to,
                             ![u.file].size = u.size]
  /\ used' = Counted(u)
  /\ up' = [up EXCEPT ![p] = NoUp]
  /\ UNCHANGED <<object, clashed, discarded, replaced, undone>>

(* A request that fails leaves the rows as they were, and the store as it is. *)
AbortUpload(p) ==
  LET u == up[p] IN
  /\ u.pc # "idle"
  /\ undone' = IF u.to = "absent" /\ u.pc # "drop" THEN undone \union {u.file} ELSE undone
  /\ up' = [up EXCEPT ![p] = NoUp]
  /\ UNCHANGED <<file, object, used, clashed, discarded, replaced>>

UploadNext ==
  \/ \E f \in File, n \in 1 .. MaxBytes : InitPresignedUpload(f, n)
  \/ \E f \in File, n \in 1 .. MaxBytes + 1 : PutObject(f, n)
  \/ \E p \in Request :
       \/ \E f \in File : BeginComplete(p, f) \/ BeginDelete(p, f)
                          \/ \E n \in 1 .. MaxBytes : BeginDirect(p, f, n)
       \/ SaveRow(p) \/ DropObject(p) \/ RemoveRow(p) \/ ReadCount(p) \/ AddDelta(p)
       \/ CommitUpload(p) \/ AbortUpload(p)

UploadSpec == UploadInit /\ [][UploadNext]_uploadVars

-----------------------------------------------------------------------------
(* Properties. *)

Complete == {f \in File : file[f].state = "complete"}
Bytes    == UNION {{f} \X (1 .. file[f].size) : f \in Complete}

(* Completions, direct uploads, deletions and failures keep the count of used *)
(* bytes the sum of the sizes of the complete files, unless two requests      *)
(* changed the count, or one file, at once, or a pending upload was deleted.   *)
UsedIsSum == clashed \/ discarded \/ used = Cardinality(Bytes)

(* A complete file has its object, with the size that was counted, whatever  *)
(* failed on the way: except while it is being deleted, after a deletion that *)
(* failed, and when the client put the object once more.                      *)
RowsHaveObjects ==
  \A f \in Complete :
    \/ object[f] > 0 /\ object[f] = file[f].size
    \/ f \in replaced \union undone
    \/ \E p \in About(f) : up[p].pc # "drop" /\ up[p].to = "absent"

=============================================================================
