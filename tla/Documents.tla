----------------------------- MODULE Documents ------------------------------
(***************************************************************************)
(* One document and its versions, each a file of its own.  The number of a *)
(* new version is one more than the document's, as the request read it;     *)
(* only the unique index on (document, version_number) looks at the others.  *)
(* A file that is deleted takes its versions with it, and the document if    *)
(* the document was created from it.                                         *)
(***************************************************************************)
EXTENDS Requests, Naturals, FiniteSets, FiniteSetsExt
CONSTANTS
  Source,      \* media_files a version can be made of
  MaxVersion   \* bound: versions numbered

VARIABLES
  base,       \* the file the document was created from, None: no document
  version,    \* documents.version
  owner,      \* documents.owner
  versions,   \* rows of document_versions: <<number, file>>
  files,      \* rows of media_files
  change,     \* the requests
  behind      \* history: a version was deleted while a request had read its number

docVars == <<base, version, owner, versions, files, change, behind>>

NoChange == [pc |-> "idle", read |-> 0, file |-> None]

DocInit ==
  /\ base = None /\ version = 0 /\ owner = None /\ versions = {}
  /\ files = Source
  /\ change = [p \in Request |-> NoChange]
  /\ behind = FALSE

Numbers == {v[1] : v \in versions}
Writing == {p \in Request : change[p].pc = "written"}

(* create_document: the document and its first version; the second of two    *)
(* for one file is refused.                                                   *)
CreateDocument(u, f) ==
  /\ base = None /\ f \in files /\ version = 0
  /\ base' = f /\ version' = 1 /\ owner' = u /\ versions' = {<<1, f>>}
  /\ UNCHANGED <<files, change, behind>>

(* update_document: the owner may give it away. *)
GiveDocument(u, v) ==
  /\ base # None /\ owner = u
  /\ owner' = v
  /\ UNCHANGED <<base, version, versions, files, change, behind>>

(* add_version, by the owner, of a file that no version has yet. *)
BeginAddVersion(p, f) ==
  /\ change[p].pc = "idle"
  /\ base # None /\ f \in files \ {v[2] : v \in versions}
  /\ version < MaxVersion
  /\ change' = [change EXCEPT ![p] = [pc |-> "insert", read |-> version, file |-> f]]
  /\ UNCHANGED <<base, version, owner, versions, files, behind>>

(* Mutant: no unique index. *)
UnguardedNumber(n) == TRUE

(* The unique index: no committed row has the number, and a request that     *)
(* inserts it while another does waits for that one.                         *)
FreshNumber(n) == n \notin Numbers /\ \A q \in Writing : change[q].read + 1 # n

InsertVersion(p) ==
  /\ change[p].pc = "insert"
  /\ base # None /\ change[p].file \in files
  /\ FreshNumber(change[p].read + 1)
  /\ change' = [change EXCEPT ![p].pc = "written"]
  /\ UNCHANGED <<base, version, owner, versions, files, behind>>

(* The foreign keys hold the document and the file until the commit. *)
CommitVersion(p) ==
  LET n == change[p].read + 1 IN
  /\ change[p].pc = "written"
  /\ versions' = versions \union {<<n, change[p].file>>}
  /\ version' = n
  /\ change' = [change EXCEPT ![p] = NoChange]
  /\ UNCHANGED <<base, owner, files, behind>>

AbortVersion(p) ==
  /\ change[p].pc # "idle"
  /\ change' = [change EXCEPT ![p] = NoChange]
  /\ UNCHANGED <<base, version, owner, versions, files, behind>>

(* The owner of a file deletes it (Uploads). *)
DeleteSource(f) ==
  /\ f \in files
  /\ \A q \in Writing : change[q].file # f /\ base # f
  /\ files' = files \ {f}
  /\ base' = IF base = f THEN None ELSE base
  /\ versions' = IF base = f THEN {} ELSE {v \in versions : v[2] # f}
  /\ behind' = (behind \/ \E q \in Request, v \in versions :
                            /\ v[2] = f /\ change[q].pc = "insert" /\ v[1] = change[q].read + 1)
  /\ UNCHANGED <<version, owner, change>>

DocNext ==
  \/ \E u \in User, f \in Source : CreateDocument(u, f)
  \/ \E u, v \in User : GiveDocument(u, v)
  \/ \E f \in Source : DeleteSource(f)
  \/ \E p \in Request : \/ \E f \in Source : BeginAddVersion(p, f)
                        \/ InsertVersion(p) \/ CommitVersion(p) \/ AbortVersion(p)

DocSpec == DocInit /\ [][DocNext]_docVars

-----------------------------------------------------------------------------
(* Properties. *)

(* Whatever versions are added at once and whatever files are deleted, the    *)
(* number of the document is at least that of each version, so that the next  *)
(* version gets a number of its own: unless a version was deleted while a      *)
(* slower request was about to use its number.                                 *)
NextIsFree == behind \/ \A v \in versions : v[1] <= version

=============================================================================
