---------------------------- MODULE StoresProofs ----------------------------
(***************************************************************************)
(* The theorems about the cache, the sockets, the object store and the rows *)
(* beside them, for any number of requests, sockets, keys and files.         *)
(***************************************************************************)
EXTENDS KeyBundles, Uploads, Documents, Presence, Socket, Settings, DeviceLinks, FiniteFacts

-----------------------------------------------------------------------------
(* Sockets.  Who has fetched follows the conversation still, and has what   *)
(* each request that is about to commit has broadcast.                       *)

SocketTypeOK ==
  /\ wire \in [Wire -> [user : User \union {None}, pc : {"off", "on", "join"},
                        subscribed : BOOLEAN]]
  /\ draft \in [Request -> [pc : {"idle", "broadcast", "commit"}, msg : Msg \union {None}]]
  /\ got \in [Wire -> SUBSET (Msg \union {None})]
  /\ between \in [Wire -> SUBSET (Msg \union {None})]
  /\ posted \subseteq Msg \union {None}
  /\ caughtUp \subseteq Wire

SubscribersFollow ==
  /\ \A s \in Wire : wire[s].pc = "on" /\ wire[s].subscribed => s \in followers
  /\ caughtUp \subseteq followers

BroadcastsReach ==
  \A s \in caughtUp, p \in Request :
    draft[p].pc = "commit" => draft[p].msg \in got[s] \union between[s] \union unsent

SocketInv == SocketTypeOK /\ SubscribersFollow /\ BroadcastsReach /\ NothingMissed

(* unsubscribe clears one flag of a connection. *)
LEMMA WireForgets ==
  ASSUME NEW s \in Wire, SocketTypeOK, wire' = [wire EXCEPT ![s].subscribed = FALSE]
  PROVE  wire' \in [Wire -> [user : User \union {None}, pc : {"off", "on", "join"},
                            subscribed : BOOLEAN]]
PROOF
  <1>1. PICK T : T = [user : User \union {None}, pc : {"off", "on", "join"}, subscribed : BOOLEAN]
    OBVIOUS
  <1>2. wire \in [Wire -> T]
    BY <1>1 DEF SocketTypeOK
  <1>3. \A c \in T : [c EXCEPT !.subscribed = FALSE] \in T
    BY <1>1
  <1>4. wire' = [wire EXCEPT ![s] = [wire[s] EXCEPT !.subscribed = FALSE]]
    OBVIOUS
  <1>5. wire' \in [Wire -> T]
    BY <1>2, <1>3, <1>4
  <1>. QED
    BY <1>1, <1>5

LEMMA SocketStep == SocketInv /\ [SocketNext]_socketVars => SocketInv'
PROOF
  <1>. SUFFICES ASSUME SocketInv, [SocketNext]_socketVars PROVE SocketInv'
    OBVIOUS
  <1>. USE DEF SocketInv, SocketTypeOK, SubscribersFollow, BroadcastsReach, NothingMissed,
               NoWire, NoDraft, clientVars, gateVars
  <1>1. CASE UNCHANGED socketVars
    BY <1>1 DEF socketVars
  <1>2. ASSUME NEW u \in User, AcceptTos(u) \/ CompleteOnboarding(u) \/ ChangeMember(u)
        PROVE  SocketInv'
    BY <1>2 DEF AcceptTos, CompleteOnboarding, ChangeMember
  <1>3. CASE NewTosVersion
    BY <1>3 DEF NewTosVersion
  <1>4. ASSUME NEW s \in Wire, NEW u \in User, ConnectWire(s, u) PROVE SocketInv'
    BY <1>4 DEF ConnectWire
  <1>5. ASSUME NEW s \in Wire, BeginSubscribe(s) PROVE SocketInv'
    BY <1>5 DEF BeginSubscribe
  <1>6. ASSUME NEW s \in Wire, JoinGroup(s) PROVE SocketInv'
    BY <1>6 DEF JoinGroup
  <1>7. ASSUME NEW s \in Wire, Unsubscribe(s) PROVE SocketInv'
    <2>1. /\ wire' = [wire EXCEPT ![s].subscribed = FALSE] /\ followers' = followers \ {s}
          /\ UNCHANGED <<posted, draft, unsent>>
      BY <1>7 DEF Unsubscribe
    <2>2. caughtUp' = caughtUp \ {s}
      BY <1>7 DEF Unsubscribe, ForgetClient
    <2>3. SocketTypeOK'
      <3>1. /\ got' = [got EXCEPT ![s] = {}] /\ between' = [between EXCEPT ![s] = {}]
        BY <1>7 DEF Unsubscribe, ForgetClient
      <3>2. got' \in [Wire -> SUBSET (Msg \union {None})]
        BY <3>1
      <3>3. between' \in [Wire -> SUBSET (Msg \union {None})]
        BY <3>1
      <3>4. wire' \in [Wire -> [user : User \union {None}, pc : {"off", "on", "join"},
                                subscribed : BOOLEAN]]
        BY <2>1, WireForgets
      <3>. QED
        BY <2>1, <2>2, <3>2, <3>3, <3>4
    <2>4. SubscribersFollow'
      BY <2>1, <2>2
    <2>5. \A w \in Wire \ {s} : got'[w] = got[w] /\ between'[w] = between[w]
      BY <1>7 DEF Unsubscribe, ForgetClient
    <2>6. BroadcastsReach' /\ NothingMissed'
      BY <2>1, <2>2, <2>5
    <2>. QED
      BY <2>3, <2>4, <2>6
  <1>8. ASSUME NEW s \in Wire, Disconnect(s) PROVE SocketInv'
    BY <1>8 DEF Disconnect, ForgetClient
  <1>9. ASSUME NEW s \in Wire, Fetch(s) PROVE SocketInv'
    <2>1. got' = [got EXCEPT ![s] = @ \union posted] /\ caughtUp' = caughtUp \union {s}
          /\ s \in followers /\ UNCHANGED <<wire, followers, posted, draft, unsent>>
      BY <1>9 DEF Fetch
    <2>2. between' = [between EXCEPT ![s] =
                {draft[p].msg : p \in {q \in Request : draft[q].pc = "commit"}} \ got[s]]
      BY <1>9 DEF Fetch
    <2>3. SocketTypeOK'
      BY <2>1, <2>2
    <2>4. SubscribersFollow'
      BY <2>1
    <2>5. BroadcastsReach'
      BY <2>1, <2>2
    <2>6. NothingMissed'
      BY <2>1, <2>2
    <2>. QED
      BY <2>3, <2>4, <2>5, <2>6
  <1>10. ASSUME NEW p \in Request, NEW m \in Msg, WriteMsg(p, m) PROVE SocketInv'
    BY <1>10 DEF WriteMsg
  <1>11. ASSUME NEW p \in Request, BroadcastMsg(p) PROVE SocketInv'
    <2>1. SocketTypeOK' /\ SubscribersFollow'
      BY <1>11 DEF BroadcastMsg
    <2>2. BroadcastsReach'
      BY <1>11 DEF BroadcastMsg
    <2>3. NothingMissed'
      BY <1>11 DEF BroadcastMsg
    <2>. QED
      BY <2>1, <2>2, <2>3
  <1>12. ASSUME NEW p \in Request, CommitMsg(p) PROVE SocketInv'
    BY <1>12 DEF CommitMsg
  <1>13. ASSUME NEW p \in Request, AbortMsg(p) PROVE SocketInv'
    BY <1>13 DEF AbortMsg
  <1>. QED
    BY <1>1, <1>2, <1>3, <1>4, <1>5, <1>6, <1>7, <1>8, <1>9, <1>10, <1>11, <1>12, <1>13
       DEF SocketNext

(* A client that subscribes and then fetches has every message, except those  *)
(* of requests it overlapped with and those whose broadcast failed            *)
(* (MessagingConsumer, send_message, broadcast_message_created).             *)
THEOREM FetchedIsComplete == SocketSpec => []NothingMissed
PROOF
  <1>1. SocketInit => SocketInv
    BY DEF SocketInit, SocketInv, SocketTypeOK, SubscribersFollow, BroadcastsReach,
           NothingMissed, NoWire, NoDraft
  <1>2. SocketInv => NothingMissed
    BY DEF SocketInv
  <1>. QED
    BY <1>1, <1>2, SocketStep, PTL DEF SocketSpec

-----------------------------------------------------------------------------
(* Settings.  Two requests under way that touch one row have been noted, so  *)
(* that until then a request that will save a whole row has read what is      *)
(* stored of it.                                                             *)

PatchType ==
  [pc : {"idle", "save", "commit"}, row : Rows \union {None}, fields : SUBSET Field,
   to : Setting \union {None}, read : [Field -> Setting] \union {<<>>}]

PatchWellFormed(e) ==
  e.pc # "idle" =>
    /\ e.row \in Rows /\ e.to \in Setting
    /\ e.row \in WholeRow => e.read \in [Field -> Setting]
    /\ e.row = "users" => "language" \notin e.fields

SettingsTypeOK ==
  /\ stored \in [Rows -> [Field -> Setting]]
  /\ patch \in [Request -> PatchType]
  /\ \A p \in Request : PatchWellFormed(patch[p])

OverlapsNoted ==
  \A p, q \in Request :
    p # q /\ patch[p].pc # "idle" /\ patch[q].pc # "idle" =>
      Touches(patch[p].row, patch[p].fields) \intersect Touches(patch[q].row, patch[q].fields)
        \subseteq met

ReadsStand ==
  \A p \in Request :
    patch[p].pc # "idle" /\ patch[p].row \in WholeRow \ met => patch[p].read = stored[patch[p].row]

SettingsInv == SettingsTypeOK /\ OverlapsNoted /\ ReadsStand /\ LastAskedStays

LEMMA BeginPatchStep ==
  ASSUME SettingsInv, NEW p \in Request, NEW r \in Rows, NEW fields \in SUBSET Field,
         NEW v \in Setting, r = "users" => "language" \notin fields, BeginPatch(p, r, fields, v)
  PROVE  SettingsInv'
PROOF
  <1>1. PICK e : e = [pc |-> "save", row |-> r, fields |-> fields, to |-> v,
                      read |-> IF r \in WholeRow THEN stored[r] ELSE <<>>]
    OBVIOUS
  <1>2. e \in PatchType /\ PatchWellFormed(e)
    BY <1>1 DEF PatchType, PatchWellFormed, SettingsInv, SettingsTypeOK
  <1>3. e.row = r /\ e.fields = fields /\ (r \in WholeRow => e.read = stored[r])
    BY <1>1
  <1>4. patch' = [patch EXCEPT ![p] = e] /\ UNCHANGED <<scope, stored, lost>>
    BY <1>1 DEF BeginPatch
  <1>5. met' = met \union {x \in Touches(r, fields) : \E q \in Request \ {p} :
                  patch[q].pc # "idle" /\ x \in Touches(patch[q].row, patch[q].fields)}
    BY DEF BeginPatch
  <1>6. patch'[p] = e /\ \A q \in Request \ {p} : patch'[q] = patch[q]
    BY <1>4 DEF SettingsInv, SettingsTypeOK
  <1>7. SettingsTypeOK'
    <2>1. patch' \in [Request -> PatchType]
      BY <1>2, <1>4 DEF SettingsInv, SettingsTypeOK
    <2>2. \A q \in Request : PatchWellFormed(patch'[q])
      BY <1>2, <1>6 DEF SettingsInv, SettingsTypeOK
    <2>. QED
      BY <1>4, <2>1, <2>2 DEF SettingsInv, SettingsTypeOK, PatchWellFormed
  <1>8. OverlapsNoted'
    BY <1>3, <1>5, <1>6 DEF SettingsInv, OverlapsNoted
  <1>9. ReadsStand'
    BY <1>3, <1>4, <1>5, <1>6 DEF SettingsInv, ReadsStand
  <1>10. LastAskedStays'
    BY <1>4, <1>5 DEF SettingsInv, LastAskedStays
  <1>. QED
    BY <1>7, <1>8, <1>9, <1>10 DEF SettingsInv

(* What a request saves beside what it was asked: nothing new, unless another *)
(* has met it on a row it saves whole.                                       *)
LEMMA WrittenUnlessMet ==
  ASSUME SettingsInv, NEW p \in Request, patch[p].pc = "commit", NEW r \in Rows, NEW f \in Field
  PROVE  /\ Written(r, patch[p], f) \in Setting
         /\ <<r, f>> \notin Asked(patch[p]) /\ ~(r = patch[p].row /\ r \in WholeRow \intersect met)
              => Written(r, patch[p], f) = stored[r][f]
         /\ r \notin Touches(patch[p].row, patch[p].fields) => Written(r, patch[p], f) = stored[r][f]
PROOF
  <1>1. patch[p].row \in Rows /\ patch[p].to \in Setting /\ stored[r][f] \in Setting
        /\ (patch[p].row \in WholeRow => patch[p].read \in [Field -> Setting])
    BY DEF SettingsInv, SettingsTypeOK, PatchWellFormed
  <1>2. r = patch[p].row /\ r \in WholeRow /\ r \notin met => patch[p].read[f] = stored[r][f]
    BY DEF SettingsInv, ReadsStand
  <1>3. <<r, f>> \in Asked(patch[p]) => r \in Touches(patch[p].row, patch[p].fields)
    BY <1>1 DEF Asked, Touches
  <1>4. patch[p].row \in Touches(patch[p].row, patch[p].fields)
    BY DEF Touches
  <1>. QED
    BY <1>1, <1>2, <1>3, <1>4 DEF Written

LEMMA CommitPatchStep ==
  ASSUME SettingsInv, NEW p \in Request, CommitPatch(p)
  PROVE  SettingsInv'
PROOF
  <1>1. PICK e : e = patch[p]
    OBVIOUS
  <1>2. /\ patch[p].pc = "commit" /\ UNCHANGED <<scope, met>>
        /\ stored' = [r \in Rows |-> [f \in Field |-> Written(r, e, f)]]
        /\ lost' = (lost \ Asked(e)) \union {x \in Rows \X Field :
                      x \notin Asked(e) /\ Written(x[1], e, x[2]) # stored[x[1]][x[2]]}
        /\ patch' = [patch EXCEPT ![p] = NoPatch]
    BY <1>1 DEF CommitPatch
  <1>3. \A r \in Rows, f \in Field :
          /\ Written(r, e, f) \in Setting
          /\ <<r, f>> \notin Asked(e) /\ ~(r = e.row /\ r \in WholeRow \intersect met)
               => Written(r, e, f) = stored[r][f]
          /\ r \notin Touches(e.row, e.fields) => Written(r, e, f) = stored[r][f]
    BY <1>1, <1>2, WrittenUnlessMet
  <1>4. SettingsTypeOK'
    <2>1. stored' \in [Rows -> [Field -> Setting]]
      BY <1>2, <1>3
    <2>2. NoPatch \in PatchType /\ PatchWellFormed(NoPatch)
      BY DEF NoPatch, PatchType, PatchWellFormed
    <2>3. patch' \in [Request -> PatchType] /\ \A q \in Request : PatchWellFormed(patch'[q])
      BY <1>2, <2>2 DEF SettingsInv, SettingsTypeOK
    <2>. QED
      BY <2>1, <2>3 DEF SettingsTypeOK, PatchWellFormed
  <1>5. \A q \in Request : patch'[q].pc # "idle" => q # p /\ patch'[q] = patch[q]
    BY <1>2 DEF SettingsInv, SettingsTypeOK, NoPatch
  <1>6. OverlapsNoted'
    BY <1>2, <1>5 DEF SettingsInv, OverlapsNoted
  <1>7. ReadsStand'
    <2>. SUFFICES ASSUME NEW q \in Request, q # p, patch'[q] = patch[q], patch[q].pc # "idle",
                         patch[q].row \in WholeRow \ met
                  PROVE  patch[q].read = stored'[patch[q].row]
      BY <1>2, <1>5 DEF ReadsStand
    <2>1. patch[q].row \in Touches(patch[q].row, patch[q].fields)
      BY DEF Touches
    <2>2. patch[q].row \notin Touches(e.row, e.fields)
      BY <1>1, <1>2, <2>1 DEF SettingsInv, OverlapsNoted
    <2>3. patch[q].row \in Rows /\ patch[q].read = stored[patch[q].row]
      BY DEF SettingsInv, SettingsTypeOK, PatchWellFormed, ReadsStand
    <2>4. stored'[patch[q].row] = [f \in Field |-> stored[patch[q].row][f]]
      BY <1>2, <1>3, <2>2, <2>3
    <2>. QED
      BY <2>3, <2>4 DEF SettingsInv, SettingsTypeOK
  <1>8. LastAskedStays'
    <2>1. \A x \in lost' : x[1] \in WholeRow \intersect met
      <3>1. ASSUME NEW x \in Rows \X Field, x \notin Asked(e),
                   Written(x[1], e, x[2]) # stored[x[1]][x[2]]
            PROVE  x[1] \in WholeRow \intersect met
        <4>1. x[1] \in Rows /\ x[2] \in Field /\ x = <<x[1], x[2]>>
          OBVIOUS
        <4>. QED
          BY <1>3, <3>1, <4>1
      <3>. QED
        BY <1>2, <3>1 DEF SettingsInv, LastAskedStays
    <2>2. ASSUME "preferences" \notin met
          PROVE  stored'["users"]["language"] = stored'["preferences"]["language"]
      <3>1. stored["users"]["language"] = stored["preferences"]["language"]
        BY <2>2 DEF SettingsInv, LastAskedStays
      <3>2. "users" \in Rows /\ "preferences" \in Rows /\ "language" \in Field
        BY SettingsAssumption DEF Rows
      <3>3. stored'["users"]["language"] = Written("users", e, "language")
            /\ stored'["preferences"]["language"] = Written("preferences", e, "language")
        BY <1>2, <3>2
      <3>4. e.row = "users" => "language" \notin e.fields
        BY <1>1, <1>2 DEF SettingsInv, SettingsTypeOK, PatchWellFormed
      <3>5. CASE e.row = "preferences" /\ "language" \in e.fields
        BY <3>3, <3>5 DEF Written, Asked, Touches
      <3>6. CASE ~(e.row = "preferences" /\ "language" \in e.fields)
        <4>1. <<"users", "language">> \notin Asked(e) /\ <<"preferences", "language">> \notin Asked(e)
          BY <3>4, <3>6 DEF Asked, Touches
        <4>. QED
          BY <1>3, <2>2, <3>1, <3>2, <3>3, <4>1 DEF WholeRow
      <3>. QED
        BY <3>5, <3>6
    <2>. QED
      BY <1>2, <2>1, <2>2 DEF LastAskedStays
  <1>. QED
    BY <1>4, <1>6, <1>7, <1>8 DEF SettingsInv

LEMMA SettingsStep == SettingsInv /\ [SettingsNext]_settingVars => SettingsInv'
PROOF
  <1>. SUFFICES ASSUME SettingsInv, [SettingsNext]_settingVars PROVE SettingsInv'
    OBVIOUS
  <1>1. CASE UNCHANGED settingVars
    BY <1>1 DEF settingVars, SettingsInv, SettingsTypeOK, PatchWellFormed, OverlapsNoted,
                ReadsStand, LastAskedStays
  <1>2. ASSUME NEW p \in Request, NEW fields \in SUBSET Field, NEW v \in Setting,
               \/ PatchProfile(p, fields, v) \/ PatchPresence(p, fields, v)
               \/ PatchPreferences(p, fields, v) \/ PatchOnboarding(p, fields, v)
               \/ PatchPrivacy(p, fields, v) \/ PatchNotifications(p, fields, v)
               \/ UpdateConversation(p, fields, v) \/ UpdateGroupSettings(p, fields, v)
        PROVE  SettingsInv'
    <2>1. \A r \in {"users", "preferences", "privacy", "notifications", "conversation", "group"} :
            r \in Rows
      BY DEF Rows
    <2>2. \E r \in Rows : BeginPatch(p, r, fields, v) /\ (r = "users" => "language" \notin fields)
      BY <1>2, <2>1 DEF PatchProfile, PatchPresence, PatchPreferences, PatchOnboarding, PatchPrivacy,
                        PatchNotifications, UpdateConversation, UpdateGroupSettings
    <2>. QED
      BY <2>2, BeginPatchStep
  <1>3. ASSUME NEW p \in Request, SavePatch(p) PROVE SettingsInv'
    <2>1. patch[p].pc = "save" /\ patch' = [patch EXCEPT ![p].pc = "commit"]
          /\ UNCHANGED <<scope, stored, lost, met>>
      BY <1>3 DEF SavePatch
    <2>2. \A q \in Request : /\ patch'[q].row = patch[q].row /\ patch'[q].fields = patch[q].fields
                             /\ patch'[q].to = patch[q].to /\ patch'[q].read = patch[q].read
                             /\ (patch'[q].pc # "idle" => patch[q].pc # "idle")
      BY <2>1 DEF SettingsInv, SettingsTypeOK, PatchType
    <2>3. patch' \in [Request -> PatchType]
      BY <2>1 DEF SettingsInv, SettingsTypeOK, PatchType
    <2>. QED
      BY <2>1, <2>2, <2>3 DEF SettingsInv, SettingsTypeOK, PatchWellFormed, OverlapsNoted,
                              ReadsStand, LastAskedStays
  <1>4. ASSUME NEW p \in Request, CommitPatch(p) PROVE SettingsInv'
    BY <1>4, CommitPatchStep
  <1>5. ASSUME NEW p \in Request, AbortPatch(p) PROVE SettingsInv'
    <2>1. patch' = [patch EXCEPT ![p] = NoPatch] /\ UNCHANGED <<scope, stored, lost, met>>
      BY <1>5 DEF AbortPatch
    <2>2. NoPatch \in PatchType /\ NoPatch.pc = "idle"
      BY DEF NoPatch, PatchType
    <2>3. patch' \in [Request -> PatchType]
      BY <2>1, <2>2 DEF SettingsInv, SettingsTypeOK
    <2>4. \A q \in Request : patch'[q].pc # "idle" => patch'[q] = patch[q]
      BY <2>1, <2>2 DEF SettingsInv, SettingsTypeOK
    <2>. QED
      BY <2>1, <2>3, <2>4 DEF SettingsInv, SettingsTypeOK, PatchWellFormed, OverlapsNoted,
                              ReadsStand, LastAskedStays
  <1>. QED
    BY <1>1, <1>2, <1>3, <1>4, <1>5 DEF SettingsNext

(* What a user or an administrator was answered is what the row has, until a  *)
(* later request names the field, and the two languages agree; only rows saved *)
(* whole by two requests at once lose an answer (patch_preferences and the     *)
(* other patches).                                                            *)
THEOREM AnswersAreKept == SettingsSpec => []LastAskedStays
PROOF
  <1>1. SettingsInit => SettingsInv
    <2>. SUFFICES ASSUME SettingsInit PROVE SettingsInv
      OBVIOUS
    <2>1. PICK v \in Setting : stored = [r \in Rows |-> [f \in Field |-> v]]
      BY DEF SettingsInit
    <2>2. lost = {} /\ met = {} /\ patch = [p \in Request |-> NoPatch]
      BY DEF SettingsInit
    <2>3. NoPatch \in PatchType /\ NoPatch.pc = "idle"
      BY DEF NoPatch, PatchType
    <2>4. "users" \in Rows /\ "preferences" \in Rows /\ "language" \in Field
      BY SettingsAssumption DEF Rows
    <2>. QED
      BY <2>1, <2>2, <2>3, <2>4 DEF SettingsInv, SettingsTypeOK, PatchWellFormed, OverlapsNoted,
                                    ReadsStand, LastAskedStays
  <1>2. SettingsInv => LastAskedStays
    BY DEF SettingsInv
  <1>. QED
    BY <1>1, <1>2, SettingsStep, PTL DEF SettingsSpec

-----------------------------------------------------------------------------
(* Documents.  Until a version is deleted behind a request, the numbers that *)
(* a request may still use are taken once the document has passed them: one   *)
(* request at most is writing a version, and it has read the number of the     *)
(* document as it is.                                                        *)

ChangeType ==
  [pc : {"idle", "insert", "written"}, read : Nat, file : Source \union {None}]

DocTypeOK ==
  /\ version \in Nat
  /\ versions \subseteq Nat \X Source
  /\ files \subseteq Source
  /\ change \in [Request -> ChangeType]
  /\ \A p \in Request : change[p].pc # "idle" => change[p].file \in Source

NotBegun == version = 0 => base = None /\ \A p \in Request : change[p].pc = "idle"

PassedAreTaken ==
  base # None => \A p \in Request : change[p].pc = "insert" =>
    change[p].read = version \/ (change[p].read < version /\ change[p].read + 1 \in Numbers)

WriterIsCurrent ==
  \A p \in Request : change[p].pc = "written" =>
    /\ change[p].read = version
    /\ \A q \in Request : change[q].pc = "written" => q = p

DocInv ==
  /\ DocTypeOK
  /\ behind \/ (NotBegun /\ PassedAreTaken /\ WriterIsCurrent /\ NextIsFree)

LEMMA DocStep == DocInv /\ [DocNext]_docVars => DocInv'
PROOF
  <1>. SUFFICES ASSUME DocInv, [DocNext]_docVars PROVE DocInv'
    OBVIOUS
  <1>. USE DEF DocInv, DocTypeOK, ChangeType
  <1>1. CASE UNCHANGED docVars
    BY <1>1 DEF docVars, NotBegun, PassedAreTaken, WriterIsCurrent, NextIsFree, Numbers
  <1>2. ASSUME NEW u \in User, NEW f \in Source, CreateDocument(u, f) PROVE DocInv'
    BY <1>2 DEF CreateDocument, NotBegun, PassedAreTaken, WriterIsCurrent, NextIsFree, Numbers
  <1>3. ASSUME NEW u \in User, NEW v \in User, GiveDocument(u, v) PROVE DocInv'
    BY <1>3 DEF GiveDocument, NotBegun, PassedAreTaken, WriterIsCurrent, NextIsFree, Numbers
  <1>4. ASSUME NEW f \in Source, DeleteSource(f) PROVE DocInv'
    <2>1. DocTypeOK'
      BY <1>4 DEF DeleteSource
    <2>2. ASSUME ~behind'
          PROVE  NotBegun' /\ PassedAreTaken' /\ WriterIsCurrent' /\ NextIsFree'
      <3>1. ~behind /\ UNCHANGED <<version, change>> /\ versions' \subseteq versions
            /\ (base = None => base' = None)
        BY <1>4, <2>2 DEF DeleteSource
      <3>2. NotBegun' /\ WriterIsCurrent' /\ NextIsFree'
        BY <3>1 DEF NotBegun, WriterIsCurrent, NextIsFree
      <3>3. PassedAreTaken'
        <4>. SUFFICES ASSUME base' # None, NEW p \in Request, change[p].pc = "insert",
                             change[p].read # version
                      PROVE  change[p].read < version /\ change[p].read + 1 \in Numbers'
          BY <3>1 DEF PassedAreTaken
        <4>1. base # f /\ base # None /\ versions' = {v \in versions : v[2] # f}
          BY <1>4, <3>1 DEF DeleteSource
        <4>2. change[p].read < version /\ change[p].read + 1 \in Numbers
          BY <3>1, <4>1 DEF PassedAreTaken
        <4>3. PICK v \in versions : v[1] = change[p].read + 1
          BY <4>2 DEF Numbers
        <4>4. v[2] # f
          BY <1>4, <2>2, <4>3 DEF DeleteSource
        <4>. QED
          BY <4>1, <4>2, <4>3, <4>4 DEF Numbers
      <3>. QED
        BY <3>2, <3>3
    <2>. QED
      BY <2>1, <2>2
  <1>5. ASSUME NEW p \in Request, NEW f \in Source, BeginAddVersion(p, f) PROVE DocInv'
    BY <1>5 DEF BeginAddVersion, NotBegun, PassedAreTaken, WriterIsCurrent, NextIsFree, Numbers
  <1>6. ASSUME NEW p \in Request, InsertVersion(p) PROVE DocInv'
    <2>1. change[p].pc = "insert" /\ base # None /\ change' = [change EXCEPT ![p].pc = "written"]
          /\ UNCHANGED <<base, version, owner, versions, files, behind>>
      BY <1>6 DEF InsertVersion
    <2>2. change' \in [Request -> ChangeType]
      BY <2>1
    <2>3. \A q \in Request : /\ change'[q].read = change[q].read
                             /\ q # p => change'[q] = change[q]
                             /\ change'[p].pc = "written"
      BY <2>1
    <2>4. ASSUME ~behind
          PROVE  NotBegun' /\ PassedAreTaken' /\ WriterIsCurrent' /\ NextIsFree'
      <3>1. change[p].read = version
        BY <1>6, <2>1, <2>4 DEF InsertVersion, FreshNumber, PassedAreTaken
      <3>2. \A q \in Request : change[q].pc # "written"
        BY <1>6, <2>4, <3>1 DEF InsertVersion, FreshNumber, Writing, WriterIsCurrent
      <3>3. WriterIsCurrent'
        BY <2>1, <2>3, <3>1, <3>2 DEF WriterIsCurrent
      <3>4. NotBegun' /\ PassedAreTaken' /\ NextIsFree'
        BY <2>1, <2>3, <2>4 DEF NotBegun, PassedAreTaken, NextIsFree, Numbers
      <3>. QED
        BY <3>3, <3>4
    <2>. QED
      BY <2>1, <2>2, <2>4 DEF ChangeType
  <1>7. ASSUME NEW p \in Request, CommitVersion(p) PROVE DocInv'
    <2>1. /\ change[p].pc = "written" /\ UNCHANGED <<base, owner, files, behind>>
          /\ versions' = versions \union {<<change[p].read + 1, change[p].file>>}
          /\ version' = change[p].read + 1 /\ change' = [change EXCEPT ![p] = NoChange]
      BY <1>7 DEF CommitVersion
    <2>2. NoChange \in ChangeType /\ NoChange.pc = "idle"
      BY DEF NoChange
    <2>3. change' \in [Request -> ChangeType]
          /\ \A q \in Request : change'[q].pc # "idle" => q # p /\ change'[q] = change[q]
      BY <2>1, <2>2
    <2>4. ASSUME ~behind
          PROVE  NotBegun' /\ PassedAreTaken' /\ WriterIsCurrent' /\ NextIsFree'
      <3>1. change[p].read = version /\ version' = version + 1
            /\ \A q \in Request : change'[q].pc # "written"
        BY <2>1, <2>3, <2>4 DEF WriterIsCurrent
      <3>2. Numbers' = Numbers \union {version + 1}
        <4>1. PICK w : w = <<version + 1, change[p].file>>
          OBVIOUS
        <4>2. w[1] = version + 1 /\ versions' = versions \union {w}
          BY <2>1, <3>1, <4>1
        <4>. QED
          BY <4>2 DEF Numbers
      <3>3. NotBegun' /\ WriterIsCurrent'
        BY <3>1 DEF NotBegun, WriterIsCurrent
      <3>4. PassedAreTaken'
        BY <2>1, <2>3, <2>4, <3>1, <3>2 DEF PassedAreTaken
      <3>5. NextIsFree'
        BY <2>1, <2>4, <3>1 DEF NextIsFree
      <3>. QED
        BY <3>3, <3>4, <3>5
    <2>. QED
      BY <2>1, <2>3, <2>4 DEF ChangeType
  <1>8. ASSUME NEW p \in Request, AbortVersion(p) PROVE DocInv'
    BY <1>8 DEF AbortVersion, NoChange, NotBegun, PassedAreTaken, WriterIsCurrent, NextIsFree, Numbers
  <1>. QED
    BY <1>1, <1>2, <1>3, <1>4, <1>5, <1>6, <1>7, <1>8 DEF DocNext

(* The number of a document is at least that of each of its versions, unless a *)
(* version was deleted while a slower request was about to use its number      *)
(* (add_version of document_service).                                         *)
THEOREM NumbersStayFree == DocSpec => []NextIsFree
PROOF
  <1>1. DocInit => DocInv
    BY DEF DocInit, DocInv, DocTypeOK, ChangeType, NoChange, NotBegun, PassedAreTaken,
           WriterIsCurrent, NextIsFree
  <1>2. DocInv => NextIsFree
    BY DEF DocInv, NextIsFree
  <1>. QED
    BY <1>1, <1>2, DocStep, PTL DEF DocSpec

-----------------------------------------------------------------------------
(* Presence.  Until two handlers meet on the count, the count is not below   *)
(* the number of sockets that are counted, and a handler that believes its    *)
(* socket was the last one is right.                                         *)

PresenceTypeOK ==
  /\ live \in {"none", "fresh", "due"} /\ counted \in BOOLEAN /\ conns \in Int
  /\ link \in [Link -> {"closed", "count", "first", "counted", "open", "closing", "delete", "clear"}]

CountedLinks == {s \in Link : link[s] \in {"counted", "open", "closing"}}

CountHolds ==
  /\ Ending => CountedLinks = {}
  /\ CountedLinks # {} => counted
  /\ counted => Cardinality(CountedLinks) <= conns

PresenceInv == PresenceTypeOK /\ (miscounted \/ CountHolds) /\ ConnectedIsOnline

LEMMA CountedAreFinite ==
  /\ PresenceTypeOK => IsFiniteSet(CountedLinks) /\ Cardinality(CountedLinks) \in Nat
  /\ PresenceTypeOK' => IsFiniteSet(CountedLinks') /\ Cardinality(CountedLinks') \in Nat
PROOF
  <1>1. CountedLinks \in SUBSET Link /\ CountedLinks' \in SUBSET Link
    BY DEF CountedLinks
  <1>2. \A S \in SUBSET Link : IsFiniteSet(S) /\ Cardinality(S) \in Nat
    BY LinksAreFinite, FS_Subset, FS_CardinalityType
  <1>. QED
    BY <1>1, <1>2

LEMMA PresenceStep == PresenceInv /\ [PresenceNext]_presenceVars => PresenceInv'
PROOF
  <1>. SUFFICES ASSUME PresenceInv, [PresenceNext]_presenceVars PROVE PresenceInv'
    OBVIOUS
  <1>. USE DEF PresenceInv, PresenceTypeOK
  <1>1. CASE UNCHANGED presenceVars
    BY <1>1 DEF presenceVars, CountHolds, CountedLinks, Ending, ConnectedIsOnline
  (* Steps that count nothing and end nothing. *)
  <1>2. ASSUME NEW s \in Link,
               \/ OpenSocket(s) \/ GoLive(s) \/ Ping(s) \/ CloseSocket(s)
        PROVE  PresenceInv'
    <2>1. PresenceTypeOK' /\ UNCHANGED <<counted, conns, miscounted>>
      BY <1>2 DEF OpenSocket, GoLive, Ping, CloseSocket, Moves, SetLive
    <2>2. CountedLinks' = CountedLinks
      BY <1>2 DEF OpenSocket, GoLive, Ping, CloseSocket, Moves, CountedLinks
    <2>3. Ending' => Ending
      BY <1>2 DEF OpenSocket, GoLive, Ping, CloseSocket, Moves, Ending
    <2>4. ConnectedIsOnline'
      BY <1>2 DEF OpenSocket, GoLive, Ping, CloseSocket, Moves, SetLive, ConnectedIsOnline
    <2>. QED
      BY <2>1, <2>2, <2>3, <2>4 DEF CountHolds
  <1>3. CASE Heartbeat \/ LifeWanes \/ LifeEnds
    BY <1>3 DEF Heartbeat, LifeWanes, LifeEnds, SetLive, CountHolds, CountedLinks, Ending,
                ConnectedIsOnline
  <1>4. ASSUME NEW s \in Link, CountSocket(s) PROVE PresenceInv'
    <2>1. PresenceTypeOK'
      BY <1>4 DEF CountSocket, Moves
    <2>2. ConnectedIsOnline'
      <3>1. UNCHANGED <<live, silent>> /\ (miscounted => miscounted')
        BY <1>4 DEF CountSocket
      <3>2. \A r \in Link : link'[r] = "open" => link[r] = "open"
        BY <1>4 DEF CountSocket, Moves
      <3>. QED
        BY <3>1, <3>2 DEF ConnectedIsOnline
    <2>3. ASSUME ~miscounted' PROVE CountHolds'
      <3>1. ~miscounted /\ ~Ending /\ CountHolds /\ link[s] = "count" /\ UNCHANGED counted
        BY <1>4, <2>3 DEF CountSocket, Moves
      <3>2. ~Ending'
        BY <1>4, <3>1 DEF CountSocket, Moves, Ending
      <3>3. CASE counted
        <4>1. CountedLinks' = CountedLinks \union {s} /\ s \notin CountedLinks /\ conns' = conns + 1
          BY <1>4, <3>3 DEF CountSocket, Moves, CountedLinks
        <4>2. Cardinality(CountedLinks') = Cardinality(CountedLinks) + 1
          BY <4>1, CountedAreFinite, FS_AddElement
        <4>. QED
          BY <3>1, <3>2, <3>3, <4>1, <4>2, CountedAreFinite DEF CountHolds
      <3>4. CASE ~counted
        <4>1. CountedLinks' = CountedLinks
          BY <1>4, <3>4 DEF CountSocket, Moves, CountedLinks
        <4>. QED
          BY <3>1, <3>2, <3>4, <4>1 DEF CountHolds
      <3>. QED
        BY <3>3, <3>4
    <2>. QED
      BY <2>1, <2>2, <2>3
  <1>5. ASSUME NEW s \in Link, CountFirst(s) PROVE PresenceInv'
    <2>1. PresenceTypeOK'
      BY <1>5 DEF CountFirst, Moves
    <2>2. ConnectedIsOnline'
      <3>1. UNCHANGED <<live, silent>> /\ (miscounted => miscounted')
        BY <1>5 DEF CountFirst
      <3>2. \A r \in Link : link'[r] = "open" => link[r] = "open"
        BY <1>5 DEF CountFirst, Moves
      <3>. QED
        BY <3>1, <3>2 DEF ConnectedIsOnline
    <2>3. ASSUME ~miscounted' PROVE CountHolds'
      <3>1. ~Ending /\ CountedLinks = {} /\ counted' = TRUE /\ conns' = 1
        BY <1>5, <2>3 DEF CountFirst, CountHolds
      <3>2. CountedLinks' = {s} /\ ~Ending'
        BY <1>5, <3>1 DEF CountFirst, Moves, CountedLinks, Ending
      <3>3. Cardinality(CountedLinks') = 1
        BY <3>2, FS_Singleton
      <3>. QED
        BY <3>1, <3>2, <3>3 DEF CountHolds
    <2>. QED
      BY <2>1, <2>2, <2>3
  <1>6. ASSUME NEW s \in Link, UncountSocket(s) PROVE PresenceInv'
    <2>1. PICK left : left = IF counted THEN conns - 1 ELSE 0
      OBVIOUS
    <2>2. /\ link[s] = "closing" /\ UNCHANGED <<live, counted, miscounted, silent>>
          /\ link' = [link EXCEPT ![s] = IF left <= 0 THEN "delete" ELSE "closed"]
          /\ conns' = IF counted THEN left ELSE conns
      BY <1>6, <2>1 DEF UncountSocket, Moves
    <2>3. PresenceTypeOK' /\ ConnectedIsOnline'
      BY <2>1, <2>2 DEF ConnectedIsOnline
    <2>4. ASSUME ~miscounted PROVE CountHolds'
      <3>1. s \in CountedLinks /\ CountedLinks' = CountedLinks \ {s}
        BY <2>2 DEF CountedLinks
      <3>2. counted /\ ~Ending /\ Cardinality(CountedLinks) <= conns
        BY <2>4, <3>1 DEF CountHolds
      <3>3. Cardinality(CountedLinks') = Cardinality(CountedLinks) - 1
        BY <3>1, CountedAreFinite, FS_RemoveElement
      <3>4. conns' = conns - 1 /\ left = conns - 1 /\ UNCHANGED counted
        BY <2>1, <2>2, <3>2
      <3>5. Ending' => left <= 0
        BY <2>2, <3>2 DEF Ending
      <3>6. left <= 0 => CountedLinks' = {}
        <4>1. left <= 0 => Cardinality(CountedLinks') = 0
          BY <2>3, <3>2, <3>3, <3>4, CountedAreFinite
        <4>. QED
          BY <2>3, <4>1, CountedAreFinite, FS_EmptySet
      <3>7. Cardinality(CountedLinks') <= conns'
        BY <2>3, <3>2, <3>3, <3>4, CountedAreFinite
      <3>. QED
        BY <3>2, <3>4, <3>5, <3>6, <3>7 DEF CountHolds
    <2>. QED
      BY <2>2, <2>3, <2>4
  <1>7. ASSUME NEW s \in Link, DeleteCount(s) PROVE PresenceInv'
    <2>1. counted' \in BOOLEAN
      BY <1>7, Zenon DEF DeleteCount
    <2>2. PresenceTypeOK' /\ UNCHANGED <<live, miscounted, silent>>
      BY <1>7, <2>1 DEF DeleteCount, Moves
    <2>3. ConnectedIsOnline'
      <3>1. \A r \in Link : link'[r] = "open" => link[r] = "open"
        BY <1>7 DEF DeleteCount, Moves
      <3>. QED
        BY <2>2, <3>1 DEF ConnectedIsOnline
    <2>4. Ending /\ CountedLinks' = CountedLinks /\ counted' = FALSE /\ UNCHANGED miscounted
      BY <1>7 DEF DeleteCount, Moves, Ending, CountedLinks
    <2>. QED
      BY <2>2, <2>4, <2>3 DEF CountHolds
  <1>8. ASSUME NEW s \in Link, ClearLive(s) PROVE PresenceInv'
    <2>1. PresenceTypeOK' /\ UNCHANGED <<counted, conns, miscounted, silent>>
      BY <1>8 DEF ClearLive, Moves
    <2>2. Ending /\ CountedLinks' = CountedLinks
      BY <1>8 DEF ClearLive, Moves, Ending, CountedLinks
    <2>3. ~miscounted => CountHolds' /\ CountedLinks' = {}
      BY <2>1, <2>2 DEF CountHolds
    <2>4. ConnectedIsOnline'
      BY <2>1, <2>3 DEF ConnectedIsOnline, CountedLinks
    <2>. QED
      BY <2>1, <2>3, <2>4
  <1>9. ASSUME NEW s \in Link, KillSocket(s) PROVE PresenceInv'
    <2>1. PresenceTypeOK' /\ ConnectedIsOnline' /\ UNCHANGED <<counted, conns, miscounted>>
      BY <1>9 DEF KillSocket, ConnectedIsOnline
    <2>2. CountedLinks' \subseteq CountedLinks /\ (Ending' => Ending)
      BY <1>9 DEF KillSocket, CountedLinks, Ending
    <2>3. Cardinality(CountedLinks') <= Cardinality(CountedLinks)
      BY <2>2, CountedAreFinite, FS_Subset
    <2>. QED
      BY <2>1, <2>2, <2>3, CountedAreFinite DEF CountHolds
  <1>. QED
    BY <1>1, <1>2, <1>3, <1>4, <1>5, <1>6, <1>7, <1>8, <1>9 DEF PresenceNext

(* A user with an open socket that gives signs of life is not OFFLINE, however *)
(* many sockets open, close or die, unless two handlers met on the count        *)
(* (mark_socket_open, mark_socket_close).                                      *)
THEOREM OpenSocketIsOnline == PresenceSpec => []ConnectedIsOnline
PROOF
  <1>1. PresenceInit => PresenceInv
    <2>. SUFFICES ASSUME PresenceInit PROVE PresenceInv
      OBVIOUS
    <2>1. counted \in BOOLEAN /\ ~counted
      BY Zenon DEF PresenceInit
    <2>2. PresenceTypeOK /\ \A s \in Link : link[s] = "closed"
      BY <2>1 DEF PresenceInit, PresenceTypeOK
    <2>. QED
      BY <2>1, <2>2 DEF PresenceInv, CountHolds, CountedLinks, Ending, ConnectedIsOnline
  <1>2. PresenceInv => ConnectedIsOnline
    BY DEF PresenceInv
  <1>. QED
    BY <1>1, <1>2, PresenceStep, PTL DEF PresenceSpec

-----------------------------------------------------------------------------
(* Keys.  A request holds a key from the moment it picks it.  A key that has *)
(* been handed out is consumed, so that nobody picks it any more; whoever     *)
(* holds it beside another, or after it was handed out, is noted.             *)

FetchType ==
  [pc : {"idle", "load", "pick", "save", "lost", "wrap"}, todo : SUBSET Phone,
   phone : Phone \union {None}, key : Otpk \union {None}, batch : Seq(Otpk),
   took : SUBSET (Phone \X Otpk)]

KeyTypeOK ==
  /\ prekeys \in [Phone -> Seq(Otpk)]
  /\ handed \in [Phone \X Otpk -> Nat]
  /\ identity \subseteq Phone
  /\ fetch \in [Request -> FetchType]
  /\ \A p \in Request : fetch[p].pc = "save" => fetch[p].phone \in Phone /\ fetch[p].key \in Otpk

Holds(f, k) == k \in f.took \/ (f.pc = "save" /\ k = <<f.phone, f.key>>)

HandedAreConsumed == \A k \in Phone \X Otpk : handed[k] >= 1 => k \in consumed

HoldersNoted ==
  \A p \in Request, k \in Phone \X Otpk : Holds(fetch[p], k) =>
    /\ handed[k] >= 1 => k \in shared
    /\ \A q \in Request \ {p} : Holds(fetch[q], k) => k \in shared

KeyInv == KeyTypeOK /\ HandedAreConsumed /\ HoldersNoted /\ PrekeyOnce

(* The key that a bundle takes is one that the request sees as available. *)
LEMMA OldestIsAvailable ==
  ASSUME KeyTypeOK, NEW d \in Phone, Oldest(d) # None
  PROVE  Oldest(d) \in Available(d) /\ Oldest(d) \in Otpk
PROOF
  <1>1. PICK left : left = {i \in DOMAIN prekeys[d] : prekeys[d][i] \in Available(d)}
    OBVIOUS
  <1>2. prekeys[d] \in Seq(Otpk)
    BY DEF KeyTypeOK
  <1>3. left \in SUBSET Nat /\ left # {}
    BY <1>1, <1>2 DEF Oldest
  <1>4. \E m \in left : \A i \in left : m <= i
    BY <1>3, LeastNumber
  <1>5. PICK i : i = Min(left)
    OBVIOUS
  <1>6. i \in left
    BY <1>4, <1>5 DEF Min
  <1>7. Oldest(d) = prekeys[d][i]
    BY <1>1, <1>3, <1>5 DEF Oldest
  <1>8. i \in DOMAIN prekeys[d] /\ prekeys[d][i] \in Available(d)
    BY <1>1, <1>6
  <1>9. prekeys[d][i] \in Otpk
    BY <1>2, <1>8
  <1>. QED
    BY <1>7, <1>8, <1>9

(* A step that only moves one request to an entry that holds no more. *)
LEMMA HoldsNoMore ==
  ASSUME KeyInv, NEW p \in Request, NEW f \in FetchType, f.pc = "save" => FALSE,
         \A k \in Phone \X Otpk : Holds(f, k) => Holds(fetch[p], k),
         fetch' = [fetch EXCEPT ![p] = f], prekeys' \in [Phone -> Seq(Otpk)],
         UNCHANGED <<identity, consumed, handed, shared>>
  PROVE  KeyInv'
PROOF
  <1>1. fetch' \in [Request -> FetchType] /\ fetch'[p] = f
        /\ \A q \in Request \ {p} : fetch'[q] = fetch[q]
    BY DEF KeyInv, KeyTypeOK
  <1>2. KeyTypeOK'
    BY <1>1 DEF KeyInv, KeyTypeOK
  <1>3. \A q \in Request, k \in Phone \X Otpk : Holds(fetch'[q], k) => Holds(fetch[q], k)
    BY <1>1
  <1>4. HoldersNoted'
    BY <1>3 DEF KeyInv, HoldersNoted
  <1>. QED
    BY <1>2, <1>4 DEF KeyInv, HandedAreConsumed, PrekeyOnce

LEMMA PickPrekeyStep ==
  ASSUME KeyInv, NEW p \in Request, NEW d \in Phone, PickPrekey(p, d)
  PROVE  KeyInv'
PROOF
  <1>1. PICK k : k = Oldest(d)
    OBVIOUS
  <1>2. PICK rest : rest = [fetch[p] EXCEPT !.todo = @ \ {d}]
    OBVIOUS
  <1>3. PICK f : f = [fetch[p] EXCEPT !.todo = @ \ {d}, !.pc = "save", !.phone = d, !.key = k]
    OBVIOUS
  <1>4. fetch[p].pc = "pick" /\ fetch[p] \in FetchType
        /\ UNCHANGED <<identity, signed, prekeys, consumed, groupKey, handed>>
    BY DEF PickPrekey, KeyInv, KeyTypeOK
  <1>5. CASE d \notin signed \/ k = None
    <2>1. fetch' = [fetch EXCEPT ![p] = rest] /\ shared' = shared
      BY <1>1, <1>2, <1>5 DEF PickPrekey
    <2>2. rest \in FetchType /\ rest.pc = "pick" /\ rest.took = fetch[p].took
      BY <1>2, <1>4 DEF FetchType
    <2>3. \A j \in Phone \X Otpk : Holds(rest, j) => Holds(fetch[p], j)
      BY <2>2 DEF Holds
    <2>4. prekeys' \in [Phone -> Seq(Otpk)]
      BY <1>4 DEF KeyInv, KeyTypeOK
    <2>. QED
      BY <1>4, <2>1, <2>2, <2>3, <2>4, HoldsNoMore
  <1>6. CASE d \in signed /\ k # None
    <2>1. k \in Available(d) /\ k \in Otpk
      BY <1>1, <1>6, OldestIsAvailable DEF KeyInv
    <2>2. PICK seen : seen = <<d, k>>
      OBVIOUS
    <2>3. seen \in Phone \X Otpk /\ seen \notin consumed
      BY <2>1, <2>2 DEF Available
    <2>4. fetch' = [fetch EXCEPT ![p] = f]
      BY <1>1, <1>3, <1>6 DEF PickPrekey
    <2>5. shared' = IF \E q \in Request \ {p} : seen \in Picked(q) THEN shared \union {seen} ELSE shared
      BY <1>1, <1>6, <2>2 DEF PickPrekey
    <2>6. f \in FetchType /\ f.pc = "save" /\ f.took = fetch[p].took /\ f.phone = d /\ f.key = k
      BY <1>3, <1>4, <2>1 DEF FetchType
    <2>7. fetch'[p] = f /\ \A q \in Request \ {p} : fetch'[q] = fetch[q]
      BY <2>4 DEF KeyInv, KeyTypeOK
    <2>8. \A j : Holds(f, j) => j = seen \/ Holds(fetch[p], j)
      BY <2>2, <2>6 DEF Holds
    <2>9. handed[seen] = 0
      BY <2>3 DEF KeyInv, KeyTypeOK, HandedAreConsumed
    <2>10. \A q \in Request \ {p} : Holds(fetch[q], seen) => seen \in shared'
      BY <2>5 DEF Holds, Picked
    <2>11. shared \subseteq shared'
      BY <2>5
    <2>12. KeyTypeOK'
      <3>1. fetch' \in [Request -> FetchType]
        BY <2>4, <2>6 DEF KeyInv, KeyTypeOK
      <3>. QED
        BY <1>4, <2>1, <2>6, <2>7, <3>1 DEF KeyInv, KeyTypeOK
    <2>13. HoldersNoted'
      <3>. SUFFICES ASSUME NEW q \in Request, NEW j \in Phone \X Otpk, Holds(fetch'[q], j)
                    PROVE  /\ handed[j] >= 1 => j \in shared'
                           /\ \A r \in Request \ {q} : Holds(fetch'[r], j) => j \in shared'
        BY <1>4 DEF HoldersNoted
      <3>1. \A r \in Request : Holds(fetch'[r], j) => Holds(fetch[r], j) \/ (r = p /\ j = seen)
        BY <2>7, <2>8
      <3>2. Holds(fetch[q], j) /\ handed[j] >= 1 => j \in shared'
        BY <2>11 DEF KeyInv, HoldersNoted
      <3>3. handed[j] >= 1 => j \in shared'
        BY <2>9, <3>1, <3>2
      <3>4. ASSUME NEW r \in Request \ {q}, Holds(fetch'[r], j) PROVE j \in shared'
        BY <2>10, <2>11, <3>1, <3>4 DEF KeyInv, HoldersNoted
      <3>. QED
        BY <3>3, <3>4
    <2>14. HandedAreConsumed' /\ PrekeyOnce'
      BY <1>4, <2>11 DEF KeyInv, HandedAreConsumed, PrekeyOnce
    <2>. QED
      BY <2>12, <2>13, <2>14 DEF KeyInv
  <1>. QED
    BY <1>5, <1>6

LEMMA KeyStep == KeyInv /\ [KeyNext]_keyVars => KeyInv'
PROOF
  <1>. SUFFICES ASSUME KeyInv, [KeyNext]_keyVars PROVE KeyInv'
    OBVIOUS
  <1>0. NoFetch \in FetchType /\ NoFetch.pc = "idle" /\ NoFetch.took = {}
    BY DEF NoFetch, FetchType
  <1>1. CASE UNCHANGED keyVars
    BY <1>1 DEF keyVars, KeyInv, KeyTypeOK, HandedAreConsumed, HoldersNoted, PrekeyOnce
  <1>2. ASSUME NEW d \in Phone, UpsertIdentity(d) \/ UpsertSignedPrekey(d) PROVE KeyInv'
    BY <1>2 DEF UpsertIdentity, UpsertSignedPrekey, KeyInv, KeyTypeOK, HandedAreConsumed,
                HoldersNoted, PrekeyOnce
  <1>3. ASSUME NEW d \in Phone, PurgeKeys(d) PROVE KeyInv'
    <2>1. PICK mine : mine = {d} \X Otpk
      OBVIOUS
    <2>2. PICK gone : gone = [NoFetch EXCEPT !.pc = "lost"]
      OBVIOUS
    <2>3. gone \in FetchType /\ gone.pc = "lost" /\ \A k : ~Holds(gone, k)
      <3>1. gone \in FetchType /\ gone.pc = "lost" /\ gone.took = {}
        BY <1>0, <2>2 DEF FetchType
      <3>. QED
        BY <3>1 DEF Holds
    <2>4. /\ \A q \in Request : fetch[q].took \intersect mine = {}
          /\ identity' = identity \ {d} /\ prekeys' = [prekeys EXCEPT ![d] = <<>>]
          /\ consumed' = consumed \ mine /\ shared' = shared \ mine
      BY <1>3, <2>1 DEF PurgeKeys
    <2>5. handed' = [k \in Phone \X Otpk |-> IF k \in mine THEN 0 ELSE handed[k]]
      BY <1>3, <2>1 DEF PurgeKeys
    <2>6. fetch' = [q \in Request |-> IF fetch[q].pc = "save" /\ fetch[q].phone = d
                                     THEN gone ELSE fetch[q]]
      BY <1>3, <2>2 DEF PurgeKeys
    <2>7. KeyTypeOK'
      <3>1. handed' \in [Phone \X Otpk -> Nat] /\ prekeys' \in [Phone -> Seq(Otpk)]
            /\ identity' \subseteq Phone
        BY <2>4, <2>5 DEF KeyInv, KeyTypeOK
      <3>2. fetch' \in [Request -> FetchType]
            /\ \A p \in Request : fetch'[p].pc = "save" =>
                 fetch'[p].phone \in Phone /\ fetch'[p].key \in Otpk
        BY <2>3, <2>6 DEF KeyInv, KeyTypeOK
      <3>. QED
        BY <3>1, <3>2 DEF KeyTypeOK
    <2>8. \A q \in Request, k \in Phone \X Otpk :
            Holds(fetch'[q], k) => Holds(fetch[q], k) /\ k \notin mine
      <3>. SUFFICES ASSUME NEW q \in Request, NEW k \in Phone \X Otpk, Holds(fetch'[q], k)
                    PROVE  Holds(fetch[q], k) /\ k \notin mine
        OBVIOUS
      <3>1. fetch'[q] = fetch[q] /\ ~(fetch[q].pc = "save" /\ fetch[q].phone = d)
        BY <2>3, <2>6
      <3>. QED
        BY <2>1, <2>4, <3>1 DEF Holds
    <2>9. HandedAreConsumed' /\ PrekeyOnce'
      BY <2>4, <2>5 DEF KeyInv, HandedAreConsumed, PrekeyOnce
    <2>10. HoldersNoted'
      BY <2>4, <2>5, <2>8 DEF KeyInv, HoldersNoted
    <2>. QED
      BY <2>7, <2>9, <2>10 DEF KeyInv
  <1>4. ASSUME NEW p \in Request, NEW d \in Phone, NEW ids \in SUBSET Otpk, BeginLoad(p, d, ids)
        PROVE  KeyInv'
    <2>1. PICK order \in SetToSeqs(ids \ ToSet(prekeys[d])) :
            StartsFetch(p, [NoFetch EXCEPT !.pc = "load", !.phone = d, !.batch = order])
      BY <1>4 DEF BeginLoad
    <2>2. PICK f : f = [NoFetch EXCEPT !.pc = "load", !.phone = d, !.batch = order]
      OBVIOUS
    <2>3. order \in Seq(Otpk)
      <3>1. PICK S : S = ids \ ToSet(prekeys[d])
        OBVIOUS
      <3>2. S \in SUBSET Otpk /\ Cardinality(S) \in Nat
        BY <3>1, OtpksAreFinite, FS_Subset, FS_CardinalityType
      <3>3. order \in [1 .. Cardinality(S) -> S]
        BY <3>1 DEF SetToSeqs
      <3>. QED
        BY <3>2, <3>3
    <2>4. f \in FetchType /\ f.pc = "load" /\ \A k : ~Holds(f, k)
      <3>1. f \in FetchType /\ f.pc = "load" /\ f.took = {}
        BY <1>0, <2>2, <2>3 DEF FetchType
      <3>. QED
        BY <3>1 DEF Holds
    <2>5. fetch' = [fetch EXCEPT ![p] = f] /\ UNCHANGED <<identity, prekeys, consumed, handed, shared>>
      BY <2>1, <2>2 DEF StartsFetch
    <2>6. prekeys' \in [Phone -> Seq(Otpk)]
      BY <2>5 DEF KeyInv, KeyTypeOK
    <2>. QED
      BY <2>4, <2>5, <2>6, HoldsNoMore
  <1>5. ASSUME NEW p \in Request, NEW devices \in SUBSET Phone, BeginBundles(p, devices)
        PROVE  KeyInv'
    <2>1. PICK f : f = [NoFetch EXCEPT !.pc = "pick", !.todo = devices]
      OBVIOUS
    <2>2. f \in FetchType /\ f.pc = "pick" /\ \A k : ~Holds(f, k)
      <3>1. f \in FetchType /\ f.pc = "pick" /\ f.took = {}
        BY <1>0, <2>1 DEF FetchType
      <3>. QED
        BY <3>1 DEF Holds
    <2>3. fetch' = [fetch EXCEPT ![p] = f] /\ UNCHANGED <<identity, prekeys, consumed, handed, shared>>
      BY <1>5, <2>1 DEF BeginBundles, StartsFetch
    <2>4. prekeys' \in [Phone -> Seq(Otpk)]
      BY <2>3 DEF KeyInv, KeyTypeOK
    <2>. QED
      BY <2>2, <2>3, <2>4, HoldsNoMore
  <1>6. ASSUME NEW p \in Request, NEW d \in Phone, PickPrekey(p, d) PROVE KeyInv'
    BY <1>6, PickPrekeyStep
  <1>7. ASSUME NEW p \in Request, CommitLoad(p) PROVE KeyInv'
    <2>1. /\ fetch[p].pc = "load" /\ fetch' = [fetch EXCEPT ![p] = NoFetch]
          /\ prekeys' = [prekeys EXCEPT ![fetch[p].phone] = @ \o fetch[p].batch]
          /\ UNCHANGED <<identity, consumed, handed, shared>>
      BY <1>7 DEF CommitLoad
    <2>2. prekeys' \in [Phone -> Seq(Otpk)]
      <3>1. PICK d, batch : d = fetch[p].phone /\ batch = fetch[p].batch
        OBVIOUS
      <3>2. batch \in Seq(Otpk)
        BY <3>1 DEF KeyInv, KeyTypeOK, FetchType
      <3>3. prekeys' = [prekeys EXCEPT ![d] = prekeys[d] \o batch]
        BY <2>1, <3>1
      <3>4. d \in Phone => prekeys[d] \o batch \in Seq(Otpk)
        BY <3>2 DEF KeyInv, KeyTypeOK
      <3>. QED
        BY <3>3, <3>4 DEF KeyInv, KeyTypeOK
    <2>3. \A k \in Phone \X Otpk : Holds(NoFetch, k) => Holds(fetch[p], k)
      BY <1>0 DEF Holds
    <2>. QED
      BY <1>0, <2>1, <2>2, <2>3, HoldsNoMore
  <1>8. ASSUME NEW p \in Request, ConsumePrekey(p) PROVE KeyInv'
    <2>1. PICK k : k = <<fetch[p].phone, fetch[p].key>>
      OBVIOUS
    <2>2. PICK f : f = [fetch[p] EXCEPT !.pc = "pick", !.took = @ \union {k},
                                        !.phone = None, !.key = None]
      OBVIOUS
    <2>3. fetch[p].pc = "save" /\ UNCHANGED <<identity, prekeys, consumed, handed, shared>>
          /\ fetch' = [fetch EXCEPT ![p] = f]
      BY <1>8, <2>1, <2>2 DEF ConsumePrekey
    <2>4. fetch[p] \in FetchType /\ k \in Phone \X Otpk
      BY <2>1, <2>3 DEF KeyInv, KeyTypeOK
    <2>5. f \in FetchType /\ f.pc = "pick" /\ f.took = fetch[p].took \union {k}
      BY <2>2, <2>4 DEF FetchType
    <2>6. \A j \in Phone \X Otpk : Holds(f, j) => Holds(fetch[p], j)
      BY <2>1, <2>3, <2>5 DEF Holds
    <2>7. prekeys' \in [Phone -> Seq(Otpk)]
      BY <2>3 DEF KeyInv, KeyTypeOK
    <2>. QED
      BY <2>3, <2>5, <2>6, <2>7, HoldsNoMore
  <1>9. ASSUME NEW p \in Request, CommitBundles(p) PROVE KeyInv'
    <2>1. PICK took : took = fetch[p].took
      OBVIOUS
    <2>2. /\ consumed' = consumed \union took
          /\ handed' = [k \in Phone \X Otpk |-> handed[k] + IF k \in took THEN 1 ELSE 0]
          /\ fetch' = [fetch EXCEPT ![p] = NoFetch]
          /\ UNCHANGED <<identity, prekeys, shared>>
      BY <1>9, <2>1 DEF CommitBundles
    <2>3. \A k \in took : Holds(fetch[p], k)
      BY <2>1 DEF Holds
    <2>4. \A q \in Request : \A k : Holds(fetch'[q], k) => q # p /\ fetch'[q] = fetch[q]
      BY <1>0, <2>2 DEF KeyInv, KeyTypeOK, Holds
    <2>5. KeyTypeOK'
      <3>1. handed' \in [Phone \X Otpk -> Nat]
        BY <2>2 DEF KeyInv, KeyTypeOK
      <3>2. fetch' \in [Request -> FetchType]
        BY <1>0, <2>2 DEF KeyInv, KeyTypeOK
      <3>. QED
        BY <1>0, <2>2, <3>1, <3>2 DEF KeyInv, KeyTypeOK
    <2>6. HandedAreConsumed'
      BY <2>2 DEF KeyInv, KeyTypeOK, HandedAreConsumed
    <2>7. PrekeyOnce'
      BY <2>2, <2>3 DEF KeyInv, KeyTypeOK, HoldersNoted, PrekeyOnce
    <2>8. HoldersNoted'
      <3>. SUFFICES ASSUME NEW q \in Request, NEW k \in Phone \X Otpk, Holds(fetch'[q], k)
                    PROVE  /\ handed'[k] >= 1 => k \in shared
                           /\ \A r \in Request \ {q} : Holds(fetch'[r], k) => k \in shared
        BY <2>2 DEF HoldersNoted
      <3>1. q # p /\ Holds(fetch[q], k)
        BY <2>4
      <3>2. handed[k] >= 1 \/ k \in took \/ ~(handed'[k] >= 1)
        BY <2>2 DEF KeyInv, KeyTypeOK
      <3>3. handed'[k] >= 1 => k \in shared
        BY <2>3, <3>1, <3>2 DEF KeyInv, HoldersNoted
      <3>4. \A r \in Request \ {q} : Holds(fetch'[r], k) => k \in shared
        BY <2>4, <3>1 DEF KeyInv, HoldersNoted
      <3>. QED
        BY <3>3, <3>4
    <2>. QED
      BY <2>5, <2>6, <2>7, <2>8 DEF KeyInv
  <1>10. ASSUME NEW p \in Request, BeginGroupKey(p) PROVE KeyInv'
    <2>1. PICK f : f = [NoFetch EXCEPT !.pc = "wrap"]
      OBVIOUS
    <2>2. f \in FetchType /\ f.pc = "wrap" /\ \A k : ~Holds(f, k)
      <3>1. f \in FetchType /\ f.pc = "wrap" /\ f.took = {}
        BY <1>0, <2>1 DEF FetchType
      <3>. QED
        BY <3>1 DEF Holds
    <2>3. fetch' = [fetch EXCEPT ![p] = f] /\ UNCHANGED <<identity, prekeys, consumed, handed, shared>>
      BY <1>10, <2>1 DEF BeginGroupKey, StartsFetch
    <2>4. prekeys' \in [Phone -> Seq(Otpk)]
      BY <2>3 DEF KeyInv, KeyTypeOK
    <2>. QED
      BY <2>2, <2>3, <2>4, HoldsNoMore
  <1>11. ASSUME NEW p \in Request, CommitGroupKey(p) \/ AbortFetch(p) PROVE KeyInv'
    <2>1. fetch' = [fetch EXCEPT ![p] = NoFetch]
          /\ UNCHANGED <<identity, prekeys, consumed, handed, shared>>
      BY <1>11 DEF CommitGroupKey, AbortFetch
    <2>2. prekeys' \in [Phone -> Seq(Otpk)]
      BY <2>1 DEF KeyInv, KeyTypeOK
    <2>3. \A k \in Phone \X Otpk : Holds(NoFetch, k) => Holds(fetch[p], k)
      BY <1>0 DEF Holds
    <2>. QED
      BY <1>0, <2>1, <2>2, <2>3, HoldsNoMore
  <1>. QED
    BY <1>1, <1>2, <1>3, <1>4, <1>5, <1>6, <1>7, <1>8, <1>9, <1>10, <1>11 DEF KeyNext

(* A one-time key of a device is handed to one contact, unless two requests had *)
(* picked it at once (load_otpks, get_bundles, kill_device).                    *)
THEOREM PrekeysAreOneTime == KeySpec => []PrekeyOnce
PROOF
  <1>1. KeyInit => KeyInv
    <2>. SUFFICES ASSUME KeyInit PROVE KeyInv
      OBVIOUS
    <2>1. NoFetch \in FetchType /\ NoFetch.pc = "idle" /\ \A k : ~Holds(NoFetch, k)
      BY DEF NoFetch, FetchType, Holds
    <2>2. \A p \in Request : fetch[p] = NoFetch
      BY DEF KeyInit
    <2>3. KeyTypeOK
      BY <2>1 DEF KeyInit, KeyTypeOK
    <2>4. HandedAreConsumed /\ PrekeyOnce
      BY DEF KeyInit, HandedAreConsumed, PrekeyOnce
    <2>. QED
      BY <2>1, <2>2, <2>3, <2>4 DEF KeyInv, HoldersNoted
  <1>2. KeyInv => PrekeyOnce
    BY DEF KeyInv
  <1>. QED
    BY <1>1, <1>2, KeyStep, PTL DEF KeySpec

-----------------------------------------------------------------------------
(* Device links.  The tokens of a session are out from the moment they are in *)
(* the cache until they are handed over or forgotten, and then if they were    *)
(* handed over; a session whose tokens are out stands, but for the exceptions.  *)
(* A challenge that one confirmation at a time has read has sent out no tokens  *)
(* but those of this confirmation.                                            *)

AskType ==
  [pc : {"idle", "login", "store", "commit", "answer"}, qr : Qr \union {None},
   grant : Grant \union {None}]

LinkTypeOK ==
  /\ entry \in [Qr -> [status : {"none", "pending", "approved", "gone"},
                       grant : Grant \union {None}]]
  /\ grant \in [Grant -> [qr : Qr \union {None},
                          state : {"none", "open", "live", "ended", "void"}]]
  /\ ask \in [Request -> AskType]
  /\ given \in [Grant -> Nat]

Opens(a, g) == a.pc \in {"store", "commit"} /\ a.grant = g

(* In the cache, or read by a poll. *)
InSight(g) ==
  \/ \E p \in Request : ask[p].pc = "answer" /\ ask[p].grant = g
  \/ \E q \in Qr : entry[q].status = "approved" /\ entry[q].grant = g

Out(g) == given[g] > 0 \/ InSight(g)

EntriesAgree ==
  \A q \in Qr : entry[q].status = "approved" =>
    entry[q].grant \in Grant /\ grant[entry[q].grant].qr = q

AskAgrees(a) ==
  /\ a.pc = "login" => a.qr \in Qr
  /\ a.pc = "answer" => a.grant \in Grant /\ a.qr \in Qr /\ grant[a.grant].qr = a.qr
  /\ a.pc \in {"store", "commit"} =>
       /\ a.grant \in Grant /\ a.qr \in Qr
       /\ grant[a.grant].qr = a.qr /\ grant[a.grant].state = "open"

Opened ==
  \A g \in Grant, p \in Request : Opens(ask[p], g) =>
    /\ \A r \in Request : Opens(ask[r], g) => r = p
    /\ ask[p].pc = "store" => ~Out(g)

OutStand ==
  \A g \in Grant : Out(g) =>
    /\ grant[g].qr \in Qr /\ entry[grant[g].qr].status \in {"approved", "gone"}
    /\ grant[g].state # "none"
    /\ grant[g].state \in {"open", "live"} \/ g \in failed \/ grant[g].qr \in contested

OneConfirmation ==
  \A q \in Qr \ contested : \A p \in Confirming(q) :
    /\ \A r \in Confirming(q) : r = p
    /\ \A g \in Grant : grant[g].qr = q /\ ~Opens(ask[p], g) => ~Out(g)

OneAnswer ==
  \A g \in Grant \ repolled :
    /\ \A p, r \in Polling(g) : p = r
    /\ given[g] > 0 => given[g] = 1 /\ ~InSight(g)

LinkInv ==
  /\ LinkTypeOK /\ EntriesAgree /\ (\A p \in Request : AskAgrees(ask[p]))
  /\ Opened /\ OutStand /\ OneConfirmation /\ OneAnswer

(* A step that sends out nothing new, begins no confirmation and touches no   *)
(* session: a request may stop, and an entry may go.                         *)
LEMMA NothingNewOut ==
  ASSUME LinkInv, LinkTypeOK', UNCHANGED <<grant, given, contested, repolled, failed>>,
         \A p \in Request : ask'[p].pc = "idle" \/ ask'[p] = ask[p],
         \A q \in Qr : entry'[q].status = "approved" => entry'[q] = entry[q],
         \A q \in Qr : entry[q].status \in {"approved", "gone"} => entry'[q].status \in {"approved", "gone"}
  PROVE  LinkInv'
PROOF
  <1>1. \A g \in Grant : (InSight(g)' => InSight(g)) /\ (Out(g)' => Out(g))
    BY DEF InSight, Out
  <1>2. EntriesAgree' /\ \A p \in Request : AskAgrees(ask[p])'
    BY DEF LinkInv, EntriesAgree, AskAgrees
  <1>3. \A p \in Request, g \in Grant : Opens(ask'[p], g) => ask'[p] = ask[p]
    BY DEF Opens
  <1>4. Opened'
    BY <1>1, <1>3 DEF LinkInv, Opened
  <1>5. OutStand'
    BY <1>1 DEF LinkInv, LinkTypeOK, OutStand
  <1>6. OneConfirmation'
    <2>1. \A q \in Qr : \A p \in Confirming(q)' : p \in Confirming(q) /\ ask'[p] = ask[p]
      BY DEF Confirming
    <2>. QED
      BY <1>1, <2>1 DEF LinkInv, OneConfirmation
  <1>7. OneAnswer'
    <2>1. \A g \in Grant : Polling(g)' \subseteq Polling(g)
      BY DEF Polling
    <2>. QED
      BY <1>1, <2>1 DEF LinkInv, OneAnswer
  <1>. QED
    BY <1>2, <1>4, <1>5, <1>6, <1>7 DEF LinkInv

LEMMA BeginPollStep ==
  ASSUME LinkInv, NEW p \in Request, NEW q \in Qr, BeginPoll(p, q)
  PROVE  LinkInv'
PROOF
  <1>1. PICK g : g = entry[q].grant
    OBVIOUS
  <1>2. PICK a : a = [pc |-> "answer", qr |-> q, grant |-> g]
    OBVIOUS
  <1>3. /\ entry[q].status = "approved" /\ ask[p].pc = "idle" /\ ask' = [ask EXCEPT ![p] = a]
        /\ repolled' = IF Polling(g) # {} THEN repolled \union {g} ELSE repolled
        /\ UNCHANGED <<entry, grant, given, contested, failed>>
    BY <1>1, <1>2 DEF BeginPoll, StartsAsk
  <1>4. g \in Grant /\ grant[g].qr = q /\ InSight(g)
    BY <1>1, <1>3 DEF LinkInv, EntriesAgree, InSight
  <1>5. a \in AskType /\ a.pc = "answer" /\ a.qr = q /\ a.grant = g
    BY <1>2, <1>4 DEF AskType
  <1>6. LinkTypeOK'
    BY <1>3, <1>5 DEF LinkInv, LinkTypeOK
  <1>7. ask'[p] = a /\ \A r \in Request \ {p} : ask'[r] = ask[r]
    BY <1>3 DEF LinkInv, LinkTypeOK
  <1>8. \A h \in Grant : (InSight(h)' => InSight(h)) /\ (Out(h)' => Out(h))
    BY <1>3, <1>4, <1>5, <1>7 DEF InSight, Out
  <1>9. EntriesAgree' /\ \A r \in Request : AskAgrees(ask[r])'
    BY <1>3, <1>4, <1>5, <1>7 DEF LinkInv, EntriesAgree, AskAgrees
  <1>10. \A r \in Request, h \in Grant : Opens(ask'[r], h) => ask'[r] = ask[r]
    BY <1>5, <1>7 DEF Opens
  <1>11. Opened'
    BY <1>8, <1>10 DEF LinkInv, Opened
  <1>12. OutStand'
    BY <1>3, <1>8 DEF LinkInv, OutStand
  <1>13. OneConfirmation'
    <2>1. \A s \in Qr : \A r \in Confirming(s)' : r \in Confirming(s) /\ ask'[r] = ask[r]
      BY <1>5, <1>7 DEF Confirming
    <2>. QED
      BY <1>3, <1>8, <2>1 DEF LinkInv, OneConfirmation
  <1>14. OneAnswer'
    <2>1. repolled \subseteq repolled' /\ (Polling(g) # {} => g \in repolled')
      BY <1>3
    <2>2. \A h \in Grant : Polling(h)' \subseteq Polling(h) \union {p}
      BY <1>7 DEF Polling
    <2>3. \A h \in Grant \ {g} : Polling(h)' \subseteq Polling(h)
      BY <1>5, <1>7 DEF Polling
    <2>. QED
      BY <1>3, <1>8, <2>1, <2>2, <2>3 DEF LinkInv, OneAnswer
  <1>. QED
    BY <1>6, <1>9, <1>11, <1>12, <1>13, <1>14 DEF LinkInv

LEMMA AnswerPollStep ==
  ASSUME LinkInv, NEW p \in Request, NEW cut \in BOOLEAN, AnswerPoll(p, cut)
  PROVE  LinkInv'
PROOF
  <1>1. PICK g, q : g = ask[p].grant /\ q = ask[p].qr
    OBVIOUS
  <1>2. PICK gone : gone = [status |-> "gone", grant |-> None]
    OBVIOUS
  <1>3. /\ ask[p].pc = "answer" /\ entry' = [entry EXCEPT ![q] = gone]
        /\ ask' = [ask EXCEPT ![p] = NoAsk]
        /\ UNCHANGED <<grant, contested, repolled, failed>>
    BY <1>1, <1>2 DEF AnswerPoll
  <1>4. given' = given \/ given' = [given EXCEPT ![g] = given[g] + 1]
    BY <1>1 DEF AnswerPoll
  <1>5. g \in Grant /\ q \in Qr /\ grant[g].qr = q /\ InSight(g)
    BY <1>1, <1>3 DEF LinkInv, AskAgrees, InSight
  <1>6. NoAsk \in AskType /\ NoAsk.pc = "idle" /\ gone.status = "gone"
        /\ gone \in [status : {"none", "pending", "approved", "gone"}, grant : Grant \union {None}]
    BY <1>2 DEF NoAsk, AskType
  <1>7. LinkTypeOK'
    BY <1>3, <1>4, <1>5, <1>6 DEF LinkInv, LinkTypeOK
  <1>8. /\ ask'[p] = NoAsk /\ \A r \in Request \ {p} : ask'[r] = ask[r]
        /\ entry'[q] = gone /\ \A s \in Qr \ {q} : entry'[s] = entry[s]
        /\ \A h \in Grant \ {g} : given'[h] = given[h]
        /\ given'[g] \in {given[g], given[g] + 1}
    BY <1>3, <1>4, <1>5 DEF LinkInv, LinkTypeOK
  <1>9. \A h \in Grant : (InSight(h)' => InSight(h)) /\ (Out(h)' => Out(h))
    <2>1. \A h \in Grant : InSight(h)' => InSight(h)
      BY <1>6, <1>8 DEF InSight
    <2>. QED
      BY <1>5, <1>8, <2>1 DEF Out
  <1>10. EntriesAgree' /\ \A r \in Request : AskAgrees(ask[r])'
    BY <1>3, <1>6, <1>8 DEF LinkInv, EntriesAgree, AskAgrees
  <1>11. \A r \in Request, h \in Grant : Opens(ask'[r], h) => ask'[r] = ask[r]
    BY <1>6, <1>8 DEF Opens
  <1>12. Opened'
    BY <1>9, <1>11 DEF LinkInv, Opened
  <1>13. OutStand'
    BY <1>3, <1>6, <1>8, <1>9 DEF LinkInv, OutStand
  <1>14. OneConfirmation'
    <2>1. \A s \in Qr : \A r \in Confirming(s)' : r \in Confirming(s) /\ ask'[r] = ask[r]
      BY <1>6, <1>8 DEF Confirming
    <2>. QED
      BY <1>3, <1>9, <2>1 DEF LinkInv, OneConfirmation
  <1>15. OneAnswer'
    <2>1. \A h \in Grant : Polling(h)' \subseteq Polling(h) \ {p}
      BY <1>6, <1>8 DEF Polling
    <2>2. ASSUME NEW h \in Grant \ repolled, given'[h] > 0 PROVE given'[h] = 1 /\ ~InSight(h)'
      <3>1. CASE h # g
        BY <1>8, <1>9, <2>2, <3>1 DEF LinkInv, OneAnswer
      <3>2. CASE h = g
        <4>1. given[g] = 0
          BY <1>5, <2>2, <3>2 DEF LinkInv, LinkTypeOK, OneAnswer
        <4>2. Polling(g) \subseteq {p}
          BY <1>1, <1>3, <2>2, <3>2 DEF LinkInv, OneAnswer, Polling
        <4>3. Polling(g)' = {}
          BY <1>5, <2>1, <4>2
        <4>4. \A s \in Qr : entry'[s].status = "approved" => entry'[s].grant # g
          BY <1>5, <1>6, <1>8 DEF LinkInv, EntriesAgree
        <4>5. ~InSight(g)'
          BY <4>3, <4>4 DEF InSight, Polling
        <4>. QED
          BY <1>8, <2>2, <3>2, <4>1, <4>5
      <3>. QED
        BY <3>1, <3>2
    <2>. QED
      BY <1>3, <2>1, <2>2 DEF LinkInv, OneAnswer
  <1>. QED
    BY <1>7, <1>10, <1>12, <1>13, <1>14, <1>15 DEF LinkInv

LEMMA BeginConfirmStep ==
  ASSUME LinkInv, NEW p \in Request, NEW q \in Qr, BeginConfirm(p, q)
  PROVE  LinkInv'
PROOF
  <1>1. PICK a : a = [pc |-> "login", qr |-> q, grant |-> None]
    OBVIOUS
  <1>2. /\ entry[q].status = "pending" /\ ask[p].pc = "idle" /\ ask' = [ask EXCEPT ![p] = a]
        /\ contested' = IF Confirming(q) # {} THEN contested \union {q} ELSE contested
        /\ UNCHANGED <<entry, grant, given, repolled, failed>>
    BY <1>1 DEF BeginConfirm, StartsAsk
  <1>3. a \in AskType /\ a.pc = "login" /\ a.qr = q
    BY <1>1 DEF AskType
  <1>4. LinkTypeOK'
    BY <1>2, <1>3 DEF LinkInv, LinkTypeOK
  <1>5. ask'[p] = a /\ \A r \in Request \ {p} : ask'[r] = ask[r]
    BY <1>2 DEF LinkInv, LinkTypeOK
  <1>6. \A h \in Grant : (InSight(h)' => InSight(h)) /\ (Out(h)' => Out(h))
    BY <1>2, <1>3, <1>5 DEF InSight, Out
  <1>7. EntriesAgree' /\ \A r \in Request : AskAgrees(ask[r])'
    BY <1>2, <1>3, <1>5 DEF LinkInv, EntriesAgree, AskAgrees
  <1>8. \A r \in Request, h \in Grant : Opens(ask'[r], h) => ask'[r] = ask[r]
    BY <1>3, <1>5 DEF Opens
  <1>9. Opened'
    BY <1>6, <1>8 DEF LinkInv, Opened
  <1>10. contested \subseteq contested' /\ (Confirming(q) # {} => q \in contested')
    BY <1>2
  <1>11. OutStand'
    BY <1>2, <1>6, <1>10 DEF LinkInv, OutStand
  <1>12. OneConfirmation'
    <2>. SUFFICES ASSUME NEW s \in Qr \ contested', NEW r \in Confirming(s)'
                  PROVE  /\ \A t \in Confirming(s)' : t = r
                         /\ \A h \in Grant : grant[h].qr = s /\ ~Opens(ask'[r], h) => ~Out(h)'
      BY <1>2 DEF OneConfirmation
    <2>1. CASE s = q
      <3>1. Confirming(q)' \subseteq {p}
        BY <1>5, <1>10, <2>1 DEF Confirming
      <3>2. \A h \in Grant : grant[h].qr = q => ~Out(h)
        BY <1>2 DEF LinkInv, OutStand
      <3>. QED
        BY <1>6, <2>1, <3>1, <3>2
    <2>2. CASE s # q
      <3>1. \A t \in Confirming(s)' : t \in Confirming(s) /\ ask'[t] = ask[t]
        BY <1>3, <1>5, <2>2 DEF Confirming
      <3>. QED
        BY <1>6, <1>10, <3>1 DEF LinkInv, OneConfirmation
    <2>. QED
      BY <2>1, <2>2
  <1>13. OneAnswer'
    <2>1. \A h \in Grant : Polling(h)' \subseteq Polling(h)
      BY <1>3, <1>5 DEF Polling
    <2>. QED
      BY <1>2, <1>6, <2>1 DEF LinkInv, OneAnswer
  <1>. QED
    BY <1>4, <1>7, <1>9, <1>11, <1>12, <1>13 DEF LinkInv

LEMMA OpenSessionStep ==
  ASSUME LinkInv, NEW p \in Request, NEW g \in Grant, OpenSession(p, g)
  PROVE  LinkInv'
PROOF
  <1>1. PICK q : q = ask[p].qr
    OBVIOUS
  <1>2. PICK a : a = [ask[p] EXCEPT !.pc = "store", !.grant = g]
    OBVIOUS
  <1>3. PICK new : new = [qr |-> q, state |-> "open"]
    OBVIOUS
  <1>4. /\ ask[p].pc = "login" /\ grant[g] = NoGrant
        /\ grant' = [grant EXCEPT ![g] = new] /\ ask' = [ask EXCEPT ![p] = a]
        /\ UNCHANGED <<entry, given, contested, repolled, failed>>
    BY <1>1, <1>2, <1>3 DEF OpenSession
  <1>5. q \in Qr /\ ask[p] \in AskType
    BY <1>1, <1>4 DEF LinkInv, LinkTypeOK, AskAgrees
  <1>6. a \in AskType /\ a.pc = "store" /\ a.grant = g /\ a.qr = q
    BY <1>1, <1>2, <1>5 DEF AskType
  <1>7. new.qr = q /\ new.state = "open"
        /\ new \in [qr : Qr \union {None}, state : {"none", "open", "live", "ended", "void"}]
    BY <1>3, <1>5
  <1>8. LinkTypeOK'
    BY <1>4, <1>6, <1>7 DEF LinkInv, LinkTypeOK
  <1>9. /\ ask'[p] = a /\ \A r \in Request \ {p} : ask'[r] = ask[r]
        /\ grant'[g] = new /\ \A h \in Grant \ {g} : grant'[h] = grant[h]
    BY <1>4 DEF LinkInv, LinkTypeOK
  <1>10. grant[g].state = "none"
    BY <1>4 DEF NoGrant
  <1>11. ~Out(g) /\ \A r \in Request : ~Opens(ask[r], g)
    BY <1>10 DEF LinkInv, OutStand, AskAgrees, Opens
  <1>12. \A h \in Grant : (InSight(h)' => InSight(h)) /\ (Out(h)' => Out(h))
    BY <1>4, <1>6, <1>9 DEF InSight, Out
  <1>13. EntriesAgree'
    <2>1. \A s \in Qr : entry[s].status = "approved" => entry[s].grant # g
      BY <1>11 DEF Out, InSight
    <2>. QED
      BY <1>4, <1>9, <2>1 DEF LinkInv, EntriesAgree
  <1>14. \A r \in Request : AskAgrees(ask[r])'
    <2>1. AskAgrees(ask[p])'
      BY <1>5, <1>6, <1>7, <1>9 DEF AskAgrees
    <2>2. ASSUME NEW r \in Request \ {p} PROVE AskAgrees(ask[r])'
      <3>1. ask[r].pc \in {"answer", "store", "commit"} => ask[r].grant # g
        BY <1>11 DEF Out, InSight, Opens
      <3>2. AskAgrees(ask[r]) /\ ask'[r] = ask[r]
        BY <1>9 DEF LinkInv
      <3>. QED
        BY <1>9, <3>1, <3>2 DEF AskAgrees
    <2>. QED
      BY <2>1, <2>2
  <1>15. \A r \in Request, h \in Grant : Opens(ask'[r], h) => (r = p /\ h = g) \/ (r # p /\ h # g /\ ask'[r] = ask[r])
    BY <1>6, <1>9, <1>11 DEF Opens
  <1>16. Opened'
    <2>. SUFFICES ASSUME NEW h \in Grant, NEW r \in Request, Opens(ask'[r], h)
                  PROVE  /\ \A t \in Request : Opens(ask'[t], h) => t = r
                         /\ ask'[r].pc = "store" => ~Out(h)'
      BY DEF Opened
    <2>1. CASE h = g
      BY <1>11, <1>12, <1>15, <2>1
    <2>2. CASE h # g
      BY <1>12, <1>15, <2>2 DEF LinkInv, Opened
    <2>. QED
      BY <2>1, <2>2
  <1>17. OutStand'
    BY <1>4, <1>9, <1>11, <1>12 DEF LinkInv, OutStand
  <1>18. OneConfirmation'
    <2>. SUFFICES ASSUME NEW s \in Qr \ contested, NEW r \in Confirming(s)'
                  PROVE  /\ \A t \in Confirming(s)' : t = r
                         /\ \A h \in Grant : grant'[h].qr = s /\ ~Opens(ask'[r], h) => ~Out(h)'
      BY <1>4 DEF OneConfirmation
    <2>1. Confirming(s)' \subseteq Confirming(s) /\ r \in Confirming(s)
      BY <1>1, <1>4, <1>6, <1>9 DEF Confirming
    <2>2. \A t \in Confirming(s)' : t = r
      BY <2>1 DEF LinkInv, OneConfirmation
    <2>3. ASSUME NEW h \in Grant, grant'[h].qr = s, ~Opens(ask'[r], h) PROVE ~Out(h)'
      <3>1. CASE h = g
        BY <1>11, <1>12, <3>1
      <3>2. CASE h # g
        <4>1. grant[h].qr = s /\ ~Opens(ask[r], h)
          BY <1>4, <1>9, <2>3, <3>2 DEF Opens
        <4>. QED
          BY <1>12, <2>1, <4>1 DEF LinkInv, OneConfirmation
      <3>. QED
        BY <3>1, <3>2
    <2>. QED
      BY <2>2, <2>3
  <1>19. OneAnswer'
    <2>1. \A h \in Grant : Polling(h)' \subseteq Polling(h)
      BY <1>6, <1>9 DEF Polling
    <2>. QED
      BY <1>4, <1>12, <2>1 DEF LinkInv, OneAnswer
  <1>. QED
    BY <1>8, <1>13, <1>14, <1>16, <1>17, <1>18, <1>19 DEF LinkInv

LEMMA StoreTokensStep ==
  ASSUME LinkInv, NEW p \in Request, StoreTokens(p)
  PROVE  LinkInv'
PROOF
  <1>1. PICK g, q : g = ask[p].grant /\ q = ask[p].qr
    OBVIOUS
  <1>2. PICK e : e = [status |-> "approved", grant |-> g]
    OBVIOUS
  <1>3. /\ ask[p].pc = "store" /\ entry' = [entry EXCEPT ![q] = e]
        /\ ask' = [ask EXCEPT ![p].pc = "commit"]
        /\ UNCHANGED <<grant, given, contested, repolled, failed>>
    BY <1>1, <1>2 DEF StoreTokens
  <1>4. /\ g \in Grant /\ q \in Qr /\ grant[g].qr = q /\ grant[g].state = "open"
        /\ Opens(ask[p], g) /\ ~Out(g)
    BY <1>1, <1>3 DEF LinkInv, AskAgrees, Opens, Opened
  <1>5. e.status = "approved" /\ e.grant = g
        /\ e \in [status : {"none", "pending", "approved", "gone"}, grant : Grant \union {None}]
    BY <1>2, <1>4
  <1>6. LinkTypeOK'
    <2>1. ask' \in [Request -> AskType]
      BY <1>3 DEF LinkInv, LinkTypeOK, AskType
    <2>. QED
      BY <1>3, <1>5, <2>1 DEF LinkInv, LinkTypeOK
  <1>7. /\ \A r \in Request \ {p} : ask'[r] = ask[r]
        /\ ask'[p].pc = "commit" /\ ask'[p].grant = g /\ ask'[p].qr = q
        /\ entry'[q] = e /\ \A s \in Qr \ {q} : entry'[s] = entry[s]
    BY <1>1, <1>3, <1>4 DEF LinkInv, LinkTypeOK, AskType
  <1>8. \A h \in Grant \ {g} : (InSight(h)' => InSight(h)) /\ (Out(h)' => Out(h))
    BY <1>3, <1>5, <1>7 DEF InSight, Out
  <1>9. EntriesAgree' /\ \A r \in Request : AskAgrees(ask[r])'
    <2>1. EntriesAgree'
      BY <1>3, <1>4, <1>5, <1>7 DEF LinkInv, EntriesAgree
    <2>2. \A r \in Request : AskAgrees(ask[r])'
      BY <1>3, <1>4, <1>7 DEF LinkInv, AskAgrees
    <2>. QED
      BY <2>1, <2>2
  <1>10. \A r \in Request, h \in Grant : Opens(ask'[r], h) <=> Opens(ask[r], h)
    BY <1>1, <1>3, <1>7 DEF Opens
  <1>11. Opened'
    <2>. SUFFICES ASSUME NEW h \in Grant, NEW r \in Request, Opens(ask'[r], h)
                  PROVE  /\ \A t \in Request : Opens(ask'[t], h) => t = r
                         /\ ask'[r].pc = "store" => ~Out(h)'
      BY DEF Opened
    <2>1. \A t \in Request : Opens(ask'[t], h) => t = r
      BY <1>10 DEF LinkInv, Opened
    <2>2. ASSUME ask'[r].pc = "store" PROVE ~Out(h)'
      <3>1. r # p /\ ask'[r] = ask[r] /\ Opens(ask[r], h)
        BY <1>7, <1>10, <2>2
      <3>2. h # g /\ ~Out(h)
        BY <1>4, <2>2, <3>1 DEF LinkInv, Opened
      <3>. QED
        BY <1>8, <3>2
    <2>. QED
      BY <2>1, <2>2
  <1>12. OutStand'
    <2>. SUFFICES ASSUME NEW h \in Grant, Out(h)'
                  PROVE  /\ grant[h].qr \in Qr /\ entry'[grant[h].qr].status \in {"approved", "gone"}
                         /\ grant[h].state # "none"
                         /\ grant[h].state \in {"open", "live"} \/ h \in failed
                              \/ grant[h].qr \in contested
      BY <1>3 DEF OutStand
    <2>1. CASE h = g
      BY <1>4, <1>5, <1>7, <2>1
    <2>2. CASE h # g
      BY <1>5, <1>7, <1>8, <2>2 DEF LinkInv, OutStand
    <2>. QED
      BY <2>1, <2>2
  <1>13. OneConfirmation'
    <2>. SUFFICES ASSUME NEW s \in Qr \ contested, NEW r \in Confirming(s)'
                  PROVE  /\ \A t \in Confirming(s)' : t = r
                         /\ \A h \in Grant : grant[h].qr = s /\ ~Opens(ask'[r], h) => ~Out(h)'
      BY <1>3 DEF OneConfirmation
    <2>1. Confirming(s)' = Confirming(s)
      BY <1>1, <1>3, <1>7 DEF Confirming
    <2>2. \A t \in Confirming(s)' : t = r
      BY <2>1 DEF LinkInv, OneConfirmation
    <2>3. ASSUME NEW h \in Grant, grant[h].qr = s, ~Opens(ask'[r], h) PROVE ~Out(h)'
      <3>1. ~Out(h)
        <4>1. r \in Confirming(s) /\ r \in Request
          BY <2>1 DEF Confirming
        <4>. QED
          BY <1>10, <2>3, <4>1 DEF LinkInv, OneConfirmation
      <3>2. h # g
        <4>1. h = g => p \in Confirming(s)
          BY <1>1, <1>3, <1>4, <2>3 DEF Confirming
        <4>2. h = g => p = r
          BY <2>1, <2>2, <4>1
        <4>. QED
          BY <1>4, <1>10, <2>3, <4>2
      <3>. QED
        BY <1>8, <3>1, <3>2
    <2>. QED
      BY <2>2, <2>3
  <1>14. OneAnswer'
    <2>1. \A h \in Grant : Polling(h)' \subseteq Polling(h)
      BY <1>7 DEF Polling
    <2>2. given[g] = 0
      BY <1>4 DEF LinkInv, LinkTypeOK, Out
    <2>. QED
      BY <1>3, <1>8, <2>1, <2>2 DEF LinkInv, OneAnswer
  <1>. QED
    BY <1>6, <1>9, <1>11, <1>12, <1>13, <1>14 DEF LinkInv

(* The end of a confirmation, by its commit or by a failure. *)
LEMMA ConfirmationEnds ==
  ASSUME LinkInv, NEW p \in Request, LinkTypeOK', ask' = [ask EXCEPT ![p] = NoAsk],
         UNCHANGED <<entry, given, contested, repolled>>,
         \A g \in Grant : grant'[g].qr = grant[g].qr,
         \A g \in Grant, r \in Request \ {p} : Opens(ask[r], g) => grant'[g] = grant[g],
         \A g \in Grant : Out(g) =>
           /\ grant'[g].state # "none"
           /\ grant'[g].state \in {"open", "live"} \/ g \in failed' \/ grant[g].qr \in contested
  PROVE  LinkInv'
PROOF
  <1>1. NoAsk.pc = "idle" /\ ask'[p] = NoAsk /\ \A r \in Request \ {p} : ask'[r] = ask[r]
    BY DEF NoAsk, LinkInv, LinkTypeOK
  <1>2. \A g \in Grant : (InSight(g)' => InSight(g)) /\ (Out(g)' => Out(g))
    BY <1>1 DEF InSight, Out
  <1>3. EntriesAgree'
    BY DEF LinkInv, EntriesAgree
  <1>4. ASSUME NEW r \in Request PROVE AskAgrees(ask[r])'
    <2>1. CASE r = p
      BY <1>1, <2>1 DEF AskAgrees
    <2>2. CASE r # p
      <3>1. AskAgrees(ask[r]) /\ ask'[r] = ask[r]
        BY <1>1, <2>2 DEF LinkInv
      <3>2. ask[r].pc \in {"store", "commit"} => grant'[ask[r].grant] = grant[ask[r].grant]
        BY <2>2, <3>1 DEF AskAgrees, Opens
      <3>. QED
        BY <3>1, <3>2 DEF AskAgrees
    <2>. QED
      BY <2>1, <2>2
  <1>5. \A r \in Request, g \in Grant : Opens(ask'[r], g) => ask'[r] = ask[r]
    BY <1>1 DEF Opens
  <1>6. Opened'
    BY <1>2, <1>5 DEF LinkInv, Opened
  <1>7. OutStand'
    BY <1>2 DEF LinkInv, OutStand
  <1>8. OneConfirmation'
    <2>1. \A q \in Qr : \A r \in Confirming(q)' : r \in Confirming(q) /\ ask'[r] = ask[r]
      BY <1>1 DEF Confirming
    <2>. QED
      BY <1>2, <2>1 DEF LinkInv, OneConfirmation
  <1>9. OneAnswer'
    <2>1. \A g \in Grant : Polling(g)' \subseteq Polling(g)
      BY <1>1 DEF Polling
    <2>. QED
      BY <1>2, <2>1 DEF LinkInv, OneAnswer
  <1>. QED
    BY <1>3, <1>4, <1>6, <1>7, <1>8, <1>9 DEF LinkInv

LEMMA CommitConfirmStep ==
  ASSUME LinkInv, NEW p \in Request, CommitConfirm(p)
  PROVE  LinkInv'
PROOF
  <1>1. PICK g, q : g = ask[p].grant /\ q = ask[p].qr
    OBVIOUS
  <1>2. /\ ask[p].pc = "commit" /\ ask' = [ask EXCEPT ![p] = NoAsk]
        /\ UNCHANGED <<entry, given, contested, repolled, failed>>
        /\ grant' = [h \in Grant |->
             IF h = g THEN [grant[h] EXCEPT !.state = "live"]
             ELSE IF grant[h] = [qr |-> q, state |-> "live"]
                  THEN [grant[h] EXCEPT !.state = "ended"] ELSE grant[h]]
    BY <1>1 DEF CommitConfirm
  <1>3. g \in Grant /\ q \in Qr /\ Opens(ask[p], g) /\ p \in Confirming(q)
    BY <1>1, <1>2 DEF LinkInv, AskAgrees, Opens, Confirming
  <1>4. NoAsk \in AskType
    BY DEF NoAsk, AskType
  <1>5. ASSUME NEW h \in Grant
        PROVE  /\ grant'[h] \in [qr : Qr \union {None},
                                state : {"none", "open", "live", "ended", "void"}]
               /\ grant'[h].qr = grant[h].qr
               /\ h = g => grant'[h].state = "live"
               /\ h # g /\ grant[h].qr # q => grant'[h] = grant[h]
               /\ h # g /\ grant[h].state = "open" => grant'[h] = grant[h]
               /\ grant[h].state # "none" => grant'[h].state # "none"
               /\ h # g => grant'[h] = grant[h] \/ grant[h].state = "live"
    <2>1. grant[h] \in [qr : Qr \union {None}, state : {"none", "open", "live", "ended", "void"}]
      BY DEF LinkInv, LinkTypeOK
    <2>2. CASE h = g
      BY <1>2, <2>1, <2>2
    <2>3. CASE h # g /\ grant[h] = [qr |-> q, state |-> "live"]
      <3>1. grant[h].qr = q /\ grant[h].state = "live"
        BY <2>3
      <3>2. grant'[h] = [grant[h] EXCEPT !.state = "ended"]
        BY <1>2, <2>3
      <3>. QED
        BY <2>1, <2>3, <3>1, <3>2
    <2>4. CASE h # g /\ grant[h] # [qr |-> q, state |-> "live"]
      <3>1. grant'[h] = grant[h]
        BY <1>2, <2>4
      <3>. QED
        BY <2>1, <2>4, <3>1
    <2>. QED
      BY <2>2, <2>3, <2>4
  <1>6. LinkTypeOK'
    <2>1. grant' \in [Grant -> [qr : Qr \union {None},
                                state : {"none", "open", "live", "ended", "void"}]]
      BY <1>2, <1>5
    <2>. QED
      BY <1>2, <1>4, <2>1 DEF LinkInv, LinkTypeOK
  <1>7. \A h \in Grant, r \in Request \ {p} : Opens(ask[r], h) => grant'[h] = grant[h]
    <2>. SUFFICES ASSUME NEW h \in Grant, NEW r \in Request \ {p}, Opens(ask[r], h)
                  PROVE  grant'[h] = grant[h]
      OBVIOUS
    <2>1. h # g
      BY <1>3 DEF LinkInv, Opened
    <2>2. grant[h].state = "open"
      BY DEF LinkInv, AskAgrees, Opens
    <2>. QED
      BY <1>5, <2>1, <2>2
  <1>8. ASSUME NEW h \in Grant, Out(h)
        PROVE  /\ grant'[h].state # "none"
               /\ grant'[h].state \in {"open", "live"} \/ h \in failed' \/ grant[h].qr \in contested
    <2>1. grant[h].state # "none"
          /\ (grant[h].state \in {"open", "live"} \/ h \in failed \/ grant[h].qr \in contested)
      BY <1>8 DEF LinkInv, OutStand
    <2>2. CASE h = g
      BY <1>5, <2>2
    <2>3. CASE h # g /\ grant[h].qr = q
      <3>1. ~Opens(ask[p], h)
        BY <1>1, <2>3 DEF Opens
      <3>2. q \in contested
        BY <1>3, <1>8, <2>3, <3>1 DEF LinkInv, OneConfirmation
      <3>. QED
        BY <1>5, <2>1, <2>3, <3>2
    <2>4. CASE h # g /\ grant[h].qr # q
      BY <1>2, <1>5, <2>1, <2>4
    <2>. QED
      BY <2>2, <2>3, <2>4
  <1>. QED
    BY <1>2, <1>5, <1>6, <1>7, <1>8, ConfirmationEnds

LEMMA AbortAskStep ==
  ASSUME LinkInv, NEW p \in Request, AbortAsk(p)
  PROVE  LinkInv'
PROOF
  <1>1. PICK g : g = ask[p].grant
    OBVIOUS
  <1>2. NoAsk \in AskType /\ NoAsk.pc = "idle"
    BY DEF NoAsk, AskType
  <1>3. ask' = [ask EXCEPT ![p] = NoAsk] /\ UNCHANGED <<entry, given, contested, repolled>>
    BY DEF AbortAsk
  <1>4. ask' \in [Request -> AskType]
    BY <1>2, <1>3 DEF LinkInv, LinkTypeOK
  <1>5. CASE ask[p].pc \notin {"store", "commit"}
    <2>1. UNCHANGED <<grant, failed>>
      BY <1>5 DEF AbortAsk
    <2>2. LinkTypeOK'
      BY <1>3, <1>4, <2>1 DEF LinkInv, LinkTypeOK
    <2>3. \A r \in Request : ask'[r].pc = "idle" \/ ask'[r] = ask[r]
      BY <1>2, <1>3 DEF LinkInv, LinkTypeOK
    <2>. QED
      BY <1>3, <2>1, <2>2, <2>3, NothingNewOut
  <1>6. CASE ask[p].pc \in {"store", "commit"}
    <2>1. g \in Grant /\ Opens(ask[p], g)
      BY <1>1, <1>6 DEF LinkInv, AskAgrees, Opens
    <2>2. grant' = [grant EXCEPT ![g].state = "void"]
      BY <1>1, <1>6 DEF AbortAsk
    <2>3. failed' = IF ask[p].pc = "commit" THEN failed \union {g} ELSE failed
      BY <1>1 DEF AbortAsk
    <2>4. ASSUME NEW h \in Grant
          PROVE  /\ grant'[h] \in [qr : Qr \union {None},
                                  state : {"none", "open", "live", "ended", "void"}]
                 /\ grant'[h].qr = grant[h].qr
                 /\ h = g => grant'[h].state = "void"
                 /\ h # g => grant'[h] = grant[h]
      BY <2>1, <2>2 DEF LinkInv, LinkTypeOK
    <2>5. LinkTypeOK'
      <3>1. grant' \in [Grant -> [qr : Qr \union {None},
                                  state : {"none", "open", "live", "ended", "void"}]]
        BY <2>2, <2>4 DEF LinkInv, LinkTypeOK
      <3>. QED
        BY <1>3, <1>4, <3>1 DEF LinkInv, LinkTypeOK
    <2>6. \A h \in Grant, r \in Request \ {p} : Opens(ask[r], h) => grant'[h] = grant[h]
      BY <2>1, <2>4 DEF LinkInv, Opened
    <2>7. ASSUME NEW h \in Grant, Out(h)
          PROVE  /\ grant'[h].state # "none"
                 /\ grant'[h].state \in {"open", "live"} \/ h \in failed' \/ grant[h].qr \in contested
      <3>1. grant[h].state # "none"
            /\ (grant[h].state \in {"open", "live"} \/ h \in failed \/ grant[h].qr \in contested)
        BY <2>7 DEF LinkInv, OutStand
      <3>2. CASE h = g
        <4>1. ask[p].pc = "commit"
          BY <1>6, <2>1, <2>7, <3>2 DEF LinkInv, Opened
        <4>. QED
          BY <2>3, <2>4, <3>2, <4>1
      <3>3. CASE h # g
        BY <2>3, <2>4, <3>1, <3>3
      <3>. QED
        BY <3>2, <3>3
    <2>. QED
      BY <1>3, <2>4, <2>5, <2>6, <2>7, ConfirmationEnds
  <1>. QED
    BY <1>5, <1>6

LEMMA LinkStep == LinkInv /\ [LinkNext]_linkVars => LinkInv'
PROOF
  <1>. SUFFICES ASSUME LinkInv, [LinkNext]_linkVars PROVE LinkInv'
    OBVIOUS
  <1>1. CASE UNCHANGED linkVars
    BY <1>1, NothingNewOut DEF linkVars, LinkInv, LinkTypeOK
  <1>2. ASSUME NEW q \in Qr, StartLink(q) PROVE LinkInv'
    <2>1. entry[q].status = "none" /\ entry' = [entry EXCEPT ![q].status = "pending"]
          /\ UNCHANGED <<grant, ask, given, contested, repolled, failed>>
      BY <1>2 DEF StartLink
    <2>2. LinkTypeOK'
      BY <2>1 DEF LinkInv, LinkTypeOK
    <2>3. entry'[q].status = "pending" /\ \A s \in Qr \ {q} : entry'[s] = entry[s]
      BY <2>1 DEF LinkInv, LinkTypeOK
    <2>. QED
      BY <2>1, <2>2, <2>3, NothingNewOut
  <1>3. ASSUME NEW q \in Qr, LinkExpires(q) PROVE LinkInv'
    <2>1. entry' = [entry EXCEPT ![q] = [status |-> "gone", grant |-> None]]
          /\ UNCHANGED <<grant, ask, given, contested, repolled, failed>>
      BY <1>3 DEF LinkExpires
    <2>2. LinkTypeOK'
      BY <2>1 DEF LinkInv, LinkTypeOK
    <2>3. entry'[q].status = "gone" /\ \A s \in Qr \ {q} : entry'[s] = entry[s]
      BY <2>1 DEF LinkInv, LinkTypeOK
    <2>. QED
      BY <2>1, <2>2, <2>3, NothingNewOut
  <1>4. ASSUME NEW p \in Request, NEW q \in Qr, BeginPoll(p, q) PROVE LinkInv'
    BY <1>4, BeginPollStep
  <1>5. ASSUME NEW p \in Request, NEW q \in Qr, BeginConfirm(p, q) PROVE LinkInv'
    BY <1>5, BeginConfirmStep
  <1>6. ASSUME NEW p \in Request, NEW cut \in BOOLEAN, AnswerPoll(p, cut) PROVE LinkInv'
    BY <1>6, AnswerPollStep
  <1>7. ASSUME NEW p \in Request, NEW g \in Grant, OpenSession(p, g) PROVE LinkInv'
    BY <1>7, OpenSessionStep
  <1>8. ASSUME NEW p \in Request, StoreTokens(p) PROVE LinkInv'
    BY <1>8, StoreTokensStep
  <1>9. ASSUME NEW p \in Request, CommitConfirm(p) PROVE LinkInv'
    BY <1>9, CommitConfirmStep
  <1>10. ASSUME NEW p \in Request, AbortAsk(p) PROVE LinkInv'
    BY <1>10, AbortAskStep
  <1>. QED
    BY <1>1, <1>2, <1>3, <1>4, <1>5, <1>6, <1>7, <1>8, <1>9, <1>10 DEF LinkNext

(* The tokens of a linked device are handed out once, and the session that was  *)
(* handed over stands, but for the exceptions that HandedSessionStands names     *)
(* (confirm_device_link, poll_device_link, complete_login).                     *)
THEOREM LinkedSessionStands == LinkSpec => []HandedSessionStands
PROOF
  <1>1. LinkInit => LinkInv
    <2>. SUFFICES ASSUME LinkInit PROVE LinkInv
      OBVIOUS
    <2>1. LinkTypeOK
      BY DEF LinkInit, LinkTypeOK, AskType, NoEntry, NoGrant, NoAsk
    <2>2. /\ \A q \in Qr : entry[q].status = "none"
          /\ \A p \in Request : ask[p].pc = "idle"
          /\ \A g \in Grant : given[g] = 0
      BY DEF LinkInit, NoEntry, NoAsk
    <2>3. \A g \in Grant : ~Out(g)
      BY <2>2 DEF Out, InSight
    <2>. QED
      BY <2>1, <2>2, <2>3 DEF LinkInv, EntriesAgree, AskAgrees, Opened, Opens, OutStand,
                              OneConfirmation, Confirming, OneAnswer, Polling
  <1>2. LinkInv => HandedSessionStands
    <2>. SUFFICES ASSUME LinkInv, NEW g \in Grant, given[g] > 0
                  PROVE  /\ given[g] = 1 \/ g \in repolled
                         /\ \/ grant[g].state \in {"open", "live"}
                            \/ g \in failed \/ grant[g].qr \in contested
      BY DEF HandedSessionStands
    <2>1. Out(g)
      BY DEF Out
    <2>. QED
      BY <2>1 DEF LinkInv, OutStand, OneAnswer
  <1>. QED
    BY <1>1, <1>2, LinkStep, PTL DEF LinkSpec

-----------------------------------------------------------------------------
(* Uploads.  At most one request holds the row of a file; what a completion  *)
(* has read of the object stands until then, but for the exceptions.  Unless   *)
(* two requests change the count or one file at once, each knows what its file  *)
(* adds to the count, and who is about to write the count has read it last.    *)

FileType == [state : {"absent", "pending", "complete", "deleted"}, size : Nat, url : BOOLEAN]
UpType ==
  [pc : {"idle", "save", "drop", "remove", "count", "add", "commit"}, file : File \union {None},
   size : Nat, delta : Int, saw : Nat, to : {"absent", "complete"}]

UpWellFormed(u) ==
  /\ u.file = None <=> u.pc = "idle"
  /\ u.to = "complete" => u.pc \in {"save", "count", "add", "commit"} /\ u.delta = u.size /\ u.size > 0
  /\ u.to = "absent" => u.pc # "save" /\ u.size = 0

UploadTypeOK ==
  /\ file \in [File -> FileType] /\ object \in [File -> Nat] /\ used \in Nat
  /\ up \in [Request -> UpType]
  /\ \A p \in Request : UpWellFormed(up[p])

HoldsRow(u)  == u.pc \in {"count", "add", "commit"}
Deletes(u)   == u.to = "absent" /\ u.pc # "drop"
Excused(f)   == f \in replaced \union undone \/ \E q \in About(f) : Deletes(up[q])

RowsExclusive ==
  \A p, q \in Request : p # q /\ HoldsRow(up[p]) /\ HoldsRow(up[q]) => up[p].file # up[q].file

SizesStand ==
  \A f \in File : \A p \in About(f) : up[p].to = "complete" =>
    object[f] = up[p].size \/ Excused(f) \/ (up[p].pc = "save" /\ file[f].state = "deleted")

ObjectsMatch ==
  \A f \in File : file[f].state = "complete" =>
    (object[f] > 0 /\ object[f] = file[f].size) \/ Excused(f)

(* The row that a completion holds has not been deleted before it. *)
RowsStand ==
  \A p \in Request : HoldsRow(up[p]) /\ up[p].to = "complete" => file[up[p].file].state # "deleted"

ObjectsInv == UploadTypeOK /\ RowsExclusive /\ RowsStand /\ SizesStand /\ ObjectsMatch

FilesApart ==
  \A p, q \in Request : p # q /\ up[p].pc # "idle" /\ up[q].pc # "idle" => up[p].file # up[q].file

DeltaFits(u) ==
  \/ u.file \notin Complete /\ (u.to = "absent" => u.delta = 0)
  \/ u.file \in Complete /\ u.to = "absent" /\ u.delta = -file[u.file].size

Counting(u) == u.delta # 0 /\ u.pc \in {"add", "commit"}

CountsStand ==
  \A p \in Request : Counting(up[p]) =>
    up[p].saw = used /\ \A q \in Request \ {p} : ~Counting(up[q])

Apart ==
  FilesApart /\ CountsStand /\ \A p \in Request : up[p].pc # "idle" => DeltaFits(up[p])

CountInv == UploadTypeOK /\ (clashed \/ discarded \/ Apart) /\ UsedIsSum

LEMMA NoUpIsIdle == NoUp \in UpType /\ UpWellFormed(NoUp) /\ NoUp.pc = "idle" /\ NoUp.to = "absent"
PROOF
  BY DEF NoUp, UpType, UpWellFormed

(* A request about f that begins. *)
Begun(u, f) == u \in UpType /\ UpWellFormed(u) /\ u.file = f

SaveUp(at, f, n) ==
  [NoUp EXCEPT !.pc = at, !.file = f, !.size = n, !.delta = n, !.to = "complete"]
DropUp(f)        == [NoUp EXCEPT !.pc = "drop", !.file = f]
RemoveUp(f, d)   == [NoUp EXCEPT !.pc = "drop", !.file = f, !.delta = d]

LEMMA SaveBegun ==
  ASSUME NEW f \in File, NEW n \in Nat \ {0}, NEW at \in {"save", "count"}
  PROVE  LET u == SaveUp(at, f, n)
         IN  Begun(u, f) /\ u.pc = at /\ u.size = n /\ u.to = "complete"
PROOF
  <1>1. PICK u : u = SaveUp(at, f, n)
    OBVIOUS
  <1>2. u.pc = at /\ u.file = f /\ u.size = n /\ u.delta = n /\ u.to = "complete"
    BY <1>1 DEF SaveUp, NoUp
  <1>3. u \in UpType
    <2>1. NoUp \in UpType /\ n \in Int
      BY NoUpIsIdle
    <2>. QED
      BY <1>1, <2>1 DEF SaveUp, UpType
  <1>. QED
    BY <1>1, <1>2, <1>3, FileAssumption DEF Begun, UpWellFormed

LEMMA DropBegun ==
  ASSUME NEW f \in File
  PROVE  LET u == DropUp(f)
         IN  Begun(u, f) /\ u.pc = "drop" /\ u.delta = 0 /\ u.to = "absent"
PROOF
  <1>1. PICK u : u = DropUp(f)
    OBVIOUS
  <1>2. u.pc = "drop" /\ u.file = f /\ u.delta = 0 /\ u.to = "absent" /\ u.size = 0
    BY <1>1 DEF DropUp, NoUp
  <1>3. u \in UpType
    BY <1>1, NoUpIsIdle DEF DropUp, UpType
  <1>. QED
    BY <1>1, <1>2, <1>3, FileAssumption DEF Begun, UpWellFormed

LEMMA RemoveBegun ==
  ASSUME NEW f \in File, NEW d \in Int
  PROVE  LET u == RemoveUp(f, d)
         IN  Begun(u, f) /\ u.pc = "drop" /\ u.delta = d /\ u.to = "absent"
PROOF
  <1>1. PICK u : u = RemoveUp(f, d)
    OBVIOUS
  <1>2. u.pc = "drop" /\ u.file = f /\ u.delta = d /\ u.to = "absent" /\ u.size = 0
    BY <1>1 DEF RemoveUp, NoUp
  <1>3. u \in UpType
    BY <1>1, NoUpIsIdle DEF RemoveUp, UpType
  <1>. QED
    BY <1>1, <1>2, <1>3, FileAssumption DEF Begun, UpWellFormed

(* The steps, as what they do to one request and to the rows. *)
Starts(p, f, u) ==
  /\ up[p].pc = "idle" /\ Begun(u, f) /\ up' = [up EXCEPT ![p] = u]
  /\ (clashed => clashed') /\ (About(f) # {} => clashed')
  /\ (discarded => discarded')
  /\ UNCHANGED <<file, used, replaced, undone>>
  /\ \/ /\ u.pc = "save" /\ u.size = object[f] /\ u.to = "complete"
        /\ file[f].state = "pending" /\ UNCHANGED object
     \/ /\ u.pc = "drop" /\ u.delta = 0 /\ u.to = "absent"
        /\ file[f].state = "pending" /\ UNCHANGED object
     \/ /\ u.pc = "drop" /\ u.delta = -file[f].size /\ u.to = "absent"
        /\ file[f].state = "complete" \/ discarded'
        /\ UNCHANGED object
     \/ /\ u.pc = "count" /\ u.to = "complete" /\ About(f) = {} /\ file[f] = Absent
        /\ object' = [object EXCEPT ![f] = u.size]

LEMMA StartsCover ==
  ASSUME UploadTypeOK, NEW p \in Request, NEW f \in File,
         \/ BeginComplete(p, f) \/ BeginDelete(p, f) \/ \E n \in 1 .. MaxBytes : BeginDirect(p, f, n)
  PROVE  \E u : Starts(p, f, u)
PROOF
  <1>1. \A u : StartsUp(p, u) /\ u.file = f =>
          /\ up[p].pc = "idle" /\ up' = [up EXCEPT ![p] = u]
          /\ (clashed => clashed') /\ (About(f) # {} => clashed')
    BY DEF StartsUp
  <1>2. CASE BeginComplete(p, f) /\ object[f] > MaxBytes
    <2>1. PICK u : u = DropUp(f)
      OBVIOUS
    <2>2. Begun(u, f) /\ u.pc = "drop" /\ u.delta = 0 /\ u.to = "absent"
      BY <2>1, DropBegun
    <2>3. StartsUp(p, u) /\ file[f].state = "pending" /\ UNCHANGED <<file, object, used, discarded, replaced, undone>>
      BY <1>2, <2>1 DEF BeginComplete, DropUp
    <2>4. Starts(p, f, u)
      BY <1>1, <2>2, <2>3 DEF Starts, Begun
    <2>. QED
      BY <2>4
  <1>3. CASE BeginComplete(p, f) /\ ~(object[f] > MaxBytes)
    <2>1. PICK u, n : n = object[f] /\ u = SaveUp("save", f, n)
      OBVIOUS
    <2>2. n \in Nat \ {0}
      BY <1>3, <2>1 DEF BeginComplete, UploadTypeOK
    <2>3. Begun(u, f) /\ u.pc = "save" /\ u.size = n /\ u.to = "complete"
      BY <2>1, <2>2, SaveBegun
    <2>4. StartsUp(p, u) /\ file[f].state = "pending" /\ UNCHANGED <<file, object, used, discarded, replaced, undone>>
      BY <1>3, <2>1 DEF BeginComplete, SaveUp
    <2>5. Starts(p, f, u)
      BY <1>1, <2>1, <2>3, <2>4 DEF Starts, Begun
    <2>. QED
      BY <2>5
  <1>4. CASE BeginDelete(p, f)
    <2>1. PICK u, d : d = -file[f].size /\ u = RemoveUp(f, d)
      OBVIOUS
    <2>2. d \in Int
      BY <2>1 DEF UploadTypeOK, FileType
    <2>3. Begun(u, f) /\ u.pc = "drop" /\ u.delta = d /\ u.to = "absent"
      BY <2>1, <2>2, RemoveBegun
    <2>4. StartsUp(p, u) /\ Exists(f) /\ UNCHANGED <<file, object, used, replaced, undone>>
      BY <1>4, <2>1 DEF BeginDelete, RemoveUp
    <2>5. (discarded => discarded') /\ (file[f].state = "complete" \/ discarded')
      BY <1>4 DEF BeginDelete, Exists
    <2>6. Starts(p, f, u)
      BY <1>1, <2>1, <2>3, <2>4, <2>5 DEF Starts, Begun
    <2>. QED
      BY <2>6
  <1>5. ASSUME NEW n \in 1 .. MaxBytes, BeginDirect(p, f, n) PROVE \E u : Starts(p, f, u)
    <2>1. PICK u : u = SaveUp("count", f, n)
      OBVIOUS
    <2>2. n \in Nat \ {0}
      BY UploadAssumption
    <2>3. Begun(u, f) /\ u.pc = "count" /\ u.size = n /\ u.to = "complete"
      BY <2>1, <2>2, SaveBegun
    <2>4. StartsUp(p, u) /\ file[f] = Absent /\ About(f) = {} /\ object' = [object EXCEPT ![f] = n]
          /\ UNCHANGED <<file, used, discarded, replaced, undone>>
      BY <1>5, <2>1 DEF BeginDirect, SaveUp
    <2>5. Starts(p, f, u)
      BY <1>1, <2>1, <2>3, <2>4 DEF Starts, Begun
    <2>. QED
      BY <2>5
  <1>. QED
    BY <1>2, <1>3, <1>4, <1>5

Goes(p) ==
  /\ UNCHANGED <<file, used, discarded, replaced, undone>>
  /\ \E to \in {"remove", "count", "add", "commit"}, v \in Nat :
       /\ up' = [up EXCEPT ![p].pc = to, ![p].saw = v] \/ up' = [up EXCEPT ![p].pc = to]
       /\ \/ /\ up[p].pc = "save" /\ to = "count" /\ Exists(up[p].file) /\ ~RowHeld(p, up[p].file)
             /\ UNCHANGED <<object, clashed>>
          \/ /\ up[p].pc = "drop" /\ to = "remove"
             /\ object' = [object EXCEPT ![up[p].file] = 0] /\ UNCHANGED clashed
          \/ /\ up[p].pc = "remove" /\ ~RowHeld(p, up[p].file)
             /\ to = IF up[p].delta = 0 THEN "commit" ELSE "count"
             /\ UNCHANGED <<object, clashed>>
          \/ /\ up[p].pc = "count" /\ to = "add" /\ v = used
             /\ up' = [up EXCEPT ![p].pc = to, ![p].saw = v]
             /\ (clashed => clashed') /\ UNCHANGED object
             /\ (\E q \in Others(p) : Counting(up[q])) => clashed'
          \/ /\ up[p].pc = "add" /\ to = "commit" /\ up' = [up EXCEPT ![p].pc = to]
             /\ UNCHANGED <<object, clashed>>

LEMMA GoesCovers ==
  ASSUME UploadTypeOK, NEW p \in Request,
         SaveRow(p) \/ DropObject(p) \/ RemoveRow(p) \/ ReadCount(p) \/ AddDelta(p)
  PROVE  Goes(p)
PROOF
  <1>1. used \in Nat
    BY DEF UploadTypeOK
  <1>2. CASE SaveRow(p)
    BY <1>1, <1>2 DEF SaveRow, Goes
  <1>3. CASE DropObject(p)
    BY <1>1, <1>3 DEF DropObject, Goes
  <1>4. CASE RemoveRow(p)
    BY <1>1, <1>4 DEF RemoveRow, Goes
  <1>5. CASE ReadCount(p)
    BY <1>1, <1>5 DEF ReadCount, Goes, Counting
  <1>6. CASE AddDelta(p)
    BY <1>1, <1>6 DEF AddDelta, Goes
  <1>. QED
    BY <1>2, <1>3, <1>4, <1>5, <1>6

LEMMA StartsFacts ==
  ASSUME UploadTypeOK, NEW p \in Request, NEW f \in File, NEW u, Starts(p, f, u)
  PROVE  /\ UploadTypeOK' /\ up'[p] = u /\ up[p].file = None
         /\ \A q \in Request \ {p} : up'[q] = up[q]
PROOF
  <1>1. u \in UpType /\ UpWellFormed(u) /\ up' = [up EXCEPT ![p] = u] /\ u.size \in Nat
    BY DEF Starts, Begun, UpType
  <1>2. object' \in [File -> Nat] /\ UNCHANGED <<file, used>>
    BY <1>1 DEF Starts, UploadTypeOK
  <1>3. up' \in [Request -> UpType] /\ up'[p] = u /\ \A q \in Request \ {p} : up'[q] = up[q]
    BY <1>1 DEF UploadTypeOK
  <1>4. up[p].file = None
    BY DEF Starts, UploadTypeOK, UpWellFormed
  <1>. QED
    BY <1>1, <1>2, <1>3, <1>4 DEF UploadTypeOK

LEMMA GoesFacts ==
  ASSUME UploadTypeOK, NEW p \in Request, Goes(p)
  PROVE  /\ UploadTypeOK' /\ \A q \in Request \ {p} : up'[q] = up[q]
         /\ up'[p].file = up[p].file /\ up'[p].to = up[p].to /\ up'[p].size = up[p].size
         /\ up'[p].delta = up[p].delta /\ up[p].file \in File
         /\ up'[p].pc \in {"remove", "count", "add", "commit"} /\ up[p].pc \notin {"idle", "commit"}
         /\ HoldsRow(up'[p]) => HoldsRow(up[p]) \/ ~RowHeld(p, up[p].file)
         /\ up[p].pc = "save" => Exists(up[p].file)
         /\ UNCHANGED object \/ (object' = [object EXCEPT ![up[p].file] = 0] /\ up'[p].pc = "remove")
         /\ clashed => clashed'
         /\ UNCHANGED <<file, used, discarded, replaced, undone>>
         /\ Counting(up'[p]) =>
              \/ Counting(up[p]) /\ up'[p].saw = up[p].saw
              \/ up'[p].saw = used /\ (clashed' \/ \A q \in Others(p) : ~Counting(up[q]))
PROOF
  <1>1. PICK to \in {"remove", "count", "add", "commit"}, v \in Nat :
          /\ up' = [up EXCEPT ![p].pc = to, ![p].saw = v] \/ up' = [up EXCEPT ![p].pc = to]
          /\ \/ /\ up[p].pc = "save" /\ to = "count" /\ Exists(up[p].file) /\ ~RowHeld(p, up[p].file)
                /\ UNCHANGED <<object, clashed>>
             \/ /\ up[p].pc = "drop" /\ to = "remove"
                /\ object' = [object EXCEPT ![up[p].file] = 0] /\ UNCHANGED clashed
             \/ /\ up[p].pc = "remove" /\ ~RowHeld(p, up[p].file)
                /\ to = IF up[p].delta = 0 THEN "commit" ELSE "count"
                /\ UNCHANGED <<object, clashed>>
             \/ /\ up[p].pc = "count" /\ to = "add" /\ v = used
                /\ up' = [up EXCEPT ![p].pc = to, ![p].saw = v]
                /\ (clashed => clashed') /\ UNCHANGED object
                /\ (\E q \in Others(p) : Counting(up[q])) => clashed'
             \/ /\ up[p].pc = "add" /\ to = "commit" /\ up' = [up EXCEPT ![p].pc = to]
                /\ UNCHANGED <<object, clashed>>
    BY DEF Goes
  <1>2. UNCHANGED <<file, used, discarded, replaced, undone>>
    BY DEF Goes
  <1>3. /\ up' \in [Request -> UpType] /\ \A q \in Request \ {p} : up'[q] = up[q]
        /\ up'[p].pc = to /\ up'[p].file = up[p].file /\ up'[p].to = up[p].to
        /\ up'[p].size = up[p].size /\ up'[p].delta = up[p].delta
        /\ up' = [up EXCEPT ![p].pc = to, ![p].saw = v] => up'[p].saw = v
        /\ up' = [up EXCEPT ![p].pc = to] => up'[p].saw = up[p].saw
    <2>1. up[p] \in UpType
      BY DEF UploadTypeOK
    <2>2. CASE up' = [up EXCEPT ![p].pc = to, ![p].saw = v]
      BY <2>1, <2>2 DEF UploadTypeOK, UpType
    <2>3. CASE up' = [up EXCEPT ![p].pc = to]
      BY <2>1, <2>3 DEF UploadTypeOK, UpType
    <2>. QED
      BY <1>1, <2>2, <2>3
  <1>4. UpWellFormed(up[p]) /\ up[p] \in UpType
    BY DEF UploadTypeOK
  <1>5. up[p].pc \notin {"idle", "commit"} /\ up[p].file \in File
    BY <1>1, <1>4 DEF UpWellFormed, UpType
  <1>6. UploadTypeOK'
    <2>1. UpWellFormed(up'[p])
      BY <1>1, <1>3, <1>4 DEF UpWellFormed
    <2>2. object' \in [File -> Nat]
      BY <1>1 DEF UploadTypeOK
    <2>. QED
      BY <1>2, <1>3, <2>1, <2>2 DEF UploadTypeOK
  <1>7. HoldsRow(up'[p]) => HoldsRow(up[p]) \/ ~RowHeld(p, up[p].file)
    BY <1>1, <1>3 DEF HoldsRow
  <1>8. UNCHANGED object \/ (object' = [object EXCEPT ![up[p].file] = 0] /\ up'[p].pc = "remove")
    BY <1>1, <1>3
  <1>9. (up[p].pc = "save" => Exists(up[p].file)) /\ (clashed => clashed')
    BY <1>1
  <1>10. ASSUME Counting(up'[p])
         PROVE  \/ Counting(up[p]) /\ up'[p].saw = up[p].saw
                \/ up'[p].saw = used /\ (clashed' \/ \A q \in Others(p) : ~Counting(up[q]))
    <2>1. up[p].delta # 0 /\ to \in {"add", "commit"}
      BY <1>3, <1>10 DEF Counting
    <2>2. CASE up[p].pc = "count" /\ up' = [up EXCEPT ![p].pc = to, ![p].saw = v]
      BY <1>1, <1>3, <2>1, <2>2
    <2>3. CASE up[p].pc = "add" /\ up' = [up EXCEPT ![p].pc = to]
      BY <1>3, <2>1, <2>3 DEF Counting
    <2>. QED
      BY <1>1, <2>1, <2>2, <2>3
  <1>. QED
    BY <1>1, <1>2, <1>3, <1>5, <1>6, <1>7, <1>8, <1>9, <1>10

(* The object of each complete file. *)
LEMMA ObjectsStart ==
  ASSUME ObjectsInv, NEW p \in Request, NEW f \in File, NEW u, Starts(p, f, u)
  PROVE  ObjectsInv'
PROOF
  <1>1. UploadTypeOK' /\ up'[p] = u /\ up[p].file = None /\ \A q \in Request \ {p} : up'[q] = up[q]
    BY StartsFacts DEF ObjectsInv
  <1>2. u.file = f /\ UNCHANGED <<file, replaced, undone>>
    BY DEF Starts, Begun
  <1>3. \A g \in File : Excused(g) => Excused(g)'
    BY <1>1, <1>2, FileAssumption DEF Excused, About
  <1>4. UNCHANGED object
        \/ (About(f) = {} /\ file[f].state = "absent" /\ object' = [object EXCEPT ![f] = u.size])
    BY DEF Starts, Absent
  <1>5. RowsExclusive'
    <2>1. HoldsRow(u) => About(f) = {}
      BY DEF Starts, HoldsRow
    <2>2. HoldsRow(u) => \A q \in Request : up[q].file # f
      BY <2>1 DEF About
    <2>. QED
      BY <1>1, <1>2, <2>2 DEF ObjectsInv, RowsExclusive
  <1>6. SizesStand'
    <2>. SUFFICES ASSUME NEW g \in File, NEW q \in Request, up'[q].file = g, up'[q].to = "complete"
                  PROVE  \/ object'[g] = up'[q].size \/ Excused(g)'
                         \/ up'[q].pc = "save" /\ file[g].state = "deleted"
      BY <1>2 DEF SizesStand, About
    <2>1. CASE q = p
      <3>1. u.pc = "save" \/ u.pc = "count"
        BY <1>1, <2>1 DEF Starts
      <3>2. object'[f] = u.size
        BY <3>1 DEF Starts, ObjectsInv, UploadTypeOK
      <3>. QED
        BY <1>1, <1>2, <2>1, <3>2
    <2>2. CASE q # p
      <3>1. up'[q] = up[q] /\ q \in About(g)
        BY <1>1, <2>2 DEF About
      <3>2. object'[g] = object[g]
        BY <1>4, <3>1 DEF ObjectsInv, UploadTypeOK
      <3>. QED
        BY <1>3, <3>1, <3>2 DEF ObjectsInv, SizesStand
    <2>. QED
      BY <2>1, <2>2
  <1>7. ObjectsMatch'
    <2>. SUFFICES ASSUME NEW g \in File, file[g].state = "complete"
                  PROVE  (object'[g] > 0 /\ object'[g] = file[g].size) \/ Excused(g)'
      BY <1>2 DEF ObjectsMatch
    <2>1. object'[g] = object[g]
      BY <1>4 DEF ObjectsInv, UploadTypeOK
    <2>. QED
      BY <1>3, <2>1 DEF ObjectsInv, ObjectsMatch
  <1>8. RowsStand'
    <2>1. HoldsRow(u) => file[f].state # "deleted"
      BY DEF Starts, HoldsRow, Absent
    <2>. QED
      BY <1>1, <1>2, <2>1 DEF ObjectsInv, RowsStand
  <1>. QED
    BY <1>1, <1>5, <1>6, <1>7, <1>8 DEF ObjectsInv

LEMMA ObjectsGo ==
  ASSUME ObjectsInv, NEW p \in Request, Goes(p)
  PROVE  ObjectsInv'
PROOF
  <1>0. PICK f \in File : f = up[p].file
    BY GoesFacts DEF ObjectsInv
  <1>1. /\ UploadTypeOK' /\ \A q \in Request \ {p} : up'[q] = up[q]
        /\ up'[p].file = up[p].file /\ up'[p].to = up[p].to /\ up'[p].size = up[p].size
        /\ f \in File /\ UNCHANGED <<file, used, discarded, replaced, undone>>
    BY GoesFacts DEF ObjectsInv
  <1>2. up'[p].pc \in {"remove", "count", "add", "commit"}
    BY GoesFacts DEF ObjectsInv
  <1>3. HoldsRow(up'[p]) => HoldsRow(up[p]) \/ ~RowHeld(p, f)
    BY <1>0, GoesFacts DEF ObjectsInv
  <1>4. up[p].pc = "save" => file[f].state # "deleted"
    BY <1>0, GoesFacts DEF ObjectsInv, Exists
  <1>5. UNCHANGED object \/ (object' = [object EXCEPT ![f] = 0] /\ up'[p].pc = "remove")
    BY <1>0, GoesFacts DEF ObjectsInv
  <1>6. \A g \in File : Excused(g) => Excused(g)'
    <2>1. \A q \in Request : up'[q].file = up[q].file /\ (Deletes(up[q]) => Deletes(up'[q]))
      BY <1>1, <1>2 DEF Deletes
    <2>. QED
      BY <1>1, <2>1 DEF Excused, About
  <1>7. \A g \in File : object'[g] = object[g] \/ Excused(g)'
    <2>1. CASE UNCHANGED object
      BY <2>1
    <2>2. CASE object' = [object EXCEPT ![f] = 0] /\ up'[p].pc = "remove"
      <3>1. UpWellFormed(up'[p])
        BY <1>1 DEF UploadTypeOK
      <3>2. up'[p].to = "absent"
        <4>1. up'[p] \in UpType
          BY <1>1 DEF UploadTypeOK
        <4>. QED
          BY <2>2, <3>1, <4>1 DEF UpWellFormed, UpType
      <3>3. Deletes(up'[p])
        BY <2>2, <3>2 DEF Deletes
      <3>4. Excused(f)'
        BY <1>0, <1>1, <3>3 DEF Excused, About
      <3>5. \A g \in File : g # f => object'[g] = object[g]
        BY <2>2 DEF ObjectsInv, UploadTypeOK
      <3>. QED
        BY <3>4, <3>5
    <2>. QED
      BY <1>5, <2>1, <2>2
  <1>8. RowsExclusive'
    <2>1. HoldsRow(up'[p]) => \A q \in Request \ {p} : HoldsRow(up[q]) => up[q].file # f
      BY <1>0, <1>3 DEF RowHeld, Others, HoldsRow, ObjectsInv, RowsExclusive
    <2>. QED
      BY <1>0, <1>1, <2>1 DEF ObjectsInv, RowsExclusive
  <1>9. RowsStand'
    <2>1. up[p] \in UpType /\ UpWellFormed(up[p]) /\ up[p].pc # "idle"
      BY GoesFacts DEF ObjectsInv, UploadTypeOK
    <2>2. up[p].to = "complete" => up[p].pc = "save" \/ HoldsRow(up[p])
      BY <2>1 DEF UpWellFormed, HoldsRow
    <2>3. up[p].to = "complete" => file[f].state # "deleted"
      BY <1>0, <1>4, <2>2 DEF ObjectsInv, RowsStand
    <2>. QED
      BY <1>0, <1>1, <2>3 DEF ObjectsInv, RowsStand
  <1>10. SizesStand'
    <2>. SUFFICES ASSUME NEW g \in File, NEW q \in Request, up'[q].file = g, up'[q].to = "complete"
                  PROVE  \/ object'[g] = up'[q].size \/ Excused(g)'
                         \/ up'[q].pc = "save" /\ file[g].state = "deleted"
      BY <1>1 DEF SizesStand, About
    <2>1. up[q].file = g /\ up[q].to = "complete" /\ up'[q].size = up[q].size
      BY <1>1
    <2>2. object[g] = up[q].size \/ Excused(g) \/ (up[q].pc = "save" /\ file[g].state = "deleted")
      BY <2>1 DEF ObjectsInv, SizesStand, About
    <2>3. up[q].pc = "save" /\ file[g].state = "deleted" => up'[q].pc = "save"
      BY <1>0, <1>1, <1>4, <2>1
    <2>. QED
      BY <1>6, <1>7, <2>1, <2>2, <2>3
  <1>11. ObjectsMatch'
    BY <1>1, <1>6, <1>7 DEF ObjectsInv, ObjectsMatch
  <1>. QED
    BY <1>1, <1>8, <1>9, <1>10, <1>11 DEF ObjectsInv

LEMMA PutTypes ==
  ASSUME UploadTypeOK, NEW f \in File, NEW n \in Nat, InitPresignedUpload(f, n) \/ PutObject(f, n)
  PROVE  /\ UploadTypeOK'
         /\ \A g \in File : file'[g] = file[g] \/ (About(g) = {} /\ file'[g].state = "pending")
PROOF
  <1>1. file' \in [File -> FileType] /\ \A g \in File :
          \/ file'[g] = file[g]
          \/ About(g) = {} /\ file'[g].state = "pending"
    <2>1. CASE InitPresignedUpload(f, n)
      <3>1. PICK r : r = [state |-> "pending", size |-> n, url |-> TRUE]
        OBVIOUS
      <3>2. r \in FileType /\ r.state = "pending" /\ file' = [file EXCEPT ![f] = r] /\ About(f) = {}
        BY <2>1, <3>1 DEF FileType, InitPresignedUpload
      <3>. QED
        BY <3>2 DEF UploadTypeOK
    <2>2. CASE PutObject(f, n)
      BY <2>2 DEF PutObject, UploadTypeOK
    <2>. QED
      BY <2>1, <2>2
  <1>2. object' \in [File -> Nat] /\ UNCHANGED <<up, used>>
    BY DEF InitPresignedUpload, PutObject, UploadTypeOK
  <1>. QED
    BY <1>1, <1>2 DEF UploadTypeOK

LEMMA ObjectsPut ==
  ASSUME ObjectsInv, NEW f \in File, NEW n \in Nat, InitPresignedUpload(f, n) \/ PutObject(f, n)
  PROVE  ObjectsInv'
PROOF
  <1>1. UNCHANGED up /\ used' = used /\ undone' = undone
    BY DEF InitPresignedUpload, PutObject
  <1>2. /\ UploadTypeOK'
        /\ \A g \in File : file'[g] = file[g] \/ (About(g) = {} /\ file'[g].state = "pending")
    BY PutTypes DEF ObjectsInv
  <1>4. \A g \in File : Excused(g) => Excused(g)'
    BY <1>1 DEF Excused, About, InitPresignedUpload, PutObject
  <1>5. \A g \in File :
          object'[g] = object[g] \/ Excused(g)' \/ (About(g) = {} /\ file'[g].state = "pending")
    <2>1. CASE InitPresignedUpload(f, n)
      BY <2>1 DEF InitPresignedUpload
    <2>2. CASE PutObject(f, n)
      <3>1. \A g \in File : g # f => object'[g] = object[g]
        BY <2>2 DEF PutObject, ObjectsInv, UploadTypeOK
      <3>2. f \in replaced' \/ (About(f) = {} /\ file'[f].state = "pending")
        BY <2>2 DEF PutObject
      <3>. QED
        BY <3>1, <3>2 DEF Excused
    <2>. QED
      BY <2>1, <2>2
  <1>7. RowsExclusive'
    BY <1>1 DEF ObjectsInv, RowsExclusive
  <1>8. RowsStand'
    <2>. SUFFICES ASSUME NEW p \in Request, HoldsRow(up[p]), up[p].to = "complete"
                  PROVE  file'[up[p].file].state # "deleted"
      BY <1>1 DEF RowsStand
    <2>1. up[p] \in UpType /\ UpWellFormed(up[p]) /\ up[p].pc # "idle"
      BY DEF ObjectsInv, UploadTypeOK, HoldsRow
    <2>2. up[p].file \in File
      BY <2>1 DEF UpType, UpWellFormed
    <2>. QED
      BY <1>2, <2>2 DEF ObjectsInv, RowsStand
  <1>9. SizesStand'
    BY <1>1, <1>2, <1>4, <1>5 DEF ObjectsInv, SizesStand, About
  <1>10. ObjectsMatch'
    BY <1>2, <1>4, <1>5 DEF ObjectsInv, ObjectsMatch
  <1>. QED
    BY <1>2, <1>7, <1>8, <1>9, <1>10 DEF ObjectsInv

(* A request that is over. *)
LEMMA EndsFacts ==
  ASSUME UploadTypeOK, NEW p \in Request, up' = [up EXCEPT ![p] = NoUp]
  PROVE  /\ up' \in [Request -> UpType] /\ \A q \in Request : UpWellFormed(up'[q])
         /\ up'[p] = NoUp /\ up'[p].file = None /\ ~HoldsRow(up'[p])
         /\ \A q \in Request \ {p} : up'[q] = up[q]
PROOF
  <1>1. NoUp \in UpType /\ UpWellFormed(NoUp) /\ NoUp.file = None /\ ~HoldsRow(NoUp)
    BY NoUpIsIdle DEF UpWellFormed, HoldsRow
  <1>. QED
    BY <1>1 DEF UploadTypeOK

LEMMA ObjectsAbort ==
  ASSUME ObjectsInv, NEW p \in Request, AbortUpload(p)
  PROVE  ObjectsInv'
PROOF
  <1>1. /\ up' \in [Request -> UpType] /\ \A q \in Request : UpWellFormed(up'[q])
        /\ up'[p] = NoUp /\ up'[p].file = None /\ ~HoldsRow(up'[p])
        /\ \A q \in Request \ {p} : up'[q] = up[q]
    BY EndsFacts DEF ObjectsInv, AbortUpload
  <1>2. UNCHANGED <<file, object, used, clashed, discarded, replaced>> /\ undone \subseteq undone'
        /\ (Deletes(up[p]) => up[p].file \in undone')
    BY DEF AbortUpload, Deletes
  <1>3. \A g \in File : Excused(g) => Excused(g)'
    BY <1>1, <1>2 DEF Excused, About
  <1>4. \A q \in Request : up'[q].file # None => q # p
    BY <1>1
  <1>5. SizesStand'
    <2>. SUFFICES ASSUME NEW g \in File, NEW q \in Request, up'[q].file = g, up'[q].to = "complete"
                  PROVE  \/ object[g] = up'[q].size \/ Excused(g)'
                         \/ up'[q].pc = "save" /\ file[g].state = "deleted"
      BY <1>2 DEF SizesStand, About
    <2>1. up'[q] = up[q]
      BY <1>1, <1>4, FileAssumption
    <2>. QED
      BY <1>3, <2>1 DEF ObjectsInv, SizesStand, About
  <1>6. ObjectsMatch'
    BY <1>2, <1>3 DEF ObjectsInv, ObjectsMatch
  <1>7. RowsExclusive' /\ RowsStand'
    BY <1>1, <1>2 DEF ObjectsInv, RowsExclusive, RowsStand
  <1>8. UploadTypeOK'
    BY <1>1, <1>2 DEF ObjectsInv, UploadTypeOK
  <1>. QED
    BY <1>5, <1>6, <1>7, <1>8 DEF ObjectsInv

(* What a commit writes. *)
LEMMA CommitFacts ==
  ASSUME UploadTypeOK, NEW p \in Request, CommitUpload(p)
  PROVE  LET f == up[p].file IN
         /\ f \in File /\ UploadTypeOK'
         /\ \A g \in File \ {f} : file'[g] = file[g]
         /\ file'[f].size = up[p].size
         /\ file'[f].state = "complete" <=> up[p].to = "complete"
         /\ file'[f].state \in {"deleted", "complete"}
         /\ HoldsRow(up[p])
PROOF
  <1>. DEFINE f == up[p].file
  <1>1. up[p] \in UpType /\ UpWellFormed(up[p]) /\ up[p].pc = "commit"
    BY DEF CommitUpload, UploadTypeOK
  <1>2. f \in File /\ up[p].size \in Nat /\ HoldsRow(up[p])
    BY <1>1 DEF UpType, UpWellFormed, HoldsRow
  <1>3. PICK s : s = IF up[p].to = "absent" THEN "deleted" ELSE up[p].to
    OBVIOUS
  <1>4. s \in {"deleted", "complete"} /\ (s = "complete" <=> up[p].to = "complete")
    BY <1>1, <1>3 DEF UpType
  <1>5. file' = [file EXCEPT ![f].state = s, ![f].size = up[p].size]
    BY <1>3 DEF CommitUpload
  <1>6. file' \in [File -> FileType] /\ file'[f].state = s /\ file'[f].size = up[p].size
        /\ \A g \in File \ {f} : file'[g] = file[g]
    <2>1. file[f] \in FileType
      BY <1>2 DEF UploadTypeOK
    <2>. QED
      BY <1>2, <1>4, <1>5, <2>1 DEF UploadTypeOK, FileType
  <1>7. used' \in Nat
    <2>1. up[p].saw \in Nat /\ up[p].delta \in Int
      BY <1>1 DEF UpType
    <2>. QED
      BY <2>1 DEF CommitUpload, Counted, UploadTypeOK
  <1>8. UploadTypeOK'
    <2>1. up' \in [Request -> UpType] /\ \A q \in Request : UpWellFormed(up'[q])
      BY EndsFacts DEF CommitUpload
    <2>. QED
      BY <1>6, <1>7, <2>1 DEF UploadTypeOK, CommitUpload
  <1>. QED
    BY <1>2, <1>4, <1>6, <1>8

LEMMA ObjectsCommit ==
  ASSUME ObjectsInv, NEW p \in Request, CommitUpload(p)
  PROVE  ObjectsInv'
PROOF
  <1>0. PICK f \in File : f = up[p].file
    BY CommitFacts DEF ObjectsInv
  <1>1. /\ f \in File /\ UploadTypeOK' /\ \A g \in File \ {f} : file'[g] = file[g]
        /\ file'[f].size = up[p].size /\ (file'[f].state = "complete" <=> up[p].to = "complete")
        /\ file'[f].state \in {"deleted", "complete"} /\ HoldsRow(up[p])
    BY <1>0, CommitFacts DEF ObjectsInv
  <1>2. up'[p] = NoUp /\ up'[p].file = None /\ ~HoldsRow(up'[p])
        /\ \A q \in Request \ {p} : up'[q] = up[q]
    BY EndsFacts DEF ObjectsInv, CommitUpload
  <1>3. UNCHANGED <<object, replaced, undone>>
    BY <1>0 DEF CommitUpload
  <1>4. \A q \in Request : up'[q].file # None => q # p /\ up'[q] = up[q]
    BY <1>2
  <1>5. \A q \in Request \ {p} : HoldsRow(up[q]) => up[q].file # f
    BY <1>0, <1>1 DEF ObjectsInv, RowsExclusive
  <1>6. \A g \in File : Excused(g) => Excused(g)' \/ (g = f /\ file'[f].state = "deleted")
    <2>1. Deletes(up[p]) => file'[f].state = "deleted"
      BY <1>1 DEF Deletes
    <2>. QED
      BY <1>0, <1>2, <1>3, <2>1 DEF Excused, About
  <1>7. up[p].to = "complete" => (object[f] > 0 /\ object[f] = up[p].size) \/ Excused(f)'
    <2>. SUFFICES ASSUME up[p].to = "complete"
                  PROVE  (object[f] > 0 /\ object[f] = up[p].size) \/ Excused(f)'
      OBVIOUS
    <2>1. p \in About(f) /\ up[p].pc # "save"
      BY <1>0 DEF About, CommitUpload
    <2>2. object[f] = up[p].size \/ Excused(f)
      BY <1>1, <2>1 DEF ObjectsInv, SizesStand
    <2>3. up[p].size > 0
      BY <1>0 DEF ObjectsInv, UploadTypeOK, UpWellFormed
    <2>. QED
      BY <1>1, <1>6, <2>2, <2>3
  <1>8. ObjectsMatch'
    <2>. SUFFICES ASSUME NEW g \in File, file'[g].state = "complete"
                  PROVE  (object[g] > 0 /\ object[g] = file'[g].size) \/ Excused(g)'
      BY <1>3 DEF ObjectsMatch
    <2>1. CASE g = f
      BY <1>1, <1>7, <2>1
    <2>2. CASE g # f
      BY <1>1, <1>6, <2>2 DEF ObjectsInv, ObjectsMatch
    <2>. QED
      BY <2>1, <2>2
  <1>9. SizesStand'
    <2>. SUFFICES ASSUME NEW g \in File, NEW q \in Request, up'[q].file = g, up'[q].to = "complete"
                  PROVE  \/ object[g] = up'[q].size \/ Excused(g)'
                         \/ up'[q].pc = "save" /\ file'[g].state = "deleted"
      BY <1>3 DEF SizesStand, About
    <2>1. q # p /\ up'[q] = up[q] /\ q \in About(g)
      BY <1>4, FileAssumption DEF About
    <2>2. object[g] = up[q].size \/ Excused(g) \/ (up[q].pc = "save" /\ file[g].state = "deleted")
      BY <2>1 DEF ObjectsInv, SizesStand
    <2>3. CASE g # f
      BY <1>1, <1>6, <2>1, <2>2, <2>3
    <2>4. CASE g = f
      <3>1. up[q] \in UpType /\ UpWellFormed(up[q]) /\ ~HoldsRow(up[q])
        BY <1>5, <2>1, <2>4 DEF ObjectsInv, UploadTypeOK, About
      <3>2. up[q].pc = "save"
        BY <2>1, <3>1 DEF UpWellFormed, HoldsRow
      <3>3. CASE file'[f].state = "deleted"
        BY <2>1, <2>4, <3>2, <3>3
      <3>4. CASE up[p].to = "complete" /\ file'[f].state = "complete"
        <4>1. file[f].state # "deleted"
          BY <1>0, <1>1, <3>4 DEF ObjectsInv, RowsStand
        <4>. QED
          BY <1>6, <2>1, <2>2, <2>4, <3>4, <4>1
      <3>. QED
        BY <1>1, <3>3, <3>4
    <2>. QED
      BY <2>3, <2>4
  <1>10. RowsExclusive'
    BY <1>2 DEF ObjectsInv, RowsExclusive
  <1>11. RowsStand'
    <2>. SUFFICES ASSUME NEW q \in Request \ {p}, HoldsRow(up[q]), up[q].to = "complete"
                  PROVE  file'[up[q].file].state # "deleted"
      BY <1>2 DEF RowsStand
    <2>1. up[q] \in UpType /\ UpWellFormed(up[q]) /\ up[q].pc # "idle"
      BY <1>0 DEF ObjectsInv, UploadTypeOK, HoldsRow
    <2>2. up[q].file \in File
      BY <2>1 DEF UpType, UpWellFormed
    <2>. QED
      BY <1>1, <1>5, <2>2 DEF ObjectsInv, RowsStand
  <1>. QED
    BY <1>1, <1>8, <1>9, <1>10, <1>11 DEF ObjectsInv

LEMMA ObjectsStep == ObjectsInv /\ [UploadNext]_uploadVars => ObjectsInv'
PROOF
  <1>. SUFFICES ASSUME ObjectsInv, [UploadNext]_uploadVars
                PROVE  ObjectsInv'
    OBVIOUS
  <1>1. ASSUME NEW f \in File, NEW n \in 1 .. MaxBytes + 1,
               InitPresignedUpload(f, n) \/ PutObject(f, n)
        PROVE  ObjectsInv'
    BY <1>1, ObjectsPut, UploadAssumption
  <1>2. ASSUME NEW p \in Request, NEW f \in File,
               BeginComplete(p, f) \/ BeginDelete(p, f) \/ \E n \in 1 .. MaxBytes : BeginDirect(p, f, n)
        PROVE  ObjectsInv'
    <2>1. PICK u : Starts(p, f, u)
      BY <1>2, StartsCover DEF ObjectsInv
    <2>. QED
      BY <2>1, ObjectsStart
  <1>3. ASSUME NEW p \in Request,
               SaveRow(p) \/ DropObject(p) \/ RemoveRow(p) \/ ReadCount(p) \/ AddDelta(p)
        PROVE  ObjectsInv'
    <2>1. Goes(p)
      BY <1>3, GoesCovers DEF ObjectsInv
    <2>. QED
      BY <2>1, ObjectsGo
  <1>4. CASE UNCHANGED uploadVars
    BY <1>4 DEF uploadVars, ObjectsInv, UploadTypeOK, RowsExclusive, RowsStand, SizesStand,
                ObjectsMatch, Excused, About
  <1>5. 1 .. MaxBytes \subseteq 1 .. MaxBytes + 1
    BY UploadAssumption
  <1>. QED
    BY <1>1, <1>2, <1>3, <1>4, <1>5, ObjectsCommit, ObjectsAbort DEF UploadNext

LEMMA ObjectsBegin == UploadInit => ObjectsInv
PROOF
  <1>. SUFFICES ASSUME UploadInit
                PROVE  ObjectsInv
    OBVIOUS
  <1>1. UploadTypeOK
    <2>1. Absent \in FileType
      BY DEF Absent, FileType
    <2>2. \A p \in Request : up[p] = NoUp
      BY DEF UploadInit
    <2>3. up \in [Request -> UpType]
      BY NoUpIsIdle DEF UploadInit
    <2>. QED
      BY <2>1, <2>2, <2>3, NoUpIsIdle DEF UploadInit, UploadTypeOK
  <1>2. \A p \in Request : ~HoldsRow(up[p]) /\ up[p].to = "absent"
    BY NoUpIsIdle DEF UploadInit, HoldsRow
  <1>3. \A f \in File : file[f].state = "absent"
    BY DEF UploadInit, Absent
  <1>. QED
    BY <1>1, <1>2, <1>3 DEF ObjectsInv, RowsExclusive, RowsStand, SizesStand, ObjectsMatch, About

(* Every complete file has its object, of the size that was counted, but for  *)
(* the exceptions RowsHaveObjects names (complete_upload, direct_upload and    *)
(* delete_media, with failures between any two steps).                        *)
THEOREM CompleteHaveObjects == UploadSpec => []RowsHaveObjects
PROOF
  <1>1. ObjectsInv => RowsHaveObjects
    BY DEF ObjectsInv, ObjectsMatch, RowsHaveObjects, Complete, Excused, Deletes
  <1>. QED
    BY <1>1, ObjectsBegin, ObjectsStep, PTL DEF UploadSpec

(* The bytes of one file, of which there are its size, and of all. *)
BytesOf(f, n) == {f} \X (1 .. n)

LEMMA BytesOfOne ==
  ASSUME NEW f, NEW n \in Nat
  PROVE  IsFiniteSet(BytesOf(f, n)) /\ Cardinality(BytesOf(f, n)) = n
PROOF
  <1>1. IsFiniteSet(1 .. n) /\ Cardinality(1 .. n) = n
    BY FS_Interval
  <1>2. IsFiniteSet({f}) /\ Cardinality({f}) = 1
    BY FS_Singleton
  <1>3. IsFiniteSet({f} \X (1 .. n)) /\ Cardinality({f} \X (1 .. n)) = Cardinality({f}) * Cardinality(1 .. n)
    BY <1>1, <1>2, FS_Product
  <1>. QED
    BY <1>1, <1>2, <1>3 DEF BytesOf

LEMMA BytesAreFinite == UploadTypeOK => IsFiniteSet(Bytes)
PROOF
  <1>. SUFFICES ASSUME UploadTypeOK
                PROVE  IsFiniteSet(Bytes)
    OBVIOUS
  <1>1. IsFiniteSet(Complete)
    BY FileAssumption, FS_Subset DEF Complete
  <1>2. PICK part : part = [f \in Complete |-> BytesOf(f, file[f].size)]
    OBVIOUS
  <1>. DEFINE parts == {part[f] : f \in Complete}
  <1>3. IsFiniteSet(parts)
    <2>1. PICK T : T = {part[f] : f \in Complete}
      OBVIOUS
    <2>2. part \in [Complete -> T]
      BY <1>2, <2>1
    <2>. QED
      BY <1>1, <2>2, FiniteImage
  <1>4. \A f \in Complete : file[f].size \in Nat
    BY DEF UploadTypeOK, FileType, Complete
  <1>5. \A T \in parts : IsFiniteSet(T)
    BY <1>2, <1>4, BytesOfOne
  <1>6. IsFiniteSet(UNION parts)
    BY <1>3, <1>5, FS_UNION
  <1>7. Bytes = UNION parts
    BY <1>2 DEF Bytes, BytesOf
  <1>. QED
    BY <1>6, <1>7

(* The count.  The bytes of a file that becomes complete are new, those of a    *)
(* complete file that is deleted are among the bytes.                          *)
LEMMA BytesAdded ==
  ASSUME UploadTypeOK, NEW f \in File, NEW n \in Nat, f \notin Complete
  PROVE  Cardinality(Bytes \union BytesOf(f, n)) = Cardinality(Bytes) + n
PROOF
  <1>1. IsFiniteSet(Bytes) /\ IsFiniteSet(BytesOf(f, n)) /\ Cardinality(BytesOf(f, n)) = n
    BY BytesAreFinite, BytesOfOne
  <1>2. Bytes \intersect BytesOf(f, n) = {}
    BY DEF Bytes, BytesOf
  <1>3. Cardinality(Bytes) \in Nat
    BY <1>1, FS_CardinalityType
  <1>. QED
    BY <1>1, <1>2, <1>3, FS_Union, FS_EmptySet

LEMMA BytesRemoved ==
  ASSUME UploadTypeOK, NEW f \in Complete
  PROVE  /\ Cardinality(Bytes \ BytesOf(f, file[f].size)) = Cardinality(Bytes) - file[f].size
         /\ file[f].size <= Cardinality(Bytes)
PROOF
  <1>1. f \in File /\ file[f].size \in Nat
    BY DEF Complete, UploadTypeOK, FileType
  <1>2. IsFiniteSet(Bytes) /\ Cardinality(BytesOf(f, file[f].size)) = file[f].size
    BY <1>1, BytesAreFinite, BytesOfOne
  <1>3. BytesOf(f, file[f].size) \subseteq Bytes
    BY DEF Bytes, BytesOf
  <1>4. Bytes \intersect BytesOf(f, file[f].size) = BytesOf(f, file[f].size)
    BY <1>3
  <1>5. Cardinality(Bytes \ BytesOf(f, file[f].size)) = Cardinality(Bytes) - file[f].size
    <2>1. PICK B : B = BytesOf(f, file[f].size)
      OBVIOUS
    <2>2. Cardinality(Bytes \ B) = Cardinality(Bytes) - Cardinality(Bytes \intersect B)
      BY <1>2, FS_Difference
    <2>. QED
      BY <1>2, <1>4, <2>1, <2>2
  <1>. QED
    BY <1>2, <1>3, <1>5, FS_Subset

LEMMA CountStarts ==
  ASSUME CountInv, NEW p \in Request, NEW f \in File, NEW u, Starts(p, f, u)
  PROVE  CountInv'
PROOF
  <1>1. UploadTypeOK' /\ up'[p] = u /\ up[p].file = None /\ \A q \in Request \ {p} : up'[q] = up[q]
    BY StartsFacts DEF CountInv
  <1>2. /\ u.file = f /\ UNCHANGED <<file, used>>
        /\ (clashed => clashed') /\ (discarded => discarded')
    BY DEF Starts, Begun
  <1>3. UsedIsSum'
    <2>1. clashed \/ discarded \/ used = Cardinality(Bytes)
      BY DEF CountInv, UsedIsSum
    <2>2. Bytes' = Bytes
      BY <1>2 DEF Bytes, Complete
    <2>3. used = Cardinality(Bytes) => (used = Cardinality(Bytes))'
      BY <1>2, <2>2
    <2>. QED
      BY <1>2, <2>1, <2>3 DEF UsedIsSum
  <1>4. CASE clashed' \/ discarded'
    BY <1>1, <1>3, <1>4 DEF CountInv
  <1>5. CASE ~clashed' /\ ~discarded'
    <2>1. Apart /\ About(f) = {}
      BY <1>2, <1>5 DEF CountInv, Apart, Starts
    <2>2. FilesApart'
      <3>1. \A q \in Request : up[q].file # f
        BY <2>1 DEF About
      <3>. QED
        BY <1>1, <1>2, <2>1, <3>1 DEF Apart, FilesApart
    <2>3. ~Counting(u)
      BY DEF Starts, Counting
    <2>4. CountsStand'
      BY <1>1, <1>2, <2>1, <2>3 DEF Apart, CountsStand
    <2>5. DeltaFits(u)
      BY <1>2, <1>5 DEF Starts, DeltaFits, Complete, Absent
    <2>6. \A q \in Request : up'[q].pc # "idle" => DeltaFits(up'[q])
      BY <1>1, <2>1, <2>5 DEF Apart
    <2>7. (\A q \in Request : up[q].pc # "idle" => DeltaFits(up[q]))'
      BY <1>2, <2>6 DEF DeltaFits, Complete
    <2>. QED
      BY <1>1, <1>3, <2>2, <2>4, <2>7 DEF CountInv, Apart
  <1>. QED
    BY <1>4, <1>5

LEMMA CountGoes ==
  ASSUME CountInv, NEW p \in Request, Goes(p)
  PROVE  CountInv'
PROOF
  <1>1. /\ UploadTypeOK' /\ \A q \in Request \ {p} : up'[q] = up[q]
        /\ up'[p].file = up[p].file /\ up'[p].to = up[p].to /\ up'[p].delta = up[p].delta
        /\ up[p].pc # "idle" /\ UNCHANGED <<file, used, discarded>> /\ (clashed => clashed')
    BY GoesFacts DEF CountInv
  <1>2. Counting(up'[p]) =>
          \/ Counting(up[p]) /\ up'[p].saw = up[p].saw
          \/ up'[p].saw = used /\ (clashed' \/ \A q \in Others(p) : ~Counting(up[q]))
    BY GoesFacts DEF CountInv
  <1>3. UsedIsSum'
    <2>1. clashed \/ discarded \/ used = Cardinality(Bytes)
      BY DEF CountInv, UsedIsSum
    <2>2. Bytes' = Bytes
      BY <1>1 DEF Bytes, Complete
    <2>3. used = Cardinality(Bytes) => (used = Cardinality(Bytes))'
      BY <1>1, <2>2
    <2>. QED
      BY <1>1, <2>1, <2>3 DEF UsedIsSum
  <1>4. CASE clashed' \/ discarded'
    BY <1>1, <1>3, <1>4 DEF CountInv
  <1>5. CASE ~clashed' /\ ~discarded'
    <2>1. Apart
      BY <1>1, <1>5 DEF CountInv, Apart
    <2>2. FilesApart'
      BY <1>1, <2>1 DEF Apart, FilesApart
    <2>3. CountsStand'
      <3>. SUFFICES ASSUME NEW q \in Request, Counting(up'[q])
                    PROVE  up'[q].saw = used /\ \A r \in Request \ {q} : ~Counting(up'[r])
        BY <1>1 DEF CountsStand
      <3>1. CASE q = p
        <4>1. up'[p].saw = used /\ \A r \in Request \ {p} : ~Counting(up[r])
          BY <1>2, <1>5, <2>1, <3>1 DEF Apart, CountsStand, Others
        <4>. QED
          BY <1>1, <3>1, <4>1
      <3>2. CASE q # p
        <4>1. up'[q] = up[q] /\ up[q].saw = used /\ \A r \in Request \ {q} : ~Counting(up[r])
          BY <1>1, <2>1, <3>2 DEF Apart, CountsStand
        <4>2. ~Counting(up'[p])
          BY <1>2, <1>5, <3>2, <4>1 DEF Others
        <4>. QED
          BY <1>1, <3>2, <4>1, <4>2
      <3>. QED
        BY <3>1, <3>2
    <2>4. \A q \in Request : up'[q].pc # "idle" => DeltaFits(up'[q])
      BY <1>1, <2>1 DEF Apart, DeltaFits
    <2>5. (\A q \in Request : up[q].pc # "idle" => DeltaFits(up[q]))'
      BY <1>1, <2>4 DEF DeltaFits, Complete
    <2>. QED
      BY <1>1, <1>3, <2>2, <2>3, <2>5 DEF CountInv, Apart
  <1>. QED
    BY <1>4, <1>5

LEMMA CountPut ==
  ASSUME CountInv, UploadTypeOK', NEW f \in File, NEW n \in Nat, InitPresignedUpload(f, n) \/ PutObject(f, n)
  PROVE  CountInv'
PROOF
  <1>1. UNCHANGED <<up, used, clashed, discarded>>
    BY DEF InitPresignedUpload, PutObject
  <1>2. \A g \in File :
          \/ file'[g] = file[g]
          \/ About(g) = {} /\ file[g].state # "complete" /\ file'[g].state # "complete"
    <2>1. CASE InitPresignedUpload(f, n)
      BY <2>1 DEF InitPresignedUpload, Absent, CountInv, UploadTypeOK
    <2>2. CASE PutObject(f, n)
      BY <2>2 DEF PutObject
    <2>. QED
      BY <2>1, <2>2
  <1>3. Complete' = Complete /\ \A g \in Complete : file'[g] = file[g]
    BY <1>2 DEF Complete
  <1>4. UsedIsSum'
    <2>1. Bytes' = Bytes
      BY <1>3 DEF Bytes
    <2>. QED
      BY <1>1, <2>1 DEF CountInv, UsedIsSum
  <1>5. (clashed \/ discarded \/ Apart)'
    <2>1. clashed \/ discarded \/ Apart
      BY DEF CountInv, Apart
    <2>2. Apart => Apart'
      BY <1>1, <1>3 DEF Apart, FilesApart, CountsStand, DeltaFits
    <2>. QED
      BY <1>1, <2>1, <2>2
  <1>. QED
    BY <1>4, <1>5 DEF CountInv, Apart

LEMMA CountAbort ==
  ASSUME CountInv, UploadTypeOK', NEW p \in Request, AbortUpload(p)
  PROVE  CountInv'
PROOF
  <1>1. up'[p] = NoUp /\ \A q \in Request \ {p} : up'[q] = up[q]
    BY EndsFacts DEF CountInv, AbortUpload
  <1>2. up'[p].pc = "idle" /\ ~Counting(up'[p])
    BY <1>1, NoUpIsIdle DEF Counting
  <1>3. UNCHANGED <<file, used, clashed, discarded>>
    BY DEF AbortUpload
  <1>4. UsedIsSum'
    <2>1. Bytes' = Bytes
      BY <1>3 DEF Bytes, Complete
    <2>. QED
      BY <1>3, <2>1 DEF CountInv, UsedIsSum
  <1>5. Apart => Apart'
    <2>. SUFFICES ASSUME Apart
                  PROVE  Apart'
      OBVIOUS
    <2>1. FilesApart' /\ CountsStand'
      BY <1>1, <1>2, <1>3 DEF Apart, FilesApart, CountsStand
    <2>2. \A q \in Request : up'[q].pc # "idle" => DeltaFits(up'[q])
      BY <1>1, <1>2 DEF Apart
    <2>3. (\A q \in Request : up[q].pc # "idle" => DeltaFits(up[q]))'
      BY <1>3, <2>2 DEF DeltaFits, Complete
    <2>. QED
      BY <2>1, <2>3 DEF Apart
  <1>. QED
    BY <1>3, <1>4, <1>5 DEF CountInv, Apart

(* A request that commits by itself writes the count its file then has. *)
LEMMA CommitAdds ==
  ASSUME CountInv, Apart, ~clashed, ~discarded, NEW p \in Request, CommitUpload(p)
  PROVE  used' = Cardinality(Bytes')
PROOF
  <1>0. PICK f \in File : f = up[p].file
    BY CommitFacts DEF CountInv
  <1>1. /\ \A g \in File \ {f} : file'[g] = file[g]
        /\ file'[f].size = up[p].size /\ (file'[f].state = "complete" <=> up[p].to = "complete")
    BY <1>0, CommitFacts DEF CountInv
  <1>2. up[p] \in UpType /\ UpWellFormed(up[p]) /\ up[p].pc = "commit" /\ DeltaFits(up[p])
    BY DEF CountInv, UploadTypeOK, CommitUpload, Apart
  <1>3. used = Cardinality(Bytes) /\ used \in Nat
    BY DEF CountInv, UsedIsSum, UploadTypeOK
  <1>4. up[p].delta # 0 => up[p].saw = used
    BY <1>2 DEF Apart, CountsStand, Counting
  <1>5. used' = Counted(up[p])
    BY DEF CommitUpload
  <1>6. CASE up[p].to = "complete"
    <2>1. f \notin Complete /\ up[p].delta = up[p].size /\ up[p].size \in Nat \ {0}
      BY <1>0, <1>2, <1>6 DEF DeltaFits, UpWellFormed, UpType
    <2>2. used' = used + up[p].size
      BY <1>3, <1>4, <1>5, <2>1 DEF Counted
    <2>3. Complete' = Complete \union {f}
      BY <1>1, <1>6 DEF Complete
    <2>4. Bytes' = Bytes \union BytesOf(f, up[p].size)
      BY <1>1, <2>1, <2>3 DEF Bytes, BytesOf, Complete
    <2>. QED
      BY <1>3, <2>1, <2>2, <2>4, BytesAdded DEF CountInv
  <1>7. CASE up[p].to = "absent" /\ f \notin Complete
    <2>1. used' = used
      BY <1>0, <1>2, <1>5, <1>7 DEF DeltaFits, Counted
    <2>2. Complete' = Complete
      BY <1>1, <1>7 DEF Complete
    <2>3. Bytes' = Bytes
      BY <1>1, <1>7, <2>2 DEF Bytes, Complete
    <2>. QED
      BY <1>3, <2>1, <2>3
  <1>8. CASE up[p].to = "absent" /\ f \in Complete
    <2>1. up[p].delta = -file[f].size /\ file[f].size \in Nat
      BY <1>0, <1>2, <1>8 DEF DeltaFits, CountInv, UploadTypeOK, FileType
    <2>2. Cardinality(Bytes \ BytesOf(f, file[f].size)) = used - file[f].size /\ file[f].size <= used
      BY <1>3, <1>8, BytesRemoved DEF CountInv
    <2>3. used' = used - file[f].size
      BY <1>3, <1>4, <1>5, <2>1, <2>2 DEF Counted
    <2>4. Complete' = Complete \ {f}
      BY <1>1, <1>8 DEF Complete
    <2>5. Bytes' = Bytes \ BytesOf(f, file[f].size)
      BY <1>1, <2>4 DEF Bytes, BytesOf, Complete
    <2>. QED
      BY <2>2, <2>3, <2>5
  <1>. QED
    BY <1>2, <1>6, <1>7, <1>8 DEF UpType

LEMMA CountCommit ==
  ASSUME CountInv, UploadTypeOK', NEW p \in Request, CommitUpload(p)
  PROVE  CountInv'
PROOF
  <1>1. up'[p] = NoUp /\ \A q \in Request \ {p} : up'[q] = up[q]
    BY EndsFacts DEF CountInv, CommitUpload
  <1>2. up'[p].pc = "idle" /\ ~Counting(up'[p]) /\ up[p].pc = "commit"
    BY <1>1, NoUpIsIdle DEF Counting, CommitUpload
  <1>3. UNCHANGED <<clashed, discarded>>
    BY DEF CommitUpload
  <1>4. CASE clashed \/ discarded
    BY <1>3, <1>4 DEF CountInv, UsedIsSum
  <1>5. CASE ~clashed /\ ~discarded
    <2>1. Apart
      BY <1>5 DEF CountInv, Apart
    <2>2. UsedIsSum'
      BY <1>5, <2>1, CommitAdds DEF UsedIsSum
    <2>3. FilesApart'
      BY <1>1, <1>2, <2>1 DEF Apart, FilesApart
    <2>4. CountsStand'
      <3>. SUFFICES ASSUME NEW q \in Request \ {p}, Counting(up[q])
                    PROVE  up[q].saw = used' /\ \A r \in Request \ {q} : ~Counting(up'[r])
        BY <1>1, <1>2 DEF CountsStand
      <3>1. up[q].saw = used /\ \A r \in Request \ {q} : ~Counting(up[r])
        BY <2>1 DEF Apart, CountsStand
      <3>2. up[p].delta = 0
        BY <1>2, <3>1 DEF Counting
      <3>3. used' = used
        BY <3>2 DEF CommitUpload, Counted
      <3>. QED
        BY <1>1, <1>2, <3>1, <3>3
    <2>5. \A q \in Request : up'[q].pc # "idle" => up'[q] = up[q] /\ up[q].file # up[p].file
                               /\ DeltaFits(up[q])
      BY <1>1, <1>2, <2>1 DEF Apart, FilesApart
    <2>6. \A g \in File : g # up[p].file => file'[g] = file[g]
      BY CommitFacts DEF CountInv
    <2>7. (\A q \in Request : up[q].pc # "idle" => DeltaFits(up[q]))'
      BY <2>5, <2>6 DEF DeltaFits, Complete
    <2>. QED
      BY <2>2, <2>3, <2>4, <2>7 DEF CountInv, Apart
  <1>. QED
    BY <1>4, <1>5

LEMMA CountStep == CountInv /\ [UploadNext]_uploadVars => CountInv'
PROOF
  <1>. SUFFICES ASSUME CountInv, [UploadNext]_uploadVars
                PROVE  CountInv'
    OBVIOUS
  <1>1. ASSUME NEW f \in File, NEW n \in 1 .. MaxBytes + 1,
               InitPresignedUpload(f, n) \/ PutObject(f, n)
        PROVE  CountInv'
    <2>1. n \in Nat
      BY UploadAssumption
    <2>. QED
      BY <1>1, <2>1, PutTypes, CountPut DEF CountInv
  <1>2. ASSUME NEW p \in Request, NEW f \in File,
               BeginComplete(p, f) \/ BeginDelete(p, f) \/ \E n \in 1 .. MaxBytes : BeginDirect(p, f, n)
        PROVE  CountInv'
    <2>1. PICK u : Starts(p, f, u)
      BY <1>2, StartsCover DEF CountInv
    <2>. QED
      BY <2>1, CountStarts
  <1>3. ASSUME NEW p \in Request,
               SaveRow(p) \/ DropObject(p) \/ RemoveRow(p) \/ ReadCount(p) \/ AddDelta(p)
        PROVE  CountInv'
    <2>1. Goes(p)
      BY <1>3, GoesCovers DEF CountInv
    <2>. QED
      BY <2>1, CountGoes
  <1>4. ASSUME NEW p \in Request, CommitUpload(p)
        PROVE  CountInv'
    <2>1. UploadTypeOK'
      BY <1>4, CommitFacts DEF CountInv
    <2>. QED
      BY <1>4, <2>1, CountCommit
  <1>5. ASSUME NEW p \in Request, AbortUpload(p)
        PROVE  CountInv'
    <2>1. up' \in [Request -> UpType] /\ \A q \in Request : UpWellFormed(up'[q])
      BY <1>5, EndsFacts DEF CountInv, AbortUpload
    <2>2. UploadTypeOK'
      BY <1>5, <2>1 DEF CountInv, UploadTypeOK, AbortUpload
    <2>. QED
      BY <1>5, <2>2, CountAbort
  <1>6. CASE UNCHANGED uploadVars
    <2>1. UploadTypeOK' /\ UsedIsSum'
      BY <1>6 DEF uploadVars, CountInv, UploadTypeOK, UsedIsSum, Bytes, Complete
    <2>2. (clashed \/ discarded \/ Apart)'
      BY <1>6 DEF uploadVars, CountInv, Apart, FilesApart, CountsStand, DeltaFits, Complete
    <2>. QED
      BY <2>1, <2>2 DEF CountInv, Apart
  <1>7. 1 .. MaxBytes \subseteq 1 .. MaxBytes + 1
    BY UploadAssumption
  <1>. QED
    BY <1>1, <1>2, <1>3, <1>4, <1>5, <1>6, <1>7 DEF UploadNext

LEMMA CountBegins == UploadInit => CountInv
PROOF
  <1>. SUFFICES ASSUME UploadInit
                PROVE  CountInv
    OBVIOUS
  <1>1. UploadTypeOK
    BY ObjectsBegin DEF ObjectsInv
  <1>2. \A p \in Request : up[p].pc = "idle"
    BY NoUpIsIdle DEF UploadInit
  <1>3. FilesApart /\ CountsStand
    BY <1>2 DEF FilesApart, CountsStand, Counting
  <1>4. Bytes = {}
    BY DEF UploadInit, Absent, Bytes, Complete
  <1>5. used = Cardinality(Bytes)
    BY <1>4, FS_EmptySet DEF UploadInit
  <1>. QED
    BY <1>1, <1>2, <1>3, <1>5 DEF CountInv, UsedIsSum, Apart

(* The count of used bytes is the number of the bytes of the complete files,  *)
(* as long as no two requests change it, or one file, at once and no pending  *)
(* upload is deleted (_apply_quota_delta and its callers, with failures).     *)
THEOREM CountIsSum == UploadSpec => []UsedIsSum
PROOF
  <1>1. CountInv => UsedIsSum
    BY DEF CountInv
  <1>. QED
    BY <1>1, CountBegins, CountStep, PTL DEF UploadSpec
=============================================================================
