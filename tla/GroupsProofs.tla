---------------------------- MODULE GroupsProofs ----------------------------
(***************************************************************************)
(* The theorems about groups, private conversations, polls, the catch-up of *)
(* a client, edits and assignments, for any number of users, requests and   *)
(* rows.                                                                    *)
(***************************************************************************)
EXTENDS Members, Threads, Polls, CatchUp, Edits, Assignments, FiniteFacts

-----------------------------------------------------------------------------
(* Edits.  Until two edits overlap, what an edit has read is the text of the *)
(* message still, unless a deletion has emptied it.                          *)

EditTypeOK ==
  /\ texts \in Nat \ {0} /\ text \in 0 .. texts
  /\ rewrite \in [Request -> [pc : {"idle", "read", "held"}, saw : Nat, deletes : BOOLEAN]]

EditsReadCurrent ==
  \A p \in Request : Editing(p) => text \in {rewrite[p].saw, Emptied}

EditInv == EditTypeOK /\ EveryTextKept /\ (editsMet \/ EditsReadCurrent)

LEMMA EditStep == EditInv /\ [EditNext]_editVars => EditInv'
PROOF
  <1>. SUFFICES ASSUME EditInv, [EditNext]_editVars PROVE EditInv'
    OBVIOUS
  <1>. USE DEF EditInv, EditTypeOK, EveryTextKept, EditsReadCurrent, Editing, Emptied, NoRewrite
  <1>1. CASE UNCHANGED editVars
    BY <1>1 DEF editVars
  <1>2. ASSUME NEW p \in Request, NEW deletes \in BOOLEAN, BeginRewrite(p, deletes)
        PROVE  EditInv'
    BY <1>2 DEF BeginRewrite
  <1>3. ASSUME NEW p \in Request, HoldMessage(p) PROVE EditInv'
    BY <1>3 DEF HoldMessage
  <1>4. ASSUME NEW p \in Request, CommitEdit(p) PROVE EditInv'
    <2>1. EditTypeOK'
      BY <1>4 DEF CommitEdit, Stores
    <2>2. editsMet' \/ EditsReadCurrent'
      BY <1>4 DEF CommitEdit, Stores
    <2>3. EveryTextKept'
      <3>. SUFFICES ASSUME ~editsMet', NEW t \in 1 .. texts'
                    PROVE  t \in {text'} \union archived' \union emptied'
        OBVIOUS
      <3>1. ~editsMet /\ text \in {rewrite[p].saw, 0}
        BY <1>4 DEF CommitEdit, Stores
      <3>2. t = texts + 1 \/ t \in 1 .. texts
        BY <1>4 DEF CommitEdit, Stores
      <3>. QED
        BY <1>4, <3>1, <3>2 DEF CommitEdit, Stores
    <2>. QED
      BY <2>1, <2>2, <2>3
  <1>5. ASSUME NEW p \in Request, CommitEmpty(p) PROVE EditInv'
    <2>1. EditTypeOK' /\ (editsMet' \/ EditsReadCurrent')
      BY <1>5 DEF CommitEmpty
    <2>2. EveryTextKept'
      BY <1>5 DEF CommitEmpty
    <2>. QED
      BY <2>1, <2>2
  <1>6. ASSUME NEW p \in Request, AbortRewrite(p) PROVE EditInv'
    BY <1>6 DEF AbortRewrite
  <1>. QED
    BY <1>1, <1>2, <1>3, <1>4, <1>5, <1>6 DEF EditNext

(* edit_message and delete_message: until two edits overlap, every text the   *)
(* message has had is shown, archived or taken away by a deletion.           *)
THEOREM TextsAreKept == EditSpec => []EveryTextKept
PROOF
  <1>1. EditInit => EditInv
    BY DEF EditInit, EditInv, EditTypeOK, EveryTextKept, EditsReadCurrent, Editing, NoRewrite, Emptied
  <1>2. EditInv => EveryTextKept
    BY DEF EditInv
  <1>. QED
    BY <1>1, <1>2, EditStep, PTL DEF EditSpec

-----------------------------------------------------------------------------
(* CatchUp.  A page on its way holds, with what was seen before, what was    *)
(* late and what it cuts off, everything listed up to its last instant.      *)

CatchUpTypeOK ==
  /\ clock \in Nat /\ cursor \in Nat
  /\ sent \in [Post -> Nat]
  /\ stage \in [Post -> {"none", "sending", "shown", "deleted"}]
  /\ page \in [asked : BOOLEAN, rows : SUBSET Post, last : Nat, cut : SUBSET Post]

PageIsComplete ==
  page.asked => \A m \in Listed :
    sent[m] <= page.last => m \in seen \union late \union tied \union page.rows \union page.cut

CatchUpInv == CatchUpTypeOK /\ NothingSkipped /\ PageIsComplete

LEMMA AskInv ==
  ASSUME CatchUpInv, NEW rows \in SUBSET Newer, AskPage(rows)
  PROVE  CatchUpInv'
PROOF
  <1>1. PICK z \in rows :
          /\ \A r \in rows : sent[r] <= sent[z]
          /\ page' = [asked |-> TRUE, rows |-> rows, last |-> sent[z],
                      cut |-> {x \in Newer \ rows : sent[x] = sent[z]}]
    BY DEF AskPage, Asks
  <1>2. z \in Post /\ sent[z] \in Nat /\ rows \subseteq Post /\ Newer \subseteq Post
    BY DEF CatchUpInv, CatchUpTypeOK, Newer, Listed
  <1>3. CatchUpTypeOK'
    BY <1>1, <1>2 DEF CatchUpInv, CatchUpTypeOK, AskPage, Asks
  <1>4. NothingSkipped'
    BY DEF CatchUpInv, NothingSkipped, Listed, AskPage, Asks
  <1>5. ASSUME NEW m \in Listed, sent[m] <= sent[z], m \notin seen \union late \union tied,
               m \notin rows
        PROVE  m \in Newer \ rows /\ sent[m] = sent[z]
    <2>1. m \in Newer
      BY <1>5 DEF CatchUpInv, CatchUpTypeOK, NothingSkipped, Newer, Listed
    <2>2. sent[z] <= sent[m] /\ sent[m] \in Nat
      BY <1>5, <2>1 DEF AskPage, CatchUpInv, CatchUpTypeOK, Listed
    <2>. QED
      BY <1>2, <1>5, <2>1, <2>2
  <1>6. PageIsComplete'
    BY <1>1, <1>5 DEF PageIsComplete, Listed, AskPage, Asks
  <1>. QED
    BY <1>3, <1>4, <1>6 DEF CatchUpInv

LEMMA CatchUpStep == CatchUpInv /\ [CatchUpNext]_catchUpVars => CatchUpInv'
PROOF
  <1>. SUFFICES ASSUME CatchUpInv, [CatchUpNext]_catchUpVars PROVE CatchUpInv'
    OBVIOUS
  <1>. USE DEF CatchUpInv, CatchUpTypeOK, NothingSkipped, PageIsComplete, Listed, NoPage
  <1>1. CASE UNCHANGED catchUpVars
    BY <1>1 DEF catchUpVars
  <1>2. ASSUME NEW m \in Post, InsertPost(m) PROVE CatchUpInv'
    BY <1>2 DEF InsertPost
  <1>3. ASSUME NEW m \in Post, CommitPost(m) PROVE CatchUpInv'
    BY <1>3 DEF CommitPost
  <1>4. ASSUME NEW m \in Post, AbortPost(m) PROVE CatchUpInv'
    BY <1>4 DEF AbortPost
  <1>5. ASSUME NEW m \in Post, DeleteForEveryone(m) \/ DeleteForSelf(m) PROVE CatchUpInv'
    BY <1>5 DEF DeleteForEveryone, DeleteForSelf
  <1>6. CASE ReceivePage
    <2>1. CatchUpTypeOK'
      BY <1>6 DEF ReceivePage
    <2>2. NothingSkipped' /\ PageIsComplete'
      BY <1>6 DEF ReceivePage
    <2>. QED
      BY <2>1, <2>2
  <1>7. CASE LosePage
    BY <1>7 DEF LosePage
  <1>8. CASE ClockTicks
    BY <1>8 DEF ClockTicks
  <1>. QED
    BY <1>1, <1>2, <1>3, <1>4, <1>5, <1>6, <1>7, <1>8, AskInv DEF CatchUpNext

(* list_messages with after=: for any number of messages and any page size,   *)
(* what the cursor has passed the client was given, but for late commits and  *)
(* ties at a page boundary.                                                  *)
THEOREM CursorSkipsNothing == CatchUpSpec => []NothingSkipped
PROOF
  <1>1. CatchUpInit => CatchUpInv
    BY DEF CatchUpInit, CatchUpInv, CatchUpTypeOK, NothingSkipped, PageIsComplete, Listed, NoPage
  <1>2. CatchUpInv => NothingSkipped
    BY DEF CatchUpInv
  <1>. QED
    BY <1>1, <1>2, CatchUpStep, PTL DEF CatchUpSpec

-----------------------------------------------------------------------------
(* Threads.  A request about to create a private conversation has found none *)
(* of its two users; one that another request creates meanwhile makes it an  *)
(* overlap.                                                                  *)

ThreadTypeOK ==
  /\ owner \in [Thread -> User \union {None}]
  /\ open \in [Thread -> SUBSET User]
  /\ call \in [Request -> [pc   : {"idle", "open", "block"},
                           user : User \union {None}, peer : User \union {None}]]

TwoAtMost == \A t \in Thread : \E u, v \in User \union {None} : open[t] \subseteq {u, v}

OpensFindNone ==
  \A p \in Request : call[p].pc = "open" =>
    /\ call[p].user \in User /\ call[p].peer \in User /\ call[p].user # call[p].peer
    /\ Pair(p) \in doubled \/ \A t \in Thread : open[t] # Pair(p)

ThreadInv == ThreadTypeOK /\ TwoAtMost /\ OpensFindNone /\ OneOpenThread

(* Two different elements are not in a set of one. *)
LEMMA OneIsNotTwo ==
  ASSUME NEW S, NEW x, S \subseteq {x}
  PROVE  Cardinality(S) # 2 /\ \A u, v : u # v => S # {u, v}
PROOF
  <1>1. IsFiniteSet({x}) /\ Cardinality({x}) = 1
    BY FS_Singleton
  <1>2. Cardinality(S) <= 1 /\ IsFiniteSet(S)
    BY <1>1, FS_Subset
  <1>3. Cardinality(S) \in Nat
    BY <1>2, FS_CardinalityType
  <1>. QED
    BY <1>2, <1>3

(* A call that begins or ends without a conversation. *)
LEMMA CallInv ==
  ASSUME ThreadInv, NEW p \in Request, NEW pc \in {"idle", "open", "block"},
         NEW u \in User \union {None}, NEW v \in User \union {None},
         call' = [call EXCEPT ![p] = [pc |-> pc, user |-> u, peer |-> v]],
         UNCHANGED <<owner, open, doubled>>,
         pc = "open" => /\ u \in User /\ v \in User /\ u # v
                        /\ \A t \in Thread : open[t] # {u, v}
  PROVE  ThreadInv'
PROOF
  <1>1. ThreadTypeOK' /\ TwoAtMost' /\ OneOpenThread'
    BY DEF ThreadInv, ThreadTypeOK, TwoAtMost, OneOpenThread
  <1>2. OpensFindNone'
    BY DEF ThreadInv, ThreadTypeOK, OpensFindNone, Pair
  <1>. QED
    BY <1>1, <1>2 DEF ThreadInv

LEMMA OpenInv ==
  ASSUME ThreadInv, NEW p \in Request, CommitOpen(p)
  PROVE  ThreadInv'
PROOF
  <1>1. PICK t \in Thread : /\ owner' = [owner EXCEPT ![t] = call[p].user]
                            /\ open' = [open EXCEPT ![t] = Pair(p)]
    BY DEF CommitOpen, FreeThreads
  <1>2. /\ call'[p] = NoCall /\ \A q \in Request \ {p} : call'[q] = call[q]
        /\ NoCall.pc = "idle"
    BY DEF CommitOpen, EndsCall, ThreadInv, ThreadTypeOK, NoCall
  <1>3. /\ call[p].user \in User /\ call[p].peer \in User
        /\ Pair(p) \in doubled \/ \A s \in Thread : open[s] # Pair(p)
    BY DEF CommitOpen, ThreadInv, OpensFindNone
  <1>4. /\ open'[t] = Pair(p) /\ \A s \in Thread \ {t} : open'[s] = open[s]
    BY <1>1 DEF ThreadInv, ThreadTypeOK
  <1>5. /\ doubled \subseteq doubled'
        /\ \A q \in Request \ {p} : call[q].pc = "open" /\ Pair(q) = Pair(p) => Pair(p) \in doubled'
    BY DEF CommitOpen
  <1>6. ThreadTypeOK'
    BY <1>1, <1>3 DEF ThreadInv, ThreadTypeOK, CommitOpen, EndsCall, NoCall, Pair
  <1>7. TwoAtMost'
    BY <1>3, <1>4 DEF ThreadInv, TwoAtMost, Pair
  <1>8. OpensFindNone'
    <2>. SUFFICES ASSUME NEW q \in Request \ {p}, call[q].pc = "open"
                  PROVE  /\ call[q].user \in User /\ call[q].peer \in User
                         /\ call[q].user # call[q].peer
                         /\ Pair(q) \in doubled' \/ \A s \in Thread : open'[s] # Pair(q)
      BY <1>2 DEF OpensFindNone, Pair
    <2>1. /\ call[q].user \in User /\ call[q].peer \in User /\ call[q].user # call[q].peer
          /\ Pair(q) \in doubled \/ \A s \in Thread : open[s] # Pair(q)
      BY DEF ThreadInv, OpensFindNone
    <2>. QED
      BY <1>4, <1>5, <2>1
  <1>9. OneOpenThread'
    BY <1>3, <1>4, <1>5 DEF ThreadInv, OneOpenThread
  <1>. QED
    BY <1>6, <1>7, <1>8, <1>9 DEF ThreadInv

LEMMA LeaveInv ==
  ASSUME ThreadInv, NEW p \in Request, NEW w \in User, NEW t \in Thread, LeaveThread(p, w, t)
  PROVE  ThreadInv'
PROOF
  <1>1. open'[t] = open[t] \ {w} /\ \A s \in Thread \ {t} : open'[s] = open[s]
    BY DEF ThreadInv, ThreadTypeOK, LeaveThread
  <1>2. PICK u, v \in User \union {None} : open[t] \subseteq {u, v}
    BY DEF ThreadInv, TwoAtMost
  <1>3. PICK x \in User \union {None} : open'[t] \subseteq {x}
    BY <1>1, <1>2 DEF LeaveThread
  <1>4. Cardinality(open'[t]) # 2 /\ \A a, b : a # b => open'[t] # {a, b}
    BY <1>3, OneIsNotTwo
  <1>5. ThreadTypeOK' /\ TwoAtMost'
    BY <1>1, <1>3 DEF ThreadInv, ThreadTypeOK, TwoAtMost, LeaveThread
  <1>6. OpensFindNone'
    <2>1. call' = call /\ doubled' = doubled
      BY DEF LeaveThread
    <2>2. ASSUME NEW q \in Request, call[q].pc = "open", Pair(q) \notin doubled, NEW s \in Thread
          PROVE  open'[s] # Pair(q)
      BY <1>1, <1>4, <2>2 DEF ThreadInv, OpensFindNone, Pair
    <2>. QED
      BY <2>1, <2>2 DEF ThreadInv, OpensFindNone, Pair
  <1>7. OneOpenThread'
    BY <1>1, <1>4 DEF ThreadInv, OneOpenThread, LeaveThread
  <1>. QED
    BY <1>5, <1>6, <1>7 DEF ThreadInv

LEMMA ThreadStep == ThreadInv /\ [ThreadNext]_threadVars => ThreadInv'
PROOF
  <1>. SUFFICES ASSUME ThreadInv, [ThreadNext]_threadVars PROVE ThreadInv'
    OBVIOUS
  <1>1. CASE UNCHANGED threadVars
    BY <1>1 DEF threadVars, ThreadInv, ThreadTypeOK, TwoAtMost, OpensFindNone, OneOpenThread, Pair
  <1>2. ASSUME NEW p \in Request, NEW u \in User, NEW v \in User, BeginOpen(p, u, v)
        PROVE  ThreadInv'
    BY <1>2, CallInv DEF BeginOpen, StartsCall, Found
  <1>3. ASSUME NEW p \in Request, NEW u \in User, NEW v \in User, BeginBlock(p, u, v)
        PROVE  ThreadInv'
    BY <1>3, CallInv DEF BeginBlock, StartsCall
  <1>4. ASSUME NEW p \in Request, NEW u \in User, NEW v \in User, Unblock(p, u, v)
        PROVE  ThreadInv'
    BY <1>4 DEF Unblock, ThreadInv, ThreadTypeOK, TwoAtMost, OpensFindNone, OneOpenThread, Pair
  <1>5. ASSUME NEW p \in Request, CommitBlock(p) \/ AbortCall(p) PROVE ThreadInv'
    BY <1>5, CallInv DEF CommitBlock, AbortCall, EndsCall, NoCall
  <1>. QED
    BY <1>1, <1>2, <1>3, <1>4, <1>5, OpenInv, LeaveInv DEF ThreadNext

(* find_or_create_private: only creations that overlap make a second private  *)
(* conversation of two users, whatever they leave and block.                 *)
THEOREM ThreadsAreUnique == ThreadSpec => []OneOpenThread
PROOF
  <1>1. ThreadInit => ThreadInv
    <2>. SUFFICES ASSUME ThreadInit PROVE ThreadInv
      OBVIOUS
    <2>1. Cardinality({}) = 0
      BY FS_EmptySet
    <2>2. ThreadTypeOK
      BY DEF ThreadInit, ThreadTypeOK, NoCall
    <2>3. OneOpenThread /\ TwoAtMost /\ OpensFindNone
      BY <2>1 DEF ThreadInit, TwoAtMost, OpensFindNone, OneOpenThread, NoCall
    <2>. QED
      BY <2>2, <2>3 DEF ThreadInv
  <1>2. ThreadInv => OneOpenThread
    BY DEF ThreadInv
  <1>. QED
    BY <1>1, <1>2, ThreadStep, PTL DEF ThreadSpec
-----------------------------------------------------------------------------
(* Members.  Until a transfer meets a change of one of its two, or an owner   *)
(* resigns, the group has one owner, who is in it; a pending transfer is his,  *)
(* and nobody is about to remove or add him.                                  *)

MemberRole == {"OWNER", "ADMIN", "MEMBER", "none"}
Wish == [pc    : {"idle", "transfer", "role", "out", "add", "limit"},
         by    : User \union {None},
         who   : User \union {None},
         role  : MemberRole,
         limit : Nat]

MembersTypeOK ==
  /\ role \in [User -> MemberRole]
  /\ inGroup \in [User -> BOOLEAN]
  /\ limitOf \in [User -> Nat]
  /\ wish \in [Request -> Wish]
  /\ ceiling \in Nat

IsOwner(o) == inGroup[o] /\ \A u \in User : role[u] = "OWNER" <=> u = o
SoleOwner  == \E o \in User : IsOwner(o)

Names(w) ==
  /\ w.pc # "idle" => w.by \in User /\ w.who \in User
  /\ w.pc = "role" => w.role # "OWNER"

Fits(w) ==
  /\ w.pc = "transfer" => role[w.by] = "OWNER" /\ inGroup[w.who] /\ w.by # w.who
  /\ w.pc \in {"out", "add"} => role[w.who] # "OWNER"

OwnerInv ==
  /\ MembersTypeOK
  /\ \A p \in Request : Names(wish[p])
  /\ crossed \/ resigned \/ (SoleOwner /\ \A p \in Request : Fits(wish[p]))

(* The greatest of a finite set of numbers. *)
LEMMA MaxIsGreatest ==
  ASSUME NEW A \in SUBSET Nat, IsFiniteSet(A), A # {}
  PROVE  Max(A) \in A /\ \A x \in A : x <= Max(A)
PROOF
  <1> DEFINE f == [x \in A |-> x]
  <1>1. \E a \in A : \A b \in A : f[b] <= f[a]
    <2>1. \A x \in A : f[x] \in Nat
      OBVIOUS
    <2> HIDE DEF f
    <2>. QED
      BY <2>1, GreatestValue
  <1>2. \E a \in A : \A b \in A : a >= b
    BY <1>1
  <1>. QED
    BY <1>2 DEF Max

LEMMA LimitsAreFinite ==
  ASSUME MembersTypeOK
  PROVE  InForce \in SUBSET Nat /\ IsFiniteSet(InForce)
PROOF
  <1>1. IsFiniteSet({limitOf[u] : u \in User})
    <2>1. limitOf \in [User -> Nat] /\ IsFiniteSet(User)
      BY UsersAreFinite DEF MembersTypeOK
    <2>. QED
      BY <2>1, FiniteImage, Zenon
  <1>2. InForce \in SUBSET {limitOf[u] : u \in User} /\ InForce \in SUBSET Nat
    BY DEF InForce, In, MembersTypeOK
  <1>. QED
    BY <1>1, <1>2, FS_Subset

LEMMA SizeIsNatural ==
  /\ IsFiniteSet({u \in User : inGroup[u]})
  /\ Size \in Nat
PROOF
  <1>1. {u \in User : inGroup[u]} \in SUBSET User
    OBVIOUS
  <1>. QED
    BY <1>1, UsersAreFinite, FS_Subset, FS_CardinalityType DEF Size

LEMMA NoWishFits == NoWish \in Wish /\ Names(NoWish) /\ Fits(NoWish)
BY DEF NoWish, Wish, MemberRole, Names, Fits

LEMMA MembersInitInv == MembersInit => OwnerInv
PROOF
  <1>. SUFFICES ASSUME MembersInit PROVE OwnerInv
    OBVIOUS
  <1>1. MembersTypeOK /\ \A p \in Request : Names(wish[p]) /\ Fits(wish[p])
    BY SizeIsNatural, NoWishFits DEF MembersInit, MembersTypeOK, MemberRole
  <1>2. PICK o : {u \in User : role[u] = "OWNER"} = {o}
    <2>1. {u \in User : role[u] = "OWNER"} \in SUBSET User
      OBVIOUS
    <2>2. IsFiniteSet({u \in User : role[u] = "OWNER"})
      BY <2>1, UsersAreFinite, FS_Subset
    <2>. QED
      BY <2>2, FS_Singleton DEF MembersInit
  <1>3. o \in User /\ IsOwner(o)
    BY <1>2 DEF MembersInit, IsOwner
  <1>. QED
    BY <1>1, <1>3 DEF OwnerInv, SoleOwner

LEMMA WishInv ==
  ASSUME OwnerInv, NEW p \in Request, NEW w \in Wish, Names(w),
         crossed \/ resigned \/ Fits(w),
         wish' = [wish EXCEPT ![p] = w],
         UNCHANGED <<role, inGroup, limitOf, crossed, resigned, ceiling>>
  PROVE  OwnerInv'
PROOF
  <1>1. wish'[p] = w /\ \A q \in Request \ {p} : wish'[q] = wish[q]
    BY DEF OwnerInv, MembersTypeOK
  <1>2. MembersTypeOK' /\ \A q \in Request : Names(wish'[q])
    BY <1>1 DEF OwnerInv, MembersTypeOK
  <1>3. (crossed \/ resigned \/ (SoleOwner /\ \A q \in Request : Fits(wish[q])))'
    BY <1>1 DEF OwnerInv, SoleOwner, IsOwner, Fits
  <1>. QED
    BY <1>2, <1>3 DEF OwnerInv, Names

LEMMA CommitTypes ==
  ASSUME OwnerInv, NEW p \in Request,
         \/ CommitTransfer(p) \/ CommitRole(p) \/ CommitOut(p) \/ CommitAdd(p) \/ CommitLimit(p)
  PROVE  /\ MembersTypeOK'
         /\ \A q \in Request : Names(wish'[q])
         /\ wish' = [wish EXCEPT ![p] = NoWish]
         /\ wish[p].by \in User /\ wish[p].who \in User
PROOF
  <1>1. wish[p] \in Wish /\ wish[p].by \in User /\ wish[p].who \in User
    BY DEF OwnerInv, MembersTypeOK, Names, CommitTransfer, CommitRole, CommitOut, CommitAdd, CommitLimit
  <1>2. /\ Ends(p) /\ role' \in [User -> MemberRole] /\ inGroup' \in [User -> BOOLEAN]
        /\ limitOf' \in [User -> Nat]
    BY <1>1 DEF OwnerInv, MembersTypeOK, Wish, MemberRole,
                CommitTransfer, CommitRole, CommitOut, CommitAdd, CommitLimit
  <1>3. wish' \in [Request -> Wish] /\ \A q \in Request : Names(wish'[q])
    BY <1>2, NoWishFits DEF Ends, OwnerInv, MembersTypeOK
  <1>4. InForce' \in SUBSET Nat /\ IsFiniteSet(InForce')
    <2>1. IsFiniteSet({limitOf'[u] : u \in User})
      <3>1. limitOf' \in [User -> Nat] /\ IsFiniteSet(User)
        BY <1>2, UsersAreFinite
      <3>. QED
        BY <3>1, FiniteImage, Zenon
    <2>2. InForce' \in SUBSET {limitOf'[u] : u \in User} /\ InForce' \in SUBSET Nat
      BY <1>2 DEF InForce, In
    <2>. QED
      BY <2>1, <2>2, FS_Subset
  <1>5. Size' \in Nat
    <2>1. {u \in User : inGroup'[u]} \in SUBSET User
      OBVIOUS
    <2>. QED
      BY <2>1, UsersAreFinite, FS_Subset, FS_CardinalityType DEF Size
  <1>6. ceiling' \in Nat
    <2>. DEFINE old == IF \A m \in InForce : m = 0 THEN Size' ELSE ceiling
                A == InForce' \union {old}
    <2>1. ceiling' = IF \A m \in InForce' : m = 0 THEN Size' ELSE Max(A)
      BY <1>2 DEF Ends
    <2>2. old \in Nat
      BY <1>5 DEF OwnerInv, MembersTypeOK
    <2>3. A \in SUBSET Nat /\ A # {} /\ IsFiniteSet(A)
      BY <1>4, <2>2, FS_AddElement
    <2>4. Max(A) \in Nat
      BY <2>3, MaxIsGreatest
    <2>. QED
      BY <1>5, <2>1, <2>4
  <1>. QED
    BY <1>1, <1>2, <1>3, <1>6 DEF MembersTypeOK, Ends

(* A commit that leaves the history clean met nobody it crosses. *)
LEMMA CommitAlone ==
  ASSUME NEW p \in Request, ~crossed', ~resigned',
         \/ CommitTransfer(p) \/ CommitRole(p) \/ CommitOut(p) \/ CommitAdd(p) \/ CommitLimit(p)
  PROVE  /\ ~crossed /\ ~resigned /\ \A q \in Request \ {p} : ~Crosses(p, q)
         /\ Ends(p) /\ wish[p].pc # "idle"
PROOF
  <1>1. Ends(p) /\ wish[p].pc # "idle"
    BY DEF CommitTransfer, CommitRole, CommitOut, CommitAdd, CommitLimit
  <1>2. resigned' = resigned \/ resigned' = (resigned \/ role[wish[p].who] = "OWNER")
    BY DEF CommitTransfer, CommitRole, CommitOut, CommitAdd, CommitLimit
  <1>3. crossed' = (crossed \/ \E q \in Request \ {p} : Crosses(p, q))
    BY <1>1 DEF Ends
  <1>4. ~crossed /\ \A q \in Request \ {p} : ~Crosses(p, q)
    BY <1>3, Zenon
  <1>5. ~resigned
    BY <1>2, Zenon
  <1>. QED
    BY <1>1, <1>4, <1>5

LEMMA OwnerCommit ==
  ASSUME OwnerInv, NEW p \in Request, ~crossed', ~resigned',
         \/ CommitTransfer(p) \/ CommitRole(p) \/ CommitOut(p) \/ CommitAdd(p) \/ CommitLimit(p)
  PROVE  SoleOwner' /\ \A q \in Request : Fits(wish[q])'
PROOF
  <1>0. PICK by \in User, who \in User : by = wish[p].by /\ who = wish[p].who
    BY CommitTypes
  <1>1. ~crossed /\ ~resigned /\ \A q \in Request \ {p} : ~Crosses(p, q)
    BY CommitAlone
  <1>2. wish'[p] = NoWish /\ \A q \in Request \ {p} : wish'[q] = wish[q]
    BY CommitTypes DEF OwnerInv, MembersTypeOK
  <1>3. \A q \in Request : Fits(wish[q]) /\ Names(wish[q])
    BY <1>1 DEF OwnerInv
  <1>4. PICK o \in User : IsOwner(o)
    BY <1>1 DEF OwnerInv, SoleOwner
  <1>5. Fits(NoWish)'
    BY DEF Fits, NoWish
  (* Who is not concerned is who he was. *)
  <1>6. CASE CommitTransfer(p)
    <2>1. by = o /\ inGroup[who] /\ by # who
      BY <1>0, <1>2, <1>3, <1>4, <1>6 DEF CommitTransfer, Fits, IsOwner
    <2>2. /\ role'[by] = "ADMIN" /\ role'[who] = "OWNER"
          /\ \A u \in User \ {by, who} : role'[u] = role[u]
          /\ inGroup' = inGroup
      BY <1>0, <1>2, <1>6, <2>1 DEF CommitTransfer, OwnerInv, MembersTypeOK
    <2>3. IsOwner(who)'
      BY <1>2, <1>4, <2>1, <2>2 DEF IsOwner
    <2>4. ASSUME NEW q \in Request \ {p} PROVE Fits(wish[q])'
      <3>1. wish[q].pc # "idle" => {by, who} \intersect Concerned(wish[q]) = {}
        BY <1>0, <1>1, <1>6 DEF CommitTransfer, Crosses, Concerned
      <3>2. wish[q].pc # "transfer"
        BY <1>0, <1>2, <1>3, <1>4, <2>1, <3>1 DEF Concerned, Fits, Names, IsOwner
      <3>. QED
        BY <1>0, <1>2, <1>3, <2>2, <3>1, <3>2 DEF Fits, Names, Concerned
    <2>. QED
      BY <1>2, <1>5, <2>3, <2>4 DEF SoleOwner
  <1>7. CASE CommitRole(p)
    <2>1. who # o /\ wish[p].role # "OWNER"
      BY <1>0, <1>3, <1>4, <1>7 DEF CommitRole, IsOwner, Names
    <2>2. /\ role'[who] = wish[p].role /\ inGroup' = inGroup
          /\ \A u \in User \ {who} : role'[u] = role[u]
      BY <1>0, <1>2, <1>7 DEF CommitRole, OwnerInv, MembersTypeOK
    <2>3. IsOwner(o)'
      BY <1>4, <2>1, <2>2 DEF IsOwner
    <2>4. ASSUME NEW q \in Request \ {p} PROVE Fits(wish[q])'
      <3>1. wish[q].pc = "transfer" => who \notin {wish[q].by, wish[q].who}
        BY <1>0, <1>1, <1>7 DEF CommitRole, Crosses, Concerned
      <3>. QED
        BY <1>0, <1>2, <1>3, <2>1, <2>2, <3>1 DEF Fits, Names
    <2>. QED
      BY <1>2, <1>5, <2>3, <2>4 DEF SoleOwner
  <1>8. CASE CommitOut(p)
    <2>1. who # o
      BY <1>0, <1>3, <1>4, <1>8 DEF CommitOut, IsOwner, Fits
    <2>2. role' = role /\ \A u \in User \ {who} : inGroup'[u] = inGroup[u]
      BY <1>0, <1>2, <1>8 DEF CommitOut, OwnerInv, MembersTypeOK
    <2>3. IsOwner(o)'
      BY <1>4, <2>1, <2>2 DEF IsOwner
    <2>4. ASSUME NEW q \in Request \ {p} PROVE Fits(wish[q])'
      <3>1. wish[q].pc = "transfer" => wish[q].who # who
        BY <1>0, <1>1, <1>8 DEF CommitOut, Crosses, Concerned
      <3>. QED
        BY <1>0, <1>2, <1>3, <2>2, <3>1 DEF Fits, Names
    <2>. QED
      BY <1>2, <1>5, <2>3, <2>4 DEF SoleOwner
  <1>9. CASE CommitAdd(p)
    <2>1. who # o
      BY <1>0, <1>3, <1>4, <1>9 DEF CommitAdd, IsOwner, Fits
    <2>2. /\ role'[who] = "MEMBER" /\ inGroup'[who] = TRUE
          /\ \A u \in User \ {who} : role'[u] = role[u] /\ inGroup'[u] = inGroup[u]
      BY <1>0, <1>2, <1>9 DEF CommitAdd, OwnerInv, MembersTypeOK
    <2>3. IsOwner(o)'
      BY <1>4, <2>1, <2>2 DEF IsOwner
    <2>4. ASSUME NEW q \in Request \ {p} PROVE Fits(wish[q])'
      <3>1. wish[q].pc = "transfer" => who \notin {wish[q].by, wish[q].who}
        BY <1>0, <1>1, <1>9 DEF CommitAdd, Crosses, Concerned
      <3>. QED
        BY <1>0, <1>2, <1>3, <2>2, <3>1 DEF Fits, Names
    <2>. QED
      BY <1>2, <1>5, <2>3, <2>4 DEF SoleOwner
  <1>10. CASE CommitLimit(p)
    <2>1. role' = role /\ inGroup' = inGroup
      BY <1>10 DEF CommitLimit
    <2>2. IsOwner(o)' /\ \A q \in Request \ {p} : Fits(wish[q])'
      BY <1>0, <1>2, <1>3, <1>4, <2>1 DEF IsOwner, Fits
    <2>. QED
      BY <1>2, <1>5, <2>2 DEF SoleOwner
  <1>. QED
    BY <1>6, <1>7, <1>8, <1>9, <1>10

(* What each request wishes for. *)
LEMMA BeginWish ==
  ASSUME OwnerInv, NEW p \in Request, NEW u \in User, NEW v \in User,
         NEW r \in {"ADMIN", "MEMBER"}, NEW m \in MaxMembers,
         \/ BeginLeave(p, u) \/ BeginTransfer(p, u, v) \/ BeginRemove(p, u, v)
         \/ BeginAdd(p, u, v) \/ BeginRole(p, u, v, r) \/ BeginLimit(p, u, v, m)
  PROVE  \E w \in Wish : /\ Wishes(p, w) /\ Names(w)
                         /\ crossed \/ resigned \/ Fits(w)
                         /\ w.pc = "add" => BeginAdd(p, u, v)
PROOF
  <1>. USE DEF NoWish, Wish, MemberRole, Names, Fits
  <1>1. CASE BeginLeave(p, u)
    <2> DEFINE w == [NoWish EXCEPT !.pc = "out", !.by = u, !.who = u]
    <2>1. w \in Wish /\ Wishes(p, w) /\ Names(w) /\ Fits(w) /\ w.pc # "add"
      BY <1>1 DEF BeginLeave
    <2>. QED
      BY <2>1
  <1>2. CASE BeginTransfer(p, u, v)
    <2> DEFINE w == [NoWish EXCEPT !.pc = "transfer", !.by = u, !.who = v]
    <2>1. w \in Wish /\ Wishes(p, w) /\ Names(w) /\ Fits(w) /\ w.pc # "add"
      BY <1>2 DEF BeginTransfer
    <2>. QED
      BY <2>1
  <1>3. CASE BeginRemove(p, u, v)
    <2> DEFINE w == [NoWish EXCEPT !.pc = "out", !.by = u, !.who = v]
    <2>1. w \in Wish /\ Wishes(p, w) /\ Names(w) /\ Fits(w) /\ w.pc # "add"
      BY <1>3 DEF BeginRemove
    <2>. QED
      BY <2>1
  <1>4. CASE BeginAdd(p, u, v)
    <2> DEFINE w == [NoWish EXCEPT !.pc = "add", !.by = u, !.who = v, !.role = role[v]]
    <2>1. w \in Wish /\ Wishes(p, w) /\ Names(w)
      BY <1>4 DEF BeginAdd, OwnerInv, MembersTypeOK
    <2>2. crossed \/ resigned \/ role[v] # "OWNER"
      BY <1>4 DEF BeginAdd, OwnerInv, SoleOwner, IsOwner
    <2>3. w.who = v /\ w.pc = "add"
      OBVIOUS
    <2> HIDE DEF w
    <2>. QED
      BY <1>4, <2>1, <2>2, <2>3
  <1>5. CASE BeginRole(p, u, v, r)
    <2> DEFINE w == [NoWish EXCEPT !.pc = "role", !.by = u, !.who = v, !.role = r]
    <2>1. w \in Wish /\ Wishes(p, w) /\ Names(w) /\ Fits(w) /\ w.pc # "add"
      BY <1>5 DEF BeginRole
    <2>. QED
      BY <2>1
  <1>6. CASE BeginLimit(p, u, v, m)
    <2> DEFINE w == [NoWish EXCEPT !.pc = "limit", !.by = u, !.who = v, !.limit = m]
    <2>1. w \in Wish /\ Wishes(p, w) /\ Names(w) /\ Fits(w) /\ w.pc # "add"
      BY <1>6, MaxMembersAssumption DEF BeginLimit
    <2>. QED
      BY <2>1
  <1>. QED
    BY <1>1, <1>2, <1>3, <1>4, <1>5, <1>6

LEMMA OwnerStep == OwnerInv /\ [MembersNext]_memberVars => OwnerInv'
PROOF
  <1>. SUFFICES ASSUME OwnerInv, [MembersNext]_memberVars PROVE OwnerInv'
    OBVIOUS
  <1>1. CASE UNCHANGED memberVars
    BY <1>1 DEF memberVars, OwnerInv, MembersTypeOK, SoleOwner, IsOwner, Fits, Names
  <1>2. ASSUME NEW p \in Request, NEW u \in User, NEW v \in User,
               NEW r \in {"ADMIN", "MEMBER"}, NEW m \in MaxMembers,
               \/ BeginLeave(p, u) \/ BeginTransfer(p, u, v) \/ BeginRemove(p, u, v)
               \/ BeginAdd(p, u, v) \/ BeginRole(p, u, v, r) \/ BeginLimit(p, u, v, m)
        PROVE  OwnerInv'
    BY <1>2, BeginWish, WishInv DEF Wishes
  <1>3. ASSUME NEW p \in Request, AbortWish(p) PROVE OwnerInv'
    BY <1>3, NoWishFits, WishInv DEF AbortWish
  <1>4. ASSUME NEW p \in Request,
               \/ CommitTransfer(p) \/ CommitRole(p) \/ CommitOut(p) \/ CommitAdd(p) \/ CommitLimit(p)
        PROVE  OwnerInv'
    BY <1>4, CommitTypes, OwnerCommit DEF OwnerInv
  <1>. QED
    BY <1>1, <1>2, <1>3, <1>4, MaxMembersAssumption DEF MembersNext

(* One owner, for any number of members and requests: removals, departures,   *)
(* additions and role changes never take or add one.                         *)
THEOREM GroupHasOneOwner == MembersSpec => []OneOwner
PROOF
  <1>1. OwnerInv => OneOwner
    <2>. SUFFICES ASSUME OwnerInv, ~crossed, ~resigned PROVE Cardinality(In({"OWNER"})) = 1
      BY DEF OneOwner
    <2>1. PICK o \in User : IsOwner(o)
      BY DEF OwnerInv, SoleOwner
    <2>2. In({"OWNER"}) = {o}
      BY <2>1 DEF In, IsOwner
    <2>. QED
      BY <2>2, FS_Singleton
  <1>. QED
    BY <1>1, MembersInitInv, OwnerStep, PTL DEF MembersSpec

(* Size.  While there is a limit, the members and the additions on their way   *)
(* are fewer than the ceiling and the requests.                               *)

Adding == {p \in Request : wish[p].pc = "add"}

Bounded ==
  \A m \in InForce : m # 0 =>
    /\ m <= ceiling
    /\ Size + Cardinality(Adding) <= ceiling + Cardinality(Request) - 1

SizeInv == OwnerInv /\ (crossed \/ resigned \/ Bounded)

LEMMA AddingIsNatural ==
  /\ IsFiniteSet(Adding) /\ Cardinality(Adding) \in Nat /\ Cardinality(Adding) <= Cardinality(Request)
  /\ Cardinality(Request) \in Nat
PROOF
  <1>1. Adding \in SUBSET Request
    BY DEF Adding
  <1>. QED
    BY <1>1, RequestsAreFinite, FS_Subset, FS_CardinalityType

LEMMA SizeCommit ==
  ASSUME SizeInv, OwnerInv', NEW p \in Request, ~crossed', ~resigned',
         \/ CommitTransfer(p) \/ CommitRole(p) \/ CommitOut(p) \/ CommitAdd(p) \/ CommitLimit(p)
  PROVE  Bounded'
PROOF
  <1> DEFINE old == IF \A m \in InForce : m = 0 THEN Size' ELSE ceiling
             A == InForce' \union {old}
             a == Cardinality(Adding)
             b == Cardinality(Adding')
             R == Cardinality(Request)
  <1>1. ~crossed /\ ~resigned /\ Ends(p) /\ wish[p].pc # "idle"
    BY CommitAlone
  <1>2. /\ Size \in Nat /\ Size' \in Nat /\ ceiling \in Nat /\ ceiling' \in Nat
        /\ InForce' \in SUBSET Nat /\ IsFiniteSet(InForce')
    <2>1. Size' \in Nat
      <3>1. {u \in User : inGroup'[u]} \in SUBSET User
        OBVIOUS
      <3>. QED
        BY <3>1, UsersAreFinite, FS_Subset, FS_CardinalityType DEF Size
    <2>2. InForce' \in SUBSET Nat /\ IsFiniteSet(InForce')
      <3>1. limitOf' \in [User -> Nat] /\ IsFiniteSet(User)
        BY UsersAreFinite DEF OwnerInv, MembersTypeOK
      <3>2. IsFiniteSet({limitOf'[u] : u \in User})
        BY <3>1, FiniteImage, Zenon
      <3>3. InForce' \in SUBSET {limitOf'[u] : u \in User} /\ InForce' \in SUBSET Nat
        BY <3>1 DEF InForce, In
      <3>. QED
        BY <3>2, <3>3, FS_Subset
    <2>. QED
      BY <2>1, <2>2, SizeIsNatural DEF SizeInv, OwnerInv, MembersTypeOK
  <1>3. /\ Adding' = Adding \ {p} /\ a \in Nat /\ b \in Nat /\ R \in Nat /\ a <= R
        /\ p \in Adding => b = a - 1
        /\ p \notin Adding => b = a
        /\ b <= R - 1
    <2>1. Adding' = Adding \ {p}
      BY <1>1 DEF Adding, Ends, NoWish, SizeInv, OwnerInv, MembersTypeOK
    <2>2. /\ IsFiniteSet(Adding \ {p})
          /\ Cardinality(Adding \ {p}) = IF p \in Adding THEN a - 1 ELSE a
      BY AddingIsNatural, FS_RemoveElement
    <2>3. Cardinality(Request \ {p}) = R - 1 /\ IsFiniteSet(Request \ {p})
      BY RequestsAreFinite, FS_RemoveElement
    <2>4. Adding \ {p} \in SUBSET (Request \ {p})
      BY DEF Adding
    <2>5. Cardinality(Adding \ {p}) <= R - 1
      BY <2>3, <2>4, FS_Subset
    <2>. QED
      BY <2>1, <2>2, <2>5, AddingIsNatural, FS_CardinalityType
  <1>4. Size' <= Size + 1 /\ (p \notin Adding => Size' <= Size)
    <2> DEFINE S == {u \in User : inGroup[u]}
               T == {u \in User : inGroup'[u]}
    <2>1. IsFiniteSet(S) /\ Cardinality(S) = Size /\ Cardinality(T) = Size'
      BY SizeIsNatural DEF Size
    <2>2. CASE CommitAdd(p)
      <3>1. PICK x : T \in SUBSET (S \union {x}) /\ p \in Adding
        BY <2>2 DEF CommitAdd, Adding, SizeInv, OwnerInv, MembersTypeOK
      <3> HIDE DEF S, T
      <3>2. /\ IsFiniteSet(S \union {x})
            /\ Cardinality(S \union {x}) = IF x \in S THEN Cardinality(S) ELSE Cardinality(S) + 1
        BY <2>1, FS_AddElement
      <3>3. Cardinality(T) <= Cardinality(S \union {x}) /\ Cardinality(S \union {x}) <= Size + 1
        BY <1>2, <2>1, <3>1, <3>2, FS_Subset
      <3>4. Cardinality(S \union {x}) \in Nat
        BY <3>2, FS_CardinalityType
      <3>. QED
        BY <1>2, <2>1, <3>1, <3>3, <3>4
    <2>3. CASE ~CommitAdd(p)
      <3>1. T \in SUBSET S
        BY <2>3 DEF CommitTransfer, CommitRole, CommitOut, CommitLimit, SizeInv, OwnerInv, MembersTypeOK
      <3>2. Cardinality(T) <= Cardinality(S)
        <4> HIDE DEF S, T
        <4>. QED
          BY <2>1, <3>1, FS_Subset
      <3>. QED
        BY <1>2, <2>1, <3>2
    <2>. QED
      BY <2>2, <2>3
  <1>5. old \in Nat
    BY <1>2
  <1>6. A \in SUBSET Nat /\ A # {} /\ IsFiniteSet(A)
    BY <1>2, <1>5, FS_AddElement
  <1>. SUFFICES ASSUME NEW m \in InForce', m # 0
                PROVE  m <= ceiling' /\ Size' + b <= ceiling' + R - 1
    BY DEF Bounded
  <1>7. ceiling' = Max(A)
    BY <1>1 DEF Ends
  <1>8. m <= ceiling' /\ old <= ceiling'
    <2>. HIDE DEF A
    <2>1. \A x \in A : x <= Max(A)
      BY <1>6, MaxIsGreatest
    <2>2. m \in A /\ old \in A
      BY DEF A
    <2>. QED
      BY <1>7, <2>1, <2>2
  <1>9. CASE \A n \in InForce : n = 0
    <2>1. Size' <= ceiling'
      BY <1>8, <1>9
    <2>. QED
      BY <1>2, <1>3, <1>8, <2>1
  <1>10. CASE ~ (\A n \in InForce : n = 0)
    <2>1. ceiling <= ceiling' /\ Size + a <= ceiling + R - 1
      BY <1>1, <1>8, <1>10 DEF SizeInv, Bounded
    <2>2. Size' + b <= Size + a
      BY <1>2, <1>3, <1>4
    <2>. QED
      BY <1>2, <1>3, <1>8, <2>1, <2>2
  <1>. QED
    BY <1>9, <1>10

LEMMA SizeStep == SizeInv /\ OwnerInv' /\ [MembersNext]_memberVars => SizeInv'
PROOF
  <1>. SUFFICES ASSUME SizeInv, OwnerInv', [MembersNext]_memberVars, ~crossed', ~resigned'
                PROVE  Bounded'
    BY DEF SizeInv
  <1>1. CASE UNCHANGED memberVars
    BY <1>1 DEF memberVars, SizeInv, Bounded, InForce, In, Size, Adding
  (* A request that begins or gives up. *)
  <1>2. ASSUME NEW p \in Request, NEW w, wish' = [wish EXCEPT ![p] = w],
               UNCHANGED <<role, inGroup, limitOf, crossed, resigned, ceiling>>,
               w.pc = "add" => \A m \in InForce : m # 0 => Size < m
        PROVE  Bounded'
    <2> DEFINE R == Cardinality(Request)
    <2>1. /\ InForce' = InForce /\ Size' = Size /\ ceiling' = ceiling
          /\ Adding' = {q \in Request : wish'[q].pc = "add"}
      BY <1>2 DEF InForce, In, Size, Adding
    <2>2. Bounded
      BY <1>2 DEF SizeInv
    <2>3. /\ Size \in Nat /\ ceiling \in Nat /\ R \in Nat /\ InForce \in SUBSET Nat
          /\ Cardinality(Adding) \in Nat /\ IsFiniteSet(Adding)
      BY SizeIsNatural, AddingIsNatural, LimitsAreFinite DEF SizeInv, OwnerInv, MembersTypeOK
    <2>4. Cardinality(Adding') \in Nat /\ Cardinality(Adding') <= R
      <3>1. Adding' \in SUBSET Request
        BY <2>1
      <3>. QED
        BY <3>1, RequestsAreFinite, FS_Subset, FS_CardinalityType
    <2>5. CASE w.pc = "add"
      <3>. SUFFICES ASSUME NEW m \in InForce, m # 0
                    PROVE  m <= ceiling /\ Size + Cardinality(Adding') <= ceiling + R - 1
        BY <2>1 DEF Bounded
      <3>1. m <= ceiling /\ Size < m /\ m \in Nat
        BY <1>2, <2>2, <2>3, <2>5 DEF Bounded
      <3>. QED
        BY <2>3, <2>4, <3>1
    <2>6. CASE w.pc # "add"
      <3>1. Adding' \in SUBSET Adding
        BY <1>2, <2>1, <2>6 DEF Adding, SizeInv, OwnerInv, MembersTypeOK
      <3>2. Cardinality(Adding') <= Cardinality(Adding)
        BY <2>3, <3>1, FS_Subset
      <3>. SUFFICES ASSUME NEW m \in InForce, m # 0
                    PROVE  m <= ceiling /\ Size + Cardinality(Adding') <= ceiling + R - 1
        BY <2>1 DEF Bounded
      <3>3. m <= ceiling /\ Size + Cardinality(Adding) <= ceiling + R - 1
        BY <2>2 DEF Bounded
      <3>. QED
        BY <2>3, <2>4, <3>2, <3>3
    <2>. QED
      BY <2>5, <2>6
  <1>3. ASSUME NEW p \in Request, NEW u \in User, NEW v \in User,
               NEW r \in {"ADMIN", "MEMBER"}, NEW m \in MaxMembers,
               \/ BeginLeave(p, u) \/ BeginTransfer(p, u, v) \/ BeginRemove(p, u, v)
               \/ BeginAdd(p, u, v) \/ BeginRole(p, u, v, r) \/ BeginLimit(p, u, v, m)
        PROVE  Bounded'
    <2>1. PICK w \in Wish : Wishes(p, w) /\ (w.pc = "add" => BeginAdd(p, u, v))
      BY <1>3, BeginWish DEF SizeInv
    <2>2. w.pc = "add" => \A n \in InForce : n # 0 => Size < n
      <3>1. ~crossed /\ ~resigned
        BY <2>1 DEF Wishes
      <3>2. PICK o \in User : IsOwner(o)
        BY <3>1 DEF SizeInv, OwnerInv, SoleOwner
      <3>3. InForce = {limitOf[o]}
        BY <3>2 DEF InForce, In, IsOwner
      <3>. QED
        BY <2>1, <3>3 DEF BeginAdd
    <2>. QED
      BY <1>2, <2>1, <2>2 DEF Wishes
  <1>4. ASSUME NEW p \in Request, AbortWish(p) PROVE Bounded'
    <2>1. NoWish.pc # "add"
      BY DEF NoWish
    <2>. QED
      BY <1>2, <1>4, <2>1 DEF AbortWish
  <1>5. ASSUME NEW p \in Request,
               \/ CommitTransfer(p) \/ CommitRole(p) \/ CommitOut(p) \/ CommitAdd(p) \/ CommitLimit(p)
        PROVE  Bounded'
    BY <1>5, SizeCommit
  <1>. QED
    BY <1>1, <1>3, <1>4, <1>5, MaxMembersAssumption DEF MembersNext

(* max_members: additions that overlap pass the limit by less than the number *)
(* of requests, for any number of them, whoever leaves, changes the limit or   *)
(* transfers the group meanwhile.                                            *)
THEOREM OverlapsExceedLimitByFew == MembersSpec => []SizeBound
PROOF
  <1>1. MembersInit => SizeInv
    <2>1. MembersInit => Bounded
      BY DEF MembersInit, Bounded, InForce, In
    <2>. QED
      BY <2>1, MembersInitInv DEF SizeInv
  <1>2. SizeInv /\ [MembersNext]_memberVars => SizeInv'
    BY OwnerStep, SizeStep DEF SizeInv
  <1>3. SizeInv => SizeBound
    <2>. SUFFICES ASSUME SizeInv, ~crossed, ~resigned, NEW m \in InForce, m # 0
                  PROVE  Size <= ceiling + Cardinality(Request) - 1
      BY DEF SizeBound
    <2>1. Size + Cardinality(Adding) <= ceiling + Cardinality(Request) - 1
      BY DEF SizeInv, Bounded
    <2>2. /\ Size \in Nat /\ ceiling \in Nat /\ Cardinality(Adding) \in Nat
          /\ Cardinality(Request) \in Nat
      BY SizeIsNatural, AddingIsNatural DEF SizeInv, OwnerInv, MembersTypeOK
    <2>. QED
      BY <2>1, <2>2
  <1>. QED
    BY <1>1, <1>2, <1>3, PTL DEF MembersSpec

-----------------------------------------------------------------------------
(* Assignments.  A request that is about to commit alone writes the copy that *)
(* belongs to the rows it writes; a row of another request that is closed at   *)
(* once is never the latest.                                                 *)

AssignmentRow == [row : BOOLEAN, open : BOOLEAN, unit : Unit \union {None}, start : Nat]
AssignMove ==
  [pc     : {"idle", "write", "sync", "commit"},
   id     : Assignment \union {None},
   was    : AssignmentRow, row : AssignmentRow,
   closes : Assignment \union {None},
   copy   : Unit \union {None}]

AssignTypeOK ==
  /\ assigned \in [Assignment -> AssignmentRow]
  /\ move \in [Request -> AssignMove]
  /\ \A p \in Request : move[p].pc # "idle" => move[p].id \in Assignment

(* A closed assignment is a row that exists; the copy fits a set of rows.     *)
Copies(copy, rows) ==
  \/ copy \in {rows[a].unit : a \in Latest(rows)}
  \/ copy = None /\ OpenRows(rows) = {}

MovesFit ==
  \A p \in Request :
    /\ move[p].pc # "idle" => /\ move[p].closes # None => assigned[move[p].closes].row
                              /\ move[p].closes # move[p].id
    /\ move[p].pc = "commit" => Copies(move[p].copy, Written(p))

AssignInv == AssignTypeOK /\ (raced \/ (MovesFit /\ Copies(segmentOf, assigned)))

LEMMA RowTypes ==
  /\ NoRow \in AssignmentRow /\ NoAssignment \in AssignMove
  /\ \A o \in BOOLEAN, unit \in Unit, start \in Date : NewRow(o, unit, start) \in AssignmentRow
BY DateAssumption DEF NoRow, NoAssignment, AssignMove, AssignmentRow, NewRow

LEMMA WrittenType ==
  ASSUME AssignTypeOK, NEW p \in Request, move[p].id \in Assignment
  PROVE  Written(p) \in [Assignment -> AssignmentRow]
PROOF
  <1>1. move[p] \in AssignMove /\ assigned[move[p].id] \in AssignmentRow
    BY DEF AssignTypeOK
  <1>2. ASSUME NEW a \in Assignment
        PROVE  assigned[a] \in AssignmentRow /\ [assigned[a] EXCEPT !.open = FALSE] \in AssignmentRow
    BY DEF AssignTypeOK, AssignmentRow
  <1>. QED
    BY <1>1, <1>2 DEF Written, AssignMove, AssignmentRow

(* What a request has written depends on what it decided at its beginning.    *)
LEMMA WrittenStays ==
  ASSUME NEW p \in Request, assigned' = assigned,
         move'[p].id = move[p].id, move'[p].was = move[p].was, move'[p].row = move[p].row,
         move'[p].closes = move[p].closes
  PROVE  Written(p)' = Written(p)
BY DEF Written

(* Closed rows do not matter for the copy. *)
LEMMA CopiesOpenRows ==
  ASSUME NEW r, NEW s, OpenRows(r) = OpenRows(s), \A a \in OpenRows(r) : r[a] = s[a],
         NEW c, Copies(c, r)
  PROVE  Copies(c, s)
PROOF
  <1>1. Latest(r) = Latest(s) /\ \A a \in Latest(r) : r[a] = s[a]
    BY DEF Latest
  <1>. QED
    BY <1>1 DEF Copies

(* An open row that is not the latest has a later one. *)
LEMMA LatestExists ==
  ASSUME NEW rows \in [Assignment -> AssignmentRow], OpenRows(rows) # {}
  PROVE  Latest(rows) # {}
PROOF
  <1> DEFINE S == OpenRows(rows)
             f == [a \in S |-> rows[a].start]
  <1>1. S \in SUBSET Assignment /\ S # {} /\ \A a \in S : f[a] \in Nat
    BY DEF OpenRows, AssignmentRow
  <1>2. IsFiniteSet(S)
    BY <1>1, AssignmentsAreFinite, FS_Subset
  <1>3. PICK a \in S : \A b \in S : f[b] <= f[a]
    <2> HIDE DEF f, S
    <2>. QED
      BY <1>1, <1>2, GreatestValue
  <1>. QED
    BY <1>3 DEF Latest

(* A request that begins, writes its rows or ends without them.               *)
LEMMA MoveInv ==
  ASSUME AssignInv, NEW p \in Request, NEW m \in AssignMove,
         move' = [move EXCEPT ![p] = m],
         UNCHANGED <<assigned, segmentOf, raced>>,
         m.pc # "commit",
         m.pc # "idle" => m.id \in Assignment,
         m.pc # "idle" /\ ~raced => /\ m.closes # m.id
                                    /\ m.closes # None => assigned[m.closes].row
  PROVE  AssignInv'
PROOF
  <1>1. move'[p] = m /\ \A q \in Request \ {p} : move'[q] = move[q]
    BY DEF AssignInv, AssignTypeOK
  <1>2. AssignTypeOK'
    BY DEF AssignInv, AssignTypeOK
  <1>3. ASSUME ~raced PROVE MovesFit' /\ Copies(segmentOf, assigned)'
    <2>1. MovesFit /\ Copies(segmentOf, assigned)
      BY <1>3 DEF AssignInv
    <2>2. Copies(segmentOf, assigned)'
      BY <2>1 DEF Copies, Latest, OpenRows
    <2>3. \A q \in Request \ {p} : Written(q)' = Written(q)
      BY <1>1, WrittenStays
    <2>4. MovesFit'
      BY <1>1, <1>3, <2>1, <2>3 DEF MovesFit, Copies, Latest, OpenRows
    <2>. QED
      BY <2>2, <2>4
  <1>. QED
    BY <1>2, <1>3 DEF AssignInv

LEMMA AssignStep == AssignInv /\ [AssignNext]_assignVars => AssignInv'
PROOF
  <1>. SUFFICES ASSUME AssignInv, [AssignNext]_assignVars PROVE AssignInv'
    OBVIOUS
  <1>1. CASE UNCHANGED assignVars
    <2>1. AssignTypeOK'
      BY <1>1 DEF assignVars, AssignInv, AssignTypeOK
    <2>2. \A q \in Request : Written(q)' = Written(q)
      BY <1>1, WrittenStays DEF assignVars
    <2>. QED
      BY <1>1, <2>1, <2>2 DEF assignVars, AssignInv, MovesFit, Copies, Latest, OpenRows
  <1>2. ASSUME NEW p \in Request, NEW a \in Assignment, NEW unit \in Unit, NEW start \in Date,
               BeginAssignment(p, a, unit, start)
        PROVE  AssignInv'
    <2>1. PICK prev : /\ prev = None \/ prev \in OpenRows(assigned)
                      /\ StartsAssignment(p, [NoAssignment EXCEPT !.pc = "write", !.id = a,
                                                !.row = NewRow(TRUE, unit, start), !.closes = prev])
      BY <1>2 DEF BeginAssignment
    <2> DEFINE m == [NoAssignment EXCEPT !.pc = "write", !.id = a,
                                         !.row = NewRow(TRUE, unit, start), !.closes = prev]
    <2>2. /\ m \in AssignMove /\ m.pc = "write" /\ m.id = a /\ m.closes = prev
          /\ prev # None => assigned[prev].row
          /\ prev # a
      BY <1>2, <2>1, RowTypes, NoneIsNoUnit
         DEF NoAssignment, AssignMove, OpenRows, BeginAssignment, Fresh
    <2> HIDE DEF m
    <2>. QED
      BY <2>1, <2>2, MoveInv DEF StartsAssignment, m
  <1>3. ASSUME NEW p \in Request, NEW a \in Assignment, NEW unit, NEW start, NEW o,
               \/ BeginRemoval(p, a)
               \/ /\ unit \in Unit /\ start \in Date /\ o \in BOOLEAN
                  /\ BeginPatch(p, a, o, unit, start)
        PROVE  AssignInv'
    <2>1. PICK m \in AssignMove :
            StartsAssignment(p, m) /\ m.pc = "write" /\ m.id = a /\ m.closes = None
      <3>1. CASE /\ unit \in Unit /\ start \in Date /\ o \in BOOLEAN
                 /\ BeginPatch(p, a, o, unit, start)
        <4> DEFINE m == [NoAssignment EXCEPT !.pc = "write", !.id = a, !.was = assigned[a],
                                             !.row = NewRow(o, unit, start)]
        <4>1. m \in AssignMove /\ m.pc = "write" /\ m.id = a /\ m.closes = None
          BY <3>1, RowTypes DEF NoAssignment, AssignMove, AssignInv, AssignTypeOK
        <4> HIDE DEF m
        <4>. QED
          BY <3>1, <4>1 DEF BeginPatch, m
      <3>2. CASE BeginRemoval(p, a)
        <4> DEFINE m == [NoAssignment EXCEPT !.pc = "write", !.id = a, !.was = assigned[a]]
        <4>1. m \in AssignMove /\ m.pc = "write" /\ m.id = a /\ m.closes = None
          BY RowTypes DEF NoAssignment, AssignMove, AssignInv, AssignTypeOK
        <4> HIDE DEF m
        <4>. QED
          BY <3>2, <4>1 DEF BeginRemoval, m
      <3>. QED
        BY <1>3, <3>1, <3>2
    <2>. QED
      BY <2>1, NoneIsNoUnit, MoveInv DEF StartsAssignment
  <1>4. ASSUME NEW p \in Request, WriteRows(p) PROVE AssignInv'
    <2> DEFINE m == [move[p] EXCEPT !.pc = "sync"]
    <2>1. m \in AssignMove /\ move' = [move EXCEPT ![p] = m] /\ m.pc = "sync"
      BY <1>4 DEF WriteRows, AssignInv, AssignTypeOK, AssignMove
    <2>2. m.id = move[p].id /\ m.closes = move[p].closes /\ move[p].pc = "write"
      BY <1>4 DEF WriteRows, AssignInv, AssignTypeOK, AssignMove
    <2> HIDE DEF m
    <2>3. /\ m.id \in Assignment
          /\ ~raced => m.closes # m.id /\ (m.closes # None => assigned[m.closes].row)
      BY <2>2 DEF AssignInv, AssignTypeOK, MovesFit
    <2>. QED
      BY <1>4, <2>1, <2>3, MoveInv DEF WriteRows
  <1>5. ASSUME NEW p \in Request, Sync(p) PROVE AssignInv'
    <2> DEFINE rows == Written(p)
    <2>1. move[p] \in AssignMove /\ move[p].id \in Assignment /\ rows \in [Assignment -> AssignmentRow]
      BY <1>5, WrittenType DEF Sync, AssignInv, AssignTypeOK
    <2>2. PICK a \in IF Latest(rows) = {} THEN {None} ELSE Latest(rows) :
            move' = [move EXCEPT ![p].pc = "commit",
                                 ![p].copy = IF a = None THEN None ELSE rows[a].unit]
      BY <1>5 DEF Sync
    <2> DEFINE copy == IF a = None THEN None ELSE rows[a].unit
    <2>3. copy \in Unit \union {None} /\ Copies(copy, rows)
      <3>1. Latest(rows) \subseteq Assignment
        BY DEF Latest, OpenRows
      <3>2. CASE Latest(rows) = {}
        BY <2>1, <2>2, <3>2, LatestExists DEF Copies
      <3>3. CASE Latest(rows) # {}
        BY <2>1, <2>2, <3>1, <3>3, NoneIsNoUnit DEF Copies, AssignmentRow
      <3>. QED
        BY <3>2, <3>3
    <2> HIDE DEF copy
    <2>4. /\ move' = [move EXCEPT ![p].pc = "commit", ![p].copy = copy]
          /\ UNCHANGED <<assigned, segmentOf, raced>>
      BY <1>5, <2>2 DEF Sync, copy
    <2>5. AssignTypeOK'
      BY <2>1, <2>3, <2>4 DEF AssignInv, AssignTypeOK, AssignMove
    <2>6. /\ move'[p].copy = copy /\ move'[p].id = move[p].id /\ move'[p].was = move[p].was
          /\ move'[p].row = move[p].row /\ move'[p].closes = move[p].closes
          /\ \A q \in Request \ {p} : move'[q] = move[q]
      BY <2>1, <2>4 DEF AssignInv, AssignTypeOK, AssignMove
    <2>7. \A q \in Request : Written(q)' = Written(q)
      BY <2>4, <2>6, WrittenStays
    <2>8. ~raced => MovesFit'
      <3>1. Copies(move'[p].copy, Written(p)')
        BY <2>3, <2>6, <2>7
      <3>2. ASSUME MovesFit, NEW q \in Request \ {p}, move[q].pc = "commit"
            PROVE  Copies(move'[q].copy, Written(q)')
        BY <2>6, <2>7, <3>2 DEF MovesFit
      <3>3. move[p].pc = "sync"
        BY <1>5 DEF Sync
      <3>4. ASSUME MovesFit, NEW q \in Request, move'[q].pc # "idle"
            PROVE  /\ move'[q].closes # None => assigned'[move'[q].closes].row
                   /\ move'[q].closes # move'[q].id
        <4>1. CASE q = p
          BY <2>4, <2>6, <3>3, <3>4, <4>1 DEF MovesFit
        <4>2. CASE q # p
          BY <2>4, <2>6, <3>4, <4>2 DEF MovesFit
        <4>. QED
          BY <4>1, <4>2
      <3>5. ASSUME MovesFit, NEW q \in Request, move'[q].pc = "commit"
            PROVE  Copies(move'[q].copy, Written(q)')
        BY <2>6, <3>1, <3>2, <3>5
      <3>. QED
        BY <3>4, <3>5 DEF AssignInv, MovesFit
    <2>9. ~raced => Copies(segmentOf, assigned)'
      BY <2>4 DEF AssignInv, Copies, Latest, OpenRows
    <2>. QED
      BY <2>4, <2>5, <2>8, <2>9 DEF AssignInv
  <1>6. ASSUME NEW p \in Request, CommitAssignment(p) PROVE AssignInv'
    <2>1. /\ move' = [move EXCEPT ![p] = NoAssignment] /\ assigned' = Written(p)
          /\ segmentOf' = move[p].copy /\ NoAssignment \in AssignMove
          /\ NoAssignment.pc = "idle" /\ move[p].id \in Assignment
      BY <1>6, RowTypes DEF CommitAssignment, NoAssignment, AssignInv, AssignTypeOK
    <2>2. AssignTypeOK'
      BY <2>1, WrittenType DEF AssignInv, AssignTypeOK
    <2>3. ASSUME ~raced' PROVE MovesFit' /\ Copies(segmentOf, assigned)'
      <3>1. ~raced /\ \A q \in Request \ {p} : move[q].pc = "idle"
        BY <1>6, <2>3 DEF CommitAssignment
      <3>2. \A q \in Request : move'[q].pc = "idle"
        BY <2>1, <3>1 DEF AssignInv, AssignTypeOK
      <3>3. MovesFit'
        BY <3>2 DEF MovesFit
      <3>4. Copies(move[p].copy, Written(p))
        BY <1>6, <3>1 DEF AssignInv, MovesFit, CommitAssignment
      <3>. QED
        BY <2>1, <3>3, <3>4 DEF Copies, Latest, OpenRows
    <2>. QED
      BY <2>2, <2>3 DEF AssignInv
  <1>7. ASSUME NEW p \in Request, NEW a \in Assignment, NEW unit \in Unit, NEW start \in Date,
               CreateClosed(p, a, unit, start)
        PROVE  AssignInv'
    <2> DEFINE new == NewRow(FALSE, unit, start)
    <2>1. /\ move' = move /\ segmentOf' = segmentOf /\ raced' = raced
          /\ new \in AssignmentRow /\ ~new.open /\ new.row
          /\ assigned' = [assigned EXCEPT ![a] = new]
          /\ ~assigned[a].row /\ \A q \in Request : move[q].id # a
      BY <1>7, RowTypes DEF CreateClosed, Fresh, NewRow
    <2> HIDE DEF new
    <2>2. AssignTypeOK'
      BY <2>1 DEF AssignInv, AssignTypeOK
    <2>3. assigned'[a] = new /\ \A b \in Assignment \ {a} : assigned'[b] = assigned[b]
      BY <2>1 DEF AssignInv, AssignTypeOK
    <2>4. Copies(segmentOf, assigned) => Copies(segmentOf, assigned)'
      <3>1. OpenRows(assigned) = OpenRows(assigned') /\ a \notin OpenRows(assigned)
        BY <2>1, <2>3 DEF OpenRows
      <3>2. \A b \in OpenRows(assigned) : assigned[b] = assigned'[b]
        BY <2>3, <3>1 DEF OpenRows
      <3>. QED
        BY <2>1, <3>1, <3>2, CopiesOpenRows
    <2>5. ASSUME MovesFit, NEW q \in Request, move[q].pc = "commit"
          PROVE  Copies(move[q].copy, Written(q)')
      <3>1. /\ Copies(move[q].copy, Written(q))
            /\ move[q].closes # a /\ move[q].id # a /\ move[q].id \in Assignment
        BY <2>1, <2>5, NoneIsNoUnit DEF MovesFit, AssignInv, AssignTypeOK
      <3>2. /\ \A b \in Assignment \ {a} : Written(q)'[b] = Written(q)[b]
            /\ Written(q)'[a] = new /\ Written(q)[a] = assigned[a]
        <4>1. Written(q)[a] = assigned[a]
          BY <3>1 DEF Written
        <4>2. Written(q)'[a] = assigned'[a]
          BY <2>1, <3>1 DEF Written
        <4>3. ASSUME NEW b \in Assignment \ {a} PROVE Written(q)'[b] = Written(q)[b]
          BY <2>1, <2>3, <3>1, <4>3 DEF Written
        <4>. QED
          BY <2>3, <4>1, <4>2, <4>3
      <3>3. OpenRows(Written(q)) = OpenRows(Written(q)') /\ a \notin OpenRows(Written(q))
        BY <2>1, <3>2 DEF OpenRows
      <3>4. \A b \in OpenRows(Written(q)) : Written(q)[b] = Written(q)'[b]
        BY <3>2, <3>3 DEF OpenRows
      <3>. QED
        BY <3>1, <3>3, <3>4, CopiesOpenRows
    <2>6. MovesFit => MovesFit'
      BY <2>1, <2>3, <2>5 DEF MovesFit, Copies, Latest, OpenRows
    <2>. QED
      BY <2>1, <2>2, <2>4, <2>6 DEF AssignInv
  <1>8. ASSUME NEW p \in Request, AbortAssignment(p) PROVE AssignInv'
    <2>1. NoAssignment \in AssignMove /\ NoAssignment.pc = "idle"
      BY RowTypes DEF NoAssignment
    <2>. QED
      BY <1>8, <2>1, MoveInv DEF AbortAssignment
  <1>. QED
    BY <1>1, <1>2, <1>3, <1>4, <1>5, <1>6, <1>7, <1>8 DEF AssignNext

(* open_assignment, patch and deletion: for any number of assignments, what is *)
(* copied into users is a latest open segment until two requests overlap.      *)
THEOREM CopyFollowsAssignments == AssignSpec => []CopyIsCurrent
PROOF
  <1>1. AssignInit => AssignInv
    <2>. SUFFICES ASSUME AssignInit PROVE AssignInv
      OBVIOUS
    <2>1. AssignTypeOK /\ MovesFit
      BY RowTypes DEF AssignInit, AssignTypeOK, MovesFit, NoAssignment
    <2>2. OpenRows(assigned) = {} /\ segmentOf = None
      BY DEF AssignInit, OpenRows, NoRow
    <2>. QED
      BY <2>1, <2>2 DEF AssignInv, Copies
  <1>2. AssignInv => CopyIsCurrent
    BY DEF AssignInv, Copies, CopyIsCurrent
  <1>. QED
    BY <1>1, <1>2, AssignStep, PTL DEF AssignSpec

-----------------------------------------------------------------------------
(* Polls.  What a vote has counted is exact until another vote commits into   *)
(* it.  Where one choice is allowed, a vote replaces all the votes of its user *)
(* unless another one of his commits in between.                             *)

Ballot ==
  [pc      : {"idle", "begun", "dropped", "cast"},
   user    : User \union {None},
   choice  : SUBSET (Option \X User),
   dropped : SUBSET (Option \X User),
   counts  : [Option -> Int],
   written : SUBSET Option,
   met     : BOOLEAN]


PollTypeOK ==
  /\ multiple \in BOOLEAN
  /\ votes \subseteq Option \X User
  /\ ballot \in [Request -> Ballot]

CountsExact(b, rows) ==
  /\ b.pc # "cast" => b.written = {} /\ \A o \in Option : b.counts[o] = Uncounted
  /\ b.written \subseteq {o \in Option : b.counts[o] # Uncounted}
  /\ b.pc = "cast" /\ ~b.met =>
       \A o \in Option : b.counts[o] # Uncounted =>
         b.counts[o] = Cardinality(VotesFor((rows \ b.dropped) \union b.choice, o))

OneChoice(b, rows, users) ==
  /\ b.pc # "idle" => \E o \in Option : b.choice = {<<o, b.user>>}
  /\ b.pc \in {"dropped", "cast"} /\ b.user \notin users =>
       VotesBy(rows, b.user) \subseteq b.dropped

OneVote == \A u \in User : u \notin twice => \E o \in Option : VotesBy(votes, u) \subseteq {<<o, u>>}

PollInv ==
  /\ PollTypeOK
  /\ \A p \in Request : CountsExact(ballot[p], votes)
  /\ metLast \/ \A o \in Option : stored[o] = Cardinality(VotesFor(votes, o))
  /\ multiple \/ (OneVote /\ \A p \in Request : OneChoice(ballot[p], votes, twice))

LEMMA VotesAreFinite ==
  ASSUME NEW S \in SUBSET (Option \X User)
  PROVE  Cardinality(S) \in Nat
PROOF
  <1>1. IsFiniteSet(Option \X User)
    BY OptionAssumption, UsersAreFinite, FS_Product
  <1>. QED
    BY <1>1, FS_Subset, FS_CardinalityType

LEMMA NoBallotFits ==
  NoBallot \in Ballot /\ CountsExact(NoBallot, votes) /\ OneChoice(NoBallot, votes, twice) /\ NoBallot.pc = "idle"
BY DEF NoBallot, Ballot, CountsExact, OneChoice, Uncounted

(* A request that moves on without a commit. *)
LEMMA BallotInv ==
  ASSUME PollInv, NEW p \in Request, NEW b \in Ballot,
         ballot' = [ballot EXCEPT ![p] = b],
         UNCHANGED <<multiple, votes, stored, metLast, twice>>,
         CountsExact(b, votes), multiple \/ OneChoice(b, votes, twice)
  PROVE  PollInv'
PROOF
  <1>1. ballot'[p] = b /\ \A q \in Request \ {p} : ballot'[q] = ballot[q]
    BY DEF PollInv, PollTypeOK
  <1>2. PollTypeOK'
    BY DEF PollInv, PollTypeOK
  <1>3. \A q \in Request : CountsExact(ballot'[q], votes')
    BY <1>1 DEF PollInv, CountsExact, VotesFor
  <1>4. (metLast \/ \A o \in Option : stored[o] = Cardinality(VotesFor(votes, o)))'
    BY DEF PollInv, VotesFor
  <1>5. multiple' \/ (OneVote' /\ \A q \in Request : OneChoice(ballot'[q], votes', twice'))
    BY <1>1 DEF PollInv, OneVote, OneChoice, VotesBy
  <1>. QED
    BY <1>2, <1>3, <1>4, <1>5 DEF PollInv

LEMMA PollStep == PollInv /\ [PollNext]_pollVars => PollInv'
PROOF
  <1>. SUFFICES ASSUME PollInv, [PollNext]_pollVars PROVE PollInv'
    OBVIOUS
  <1>1. CASE UNCHANGED pollVars
    BY <1>1 DEF pollVars, PollInv, PollTypeOK, CountsExact, OneVote, OneChoice, VotesFor, VotesBy
  <1>2. ASSUME NEW p \in Request, NEW u \in User, NEW choice \in SUBSET Option,
               BeginVote(p, u, choice)
        PROVE  PollInv'
    <2> DEFINE b == [NoBallot EXCEPT !.pc = "begun", !.user = u, !.choice = choice \X {u}]
    <2>1. b \in Ballot /\ CountsExact(b, votes)
      <3>1. b \in Ballot
        <4>1. choice \X {u} \in SUBSET (Option \X User)
          OBVIOUS
        <4>. QED
          BY <4>1, NoBallotFits DEF Ballot
      <3>2. /\ b.pc = "begun" /\ b.written = {}
            /\ \A o \in Option : b.counts[o] = Uncounted
        BY DEF NoBallot
      <3>. QED
        BY <3>1, <3>2 DEF CountsExact
    <2>2. multiple \/ OneChoice(b, votes, twice)
      <3>. SUFFICES ASSUME ~multiple PROVE OneChoice(b, votes, twice)
        OBVIOUS
      <3>1. IsFiniteSet(choice) /\ Cardinality(choice) = 1
        BY <1>2, OptionAssumption, FS_Subset DEF BeginVote
      <3>2. PICK o : choice = {o}
        BY <3>1, FS_Singleton
      <3>3. b.pc = "begun" /\ b.choice = {<<o, u>>} /\ b.user = u /\ o \in Option
        BY <3>2 DEF NoBallot
      <3>. QED
        BY <3>3 DEF OneChoice
    <2> HIDE DEF b
    <2>. QED
      BY <1>2, <2>1, <2>2, BallotInv DEF BeginVote, StartsBallot, b
  <1>3. ASSUME NEW p \in Request, DropVotes(p) PROVE PollInv'
    <2> DEFINE b == [ballot[p] EXCEPT !.pc = "dropped", !.dropped = VotesBy(votes, ballot[p].user)]
    <2>1. ballot[p] \in Ballot /\ VotesBy(votes, ballot[p].user) \in SUBSET (Option \X User)
      BY DEF PollInv, PollTypeOK, VotesBy
    <2>2. b \in Ballot /\ ballot' = [ballot EXCEPT ![p] = b]
      BY <1>3, <2>1 DEF DropVotes, Ballot, PollInv, PollTypeOK
    <2>3. /\ b.pc = "dropped" /\ b.dropped = VotesBy(votes, ballot[p].user)
          /\ b.user = ballot[p].user /\ b.choice = ballot[p].choice
          /\ b.counts = ballot[p].counts /\ b.written = ballot[p].written
      BY <2>1 DEF Ballot
    <2> HIDE DEF b
    <2>4. CountsExact(b, votes) /\ (multiple \/ OneChoice(b, votes, twice))
      BY <1>3, <2>3 DEF DropVotes, PollInv, CountsExact, OneChoice
    <2>. QED
      BY <1>3, <2>2, <2>4, BallotInv DEF DropVotes
  <1>4. ASSUME NEW p \in Request, CastVotes(p) PROVE PollInv'
    <2> DEFINE b == [ballot[p] EXCEPT !.pc = "cast"]
    <2>1. ballot[p] \in Ballot
      BY DEF PollInv, PollTypeOK
    <2>2. b \in Ballot /\ ballot' = [ballot EXCEPT ![p] = b]
      BY <1>4, <2>1 DEF CastVotes, Ballot, PollInv, PollTypeOK
    <2>3. /\ b.pc = "cast" /\ b.dropped = ballot[p].dropped
          /\ b.user = ballot[p].user /\ b.choice = ballot[p].choice
          /\ b.counts = ballot[p].counts /\ b.written = ballot[p].written
      BY <2>1 DEF Ballot
    <2> HIDE DEF b
    <2>4. CountsExact(b, votes) /\ (multiple \/ OneChoice(b, votes, twice))
      <3>1. /\ CountsExact(ballot[p], votes) /\ ballot[p].pc = "dropped"
            /\ multiple \/ OneChoice(ballot[p], votes, twice)
        BY <1>4 DEF CastVotes, PollInv
      <3>2. CountsExact(b, votes)
        BY <2>3, <3>1 DEF CountsExact
      <3>. QED
        BY <2>3, <3>1, <3>2 DEF OneChoice
    <2>. QED
      BY <1>4, <2>2, <2>4, BallotInv DEF CastVotes
  <1>5. ASSUME NEW p \in Request, NEW o \in Option, CountOption(p, o) PROVE PollInv'
    <2> DEFINE n == Cardinality(VotesFor(Seen(p), o))
               b == [ballot[p] EXCEPT !.counts[o] = n]
    <2>1. ballot[p] \in Ballot
      BY DEF PollInv, PollTypeOK
    <2>2. n \in Nat
      <3>1. VotesFor(Seen(p), o) \in SUBSET (Option \X User)
        BY <2>1 DEF VotesFor, Seen, Ballot, PollInv, PollTypeOK
      <3>. QED
        BY <3>1, VotesAreFinite
    <2>3. b \in Ballot /\ ballot' = [ballot EXCEPT ![p] = b]
      <3>1. b \in Ballot
        BY <1>5, <2>1, <2>2 DEF Ballot
      <3>. QED
        BY <3>1, <1>5 DEF CountOption, PollInv, PollTypeOK
    <2>4. /\ b.pc = "cast" /\ b.dropped = ballot[p].dropped /\ b.met = ballot[p].met
          /\ b.user = ballot[p].user /\ b.choice = ballot[p].choice
          /\ b.written = ballot[p].written
          /\ b.counts[o] = n /\ \A x \in Option \ {o} : b.counts[x] = ballot[p].counts[x]
      BY <1>5, <2>1 DEF Ballot, CountOption
    <2>5. CountsExact(b, votes)
      <3> HIDE DEF b
      <3>. QED
        <4>1. /\ CountsExact(ballot[p], votes) /\ ballot[p].pc = "cast"
              /\ ballot[p].counts[o] = Uncounted
          BY <1>5 DEF CountOption, PollInv
        <4>2. n # Uncounted
          BY <2>2 DEF Uncounted
        <4>3. ballot[p].written \subseteq {x \in Option : b.counts[x] # Uncounted}
          BY <2>4, <4>1, <4>2 DEF CountsExact
        <4>4. n = Cardinality(VotesFor((votes \ b.dropped) \union b.choice, o))
          BY <2>4 DEF Seen
        <4>5. ASSUME ~b.met, NEW x \in Option, b.counts[x] # Uncounted
              PROVE  b.counts[x] = Cardinality(VotesFor((votes \ b.dropped) \union b.choice, x))
          BY <2>4, <4>1, <4>4, <4>5 DEF CountsExact
        <4>. HIDE DEF n
        <4>. QED
          BY <2>4, <4>3, <4>5 DEF CountsExact
    <2>6. multiple \/ OneChoice(b, votes, twice)
      <3> HIDE DEF b
      <3>. QED
        BY <1>5, <2>4 DEF CountOption, PollInv, OneChoice
    <2> HIDE DEF b
    <2>. QED
      BY <1>5, <2>3, <2>5, <2>6, BallotInv DEF CountOption
  <1>6. ASSUME NEW p \in Request, NEW o \in Option, WriteCount(p, o) PROVE PollInv'
    <2> DEFINE b == [ballot[p] EXCEPT !.written = @ \union {o}]
    <2>1. ballot[p] \in Ballot
      BY DEF PollInv, PollTypeOK
    <2>2. b \in Ballot /\ ballot' = [ballot EXCEPT ![p] = b]
      <3>1. b \in Ballot
        BY <1>6, <2>1 DEF Ballot
      <3>. QED
        BY <3>1, <1>6 DEF WriteCount, PollInv, PollTypeOK
    <2>3. /\ b.pc = "cast" /\ b.dropped = ballot[p].dropped /\ b.met = ballot[p].met
          /\ b.user = ballot[p].user /\ b.choice = ballot[p].choice
          /\ b.counts = ballot[p].counts /\ b.written = ballot[p].written \union {o}
      BY <1>6, <2>1 DEF Ballot, WriteCount
    <2> HIDE DEF b
    <2>4. CountsExact(b, votes) /\ (multiple \/ OneChoice(b, votes, twice))
      <3>1. /\ CountsExact(ballot[p], votes) /\ ballot[p].pc = "cast"
            /\ ballot[p].counts[o] # Uncounted
            /\ multiple \/ OneChoice(ballot[p], votes, twice)
        BY <1>6 DEF WriteCount, PollInv
      <3>2. CountsExact(b, votes)
        BY <2>3, <3>1 DEF CountsExact
      <3>. QED
        BY <2>3, <3>1, <3>2 DEF OneChoice
    <2>. QED
      BY <1>6, <2>2, <2>4, BallotInv DEF WriteCount
  <1>7. ASSUME NEW p \in Request, CommitVote(p) PROVE PollInv'
    <2> DEFINE b == ballot[p]
    <2>1. /\ b \in Ballot /\ b.pc = "cast" /\ b.written = Option /\ CountsExact(b, votes)
          /\ votes' = (votes \ b.dropped) \union b.choice
          /\ stored' = [o \in Option |-> b.counts[o]] /\ metLast' = b.met
          /\ multiple' = multiple /\ twice \subseteq twice'
      BY <1>7 DEF CommitVote, Counted, Seen, PollInv, PollTypeOK, Ballot
    <2>2. /\ ballot'[p] = NoBallot
          /\ \A q \in Request \ {p} : ballot'[q] = [ballot[q] EXCEPT !.met = @ \/ Voting(q)]
          /\ ballot' \in [Request -> Ballot]
      <3>1. /\ ballot \in [Request -> Ballot] /\ NoBallot \in Ballot
            /\ ballot' = [q \in Request |-> IF q = p THEN NoBallot
                                            ELSE [ballot[q] EXCEPT !.met = @ \/ Voting(q)]]
        BY <1>7, NoBallotFits DEF CommitVote, Counted, PollInv, PollTypeOK
      <3>2. \A q \in Request : Voting(q) \in BOOLEAN
        BY DEF Voting
      <3>3. \A q \in Request : [ballot[q] EXCEPT !.met = @ \/ Voting(q)] \in Ballot
        BY <3>1, <3>2 DEF Ballot
      <3>. QED
        BY <3>1, <3>3
    <2>3. PollTypeOK'
      BY <2>1, <2>2 DEF PollInv, PollTypeOK, Ballot
    <2>4. ASSUME NEW q \in Request \ {p}
          PROVE  LET c == ballot'[q] IN
                 /\ c.pc = ballot[q].pc /\ c.user = ballot[q].user /\ c.choice = ballot[q].choice
                 /\ c.dropped = ballot[q].dropped /\ c.counts = ballot[q].counts
                 /\ c.written = ballot[q].written
                 /\ c.pc = "cast" => c.met
      <3>1. ballot[q] \in Ballot
        BY DEF PollInv, PollTypeOK
      <3>. QED
        BY <2>2, <2>4, <3>1 DEF Voting, Ballot
    <2>5. \A q \in Request : CountsExact(ballot'[q], votes')
      <3>1. ASSUME NEW q \in Request \ {p} PROVE CountsExact(ballot'[q], votes')
        <4>1. CountsExact(ballot[q], votes)
          BY DEF PollInv
        <4>. QED
          BY <2>4, <4>1 DEF CountsExact
      <3>2. NoBallot.pc = "idle" /\ NoBallot.written = {} /\ \A o \in Option : NoBallot.counts[o] = Uncounted
        BY DEF NoBallot
      <3>3. CountsExact(NoBallot, votes')
        BY <3>2 DEF CountsExact
      <3>. QED
        BY <2>2, <3>1, <3>3
    <2>6. (metLast \/ \A o \in Option : stored[o] = Cardinality(VotesFor(votes, o)))'
      BY <2>1 DEF CountsExact
    <2>7. ASSUME ~multiple PROVE OneVote' /\ \A q \in Request : OneChoice(ballot'[q], votes', twice')
      <3>1. PICK o \in Option : b.choice = {<<o, b.user>>} /\ OneChoice(b, votes, twice)
        BY <2>1, <2>7 DEF PollInv, OneChoice
      <3>2. ASSUME NEW u, u # b.user PROVE VotesBy(votes', u) \subseteq VotesBy(votes, u)
        BY <2>1, <3>1, <3>2 DEF VotesBy
      <3>3. b.user \notin twice => VotesBy(votes', b.user) \subseteq {<<o, b.user>>}
        BY <2>1, <3>1 DEF OneChoice, VotesBy
      <3>4. OneVote'
        BY <2>1, <2>7, <3>2, <3>3 DEF PollInv, OneVote
      <3>5. ASSUME NEW q \in Request \ {p} PROVE OneChoice(ballot'[q], votes', twice')
        <4>1. OneChoice(ballot[q], votes, twice)
          BY <2>7 DEF PollInv
        <4>2. Voting(q) /\ ballot[q].user = b.user => b.user \in twice'
          BY <1>7 DEF CommitVote, Counted
        <4>. QED
          BY <2>1, <2>4, <3>2, <4>1, <4>2 DEF OneChoice, Voting
      <3>6. OneChoice(ballot'[p], votes', twice')
        BY <2>2 DEF NoBallot, OneChoice
      <3>. QED
        BY <3>4, <3>5, <3>6
    <2>. QED
      BY <2>1, <2>3, <2>5, <2>6, <2>7 DEF PollInv
  <1>8. ASSUME NEW p \in Request, ClosePoll(p) PROVE PollInv'
    BY <1>8 DEF ClosePoll, PollInv, PollTypeOK, CountsExact, OneVote, OneChoice, VotesFor, VotesBy
  <1>9. ASSUME NEW p \in Request, AbortVote(p) PROVE PollInv'
    BY <1>9, NoBallotFits, BallotInv DEF AbortVote
  <1>. QED
    BY <1>1, <1>2, <1>3, <1>4, <1>5, <1>6, <1>7, <1>8, <1>9 DEF PollNext

(* vote and close_poll: for any number of options and voters, a vote that no      *)
(* other commits into leaves every count exact, and one choice stays one.      *)
THEOREM CountsAddUp == PollSpec => []PollAddsUp
PROOF
  <1>1. PollInit => PollInv
    <2>. SUFFICES ASSUME PollInit PROVE PollInv
      OBVIOUS
    <2>1. PollTypeOK /\ \A p \in Request : CountsExact(ballot[p], votes) /\ OneChoice(ballot[p], votes, twice)
      BY NoBallotFits DEF PollInit, PollTypeOK
    <2>2. \A o \in Option : VotesFor(votes, o) = {} /\ stored[o] = 0
      BY DEF PollInit, VotesFor
    <2>3. OneVote
      BY OptionAssumption DEF PollInit, OneVote, VotesBy
    <2>. QED
      BY <2>1, <2>2, <2>3, FS_EmptySet DEF PollInv
  <1>2. PollInv => PollAddsUp
    <2>. SUFFICES ASSUME PollInv, ~multiple, NEW u \in User, Cardinality(VotesBy(votes, u)) > 1,
                         u \notin twice
                  PROVE  FALSE
      BY DEF PollAddsUp, PollInv
    <2>1. PICK o \in Option : VotesBy(votes, u) \in SUBSET {<<o, u>>}
      BY DEF PollInv, OneVote
    <2>2. IsFiniteSet({<<o, u>>}) /\ Cardinality({<<o, u>>}) = 1
      BY FS_Singleton
    <2>3. Cardinality(VotesBy(votes, u)) <= 1 /\ IsFiniteSet(VotesBy(votes, u))
      BY <2>1, <2>2, FS_Subset
    <2>4. Cardinality(VotesBy(votes, u)) \in Nat
      BY <2>3, FS_CardinalityType
    <2>. QED
      BY <2>3, <2>4
  <1>. QED
    BY <1>1, <1>2, PollStep, PTL DEF PollSpec
=============================================================================
