----------------------------- MODULE LockProofs ------------------------------
(***************************************************************************)
(* How many wrong passwords an account answers before it is locked, for     *)
(* every limit and every number of requests.                                 *)
(***************************************************************************)
EXTENDS AccountLock, FiniteFacts, SequenceTheorems

R == Cardinality(Request)

RowType   == [kind : {"failure", "success", "unlock"}, by : Request \union {None}]
LoginType == [pc : {"idle", "judge", "count", "failed", "lock", "unlock", "audit", "commit"},
              saw : LockValues, lock : LockValues \union {"kept"}]

(* The committed failures, and the row a running request has written.  No   *)
(* committed success or unlock is left: the rows before it and it are gone.  *)
Standing  == {i \in DOMAIN history : history[i].by = None}
OwnRow(p) == {i \in DOMAIN history : history[i].by = p}

RowsFit ==
  /\ \A i \in Standing : history[i].kind = "failure"
  /\ \A p \in Request : \A i, j \in OwnRow(p) : i = j
  /\ \A p \in Request : \A i \in OwnRow(p) :
       \/ login[p].pc = "commit"
       \/ login[p].pc \in {"count", "failed", "lock"} /\ history[i].kind = "failure"

(* Requests that will answer a wrong password, and those of them whose row    *)
(* was written before the count began anew.                                  *)
Passing == {p \in Request : login[p].pc = "failed" /\ login[p].saw = "none"}
Astray  == {p \in Request : login[p].pc \in {"count", "failed"} /\ login[p].saw = "none"
                            /\ OwnRow(p) = {}}

LockInv ==
  /\ LockTypeOK /\ RowsFit
  /\ guesses + Cardinality(Astray) <= Cardinality(Standing) + R
  /\ guesses + Cardinality(Passing) <= LockAfter - 1 + (2 * R - 1)

LEMMA LockTypes ==
  LockTypeOK <=>
    /\ lock \in LockValues /\ history \in Seq(RowType) /\ challenge \in BOOLEAN
    /\ login \in [Request -> LoginType] /\ reaper \in {"idle", "unlock", "audit"} /\ guesses \in Nat
PROOF
  BY DEF LockTypeOK, RowType, LoginType

LEMMA SomeRequests == R \in Nat \ {0} /\ LockAfter \in Nat \ {0}
PROOF
  BY RequestsAreFinite, RequestAssumption, LockAssumption, FS_CardinalityType, FS_EmptySet DEF R

(* Sets of requests and of rows are finite. *)
LEMMA FewRequests ==
  ASSUME NEW S \in SUBSET Request
  PROVE  IsFiniteSet(S) /\ Cardinality(S) \in Nat /\ Cardinality(S) <= R
PROOF
  BY RequestsAreFinite, FS_Subset, FS_CardinalityType DEF R

LEMMA FewRows ==
  ASSUME NEW s \in Seq(RowType), NEW S \in SUBSET DOMAIN s
  PROVE  IsFiniteSet(S) /\ Cardinality(S) \in Nat
PROOF
  <1>1. DOMAIN s = 1 .. Len(s) /\ Len(s) \in Nat
    OBVIOUS
  <1>2. IsFiniteSet(DOMAIN s)
    BY <1>1, FS_Interval
  <1>. QED
    BY <1>2, FS_Subset, FS_CardinalityType

LEMMA NoLoginIsIdle == NoLogin \in LoginType /\ NoLogin.pc = "idle" /\ NoLogin.saw = "none"
PROOF
  BY DEF NoLogin, LoginType, LockValues

-----------------------------------------------------------------------------
(* Steps that leave the history and the guesses: nobody begins to answer.     *)
LEMMA QuietStep ==
  ASSUME LockInv, LockTypeOK', UNCHANGED <<history, guesses>>,
         \A p \in Request :
           \/ login'[p].pc = login[p].pc /\ (login'[p].saw = "none" => login[p].saw = "none")
           \/ login[p].pc \in {"idle", "judge", "unlock"} /\ login'[p].pc \notin {"count", "failed"}
           \/ login[p].pc = "lock" /\ login'[p].pc = "commit"
  PROVE  LockInv'
PROOF
  <1>1. Standing' = Standing /\ \A p : OwnRow(p)' = OwnRow(p)
    BY DEF Standing, OwnRow
  <1>2. RowsFit'
    <2>1. \A i \in Standing : history'[i].kind = "failure"
      BY DEF LockInv, RowsFit
    <2>2. \A p \in Request : \A i \in OwnRow(p) :
            \/ login'[p].pc = "commit"
            \/ login'[p].pc \in {"count", "failed", "lock"} /\ history'[i].kind = "failure"
      BY DEF LockInv, RowsFit
    <2>. QED
      BY <1>1, <2>1, <2>2 DEF LockInv, RowsFit
  <1>3. Passing' \subseteq Passing
    BY DEF Passing
  <1>4. Astray' \subseteq Astray
    BY <1>1 DEF Astray
  <1>5. Cardinality(Passing') <= Cardinality(Passing) /\ Cardinality(Astray') <= Cardinality(Astray)
    <2>1. IsFiniteSet(Passing) /\ IsFiniteSet(Astray)
      BY FewRequests DEF Passing, Astray
    <2>. QED
      BY <1>3, <1>4, <2>1, FS_Subset
  <1>6. /\ Cardinality(Passing') \in Nat /\ Cardinality(Astray') \in Nat
        /\ Cardinality(Passing) \in Nat /\ Cardinality(Astray) \in Nat
    BY FewRequests DEF Passing, Astray
  <1>7. Cardinality(Standing) \in Nat /\ guesses \in Nat
    BY FewRows, LockTypes DEF Standing, LockInv
  <1>. QED
    BY <1>1, <1>2, <1>5, <1>6, <1>7, SomeRequests DEF LockInv

(* A row is written at the end of the history, by a request without one.      *)
LEMMA WritingStep ==
  ASSUME LockInv, LockTypeOK', NEW p \in Request, NEW e \in {"failure", "success", "unlock"},
         Writes(p, e), guesses' = guesses,
         \A q \in Request \ {p} : login'[q] = login[q],
         login[p].pc \in {"idle", "judge", "audit"},
         \/ login'[p].pc = "commit"
         \/ e = "failure" /\ login'[p].pc = "count"
         \/ e = "failure" /\ login'[p].pc = "failed" /\ login'[p].saw # "none"
  PROVE  LockInv'
PROOF
  <1>. DEFINE n == Len(history) + 1
  <1>1. history \in Seq(RowType) /\ history' \in Seq(RowType)
    BY DEF LockInv, LockTypeOK, RowType
  <1>2. PICK r : r = Row(e, p)
    OBVIOUS
  <1>3. r \in RowType /\ r.kind = e /\ r.by = p /\ p # None
    BY <1>2, RequestAssumption DEF Row, RowType
  <1>4. history' = Append(history, r)
    BY <1>2 DEF Writes
  <1>5. /\ Len(history') = n /\ n \in Nat \ {0} /\ history'[n] = r
        /\ \A i \in 1 .. Len(history) : history'[i] = history[i]
        /\ DOMAIN history = 1 .. Len(history) /\ DOMAIN history' = 1 .. n
    BY <1>1, <1>3, <1>4, AppendProperties, LenProperties
  <1>6. OwnRow(p) = {}
    BY DEF LockInv, RowsFit
  <1>7. Standing' = Standing
    BY <1>3, <1>5 DEF Standing
  <1>8. OwnRow(p)' = {n}
    BY <1>3, <1>5, <1>6 DEF OwnRow
  <1>9. \A q \in Request \ {p} : OwnRow(q)' = OwnRow(q)
    BY <1>3, <1>5 DEF OwnRow
  <1>10. RowsFit'
    <2>1. \A i \in Standing : history'[i].kind = "failure"
      BY <1>5 DEF LockInv, RowsFit, Standing
    <2>2. \A q \in Request : \A i, j \in OwnRow(q)' : i = j
      BY <1>8, <1>9 DEF LockInv, RowsFit
    <2>3. ASSUME NEW q \in Request, NEW i \in OwnRow(q)'
          PROVE  \/ login'[q].pc = "commit"
                 \/ login'[q].pc \in {"count", "failed", "lock"} /\ history'[i].kind = "failure"
      <3>1. CASE q = p
        BY <1>3, <1>5, <1>8, <2>3, <3>1
      <3>2. CASE q # p
        <4>1. i \in OwnRow(q) /\ history'[i] = history[i]
          BY <1>5, <1>9, <2>3, <3>2 DEF OwnRow
        <4>. QED
          BY <3>2, <4>1 DEF LockInv, RowsFit
      <3>. QED
        BY <3>1, <3>2
    <2>. QED
      BY <1>7, <2>1, <2>2, <2>3 DEF RowsFit
  <1>11. Passing' = Passing
    BY DEF Passing
  <1>12. Astray' = Astray
    BY <1>8, <1>9 DEF Astray
  <1>. QED
    BY <1>7, <1>10, <1>11, <1>12 DEF LockInv

-----------------------------------------------------------------------------
(* A count: what the request sees are the committed rows and its own, none of *)
(* them a success or an unlock.                                               *)
LEMMA SeenFailures ==
  ASSUME LockInv, NEW p \in Request, login[p].pc = "count"
  PROVE  /\ FailuresSince(p) = Cardinality(Standing \union OwnRow(p))
         /\ FailuresSince(p) \in Nat /\ Cardinality(Standing) <= FailuresSince(p)
         /\ OwnRow(p) # {} => Cardinality(Standing) + 1 <= FailuresSince(p)
PROOF
  <1>1. p # None /\ history \in Seq(RowType)
    BY RequestAssumption DEF LockInv, LockTypeOK, RowType
  <1>2. {i \in DOMAIN history : Visible(p, history[i])} = Standing \union OwnRow(p)
    BY DEF Visible, Standing, OwnRow
  <1>3. {i \in Standing \union OwnRow(p) : history[i].kind \in Cutoffs} = {}
    BY DEF LockInv, RowsFit, Cutoffs
  <1>4. FailuresSince(p) = Cardinality(Standing \union OwnRow(p))
    BY <1>2, <1>3 DEF FailuresSince
  <1>5. /\ IsFiniteSet(Standing) /\ IsFiniteSet(Standing \union OwnRow(p))
        /\ Cardinality(Standing) \in Nat /\ Cardinality(Standing \union OwnRow(p)) \in Nat
    BY <1>1, FewRows DEF Standing, OwnRow
  <1>6. Cardinality(Standing) <= Cardinality(Standing \union OwnRow(p))
    BY <1>5, FS_Subset
  <1>7. OwnRow(p) # {} => Cardinality(Standing) # Cardinality(Standing \union OwnRow(p))
    <2>1. Standing \intersect OwnRow(p) = {}
      BY <1>1 DEF Standing, OwnRow
    <2>2. OwnRow(p) # {} => Standing # Standing \union OwnRow(p)
      BY <2>1
    <2>. QED
      BY <1>5, <2>2, FS_Subset
  <1>. QED
    BY <1>4, <1>5, <1>6, <1>7

LEMMA CountStep ==
  ASSUME LockInv, LockTypeOK', NEW p \in Request, CountFailures(p)
  PROVE  LockInv'
PROOF
  <1>1. /\ login[p].pc = "count" /\ UNCHANGED <<history, guesses>>
        /\ login'[p].saw = login[p].saw
        /\ \A q \in Request \ {p} : login'[q] = login[q]
        /\ \/ login'[p].pc = "failed" /\ FailuresSince(p) < LockAfter
           \/ login'[p].pc = "lock"
    <2>1. login \in [Request -> LoginType]
      BY LockTypes DEF LockInv
    <2>. QED
      BY <2>1 DEF CountFailures, LoginType
  <1>2. Standing' = Standing /\ \A q : OwnRow(q)' = OwnRow(q)
    BY <1>1 DEF Standing, OwnRow
  <1>3. RowsFit'
    <2>1. \A i \in Standing : history'[i].kind = "failure"
      BY <1>1 DEF LockInv, RowsFit
    <2>2. \A q \in Request : \A i \in OwnRow(q) :
            \/ login'[q].pc = "commit"
            \/ login'[q].pc \in {"count", "failed", "lock"} /\ history'[i].kind = "failure"
      BY <1>1 DEF LockInv, RowsFit
    <2>. QED
      BY <1>2, <2>1, <2>2 DEF LockInv, RowsFit
  <1>4. /\ Cardinality(Astray) \in Nat /\ Cardinality(Astray') \in Nat /\ Cardinality(Passing) \in Nat
        /\ Cardinality(Passing') \in Nat /\ Cardinality(Passing') <= R
        /\ IsFiniteSet(Astray) /\ IsFiniteSet(Passing) /\ IsFiniteSet(Passing')
    BY FewRequests DEF Astray, Passing
  <1>5. Cardinality(Standing) \in Nat /\ guesses \in Nat
    BY FewRows, LockTypes DEF Standing, LockInv
  <1>6. guesses' + Cardinality(Astray') <= Cardinality(Standing') + R
    <2>1. Astray' \subseteq Astray
      BY <1>1, <1>2 DEF Astray
    <2>2. Cardinality(Astray') <= Cardinality(Astray)
      BY <1>4, <2>1, FS_Subset
    <2>. QED
      BY <1>1, <1>2, <1>4, <1>5, <2>2, SomeRequests DEF LockInv
  <1>7. guesses' + Cardinality(Passing') <= LockAfter - 1 + (2 * R - 1)
    <2>1. CASE p \notin Passing'
      <3>1. Passing' \subseteq Passing
        BY <1>1, <2>1 DEF Passing
      <3>2. Cardinality(Passing') <= Cardinality(Passing)
        BY <1>4, <3>1, FS_Subset
      <3>. QED
        BY <1>1, <1>4, <1>5, <3>2, SomeRequests DEF LockInv
    <2>2. CASE p \in Passing'
      <3>1. PICK n \in Nat : /\ n < LockAfter /\ Cardinality(Standing) <= n
                             /\ OwnRow(p) # {} => Cardinality(Standing) + 1 <= n
        BY <1>1, <2>2, SeenFailures DEF Passing
      <3>4. login[p].saw = "none"
        BY <1>1, <2>2 DEF Passing
      <3>2. CASE OwnRow(p) # {}
        <4>1. Cardinality(Standing) + 1 < LockAfter
          BY <1>5, <3>1, <3>2, SomeRequests
        <4>. QED
          BY <1>1, <1>4, <1>5, <4>1, SomeRequests DEF LockInv
      <3>3. CASE OwnRow(p) = {}
        <4>1. Cardinality(Standing) < LockAfter
          BY <1>5, <3>1, SomeRequests
        <4>2. p \in Astray
          BY <1>1, <3>3, <3>4 DEF Astray
        <4>3. Cardinality(Astray) # 0
          BY <1>4, <4>2, FS_EmptySet
        <4>. QED
          BY <1>1, <1>4, <1>5, <4>1, <4>3, SomeRequests DEF LockInv
      <3>. QED
        BY <3>2, <3>3
    <2>. QED
      BY <2>1, <2>2
  <1>. QED
    BY <1>3, <1>6, <1>7 DEF LockInv

-----------------------------------------------------------------------------
(* A commit: the rows of p are committed, those up to the last committed       *)
(* success or unlock are gone.                                                *)
Committed(p, r) == IF r.by = p THEN [r EXCEPT !.by = None] ELSE r

LEMMA CommittedRow ==
  ASSUME NEW p \in Request, NEW r \in RowType
  PROVE  /\ Committed(p, r) \in RowType /\ Committed(p, r).kind = r.kind
         /\ r.by = p => Committed(p, r).by = None
         /\ r.by # p => Committed(p, r) = r
PROOF
  <1>1. PICK s : s = [r EXCEPT !.by = None]
    OBVIOUS
  <1>2. s \in RowType /\ s.kind = r.kind /\ s.by = None
    BY <1>1 DEF RowType
  <1>. QED
    BY <1>1, <1>2 DEF Committed

LEMMA CommittedRows ==
  ASSUME history \in Seq(RowType), NEW p \in Request
  PROVE  \E c \in 0 .. Len(history) :
           LET h == CommittedHistory(p) IN
           /\ h \in Seq(RowType) /\ Len(h) = Len(history) - c
           /\ \A i \in 1 .. Len(h) : h[i] = Committed(p, history[i + c])
           /\ \A i \in c + 1 .. Len(history) :
                ~(Committed(p, history[i]).kind \in Cutoffs /\ Committed(p, history[i]).by = None)
           /\ \/ c = 0
              \/ c > 0 /\ Committed(p, history[c]).kind \in Cutoffs /\ Committed(p, history[c]).by = None
PROOF
  <1>1. DOMAIN history = 1 .. Len(history) /\ Len(history) \in Nat
    OBVIOUS
  <1>2. PICK rows : rows = [i \in DOMAIN history |->
                   IF history[i].by = p THEN [history[i] EXCEPT !.by = None] ELSE history[i]]
    OBVIOUS
  <1>3. /\ DOMAIN rows = 1 .. Len(history)
        /\ \A i \in 1 .. Len(history) : rows[i] = Committed(p, history[i])
    BY <1>1, <1>2 DEF Committed
  <1>4. \A i \in 1 .. Len(history) : rows[i] \in RowType
    BY <1>3, CommittedRow
  <1>5. rows \in Seq(RowType) /\ Len(rows) = Len(history)
    <2>1. rows \in [1 .. Len(history) -> RowType]
      BY <1>1, <1>2, <1>3, <1>4
    <2>. QED
      BY <1>1, <2>1
  <1>6. PICK cut : cut = {i \in DOMAIN rows : rows[i].kind \in Cutoffs /\ rows[i].by = None}
    OBVIOUS
  <1>7. PICK c : c = Max(cut \union {0})
    OBVIOUS
  <1>8. c \in cut \union {0} /\ \A i \in cut \union {0} : c >= i
    <2>1. PICK S, f : S = cut \union {0} /\ f = [i \in S |-> i]
      OBVIOUS
    <2>2. S \subseteq 0 .. Len(history) /\ S # {}
      BY <1>1, <1>3, <1>6, <2>1
    <2>3. IsFiniteSet(S)
      <3>1. IsFiniteSet(0 .. Len(history))
        BY <1>1, FS_Interval
      <3>. QED
        BY <2>2, <3>1, FS_Subset
    <2>4. \A i \in S : f[i] \in Nat
      BY <1>1, <2>1, <2>2
    <2>5. \E x \in S : \A y \in S : f[y] <= f[x]
      BY <2>2, <2>3, <2>4, GreatestValue
    <2>6. \E x \in S : \A y \in S : x >= y
      BY <2>1, <2>4, <2>5
    <2>. QED
      BY <1>7, <2>1, <2>6 DEF Max
  <1>9. CommittedHistory(p) = SubSeq(rows, c + 1, Len(rows))
    BY <1>2, <1>6, <1>7 DEF CommittedHistory
  <1>10. c \in 0 .. Len(history)
    BY <1>1, <1>3, <1>6, <1>8
  <1>11. PICK h : h = SubSeq(rows, c + 1, Len(rows))
    OBVIOUS
  <1>12. /\ h \in Seq(RowType) /\ Len(h) = Len(history) - c
         /\ \A i \in 1 .. Len(h) : h[i] = rows[i + c]
    <2>1. PICK m, n : m = c + 1 /\ n = Len(rows)
      OBVIOUS
    <2>2. m \in Int /\ n \in Int /\ \A i \in m .. n : rows[i] \in RowType
      BY <1>1, <1>4, <1>5, <1>10, <2>1
    <2>3. /\ SubSeq(rows, m, n) \in Seq(RowType)
          /\ Len(SubSeq(rows, m, n)) = IF m <= n THEN n - m + 1 ELSE 0
          /\ \A i \in 1 .. n - m + 1 : SubSeq(rows, m, n)[i] = rows[m + i - 1]
      BY <2>2, SubSeqProperties
    <2>6. n \in Nat /\ c \in 0 .. n /\ n = Len(history)
      BY <1>1, <1>5, <1>10, <2>1
    <2>7. n - m + 1 = n - c /\ (IF m <= n THEN n - m + 1 ELSE 0) = n - c
      BY <2>1, <2>6
    <2>8. h = SubSeq(rows, m, n)
      BY <1>11, <2>1
    <2>4. n - m + 1 = Len(history) - c /\ Len(h) = Len(history) - c
      BY <2>3, <2>6, <2>7, <2>8
    <2>5. \A i \in 1 .. Len(h) : h[i] = rows[i + c]
      <3>. TAKE i \in 1 .. Len(h)
      <3>1. i \in 1 .. n - m + 1 /\ m + i - 1 = i + c
        BY <2>1, <2>4, <2>6
      <3>. QED
        BY <2>3, <2>8, <3>1
    <2>. QED
      BY <2>3, <2>4, <2>5, <2>8
  <1>13. \A i \in 1 .. Len(h) : h[i] = Committed(p, history[i + c])
    BY <1>1, <1>3, <1>10, <1>12
  <1>14. \A i \in c + 1 .. Len(history) :
           ~(Committed(p, history[i]).kind \in Cutoffs /\ Committed(p, history[i]).by = None)
    BY <1>1, <1>3, <1>6, <1>8, <1>10
  <1>15. \/ c = 0
         \/ c > 0 /\ Committed(p, history[c]).kind \in Cutoffs /\ Committed(p, history[c]).by = None
    BY <1>1, <1>3, <1>6, <1>8, <1>10
  <1>. QED
    BY <1>9, <1>10, <1>11, <1>12, <1>13, <1>14, <1>15

(* The rows that are left, wherever the cut was, fit the requests.            *)
LEMMA CommitKeepsRows ==
  ASSUME LockInv, LockTypeOK', NEW p \in Request, history' = CommittedHistory(p),
         login'[p] = NoLogin, \A q \in Request \ {p} : login'[q] = login[q]
  PROVE  /\ RowsFit' /\ OwnRow(p)' = {}
         /\ (\A i \in OwnRow(p) : history[i].kind = "failure") =>
              /\ Standing' = Standing \union OwnRow(p)
              /\ \A q \in Request \ {p} : OwnRow(q)' = OwnRow(q)
PROOF
  <1>1. history \in Seq(RowType) /\ p # None
    BY RequestAssumption DEF LockInv, LockTypeOK, RowType
  <1>2. PICK c \in 0 .. Len(history) :
           /\ history' \in Seq(RowType) /\ Len(history') = Len(history) - c
           /\ \A i \in 1 .. Len(history') : history'[i] = Committed(p, history[i + c])
           /\ \A i \in c + 1 .. Len(history) :
                ~(Committed(p, history[i]).kind \in Cutoffs /\ Committed(p, history[i]).by = None)
           /\ \/ c = 0
              \/ c > 0 /\ Committed(p, history[c]).kind \in Cutoffs /\ Committed(p, history[c]).by = None
    BY <1>1, CommittedRows
  <1>3. /\ DOMAIN history = 1 .. Len(history) /\ DOMAIN history' = 1 .. Len(history')
        /\ Len(history) \in Nat /\ Len(history') \in Nat
    BY <1>1, <1>2
  <1>4. \A i \in DOMAIN history : history[i] \in RowType
    BY <1>1
  <1>5. \A i \in DOMAIN history :
          /\ Committed(p, history[i]).kind = history[i].kind
          /\ history[i].by = p => Committed(p, history[i]).by = None
          /\ history[i].by # p => Committed(p, history[i]) = history[i]
    BY <1>4, CommittedRow
  <1>6. \A i \in DOMAIN history' :
          /\ i + c \in DOMAIN history /\ i + c \in c + 1 .. Len(history)
          /\ history'[i] = Committed(p, history[i + c])
    <2>1. ASSUME NEW i \in 1 .. Len(history')
          PROVE  i + c \in 1 .. Len(history) /\ i + c \in c + 1 .. Len(history)
      <3>1. Len(history') = Len(history) - c /\ c \in Nat
        BY <1>2
      <3>. QED
        BY <1>3, <3>1
    <2>. QED
      BY <1>2, <1>3, <2>1
  <1>7. \A i \in Standing' : history'[i].kind = "failure"
    <2>. SUFFICES ASSUME NEW i \in DOMAIN history', history'[i].by = None
                  PROVE  history'[i].kind = "failure"
      BY DEF Standing
    <2>1. history'[i].kind \notin Cutoffs /\ history'[i] \in RowType
      BY <1>2, <1>3, <1>6
    <2>. QED
      BY <2>1 DEF RowType, Cutoffs
  <1>8. OwnRow(p)' = {}
    BY <1>1, <1>5, <1>6 DEF OwnRow
  <1>9. \A q \in Request \ {p} : \A i \in OwnRow(q)' :
          i + c \in OwnRow(q) /\ history'[i] = history[i + c] /\ i \in Nat
    <2>. SUFFICES ASSUME NEW q \in Request \ {p}, NEW i \in DOMAIN history', history'[i].by = q
                  PROVE  i + c \in OwnRow(q) /\ history'[i] = history[i + c] /\ i \in Nat
      BY DEF OwnRow
    <2>1. i + c \in DOMAIN history /\ history'[i] = Committed(p, history[i + c]) /\ i \in Nat
      BY <1>3, <1>6
    <2>2. q # None
      BY RequestAssumption
    <2>3. history[i + c].by # p
      BY <1>5, <2>1, <2>2
    <2>. QED
      BY <1>5, <2>1, <2>3 DEF OwnRow
  <1>10. RowsFit'
    <2>1. \A q \in Request : \A i, j \in OwnRow(q)' : i = j
      <3>1. ASSUME NEW q \in Request \ {p}, NEW i \in OwnRow(q)', NEW j \in OwnRow(q)'
            PROVE  i = j
        <4>1. i + c = j + c /\ i \in Nat /\ j \in Nat /\ c \in Nat
          BY <1>2, <1>9, <3>1 DEF LockInv, RowsFit
        <4>. QED
          BY <4>1
      <3>. QED
        BY <1>8, <3>1
    <2>2. \A q \in Request : \A i \in OwnRow(q)' :
            \/ login'[q].pc = "commit"
            \/ login'[q].pc \in {"count", "failed", "lock"} /\ history'[i].kind = "failure"
      BY <1>8, <1>9 DEF LockInv, RowsFit
    <2>. QED
      BY <1>7, <2>1, <2>2 DEF RowsFit
  <1>11. ASSUME \A i \in OwnRow(p) : history[i].kind = "failure"
         PROVE  /\ Standing' = Standing \union OwnRow(p)
                /\ \A q \in Request \ {p} : OwnRow(q)' = OwnRow(q)
    <2>1. \A i \in DOMAIN history :
            Committed(p, history[i]).by = None => history[i].by \in {p, None}
      BY <1>5
    <2>2. \A i \in DOMAIN history : history[i].by \in {p, None} => history[i].kind = "failure"
      BY <1>11 DEF LockInv, RowsFit, Standing, OwnRow
    <2>3. c = 0
      <3>1. CASE c > 0
        <4>1. c \in DOMAIN history
          BY <1>2, <1>3, <3>1
        <4>. QED
          BY <1>2, <1>5, <2>1, <2>2, <3>1, <4>1 DEF Cutoffs
      <3>. QED
        BY <1>2, <3>1
    <2>4. DOMAIN history' = DOMAIN history /\ \A i \in DOMAIN history : history'[i] = Committed(p, history[i])
      BY <1>2, <1>3, <1>6, <2>3
    <2>5. Standing' = Standing \union OwnRow(p)
      BY <1>5, <2>1, <2>4 DEF Standing, OwnRow
    <2>6. \A q \in Request \ {p} : OwnRow(q)' = OwnRow(q)
      BY <1>5, <2>4, RequestAssumption DEF OwnRow
    <2>. QED
      BY <2>5, <2>6
  <1>. QED
    BY <1>8, <1>10, <1>11

LEMMA FailureStep ==
  ASSUME LockInv, LockTypeOK', NEW p \in Request, CommitFailure(p)
  PROVE  LockInv'
PROOF
  <1>1. /\ login[p].pc = "failed" /\ history' = CommittedHistory(p)
        /\ login'[p] = NoLogin /\ \A q \in Request \ {p} : login'[q] = login[q]
        /\ guesses' = IF login[p].saw = "none" THEN guesses + 1 ELSE guesses
    BY DEF CommitFailure, LockInv, LockTypeOK
  <1>2. \A i \in OwnRow(p) : history[i].kind = "failure"
    BY <1>1 DEF LockInv, RowsFit
  <1>3. /\ RowsFit' /\ OwnRow(p)' = {} /\ Standing' = Standing \union OwnRow(p)
        /\ \A q \in Request \ {p} : OwnRow(q)' = OwnRow(q)
    BY <1>1, <1>2, CommitKeepsRows
  <1>4. login'[p].pc = "idle"
    BY <1>1, NoLoginIsIdle
  <1>5. Passing' = Passing \ {p} /\ (p \in Passing <=> login[p].saw = "none")
    BY <1>1, <1>4 DEF Passing
  <1>6. Astray' = Astray \ {p} /\ (p \in Astray <=> login[p].saw = "none" /\ OwnRow(p) = {})
    BY <1>1, <1>3, <1>4 DEF Astray
  <1>7. /\ IsFiniteSet(Passing) /\ IsFiniteSet(Astray)
        /\ Cardinality(Passing) \in Nat /\ Cardinality(Astray) \in Nat
    BY FewRequests DEF Passing, Astray
  <1>8. /\ Cardinality(Passing') = IF p \in Passing THEN Cardinality(Passing) - 1 ELSE Cardinality(Passing)
        /\ Cardinality(Astray') = IF p \in Astray THEN Cardinality(Astray) - 1 ELSE Cardinality(Astray)
    BY <1>5, <1>6, <1>7, FS_RemoveElement
  <1>9. /\ Cardinality(Standing) \in Nat /\ Cardinality(Standing') \in Nat
        /\ Cardinality(Standing) <= Cardinality(Standing')
        /\ OwnRow(p) # {} => Cardinality(Standing) + 1 <= Cardinality(Standing')
    <2>1. p # None /\ history \in Seq(RowType)
      BY RequestAssumption DEF LockInv, LockTypeOK, RowType
    <2>2. Standing \union OwnRow(p) \subseteq DOMAIN history
      BY DEF Standing, OwnRow
    <2>3. /\ IsFiniteSet(Standing \union OwnRow(p)) /\ Cardinality(Standing \union OwnRow(p)) \in Nat
          /\ Cardinality(Standing) \in Nat
      BY <2>1, <2>2, FewRows
    <2>4. /\ Cardinality(Standing) <= Cardinality(Standing \union OwnRow(p))
          /\ Cardinality(Standing) = Cardinality(Standing \union OwnRow(p)) =>
               Standing = Standing \union OwnRow(p)
      BY <2>3, FS_Subset
    <2>5. Standing \intersect OwnRow(p) = {}
      BY <2>1 DEF Standing, OwnRow
    <2>. QED
      BY <1>3, <2>3, <2>4, <2>5
  <1>10. guesses \in Nat
    BY DEF LockInv, LockTypeOK
  <1>11. guesses' + Cardinality(Astray') <= Cardinality(Standing') + R
    BY <1>1, <1>6, <1>7, <1>8, <1>9, <1>10, SomeRequests DEF LockInv
  <1>12. guesses' + Cardinality(Passing') <= LockAfter - 1 + (2 * R - 1)
    BY <1>1, <1>5, <1>7, <1>8, <1>10, SomeRequests DEF LockInv
  <1>. QED
    BY <1>3, <1>11, <1>12 DEF LockInv

(* When the count begins anew, every request may still answer once. *)
LEMMA Afresh ==
  ASSUME LockTypeOK', RowsFit', guesses' = 0
  PROVE  LockInv'
PROOF
  <1>1. history' \in Seq(RowType) /\ Standing' \subseteq DOMAIN history'
    BY DEF LockTypeOK, RowType, Standing
  <1>2. Cardinality(Standing') \in Nat
    BY <1>1, FewRows
  <1>3. /\ Cardinality(Passing') \in Nat /\ Cardinality(Astray') \in Nat
        /\ Cardinality(Passing') <= R /\ Cardinality(Astray') <= R
    BY FewRequests DEF Passing, Astray
  <1>. QED
    BY <1>2, <1>3, SomeRequests DEF LockInv

LEMMA UserStep ==
  ASSUME LockInv, LockTypeOK', NEW p \in Request, CommitUser(p)
  PROVE  LockInv'
PROOF
  <1>1. /\ history' = CommittedHistory(p) /\ guesses' = 0
        /\ login'[p] = NoLogin /\ \A q \in Request \ {p} : login'[q] = login[q]
    BY DEF CommitUser, LockInv, LockTypeOK
  <1>2. RowsFit'
    BY <1>1, CommitKeepsRows
  <1>. QED
    BY <1>1, <1>2, Afresh

LEMMA AuditStep ==
  ASSUME LockTypeOK', ReapAudit
  PROVE  LockInv'
PROOF
  <1>1. history' = <<>> /\ guesses' = 0
    BY DEF ReapAudit
  <1>2. RowsFit'
    BY <1>1 DEF RowsFit, Standing, OwnRow
  <1>. QED
    BY <1>1, <1>2, Afresh

-----------------------------------------------------------------------------
(* A request that fails takes its row out of the history. *)
LEMMA RemovedRow ==
  ASSUME history \in Seq(RowType), NEW k \in DOMAIN history
  PROVE  LET h == RemoveAt(history, k) IN
         /\ h \in Seq(RowType) /\ Len(h) = Len(history) - 1
         /\ \A i \in 1 .. Len(h) : h[i] = IF i < k THEN history[i] ELSE history[i + 1]
PROOF
  <1>1. PICK n : n = Len(history)
    OBVIOUS
  <1>2. n \in Nat /\ k \in 1 .. n /\ \A i \in 1 .. n : history[i] \in RowType
    BY <1>1
  <1>3. PICK s, t : s = SubSeq(history, 1, k - 1) /\ t = SubSeq(history, k + 1, n)
    OBVIOUS
  <1>4. s \in Seq(RowType) /\ Len(s) = k - 1 /\ \A i \in 1 .. k - 1 : s[i] = history[i]
    <2>1. PICK m, j : m = 1 /\ j = k - 1
      OBVIOUS
    <2>2. m \in Int /\ j \in Int /\ \A i \in m .. j : history[i] \in RowType
      BY <1>2, <2>1
    <2>3. /\ SubSeq(history, m, j) \in Seq(RowType)
          /\ Len(SubSeq(history, m, j)) = IF m <= j THEN j - m + 1 ELSE 0
          /\ \A i \in 1 .. j - m + 1 : SubSeq(history, m, j)[i] = history[m + i - 1]
      BY <2>2, SubSeqProperties
    <2>4. s = SubSeq(history, m, j)
      BY <1>3, <2>1
    <2>5. j - m + 1 = k - 1 /\ (IF m <= j THEN j - m + 1 ELSE 0) = k - 1
      BY <1>2, <2>1
    <2>6. \A i \in 1 .. k - 1 : m + i - 1 = i
      BY <1>2, <2>1
    <2>. QED
      BY <2>3, <2>4, <2>5, <2>6
  <1>5. t \in Seq(RowType) /\ Len(t) = n - k /\ \A i \in 1 .. n - k : t[i] = history[k + i]
    <2>1. PICK m : m = k + 1
      OBVIOUS
    <2>2. m \in Int /\ n \in Int /\ \A i \in m .. n : history[i] \in RowType
      BY <1>2, <2>1
    <2>3. /\ SubSeq(history, m, n) \in Seq(RowType)
          /\ Len(SubSeq(history, m, n)) = IF m <= n THEN n - m + 1 ELSE 0
          /\ \A i \in 1 .. n - m + 1 : SubSeq(history, m, n)[i] = history[m + i - 1]
      BY <2>2, SubSeqProperties
    <2>4. t = SubSeq(history, m, n)
      BY <1>3, <2>1
    <2>5. n - m + 1 = n - k /\ (IF m <= n THEN n - m + 1 ELSE 0) = n - k
      BY <1>2, <2>1
    <2>6. \A i \in 1 .. n - k : m + i - 1 = k + i
      BY <1>2, <2>1
    <2>. QED
      BY <2>3, <2>4, <2>5, <2>6
  <1>6. RemoveAt(history, k) = s \o t
    BY <1>1, <1>3 DEF RemoveAt
  <1>7. /\ s \o t \in Seq(RowType) /\ Len(s \o t) = Len(s) + Len(t)
        /\ \A i \in 1 .. Len(s) + Len(t) : (s \o t)[i] =
             IF i <= Len(s) THEN s[i] ELSE t[i - Len(s)]
    BY <1>4, <1>5, ConcatProperties
  <1>8. Len(s) + Len(t) = n - 1
    BY <1>2, <1>4, <1>5
  <1>9. \A i \in 1 .. n - 1 : (s \o t)[i] = IF i < k THEN history[i] ELSE history[i + 1]
    <2>. TAKE i \in 1 .. n - 1
    <2>1. CASE i < k
      BY <1>2, <1>4, <1>7, <1>8, <2>1
    <2>2. CASE ~(i < k)
      <3>1. i - (k - 1) \in 1 .. n - k /\ k + (i - (k - 1)) = i + 1 /\ ~(i <= k - 1)
        BY <1>2, <2>2
      <3>2. /\ i \in 1 .. Len(s) + Len(t) /\ ~(i <= Len(s))
            /\ i - Len(s) = i - (k - 1)
        BY <1>2, <1>4, <1>8, <3>1
      <3>3. (s \o t)[i] = t[i - (k - 1)]
        BY <1>7, <3>2
      <3>4. t[i - (k - 1)] = history[i + 1]
        BY <1>5, <3>1
      <3>. QED
        BY <2>2, <3>3, <3>4
    <2>. QED
      BY <2>1, <2>2
  <1>. QED
    BY <1>1, <1>6, <1>7, <1>8, <1>9

LEMMA AbortStep ==
  ASSUME LockInv, LockTypeOK', NEW p \in Request, AbortLogin(p)
  PROVE  LockInv'
PROOF
  <1>1. /\ guesses' = guesses /\ login'[p] = NoLogin /\ \A q \in Request \ {p} : login'[q] = login[q]
    BY DEF AbortLogin, LockInv, LockTypeOK
  <1>2. login'[p].pc = "idle"
    BY <1>1, NoLoginIsIdle
  <1>3. history \in Seq(RowType) /\ p # None /\ guesses \in Nat
    BY RequestAssumption DEF LockInv, LockTypeOK, RowType
  <1>4. /\ Passing' \subseteq Passing
        /\ Cardinality(Passing') <= Cardinality(Passing)
        /\ Cardinality(Passing) \in Nat /\ Cardinality(Passing') \in Nat
    <2>1. Passing' \subseteq Passing
      BY <1>1, <1>2 DEF Passing
    <2>2. IsFiniteSet(Passing) /\ Cardinality(Passing) \in Nat /\ Cardinality(Passing') \in Nat
      BY FewRequests DEF Passing
    <2>. QED
      BY <2>1, <2>2, FS_Subset
  <1>5. CASE history' = history /\ \A i \in DOMAIN history : history[i].by # p
    <2>1. Standing' = Standing /\ (\A q : OwnRow(q)' = OwnRow(q)) /\ OwnRow(p) = {}
      BY <1>5 DEF Standing, OwnRow
    <2>2. RowsFit'
      <3>1. \A i \in Standing : history'[i].kind = "failure"
        BY <1>5 DEF LockInv, RowsFit
      <3>2. \A q \in Request : \A i \in OwnRow(q) :
              \/ login'[q].pc = "commit"
              \/ login'[q].pc \in {"count", "failed", "lock"} /\ history'[i].kind = "failure"
        BY <1>1, <1>5, <2>1 DEF LockInv, RowsFit
      <3>. QED
        BY <2>1, <3>1, <3>2 DEF LockInv, RowsFit
    <2>3. Astray' \subseteq Astray
      BY <1>1, <1>2, <2>1 DEF Astray
    <2>4. IsFiniteSet(Astray) /\ Cardinality(Astray) \in Nat /\ Cardinality(Astray') \in Nat
      BY FewRequests DEF Astray
    <2>5. Cardinality(Astray') <= Cardinality(Astray)
      BY <2>3, <2>4, FS_Subset
    <2>6. Cardinality(Standing) \in Nat
      BY <1>3, FewRows DEF Standing
    <2>. QED
      BY <1>1, <1>3, <1>4, <2>1, <2>2, <2>4, <2>5, <2>6, SomeRequests DEF LockInv
  <1>6. ASSUME NEW k \in DOMAIN history, history[k].by = p, history' = RemoveAt(history, k)
        PROVE  LockInv'
    <2>1. /\ history' \in Seq(RowType) /\ Len(history') = Len(history) - 1
          /\ \A i \in 1 .. Len(history') : history'[i] = IF i < k THEN history[i] ELSE history[i + 1]
      BY <1>3, <1>6, RemovedRow
    <2>2. /\ DOMAIN history = 1 .. Len(history) /\ DOMAIN history' = 1 .. Len(history')
          /\ Len(history) \in Nat /\ Len(history') \in Nat /\ k \in 1 .. Len(history)
      BY <1>3, <2>1
    <2>3. \A i \in DOMAIN history' : \E j \in DOMAIN history :
            history'[i] = history[j] /\ j = IF i < k THEN i ELSE i + 1
      BY <2>1, <2>2
    <2>4. \A j \in DOMAIN history : j # k => \E i \in DOMAIN history' :
            history'[i] = history[j] /\ i = IF j < k THEN j ELSE j - 1
      <3>. SUFFICES ASSUME NEW j \in DOMAIN history, j # k
                    PROVE  \E i \in DOMAIN history' :
                             history'[i] = history[j] /\ i = IF j < k THEN j ELSE j - 1
        OBVIOUS
      <3>1. CASE j < k
        BY <2>1, <2>2, <3>1
      <3>2. CASE j > k
        <4>1. j - 1 \in DOMAIN history' /\ ~(j - 1 < k) /\ (j - 1) + 1 = j
          BY <2>1, <2>2, <3>2
        <4>2. history'[j - 1] = history[j]
          BY <2>1, <2>2, <4>1
        <4>. QED
          BY <2>2, <3>2, <4>1, <4>2
      <3>. QED
        BY <2>2, <3>1, <3>2
    <2>5. OwnRow(p)' = {}
      <3>1. \A i, j \in OwnRow(p) : i = j
        BY DEF LockInv, RowsFit
      <3>2. \A j \in DOMAIN history : history[j].by = p => j = k
        BY <1>6, <3>1 DEF OwnRow
      <3>3. \A i \in DOMAIN history' : (IF i < k THEN i ELSE i + 1) # k
        BY <2>2
      <3>. QED
        BY <2>3, <3>2, <3>3 DEF OwnRow
    <2>6. \A i \in Standing' : history'[i].kind = "failure"
      BY <2>3 DEF LockInv, RowsFit, Standing
    <2>7. \A q \in Request : \A i, j \in OwnRow(q)' : i = j
      <3>. SUFFICES ASSUME NEW q \in Request, NEW i \in DOMAIN history', NEW j \in DOMAIN history',
                           history'[i].by = q, history'[j].by = q
                    PROVE  i = j
        BY DEF OwnRow
      <3>1. PICK x \in DOMAIN history : history'[i] = history[x] /\ x = IF i < k THEN i ELSE i + 1
        BY <2>3
      <3>2. PICK y \in DOMAIN history : history'[j] = history[y] /\ y = IF j < k THEN j ELSE j + 1
        BY <2>3
      <3>3. x = y
        BY <3>1, <3>2 DEF LockInv, RowsFit, OwnRow
      <3>. QED
        BY <2>2, <3>1, <3>2, <3>3
    <2>8. \A q \in Request : \A i \in OwnRow(q)' :
            \/ login'[q].pc = "commit"
            \/ login'[q].pc \in {"count", "failed", "lock"} /\ history'[i].kind = "failure"
      <3>. SUFFICES ASSUME NEW q \in Request \ {p}, NEW i \in DOMAIN history', history'[i].by = q
                    PROVE  \/ login[q].pc = "commit"
                           \/ login[q].pc \in {"count", "failed", "lock"} /\ history'[i].kind = "failure"
        BY <1>1, <2>5 DEF OwnRow
      <3>1. PICK x \in DOMAIN history : history'[i] = history[x]
        BY <2>3
      <3>2. x \in OwnRow(q)
        BY <3>1 DEF OwnRow
      <3>. QED
        BY <3>1, <3>2 DEF LockInv, RowsFit
    <2>9. RowsFit'
      BY <2>6, <2>7, <2>8 DEF RowsFit
    <2>10. /\ Cardinality(Standing) <= Cardinality(Standing')
           /\ Cardinality(Standing) \in Nat /\ Cardinality(Standing') \in Nat
      <3>1. PICK S, T, f : S = Standing /\ T = Standing' /\ f = [j \in S |-> IF j < k THEN j ELSE j - 1]
        OBVIOUS
      <3>2. \A j \in S : j \in DOMAIN history /\ j # k /\ history[j].by = None
        BY <1>3, <1>6, <3>1 DEF Standing
      <3>3. f \in [S -> T]
        <4>1. \A j \in S : f[j] \in T
          BY <2>4, <3>1, <3>2 DEF Standing
        <4>. QED
          BY <3>1, <4>1
      <3>4. \A i, j \in S : f[i] = f[j] => i = j
        BY <2>2, <3>1, <3>2
      <3>5. f \in Injection(S, T)
        BY <3>3, <3>4 DEF Injection, IsInjective
      <3>6. IsFiniteSet(T) /\ Cardinality(T) \in Nat /\ Cardinality(S) \in Nat
        BY <1>3, <2>1, <3>1, FewRows DEF Standing
      <3>. QED
        BY <3>1, <3>5, <3>6, FS_Injection
    <2>11. Astray' \subseteq Astray
      <3>. SUFFICES ASSUME NEW q \in Request \ {p}, login[q].pc \in {"count", "failed"},
                           login[q].saw = "none", OwnRow(q)' = {}, NEW j \in OwnRow(q)
                    PROVE  FALSE
        BY <1>1, <1>2 DEF Astray
      <3>1. j \in DOMAIN history /\ history[j].by = q /\ j # k
        BY <1>6 DEF OwnRow
      <3>2. PICK i \in DOMAIN history' : history'[i] = history[j]
        BY <2>4, <3>1
      <3>. QED
        BY <3>1, <3>2 DEF OwnRow
    <2>12. IsFiniteSet(Astray) /\ Cardinality(Astray) \in Nat /\ Cardinality(Astray') \in Nat
      BY FewRequests DEF Astray
    <2>13. Cardinality(Astray') <= Cardinality(Astray)
      BY <2>11, <2>12, FS_Subset
    <2>14. guesses' + Cardinality(Astray') <= Cardinality(Standing') + R
      BY <1>1, <1>3, <2>10, <2>12, <2>13, SomeRequests DEF LockInv
    <2>15. guesses' + Cardinality(Passing') <= LockAfter - 1 + (2 * R - 1)
      BY <1>1, <1>3, <1>4, SomeRequests DEF LockInv
    <2>. QED
      BY <2>9, <2>14, <2>15 DEF LockInv
  <1>. QED
    BY <1>5, <1>6 DEF AbortLogin

-----------------------------------------------------------------------------
(* The requests, one by one. *)
Moved(p, at) ==
  /\ login' \in [Request -> LoginType] /\ login'[p].pc = at
  /\ \A q \in Request \ {p} : login'[q] = login[q]

LEMMA Replaced ==
  ASSUME LockTypeOK, NEW p \in Request, NEW l \in LoginType, login' = [login EXCEPT ![p] = l]
  PROVE  Moved(p, l.pc) /\ login'[p] = l
PROOF
  BY LockTypes DEF Moved

LEMMA LoginMoves ==
  ASSUME LockTypeOK, NEW p \in Request
  PROVE  /\ ReadUser(p)      => Moved(p, "judge")  /\ login[p].pc = "idle"
         /\ AdminUnlock(p)   => Moved(p, "unlock") /\ login[p].pc = "idle"
         /\ CompleteLogin(p) => Moved(p, "commit") /\ login[p].pc = "idle"
         /\ WrongPassword(p) => /\ login[p].pc = "judge" /\ login'[p].saw = login[p].saw
                                /\ \/ Moved(p, "count")
                                   \/ Moved(p, "failed") /\ login'[p].saw # "none"
         /\ RightPassword(p) => (Moved(p, "unlock") \/ Moved(p, "idle")) /\ login[p].pc = "judge"
         /\ CountFailures(p) => login' \in [Request -> LoginType]
         /\ LockAccount(p)   => Moved(p, "commit") /\ login[p].pc = "lock"
         /\ UnlockAccount(p) => Moved(p, "audit")  /\ login[p].pc = "unlock"
         /\ AuditUnlock(p)   => Moved(p, "commit") /\ login[p].pc = "audit"
         /\ login' = [login EXCEPT ![p] = NoLogin] => Moved(p, "idle")
PROOF
  <1>1. login \in [Request -> LoginType] /\ login[p] \in LoginType /\ lock \in LockValues
    BY LockTypes
  <1>11. login' = [login EXCEPT ![p] = NoLogin] => Moved(p, "idle")
    <2>1. PICK l : l = NoLogin
      OBVIOUS
    <2>. QED
      <3>1. l \in LoginType /\ l.pc = "idle"
        BY <2>1, NoLoginIsIdle
      <3>2. login' = [login EXCEPT ![p] = l] => Moved(p, l.pc)
        BY <3>1, Replaced
      <3>. QED
        BY <2>1, <3>1, <3>2
  <1>2. ASSUME ReadUser(p)
        PROVE  Moved(p, "judge") /\ login[p].pc = "idle"
    <2>1. PICK l : l = [NoLogin EXCEPT !.pc = "judge", !.saw = lock]
      OBVIOUS
    <2>2. l \in LoginType /\ l.pc = "judge"
      BY <1>1, <2>1, NoLoginIsIdle DEF LoginType
    <2>. QED
      <3>1. login' = [login EXCEPT ![p] = l] /\ login[p].pc = "idle"
        BY <1>2, <2>1 DEF ReadUser
      <3>. QED
        BY <2>2, <3>1, Replaced
  <1>3. ASSUME AdminUnlock(p)
        PROVE  Moved(p, "unlock") /\ login[p].pc = "idle"
    <2>1. PICK l : l = [NoLogin EXCEPT !.pc = "unlock"]
      OBVIOUS
    <2>2. l \in LoginType /\ l.pc = "unlock"
      BY <2>1, NoLoginIsIdle DEF LoginType
    <2>. QED
      <3>1. login' = [login EXCEPT ![p] = l] /\ login[p].pc = "idle"
        BY <1>3, <2>1 DEF AdminUnlock
      <3>. QED
        BY <2>2, <3>1, Replaced
  <1>4. ASSUME CompleteLogin(p)
        PROVE  Moved(p, "commit") /\ login[p].pc = "idle"
    <2>1. PICK l : l = [NoLogin EXCEPT !.pc = "commit"]
      OBVIOUS
    <2>2. l \in LoginType /\ l.pc = "commit"
      BY <2>1, NoLoginIsIdle DEF LoginType
    <2>. QED
      <3>1. login' = [login EXCEPT ![p] = l] /\ login[p].pc = "idle"
        BY <1>4, <2>1 DEF CompleteLogin
      <3>. QED
        BY <2>2, <3>1, Replaced
  <1>5. ASSUME WrongPassword(p)
        PROVE  /\ login[p].pc = "judge" /\ login'[p].saw = login[p].saw
               /\ \/ Moved(p, "count")
                  \/ Moved(p, "failed") /\ login'[p].saw # "none"
    <2>1. PICK l, at : at = (IF login[p].saw = "none" THEN "count" ELSE "failed")
                       /\ l = [login[p] EXCEPT !.pc = at]
      OBVIOUS
    <2>2. l \in LoginType /\ l.pc = at /\ l.saw = login[p].saw
      BY <1>1, <2>1 DEF LoginType
    <2>3. login' = [login EXCEPT ![p] = l]
      BY <1>5, <2>1 DEF WrongPassword
    <2>4. Moved(p, at) /\ login'[p].saw = login[p].saw
      BY <2>2, <2>3, Replaced
    <2>. QED
      BY <1>5, <2>1, <2>4 DEF WrongPassword
  <1>6. ASSUME RightPassword(p)
        PROVE  (Moved(p, "unlock") \/ Moved(p, "idle")) /\ login[p].pc = "judge"
    <2>1. PICK l : l = [login[p] EXCEPT !.pc = "unlock"]
      OBVIOUS
    <2>2. l \in LoginType /\ l.pc = "unlock"
      BY <1>1, <2>1 DEF LoginType
    <2>3. login' = [login EXCEPT ![p] = l] \/ login' = [login EXCEPT ![p] = NoLogin]
      BY <1>6, <2>1 DEF RightPassword
    <2>4. login[p].pc = "judge"
      BY <1>6 DEF RightPassword
    <2>5. ASSUME login' = [login EXCEPT ![p] = l] PROVE Moved(p, "unlock")
      BY <2>2, <2>5, Replaced
    <2>6. ASSUME login' = [login EXCEPT ![p] = NoLogin] PROVE Moved(p, "idle")
      BY <1>11, <2>6
    <2>. QED
      BY <2>3, <2>4, <2>5, <2>6
  <1>7. ASSUME CountFailures(p)
        PROVE  login' \in [Request -> LoginType]
    BY <1>1, <1>7 DEF CountFailures, LoginType
  <1>8. ASSUME LockAccount(p)
        PROVE  Moved(p, "commit") /\ login[p].pc = "lock"
    BY <1>1, <1>8 DEF LockAccount, Moved, LoginType, LockValues
  <1>9. ASSUME UnlockAccount(p)
        PROVE  Moved(p, "audit") /\ login[p].pc = "unlock"
    BY <1>1, <1>9 DEF UnlockAccount, Moved, LoginType, LockValues
  <1>10. ASSUME AuditUnlock(p)
         PROVE  Moved(p, "commit") /\ login[p].pc = "audit"
    <2>1. PICK l : l = [login[p] EXCEPT !.pc = "commit"]
      OBVIOUS
    <2>2. l \in LoginType /\ l.pc = "commit"
      BY <1>1, <2>1 DEF LoginType
    <2>3. login' = [login EXCEPT ![p] = l] /\ login[p].pc = "audit"
      BY <1>10, <2>1 DEF AuditUnlock
    <2>. QED
      BY <2>2, <2>3, Replaced
  <1>. QED
    BY <1>2, <1>3, <1>4, <1>5, <1>6, <1>7, <1>8, <1>9, <1>10, <1>11

(* Each step keeps the types. *)
LEMMA TypesOfRequest ==
  ASSUME LockTypeOK, NEW p \in Request,
         ReadUser(p) \/ AdminUnlock(p) \/ CompleteLogin(p) \/ LockRequest(p)
  PROVE  LockTypeOK'
PROOF
  <1>1. /\ lock \in LockValues /\ history \in Seq(RowType) /\ challenge \in BOOLEAN
        /\ login \in [Request -> LoginType] /\ reaper \in {"idle", "unlock", "audit"}
        /\ guesses \in Nat /\ login[p] \in LoginType
    BY LockTypes
  <1>2. login' \in [Request -> LoginType]
    <2>1. \A at : Moved(p, at) => login' \in [Request -> LoginType]
      BY DEF Moved
    <2>2. CASE CommitFailure(p) \/ CommitUser(p) \/ AbortLogin(p)
      BY <2>1, <2>2, LoginMoves DEF CommitFailure, CommitUser, AbortLogin
    <2>. QED
      BY <2>1, <2>2, LoginMoves DEF LockRequest
  <1>3. history' \in Seq(RowType)
    <2>1. \A e \in {"failure", "success", "unlock"} : Writes(p, e) => history' \in Seq(RowType)
      <3>. SUFFICES ASSUME NEW e \in {"failure", "success", "unlock"}, Writes(p, e)
                    PROVE  history' \in Seq(RowType)
        OBVIOUS
      <3>1. PICK r : r = Row(e, p)
        OBVIOUS
      <3>2. r \in RowType
        BY <3>1 DEF Row, RowType
      <3>3. history' = Append(history, r)
        BY <3>1 DEF Writes
      <3>. QED
        BY <1>1, <3>2, <3>3, AppendProperties
    <2>2. CommittedHistory(p) \in Seq(RowType)
      BY <1>1, CommittedRows
    <2>3. \A k \in DOMAIN history : RemoveAt(history, k) \in Seq(RowType)
      BY <1>1, RemovedRow
    <2>4. CASE AbortLogin(p)
      BY <1>1, <2>3, <2>4 DEF AbortLogin
    <2>5. CASE WrongPassword(p) \/ AuditUnlock(p) \/ CompleteLogin(p)
      BY <2>1, <2>5 DEF WrongPassword, AuditUnlock, CompleteLogin
    <2>6. CASE CommitFailure(p) \/ CommitUser(p)
      BY <2>2, <2>6 DEF CommitFailure, CommitUser
    <2>7. ReadUser(p) \/ AdminUnlock(p) \/ CountFailures(p) \/ LockAccount(p) \/ RightPassword(p)
            \/ UnlockAccount(p) => history' = history
      BY DEF ReadUser, AdminUnlock, CountFailures, LockAccount, RightPassword, UnlockAccount
    <2>. QED
      BY <1>1, <2>4, <2>5, <2>6, <2>7 DEF LockRequest
  <1>4. lock' \in LockValues
    <2>1. lock' = lock \/ (lock' = login[p].lock /\ login[p].lock # "kept")
      BY DEF ReadUser, AdminUnlock, CompleteLogin, LockRequest, WrongPassword, CountFailures,
             LockAccount, CommitFailure, RightPassword, UnlockAccount, AuditUnlock, CommitUser, AbortLogin
    <2>2. login[p].lock \in LockValues \union {"kept"}
      BY <1>1 DEF LoginType
    <2>. QED
      BY <1>1, <2>1, <2>2
  <1>5. guesses' \in Nat
    <2>1. guesses' = guesses \/ guesses' = guesses + 1 \/ guesses' = 0
      BY DEF ReadUser, AdminUnlock, CompleteLogin, LockRequest, WrongPassword, CountFailures,
             LockAccount, CommitFailure, RightPassword, UnlockAccount, AuditUnlock, CommitUser, AbortLogin
    <2>. QED
      BY <1>1, <2>1
  <1>6. reaper' = reaper
    BY DEF ReadUser, AdminUnlock, CompleteLogin, LockRequest, WrongPassword, CountFailures,
           LockAccount, CommitFailure, RightPassword, UnlockAccount, AuditUnlock, CommitUser, AbortLogin
  <1>7. challenge' \in BOOLEAN
    <2>1. CASE RightPassword(p)
      BY <1>1, <2>1, Zenon DEF RightPassword
    <2>2. CASE AuditUnlock(p)
      BY <1>1, <2>2, Zenon DEF AuditUnlock
    <2>3. CASE CompleteLogin(p)
      BY <2>3 DEF CompleteLogin
    <2>4. CASE ~RightPassword(p) /\ ~AuditUnlock(p) /\ ~CompleteLogin(p)
      BY <1>1, <2>4 DEF ReadUser, AdminUnlock, LockRequest, WrongPassword, CountFailures,
           LockAccount, CommitFailure, UnlockAccount, CommitUser, AbortLogin
    <2>. QED
      BY <2>1, <2>2, <2>3, <2>4
  <1>. QED
    BY <1>1, <1>2, <1>3, <1>4, <1>5, <1>6, <1>7 DEF LockTypeOK, RowType, LoginType

LEMMA RequestStep ==
  ASSUME LockInv, NEW p \in Request,
         ReadUser(p) \/ AdminUnlock(p) \/ CompleteLogin(p) \/ LockRequest(p)
  PROVE  LockInv'
PROOF
  <1>1. LockTypeOK /\ LockTypeOK'
    BY TypesOfRequest DEF LockInv
  <1>2. CASE ReadUser(p) \/ AdminUnlock(p) \/ RightPassword(p) \/ UnlockAccount(p) \/ LockAccount(p)
    <2>1. UNCHANGED <<history, guesses>>
      BY <1>2 DEF ReadUser, AdminUnlock, RightPassword, UnlockAccount, LockAccount
    <2>2. /\ \A q \in Request \ {p} : login'[q] = login[q]
          /\ \/ /\ login[p].pc \in {"idle", "judge", "unlock"}
                /\ login'[p].pc \notin {"count", "failed"}
             \/ login[p].pc = "lock" /\ login'[p].pc = "commit"
      BY <1>1, <1>2, LoginMoves DEF Moved
    <2>. QED
      BY <1>1, <2>1, <2>2, QuietStep
  <1>3. CASE WrongPassword(p)
    <2>1. Writes(p, "failure") /\ guesses' = guesses
      BY <1>3 DEF WrongPassword
    <2>2. /\ login[p].pc = "judge" /\ \A q \in Request \ {p} : login'[q] = login[q]
          /\ login'[p].pc = "count" \/ (login'[p].pc = "failed" /\ login'[p].saw # "none")
      BY <1>1, <1>3, LoginMoves DEF Moved
    <2>. QED
      BY <1>1, <2>1, <2>2, WritingStep
  <1>4. CASE AuditUnlock(p) \/ CompleteLogin(p)
    <2>1. (Writes(p, "unlock") \/ Writes(p, "success")) /\ guesses' = guesses
      BY <1>4 DEF AuditUnlock, CompleteLogin
    <2>2. /\ login[p].pc \in {"idle", "audit"} /\ login'[p].pc = "commit"
          /\ \A q \in Request \ {p} : login'[q] = login[q]
      BY <1>1, <1>4, LoginMoves DEF Moved
    <2>. QED
      BY <1>1, <2>1, <2>2, WritingStep
  <1>. QED
    BY <1>1, <1>2, <1>3, <1>4, CountStep, FailureStep, UserStep, AbortStep DEF LockRequest

LEMMA OtherStep ==
  ASSUME LockInv, Reaper \/ LockExpires \/ ForgetSecondFactor \/ UNCHANGED lockVars
  PROVE  LockInv'
PROOF
  <1>1. /\ lock \in LockValues /\ history \in Seq(RowType) /\ challenge \in BOOLEAN
        /\ login \in [Request -> LoginType] /\ reaper \in {"idle", "unlock", "audit"}
        /\ guesses \in Nat
    BY LockTypes DEF LockInv
  <1>2. CASE ReapAudit
    <2>1. /\ history' = <<>> /\ guesses' = 0 /\ reaper' = "idle"
          /\ UNCHANGED <<lock, challenge, login>>
      BY <1>2 DEF ReapAudit
    <2>2. history' \in Seq(RowType)
      BY <2>1
    <2>3. LockTypeOK'
      BY <1>1, <2>1, <2>2 DEF LockTypeOK, RowType, LoginType
    <2>. QED
      BY <1>2, <2>3, AuditStep
  <1>3. CASE ReapSelect \/ ReapUnlock \/ ReapCrash \/ ForgetSecondFactor \/ UNCHANGED lockVars
    <2>1. /\ UNCHANGED <<history, guesses, login>> /\ lock' \in LockValues
          /\ challenge' \in BOOLEAN /\ reaper' \in {"idle", "unlock", "audit"}
      BY <1>1, <1>3 DEF ReapSelect, ReapUnlock, ReapCrash, ForgetSecondFactor, lockVars, LockValues
    <2>2. LockTypeOK'
      BY <1>1, <2>1 DEF LockTypeOK, RowType, LoginType
    <2>. QED
      BY <2>1, <2>2, QuietStep
  <1>4. CASE LockExpires
    <2>1. lock' = "expired" /\ UNCHANGED <<history, challenge, reaper, guesses>>
      BY <1>4 DEF LockExpires
    <2>2. ASSUME NEW p \in Request
          PROVE  /\ login'[p] \in LoginType /\ login'[p].pc = login[p].pc
                 /\ login'[p].saw = "none" => login[p].saw = "none"
      <3>1. PICK l : l = [login[p] EXCEPT !.saw = "expired"]
        OBVIOUS
      <3>2. login[p] \in LoginType
        BY <1>1
      <3>3. l \in LoginType /\ l.pc = login[p].pc /\ l.saw = "expired"
        BY <3>1, <3>2 DEF LoginType, LockValues
      <3>4. login'[p] = l \/ login'[p] = login[p]
        BY <1>4, <3>1 DEF LockExpires
      <3>. QED
        BY <3>2, <3>3, <3>4
    <2>3. login' \in [Request -> LoginType]
      BY <1>4, <2>2 DEF LockExpires
    <2>4. LockTypeOK'
      BY <1>1, <2>1, <2>3 DEF LockTypeOK, RowType, LoginType, LockValues
    <2>. QED
      BY <2>1, <2>2, <2>4, QuietStep
  <1>. QED
    BY <1>2, <1>3, <1>4 DEF Reaper

LEMMA LockStarts == LockInit => LockInv
PROOF
  <1>. SUFFICES ASSUME LockInit
                PROVE  LockInv
    OBVIOUS
  <1>1. \A p \in Request : login[p] = NoLogin /\ login[p].pc = "idle"
    BY NoLoginIsIdle DEF LockInit
  <1>2. LockTypeOK
    <2>1. history \in Seq(RowType) /\ login \in [Request -> LoginType]
      BY NoLoginIsIdle DEF LockInit
    <2>. QED
      BY <2>1 DEF LockInit, LockTypeOK, RowType, LoginType, LockValues
  <1>3. RowsFit
    BY DEF LockInit, RowsFit, Standing, OwnRow
  <1>4. Passing = {} /\ Astray = {}
    BY <1>1 DEF Passing, Astray
  <1>5. Cardinality(Passing) = 0 /\ Cardinality(Astray) = 0
    BY <1>4, FS_EmptySet
  <1>6. Cardinality(Standing) \in Nat /\ guesses = 0
    BY <1>2, FewRows DEF Standing, LockInit, LockTypeOK, RowType
  <1>. QED
    BY <1>2, <1>3, <1>5, <1>6, SomeRequests DEF LockInv

(* An account answers at most LockAfter - 1 wrong passwords before it is     *)
(* locked, besides those of requests that overlap with the cut of the count  *)
(* or with the last of them (maybe_lock_after_failure).  The first set is     *)
(* Astray, the second Passing.                                               *)
THEOREM FewGuessesBeforeLock == LockSpec => []GuessesBeforeLock
PROOF
  <1>1. LockInv /\ [LockNext]_lockVars => LockInv'
    BY RequestStep, OtherStep DEF LockNext
  <1>2. LockInv => GuessesBeforeLock
    <2>. SUFFICES ASSUME LockInv
                  PROVE  GuessesBeforeLock
      OBVIOUS
    <2>1. Cardinality(Passing) \in Nat /\ guesses \in Nat
      BY FewRequests, LockTypes DEF Passing, LockInv
    <2>. QED
      BY <2>1, SomeRequests DEF LockInv, GuessesBeforeLock, R
  <1>. QED
    BY <1>1, <1>2, LockStarts, PTL DEF LockSpec
==============================================================================
