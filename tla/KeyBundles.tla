----------------------------- MODULE KeyBundles -----------------------------
(***************************************************************************)
(* The public keys of the devices of one user, which its contacts fetch as *)
(* bundles, and the key of one group.  A bundle of a device takes its       *)
(* oldest one-time key: read, then marked as consumed, with no lock between *)
(* the two, and committed with the request.                                 *)
(***************************************************************************)
EXTENDS Requests, Naturals, Sequences, FiniteSets, SequencesExt
CONSTANTS
  Phone,   \* devices of the user
  Otpk     \* values of key_id

ASSUME OtpksAreFinite == IsFiniteSet(Otpk)   \* integers of one column

VARIABLES
  identity,   \* devices with a row in identity_keys
  signed,     \* devices with a row in signed_prekeys
  prekeys,    \* one_time_prekeys of a device, in the order of created_at
  consumed,   \* those with consumed_at
  groupKey,   \* the group has its row in conversation_keys
  fetch,      \* the requests
  handed,     \* history: the bundles that were answered with a key
  shared      \* history: keys picked while another request had picked them

keyVars == <<identity, signed, prekeys, consumed, groupKey, fetch, handed, shared>>

NoFetch == [pc |-> "idle", todo |-> {}, phone |-> None, key |-> None, batch |-> <<>>, took |-> {}]

KeyInit ==
  /\ identity = {} /\ signed = {}
  /\ prekeys = [d \in Phone |-> <<>>]
  /\ consumed = {}
  /\ groupKey = FALSE
  /\ fetch = [p \in Request |-> NoFetch]
  /\ handed = [k \in Phone \X Otpk |-> 0]
  /\ shared = {}

StartsFetch(p, f) ==
  /\ fetch[p].pc = "idle"
  /\ fetch' = [fetch EXCEPT ![p] = f]
  /\ UNCHANGED <<identity, signed, prekeys, consumed, groupKey, handed, shared>>

-----------------------------------------------------------------------------
(* The device publishes. *)

UpsertIdentity(d) ==
  /\ identity' = identity \union {d}
  /\ UNCHANGED <<signed, prekeys, consumed, groupKey, fetch, handed, shared>>

UpsertSignedPrekey(d) ==
  /\ signed' = signed \union {d}
  /\ UNCHANGED <<identity, prekeys, consumed, groupKey, fetch, handed, shared>>

(* A key_id that the device has, consumed or not, is skipped. *)
BeginLoad(p, d, ids) ==
  \E order \in SetToSeqs(ids \ ToSet(prekeys[d])) :
    StartsFetch(p, [NoFetch EXCEPT !.pc = "load", !.phone = d, !.batch = order])

(* The unique index refuses a key_id that another request has loaded. *)
CommitLoad(p) ==
  LET f == fetch[p] IN
  /\ f.pc = "load"
  /\ ToSet(f.batch) \intersect ToSet(prekeys[f.phone]) = {}
  /\ prekeys' = [prekeys EXCEPT ![f.phone] = @ \o f.batch]
  /\ fetch' = [fetch EXCEPT ![p] = NoFetch]
  /\ UNCHANGED <<identity, signed, consumed, groupKey, handed, shared>>

(* kill_device, of a revoked or banned device, which may publish new keys     *)
(* later, under the same identifiers.  The DELETE waits for the rows that       *)
(* others have marked; who has only read one will find none to mark.          *)
PurgeKeys(d) ==
  LET mine == {d} \X Otpk IN
  /\ \A q \in Request : fetch[q].took \intersect mine = {}
  /\ identity' = identity \ {d} /\ signed' = signed \ {d}
  /\ prekeys' = [prekeys EXCEPT ![d] = <<>>]
  /\ consumed' = consumed \ mine
  /\ fetch' = [q \in Request |-> IF fetch[q].pc = "save" /\ fetch[q].phone = d
                                THEN [NoFetch EXCEPT !.pc = "lost"] ELSE fetch[q]]
  /\ handed' = [k \in Phone \X Otpk |-> IF k \in mine THEN 0 ELSE handed[k]]
  /\ shared' = shared \ mine
  /\ UNCHANGED groupKey

-----------------------------------------------------------------------------
(* A contact fetches the bundles. *)

(* All devices with an identity, or the one that device_id names. *)
BeginBundles(p, devices) ==
  /\ devices \in {identity} \union {{d} : d \in identity}
  /\ devices # {}
  /\ StartsFetch(p, [NoFetch EXCEPT !.pc = "pick", !.todo = devices])

(* Mutant: consumed_at is not looked at. *)
AnyPrekey(d) == ToSet(prekeys[d])

(* What a request sees as available; it has marked nothing of d itself yet. *)
Available(d) == {k \in ToSet(prekeys[d]) : <<d, k>> \notin consumed}

Oldest(d) ==
  LET left == {i \in DOMAIN prekeys[d] : prekeys[d][i] \in Available(d)}
  IN  IF left = {} THEN None ELSE prekeys[d][Min(left)]

Picked(q) == fetch[q].took \union {<<fetch[q].phone, fetch[q].key>>}

(* A device without a signed key is passed over. *)
PickPrekey(p, d) ==
  LET k == Oldest(d)
      seen == <<d, k>> IN
  /\ fetch[p].pc = "pick" /\ d \in fetch[p].todo
  /\ fetch' = IF d \notin signed \/ k = None
              THEN [fetch EXCEPT ![p].todo = @ \ {d}]
              ELSE [fetch EXCEPT ![p].todo = @ \ {d}, ![p].pc = "save",
                                 ![p].phone = d, ![p].key = k]
  /\ shared' = IF d \in signed /\ k # None /\ \E q \in Request \ {p} : seen \in Picked(q)
               THEN shared \union {seen} ELSE shared
  /\ UNCHANGED <<identity, signed, prekeys, consumed, groupKey, handed>>

(* The UPDATE waits for the row, and does not look at consumed_at again; one  *)
(* whose row has gone ("lost") fails.                                        *)
ConsumePrekey(p) ==
  LET k == <<fetch[p].phone, fetch[p].key>> IN
  /\ fetch[p].pc = "save"
  /\ \A q \in Request \ {p} : k \notin fetch[q].took
  /\ fetch' = [fetch EXCEPT ![p].pc = "pick", ![p].took = @ \union {k},
                            ![p].phone = None, ![p].key = None]
  /\ UNCHANGED <<identity, signed, prekeys, consumed, groupKey, handed, shared>>

CommitBundles(p) ==
  LET f == fetch[p] IN
  /\ f.pc = "pick" /\ f.todo = {}
  /\ consumed' = consumed \union f.took
  /\ handed' = [k \in Phone \X Otpk |-> handed[k] + IF k \in f.took THEN 1 ELSE 0]
  /\ fetch' = [fetch EXCEPT ![p] = NoFetch]
  /\ UNCHANGED <<identity, signed, prekeys, groupKey, shared>>

-----------------------------------------------------------------------------
(* The key of a group: made by the first who needs it. *)

BeginGroupKey(p) ==
  ~groupKey /\ StartsFetch(p, [NoFetch EXCEPT !.pc = "wrap"])

(* (conversation, version) is unique: the second of two is refused. *)
CommitGroupKey(p) ==
  /\ fetch[p].pc = "wrap" /\ ~groupKey
  /\ groupKey' = TRUE
  /\ fetch' = [fetch EXCEPT ![p] = NoFetch]
  /\ UNCHANGED <<identity, signed, prekeys, consumed, handed, shared>>

(* A request that fails, or that waits in a circle with another, marks      *)
(* nothing.                                                                 *)
AbortFetch(p) ==
  /\ fetch[p].pc # "idle"
  /\ fetch' = [fetch EXCEPT ![p] = NoFetch]
  /\ UNCHANGED <<identity, signed, prekeys, consumed, groupKey, handed, shared>>

KeyNext ==
  \/ \E d \in Phone : UpsertIdentity(d) \/ UpsertSignedPrekey(d) \/ PurgeKeys(d)
  \/ \E p \in Request :
       \/ \E d \in Phone, ids \in SUBSET Otpk : BeginLoad(p, d, ids)
       \/ \E devices \in SUBSET Phone : BeginBundles(p, devices)
       \/ \E d \in Phone : PickPrekey(p, d)
       \/ CommitLoad(p) \/ ConsumePrekey(p) \/ CommitBundles(p)
       \/ BeginGroupKey(p) \/ CommitGroupKey(p) \/ AbortFetch(p)

KeySpec == KeyInit /\ [][KeyNext]_keyVars

-----------------------------------------------------------------------------
(* Properties. *)

(* OneTimePreKey ("consommee a la lecture du bundle"): a one-time key is     *)
(* handed to one contact, however uploads, bundles of one and of all devices *)
(* and failures interleave, unless two requests had picked it at once.       *)
PrekeyOnce == \A k \in Phone \X Otpk : handed[k] > 1 => k \in shared

=============================================================================
