----------------------------- MODULE RecordsProofs -----------------------------
(***************************************************************************)
(* Proofs about what is kept of a customer and of a case: CustomerRecords, *)
(* for any customers, cases, holds, writers, erasers and number of keys;   *)
(* AttachmentScans, for any number of attachments, scans and downloads;    *)
(* RepresentmentPack, for every checklist, any number of requests and      *)
(* pieces of evidence.                                                     *)
(*                                                                         *)
(* Why the promises about customers hold although every transaction works  *)
(* on what it read some statements ago: a case once filed is never changed *)
(* (CasesAreFixed), a key once stored is only ever destroyed, a first key  *)
(* that comes second is refused (KeysFit), and a hold that has stood since *)
(* a check began is found by one of its statements (ChecksMissNothing).    *)
(* Packs are whole although every call decides by a copy: a copy is always *)
(* something the row once was (CopiesWereStored), because a call that      *)
(* changes its copy stores it.                                             *)
(***************************************************************************)
EXTENDS CustomerRecords, AttachmentScans, RepresentmentPack, TLAPS

RowOf(w) == writer[w].row
ItemOf(w) == writer[w].item

(* Of two requests that file, each files a case of its own; a message is for *)
(* a case that is filed.                                                    *)
CasesAreFixed ==
  \A w \in Writers : writer[w].busy =>
    \/ ItemOf(w).case \in Filed /\ RowOf(w) = filed[ItemOf(w).case]
    \/ /\ ItemOf(w).case \notin Filed
       /\ \A v \in Writers \ {w} : writer[v].busy => ItemOf(v).case # ItemOf(w).case

(* What a writer has sealed is under its customer's key, or under a new one  *)
(* it will store.                                                           *)
KeysFit ==
  \A w \in Writers : writer[w].busy =>
    IF writer[w].fresh THEN ItemOf(w).under # 0
    ELSE ItemOf(w).under # 0 => keys[RowOf(w).customer].key = ItemOf(w).under

(* While sealing has never been off, nothing is stored in the clear. *)
NothingIsPlain ==
  ~everOff => /\ sealing
              /\ \A item \in content : item.under # 0
              /\ \A w \in Writers : writer[w].busy => ItemOf(w).under # 0

Checks ==
  [stage : {"cases", "checked"}, customer : Customers, purpose : {"shred", "decide"},
   left : SUBSET Cases, found : SUBSET Holds, standing : SUBSET Holds]

(* A hold that stood when a check began, and still does, has been found or   *)
(* is still ahead of it.                                                    *)
Ahead(check, h) ==
  /\ check.stage = "cases"
  /\ \/ h.scope = "customer" /\ h.of = check.customer
     \/ \E x \in check.left : Covers(h, filed[x], x)

MissesNothing(check) ==
  /\ check.standing \subseteq active
  /\ check.left \subseteq Filed
  /\ \A h \in check.standing : h \in check.found \/ Ahead(check, h)

ChecksMissNothing ==
  \A e \in Erasers : eraser[e].stage # "idle" => MissesNothing(eraser[e])

RecordsInv ==
  /\ RecordsTypeOK
  /\ CasesAreFixed
  /\ KeysFit
  /\ NothingIsPlain
  /\ ChecksMissNothing
  /\ SealedUnderTheStoredKey

-----------------------------------------------------------------------------
(* The invariant. *)

LEMMA InitRecords == RecordsInit => RecordsInv
<1> SUFFICES ASSUME RecordsInit PROVE RecordsInv OBVIOUS
<1>1. RecordsTypeOK
  BY RecordsAssumption
     DEF RecordsInit, RecordsTypeOK, Outcomes, KeyRow, CaseRow
<1>2. CasesAreFixed /\ KeysFit /\ NothingIsPlain /\ SealedUnderTheStoredKey
  BY DEF RecordsInit, CasesAreFixed, KeysFit, NothingIsPlain, SealedUnderTheStoredKey,
         IdleWriter
<1>3. ChecksMissNothing
  BY DEF RecordsInit, ChecksMissNothing, IdleEraser
<1> QED BY <1>1, <1>2, <1>3 DEF RecordsInv

(* The key seal chooses fits the customer: none where sealing is off, the    *)
(* stored one, or the next to be generated.                                 *)
LEMMA SealedFits ==
  ASSUME RecordsTypeOK, NEW c \in Customers, NEW k \in SealKeys(c)
  PROVE  /\ k \in 0 .. MaxKeys
         /\ sealing => k # 0
         /\ k = generated + 1 => k # 0
         /\ k # 0 => k = generated + 1 \/ keys[c].key = k
<1>1. generated \in Nat /\ MaxKeys \in Nat /\ generated <= MaxKeys
  BY RecordsAssumption DEF RecordsTypeOK
<1>2. keys[c] \in KeyRow \cup {NoKey}
  BY DEF RecordsTypeOK
<1>3. CASE ~sealing
  BY <1>1, <1>3 DEF SealKeys
<1>4. CASE sealing /\ keys[c] = NoKey
  BY <1>1, <1>4 DEF SealKeys
<1>5. CASE sealing /\ keys[c] # NoKey
  BY <1>1, <1>2, <1>5 DEF SealKeys, StoredKeys, KeyRow
<1> QED BY <1>3, <1>4, <1>5

(* The step of a request that has prepared a row for a case that is filed,   *)
(* or that nobody else files.                                               *)
Prepares(w, x, row, k, new) ==
  /\ writer[w] = IdleWriter
  /\ k \in SealKeys(row.customer)
  /\ new \in Prepared /\ new.busy /\ new.row = row
  /\ new.item = [case |-> x, under |-> k] /\ (new.fresh <=> k = generated + 1)
  /\ \/ x \in Filed /\ row = filed[x]
     \/ x \notin Filed /\ \A v \in Writers : writer[v].busy => writer[v].item.case # x
  /\ writer' = [writer EXCEPT ![w] = new]
  /\ generated' = IF k = generated + 1 THEN k ELSE generated
  /\ UNCHANGED <<tables, eraser>>

LEMMA PrepareKeepsInv ==
  ASSUME RecordsInv, NEW w \in Writers, NEW x \in Cases, NEW row \in CaseRow, NEW k, NEW new,
         Prepares(w, x, row, k, new)
  PROVE  RecordsInv'
<1> USE DEF RecordsInv, Prepares
<1>1. row.customer \in Customers
  BY DEF CaseRow
<1>2. /\ k \in 0 .. MaxKeys /\ (sealing => k # 0)
      /\ k = generated + 1 => k # 0
      /\ k # 0 => k = generated + 1 \/ keys[row.customer].key = k
  BY <1>1, SealedFits
<1>4. /\ new.busy /\ new.item.case = x /\ new.item.under = k /\ new.row = row
      /\ new.fresh <=> k = generated + 1
  OBVIOUS
<1>5. /\ writer' = [writer EXCEPT ![w] = new]
      /\ writer'[w] = new /\ \A v \in Writers \ {w} : writer'[v] = writer[v]
  BY DEF RecordsTypeOK
<1>6. UNCHANGED <<filed, content, plain, keys, sealing, everOff, active, placed, requests, eraser>>
  BY DEF tables
<1>7. RecordsTypeOK'
  <2>1. writer' \in [Writers -> {IdleWriter} \cup Prepared]
    BY <1>5 DEF RecordsTypeOK
  <2>2. generated' \in 0 .. MaxKeys
    BY <1>2 DEF RecordsTypeOK
  <2> QED BY <1>6, <2>1, <2>2 DEF RecordsTypeOK
<1>8. CasesAreFixed'
  BY <1>4, <1>5, <1>6 DEF CasesAreFixed, Filed, RowOf, ItemOf
<1>9. KeysFit'
  BY <1>2, <1>4, <1>5, <1>6 DEF KeysFit, RowOf, ItemOf
<1>10. NothingIsPlain'
  BY <1>2, <1>4, <1>5, <1>6 DEF NothingIsPlain, ItemOf
<1>11. ChecksMissNothing' /\ SealedUnderTheStoredKey'
  BY <1>6 DEF ChecksMissNothing, MissesNothing, Ahead, SealedUnderTheStoredKey, Filed,
              Covers
<1> QED BY <1>7, <1>8, <1>9, <1>10, <1>11

LEMMA BusyIsPrepared ==
  ASSUME RecordsTypeOK, NEW w \in Writers, writer[w].busy
  PROVE  writer[w] \in Prepared
<1>1. writer[w] # IdleWriter
  BY DEF IdleWriter
<1> QED BY <1>1 DEF RecordsTypeOK

LEMMA RowIsFiled ==
  ASSUME NEW row \in CaseRow
  PROVE  row.customer \in Customers /\ row # NotFiled
<1>1. row.customer \in Customers /\ row.filed = TRUE
  BY DEF CaseRow
<1>2. NotFiled.filed = FALSE
  BY DEF NotFiled
<1> QED BY <1>1, <1>2

(* What was prepared is stored, with its key if it is a first one. *)
LEMMA CommitKeepsInv ==
  ASSUME RecordsInv, NEW w \in Writers, CommitWrite(w)
  PROVE  RecordsInv'
<1> USE DEF RecordsInv
<1> DEFINE x == ItemOf(w).case  c == RowOf(w).customer  k == ItemOf(w).under
<1>1. /\ writer[w].busy
      /\ writer[w].fresh => keys[c] = NoKey
      /\ filed' = [filed EXCEPT ![x] = RowOf(w)]
      /\ content' = content \cup {ItemOf(w)}
      /\ plain' = IF writer[w].routed THEN plain \cup {x} ELSE plain
      /\ keys' = IF writer[w].fresh
                 THEN [keys EXCEPT ![c] = [key |-> k, destroyed |-> FALSE]] ELSE keys
      /\ writer' = [writer EXCEPT ![w] = IdleWriter]
      /\ UNCHANGED <<generated, sealing, everOff, active, placed, requests, eraser>>
  BY DEF CommitWrite, Conflicts, RowOf, ItemOf
<1>2. writer[w] \in Prepared
  BY <1>1, BusyIsPrepared
<1>3. /\ ItemOf(w) \in Contents /\ x \in Cases /\ k \in 0 .. MaxKeys
      /\ RowOf(w) \in CaseRow /\ RowOf(w) # NotFiled /\ c \in Customers
      /\ ItemOf(w) = [case |-> x, under |-> k]
  <2>1. ItemOf(w) \in Contents /\ RowOf(w) \in CaseRow
    BY <1>2 DEF RowOf, ItemOf, Prepared
  <2>2. x \in Cases /\ k \in 0 .. MaxKeys /\ ItemOf(w) = [case |-> x, under |-> k]
    BY <2>1 DEF Contents
  <2>3. c \in Customers /\ RowOf(w) # NotFiled
    BY <2>1, RowIsFiled
  <2> QED BY <2>1, <2>2, <2>3
<1>4. /\ filed'[x] = RowOf(w) /\ \A y \in Cases \ {x} : filed'[y] = filed[y]
      /\ Filed' = Filed \cup {x}
      /\ \A y \in Filed : filed'[y] = filed[y]
  BY <1>1, <1>3 DEF RecordsTypeOK, Filed, CasesAreFixed
<1>5. /\ ~writer'[w].busy /\ \A v \in Writers \ {w} : writer'[v] = writer[v]
  BY <1>1 DEF RecordsTypeOK, IdleWriter
<1>6. /\ \A d \in Customers : keys[d].key # 0 => keys'[d].key = keys[d].key
      /\ k # 0 => keys'[c].key = k
  BY <1>1, <1>3 DEF RecordsTypeOK, KeysFit, NoKey
<1>7. keys' \in [Customers -> KeyRow \cup {NoKey}]
  <2>1. writer[w].fresh => [key |-> k, destroyed |-> FALSE] \in KeyRow
    BY <1>1, <1>3 DEF KeysFit, KeyRow
  <2> QED BY <1>1, <1>3, <2>1 DEF RecordsTypeOK
<1>8. RecordsTypeOK'
  <2>1. filed' \in [Cases -> CaseRow \cup {NotFiled}] /\ content' \subseteq Contents
      /\ plain' \subseteq Cases
    BY <1>1, <1>3 DEF RecordsTypeOK
  <2>2. writer' \in [Writers -> {IdleWriter} \cup Prepared]
    BY <1>1 DEF RecordsTypeOK
  <2> QED BY <1>1, <1>7, <2>1, <2>2 DEF RecordsTypeOK
<1>9. CasesAreFixed'
  BY <1>1, <1>3, <1>4, <1>5 DEF CasesAreFixed, RowOf, ItemOf
<1>10. KeysFit'
  <2> SUFFICES ASSUME NEW v \in Writers \ {w}, writer[v].busy
               PROVE  IF writer[v].fresh THEN ItemOf(v).under # 0
                      ELSE ItemOf(v).under # 0 =>
                             keys'[RowOf(v).customer].key = ItemOf(v).under
    BY <1>5 DEF KeysFit, RowOf, ItemOf
  <2>1. RowOf(v) \in CaseRow
    BY BusyIsPrepared DEF RowOf, Prepared
  <2>2. RowOf(v).customer \in Customers
    BY <2>1, RowIsFiled
  <2> QED BY <1>6, <2>2 DEF KeysFit
<1>11. NothingIsPlain'
  BY <1>1, <1>5 DEF NothingIsPlain, ItemOf
<1>12. ChecksMissNothing'
  BY <1>1, <1>4 DEF ChecksMissNothing, MissesNothing, Ahead, Covers
<1>13. SealedUnderTheStoredKey'
  BY <1>1, <1>3, <1>4, <1>6 DEF SealedUnderTheStoredKey
<1> QED BY <1>8, <1>9, <1>10, <1>11, <1>12, <1>13

(* Checks in progress are not disturbed by what leaves cases and holds alone *)
(* or only files more cases.                                                *)
LEMMA StillMissesNothing ==
  ASSUME NEW check, MissesNothing(check), active \subseteq active', Filed \subseteq Filed',
         \A x \in Filed : filed'[x] = filed[x]
  PROVE  MissesNothing(check)'
BY DEF MissesNothing, Ahead, Covers

LEMMA CheckingIsTyped ==
  ASSUME RecordsTypeOK, NEW e \in Erasers, eraser[e].stage # "idle"
  PROVE  eraser[e] \in Checks
<1>1. eraser[e] # IdleEraser
  BY DEF IdleEraser
<1> QED BY <1>1 DEF RecordsTypeOK, Checks

(* One check moves on, and the rest of the tables stays. *)
LEMMA MoveKeepsInv ==
  ASSUME RecordsInv, NEW e \in Erasers, NEW new \in Checks, MissesNothing(new)',
         eraser' = [eraser EXCEPT ![e] = new], UNCHANGED <<tables, generated, writer>>
  PROVE  RecordsInv'
<1> USE DEF RecordsInv
<1>1. UNCHANGED <<filed, content, plain, keys, generated, sealing, everOff, active, placed,
                  requests, writer>>
  BY DEF tables
<1>2. RecordsTypeOK'
  BY <1>1 DEF RecordsTypeOK, Checks
<1>3. eraser'[e] = new /\ \A f \in Erasers \ {e} : eraser'[f] = eraser[f]
  BY DEF RecordsTypeOK
<1>4. ChecksMissNothing'
  <2> SUFFICES ASSUME NEW f \in Erasers \ {e}, eraser[f].stage # "idle"
               PROVE  MissesNothing(eraser[f])'
    BY <1>3 DEF ChecksMissNothing
  <2>1. MissesNothing(eraser[f])
    BY DEF ChecksMissNothing
  <2> QED BY <1>1, <1>3, <2>1 DEF MissesNothing, Ahead, Filed, Covers
<1>5. CasesAreFixed' /\ KeysFit' /\ NothingIsPlain' /\ SealedUnderTheStoredKey'
  BY <1>1 DEF CasesAreFixed, KeysFit, NothingIsPlain, SealedUnderTheStoredKey, RowOf,
              ItemOf, Filed
<1> QED BY <1>2, <1>4, <1>5

(* A check begins: what stands against the erasure is on one of the          *)
(* customer's cases or on the customer.                                     *)
LEMMA BeginKeepsInv ==
  ASSUME RecordsInv, NEW e \in Erasers, NEW c \in Customers,
         NEW purpose \in {"shred", "decide"}, BeginCheck(e, c, purpose)
  PROVE  RecordsInv'
<1> PICK new : new = [stage |-> "cases", customer |-> c, purpose |-> purpose,
                      left |-> CasesOf(c), found |-> {}, standing |-> Blocking(c)]
  OBVIOUS
<1>1. eraser' = [eraser EXCEPT ![e] = new] /\ UNCHANGED <<tables, generated, writer>>
  BY DEF BeginCheck
<1>2. CasesOf(c) \subseteq Filed /\ Filed \subseteq Cases
  BY DEF CasesOf, Filed
<1>3. ASSUME NEW h \in Blocking(c)
      PROVE  h \in active /\ (\/ h.scope = "customer" /\ h.of = c
                             \/ \E x \in CasesOf(c) : Covers(h, filed[x], x))
  <2>1. CASE h \in { g \in active : g.scope = "customer" /\ g.of = c }
    BY <2>1
  <2>2. CASE \E x \in CasesOf(c) : h \in HoldsOn(x)
    BY <2>2 DEF HoldsOn
  <2>3. \/ h \in UNION { HoldsOn(x) : x \in CasesOf(c) }
        \/ h \in { g \in active : g.scope = "customer" /\ g.of = c }
    BY DEF Blocking
  <2>4. h \in UNION { HoldsOn(x) : x \in CasesOf(c) } =>
          \E x \in CasesOf(c) : h \in HoldsOn(x)
    BY Zenon
  <2> QED BY <2>1, <2>2, <2>3, <2>4
<1>4. Blocking(c) \subseteq Holds
  BY <1>3 DEF RecordsInv, RecordsTypeOK
<1>5. new \in Checks
  BY <1>2, <1>4 DEF Checks
<1>6. MissesNothing(new)'
  BY <1>1, <1>2, <1>3 DEF MissesNothing, Ahead, Filed, Covers, tables
<1> QED BY <1>1, <1>5, <1>6, MoveKeepsInv

(* The two statements of a check move what they find out of what is ahead.   *)
LEMMA CheckCaseKeepsInv ==
  ASSUME RecordsInv, NEW e \in Erasers, NEW x \in Cases, CheckCase(e, x)
  PROVE  RecordsInv'
<1>1. /\ eraser[e].stage = "cases" /\ x \in eraser[e].left
      /\ eraser' = [eraser EXCEPT ![e].left = @ \ {x}, ![e].found = @ \cup HoldsOn(x)]
      /\ UNCHANGED <<tables, generated, writer>>
  BY DEF CheckCase
<1>2. eraser[e] \in Checks
  BY <1>1, CheckingIsTyped DEF RecordsInv
<1> PICK new : new = [eraser[e] EXCEPT !.left = @ \ {x}, !.found = @ \cup HoldsOn(x)]
  OBVIOUS
<1>3. eraser' = [eraser EXCEPT ![e] = new]
  BY <1>1, <1>2 DEF RecordsInv, RecordsTypeOK
<1>4. /\ new \in Checks /\ new.stage = "cases" /\ new.customer = eraser[e].customer
      /\ new.left = eraser[e].left \ {x} /\ new.found = eraser[e].found \cup HoldsOn(x)
      /\ new.standing = eraser[e].standing
  BY <1>1, <1>2 DEF Checks, HoldsOn, RecordsInv, RecordsTypeOK
<1>5. MissesNothing(eraser[e])
  BY <1>1 DEF RecordsInv, ChecksMissNothing
<1>6. MissesNothing(new)
  BY <1>1, <1>4, <1>5 DEF MissesNothing, Ahead, HoldsOn
<1>7. MissesNothing(new)'
  BY <1>1, <1>6 DEF MissesNothing, Ahead, Filed, Covers, tables
<1> QED BY <1>1, <1>3, <1>4, <1>7, MoveKeepsInv

LEMMA CheckCustomerKeepsInv ==
  ASSUME RecordsInv, NEW e \in Erasers, CheckCustomer(e)
  PROVE  RecordsInv'
<1> PICK own : own = { h \in active : h.scope = "customer" /\ h.of = eraser[e].customer }
  OBVIOUS
<1>1. /\ eraser[e].stage = "cases" /\ eraser[e].left = {}
      /\ eraser' = [eraser EXCEPT ![e].stage = "checked", ![e].found = @ \cup own]
      /\ UNCHANGED <<tables, generated, writer>>
  BY DEF CheckCustomer
<1>2. eraser[e] \in Checks
  BY <1>1, CheckingIsTyped DEF RecordsInv
<1> PICK new : new = [eraser[e] EXCEPT !.stage = "checked", !.found = @ \cup own]
  OBVIOUS
<1>3. eraser' = [eraser EXCEPT ![e] = new]
  BY <1>1, <1>2 DEF RecordsInv, RecordsTypeOK
<1>4. /\ new \in Checks /\ new.left = eraser[e].left
      /\ new.found = eraser[e].found \cup own /\ new.standing = eraser[e].standing
  BY <1>1, <1>2 DEF Checks, RecordsInv, RecordsTypeOK
<1>5. MissesNothing(eraser[e])
  BY <1>1 DEF RecordsInv, ChecksMissNothing
<1>6. MissesNothing(new)
  BY <1>1, <1>4, <1>5 DEF MissesNothing, Ahead
<1>7. MissesNothing(new)'
  BY <1>1, <1>6 DEF MissesNothing, Ahead, Filed, Covers, tables
<1> QED BY <1>1, <1>3, <1>4, <1>7, MoveKeepsInv

(* A check ends in a decision, a refusal or a destroyed key. *)
LEMMA EndOfCheckKeepsInv ==
  ASSUME RecordsInv, NEW e \in Erasers, DecideErasure(e) \/ RefuseShred(e) \/ Shred(e)
  PROVE  RecordsInv'
<1> USE DEF RecordsInv
<1>1. /\ eraser[e].stage = "checked"
      /\ eraser' = [eraser EXCEPT ![e] = IdleEraser]
      /\ UNCHANGED <<filed, content, plain, generated, sealing, everOff, active, placed, writer>>
  BY DEF DecideErasure, RefuseShred, Shred, tables
<1>2. eraser[e].customer \in Customers
  BY <1>1, CheckingIsTyped DEF Checks
<1>3. /\ \A c \in Customers : keys'[c].key = keys[c].key
      /\ keys' \in [Customers -> KeyRow \cup {NoKey}]
  <2>1. CASE keys' = keys
    BY <2>1 DEF RecordsTypeOK
  <2>2. CASE keys' = [keys EXCEPT ![eraser[e].customer] =
                        IF @ = NoKey THEN NoKey ELSE [@ EXCEPT !.destroyed = TRUE]]
    <3> DEFINE c == eraser[e].customer
    <3>1. keys[c] = NoKey \/ (keys[c] \in KeyRow /\ keys[c] # NoKey)
      BY <1>2 DEF RecordsTypeOK
    <3>2. CASE keys[c] = NoKey
      BY <1>2, <2>2, <3>2 DEF RecordsTypeOK
    <3>3. CASE keys[c] \in KeyRow /\ keys[c] # NoKey
      <4>1. keys' = [keys EXCEPT ![c] = [keys[c] EXCEPT !.destroyed = TRUE]]
        BY <2>2, <3>3
      <4>2. /\ [keys[c] EXCEPT !.destroyed = TRUE] \in KeyRow
            /\ [keys[c] EXCEPT !.destroyed = TRUE].key = keys[c].key
        BY <3>3 DEF KeyRow
      <4> QED BY <1>2, <4>1, <4>2 DEF RecordsTypeOK
    <3> QED BY <3>1, <3>2, <3>3
  <2> QED BY <2>1, <2>2 DEF DecideErasure, RefuseShred, Shred, tables
<1>4. requests' \in [Customers -> Outcomes]
  BY DEF DecideErasure, RefuseShred, Shred, tables, RecordsTypeOK, Outcomes
<1>5. RecordsTypeOK'
  BY <1>1, <1>3, <1>4 DEF RecordsTypeOK
<1>6. ChecksMissNothing'
  BY <1>1 DEF ChecksMissNothing, RecordsTypeOK, IdleEraser, MissesNothing, Ahead, Covers,
              Filed
<1>7. CasesAreFixed' /\ NothingIsPlain'
  BY <1>1 DEF CasesAreFixed, NothingIsPlain, RowOf, ItemOf, Filed
<1>8. KeysFit'
  <2> SUFFICES ASSUME NEW v \in Writers, writer[v].busy
               PROVE  IF writer[v].fresh THEN ItemOf(v).under # 0
                      ELSE ItemOf(v).under # 0 =>
                             keys'[RowOf(v).customer].key = ItemOf(v).under
    BY <1>1 DEF KeysFit, RowOf, ItemOf
  <2>1. RowOf(v) \in CaseRow
    BY BusyIsPrepared DEF RowOf, Prepared
  <2>2. RowOf(v).customer \in Customers
    BY <2>1, RowIsFiled
  <2> QED BY <1>3, <2>2 DEF KeysFit
<1>9. SealedUnderTheStoredKey'
  <2> SUFFICES ASSUME NEW item \in content
               PROVE  item.case \in Filed
                      /\ (item.under # 0 => keys'[filed[item.case].customer].key = item.under)
    BY <1>1 DEF SealedUnderTheStoredKey, Filed
  <2>1. filed[item.case] \in CaseRow
    BY DEF SealedUnderTheStoredKey, Filed, RecordsTypeOK
  <2> QED BY <1>3, <2>1, RowIsFiled DEF SealedUnderTheStoredKey
<1> QED BY <1>5, <1>6, <1>7, <1>8, <1>9

(* A hold placed while a check runs is not one it must have found; one that  *)
(* is released no longer stands.                                            *)
LEMMA HoldsKeepInv ==
  ASSUME RecordsInv, NEW h \in Holds, Place(h) \/ Release(h)
  PROVE  RecordsInv'
<1> USE DEF RecordsInv
<1>1. UNCHANGED <<filed, content, plain, keys, generated, sealing, everOff, requests, writer>>
  BY DEF Place, Release
<1>2. CasesAreFixed' /\ KeysFit' /\ NothingIsPlain' /\ SealedUnderTheStoredKey'
  BY <1>1 DEF CasesAreFixed, KeysFit, NothingIsPlain, SealedUnderTheStoredKey, RowOf,
              ItemOf, Filed
<1>3. CASE Place(h)
  <2>1. RecordsTypeOK'
    BY <1>1, <1>3 DEF Place, RecordsTypeOK
  <2>2. ChecksMissNothing'
    BY <1>1, <1>3 DEF Place, ChecksMissNothing, MissesNothing, Ahead, Covers, Filed
  <2> QED BY <1>2, <2>1, <2>2
<1>4. CASE Release(h)
  <2>1. /\ active' = active \ {h} /\ placed' = placed
        /\ eraser' = [e \in Erasers |->
                        IF eraser[e].stage = "idle" THEN eraser[e]
                        ELSE [eraser[e] EXCEPT !.standing = @ \ {h}]]
    BY <1>4 DEF Release
  <2>2. ASSUME NEW e \in Erasers, eraser[e].stage # "idle"
        PROVE  /\ eraser'[e] \in Checks
               /\ eraser'[e].stage = eraser[e].stage
               /\ eraser'[e].customer = eraser[e].customer
               /\ eraser'[e].left = eraser[e].left /\ eraser'[e].found = eraser[e].found
               /\ eraser'[e].standing = eraser[e].standing \ {h}
    <3>1. eraser[e] \in Checks
      BY <2>2, CheckingIsTyped
    <3>2. eraser'[e] = [eraser[e] EXCEPT !.standing = @ \ {h}]
      BY <2>1, <2>2
    <3> QED BY <3>1, <3>2 DEF Checks
  <2>3. ASSUME NEW e \in Erasers, eraser[e].stage = "idle" PROVE eraser'[e] = eraser[e]
    BY <2>1, <2>3
  <2>4. RecordsTypeOK'
    BY <1>1, <2>1, <2>2, <2>3 DEF RecordsTypeOK, Checks
  <2>5. ASSUME NEW e \in Erasers, eraser[e].stage # "idle" PROVE MissesNothing(eraser[e])'
    <3>1. MissesNothing(eraser[e])
      BY <2>5 DEF ChecksMissNothing
    <3>2. \A g \in eraser[e].standing \ {h} :
            Ahead(eraser[e], g) => Ahead(eraser[e], g)'
      BY <1>1, <2>2, <2>5 DEF Ahead, Covers
    <3>3. Filed' = Filed
      BY <1>1 DEF Filed
    <3>4. eraser[e].standing \ {h} \subseteq active'
      BY <2>1, <3>1 DEF MissesNothing
    <3> QED BY <2>2, <2>5, <3>1, <3>2, <3>3, <3>4 DEF MissesNothing
  <2>6. ChecksMissNothing'
    BY <2>2, <2>3, <2>5 DEF ChecksMissNothing
  <2> QED BY <1>2, <2>4, <2>6
<1> QED BY <1>3, <1>4

(* An imported case is one nobody else files, and has nothing sealed. *)
LEMMA ImportKeepsInv ==
  ASSUME RecordsInv, NEW x \in Cases, NEW c \in Customers, NEW g \in Categories,
         NEW p \in Periods, ImportCase(x, c, g, p)
  PROVE  RecordsInv'
<1> USE DEF RecordsInv
<1> PICK row : row = [customer |-> c, category |-> g, period |-> p, filed |-> TRUE]
  OBVIOUS
<1>1. /\ x \notin Filed /\ \A v \in Writers : writer[v].busy => ItemOf(v).case # x
      /\ filed' = [filed EXCEPT ![x] = row] /\ plain' = plain \cup {x}
      /\ UNCHANGED <<content, keys, generated, sealing, everOff, active, placed, requests,
                     writer, eraser>>
  BY DEF ImportCase, ItemOf
<1>2. row \in CaseRow /\ row # NotFiled
  BY RowIsFiled DEF CaseRow
<1>3. /\ Filed' = Filed \cup {x}
      /\ \A y \in Cases \ {x} : filed'[y] = filed[y]
      /\ \A y \in Filed : filed'[y] = filed[y]
  BY <1>1, <1>2 DEF RecordsTypeOK, Filed
<1>4. RecordsTypeOK'
  BY <1>1, <1>2 DEF RecordsTypeOK
<1>5. CasesAreFixed'
  BY <1>1, <1>3 DEF CasesAreFixed, RowOf, ItemOf
<1>6. KeysFit' /\ NothingIsPlain'
  BY <1>1 DEF KeysFit, NothingIsPlain, RowOf, ItemOf
<1>7. ChecksMissNothing'
  BY <1>1, <1>3 DEF ChecksMissNothing, MissesNothing, Ahead, Covers
<1>8. SealedUnderTheStoredKey'
  BY <1>1, <1>3 DEF SealedUnderTheStoredKey
<1> QED BY <1>4, <1>5, <1>6, <1>7, <1>8

LEMMA NextRecords == RecordsInv /\ [RecordsNext]_recordsVars => RecordsInv'
<1> SUFFICES ASSUME RecordsInv, [RecordsNext]_recordsVars PROVE RecordsInv' OBVIOUS
<1>1. ASSUME NEW w \in Writers, NEW x \in Cases, NEW c \in Customers,
             NEW g \in Categories, NEW p \in Periods, NEW routed \in BOOLEAN,
             BeginFiling(w, x, c, g, p, routed)
      PROVE  RecordsInv'
  <2> PICK row : row = [customer |-> c, category |-> g, period |-> p, filed |-> TRUE]
    OBVIOUS
  <2>1. row \in CaseRow /\ row.customer = c
    BY DEF CaseRow
  <2>2. PICK k \in SealKeys(c) :
          /\ writer' = [writer EXCEPT ![w] =
               [busy |-> TRUE, item |-> [case |-> x, under |-> k], row |-> row,
                fresh |-> k = generated + 1, routed |-> routed]]
          /\ generated' = IF k = generated + 1 THEN k ELSE generated
    BY <1>1 DEF BeginFiling
  <2>3. /\ writer[w] = IdleWriter /\ UNCHANGED <<tables, eraser>>
        /\ x \notin Filed /\ \A v \in Writers : writer[v].busy => writer[v].item.case # x
    BY <1>1 DEF BeginFiling
  <2>4. k \in SealKeys(row.customer)
    BY <2>1
  <2> PICK new : new = [busy |-> TRUE, item |-> [case |-> x, under |-> k], row |-> row,
                        fresh |-> k = generated + 1, routed |-> routed]
    OBVIOUS
  <2>5. /\ new.item = [case |-> x, under |-> k] /\ new.row = row /\ new.busy
        /\ new \in Prepared /\ (new.fresh <=> k = generated + 1)
        /\ writer' = [writer EXCEPT ![w] = new]
    BY <2>1, <2>2, <2>4, SealedFits DEF Prepared, Contents, RecordsInv
  <2>6. Prepares(w, x, row, k, new)
    BY <2>2, <2>3, <2>4, <2>5 DEF Prepares
  <2> QED BY <2>1, <2>6, PrepareKeepsInv
<1>2. ASSUME NEW w \in Writers, NEW x \in Cases, NEW routed \in BOOLEAN,
             BeginMessage(w, x, routed)
      PROVE  RecordsInv'
  <2>1. filed[x] \in CaseRow
    BY <1>2 DEF BeginMessage, Filed, RecordsInv, RecordsTypeOK
  <2>2. PICK k \in SealKeys(filed[x].customer) :
          /\ writer' = [writer EXCEPT ![w] =
               [busy |-> TRUE, item |-> [case |-> x, under |-> k], row |-> filed[x],
                fresh |-> k = generated + 1, routed |-> routed]]
          /\ generated' = IF k = generated + 1 THEN k ELSE generated
    BY <1>2 DEF BeginMessage
  <2>3. writer[w] = IdleWriter /\ UNCHANGED <<tables, eraser>> /\ x \in Filed
    BY <1>2 DEF BeginMessage
  <2> PICK new : new = [busy |-> TRUE, item |-> [case |-> x, under |-> k], row |-> filed[x],
                        fresh |-> k = generated + 1, routed |-> routed]
    OBVIOUS
  <2>4. /\ new.item = [case |-> x, under |-> k] /\ new.row = filed[x] /\ new.busy
        /\ new \in Prepared /\ (new.fresh <=> k = generated + 1)
        /\ writer' = [writer EXCEPT ![w] = new]
    BY <2>1, <2>2, SealedFits, RowIsFiled DEF Prepared, Contents, RecordsInv
  <2>5. Prepares(w, x, filed[x], k, new)
    BY <2>2, <2>3, <2>4 DEF Prepares
  <2> QED BY <2>1, <2>5, PrepareKeepsInv
<1>3. ASSUME NEW w \in Writers, CommitWrite(w) PROVE RecordsInv'
  BY <1>3, CommitKeepsInv
<1>4. ASSUME NEW w \in Writers, AbortWrite(w) PROVE RecordsInv'
  <2>1. /\ writer' = [writer EXCEPT ![w] = IdleWriter]
        /\ UNCHANGED <<filed, content, plain, keys, generated, sealing, everOff, active, placed,
                       requests, eraser>>
    BY <1>4 DEF AbortWrite, tables
  <2>2. /\ ~writer'[w].busy /\ \A v \in Writers \ {w} : writer'[v] = writer[v]
    BY <2>1 DEF RecordsInv, RecordsTypeOK, IdleWriter
  <2>3. RecordsTypeOK'
    BY <2>1 DEF RecordsInv, RecordsTypeOK
  <2>4. CasesAreFixed' /\ KeysFit' /\ NothingIsPlain'
    BY <2>1, <2>2 DEF RecordsInv, CasesAreFixed, KeysFit, NothingIsPlain, RowOf, ItemOf, Filed
  <2>5. ChecksMissNothing' /\ SealedUnderTheStoredKey'
    BY <2>1 DEF RecordsInv, ChecksMissNothing, MissesNothing, Ahead, Covers,
                SealedUnderTheStoredKey, Filed
  <2> QED BY <2>3, <2>4, <2>5 DEF RecordsInv
<1>5. ASSUME NEW e \in Erasers, EraserStep(e) PROVE RecordsInv'
  BY <1>5, BeginKeepsInv, CheckCaseKeepsInv, CheckCustomerKeepsInv, EndOfCheckKeepsInv
     DEF EraserStep
<1>6. ASSUME NEW h \in Holds, Place(h) \/ Release(h) PROVE RecordsInv'
  BY <1>6, HoldsKeepInv
<1>7. ASSUME /\ UNCHANGED <<filed, content, plain, keys, generated, active, placed, requests, writer,
                            eraser>>
             /\ sealing' \in BOOLEAN /\ everOff' \in BOOLEAN
             /\ ~everOff' => sealing' /\ ~everOff
      PROVE  RecordsInv'
  <2>1. RecordsTypeOK'
    BY <1>7 DEF RecordsInv, RecordsTypeOK
  <2>2. CasesAreFixed' /\ KeysFit' /\ NothingIsPlain'
    BY <1>7 DEF RecordsInv, CasesAreFixed, KeysFit, NothingIsPlain, RowOf, ItemOf, Filed
  <2>3. ChecksMissNothing' /\ SealedUnderTheStoredKey'
    BY <1>7 DEF RecordsInv, ChecksMissNothing, MissesNothing, Ahead, Covers,
                SealedUnderTheStoredKey, Filed
  <2> QED BY <2>1, <2>2, <2>3 DEF RecordsInv
<1>8. ASSUME NEW on \in BOOLEAN, SetSealing(on) PROVE RecordsInv'
  BY <1>7, <1>8, Zenon DEF SetSealing, RecordsInv, RecordsTypeOK
<1>9. CASE UNCHANGED recordsVars
  BY <1>7, <1>9 DEF recordsVars, tables, RecordsInv, RecordsTypeOK, NothingIsPlain
<1>10. ASSUME NEW x \in Cases, NEW c \in Customers, NEW g \in Categories,
              NEW p \in Periods, ImportCase(x, c, g, p)
       PROVE  RecordsInv'
  BY <1>10, ImportKeepsInv
<1> QED BY <1>1, <1>2, <1>3, <1>4, <1>5, <1>6, <1>8, <1>9, <1>10 DEF RecordsNext, WriterStep

LEMMA RecordsAlways == RecordsSpec => []RecordsInv
BY InitRecords, NextRecords, PTL DEF RecordsSpec

-----------------------------------------------------------------------------
(* Its consequences. *)

(* Whatever is sealed is sealed under the key its customer's row holds or    *)
(* held, for any number of requests that generate a first key at once.       *)
THEOREM SealedAlwaysUnderTheStoredKey == RecordsSpec => []SealedUnderTheStoredKey
<1>1. RecordsInv => SealedUnderTheStoredKey BY DEF RecordsInv
<1> QED BY <1>1, RecordsAlways, PTL

(* While sealing has never been off, nothing that went through seal for a    *)
(* customer whose key was destroyed can be read, whatever was in flight when *)
(* it was (vault.seal, vault.shred).  Texts that are never sealed, of an     *)
(* import or a message that came in, are another matter:                     *)
(* ShreddedIsUnrecoverable is refuted.                                       *)
THEOREM ShreddedAlwaysUnreadable == RecordsSpec => []ShreddedStaysUnreadable
<1>1. RecordsInv => ShreddedStaysUnreadable
  BY DEF RecordsInv, NothingIsPlain, ShreddedStaysUnreadable, Readable
<1> QED BY <1>1, RecordsAlways, PTL

(* A shred about to commit is never one a hold older than its check forbids. *)
THEOREM OlderHoldsAlwaysBlock == RecordsSpec => []OlderHoldsBlockShreds
<1>1. RecordsInv => OlderHoldsBlockShreds
  BY DEF RecordsInv, ChecksMissNothing, MissesNothing, Ahead, OlderHoldsBlockShreds, Refuses
<1> QED BY <1>1, RecordsAlways, PTL

-----------------------------------------------------------------------------
(* AttachmentScans.  Content leaves only after a clean verdict.             *)

(* What a table or a reader shows as clean has been cleared: a verdict may   *)
(* be overwritten between the reading of a row and the serving of its file,  *)
(* so what a reader holds has to be said of the history.                    *)
ShownCleanIsCleared ==
  /\ \A a \in Attachments : status[a] = "clean" => a \in cleared
  /\ \A r \in Readers : reading[r] # NoRow => reading[r].of \in cleared

ScansInv == ScansTypeOK /\ ShownCleanIsCleared /\ OnlyClearedLeaves

LEMMA InitScans == ScansInit => ScansInv
BY DEF ScansInit, ScansInv, ScansTypeOK, Statuses, ShownCleanIsCleared, OnlyClearedLeaves

LEMMA CommitScanKeeps ==
  ASSUME ScansInv, NEW s \in Scanners, CommitScan(s)
  PROVE  ScansInv'
<1>1. scanning[s].of \in Attachments /\ scanning[s].verdict \in {"clean", "infected", "failed"}
  BY ScansAssumption DEF CommitScan, ScansInv, ScansTypeOK
<1>2. ScansTypeOK'
  BY <1>1 DEF CommitScan, ScansInv, ScansTypeOK, Statuses
<1>3. ShownCleanIsCleared'
  BY <1>1 DEF CommitScan, ScansInv, ScansTypeOK, ShownCleanIsCleared
<1>4. OnlyClearedLeaves'
  BY DEF CommitScan, ScansInv, OnlyClearedLeaves
<1> QED BY <1>2, <1>3, <1>4 DEF ScansInv

LEMMA NextScans == ScansInv /\ [ScansNext]_scansVars => ScansInv'
<1> SUFFICES ASSUME ScansInv, [ScansNext]_scansVars PROVE ScansInv' OBVIOUS
<1> USE DEF ScansInv
<1>1. ASSUME NEW a \in Attachments,
             Upload(a) \/ UploadFails(a) \/ RunTask(a) \/ Sign(a) \/ Expire(a)
      PROVE  ScansInv'
  BY <1>1 DEF Upload, UploadFails, RunTask, Sign, Expire, ScansTypeOK, Statuses,
    ShownCleanIsCleared, OnlyClearedLeaves
<1>2. ASSUME NEW s \in Scanners, CommitScan(s) PROVE ScansInv'
  BY <1>2, CommitScanKeeps
<1>3. ASSUME NEW s \in Scanners, ScanFails(s) PROVE ScansInv'
  BY <1>3 DEF ScanFails, ScansTypeOK, ShownCleanIsCleared, OnlyClearedLeaves
<1>4. ASSUME NEW s \in Scanners, NEW a \in Attachments, ScanInContext(s, a) PROVE ScansInv'
  BY <1>4 DEF ScanInContext, BeginScan, ScansTypeOK, ShownCleanIsCleared, OnlyClearedLeaves
<1>5. ASSUME NEW r \in Readers, Serve(r) PROVE ScansInv'
  BY <1>5 DEF Serve, ScansTypeOK, ShownCleanIsCleared, OnlyClearedLeaves
<1>6. ASSUME NEW r \in Readers, NEW a \in Attachments, Open(r, a) PROVE ScansInv'
  BY <1>6 DEF Open, Retrievable, ScansTypeOK, ShownCleanIsCleared, OnlyClearedLeaves
<1>7. CASE UNCHANGED scansVars
  BY <1>7 DEF scansVars, ScansTypeOK, ShownCleanIsCleared, OnlyClearedLeaves
<1> QED BY <1>1, <1>2, <1>3, <1>4, <1>5, <1>6, <1>7 DEF ScansNext

(* However many scans overlap, fail or overwrite one another's verdicts and  *)
(* whatever links were signed, AttachmentDownloadView.get serves only what a *)
(* committed verdict has cleared.                                           *)
THEOREM OnlyClearedEverLeaves == ScansSpec => []OnlyClearedLeaves
<1>1. ScansInv => OnlyClearedLeaves BY DEF ScansInv
<1> QED BY InitScans, NextScans, <1>1, PTL DEF ScansSpec

-----------------------------------------------------------------------------
(* RepresentmentPack.                                                       *)

(* The copies requests hold were each, at some time, what the row held.      *)
CopiesWereStored ==
  /\ evidence \in attachments
  /\ \A r \in Advocates : loaded[r] # NotLoaded => loaded[r] \in attachments

PackInv == PackTypeOK /\ CopiesWereStored /\ PacksAreWhole

(* Evidence with a key attached is evidence. *)
LEMMA AttachedIsEvidence ==
  ASSUME NEW e \in Evidence, NEW key \in EvidenceKeys, NEW value \in {"empty", "given"}
  PROVE  [e EXCEPT ![key] = value] \in Evidence
BY DEF Evidence

(* No evidence at all is complete only where nothing is required. *)
LEMMA InitPack == PackInit => PackInv
<1> SUFFICES ASSUME PackInit PROVE PackInv OBVIOUS
<1>1. PackTypeOK
  BY DEF PackInit, PackTypeOK, Evidence, PackStatuses
<1>2. CopiesWereStored
  BY DEF PackInit, CopiesWereStored
<1>3. missing_evidence(evidence) = RequiredKeys
  BY PackAssumption DEF PackInit, missing_evidence
<1> QED BY <1>1, <1>2, <1>3 DEF PackInit, PackInv, PacksAreWhole

LEMMA AttachKeepsPack ==
  ASSUME PackInv, NEW r \in Advocates, NEW key \in EvidenceKeys,
         NEW value \in {"empty", "given"}, attach_evidence(r, key, value)
  PROVE  PackInv'
<1> DEFINE merged == [loaded[r] EXCEPT ![key] = value]
<1>1. /\ loaded[r] # NotLoaded
      /\ evidence' = merged
      /\ loaded' = [loaded EXCEPT ![r] = merged]
      /\ pack_status' = IF missing_evidence(merged) = {} THEN "ready" ELSE "gathering"
      /\ attachments' = attachments \cup {merged}
      /\ packs' = packs
  BY DEF attach_evidence
<1>2. merged \in Evidence
  BY <1>1, AttachedIsEvidence DEF PackInv, PackTypeOK
<1> HIDE DEF merged
<1>3. PackTypeOK'
  BY <1>1, <1>2 DEF PackInv, PackTypeOK, PackStatuses
<1>4. CopiesWereStored'
  BY <1>1 DEF PackInv, PackTypeOK, CopiesWereStored
<1>5. PacksAreWhole'
  BY <1>1 DEF PackInv, PacksAreWhole, missing_evidence
<1> QED BY <1>3, <1>4, <1>5 DEF PackInv

LEMMA NextPack == PackInv /\ [PackNext]_packVars => PackInv'
<1> SUFFICES ASSUME PackInv, [PackNext]_packVars PROVE PackInv' OBVIOUS
<1> USE DEF PackInv
<1>1. ASSUME NEW r \in Advocates, Load(r) PROVE PackInv'
  BY <1>1 DEF Load, PackTypeOK, CopiesWereStored, PacksAreWhole, missing_evidence
<1>2. ASSUME NEW r \in Advocates, NEW key \in EvidenceKeys,
             NEW value \in {"empty", "given"}, attach_evidence(r, key, value)
      PROVE  PackInv'
  BY <1>2, AttachKeepsPack
<1>3. ASSUME NEW r \in Advocates, build_pack(r) PROVE PackInv'
  <2>1. loaded[r] \in Evidence /\ loaded[r] \in attachments
    BY <1>3 DEF build_pack, PackTypeOK, CopiesWereStored
  <2> QED
    BY <1>3, <2>1 DEF build_pack, PackTypeOK, PackStatuses, CopiesWereStored, PacksAreWhole,
      missing_evidence
<1>4. ASSUME NEW r \in Advocates, record_submission(r) PROVE PackInv'
  BY <1>4 DEF record_submission, PackTypeOK, PackStatuses, CopiesWereStored, PacksAreWhole,
    missing_evidence
<1>5. CASE UNCHANGED packVars
  BY <1>5 DEF packVars, PackTypeOK, CopiesWereStored, PacksAreWhole, missing_evidence
<1> QED BY <1>1, <1>2, <1>3, <1>4, <1>5 DEF PackNext

(* Every pack handed out is complete and is evidence the row held at one     *)
(* time, and the row's status tells whether its own evidence is complete:    *)
(* for any number of requests that work on stale copies (attach_evidence,    *)
(* build_pack).                                                              *)
THEOREM PacksAlwaysWhole == PackSpec => []PacksAreWhole
<1>1. PackInv => PacksAreWhole BY DEF PackInv
<1> QED BY InitPack, NextPack, <1>1, PTL DEF PackSpec

================================================================================
