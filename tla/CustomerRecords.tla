---------------------------- MODULE CustomerRecords ----------------------------
(***************************************************************************)
(* What is kept about a customer and what may destroy it: content sealed   *)
(* under a key per customer (crypto/vault.py), legal holds and erasure     *)
(* requests (retention/holds.py), against the transactions that file cases *)
(* and add messages (disputes/service.py), some of them for a message that *)
(* came in (intake/router.py), and imports (migration/importer.py).        *)
(*                                                                         *)
(* Every transaction is READ COMMITTED: what it reads, one statement at a  *)
(* time, may have changed when it writes.                                  *)
(***************************************************************************)
EXTENDS Integers, FiniteSets

CONSTANTS
  Customers, Categories,
  Periods,          (* when a case may have been submitted, for period holds *)
  Cases,            (* bound: cases that may be filed                        *)
  Holds,            (* the holds that may be placed                          *)
  Writers,          (* requests that file a case or add a message            *)
  Erasers,          (* requests that shred, or decide an erasure request     *)
  MaxKeys           (* bound: data keys that are ever generated              *)

ASSUME RecordsAssumption ==
  /\ MaxKeys \in Nat
  /\ Holds \subseteq ([scope : {"dispute"}, of : Cases]
                      \cup [scope : {"customer"}, of : Customers]
                      \cup [scope : {"category"}, of : Categories]
                      \cup [scope : {"period"}, of : Periods])

VARIABLES
  filed,       (* Dispute rows                                               *)
  content,     (* descriptions and messages that went through seal: the      *)
               (* case, and the key it is sealed under, 0 for plain text     *)
  plain,       (* cases with a text that did not go through seal             *)
  keys,        (* SubjectKey rows                                            *)
  generated,   (* data keys generated so far, stored or not                  *)
  sealing,     (* Tenant.content_sealing_enabled                             *)
  everOff,     (* history: sealing has been off                              *)
  active,      (* holds placed and not released                              *)
  placed,      (* holds placed                                               *)
  requests,    (* ErasureRequest.outcome, by customer                        *)
  writer,      (* of each writer, what it has prepared and not committed     *)
  eraser       (* of each eraser, what it has read                           *)

tables == <<filed, content, plain, keys, sealing, everOff, active, placed, requests>>
recordsVars == <<tables, generated, writer, eraser>>

NotFiled == [filed |-> FALSE]
CaseRow == [customer : Customers, category : Categories, period : Periods, filed : {TRUE}]
Filed == { x \in Cases : filed[x] # NotFiled }
CasesOf(c) == { x \in Filed : filed[x].customer = c }

KeyRow == [key : 1 .. MaxKeys, destroyed : BOOLEAN]
NoKey == [key |-> 0, destroyed |-> FALSE]

Contents == [case : Cases, under : 0 .. MaxKeys]

IdleWriter == [busy |-> FALSE]
Prepared == [busy : {TRUE}, item : Contents, row : CaseRow, fresh : BOOLEAN, routed : BOOLEAN]
IdleEraser == [stage |-> "idle"]

Outcomes == {"pending", "refused_legal_hold", "refused_retention"}

-----------------------------------------------------------------------------
(* crypto/vault.py: sealing                                                 *)

(* Mutant of StoredKeys: Shredded is caught and the text is stored as it is. *)
StoredKeysOrPlain(c) == IF keys[c].destroyed THEN {0} ELSE {keys[c].key}

(* _data_key: a destroyed key raises Shredded and the request fails. *)
StoredKeys(c) == IF keys[c].destroyed THEN {} ELSE {keys[c].key}

(* The key seal puts content of c under, when it does not raise: key_for     *)
(* generates one for a customer that has no row.                            *)
SealKeys(c) ==
  IF ~sealing THEN {0}
  ELSE IF keys[c] = NoKey THEN { k \in {generated + 1} : k <= MaxKeys }
  ELSE StoredKeys(c)

(* unseal: the text, or else the marker. *)
Readable(item) ==
  \/ item.under = 0
  \/ LET key == keys[filed[item.case].customer]
     IN key.key = item.under /\ ~key.destroyed

(* file_dispute up to its commit: the case x of customer c, `routed` if it   *)
(* is filed for a message that came in.                                     *)
BeginFiling(w, x, c, g, p, routed) ==
  /\ writer[w] = IdleWriter
  /\ x \notin Filed /\ \A v \in Writers : writer[v].busy => writer[v].item.case # x
  /\ \E k \in SealKeys(c) :
       /\ writer' = [writer EXCEPT ![w] =
            [busy |-> TRUE, item |-> [case |-> x, under |-> k],
             row |-> [customer |-> c, category |-> g, period |-> p, filed |-> TRUE],
             fresh |-> k = generated + 1, routed |-> routed]]
       /\ generated' = IF k = generated + 1 THEN k ELSE generated
  /\ UNCHANGED <<tables, eraser>>

(* add_message up to its commit. *)
BeginMessage(w, x, routed) ==
  /\ writer[w] = IdleWriter
  /\ x \in Filed
  /\ \E k \in SealKeys(filed[x].customer) :
       /\ writer' = [writer EXCEPT ![w] =
            [busy |-> TRUE, item |-> [case |-> x, under |-> k], row |-> filed[x],
             fresh |-> k = generated + 1, routed |-> routed]]
       /\ generated' = IF k = generated + 1 THEN k ELSE generated
  /\ UNCHANGED <<tables, eraser>>

(* Mutant of Conflicts: uniq_key_per_subject is not there. *)
NeverConflicts(w) == FALSE

(* uniq_key_per_subject: another transaction has stored a key meanwhile. *)
Conflicts(w) == writer[w].fresh /\ keys[writer[w].row.customer] # NoKey

(* What came in is kept as it came, in the InboundMessage row committed with *)
(* the case or message made of it.                                          *)
CommitWrite(w) ==
  /\ writer[w].busy
  /\ ~Conflicts(w)
  /\ plain' = IF writer[w].routed THEN plain \cup {writer[w].item.case} ELSE plain
  /\ filed' = [filed EXCEPT ![writer[w].item.case] = writer[w].row]
  /\ content' = content \cup {writer[w].item}
  /\ keys' = IF writer[w].fresh
             THEN [keys EXCEPT ![writer[w].row.customer] =
                     [key |-> writer[w].item.under, destroyed |-> FALSE]]
             ELSE keys
  /\ writer' = [writer EXCEPT ![w] = IdleWriter]
  /\ UNCHANGED <<generated, sealing, everOff, active, placed, requests, eraser>>

(* The transaction rolls back, for a conflict or any other error. *)
AbortWrite(w) ==
  /\ writer[w].busy
  /\ writer' = [writer EXCEPT ![w] = IdleWriter]
  /\ UNCHANGED <<tables, generated, eraser>>

(* A row of an import: its description is not sealed, sealing on or off. *)
ImportCase(x, c, g, p) ==
  /\ x \notin Filed /\ \A v \in Writers : writer[v].busy => writer[v].item.case # x
  /\ filed' = [filed EXCEPT ![x] =
                 [customer |-> c, category |-> g, period |-> p, filed |-> TRUE]]
  /\ plain' = plain \cup {x}
  /\ UNCHANGED <<content, keys, generated, sealing, everOff, active, placed, requests,
                 writer, eraser>>

(* The tenant turns sealing on or off. *)
SetSealing(on) ==
  /\ sealing # on
  /\ sealing' = on
  /\ everOff' = (everOff \/ ~on)
  /\ UNCHANGED <<filed, content, plain, keys, generated, active, placed, requests,
                 writer, eraser>>

-----------------------------------------------------------------------------
(* retention/holds.py                                                       *)

(* LegalHold.covers, but for is_active. *)
Covers(h, row, x) ==
  \/ h.scope = "dispute" /\ h.of = x
  \/ h.scope = "customer" /\ h.of = row.customer
  \/ h.scope = "category" /\ h.of = row.category
  \/ h.scope = "period" /\ h.of = row.period

(* check *)
HoldsOn(x) == { h \in active : Covers(h, filed[x], x) }

(* What holds_for_customer would find if it read everything at once. *)
Blocking(c) ==
  (UNION { HoldsOn(x) : x \in CasesOf(c) })
  \cup { h \in active : h.scope = "customer" /\ h.of = c }

Place(h) ==
  /\ h \notin placed
  /\ placed' = placed \cup {h} /\ active' = active \cup {h}
  /\ UNCHANGED <<filed, content, plain, keys, generated, sealing, everOff, requests,
                 writer, eraser>>

(* release, its two people present.  A standing hold of a shred in flight    *)
(* no longer stands.                                                        *)
Release(h) ==
  /\ h \in active
  /\ active' = active \ {h}
  /\ eraser' = [e \in Erasers |->
                  IF eraser[e].stage = "idle" THEN eraser[e]
                  ELSE [eraser[e] EXCEPT !.standing = @ \ {h}]]
  /\ UNCHANGED <<filed, content, plain, keys, generated, sealing, everOff, placed,
                 requests, writer>>

(* holds_for_customer reads the cases of the customer, then the holds on     *)
(* each, then those on the customer; `standing` is history, the holds that   *)
(* were there before and still are.                                         *)
BeginCheck(e, c, purpose) ==
  /\ eraser[e] = IdleEraser
  /\ purpose = "decide" => requests[c] = "pending"
  /\ eraser' = [eraser EXCEPT ![e] =
       [stage |-> "cases", customer |-> c, purpose |-> purpose, left |-> CasesOf(c),
        found |-> {}, standing |-> Blocking(c)]]
  /\ UNCHANGED <<tables, generated, writer>>

CheckCase(e, x) ==
  /\ eraser[e].stage = "cases"
  /\ x \in eraser[e].left
  /\ eraser' = [eraser EXCEPT ![e].left = @ \ {x}, ![e].found = @ \cup HoldsOn(x)]
  /\ UNCHANGED <<tables, generated, writer>>

CheckCustomer(e) ==
  /\ eraser[e].stage = "cases"
  /\ eraser[e].left = {}
  /\ LET own == { h \in active : h.scope = "customer" /\ h.of = eraser[e].customer }
     IN eraser' = [eraser EXCEPT ![e].stage = "checked", ![e].found = @ \cup own]
  /\ UNCHANGED <<tables, generated, writer>>

(* Mutant of Refuses: only the holds on the customer are looked at. *)
RefusesForCustomerHolds(e) == \E h \in eraser[e].found : h.scope = "customer"

Refuses(e) == eraser[e].found # {}

(* decide_erasure: refused either way, and the words say why. *)
DecideErasure(e) ==
  /\ eraser[e].stage = "checked" /\ eraser[e].purpose = "decide"
  /\ requests' = [requests EXCEPT ![eraser[e].customer] =
       IF Refuses(e) THEN "refused_legal_hold" ELSE "refused_retention"]
  /\ eraser' = [eraser EXCEPT ![e] = IdleEraser]
  /\ UNCHANGED <<filed, content, plain, keys, generated, sealing, everOff, active,
                 placed, writer>>

(* shred raises HeldMaterial. *)
RefuseShred(e) ==
  /\ eraser[e].stage = "checked" /\ eraser[e].purpose = "shred"
  /\ Refuses(e)
  /\ eraser' = [eraser EXCEPT ![e] = IdleEraser]
  /\ UNCHANGED <<tables, generated, writer>>

(* shred's transaction, two people present: the live key it reads is         *)
(* overwritten; a destroyed or missing one is not an error.                 *)
Shred(e) ==
  /\ eraser[e].stage = "checked" /\ eraser[e].purpose = "shred"
  /\ ~Refuses(e)
  /\ keys' = [keys EXCEPT ![eraser[e].customer] =
                IF @ = NoKey THEN NoKey ELSE [@ EXCEPT !.destroyed = TRUE]]
  /\ eraser' = [eraser EXCEPT ![e] = IdleEraser]
  /\ UNCHANGED <<filed, content, plain, generated, sealing, everOff, active, placed,
                 requests, writer>>

-----------------------------------------------------------------------------
RecordsInit ==
  /\ filed = [x \in Cases |-> NotFiled] /\ content = {} /\ plain = {}
  /\ keys = [c \in Customers |-> NoKey] /\ generated = 0
  /\ sealing \in BOOLEAN /\ everOff = ~sealing
  /\ active = {} /\ placed = {}
  /\ requests = [c \in Customers |-> "pending"]
  /\ writer = [w \in Writers |-> IdleWriter]
  /\ eraser = [e \in Erasers |-> IdleEraser]

WriterStep(w) ==
  \/ \E x \in Cases, c \in Customers, g \in Categories, p \in Periods, routed \in BOOLEAN :
       BeginFiling(w, x, c, g, p, routed)
  \/ \E x \in Cases, routed \in BOOLEAN : BeginMessage(w, x, routed)
  \/ CommitWrite(w) \/ AbortWrite(w)

EraserStep(e) ==
  \/ \E c \in Customers, purpose \in {"shred", "decide"} : BeginCheck(e, c, purpose)
  \/ \E x \in Cases : CheckCase(e, x)
  \/ CheckCustomer(e) \/ DecideErasure(e) \/ RefuseShred(e) \/ Shred(e)

RecordsNext ==
  \/ \E w \in Writers : WriterStep(w)
  \/ \E x \in Cases, c \in Customers, g \in Categories, p \in Periods : ImportCase(x, c, g, p)
  \/ \E e \in Erasers : EraserStep(e)
  \/ \E h \in Holds : Place(h) \/ Release(h)
  \/ \E on \in BOOLEAN : SetSealing(on)

RecordsSpec == RecordsInit /\ [][RecordsNext]_recordsVars

-----------------------------------------------------------------------------
(* Properties. *)

(* Every variable keeps its type. *)
RecordsTypeOK ==
  /\ filed \in [Cases -> CaseRow \cup {NotFiled}]
  /\ content \subseteq Contents /\ plain \subseteq Cases
  /\ keys \in [Customers -> KeyRow \cup {NoKey}]
  /\ generated \in 0 .. MaxKeys
  /\ sealing \in BOOLEAN /\ everOff \in BOOLEAN
  /\ active \subseteq placed /\ placed \subseteq Holds
  /\ requests \in [Customers -> Outcomes]
  /\ writer \in [Writers -> {IdleWriter} \cup Prepared]
  /\ eraser \in [Erasers -> {IdleEraser} \cup
                   [stage : {"cases", "checked"}, customer : Customers,
                    purpose : {"shred", "decide"}, left : SUBSET Cases,
                    found : SUBSET Holds, standing : SUBSET Holds]]

(* Nothing but a shred makes content unreadable: whatever is sealed is       *)
(* sealed under the key its customer's row holds or held, however many       *)
(* requests generate a first key for one customer at once, or roll back.    *)
SealedUnderTheStoredKey ==
  \A item \in content :
    /\ item.case \in Filed
    /\ item.under # 0 => keys[filed[item.case].customer].key = item.under

(* After a shred nothing of the customer that went through seal can be read, *)
(* what requests that had the key in hand store and what comes later         *)
(* included, as long as the tenant has never had sealing off.               *)
ShreddedStaysUnreadable ==
  ~everOff => \A item \in content :
    keys[filed[item.case].customer].destroyed => ~Readable(item)

(* VIOLATED.  vault.py: after a shred "the content is unrecoverable".  With  *)
(* sealing always on, no text of a customer's case can be read after it.    *)
ShreddedIsUnrecoverable ==
  ~everOff => \A c \in Customers : keys[c].destroyed =>
    /\ CasesOf(c) \cap plain = {}
    /\ \A item \in content : item.case \in CasesOf(c) => ~Readable(item)

(* A shred about to commit is not one that a hold older than its check       *)
(* forbids: a hold on a case, a category or a period reaches the customer    *)
(* through the cases it covers, and no statement of the check misses it.     *)
OlderHoldsBlockShreds ==
  \A e \in Erasers :
    eraser[e].stage = "checked" /\ eraser[e].purpose = "shred" /\ ~Refuses(e) =>
      eraser[e].standing = {}

(* VIOLATED.  vault.py: the hold wins.  No key is destroyed while a hold     *)
(* covers a case of its customer.                                           *)
HoldsWin ==
  [][\A c \in Customers :
       keys'[c].destroyed /\ ~keys[c].destroyed => Blocking(c) = {}]_recordsVars

=============================================================================
