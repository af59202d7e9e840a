----------------------------- MODULE OfficeProofs -----------------------------
(***************************************************************************)
(* Proofs about the back office, for any officers, importers, supervisors, *)
(* people, deciders, cases, fields, files and templates: PolicyVersions,   *)
(* HistoryImport, RegulatoryReturns, QualityReviews, Exposure and Advice;  *)
(* and, from the loops on, about the deadline arithmetic of DeadlineWalk,  *)
(* for any calendars, starts, pauses and windows.                          *)
(*                                                                         *)
(* DeadlineWalk moves little and computes much, so its proof is about the  *)
(* loops.  Each is a fold, and the fold is first written as the values it  *)
(* has after each turn (the Trace lemmas); then an invariant of the loop   *)
(* is carried over the turns.  The loops over the merged pauses and over   *)
(* the parts keep the ticks covered so far; the walk over the days keeps   *)
(* that the spans found are the ticks at which the wall clock shows an     *)
(* opening hour.  The last step compares the ticks with BusinessTicks.     *)
(***************************************************************************)
EXTENDS DeadlineWalk, PolicyVersions, RegulatoryReturns, QualityReviews, Exposure, HistoryImport,
        Advice, Inductions

-----------------------------------------------------------------------------
(* PolicyVersions.                                                          *)

LastNumber == Cardinality(versions)

(* What is stored: versions have terms, and one number each, 1 to the last.  *)
VersionsAreNumbered ==
  /\ IsFiniteSet(versions)
  /\ \A v \in versions : v.version \in 1 .. LastNumber /\ v.terms \in [TERMS -> Nat]
  /\ \A n \in 1 .. LastNumber : \E v \in versions : v.version = n
  /\ \A v, w \in versions : v.version = w.version => v = w
  /\ \A v \in versions : v.created_by = "nobody" => v.version = 1

PublishedVersions == { v \in versions : v.created_by # "nobody" }

(* One record of a publication for each version that was published. *)
PublicationsAreNumbered ==
  /\ IsFiniteSet(publications)
  /\ Cardinality(publications) = Cardinality(PublishedVersions)
  /\ \A p \in publications : \E v \in PublishedVersions : v.version = p.version
  /\ \A v \in PublishedVersions : \E p \in publications : p.version = v.version
  /\ \A p, q \in publications : p.version = q.version => p = q

(* What a request has filled in is of the version it began from.             *)
FilledIn(r) ==
  /\ r.base \in 0 .. LastNumber
  /\ r.terms \in [TERMS -> Nat \cup {Unnamed, Null}]
  /\ r.verb = "patch" =>
       \E v \in versions :
         v.version = r.base /\ \A f \in TERMS \ r.named : r.terms[f] = v.terms[f]

(* What a request has compared itself with is a version, no older than that.  *)
ComparedWith(r) ==
  /\ r.previous = {} \/ \E v \in versions : r.previous = {v}
  /\ r.base <= Number(r.previous)
  /\ r.changed = diff(r.previous, r.terms)

RequestsFit ==
  /\ DOMAIN requests = Officers
  /\ \A o \in Officers :
       /\ requests[o].step \in {"idle", "validated", "read"}
       /\ requests[o].step # "idle" => FilledIn(requests[o])
       /\ requests[o].step = "read" => ComparedWith(requests[o])

ChangesExplain ==
  \A v, w \in versions, p \in publications :
    p.version = w.version /\ w.version = v.version + 1 =>
      \A f \in TERMS :
        IF f \in DOMAIN p.changed
        THEN p.changed[f][1] = v.terms[f] /\ Stored(p.changed[f][2]) = w.terms[f]
        ELSE w.terms[f] = v.terms[f]

PolicyInv ==
  /\ VersionsAreNumbered /\ PublicationsAreNumbered /\ RequestsFit
  /\ ChangesExplain /\ RevertsNeedAnOverlap

LEMMA InitPolicies == PolicyInit => PolicyInv
<1> SUFFICES ASSUME PolicyInit PROVE PolicyInv OBVIOUS
<1>1. PublishedVersions = {} /\ versions = {} /\ publications = {}
  BY DEF PolicyInit, PublishedVersions
<1> QED
  BY <1>1, FS_EmptySet
  DEF PolicyInit, PolicyInv, VersionsAreNumbered, PublicationsAreNumbered, RequestsFit,
      ChangesExplain, RevertsNeedAnOverlap, LastNumber, Idle

(* The version in force is the one with the last number. *)
LEMMA CurrentIsLast ==
  ASSUME VersionsAreNumbered
  PROVE  /\ LastNumber \in Nat
         /\ versions = {} => current_version = {} /\ LastNumber = 0
         /\ versions # {} => \E v \in versions : current_version = {v} /\ v.version = LastNumber
<1>1. LastNumber \in Nat
  BY FS_CardinalityType DEF VersionsAreNumbered, LastNumber
<1>2. CASE versions = {}
  BY <1>1, <1>2, FS_EmptySet DEF current_version, LastNumber
<1>3. CASE versions # {}
  <2>1. LastNumber # 0
    BY <1>3, FS_EmptySet DEF VersionsAreNumbered, LastNumber
  <2>2. PICK v \in versions : v.version = LastNumber
    BY <1>1, <2>1 DEF VersionsAreNumbered
  <2>3. \A w \in versions : w.version \in Nat /\ w.version <= v.version
    BY <1>1, <2>2 DEF VersionsAreNumbered
  <2>4. \A w \in versions : (\A u \in versions : u.version <= w.version) => w = v
    BY <2>2, <2>3 DEF VersionsAreNumbered
  <2>5. current_version = {v}
    BY <2>3, <2>4 DEF current_version
  <2> QED BY <1>1, <1>3, <2>2, <2>5
<1> QED BY <1>1, <1>2, <1>3

LEMMA NumberOfOne == Number({}) = 0 /\ \A v : Number({v}) = v.version
BY DEF Number

LEMMA CurrentNumber ==
  ASSUME VersionsAreNumbered
  PROVE  Number(current_version) = LastNumber
BY CurrentIsLast, NumberOfOne

(* A request that arrives, with its body filled in. *)
LEMMA ArriveKeeps ==
  ASSUME PolicyInv, NEW o \in Officers, NEW verb \in {"post", "patch"}, NEW body, NEW terms,
         NEW chosen,
         body \in [TERMS -> Nat \cup {Unnamed, Null}],
         terms \in [TERMS -> Nat \cup {Unnamed, Null}],
         verb = "patch" =>
           \E v \in versions : /\ current_version = {v}
                               /\ \A f \in TERMS : body[f] = Unnamed => terms[f] = v.terms[f],
         Arrive(o, verb, body, terms, chosen)
  PROVE  PolicyInv'
<1> DEFINE request == [step |-> "validated", verb |-> verb, terms |-> Cleaned(terms),
                       calendar |-> chosen, named |-> { f \in TERMS : body[f] # Unnamed },
                       base |-> Number(current_version)]
<1>1. requests' = [requests EXCEPT ![o] = request] /\ UNCHANGED <<versions, publications>>
  BY DEF Arrive
<1>2. VersionsAreNumbered' /\ PublicationsAreNumbered' /\ ChangesExplain' /\ RevertsNeedAnOverlap'
      /\ LastNumber' = LastNumber
  BY <1>1 DEF PolicyInv, VersionsAreNumbered, PublicationsAreNumbered, ChangesExplain,
              RevertsNeedAnOverlap, LastNumber, PublishedVersions
<1>3. /\ LastNumber \in Nat /\ Number(current_version) = LastNumber
      /\ \A v : Number({v}) = v.version
  BY CurrentIsLast, CurrentNumber, NumberOfOne DEF PolicyInv
<1>4. FilledIn(request)
  <2>1. Cleaned(terms) \in [TERMS -> Nat \cup {Unnamed, Null}]
    BY DEF Cleaned, Unnamed, Null
  <2>2. ASSUME verb = "patch"
        PROVE  \E v \in versions :
                 v.version = request.base
                 /\ \A f \in TERMS \ request.named : request.terms[f] = v.terms[f]
    <3>1. PICK v \in versions : /\ current_version = {v}
                                /\ \A f \in TERMS : body[f] = Unnamed => terms[f] = v.terms[f]
      BY <2>2
    <3>2. v.version = request.base /\ v.terms \in [TERMS -> Nat]
      BY <1>3, <3>1 DEF PolicyInv, VersionsAreNumbered
    <3>3. \A f \in TERMS \ request.named : request.terms[f] = v.terms[f]
      <4> TAKE f \in TERMS \ request.named
      <4>1. terms[f] = v.terms[f] /\ v.terms[f] \in Nat
        BY <3>1, <3>2
      <4> QED BY <4>1 DEF Cleaned, Unnamed, Null
    <3> QED BY <3>2, <3>3
  <2> QED BY <1>3, <2>1, <2>2 DEF FilledIn
<1>5. RequestsFit'
  <2> HIDE DEF request
  <2>1. request.step = "validated"
    BY DEF request
  <2>2. \A r : FilledIn(r)' <=> FilledIn(r)
    BY <1>1, <1>2 DEF FilledIn
  <2>3. \A r : ComparedWith(r)' <=> ComparedWith(r)
    BY <1>1 DEF ComparedWith
  <2> QED BY <1>1, <1>4, <2>1, <2>2, <2>3 DEF PolicyInv, RequestsFit
<1> QED BY <1>2, <1>5 DEF PolicyInv

LEMMA ReadPreviousKeeps ==
  ASSUME PolicyInv, NEW o \in Officers, ReadPrevious(o)
  PROVE  PolicyInv'
<1> DEFINE r == requests[o]
<1>1. /\ UNCHANGED <<versions, publications>> /\ r.step = "validated"
      /\ \E next : /\ requests' = [requests EXCEPT ![o] = next]
                   /\ \/ next = Idle
                      \/ \E c : next = [step |-> "read", terms |-> r.terms, calendar |-> c,
                                        verb |-> r.verb, named |-> r.named, base |-> r.base,
                                        changed |-> diff(current_version, r.terms),
                                        previous |-> current_version]
  BY DEF ReadPrevious
<1>2. PICK next : /\ requests' = [requests EXCEPT ![o] = next]
                  /\ \/ next = Idle
                     \/ \E c : next = [step |-> "read", terms |-> r.terms, calendar |-> c,
                                       verb |-> r.verb, named |-> r.named, base |-> r.base,
                                       changed |-> diff(current_version, r.terms),
                                       previous |-> current_version]
  BY <1>1
<1>3. VersionsAreNumbered' /\ PublicationsAreNumbered' /\ ChangesExplain' /\ RevertsNeedAnOverlap'
      /\ LastNumber' = LastNumber
  BY <1>1 DEF PolicyInv, VersionsAreNumbered, PublicationsAreNumbered, ChangesExplain,
              RevertsNeedAnOverlap, LastNumber, PublishedVersions
<1>4. FilledIn(r) /\ DOMAIN requests = Officers
  BY <1>1 DEF PolicyInv, RequestsFit
<1>5. next.step \in {"idle", "read"} /\ (next.step # "idle" => FilledIn(next) /\ ComparedWith(next))
  <2>1. CASE next = Idle
    BY <2>1 DEF Idle
  <2>2. ASSUME NEW c,
               next = [step |-> "read", terms |-> r.terms, calendar |-> c,
                       verb |-> r.verb, named |-> r.named, base |-> r.base,
                       changed |-> diff(current_version, r.terms), previous |-> current_version]
        PROVE  next.step = "read" /\ FilledIn(next) /\ ComparedWith(next)
    <3> HIDE DEF r
    <3>1. /\ next.step = "read" /\ next.terms = r.terms /\ next.verb = r.verb
          /\ next.named = r.named /\ next.base = r.base /\ next.previous = current_version
          /\ next.changed = diff(current_version, r.terms)
      BY <2>2
    <3>2. FilledIn(next)
      BY <1>4, <3>1 DEF FilledIn
    <3>3. current_version = {} \/ \E v \in versions : current_version = {v}
      BY CurrentIsLast DEF PolicyInv
    <3>4. r.base <= Number(current_version)
      BY <1>4, CurrentIsLast, CurrentNumber DEF PolicyInv, FilledIn
    <3> QED BY <3>1, <3>2, <3>3, <3>4 DEF ComparedWith
  <2> QED BY <1>2, <2>1, <2>2
<1>6. RequestsFit'
  <2>1. \A q : FilledIn(q)' <=> FilledIn(q)
    BY <1>1, <1>3 DEF FilledIn
  <2>2. \A q : ComparedWith(q)' <=> ComparedWith(q)
    BY <1>1 DEF ComparedWith
  <2> QED BY <1>2, <1>4, <1>5, <2>1, <2>2 DEF PolicyInv, RequestsFit
<1> QED BY <1>3, <1>6 DEF PolicyInv

(* A version and its record are added, with the next number; between them    *)
(* and the version before, the record is the difference.                     *)
LEMMA InsertKeeps ==
  ASSUME PolicyInv, NEW o \in Officers, Insert(o)
  PROVE  PolicyInv'
<1> DEFINE r == requests[o]
           new == Successor(o)
           record == Published(o)
           refused == \E v \in versions : v.version = new.version
<1>1. r.step = "read" /\ requests' = [requests EXCEPT ![o] = Idle] /\ DOMAIN requests = Officers
  BY DEF Insert, PolicyInv, RequestsFit
<1>2. FilledIn(r) /\ ComparedWith(r)
  BY <1>1 DEF PolicyInv, RequestsFit
<1>3. /\ LastNumber \in Nat
      /\ \A v \in versions : v.version \in 1 .. LastNumber /\ v.terms \in [TERMS -> Nat]
  <2>1. VersionsAreNumbered
    BY DEF PolicyInv
  <2>2. LastNumber \in Nat
    BY <2>1, CurrentIsLast
  <2> QED BY <2>1, <2>2 DEF VersionsAreNumbered
<1>4. CASE refused
  <2>1. UNCHANGED <<versions, publications>>
    BY <1>4 DEF Insert
  <2>2. VersionsAreNumbered' /\ PublicationsAreNumbered' /\ ChangesExplain' /\ RevertsNeedAnOverlap'
        /\ LastNumber' = LastNumber
    BY <2>1 DEF PolicyInv, VersionsAreNumbered, PublicationsAreNumbered, ChangesExplain,
                RevertsNeedAnOverlap, LastNumber, PublishedVersions
  <2>3. \A q : (FilledIn(q)' <=> FilledIn(q)) /\ (ComparedWith(q)' <=> ComparedWith(q))
    BY <2>1, <2>2 DEF FilledIn, ComparedWith
  <2>4. RequestsFit'
    BY <1>1, <2>3 DEF PolicyInv, RequestsFit, Idle
  <2> QED BY <2>2, <2>4 DEF PolicyInv
<1>5. CASE ~refused
  <2>1. versions' = versions \cup {new} /\ publications' = publications \cup {record}
    BY <1>5 DEF Insert
  <2>2. /\ new.version = Number(r.previous) + 1 /\ record.version = new.version
        /\ new.created_by # "nobody"
        /\ record.changed = r.changed /\ record.verb = r.verb /\ record.named = r.named
        /\ record.base = r.base
    <3>1. new.version = Number(r.previous) + 1 /\ new.created_by = "officer"
      BY DEF Successor
    <3>2. record.version = Number(r.previous) + 1
      BY DEF Published
    <3>3. record.changed = r.changed /\ record.verb = r.verb /\ record.named = r.named
          /\ record.base = r.base
      BY DEF Published
    <3> QED BY <3>1, <3>2, <3>3
  <2>3. \/ r.previous = {} /\ Number(r.previous) = 0
        \/ \E v \in versions : r.previous = {v} /\ Number(r.previous) = v.version
    BY <1>2, NumberOfOne DEF ComparedWith
  <2>4. new.version = LastNumber + 1
    <3>1. Number(r.previous) \in 0 .. LastNumber
      BY <1>3, <2>3
    <3>2. new.version \in 1 .. LastNumber + 1 /\ new.version \notin 1 .. LastNumber
      BY <1>3, <1>5, <2>2, <3>1 DEF PolicyInv, VersionsAreNumbered
    <3> QED BY <1>3, <3>2
  <2>5. new.terms \in [TERMS -> Nat]
    <3>1. \A f \in TERMS : r.terms[f] \in Nat \cup {Unnamed, Null}
      BY <1>2 DEF FilledIn
    <3>2. r.previous # {} => \A f \in TERMS : (CHOOSE v \in r.previous : TRUE).terms[f] \in Nat
      <4> SUFFICES ASSUME NEW v \in versions, r.previous = {v}
                   PROVE  \A f \in TERMS : (CHOOSE w \in r.previous : TRUE).terms[f] \in Nat
        BY <2>3
      <4>1. (CHOOSE w \in r.previous : TRUE) = v
        OBVIOUS
      <4> QED BY <1>3, <4>1
    <3> QED BY <3>1, <3>2 DEF Successor, Stored, Unnamed, Null
  <2>6. LastNumber' = LastNumber + 1 /\ IsFiniteSet(versions')
    <3>1. new \notin versions
      BY <1>5
    <3> QED BY <2>1, <3>1, FS_AddElement DEF PolicyInv, VersionsAreNumbered, LastNumber
  <2>7. /\ PublishedVersions' = PublishedVersions \cup {new}
        /\ Cardinality(publications') = Cardinality(PublishedVersions')
        /\ IsFiniteSet(publications')
    <3>1. record \notin publications
      BY <1>3, <2>2, <2>4 DEF PolicyInv, PublicationsAreNumbered, PublishedVersions
    <3>2. new \notin PublishedVersions /\ IsFiniteSet(PublishedVersions)
      BY <1>5, FS_Subset DEF PublishedVersions, PolicyInv, VersionsAreNumbered
    <3>3. PublishedVersions' = PublishedVersions \cup {new}
      BY <2>1, <2>2 DEF PublishedVersions
    <3> QED BY <2>1, <3>1, <3>2, <3>3, FS_AddElement DEF PolicyInv, PublicationsAreNumbered
  <2> HIDE DEF new, record, r, refused
  <2>8. VersionsAreNumbered'
    <3>1. \A v \in versions' : v.version \in 1 .. LastNumber + 1 /\ v.terms \in [TERMS -> Nat]
      BY <1>3, <2>1, <2>4, <2>5
    <3>2. \A n \in 1 .. LastNumber + 1 : \E v \in versions' : v.version = n
      <4> TAKE n \in 1 .. LastNumber + 1
      <4>1. n \in 1 .. LastNumber \/ n = LastNumber + 1
        BY <1>3
      <4> QED BY <2>1, <2>4, <4>1 DEF PolicyInv, VersionsAreNumbered
    <3>3. \A v, w \in versions' : v.version = w.version => v = w
      BY <1>3, <2>1, <2>4 DEF PolicyInv, VersionsAreNumbered
    <3>4. \A v \in versions' : v.created_by = "nobody" => v.version = 1
      BY <2>1, <2>2 DEF PolicyInv, VersionsAreNumbered
    <3> QED BY <2>6, <3>1, <3>2, <3>3, <3>4 DEF VersionsAreNumbered
  <2>9. PublicationsAreNumbered'
    <3>1. \A p \in publications : p.version \in 1 .. LastNumber
      BY <1>3 DEF PolicyInv, PublicationsAreNumbered, PublishedVersions
    <3>2. \A p \in publications' : \E v \in PublishedVersions' : v.version = p.version
      BY <2>1, <2>2, <2>7 DEF PolicyInv, PublicationsAreNumbered
    <3>3. \A v \in PublishedVersions' : \E p \in publications' : p.version = v.version
      BY <2>1, <2>2, <2>7 DEF PolicyInv, PublicationsAreNumbered
    <3>4. \A p, q \in publications' : p.version = q.version => p = q
      BY <1>3, <2>1, <2>2, <2>4, <3>1 DEF PolicyInv, PublicationsAreNumbered
    <3> QED BY <2>7, <3>2, <3>3, <3>4 DEF PublicationsAreNumbered
  <2>10. RequestsFit'
    <3>1. \A q : FilledIn(q) => FilledIn(q)'
      BY <1>3, <2>1, <2>6 DEF FilledIn
    <3>2. \A q : ComparedWith(q) => ComparedWith(q)'
      BY <2>1 DEF ComparedWith
    <3> QED BY <1>1, <3>1, <3>2 DEF PolicyInv, RequestsFit, Idle
  (* What the new version is compared with is the version before it. *)
  <2>11. ASSUME NEW v \in versions, new.version = v.version + 1
         PROVE  /\ r.previous = {v} /\ (CHOOSE w \in r.previous : TRUE) = v
                /\ \A f \in TERMS :
                     new.terms[f] = IF r.terms[f] = Unnamed THEN v.terms[f]
                                    ELSE Stored(r.terms[f])
                /\ Number(r.previous) = v.version
    <3>1. Number(r.previous) = v.version
      BY <1>3, <2>2, <2>3, <2>11
    <3>2. r.previous = {v}
      BY <1>3, <2>3, <2>11, <3>1 DEF PolicyInv, VersionsAreNumbered
    <3>3. (CHOOSE w \in r.previous : TRUE) = v
      BY <3>2
    <3> QED BY <3>1, <3>2, <3>3 DEF new, r, Successor
  <2>12. ChangesExplain'
    <3> SUFFICES ASSUME NEW v \in versions', NEW w \in versions', NEW p \in publications',
                        p.version = w.version, w.version = v.version + 1
                 PROVE  \A f \in TERMS :
                          IF f \in DOMAIN p.changed
                          THEN /\ p.changed[f][1] = v.terms[f]
                               /\ Stored(p.changed[f][2]) = w.terms[f]
                          ELSE w.terms[f] = v.terms[f]
      BY DEF ChangesExplain
    <3>1. v \in versions
      BY <1>3, <2>1, <2>4, <2>6, <2>8 DEF VersionsAreNumbered
    <3>2. CASE w \in versions
      <4>1. p \in publications
        BY <1>3, <2>1, <2>2, <2>4, <3>2
      <4> QED BY <3>1, <3>2, <4>1 DEF PolicyInv, ChangesExplain
    <3>3. CASE w = new
      <4>1. p = record
        BY <1>3, <2>1, <2>2, <2>4, <3>3 DEF PolicyInv, PublicationsAreNumbered, PublishedVersions
      <4>2. /\ r.previous # {} /\ (CHOOSE u \in r.previous : TRUE) = v
            /\ \A f \in TERMS :
                 w.terms[f] = IF r.terms[f] = Unnamed THEN v.terms[f] ELSE Stored(r.terms[f])
        BY <2>11, <3>1, <3>3
      <4>3. p.changed = diff(r.previous, r.terms)
        BY <1>2, <2>2, <4>1 DEF ComparedWith
      <4>4. \A f \in TERMS : v.terms[f] \in Nat
        BY <1>3, <3>1
      <4> QED BY <4>2, <4>3, <4>4 DEF diff, Stored, Null
    <3> QED BY <2>1, <3>2, <3>3
  <2>13. RevertsNeedAnOverlap'
    <3> SUFFICES ASSUME NEW p \in publications', NEW v \in versions', NEW w \in versions',
                        p.verb = "patch", p.version = w.version, w.version = v.version + 1,
                        NEW f \in TERMS \ p.named, w.terms[f] # v.terms[f]
                 PROVE  p.base < v.version
      BY DEF RevertsNeedAnOverlap
    <3>1. v \in versions
      BY <1>3, <2>1, <2>4, <2>6, <2>8 DEF VersionsAreNumbered
    <3>2. CASE w \in versions
      <4>1. p \in publications
        BY <1>3, <2>1, <2>2, <2>4, <3>2
      <4> QED BY <3>1, <3>2, <4>1 DEF PolicyInv, RevertsNeedAnOverlap
    <3>3. CASE w = new
      <4>1. p = record
        BY <1>3, <2>1, <2>2, <2>4, <3>3 DEF PolicyInv, PublicationsAreNumbered, PublishedVersions
      <4>2. /\ Number(r.previous) = v.version
            /\ w.terms[f] = IF r.terms[f] = Unnamed THEN v.terms[f] ELSE Stored(r.terms[f])
        BY <2>11, <3>1, <3>3
      <4>3. p.base = r.base /\ r.verb = "patch" /\ f \in TERMS \ r.named
        BY <2>2, <4>1
      <4>4. PICK u \in versions : u.version = r.base /\ r.terms[f] = u.terms[f]
        BY <1>2, <4>3 DEF FilledIn
      <4>7. Stored(r.terms[f]) = u.terms[f]
        BY <1>3, <4>4 DEF Stored, Null
      <4>5. r.base <= v.version /\ r.base \in Nat /\ v.version \in Nat
        BY <1>2, <1>3, <3>1, <4>2 DEF ComparedWith, FilledIn
      <4>6. r.base # v.version
        BY <3>1, <4>2, <4>4, <4>7 DEF PolicyInv, VersionsAreNumbered
      <4> QED BY <4>3, <4>5, <4>6
    <3> QED BY <2>1, <3>2, <3>3
  <2> QED BY <2>8, <2>9, <2>10, <2>12, <2>13 DEF PolicyInv
<1> QED BY <1>4, <1>5

(* The init command's first version has no record, and disturbs no request.  *)
LEMMA InitialiseKeeps ==
  ASSUME PolicyInv, NEW chosen \in Calendars, Initialise(chosen)
  PROVE  PolicyInv'
<1> PICK first : first = [version |-> 1, calendar |-> chosen, created_by |-> "nobody",
                          terms |-> Seeded]
  OBVIOUS
<1>1. versions = {} /\ versions' = {first} /\ UNCHANGED <<publications, requests>>
  BY DEF Initialise
<1>2. /\ first.version = 1 /\ first.created_by = "nobody"
      /\ first.terms \in [TERMS -> Nat]
  BY PolicyTermsAssumption DEF TERMS
<1>3. LastNumber = 0 /\ LastNumber' = 1 /\ IsFiniteSet(versions')
  BY <1>1, FS_EmptySet, FS_Singleton DEF LastNumber
<1>4. PublishedVersions = {} /\ PublishedVersions' = {}
  BY <1>1, <1>2 DEF PublishedVersions
<1>5. publications = {}
  BY <1>4 DEF PolicyInv, PublicationsAreNumbered
<1>6. VersionsAreNumbered'
  BY <1>1, <1>2, <1>3 DEF VersionsAreNumbered
<1>7. PublicationsAreNumbered'
  BY <1>1, <1>4, <1>5, FS_EmptySet DEF PublicationsAreNumbered
<1>8. RequestsFit'
  <2>1. \A q : FilledIn(q) => FilledIn(q)'
    BY <1>1, <1>3 DEF FilledIn
  <2>2. \A q : ComparedWith(q) => ComparedWith(q)'
    BY <1>1 DEF ComparedWith
  <2> QED BY <1>1, <2>1, <2>2 DEF PolicyInv, RequestsFit
<1>9. ChangesExplain' /\ RevertsNeedAnOverlap'
  BY <1>1, <1>5 DEF ChangesExplain, RevertsNeedAnOverlap
<1> QED BY <1>6, <1>7, <1>8, <1>9 DEF PolicyInv

LEMMA NextPolicies ==
  ASSUME PolicyInv, [PolicyNext]_policyVars
  PROVE  PolicyInv'
<1>1. ASSUME NEW o \in Officers, NEW body \in Bodies, post(o, body[1], body[2])
      PROVE  PolicyInv'
  <2>1. body[1] \in [TERMS -> Nat \cup {Unnamed, Null}]
    BY PolicyTermsAssumption DEF TERMS, Unnamed, Null
  <2> QED BY <1>1, <2>1, ArriveKeeps DEF post
<1>2. ASSUME NEW o \in Officers, NEW body \in Bodies, patch(o, body[1], body[2])
      PROVE  PolicyInv'
  <2>1. body[1] \in [TERMS -> Nat \cup {Unnamed, Null}]
    BY PolicyTermsAssumption DEF TERMS, Unnamed, Null
  <2>2. PICK v \in versions : current_version = {v} /\ v.terms \in [TERMS -> Nat]
    BY <1>2, CurrentIsLast DEF patch, PolicyInv, VersionsAreNumbered
  <2>3. (CHOOSE w \in current_version : TRUE) = v
    BY <2>2
  <2>4. /\ Merged(body[1]) \in [TERMS -> Nat \cup {Unnamed, Null}]
        /\ \A f \in TERMS : body[1][f] = Unnamed => Merged(body[1])[f] = v.terms[f]
    BY <2>1, <2>2, <2>3 DEF Merged
  <2> QED BY <1>2, <2>1, <2>2, <2>4, ArriveKeeps DEF patch
<1>3. ASSUME NEW o \in Officers, ReadPrevious(o) PROVE PolicyInv'
  BY <1>3, ReadPreviousKeeps
<1>4. ASSUME NEW o \in Officers, Insert(o) PROVE PolicyInv'
  BY <1>4, InsertKeeps
<1>5. CASE UNCHANGED policyVars
  BY <1>5 DEF policyVars, PolicyInv, VersionsAreNumbered, PublicationsAreNumbered, RequestsFit,
              ChangesExplain, RevertsNeedAnOverlap, LastNumber, FilledIn, ComparedWith,
              PublishedVersions
<1>6. ASSUME NEW chosen \in Calendars, Initialise(chosen) PROVE PolicyInv'
  BY <1>6, InitialiseKeeps
<1> QED BY <1>1, <1>2, <1>3, <1>4, <1>5, <1>6 DEF PolicyNext

THEOREM PoliciesKeepTheirInvariant == PolicySpec => []PolicyInv
<1> QED BY InitPolicies, NextPolicies, PTL DEF PolicySpec

(* Versions run 1 to n, each that was published with one record, and a       *)
(* version is the one before with the changes its record names, however      *)
(* publications and the init command overlap: sla/policies.py publish().     *)
THEOREM HistoryAlwaysExplains == PolicySpec => []HistoryExplainsEveryVersion
<1>1. PolicyInv => HistoryExplainsEveryVersion
  <2> SUFFICES ASSUME PolicyInv PROVE HistoryExplainsEveryVersion OBVIOUS
  <2>1. { v.version : v \in versions } = 1 .. LastNumber
    BY DEF PolicyInv, VersionsAreNumbered
  <2>2. { v.version : v \in versions \ PublishedVersions } \subseteq {1}
    BY DEF PolicyInv, VersionsAreNumbered, PublishedVersions
  <2>3. { p.version : p \in publications } = { v.version : v \in PublishedVersions }
    BY DEF PolicyInv, PublicationsAreNumbered
  <2> QED BY <2>1, <2>2, <2>3 DEF PolicyInv, PublicationsAreNumbered, ChangesExplain,
                                  HistoryExplainsEveryVersion, LastNumber, PublishedVersions
<1> QED BY <1>1, PoliciesKeepTheirInvariant, PTL

(* A field a PATCH does not name goes back only when another publication     *)
(* came in between: api/views_policies.py reads before publish() does.       *)
THEOREM RevertsAlwaysNeedAnOverlap == PolicySpec => []RevertsNeedAnOverlap
<1>1. PolicyInv => RevertsNeedAnOverlap
  BY DEF PolicyInv
<1> QED BY <1>1, PoliciesKeepTheirInvariant, PTL

-----------------------------------------------------------------------------
(* HistoryImport.                                                           *)

FileRows == UNION { { file[k] : k \in DOMAIN file } : file \in Files }
ReferencesOf(file) == { file[k].reference : k \in DOMAIN file }

OpenImports ==
  [at : {"rows", "append"}, batch : Nat, file : Files, left : Seq(FileRows),
   inserted : SUBSET { row.reference : row \in FileRows },
   cases_imported : Nat, cases_rejected : Nat]

ImportTypes ==
  /\ import \in [Importers -> {NoImport} \cup OpenImports]
  /\ begun \in Nat
  /\ DOMAIN batches \subseteq 1 .. begun
  /\ \A b \in DOMAIN batches : batches[b].file \in Files

(* What is left to read is the end of the file, and the rows before it are   *)
(* counted; in between, a reference is inserted and its row not yet counted. *)
Accounted(t) ==
  /\ Len(t.left) <= Len(t.file)
  /\ \A k \in 1 .. Len(t.left) : t.left[k] = t.file[Len(t.file) - Len(t.left) + k]
  /\ t.cases_imported + t.cases_rejected + Len(t.left) = Len(t.file)
  /\ t.inserted \subseteq ReferencesOf(t.file)
  /\ IsFiniteSet(t.inserted)
  /\ t.at = "rows" => Cardinality(t.inserted) = t.cases_imported
  /\ t.at = "append" => Cardinality(t.inserted) = t.cases_imported + 1 /\ t.left # <<>>

(* No batch row of its own is committed, and nobody has its references.      *)
Unseen(i) ==
  import[i] # NoImport =>
    /\ import[i].batch \in 1 .. begun
    /\ import[i].batch \notin DOMAIN batches
    /\ import[i].inserted \cap DOMAIN imported = {}
    /\ \A j \in Importers \ {i} : import[j] # NoImport =>
         /\ import[j].batch # import[i].batch
         /\ import[j].inserted \cap import[i].inserted = {}

ImportInv ==
  /\ ImportTypes
  /\ \A i \in Importers : (import[i] # NoImport => Accounted(import[i])) /\ Unseen(i)
  /\ BatchesTellTheTruth

(* Files are sequences, and what is left of one is a sequence of its rows.   *)
LEMMA FilesAreSequences ==
  ASSUME NEW file \in Files
  PROVE  file \in Seq(FileRows) /\ \A k \in 1 .. Len(file) : file[k].reference \in ReferencesOf(file)
<1>1. file \in Seq({ file[i] : i \in DOMAIN file }) /\ { file[i] : i \in DOMAIN file } \subseteq FileRows
  BY ImportAssumption DEF FileRows
<1>2. file \in Seq(FileRows) /\ DOMAIN file = 1 .. Len(file)
  BY <1>1
<1> QED BY <1>2 DEF ReferencesOf

LEMMA InitImports == ImportInit => ImportInv
BY ImportAssumption
   DEF ImportInit, ImportInv, ImportTypes, Unseen, NoImport, BatchesTellTheTruth

(* An importer goes on with its own transaction: whatever it inserts is new  *)
(* to everybody, and nothing is committed.                                   *)
LEMMA ImporterGoesOn ==
  ASSUME ImportInv, NEW i \in Importers, NEW t \in OpenImports,
         import[i] # NoImport, import' = [import EXCEPT ![i] = t],
         t.batch = import[i].batch, t.file = import[i].file, Accounted(t),
         \A r \in t.inserted \ import[i].inserted :
           r \notin DOMAIN imported \cup UNION { Uncommitted(j) : j \in Importers },
         UNCHANGED <<imported, batches, begun>>
  PROVE  ImportInv'
<1>1. ImportTypes /\ BatchesTellTheTruth /\ \A j \in Importers : Unseen(j)
  BY DEF ImportInv
<1>2. import'[i] = t /\ \A j \in Importers \ {i} : import'[j] = import[j]
  BY <1>1 DEF ImportTypes
<1>3. ImportTypes'
  BY <1>1 DEF ImportTypes
<1>4. \A j \in Importers : import[j] # NoImport => Uncommitted(j) = import[j].inserted
  BY <1>1 DEF ImportTypes, OpenImports, Uncommitted, NoImport
<1>5. t.inserted \cap DOMAIN imported = {}
  BY <1>1 DEF Unseen
<1>6. \A j \in Importers \ {i} : import[j] # NoImport => t.inserted \cap import[j].inserted = {}
  BY <1>1, <1>4 DEF Unseen
<1>7. Unseen(i)'
  BY <1>1, <1>2, <1>5, <1>6 DEF Unseen
<1>8. ASSUME NEW j \in Importers \ {i} PROVE Unseen(j)'
  BY <1>1, <1>2, <1>6, <1>8 DEF Unseen
<1>9. ASSUME NEW j \in Importers PROVE import'[j] # NoImport => Accounted(import'[j])
  BY <1>2, <1>9 DEF ImportInv
<1>10. BatchesTellTheTruth'
  BY <1>1 DEF BatchesTellTheTruth
<1> QED BY <1>3, <1>7, <1>8, <1>9, <1>10 DEF ImportInv

(* Reading a row: the next one is of the file, and once it is counted what   *)
(* is left is again the end of the file.                                     *)
LEMMA NextRow ==
  ASSUME NEW t \in OpenImports, Accounted(t), t.left # << >>
  PROVE  /\ Tail(t.left) \in Seq(FileRows)
         /\ Head(t.left) \in FileRows
         /\ Head(t.left).reference \in ReferencesOf(t.file)
<1>1. t.left \in Seq(FileRows) /\ t.file \in Files
  BY DEF OpenImports
<1> DEFINE m == Len(t.file)  n == Len(t.left)
<1>2. m \in Nat /\ \A k \in 1 .. m : t.file[k].reference \in ReferencesOf(t.file)
  BY <1>1, FilesAreSequences
<1>3. /\ n \in Nat \ {0} /\ Tail(t.left) \in Seq(FileRows)
      /\ Head(t.left) = t.left[1] /\ t.left[1] \in FileRows
  BY <1>1
<1>4. n <= m /\ \A k \in 1 .. n : t.left[k] = t.file[m - n + k]
  BY DEF Accounted
<1> HIDE DEF m, n
<1>5. m - n + 1 \in 1 .. m /\ t.left[1] = t.file[m - n + 1]
  BY <1>2, <1>3, <1>4
<1> QED BY <1>2, <1>3, <1>5

LEMMA RowCounted ==
  ASSUME NEW t \in OpenImports, Accounted(t), t.left # << >>, NEW u \in OpenImports,
         u.at = "rows", u.file = t.file, u.left = Tail(t.left), u.inserted = t.inserted,
         u.cases_imported + u.cases_rejected = t.cases_imported + t.cases_rejected + 1,
         Cardinality(u.inserted) = u.cases_imported
  PROVE  Accounted(u)
<1>1. t.left \in Seq(FileRows) /\ t.file \in Files /\ t.cases_imported + t.cases_rejected \in Nat
  BY DEF OpenImports
<1> DEFINE m == Len(t.file)  n == Len(t.left)
<1>2. m \in Nat
  BY <1>1, FilesAreSequences
<1>3. /\ n \in Nat \ {0} /\ Len(u.left) = n - 1
      /\ \A k \in 1 .. n - 1 : u.left[k] = t.left[k + 1]
  BY <1>1
<1>4. /\ n <= m /\ \A k \in 1 .. n : t.left[k] = t.file[m - n + k]
      /\ t.cases_imported + t.cases_rejected + n = m
  BY DEF Accounted
<1> HIDE DEF m, n
<1>5. ASSUME NEW k \in 1 .. n - 1 PROVE u.left[k] = t.file[m - (n - 1) + k]
  <2>1. k + 1 \in 1 .. n /\ m - n + (k + 1) = m - (n - 1) + k
    BY <1>2, <1>3
  <2>2. t.left[k + 1] = t.file[m - n + (k + 1)]
    BY <1>4, <2>1
  <2> QED BY <1>3, <2>1, <2>2
<1>6. u.cases_imported + u.cases_rejected + (n - 1) = m
  BY <1>1, <1>2, <1>3, <1>4
<1>7. n - 1 <= m
  BY <1>2, <1>3, <1>4
<1>8. u.inserted \subseteq ReferencesOf(u.file) /\ IsFiniteSet(u.inserted)
  BY DEF Accounted
<1> QED BY <1>3, <1>5, <1>6, <1>7, <1>8 DEF Accounted, m

LEMMA OpenImportOf ==
  ASSUME ImportInv, NEW i \in Importers, import[i].at # "idle"
  PROVE  import[i] # NoImport /\ import[i] \in OpenImports /\ Accounted(import[i])
BY DEF ImportInv, ImportTypes, NoImport

LEMMA BeginKeeps ==
  ASSUME ImportInv, NEW i \in Importers, NEW file \in Files, import_csv(i, file)
  PROVE  ImportInv'
<1>1. ImportTypes /\ BatchesTellTheTruth /\ \A j \in Importers : Unseen(j)
  BY DEF ImportInv
<1>2. file \in Seq(FileRows) /\ Len(file) \in Nat
  BY FilesAreSequences
<1> DEFINE t == [at |-> "rows", batch |-> begun + 1, file |-> file, left |-> file,
                 inserted |-> {}, cases_imported |-> 0, cases_rejected |-> 0]
<1>3. t \in OpenImports /\ begun' = begun + 1 /\ UNCHANGED <<imported, batches>> /\ import[i] = NoImport
  BY <1>1, <1>2 DEF OpenImports, import_csv, ImportTypes
<1>4. import' = [import EXCEPT ![i] = t]
  BY DEF import_csv
<1> HIDE DEF t
<1>5. import'[i] = t /\ \A j \in Importers \ {i} : import'[j] = import[j]
  BY <1>1, <1>4 DEF ImportTypes
<1>6. ImportTypes'
  BY <1>1, <1>3, <1>4 DEF ImportTypes
<1>7. Accounted(t)
  BY <1>2, FS_EmptySet DEF Accounted, t
<1>8. ASSUME NEW j \in Importers PROVE Unseen(j)'
  BY <1>1, <1>3, <1>5, <1>8 DEF Unseen, ImportTypes, t
<1>9. ASSUME NEW j \in Importers PROVE import'[j] # NoImport => Accounted(import'[j])
  BY <1>5, <1>7, <1>9 DEF ImportInv
<1>10. BatchesTellTheTruth'
  BY <1>1, <1>3 DEF BatchesTellTheTruth
<1> QED BY <1>6, <1>8, <1>9, <1>10 DEF ImportInv

LEMMA RejectKeeps ==
  ASSUME ImportInv, NEW i \in Importers, RejectRow(i)
  PROVE  ImportInv'
<1> DEFINE u == import[i]
           t == [u EXCEPT !.left = Tail(u.left), !.cases_rejected = u.cases_rejected + 1]
<1>1. u # NoImport /\ u \in OpenImports /\ Accounted(u) /\ u.at = "rows" /\ u.left # << >>
  BY OpenImportOf DEF RejectRow
<1>2. Tail(u.left) \in Seq(FileRows) /\ u.cases_rejected + 1 \in Nat
  BY <1>1, NextRow DEF OpenImports
<1>3. /\ t \in OpenImports /\ t.at = "rows" /\ t.batch = u.batch /\ t.file = u.file
      /\ t.left = Tail(u.left) /\ t.inserted = u.inserted
      /\ t.cases_imported = u.cases_imported /\ t.cases_rejected = u.cases_rejected + 1
  <2> DEFINE left == Tail(u.left)  rejected == u.cases_rejected + 1
  <2>1. left \in Seq(FileRows) /\ rejected \in Nat
    BY <1>2
  <2> HIDE DEF left, rejected
  <2>2. LET v == [u EXCEPT !.left = left, !.cases_rejected = rejected]
        IN  /\ v \in OpenImports /\ v.at = u.at /\ v.batch = u.batch /\ v.file = u.file
            /\ v.left = left /\ v.inserted = u.inserted
            /\ v.cases_imported = u.cases_imported /\ v.cases_rejected = rejected
    BY <1>1, <2>1 DEF OpenImports
  <2> QED BY <1>1, <2>2 DEF left, rejected
<1>4. import' = [import EXCEPT ![i] = t] /\ UNCHANGED <<imported, batches, begun>>
  BY DEF RejectRow
<1> HIDE DEF t
<1>5. Cardinality(t.inserted) = t.cases_imported
  BY <1>1, <1>3 DEF Accounted
<1>6. t.cases_imported + t.cases_rejected = u.cases_imported + u.cases_rejected + 1
  BY <1>1, <1>3 DEF OpenImports
<1>7. Accounted(t)
  BY <1>1, <1>3, <1>5, <1>6, RowCounted
<1> QED BY <1>1, <1>3, <1>4, <1>7, ImporterGoesOn

LEMMA InsertRowKeeps ==
  ASSUME ImportInv, NEW i \in Importers, InsertRow(i)
  PROVE  ImportInv'
<1> DEFINE r == Row(i).reference
           t == [import[i] EXCEPT !.inserted = @ \cup {r}, !.at = "append"]
<1>1. import[i] # NoImport /\ import[i] \in OpenImports /\ Accounted(import[i]) /\ import[i].left # << >>
  BY OpenImportOf DEF InsertRow
<1>2. Row(i) \in FileRows /\ r \in ReferencesOf(import[i].file)
  BY <1>1, NextRow DEF Row
<1>3. r \notin DOMAIN imported \cup UNION { Uncommitted(j) : j \in Importers } /\ import[i].at = "rows"
  BY DEF InsertRow
<1>4. r \notin import[i].inserted
  BY <1>3 DEF Uncommitted
<1>5. /\ t \in OpenImports
      /\ t.at = "append" /\ t.batch = import[i].batch /\ t.file = import[i].file
      /\ t.left = import[i].left /\ t.inserted = import[i].inserted \cup {r}
      /\ t.cases_imported = import[i].cases_imported
      /\ t.cases_rejected = import[i].cases_rejected
  BY <1>1, <1>2 DEF OpenImports
<1>6. import' = [import EXCEPT ![i] = t] /\ UNCHANGED <<imported, batches, begun>>
  BY DEF InsertRow
<1> HIDE DEF t, r
<1>7. IsFiniteSet(t.inserted) /\ Cardinality(t.inserted) = import[i].cases_imported + 1
  <2>1. IsFiniteSet(import[i].inserted) /\ Cardinality(import[i].inserted) = import[i].cases_imported
    BY <1>1, <1>3 DEF Accounted
  <2>2. /\ IsFiniteSet(import[i].inserted \cup {r})
        /\ Cardinality(import[i].inserted \cup {r}) = Cardinality(import[i].inserted) + 1
    BY <2>1, <1>4, FS_AddElement
  <2> QED BY <2>1, <2>2, <1>5
<1>8. Accounted(t)
  BY <1>1, <1>2, <1>5, <1>7 DEF Accounted
<1> QED BY <1>1, <1>3, <1>5, <1>6, <1>8, ImporterGoesOn

LEMMA AppendRowKeeps ==
  ASSUME ImportInv, NEW i \in Importers, AppendRow(i)
  PROVE  ImportInv'
<1> DEFINE u == import[i]
           t == [u EXCEPT !.left = Tail(u.left), !.at = "rows",
                          !.cases_imported = u.cases_imported + 1]
<1>1. u # NoImport /\ u \in OpenImports /\ Accounted(u) /\ u.at = "append" /\ u.left # << >>
  BY OpenImportOf DEF AppendRow, Accounted
<1>2. Tail(u.left) \in Seq(FileRows) /\ u.cases_imported + 1 \in Nat
  BY <1>1, NextRow DEF OpenImports
<1>3. /\ t \in OpenImports /\ t.at = "rows" /\ t.batch = u.batch /\ t.file = u.file
      /\ t.left = Tail(u.left) /\ t.inserted = u.inserted
      /\ t.cases_imported = u.cases_imported + 1 /\ t.cases_rejected = u.cases_rejected
  <2> DEFINE left == Tail(u.left)  counted == u.cases_imported + 1
  <2>1. left \in Seq(FileRows) /\ counted \in Nat
    BY <1>2
  <2> HIDE DEF left, counted
  <2>2. LET v == [u EXCEPT !.left = left, !.at = "rows", !.cases_imported = counted]
        IN  /\ v \in OpenImports /\ v.at = "rows" /\ v.batch = u.batch /\ v.file = u.file
            /\ v.left = left /\ v.inserted = u.inserted
            /\ v.cases_imported = counted /\ v.cases_rejected = u.cases_rejected
    BY <1>1, <2>1 DEF OpenImports
  <2> QED BY <2>2 DEF left, counted
<1>4. import' = [import EXCEPT ![i] = t] /\ UNCHANGED <<imported, batches, begun>>
  BY DEF AppendRow
<1> HIDE DEF t
<1>5. Cardinality(t.inserted) = t.cases_imported
  BY <1>1, <1>3 DEF Accounted
<1>6. t.cases_imported + t.cases_rejected = u.cases_imported + u.cases_rejected + 1
  BY <1>1, <1>3 DEF OpenImports
<1>7. Accounted(t)
  BY <1>1, <1>3, <1>5, <1>6, RowCounted
<1> QED BY <1>1, <1>3, <1>4, <1>7, ImporterGoesOn

(* An importer leaves, one way or the other: what the others hold stays new. *)
LEMMA ImporterLeaves ==
  ASSUME ImportInv, NEW i \in Importers, import' = [import EXCEPT ![i] = NoImport],
         begun' = begun,
         DOMAIN imported' \subseteq DOMAIN imported \cup Uncommitted(i),
         DOMAIN batches' \subseteq DOMAIN batches \cup { import[i].batch : k \in {import[i].at} \ {"idle"} },
         \A b \in DOMAIN batches' : batches'[b].file \in Files,
         BatchesTellTheTruth'
  PROVE  ImportInv'
<1>1. ImportTypes /\ \A j \in Importers : Unseen(j)
  BY DEF ImportInv
<1>2. import'[i] = NoImport /\ \A j \in Importers \ {i} : import'[j] = import[j]
  BY <1>1 DEF ImportTypes
<1>3. CASE import[i] = NoImport
  <2>1. DOMAIN imported' \subseteq DOMAIN imported /\ DOMAIN batches' \subseteq DOMAIN batches
    BY <1>3 DEF Uncommitted, NoImport
  <2>2. ImportTypes'
    BY <1>1, <2>1 DEF ImportTypes
  <2>3. ASSUME NEW j \in Importers PROVE Unseen(j)'
    BY <1>1, <1>2, <2>1, <2>3 DEF Unseen
  <2>4. ASSUME NEW j \in Importers PROVE import'[j] # NoImport => Accounted(import'[j])
    BY <1>2, <2>4 DEF ImportInv
  <2> QED BY <2>2, <2>3, <2>4 DEF ImportInv
<1>4. CASE import[i] # NoImport
  <2>1. import[i].at # "idle" /\ Uncommitted(i) = import[i].inserted
    BY <1>1, <1>4 DEF ImportTypes, OpenImports, Uncommitted
  <2>2. /\ DOMAIN imported' \subseteq DOMAIN imported \cup import[i].inserted
        /\ DOMAIN batches' \subseteq DOMAIN batches \cup {import[i].batch}
    BY <2>1
  <2>3. import[i].batch \in 1 .. begun
    BY <1>1, <1>4 DEF Unseen
  <2>4. ImportTypes'
    BY <1>1, <2>2, <2>3 DEF ImportTypes
  <2>5. ASSUME NEW j \in Importers PROVE Unseen(j)'
    BY <1>1, <1>2, <1>4, <2>2, <2>5 DEF Unseen
  <2>6. ASSUME NEW j \in Importers PROVE import'[j] # NoImport => Accounted(import'[j])
    BY <1>2, <2>6 DEF ImportInv
  <2> QED BY <2>4, <2>5, <2>6 DEF ImportInv
<1> QED BY <1>3, <1>4

LEMMA CompleteKeeps ==
  ASSUME ImportInv, NEW i \in Importers, Complete(i)
  PROVE  ImportInv'
<1> DEFINE t == import[i]
           n == t.batch
<1>1. /\ t # NoImport /\ t \in OpenImports /\ Accounted(t) /\ t.at = "rows" /\ t.left = << >>
      /\ ImportTypes /\ BatchesTellTheTruth /\ Unseen(i)
  BY OpenImportOf DEF Complete, ImportInv
<1>2. /\ n \notin DOMAIN batches /\ t.inserted \cap DOMAIN imported = {} /\ Uncommitted(i) = t.inserted
  BY <1>1 DEF Unseen, Uncommitted
<1>3. /\ DOMAIN imported' = DOMAIN imported \cup t.inserted
      /\ \A r \in t.inserted : imported'[r] = n
      /\ \A r \in DOMAIN imported : imported'[r] = imported[r]
  BY <1>2 DEF Complete
<1>4. /\ DOMAIN batches' = DOMAIN batches \cup {n}
      /\ batches'[n].file = t.file
      /\ batches'[n].cases_imported = t.cases_imported
      /\ batches'[n].cases_rejected = t.cases_rejected
      /\ \A b \in DOMAIN batches : batches'[b] = batches[b]
  BY <1>2 DEF Complete
<1>5. t.file \in Files /\ Len(t.file) \in Nat /\ DOMAIN t.file = 1 .. Len(t.file)
  BY <1>1, FilesAreSequences DEF OpenImports
<1>6. t.cases_imported + t.cases_rejected = Len(t.file) /\ t.cases_imported = Cardinality(t.inserted)
      /\ t.inserted \subseteq ReferencesOf(t.file)
  BY <1>1, <1>5 DEF Accounted, OpenImports
<1>7. ASSUME NEW r \in DOMAIN imported'
      PROVE  /\ imported'[r] \in DOMAIN batches'
             /\ \E k \in DOMAIN batches'[imported'[r]].file :
                  batches'[imported'[r]].file[k].reference = r
  <2>1. CASE r \in DOMAIN imported
    BY <1>1, <1>3, <1>4, <2>1 DEF BatchesTellTheTruth
  <2>2. CASE r \in t.inserted
    BY <1>3, <1>4, <1>6, <2>2 DEF ReferencesOf
  <2> QED BY <1>3, <1>7, <2>1, <2>2
<1>8. ASSUME NEW b \in DOMAIN batches'
      PROVE  /\ batches'[b].cases_imported = Cardinality({ r \in DOMAIN imported' : imported'[r] = b })
             /\ batches'[b].cases_imported + batches'[b].cases_rejected = Len(batches'[b].file)
  <2>1. CASE b = n
    <3>1. { r \in DOMAIN imported' : imported'[r] = b } = t.inserted
      BY <1>1, <1>2, <1>3, <2>1 DEF BatchesTellTheTruth
    <3> QED BY <1>4, <1>6, <2>1, <3>1
  <2>2. CASE b # n
    <3>1. b \in DOMAIN batches
      BY <1>4, <1>8, <2>2
    <3>2. { r \in DOMAIN imported' : imported'[r] = b } = { r \in DOMAIN imported : imported[r] = b }
      BY <1>2, <1>3, <2>2
    <3> QED BY <1>1, <1>4, <3>1, <3>2 DEF BatchesTellTheTruth
  <2> QED BY <2>1, <2>2
<1>9. BatchesTellTheTruth'
  BY <1>7, <1>8 DEF BatchesTellTheTruth
<1>10. \A b \in DOMAIN batches' : batches'[b].file \in Files
  BY <1>1, <1>4, <1>5 DEF ImportTypes
<1>11. import' = [import EXCEPT ![i] = NoImport] /\ begun' = begun
  BY DEF Complete
<1> QED BY <1>1, <1>2, <1>3, <1>4, <1>9, <1>10, <1>11, ImporterLeaves

LEMMA FailKeeps ==
  ASSUME ImportInv, NEW i \in Importers, Fail(i)
  PROVE  ImportInv'
<1>1. /\ import' = [import EXCEPT ![i] = NoImport] /\ begun' = begun
      /\ imported' = imported /\ batches' = batches
  BY DEF Fail, Rollback
<1>2. BatchesTellTheTruth'
  BY <1>1 DEF ImportInv, BatchesTellTheTruth
<1>3. \A b \in DOMAIN batches' : batches'[b].file \in Files
  BY <1>1 DEF ImportInv, ImportTypes
<1> QED BY <1>1, <1>2, <1>3, ImporterLeaves

LEMMA NextImports == ImportInv /\ [ImportNext]_importVars => ImportInv'
<1> SUFFICES ASSUME ImportInv, [ImportNext]_importVars PROVE ImportInv'
  OBVIOUS
<1>1. CASE UNCHANGED importVars
  <2>1. ImportTypes' /\ \A i \in Importers : Unseen(i)'
    BY <1>1 DEF importVars, ImportInv, ImportTypes, Unseen
  <2>2. \A i \in Importers : import'[i] # NoImport => Accounted(import'[i])
    BY <1>1 DEF importVars, ImportInv
  <2>3. BatchesTellTheTruth'
    BY <1>1 DEF importVars, ImportInv, BatchesTellTheTruth
  <2> QED BY <2>1, <2>2, <2>3 DEF ImportInv
<1>2. ASSUME NEW i \in Importers, NEW file \in Files, import_csv(i, file) PROVE ImportInv'
  BY <1>2, BeginKeeps
<1>3. ASSUME NEW i \in Importers, RejectRow(i) PROVE ImportInv'
  BY <1>3, RejectKeeps
<1>4. ASSUME NEW i \in Importers, InsertRow(i) PROVE ImportInv'
  BY <1>4, InsertRowKeeps
<1>5. ASSUME NEW i \in Importers, AppendRow(i) PROVE ImportInv'
  BY <1>5, AppendRowKeeps
<1>6. ASSUME NEW i \in Importers, Complete(i) PROVE ImportInv'
  BY <1>6, CompleteKeeps
<1>7. ASSUME NEW i \in Importers, Fail(i) PROVE ImportInv'
  BY <1>7, FailKeeps
<1> QED BY <1>1, <1>2, <1>3, <1>4, <1>5, <1>6, <1>7 DEF ImportNext

(* A committed batch accounts for every row of its file and an imported case *)
(* belongs to one, however many import at once and wherever one ends:        *)
(* import_csv() in migration/importer.py.                                    *)
THEOREM BatchesAlwaysTellTheTruth == ImportSpec => []BatchesTellTheTruth
<1>1. ImportInv => BatchesTellTheTruth
  BY DEF ImportInv
<1> QED BY <1>1, InitImports, NextImports, PTL DEF ImportSpec

-----------------------------------------------------------------------------
(* Casebook.                                                                *)

CaseRows ==
  [status : {"submitted", "resolved"} \cup Targets, submitted_at : Int, resolved_at : Int,
   amount : Nat, category : { filing[2] : filing \in Filings },
   outcome : {Undecided} \cup { decision[1] : decision \in Decisions }, refund : Int,
   breached : BOOLEAN, tracks : SUBSET ({"open"} \cup Determinations)]

BookTypes == today \in Nat /\ book \in [DOMAIN book -> CaseRows]

(* What casework does to a row: only a reopening is ever taken back.         *)
CriteriaStay ==
  \A c \in DOMAIN book :
    /\ c \in DOMAIN book'
    /\ \A criterion \in {"escalated", "breached", "high_value"} :
         Meets(c, criterion) => Meets(c, criterion)'

FactsStay ==
  \A c \in DOMAIN book :
    /\ c \in DOMAIN book'
    /\ book'[c].submitted_at = book[c].submitted_at /\ book'[c].category = book[c].category
    /\ book[c].resolved_at # Undated => book'[c].resolved_at # Undated
    /\ book[c].tracks # {} => book'[c].tracks # {}

RowsStay == CriteriaStay /\ BookTypes' /\ FactsStay

LEMMA CaseworkKeepsRows ==
  ASSUME BookTypes, Casework
  PROVE  RowsStay
<1>1. today \in Nat /\ book \in [DOMAIN book -> CaseRows]
  BY DEF BookTypes
<1>2. ASSUME NEW c \in Cases, NEW day \in 0 .. LastDay, NEW filing \in Filings,
             File(c, day, filing[1], filing[2])
      PROVE  RowsStay
  <2> DEFINE row == [status |-> "submitted", submitted_at |-> day, resolved_at |-> Undated,
                     amount |-> filing[1], category |-> filing[2], outcome |-> Undecided,
                     refund |-> NoRefund, breached |-> FALSE, tracks |-> {}]
  <2>1. /\ DOMAIN book' = DOMAIN book \cup {c} /\ c \notin DOMAIN book /\ today' = today
        /\ book'[c] = row /\ \A d \in DOMAIN book : book'[d] = book[d]
        /\ book' = [x \in DOMAIN book \cup {c} |-> IF x = c THEN row ELSE book[x]]
    BY <1>2 DEF File, Filed
  <2>2. row \in CaseRows
    <3>1. filing[1] \in Nat /\ day \in Int /\ Undated \in Int /\ NoRefund \in Int
      BY CasebookAssumption DEF Undated, NoRefund
    <3> QED BY <3>1 DEF CaseRows
  <2> HIDE DEF row
  <2>3. book' \in [DOMAIN book' -> CaseRows]
    BY <1>1, <2>1, <2>2
  <2>4. FactsStay
    BY <2>1 DEF FactsStay
  <2>5. CriteriaStay
    BY <2>1 DEF CriteriaStay, Meets
  <2> QED BY <1>1, <2>1, <2>3, <2>4, <2>5 DEF RowsStay, BookTypes
<1>3. ASSUME NEW c \in DOMAIN book, NEW row \in CaseRows, book' = [book EXCEPT ![c] = row],
             row.submitted_at = book[c].submitted_at, row.category = book[c].category,
             book[c].resolved_at # Undated => row.resolved_at # Undated,
             row.amount = book[c].amount, row.breached = book[c].breached,
             book[c].tracks # {} => row.tracks # {}, today' = today
      PROVE  RowsStay
  <2>1. /\ DOMAIN book' = DOMAIN book /\ book'[c] = row
        /\ \A d \in DOMAIN book \ {c} : book'[d] = book[d]
    BY <1>1, <1>3
  <2> QED BY <1>1, <1>3, <2>1 DEF RowsStay, BookTypes, FactsStay, CriteriaStay, Meets
<1>4. ASSUME NEW c \in Cases, NEW to \in Targets, Move(c, to)
      PROVE  RowsStay
  <2> DEFINE row == [book[c] EXCEPT !.status = to]
  <2>1. c \in DOMAIN book /\ book' = [book EXCEPT ![c] = row] /\ today' = today
    BY <1>4 DEF Move, Filed
  <2>2. row \in CaseRows /\ row.submitted_at = book[c].submitted_at
        /\ row.amount = book[c].amount /\ row.breached = book[c].breached
        /\ row.tracks = book[c].tracks /\ row.category = book[c].category
        /\ row.resolved_at = book[c].resolved_at
    BY <1>1, <2>1 DEF CaseRows
  <2> HIDE DEF row
  <2> QED BY <1>3, <2>1, <2>2
<1>5. ASSUME NEW c \in Cases, NEW decision \in Decisions, Resolve(c, decision[1], decision[2])
      PROVE  RowsStay
  <2> DEFINE moved == [book[c] EXCEPT !.status = "resolved", !.outcome = decision[1]]
             row == [moved EXCEPT !.refund = decision[2], !.resolved_at = today]
  <2>1. c \in DOMAIN book /\ today' = today
        /\ book' = [book EXCEPT ![c] = [book[c] EXCEPT !.status = "resolved",
                      !.outcome = decision[1], !.refund = decision[2], !.resolved_at = today]]
    BY <1>5 DEF Resolve, Filed
  <2>2. book[c] \in CaseRows /\ decision[2] \in Int /\ today \in Int
    BY <1>1, <2>1, CasebookAssumption
  <2>3. /\ moved \in CaseRows /\ moved.amount = book[c].amount
        /\ moved.submitted_at = book[c].submitted_at
        /\ moved.breached = book[c].breached /\ moved.tracks = book[c].tracks
        /\ moved.category = book[c].category
    BY <2>2 DEF CaseRows
  <2>4. row = [book[c] EXCEPT !.status = "resolved", !.outcome = decision[1],
                              !.refund = decision[2], !.resolved_at = today]
    BY <2>2 DEF CaseRows
  <2> HIDE DEF moved
  <2>5. /\ row \in CaseRows /\ row.amount = moved.amount
        /\ row.submitted_at = moved.submitted_at /\ row.breached = moved.breached
        /\ row.tracks = moved.tracks /\ row.category = moved.category
        /\ row.resolved_at = today
    BY <2>2, <2>3 DEF CaseRows
  <2>6. today # Undated
    BY <1>1 DEF Undated
  <2> HIDE DEF row
  <2> QED BY <1>3, <2>1, <2>3, <2>4, <2>5, <2>6
<1>6. ASSUME NEW c \in DOMAIN book, NEW track \in {"open"} \cup Determinations,
             book' = [book EXCEPT ![c].tracks = {track}], today' = today
      PROVE  RowsStay
  <2> DEFINE row == [book[c] EXCEPT !.tracks = {track}]
  <2>1. row \in CaseRows /\ row.submitted_at = book[c].submitted_at
        /\ row.amount = book[c].amount /\ row.breached = book[c].breached
        /\ row.tracks = {track} /\ row.category = book[c].category
        /\ row.resolved_at = book[c].resolved_at
    BY <1>1 DEF CaseRows
  <2>2. book' = [book EXCEPT ![c] = row]
    BY <1>6
  <2> HIDE DEF row
  <2> QED BY <1>3, <1>6, <2>1, <2>2
<1>7. ASSUME NEW c \in Cases, OpenTrack(c)
      PROVE  RowsStay
  BY <1>6, <1>7 DEF OpenTrack, Filed
<1>8. ASSUME NEW c \in Cases, NEW d \in Determinations, CloseTrack(c, d)
      PROVE  RowsStay
  BY <1>6, <1>8 DEF CloseTrack, Filed
<1>9. ASSUME NewDay
      PROVE  RowsStay
  <2>1. today \in Nat /\ today' = today + 1 /\ book' = book
    BY <1>1, <1>9 DEF NewDay
  <2> QED BY <1>1, <2>1 DEF RowsStay, BookTypes, FactsStay, CriteriaStay, Meets
<1> QED BY <1>2, <1>4, <1>5, <1>7, <1>8, <1>9 DEF Casework

(* The cases stay finitely many. *)
LEMMA CaseworkKeepsTheBookFinite ==
  ASSUME Casework, IsFiniteSet(DOMAIN book), today \in Nat
  PROVE  IsFiniteSet(DOMAIN book') /\ today' \in Nat
<1>1. ASSUME NEW c \in Cases, NEW day, NEW amount, NEW category, File(c, day, amount, category)
      PROVE  IsFiniteSet(DOMAIN book') /\ today' \in Nat
  <2>1. DOMAIN book' = DOMAIN book \cup {c} /\ today' = today
    BY <1>1 DEF File, Filed
  <2> QED BY <2>1, FS_AddElement
<1>2. ASSUME NEW c, DOMAIN book' = DOMAIN book, UNCHANGED today
      PROVE  IsFiniteSet(DOMAIN book') /\ today' \in Nat
  BY <1>2
<1>3. CASE NewDay
  BY <1>3 DEF NewDay
<1> QED BY <1>1, <1>2, <1>3 DEF Casework, Move, Resolve, OpenTrack, CloseTrack

-----------------------------------------------------------------------------
(* RegulatoryReturns.                                                       *)

(* What was counted of a figure that only grows is there today.              *)
NotOverstated(t) ==
  \A k \in DOMAIN t.rows :
    template[t.version][k][1] \in GROWING => t.rows[k] <= Value(template[t.version][k], t.period)

(* Under a version that was accepted, no row too many, none overstated.      *)
Grounded(t) ==
  /\ t.version \in DOMAIN template
  /\ validate_template(template[t.version]) = {}
  /\ Len(t.rows) <= Len(template[t.version])
  /\ NotOverstated(t)

Drafts == [at : {"counting"}, version : Nat, period : Periods, rows : Seq(Nat)]

ReturnRows ==
  [version : Nat, period : Periods, rows : Seq(Nat), status : {"draft", "approved"},
   generated_by : People, generated_at : Nat]

ReturnTypes ==
  /\ BookTypes
  /\ IsFiniteSet(DOMAIN book)
  /\ template \in Seq(Templates)
  /\ returns \in Seq(ReturnRows)
  /\ counting \in [People -> {NotCounting} \cup Drafts]

ReturnsInv ==
  /\ ReturnTypes
  /\ \A i \in DOMAIN returns :
       Grounded(returns[i]) /\ Len(returns[i].rows) = Len(template[returns[i].version])
  /\ \A p \in People : counting[p] # NotCounting => Grounded(counting[p])

(* A template that was ever stored stays as it is; the figures that only     *)
(* grow do so.                                                               *)
TemplatesStand ==
  \A v \in DOMAIN template : v \in DOMAIN template' /\ template'[v] = template[v]

FiguresGrow ==
  \A row, period : row[1] \in GROWING =>
    /\ Value(row, period) \in Nat /\ Value(row, period)' \in Nat
    /\ Value(row, period) <= Value(row, period)'

LEMMA GroundedStays ==
  ASSUME TemplatesStand, FiguresGrow, NEW t, Grounded(t), template \in Seq(Templates),
         t.rows \in Seq(Nat)
  PROVE  Grounded(t)' /\ template'[t.version] = template[t.version]
<1>1. t.version \in DOMAIN template /\ NotOverstated(t)
  BY DEF Grounded
<1>2. t.version \in DOMAIN template' /\ template'[t.version] = template[t.version]
  BY <1>1 DEF TemplatesStand
<1>3. NotOverstated(t)'
  <2> SUFFICES ASSUME NEW k \in DOMAIN t.rows, template[t.version][k][1] \in GROWING
      PROVE  t.rows[k] <= Value(template[t.version][k], t.period)'
    BY <1>2 DEF NotOverstated
  <2>1. PICK row : row = template[t.version][k]
    OBVIOUS
  <2>2. t.rows[k] <= Value(row, t.period) /\ t.rows[k] \in Nat
    BY <1>1, <2>1 DEF NotOverstated
  <2>3. /\ Value(row, t.period) \in Nat /\ Value(row, t.period)' \in Nat
        /\ Value(row, t.period) <= Value(row, t.period)'
    BY <2>1 DEF FiguresGrow
  <2>4. row = template'[t.version][k]
    BY <1>2, <2>1
  <2>5. PICK old, new : old = Value(row, t.period) /\ new = Value(row, t.period)'
    OBVIOUS
  <2>6. t.rows[k] <= new
    BY <2>2, <2>3, <2>5
  <2> QED BY <2>4, <2>5, <2>6, <1>2, <2>1
<1> QED BY <1>1, <1>2, <1>3 DEF Grounded, validate_template

LEMMA BookStands ==
  ASSUME UNCHANGED bookVars, NEW row, NEW period
  PROVE  Value(row, period)' = Value(row, period)
BY DEF bookVars, Value, Counted, _cases, Filed

LEMMA CasesAreCounted ==
  ASSUME IsFiniteSet(DOMAIN book), NEW row, NEW period
  PROVE  Value(row, period) \in Nat
<1>1. { c \in _cases(period) : Counted(row[1], row[2], c) } \subseteq DOMAIN book
  BY DEF _cases, Filed
<1> QED BY <1>1, FS_Subset, FS_CardinalityType DEF Value

LEMMA StandingFiguresGrow ==
  ASSUME UNCHANGED bookVars, IsFiniteSet(DOMAIN book)
  PROVE  FiguresGrow
<1> SUFFICES ASSUME NEW row, NEW period
    PROVE  /\ Value(row, period) \in Nat /\ Value(row, period)' \in Nat
           /\ Value(row, period) <= Value(row, period)'
  BY DEF FiguresGrow
<1>1. Value(row, period)' = Value(row, period) /\ Value(row, period) \in Nat
  BY BookStands, CasesAreCounted
<1> QED BY <1>1

(* Casework takes no case out of a figure that only grows. *)
LEMMA CaseworkAdds ==
  ASSUME BookTypes, Casework, IsFiniteSet(DOMAIN book)
  PROVE  FiguresGrow
<1>1. FactsStay /\ IsFiniteSet(DOMAIN book')
  BY CaseworkKeepsRows, CaseworkKeepsTheBookFinite DEF RowsStay, BookTypes
<1>2. ASSUME NEW row, NEW period, row[1] \in GROWING
      PROVE  /\ Value(row, period) \in Nat /\ Value(row, period)' \in Nat
             /\ Value(row, period) <= Value(row, period)'
  <2> DEFINE S == { c \in _cases(period) : Counted(row[1], row[2], c) }
             T == { c \in _cases(period)' : Counted(row[1], row[2], c)' }
  <2>1. S \subseteq T
    <3> SUFFICES ASSUME NEW c \in S PROVE c \in T
      OBVIOUS
    <3>1. c \in DOMAIN book /\ c \in _cases(period) /\ Counted(row[1], row[2], c)
      BY DEF _cases, Filed
    <3>2. c \in _cases(period)'
      BY <1>1, <3>1 DEF FactsStay, _cases, Filed
    <3>3. Counted(row[1], row[2], c)'
      BY <1>1, <1>2, <3>1 DEF FactsStay, Counted, GROWING
    <3> QED BY <3>2, <3>3
  <2>2. S \subseteq DOMAIN book /\ T \subseteq DOMAIN book'
    BY DEF _cases, Filed
  <2>3. Value(row, period) = Cardinality(S) /\ Value(row, period)' = Cardinality(T)
    BY DEF Value
  <2> HIDE DEF S, T
  <2>4. IsFiniteSet(T) /\ IsFiniteSet(S)
    BY <1>1, <2>2, FS_Subset
  <2> QED BY <2>1, <2>3, <2>4, FS_Subset, FS_CardinalityType
<1> QED BY <1>2 DEF FiguresGrow

LEMMA InitReturns == BookInit /\ ReturnsInit => ReturnsInv
<1> SUFFICES ASSUME BookInit, ReturnsInit PROVE ReturnsInv
  OBVIOUS
<1>1. DOMAIN book = {} /\ BookTypes
  BY DEF BookInit, BookTypes
<1>2. template \in Seq(Templates) /\ returns = << >>
  <2>1. PICK rows \in Templates : template = <<rows>>
    BY DEF ReturnsInit
  <2> QED BY <2>1 DEF ReturnsInit
<1> QED BY <1>1, <1>2, FS_EmptySet DEF ReturnsInit, ReturnsInv, ReturnTypes

(* A step that leaves the book, the returns and all drafts but one alone.    *)
LEMMA DraftMoves ==
  ASSUME ReturnsInv, NEW p \in People, NEW t \in {NotCounting} \cup Drafts,
         counting' = [counting EXCEPT ![p] = t], t # NotCounting => Grounded(t),
         UNCHANGED <<bookVars, template>>, returns' \in Seq(ReturnRows),
         \A i \in DOMAIN returns' :
           Grounded(returns'[i]) /\ Len(returns'[i].rows) = Len(template[returns'[i].version])
  PROVE  ReturnsInv'
<1>1. ReturnTypes'
  BY DEF ReturnsInv, ReturnTypes, BookTypes, bookVars
<1>2. ASSUME NEW u, Grounded(u) PROVE Grounded(u)'
  <2>1. \A row, period : Value(row, period)' = Value(row, period)
    BY BookStands
  <2> QED BY <1>2, <2>1 DEF Grounded, NotOverstated, validate_template
<1>3. ASSUME NEW q \in People, counting'[q] # NotCounting PROVE Grounded(counting[q])'
  <2>1. Grounded(counting'[q])
    BY <1>3 DEF ReturnsInv, ReturnTypes
  <2>2. PICK u : u = counting'[q]
    OBVIOUS
  <2>3. Grounded(u)'
    BY <1>2, <2>1, <2>2
  <2> QED BY <2>2, <2>3 DEF Grounded, NotOverstated, validate_template
<1>4. ASSUME NEW i \in DOMAIN returns'
      PROVE Grounded(returns[i])' /\ Len(returns'[i].rows) = Len(template'[returns'[i].version])
  <2>1. PICK u : u = returns'[i]
    OBVIOUS
  <2>2. Grounded(u)'
    BY <1>2, <2>1
  <2> QED BY <2>1, <2>2 DEF Grounded, NotOverstated, validate_template
<1> QED BY <1>1, <1>3, <1>4 DEF ReturnsInv

LEMMA GenerateKeeps ==
  ASSUME ReturnsInv, NEW p \in People, NEW version \in DOMAIN template, NEW period \in Periods,
         generate(p, version, period)
  PROVE  ReturnsInv'
<1> DEFINE t == [at |-> "counting", version |-> version, period |-> period, rows |-> << >>]
<1>1. ReturnTypes /\ template[version] \in Templates /\ version \in Nat
  BY DEF ReturnsInv, ReturnTypes
<1>2. t \in Drafts
  BY <1>1 DEF Drafts
<1>3. Len(template[version]) \in Nat
  BY <1>1, ReturnsAssumption
<1>4. Grounded(t)
  BY <1>3 DEF Grounded, NotOverstated, generate
<1>5. /\ counting' = [counting EXCEPT ![p] = t]
      /\ UNCHANGED <<bookVars, template, returns>>
  BY DEF generate
<1>6. /\ returns' \in Seq(ReturnRows)
      /\ \A i \in DOMAIN returns' :
           Grounded(returns'[i]) /\ Len(returns'[i].rows) = Len(template[returns'[i].version])
  BY <1>5 DEF ReturnsInv, ReturnTypes
<1> HIDE DEF t
<1> QED BY <1>2, <1>4, <1>5, <1>6, DraftMoves

LEMMA CountKeeps ==
  ASSUME ReturnsInv, NEW p \in People, Count(p)
  PROVE  ReturnsInv'
<1> DEFINE draft == counting[p]
           rows == template[draft.version]
           figure == Value(rows[Len(draft.rows) + 1], draft.period)
           longer == Append(draft.rows, figure)
           t == [draft EXCEPT !.rows = longer]
<1>1. ReturnTypes /\ draft # NotCounting /\ draft \in Drafts /\ Grounded(draft)
  BY DEF ReturnsInv, ReturnTypes, Count, NotCounting
<1>2. Len(draft.rows) \in Nat /\ draft.rows \in Seq(Nat) /\ Len(rows) \in Nat
  <2>1. rows \in Templates
    BY <1>1 DEF Grounded, ReturnTypes
  <2> QED BY <1>1, <2>1, ReturnsAssumption DEF Drafts
<1>3. figure \in Nat
  BY <1>1, CasesAreCounted DEF ReturnTypes
<1>4. counting' = [counting EXCEPT ![p] = t] /\ UNCHANGED <<bookVars, template, returns>>
  BY DEF Count
<1>5. /\ longer \in Seq(Nat) /\ Len(longer) = Len(draft.rows) + 1 /\ DOMAIN longer = 1 .. Len(longer)
      /\ DOMAIN draft.rows = 1 .. Len(draft.rows)
      /\ \A k \in 1 .. Len(draft.rows) : longer[k] = draft.rows[k]
      /\ longer[Len(draft.rows) + 1] = figure
  <2> HIDE DEF figure
  <2> QED BY <1>2, <1>3
<1>6. /\ t \in Drafts /\ t.rows = longer /\ t.version = draft.version
      /\ t.period = draft.period
  <2> HIDE DEF longer
  <2> QED BY <1>1, <1>5 DEF Drafts
<1> HIDE DEF t, longer
<1>7. Grounded(t)
  <2>1. Len(longer) <= Len(rows)
    BY <1>2, <1>5 DEF Count
  <2>2. ASSUME NEW k \in DOMAIN longer, rows[k][1] \in GROWING
        PROVE  longer[k] <= Value(rows[k], draft.period)
    <3>1. CASE k = Len(draft.rows) + 1
      BY <1>3, <1>5, <3>1
    <3>2. CASE k # Len(draft.rows) + 1
      <4>1. k \in 1 .. Len(draft.rows)
        <5>1. k \in 1 .. Len(draft.rows) + 1
          BY <1>5, <2>2
        <5> QED BY <1>2, <3>2, <5>1
      <4> QED BY <1>1, <1>5, <2>2, <4>1 DEF Grounded, NotOverstated
    <3> QED BY <3>1, <3>2
  <2>3. t.version \in DOMAIN template /\ validate_template(template[t.version]) = {}
    BY <1>1, <1>6 DEF Grounded
  <2> QED BY <1>6, <2>1, <2>2, <2>3 DEF Grounded, NotOverstated
<1>8. /\ returns' \in Seq(ReturnRows)
      /\ \A i \in DOMAIN returns' :
           Grounded(returns'[i]) /\ Len(returns'[i].rows) = Len(template[returns'[i].version])
  BY <1>4 DEF ReturnsInv, ReturnTypes
<1> QED BY <1>4, <1>6, <1>7, <1>8, DraftMoves

LEMMA CreateKeeps ==
  ASSUME ReturnsInv, NEW p \in People, Create(p)
  PROVE  ReturnsInv'
<1> DEFINE draft == counting[p]
           row == [version |-> draft.version, period |-> draft.period, rows |-> draft.rows,
                   status |-> "draft", generated_by |-> p, generated_at |-> today]
<1>1. ReturnTypes /\ draft # NotCounting /\ draft \in Drafts /\ Grounded(draft)
  BY DEF ReturnsInv, ReturnTypes, Create, NotCounting
<1>2. row \in ReturnRows
  BY <1>1 DEF Drafts, ReturnRows, ReturnTypes, BookTypes
<1>3. Grounded(row) /\ Len(row.rows) = Len(template[row.version])
  BY <1>1 DEF Grounded, NotOverstated, Create
<1>4. /\ returns' = Append(returns, row) /\ counting' = [counting EXCEPT ![p] = NotCounting]
      /\ UNCHANGED <<bookVars, template>>
  BY DEF Create
<1> HIDE DEF row
<1>5. returns \in Seq(ReturnRows)
  BY <1>1 DEF ReturnTypes
<1>6. returns' \in Seq(ReturnRows) /\ DOMAIN returns' = DOMAIN returns \cup {Len(returns) + 1}
      /\ (\A i \in DOMAIN returns : returns'[i] = returns[i]) /\ returns'[Len(returns) + 1] = row
  BY <1>2, <1>4, <1>5
<1>7. ASSUME NEW i \in DOMAIN returns'
      PROVE  Grounded(returns'[i]) /\ Len(returns'[i].rows) = Len(template[returns'[i].version])
  <2>1. CASE i \in DOMAIN returns
    BY <1>6, <2>1 DEF ReturnsInv
  <2>2. CASE i = Len(returns) + 1
    BY <1>3, <1>6, <2>2
  <2> QED BY <1>6, <1>7, <2>1, <2>2
<1> QED BY <1>4, <1>6, <1>7, DraftMoves

LEMMA ApproveKeeps ==
  ASSUME ReturnsInv, NEW p \in People, NEW i \in DOMAIN returns, Approve(i, p)
  PROVE  ReturnsInv'
<1> DEFINE row == [returns[i] EXCEPT !.status = "approved"]
<1>1. returns \in Seq(ReturnRows) /\ returns[i] \in ReturnRows /\ counting[p] \in {NotCounting} \cup Drafts
  BY DEF ReturnsInv, ReturnTypes
<1>2. /\ row \in ReturnRows /\ row.version = returns[i].version /\ row.period = returns[i].period
      /\ row.rows = returns[i].rows
  BY <1>1 DEF ReturnRows
<1>3. returns' = [returns EXCEPT ![i] = row] /\ UNCHANGED <<bookVars, template, counting>>
  BY DEF Approve
<1> HIDE DEF row
<1>4. /\ returns' \in Seq(ReturnRows) /\ DOMAIN returns' = DOMAIN returns /\ returns'[i] = row
      /\ \A j \in DOMAIN returns \ {i} : returns'[j] = returns[j]
  BY <1>1, <1>2, <1>3
<1>5. ASSUME NEW j \in DOMAIN returns'
      PROVE  Grounded(returns'[j]) /\ Len(returns'[j].rows) = Len(template[returns'[j].version])
  <2>1. CASE j = i
    BY <1>2, <1>4, <2>1 DEF ReturnsInv, Grounded, NotOverstated
  <2>2. CASE j # i
    BY <1>4, <1>5, <2>2 DEF ReturnsInv
  <2> QED BY <2>1, <2>2
<1>6. counting' = [counting EXCEPT ![p] = counting[p]]
  BY <1>3 DEF ReturnsInv, ReturnTypes
<1>7. counting[p] # NotCounting => Grounded(counting[p])
  BY DEF ReturnsInv
<1> QED BY <1>1, <1>3, <1>4, <1>5, <1>6, <1>7, DraftMoves

(* A step that leaves the returns and the drafts alone. *)
LEMMA ReturnsStand ==
  ASSUME ReturnsInv, ReturnTypes', TemplatesStand, FiguresGrow, UNCHANGED <<returns, counting>>
  PROVE  ReturnsInv'
<1>1. UNCHANGED <<returns, counting>> /\ template \in Seq(Templates) /\ ReturnTypes
  BY DEF ReturnsInv, ReturnTypes
<1>2. ASSUME NEW i \in DOMAIN returns
      PROVE Grounded(returns[i])' /\ Len(returns'[i].rows) = Len(template'[returns'[i].version])
  <2>1. PICK t : t = returns[i] /\ t = returns'[i]
    BY <1>1
  <2>2. Grounded(t) /\ t.rows \in Seq(Nat) /\ Len(t.rows) = Len(template[t.version])
    <3>1. returns[i] \in ReturnRows
      BY <1>1 DEF ReturnTypes
    <3>2. returns[i].rows \in Seq(Nat)
      BY <3>1 DEF ReturnRows
    <3> QED BY <2>1, <3>2 DEF ReturnsInv
  <2>3. Grounded(t)' /\ template'[t.version] = template[t.version]
    BY <1>1, <2>2, GroundedStays
  <2> QED BY <2>1, <2>2, <2>3 DEF Grounded, NotOverstated, validate_template
<1>3. ASSUME NEW p \in People, counting'[p] # NotCounting PROVE Grounded(counting[p])'
  <2>1. PICK t : t = counting[p] /\ t = counting'[p]
    BY <1>1
  <2>2. Grounded(t) /\ t.rows \in Seq(Nat)
    BY <1>1, <1>3, <2>1 DEF ReturnsInv, ReturnTypes, Drafts
  <2>3. Grounded(t)'
    BY <1>1, <2>2, GroundedStays
  <2> QED BY <2>1, <2>3 DEF Grounded, NotOverstated, validate_template
<1> QED BY <1>1, <1>2, <1>3 DEF ReturnsInv

LEMMA TemplatesGrow ==
  ASSUME ReturnsInv, template' \in Seq(Templates), TemplatesStand,
         UNCHANGED <<bookVars, returns, counting>>
  PROVE  ReturnsInv'
<1>1. ReturnTypes'
  BY DEF ReturnsInv, ReturnTypes, BookTypes, bookVars
<1>2. FiguresGrow
  BY StandingFiguresGrow DEF ReturnsInv, ReturnTypes
<1> QED BY <1>1, <1>2, ReturnsStand

LEMMA ReviseKeeps ==
  ASSUME ReturnsInv, NEW rows \in Templates, Revise(rows)
  PROVE  ReturnsInv'
<1>1. /\ template' = Append(template, rows) /\ UNCHANGED <<bookVars, returns, counting>>
      /\ template \in Seq(Templates)
  BY DEF Revise, ReturnsInv, ReturnTypes
<1>2. template' \in Seq(Templates) /\ TemplatesStand
  BY <1>1 DEF TemplatesStand
<1> QED BY <1>1, <1>2, TemplatesGrow

(* Casework: a case is filed or a row changes, the templates stand. *)
LEMMA CaseworkKeepsReturns ==
  ASSUME ReturnsInv, Casework, UNCHANGED <<template, returns, counting>>
  PROVE  ReturnsInv'
<1>1. ReturnTypes /\ TemplatesStand /\ FiguresGrow
  BY CaseworkAdds DEF ReturnsInv, ReturnTypes, TemplatesStand
<1>2. ReturnTypes'
  BY <1>1, CaseworkKeepsRows, CaseworkKeepsTheBookFinite DEF ReturnTypes, BookTypes, RowsStay
<1> QED BY <1>1, <1>2, ReturnsStand

LEMMA NextReturns == ReturnsInv /\ [ReturnsNext]_returnsVars => ReturnsInv'
<1> SUFFICES ASSUME ReturnsInv, [ReturnsNext]_returnsVars PROVE ReturnsInv'
  OBVIOUS
<1>1. CASE UNCHANGED returnsVars
  <2>1. UNCHANGED <<bookVars, template, returns, counting>>
    BY <1>1 DEF returnsVars
  <2>2. template' \in Seq(Templates) /\ TemplatesStand
    BY <2>1 DEF ReturnsInv, ReturnTypes, TemplatesStand
  <2> QED BY <2>1, <2>2, TemplatesGrow
<1>2. CASE Casework /\ UNCHANGED <<template, returns, counting>>
  BY <1>2, CaseworkKeepsReturns
<1>3. ASSUME NEW rows \in Templates, Revise(rows) PROVE ReturnsInv'
  BY <1>3, ReviseKeeps
<1>4. ASSUME NEW p \in People, NEW version \in DOMAIN template, NEW period \in Periods,
             generate(p, version, period)
      PROVE  ReturnsInv'
  BY <1>4, GenerateKeeps
<1>5. ASSUME NEW p \in People, Count(p) PROVE ReturnsInv'
  BY <1>5, CountKeeps
<1>6. ASSUME NEW p \in People, Create(p) PROVE ReturnsInv'
  BY <1>6, CreateKeeps
<1>7. ASSUME NEW p \in People, NEW i \in DOMAIN returns, Approve(i, p) PROVE ReturnsInv'
  BY <1>7, ApproveKeeps
<1> QED BY <1>1, <1>2, <1>3, <1>4, <1>5, <1>6, <1>7 DEF ReturnsNext

(* Of the figures casework can only add to, no return ever shows more than   *)
(* its regeneration, under the version it was filed with, however many       *)
(* people count and revise while casework goes on: generate() and            *)
(* regenerate() in reports/returns.py.                                       *)
THEOREM NoReturnOverstates == ReturnsSpec => []NothingFiledWasOverstated
<1>1. ReturnsInv => NothingFiledWasOverstated
  <2> SUFFICES ASSUME ReturnsInv, NEW i \in DOMAIN returns
      PROVE  /\ DOMAIN regenerate(i) = DOMAIN returns[i].rows
             /\ \A k \in DOMAIN regenerate(i) :
                  template[returns[i].version][k][1] \in GROWING =>
                    returns[i].rows[k] <= regenerate(i)[k]
    BY DEF NothingFiledWasOverstated
  <2> DEFINE t == returns[i]  rows == template[t.version]
  <2>1. t \in ReturnRows /\ rows \in Templates
    BY DEF ReturnsInv, ReturnTypes, Grounded
  <2>2. /\ DOMAIN rows = 1 .. Len(rows) /\ t.rows \in Seq(Nat) /\ Len(t.rows) = Len(rows)
        /\ DOMAIN t.rows = 1 .. Len(t.rows)
    BY <2>1, ReturnsAssumption DEF ReturnRows, ReturnsInv
  <2>3. \A k \in DOMAIN rows : rows[k][1] \in GROWING => t.rows[k] <= Value(rows[k], t.period)
    BY <2>2 DEF ReturnsInv, Grounded, NotOverstated
  <2> QED BY <2>2, <2>3 DEF regenerate
<1> QED BY <1>1, InitReturns, NextReturns, PTL DEF ReturnsSpec

-----------------------------------------------------------------------------
(* QualityReviews.                                                          *)

QualityTypes ==
  /\ BookTypes
  /\ DOMAIN run = Supervisors /\ DOMAIN due = Supervisors
  /\ \A s \in Supervisors :
       /\ run[s].at \in {"idle", "forced"}
       /\ run[s].at = "forced" =>
            {"at", "period_from", "period_to", "forced", "criteria"} \subseteq DOMAIN run[s]

(* What is left to read of the criteria: a case that met one of the others   *)
(* than "reopened" goes on meeting it.                                       *)
StillToRead(s, c) ==
  \/ run[s].criteria = FORCED_CRITERIA
  \/ \E k \in DOMAIN run[s].criteria :
       run[s].criteria[k] # "reopened" /\ Meets(c, run[s].criteria[k])

CriteriaInOrder(s) ==
  run[s].criteria \in
    { FORCED_CRITERIA, <<"escalated", "breached", "high_value">>,
      <<"breached", "high_value">>, <<"high_value">>, << >> }

(* A case that is due is reviewed, or read already, or will be.              *)
DueIsKept(s) ==
  \A c \in due[s] :
    c \in DOMAIN reviews \/ c \in run[s].forced \/ (c \in Owed(s) /\ StillToRead(s, c))

QualityInv ==
  /\ QualityTypes
  /\ \A s \in Supervisors : run[s].at = "forced" => CriteriaInOrder(s) /\ DueIsKept(s)

LEMMA InitQuality == BookInit /\ QualityInit => QualityInv
BY DEF BookInit, QualityInit, QualityInv, QualityTypes, BookTypes, NoRun

LEMMA OwedIsForced ==
  ASSUME NEW s \in Supervisors, NEW c \in Owed(s)
  PROVE  c \in DOMAIN book /\ run[s].at # "idle" /\ Forced(c)
BY DEF Owed, eligible, Filed

LEMMA CaseworkKeepsQuality ==
  ASSUME QualityInv, QualityCasework
  PROVE  QualityInv'
<1>1. QualityTypes /\ CriteriaStay /\ QualityTypes'
  BY CaseworkKeepsRows DEF QualityInv, QualityCasework, QualityTypes, BookTypes, RowsStay
<1>2. UNCHANGED <<reviews, run>> /\ due' = [s \in Supervisors |-> due[s] \cap Owed(s)']
  BY DEF QualityCasework
<1>3. ASSUME NEW s \in Supervisors, run'[s].at = "forced"
      PROVE  CriteriaInOrder(s)' /\ DueIsKept(s)'
  <2>1. run[s].at = "forced" /\ CriteriaInOrder(s) /\ DueIsKept(s)
    BY <1>2, <1>3 DEF QualityInv
  <2>2. CriteriaInOrder(s)'
    BY <1>2, <2>1 DEF CriteriaInOrder
  <2>3. ASSUME NEW c \in due'[s], c \notin DOMAIN reviews', c \notin run'[s].forced
        PROVE  c \in Owed(s)' /\ StillToRead(s, c)'
    <3>1. c \in due[s] /\ c \in Owed(s)'
      BY <1>2, <2>3
    <3>2. c \in Owed(s) /\ StillToRead(s, c)
      BY <1>2, <2>1, <2>3, <3>1 DEF DueIsKept
    <3>3. c \in DOMAIN book
      BY <3>2, OwedIsForced
    <3>4. CASE run[s].criteria = FORCED_CRITERIA
      BY <1>2, <3>1, <3>4 DEF StillToRead
    <3>5. ASSUME NEW k \in DOMAIN run[s].criteria,
                 run[s].criteria[k] # "reopened", Meets(c, run[s].criteria[k])
          PROVE  StillToRead(s, c)'
      <4>1. PICK criterion : criterion = run[s].criteria[k]
        OBVIOUS
      <4>2. criterion \in {"escalated", "breached", "high_value"}
        BY <2>1, <3>5, <4>1 DEF CriteriaInOrder, FORCED_CRITERIA
      <4>3. Meets(c, criterion)'
        BY <1>1, <3>3, <3>5, <4>1, <4>2 DEF CriteriaStay
      <4>4. k \in DOMAIN run'[s].criteria /\ run'[s].criteria[k] = criterion
        BY <1>2, <4>1
      <4>5. Meets(c, run[s].criteria[k])'
        BY <4>3, <4>4 DEF Meets
      <4> QED BY <3>5, <4>1, <4>4, <4>5 DEF StillToRead
    <3> QED BY <3>1, <3>2, <3>4, <3>5 DEF StillToRead
  <2> QED BY <2>2, <2>3 DEF DueIsKept
<1> QED BY <1>1, <1>3 DEF QualityInv

(* A supervisor's step leaves the rows alone; the run of another keeps what  *)
(* is due while reviews are only added.                                      *)
LEMMA OthersKeepTheirDue ==
  ASSUME QualityInv, NEW s \in Supervisors, UNCHANGED bookVars, run'[s] = run[s], due'[s] = due[s],
         DOMAIN reviews \subseteq DOMAIN reviews', run[s].at = "forced"
  PROVE  CriteriaInOrder(s)' /\ DueIsKept(s)'
<1>1. CriteriaInOrder(s) /\ DueIsKept(s) /\ UNCHANGED <<today, book>>
  BY DEF QualityInv, bookVars
<1>2. CriteriaInOrder(s)'
  BY <1>1 DEF CriteriaInOrder
<1>3. \A c \in DOMAIN book : \A criterion : Meets(c, criterion)' <=> Meets(c, criterion)
  BY <1>1 DEF Meets
<1>4. ASSUME NEW c \in due'[s], c \notin DOMAIN reviews', c \notin run'[s].forced
      PROVE  c \in Owed(s)' /\ StillToRead(s, c)'
  <2>1. c \in Owed(s) /\ StillToRead(s, c) /\ c \notin DOMAIN reviews
    BY <1>1, <1>4 DEF DueIsKept
  <2>2. c \in Owed(s)'
    BY <1>1, <1>4, <2>1 DEF Owed, eligible, Filed, Forced, Meets
  <2>3. StillToRead(s, c)'
    BY <1>1, <2>1 DEF StillToRead, Meets
  <2> QED BY <2>2, <2>3
<1> QED BY <1>2, <1>4 DEF DueIsKept

LEMMA ReadPoolKeeps ==
  ASSUME QualityInv, NEW s \in Supervisors, NEW from, NEW to, NEW percent,
         ReadPool(s, from, to, percent)
  PROVE  QualityInv'
<1>1. /\ QualityTypes /\ UNCHANGED <<today, book, reviews>> /\ run[s].at = "idle"
      /\ \A u \in Supervisors \ {s} : run'[u] = run[u] /\ due'[u] = due[u]
  BY DEF QualityInv, QualityTypes, BookTypes, ReadPool, bookVars
<1>2. /\ run'[s].at = "forced" /\ run'[s].criteria = FORCED_CRITERIA
      /\ run'[s].period_from = from /\ run'[s].period_to = to
      /\ due'[s] = { c \in eligible(from, to) : Forced(c) }
  BY <1>1 DEF ReadPool, QualityTypes, BookTypes
<1>3. QualityTypes'
  BY <1>1, <1>2 DEF QualityTypes, BookTypes, ReadPool
<1>4. CriteriaInOrder(s)'
  BY <1>2 DEF CriteriaInOrder
<1>5. ASSUME NEW c \in due'[s] PROVE c \in Owed(s)' /\ StillToRead(s, c)'
  <2>1. Owed(s)' = due'[s]
    BY <1>1, <1>2 DEF Owed, eligible, Filed, Forced, Meets
  <2> QED BY <1>2, <1>5, <2>1 DEF StillToRead
<1>6. ASSUME NEW u \in Supervisors \ {s}, run'[u].at = "forced"
      PROVE  CriteriaInOrder(u)' /\ DueIsKept(u)'
  BY <1>1, <1>6, OthersKeepTheirDue DEF bookVars
<1> QED BY <1>3, <1>4, <1>5, <1>6 DEF QualityInv, DueIsKept

LEMMA TailsOfCriteria ==
  /\ Tail(FORCED_CRITERIA) = <<"escalated", "breached", "high_value">>
  /\ Tail(<<"escalated", "breached", "high_value">>) = <<"breached", "high_value">>
  /\ Tail(<<"breached", "high_value">>) = <<"high_value">>
  /\ Tail(<<"high_value">>) = << >>
<1>1. ASSUME NEW a, NEW b, NEW c, NEW d
      PROVE  Tail(<<a, b, c, d>>) = <<b, c, d>> /\ Tail(<<b, c, d>>) = <<c, d>>
             /\ Tail(<<c, d>>) = <<d>> /\ Tail(<<d>>) = << >>
  OBVIOUS
<1> QED BY <1>1 DEF FORCED_CRITERIA

LEMMA ReadForcedKeeps ==
  ASSUME QualityInv, NEW s \in Supervisors, ReadForced(s)
  PROVE  QualityInv'
<1>1. /\ QualityTypes /\ UNCHANGED <<today, book, reviews, due>> /\ run[s].at = "forced"
      /\ CriteriaInOrder(s) /\ DueIsKept(s) /\ run[s].criteria # << >>
      /\ \A u \in Supervisors \ {s} : run'[u] = run[u]
  BY DEF QualityInv, QualityTypes, BookTypes, ReadForced, bookVars
<1> DEFINE read == { c \in eligible(run[s].period_from, run[s].period_to) :
                       Meets(c, Head(run[s].criteria)) }
<1>2. /\ run'[s].at = "forced" /\ run'[s].forced = run[s].forced \cup read
      /\ run'[s].criteria = Tail(run[s].criteria)
      /\ run'[s].period_from = run[s].period_from /\ run'[s].period_to = run[s].period_to
      /\ DOMAIN run'[s] = DOMAIN run[s]
  <2>1. {"at", "period_from", "period_to", "forced", "criteria"} \subseteq DOMAIN run[s]
    BY <1>1 DEF QualityTypes, BookTypes
  <2> DEFINE forced == run[s].forced \cup read  left == Tail(run[s].criteria)
  <2>2. run'[s] = [run[s] EXCEPT !.forced = forced, !.criteria = left]
    BY <1>1 DEF ReadForced, QualityTypes, BookTypes
  <2> HIDE DEF forced, left
  <2>3. /\ run'[s].at = run[s].at /\ run'[s].forced = forced /\ run'[s].criteria = left
        /\ run'[s].period_from = run[s].period_from
        /\ run'[s].period_to = run[s].period_to
        /\ DOMAIN run'[s] = DOMAIN run[s]
    BY <2>1, <2>2
  <2> QED BY <1>1, <2>3 DEF forced, left
<1>3. QualityTypes'
  BY <1>1, <1>2 DEF QualityTypes, BookTypes, ReadForced
<1>4. CriteriaInOrder(s)'
  <2>1. Tail(run[s].criteria) \in
          { <<"escalated", "breached", "high_value">>, <<"breached", "high_value">>,
            <<"high_value">>, << >> }
    BY <1>1, TailsOfCriteria DEF CriteriaInOrder
  <2> QED BY <1>2, <2>1 DEF CriteriaInOrder
<1>5. ASSUME NEW c \in due'[s], c \notin DOMAIN reviews', c \notin run'[s].forced
      PROVE  c \in Owed(s)' /\ StillToRead(s, c)'
  <2>1. c \in Owed(s) /\ StillToRead(s, c)
    BY <1>1, <1>2, <1>5 DEF DueIsKept
  <2>2. c \in Owed(s)'
    BY <1>1, <1>2, <2>1 DEF Owed, eligible, Filed, Forced, Meets
  <2>3. ~Meets(c, Head(run[s].criteria)) /\ Forced(c)
    BY <1>1, <1>2, <1>5, <2>1 DEF Owed
  <2>4. ASSUME NEW criterion \in {"escalated", "breached", "high_value"}, Meets(c, criterion),
               NEW k \in DOMAIN run'[s].criteria, run'[s].criteria[k] = criterion
        PROVE  StillToRead(s, c)'
    <3>1. Meets(c, criterion)'
      BY <1>1, <2>4 DEF Meets
    <3>2. Meets(c, run[s].criteria[k])'
      BY <2>4, <3>1 DEF Meets
    <3> QED BY <2>4, <3>2 DEF StillToRead
  <2>5. CASE run[s].criteria = FORCED_CRITERIA
    <3>1. PICK k \in DOMAIN FORCED_CRITERIA : Meets(c, FORCED_CRITERIA[k])
      BY <2>3 DEF Forced
    <3>2. k \in {2, 3, 4}
      BY <2>3, <2>5, <3>1 DEF FORCED_CRITERIA
    <3>3. run'[s].criteria = <<"escalated", "breached", "high_value">>
      BY <1>2, <2>5, TailsOfCriteria
    <3>4. k - 1 \in DOMAIN run'[s].criteria /\ run'[s].criteria[k - 1] = FORCED_CRITERIA[k]
      BY <3>2, <3>3 DEF FORCED_CRITERIA
    <3>5. PICK criterion \in {"escalated", "breached", "high_value"} : criterion = FORCED_CRITERIA[k]
      BY <3>2 DEF FORCED_CRITERIA
    <3>6. Meets(c, criterion)
      BY <3>1, <3>5
    <3>7. PICK j \in DOMAIN run'[s].criteria : run'[s].criteria[j] = criterion
      BY <3>4, <3>5
    <3> QED BY <2>2, <2>4, <3>6, <3>7
  <2>6. ASSUME NEW k \in DOMAIN run[s].criteria,
               run[s].criteria[k] # "reopened", Meets(c, run[s].criteria[k])
        PROVE  StillToRead(s, c)'
    <3>1. run[s].criteria \in
            { FORCED_CRITERIA, <<"escalated", "breached", "high_value">>,
              <<"breached", "high_value">>, <<"high_value">> }
      BY <1>1 DEF CriteriaInOrder
    <3>2. k # 1
      BY <2>3, <2>6, <3>1 DEF FORCED_CRITERIA
    <3>3. /\ k - 1 \in DOMAIN Tail(run[s].criteria)
          /\ Tail(run[s].criteria)[k - 1] = run[s].criteria[k]
          /\ run[s].criteria[k] \in {"escalated", "breached", "high_value"}
      <4>1. CASE run[s].criteria = FORCED_CRITERIA
        BY <2>6, <3>2, <4>1, TailsOfCriteria DEF FORCED_CRITERIA
      <4>2. CASE run[s].criteria = <<"escalated", "breached", "high_value">>
        BY <2>6, <3>2, <4>2, TailsOfCriteria
      <4>3. CASE run[s].criteria = <<"breached", "high_value">>
        BY <2>6, <3>2, <4>3, TailsOfCriteria
      <4>4. CASE run[s].criteria = <<"high_value">>
        BY <2>6, <3>2, <4>4
      <4> QED BY <3>1, <4>1, <4>2, <4>3, <4>4
    <3>4. PICK criterion : criterion = run[s].criteria[k]
      OBVIOUS
    <3> QED BY <1>2, <2>4, <2>6, <3>3, <3>4
  <2> QED BY <2>1, <2>2, <2>5, <2>6 DEF StillToRead
<1>6. ASSUME NEW u \in Supervisors \ {s}, run'[u].at = "forced"
      PROVE  CriteriaInOrder(u)' /\ DueIsKept(u)'
  BY <1>1, <1>6, OthersKeepTheirDue DEF bookVars
<1> QED BY <1>3, <1>4, <1>5, <1>6 DEF QualityInv, DueIsKept

(* What a run opens reviews of holds every forced case.                      *)
LEMMA OpenReviewsOpensTheForced ==
  ASSUME QualityInv, NEW s \in Supervisors, OpenReviews(s)
  PROVE  /\ DOMAIN reviews \subseteq DOMAIN reviews'
         /\ due[s] \subseteq DOMAIN reviews'
<1>1. DueIsKept(s) /\ run[s].criteria = << >> /\ run[s].at = "forced"
  BY DEF QualityInv, OpenReviews
<1>2. PICK chosen \in Selections(run[s]) :
        LET new == (chosen.forced \cup chosen.sampled) \ DOMAIN reviews
        IN  reviews' = [c \in DOMAIN reviews \cup new |->
             IF c \notin new THEN reviews[c]
             ELSE IF c \in chosen.forced THEN "forced" ELSE "sampled"]
  BY DEF OpenReviews
<1>3. chosen.forced = run[s].forced
  BY DEF Selections
<1>4. DOMAIN reviews' = DOMAIN reviews \cup chosen.forced \cup chosen.sampled
  BY <1>2
<1>5. \A c \in due[s] : c \in DOMAIN reviews \/ c \in run[s].forced
  BY <1>1 DEF DueIsKept, StillToRead, FORCED_CRITERIA
<1> QED BY <1>3, <1>4, <1>5

LEMMA OpenReviewsKeeps ==
  ASSUME QualityInv, NEW s \in Supervisors, OpenReviews(s)
  PROVE  QualityInv'
<1>1. /\ QualityTypes /\ UNCHANGED <<today, book>> /\ run'[s] = NoRun
      /\ DOMAIN reviews \subseteq DOMAIN reviews'
      /\ \A u \in Supervisors \ {s} : run'[u] = run[u] /\ due'[u] = due[u]
  BY OpenReviewsOpensTheForced DEF QualityInv, QualityTypes, BookTypes, OpenReviews, bookVars
<1>2. QualityTypes'
  BY <1>1 DEF QualityTypes, BookTypes, OpenReviews, NoRun
<1>3. ASSUME NEW u \in Supervisors, run'[u].at = "forced"
      PROVE  CriteriaInOrder(u)' /\ DueIsKept(u)'
  <2>1. u # s
    BY <1>1, <1>3 DEF NoRun
  <2> QED BY <1>1, <1>3, <2>1, OthersKeepTheirDue DEF bookVars
<1> QED BY <1>2, <1>3 DEF QualityInv

LEMMA NextQuality == QualityInv /\ [QualityNext]_qualityVars => QualityInv'
<1> SUFFICES ASSUME QualityInv, [QualityNext]_qualityVars PROVE QualityInv'
  OBVIOUS
<1>1. CASE UNCHANGED qualityVars
  <2>1. UNCHANGED <<today, book, bookVars, reviews, run, due>>
    BY <1>1 DEF qualityVars, bookVars
  <2>2. QualityTypes'
    BY <2>1 DEF QualityInv, QualityTypes, BookTypes
  <2>3. ASSUME NEW s \in Supervisors, run'[s].at = "forced"
        PROVE  CriteriaInOrder(s)' /\ DueIsKept(s)'
    BY <2>1, <2>3, OthersKeepTheirDue
  <2> QED BY <2>2, <2>3 DEF QualityInv
<1>2. CASE QualityCasework
  BY <1>2, CaseworkKeepsQuality
<1>3. ASSUME NEW s \in Supervisors, NEW period \in Periods, NEW percent \in Percents,
             ReadPool(s, period[1], period[2], percent)
      PROVE  QualityInv'
  BY <1>3, ReadPoolKeeps
<1>4. ASSUME NEW s \in Supervisors, ReadForced(s) PROVE QualityInv'
  BY <1>4, ReadForcedKeeps
<1>5. ASSUME NEW s \in Supervisors, OpenReviews(s) PROVE QualityInv'
  BY <1>5, OpenReviewsKeeps
<1> QED BY <1>1, <1>2, <1>3, <1>4, <1>5 DEF QualityNext

(* No run ends without a review of every case that met a forced criterion    *)
(* for as long as it lasted, whatever the sample and whatever happened       *)
(* between its queries: select() and open_reviews() in quality/sampling.py.  *)
(* Of the criteria only "reopened" can be lost, and it is read first.        *)
THEOREM ForcedCasesAreAlwaysReviewed == QualitySpec => EveryForcedCaseIsReviewed
<1> DEFINE Reviewed ==
      \A s \in Supervisors :
        (run[s].at = "forced" /\ run'[s].at = "idle") => due[s] \subseteq DOMAIN reviews'
<1>1. QualityInv /\ [QualityNext]_qualityVars => [Reviewed]_qualityVars
  <2> SUFFICES ASSUME QualityInv, QualityNext, NEW s \in Supervisors,
                      run[s].at = "forced", run'[s].at = "idle"
      PROVE  due[s] \subseteq DOMAIN reviews'
    OBVIOUS
  <2>1. CASE QualityCasework
    BY <2>1 DEF QualityCasework
  <2>2. ASSUME NEW u \in Supervisors, NEW from, NEW to, NEW percent, ReadPool(u, from, to, percent)
        PROVE  run'[s].at # "idle"
    BY <2>2 DEF ReadPool, QualityInv, QualityTypes, BookTypes
  <2>3. ASSUME NEW u \in Supervisors, ReadForced(u) PROVE run'[s].at # "idle"
    <3>1. CASE s = u
      <4>1. "at" \in DOMAIN run[s]
        BY DEF QualityInv, QualityTypes, BookTypes
      <4> QED BY <2>3, <3>1, <4>1 DEF ReadForced, QualityInv, QualityTypes, BookTypes
    <3>2. CASE s # u
      BY <2>3, <3>2 DEF ReadForced, QualityInv, QualityTypes, BookTypes
    <3> QED BY <3>1, <3>2
  <2>4. ASSUME NEW u \in Supervisors, OpenReviews(u) PROVE due[s] \subseteq DOMAIN reviews'
    <3>1. s = u
      BY <2>4 DEF OpenReviews, QualityInv, QualityTypes, BookTypes
    <3> QED BY <2>4, <3>1, OpenReviewsOpensTheForced
  <2> QED BY <2>1, <2>2, <2>3, <2>4 DEF QualityNext
<1> QED BY <1>1, InitQuality, NextQuality, PTL DEF QualitySpec, EveryForcedCaseIsReviewed

-----------------------------------------------------------------------------
(* Exposure.                                                                *)

(* A day's age lies in exactly one band, that of what has not come yet in none. *)
InBand(age, i) == AGE_BANDS[i][1] <= age /\ (AGE_BANDS[i][2] # 0 => age < AGE_BANDS[i][2])

LEMMA BandsAreNumbers ==
  /\ Len(AGE_BANDS) \in Nat /\ Len(AGE_BANDS) # 0 /\ DOMAIN AGE_BANDS = 1 .. Len(AGE_BANDS)
  /\ \A i \in DOMAIN AGE_BANDS : AGE_BANDS[i][1] \in Nat /\ AGE_BANDS[i][2] \in Nat
BY ExposureAssumption

LEMMA EveryAgeHasABand ==
  ASSUME NEW age \in Nat
  PROVE  \E i \in DOMAIN AGE_BANDS : InBand(age, i)
<1> DEFINE last == Len(AGE_BANDS)
           N == { i \in 1 .. last : AGE_BANDS[i][2] # 0 => age < AGE_BANDS[i][2] }
<1>1. last \in N
  BY BandsAreNumbers, ExposureAssumption
<1>2. PICK i \in N : \A k \in N : i <= k
  <2>1. N \in SUBSET Nat /\ N # {}
    BY <1>1, BandsAreNumbers
  <2> HIDE DEF N
  <2> QED BY <2>1, LeastNumber
<1>3. CASE i = 1
  <2>1. AGE_BANDS[i][1] = 0 /\ (AGE_BANDS[i][2] # 0 => age < AGE_BANDS[i][2])
    BY <1>2, <1>3, ExposureAssumption
  <2>2. i \in DOMAIN AGE_BANDS
    BY <1>2, BandsAreNumbers
  <2> QED BY <2>1, <2>2 DEF InBand
<1>4. CASE i # 1
  <2>1. i - 1 \in 1 .. last - 1 /\ i - 1 \in 1 .. last /\ ~(i <= i - 1) /\ (i - 1) + 1 = i
    BY <1>2, <1>4, BandsAreNumbers
  <2>2. i - 1 \notin N
    BY <1>2, <2>1
  <2>3. ~(age < AGE_BANDS[i - 1][2])
    BY <2>1, <2>2
  <2>4. AGE_BANDS[i - 1][2] = AGE_BANDS[i][1] /\ AGE_BANDS[i - 1][2] \in Nat
    BY <2>1, BandsAreNumbers, ExposureAssumption
  <2> QED BY <1>2, <2>3, <2>4, BandsAreNumbers DEF InBand
<1> QED BY <1>3, <1>4

LEMMA BandsFollow ==
  ASSUME NEW i \in DOMAIN AGE_BANDS, NEW j \in DOMAIN AGE_BANDS, i < j
  PROVE  AGE_BANDS[i][2] # 0 /\ AGE_BANDS[i][2] <= AGE_BANDS[j][1]
<1> DEFINE last == Len(AGE_BANDS)
           N == { k \in Nat : i + 1 + k <= last => AGE_BANDS[i][2] <= AGE_BANDS[i + 1 + k][1] }
<1>1. i \in 1 .. last - 1 /\ last \in Nat
  BY BandsAreNumbers
<1>2. AGE_BANDS[i][2] # 0 /\ AGE_BANDS[i][2] = AGE_BANDS[i + 1][1]
  <2>1. AGE_BANDS[i][1] < AGE_BANDS[i][2] /\ AGE_BANDS[i][2] = AGE_BANDS[i + 1][1]
    BY <1>1, ExposureAssumption
  <2> QED BY <2>1, BandsAreNumbers
<1>3. 0 \in N
  BY <1>1, <1>2, BandsAreNumbers
<1>4. ASSUME NEW k \in N PROVE k + 1 \in N
  <2>1. k \in Nat /\ (i + 1 + k <= last => AGE_BANDS[i][2] <= AGE_BANDS[i + 1 + k][1])
    OBVIOUS
  <2>2. SUFFICES ASSUME i + 1 + (k + 1) <= last
                 PROVE  AGE_BANDS[i][2] <= AGE_BANDS[i + 1 + (k + 1)][1]
    BY <2>1
  <2> DEFINE m == i + 1 + k
  <2>3. m \in 1 .. last - 1 /\ m + 1 = i + 1 + (k + 1) /\ m + 1 \in 1 .. last /\ m \in 1 .. last
    BY <1>1, <2>1, <2>2
  <2> HIDE DEF m
  <2>4. AGE_BANDS[m][1] < AGE_BANDS[m][2] /\ AGE_BANDS[m][2] = AGE_BANDS[m + 1][1]
    BY <2>3, ExposureAssumption
  <2>5. AGE_BANDS[i][2] <= AGE_BANDS[m][1]
    BY <1>1, <2>1, <2>2 DEF m
  <2>6. AGE_BANDS[i][2] \in Nat /\ AGE_BANDS[m][1] \in Nat /\ AGE_BANDS[m][2] \in Nat
    BY <1>1, <2>3, BandsAreNumbers
  <2>7. AGE_BANDS[i][2] <= AGE_BANDS[m + 1][1]
    BY <2>4, <2>5, <2>6
  <2> QED BY <2>3, <2>7
<1>5. \A k \in Nat : k \in N
  <2> HIDE DEF N
  <2>1. N \in SUBSET Nat
    BY DEF N
  <2> QED BY <1>3, <1>4, <2>1, NumberInduction
<1>6. j - (i + 1) \in Nat /\ i + 1 + (j - (i + 1)) = j /\ j <= last
  BY BandsAreNumbers
<1>7. j - (i + 1) \in N
  BY <1>5, <1>6
<1> QED BY <1>2, <1>6, <1>7

LEMMA NoAgeHasTwoBands ==
  ASSUME NEW age \in Int, NEW i \in DOMAIN AGE_BANDS, NEW j \in DOMAIN AGE_BANDS,
         InBand(age, i), InBand(age, j)
  PROVE  i = j
<1>1. ASSUME NEW k \in DOMAIN AGE_BANDS, NEW l \in DOMAIN AGE_BANDS, k < l, InBand(age, k)
      PROVE  ~InBand(age, l)
  <2>1. AGE_BANDS[k][2] # 0 /\ AGE_BANDS[k][2] <= AGE_BANDS[l][1]
    BY <1>1, BandsFollow
  <2>2. age < AGE_BANDS[k][2] /\ AGE_BANDS[k][2] \in Nat /\ AGE_BANDS[l][1] \in Nat
    BY <1>1, <2>1, BandsAreNumbers DEF InBand
  <2> QED BY <2>1, <2>2 DEF InBand
<1>2. i \in Nat /\ j \in Nat
  BY BandsAreNumbers
<1>3. i < j \/ j < i \/ i = j
  BY <1>2
<1> QED BY <1>1, <1>3

PaymentTypes ==
  /\ IsFiniteSet(Filed)
  /\ IsFiniteSet(DOMAIN settlements)
  /\ \A r \in DOMAIN settlements :
       settlements[r].amount_minor \in Int /\ settlements[r].settled_at \in Int

(* Rows that split cases among them, which are all of `least` and of `most`. *)
Splits(rows, least, most) ==
  /\ IsFiniteSet(DOMAIN rows)
  /\ \A k \in DOMAIN rows : rows[k] \subseteq most
  /\ \A k, l \in DOMAIN rows : k # l => rows[k] \cap rows[l] = {}
  /\ \A c \in least : \E k \in DOMAIN rows : c \in rows[k]

AgeOf(c, now) == now - book[c].submitted_at

(* The bands read so far hold, of the cases of their age, every one that was *)
(* open all along and none that never was.                                   *)
BandsRead(bands, now) ==
  /\ bands \in Seq(SUBSET Filed)
  /\ \A i \in DOMAIN bands :
       /\ \A c \in bands[i] : c \in ever /\ InBand(AgeOf(c, now), i)
       /\ \A c \in steady : InBand(AgeOf(c, now), i) => c \in bands[i]

ViewFields == {"at", "now", "categories", "bands", "decided", "upheld", "open"}

ViewInv ==
  /\ DOMAIN view = ViewFields
  /\ view.at \in {"by_age", "rate", "_open_amount", "shown"}
  /\ view.now \in Int
  /\ steady \subseteq ever /\ ever \subseteq Filed
  /\ view.at # "shown" => steady \subseteq OpenCases /\ OpenCases \subseteq ever
  /\ Splits(view.categories, steady, ever)
  /\ BandsRead(view.bands, view.now)
  /\ IF view.at = "by_age" THEN Len(view.bands) < Len(AGE_BANDS)
     ELSE Len(view.bands) = Len(AGE_BANDS)
  /\ view.decided \in Nat /\ view.upheld \in Nat /\ view.upheld <= view.decided
  /\ view.at = "shown" => steady \subseteq view.open /\ view.open \subseteq ever

ExposureInv == BookTypes /\ PaymentTypes /\ (view.at # "none" => ViewInv)

LEMMA InitExposure == BookInit /\ ExposureInit => ExposureInv
BY FS_EmptySet DEF BookInit, ExposureInit, ExposureInv, BookTypes, PaymentTypes, Filed, NoView

LEMMA OpenCasesAreFiled == OpenCases \subseteq Filed
BY DEF OpenCases

LEMMA ExposureCaseworkKeeps ==
  ASSUME ExposureInv, ExposureCasework
  PROVE  ExposureInv'
<1>1. BookTypes' /\ FactsStay /\ UNCHANGED <<settlements, view>>
  BY CaseworkKeepsRows DEF ExposureInv, ExposureCasework, RowsStay
<1>2. PaymentTypes'
  <2>1. IsFiniteSet(DOMAIN book')
    BY CaseworkKeepsTheBookFinite DEF ExposureInv, ExposureCasework, BookTypes, PaymentTypes, Filed
  <2> QED BY <1>1, <2>1 DEF ExposureInv, PaymentTypes, Filed
<1>3. ASSUME view.at # "none" PROVE ViewInv'
  <2>1. ViewInv
    BY <1>3 DEF ExposureInv
  <2>2. steady' \subseteq steady /\ ever \subseteq ever' /\ steady' \subseteq ever'
    BY <2>1 DEF ExposureCasework, ViewInv
  <2>3. ever' \subseteq Filed'
    <3>1. Filed \subseteq Filed' /\ OpenCases' \subseteq Filed'
      BY <1>1 DEF FactsStay, Filed, OpenCases
    <3> QED BY <2>1, <3>1 DEF ExposureCasework, ViewInv
  <2>4. view.at # "shown" => steady' \subseteq OpenCases' /\ OpenCases' \subseteq ever'
    BY <1>3, <2>1 DEF ExposureCasework, ViewInv, BeingRead
  <2>5. Splits(view.categories, steady', ever')
    BY <2>1, <2>2 DEF ViewInv, Splits
  <2>6. BandsRead(view.bands, view.now)'
    <3>1. \A c \in ever : AgeOf(c, view.now)' = AgeOf(c, view.now)
      BY <1>1, <2>1 DEF ViewInv, AgeOf, FactsStay, Filed
    <3>2. \A c \in ever : \A i : InBand(AgeOf(c, view.now), i)' <=> InBand(AgeOf(c, view.now), i)
      BY <3>1 DEF InBand
    <3>3. BandsRead(view.bands, view.now)
      BY <2>1 DEF ViewInv
    <3>4. view.bands \in Seq(SUBSET Filed')
      <4>1. Filed \subseteq Filed' /\ view.bands \in Seq(SUBSET Filed)
        BY <1>1, <3>3 DEF FactsStay, Filed, BandsRead
      <4> QED BY <4>1
    <3> QED BY <1>1, <2>1, <2>2, <3>2, <3>3, <3>4 DEF BandsRead, ViewInv
  <2>7. Splits(view.categories, steady, ever)'
    BY <1>1, <2>5 DEF Splits
  <2> QED BY <1>1, <2>1, <2>2, <2>3, <2>4, <2>6, <2>7 DEF ViewInv
<1> QED BY <1>1, <1>2, <1>3 DEF ExposureInv

LEMMA SettleKeeps ==
  ASSUME ExposureInv, NEW r \in References, NEW c \in Cases, NEW amount \in Payments,
         Settle(r, c, amount)
  PROVE  ExposureInv'
<1>1. /\ r \notin DOMAIN settlements /\ UNCHANGED <<today, book, view, steady, ever>>
      /\ DOMAIN settlements' = DOMAIN settlements \cup {r}
      /\ settlements'[r] = [dispute |-> c, amount_minor |-> amount, settled_at |-> today]
      /\ \A q \in DOMAIN settlements : settlements'[q] = settlements[q]
  BY DEF Settle, bookVars, viewVars
<1>2. IsFiniteSet(DOMAIN settlements')
  BY <1>1, FS_AddElement DEF ExposureInv, PaymentTypes
<1>3. amount \in Int /\ today \in Int
  BY ExposureAssumption DEF ExposureInv, BookTypes
<1>4. \A q \in DOMAIN settlements' :
        settlements'[q].amount_minor \in Int /\ settlements'[q].settled_at \in Int
  BY <1>1, <1>3 DEF ExposureInv, PaymentTypes
<1>5. BookTypes' /\ PaymentTypes'
  BY <1>1, <1>2, <1>4 DEF ExposureInv, BookTypes, PaymentTypes, Filed
<1>6. ViewInv => ViewInv'
  BY <1>1 DEF ViewInv, Splits, BandsRead, AgeOf, OpenCases, Filed, InBand
<1> QED BY <1>1, <1>5, <1>6 DEF ExposureInv

(* The first query: the open cases by their category. *)
LEMMA UnderDisputeKeeps ==
  ASSUME ExposureInv, UnderDispute, UNCHANGED <<bookVars, settlements>>
  PROVE  ExposureInv'
<1>1. UNCHANGED <<today, book>> /\ BookTypes' /\ PaymentTypes' /\ IsFiniteSet(OpenCases)
  <2>1. IsFiniteSet(OpenCases)
    BY OpenCasesAreFiled, FS_Subset DEF ExposureInv, PaymentTypes
  <2> QED BY <2>1 DEF ExposureInv, BookTypes, PaymentTypes, Filed, bookVars
<1> DEFINE I == { book[c].category : c \in OpenCases }
<1>2. IsFiniteSet(I)
  <2> DEFINE f == [c \in OpenCases |-> book[c].category]
  <2>1. { f[c] : c \in OpenCases } = I
    OBVIOUS
  <2> HIDE DEF f
  <2>2. IsFiniteSet({ f[c] : c \in OpenCases })
    BY <1>1, ImageIsFinite
  <2> QED BY <2>1, <2>2
<1>3. Splits(under_dispute, OpenCases, OpenCases)
  <2>1. DOMAIN under_dispute = I
    BY DEF under_dispute
  <2> QED BY <1>2, <2>1 DEF Splits, under_dispute
<1>4. /\ view' = [at |-> "by_age", now |-> Undated, categories |-> under_dispute, bands |-> <<>>,
                  decided |-> 0, upheld |-> 0, open |-> {}]
      /\ steady' = OpenCases /\ ever' = OpenCases /\ OpenCases' = OpenCases /\ Filed' = Filed
  BY <1>1 DEF UnderDispute, OpenCases, Filed
<1>5. PICK rows : rows = under_dispute
  OBVIOUS
<1>6. /\ DOMAIN view' = ViewFields /\ view'.at = "by_age" /\ view'.now = Undated
      /\ view'.categories = rows /\ view'.bands = <<>> /\ view'.decided = 0 /\ view'.upheld = 0
  <2>1. view' = [at |-> "by_age", now |-> Undated, categories |-> rows, bands |-> <<>>,
                 decided |-> 0, upheld |-> 0, open |-> {}]
    BY <1>4, <1>5
  <2> QED BY <2>1 DEF ViewFields
<1>7. Splits(view.categories, steady, ever)'
  <2>1. Splits(rows, OpenCases, OpenCases)
    BY <1>3, <1>5
  <2> QED BY <1>4, <1>6, <2>1 DEF Splits
<1>8. BandsRead(view.bands, view.now)' /\ Len(view'.bands) < Len(AGE_BANDS)
  BY <1>6, BandsAreNumbers DEF BandsRead
<1>9. Undated \in Int
  BY DEF Undated
<1> QED BY <1>1, <1>4, <1>6, <1>7, <1>8, <1>9, OpenCasesAreFiled DEF ExposureInv, ViewInv

(* The query of a band finds the open cases of its age. *)
LEMMA BandIsOfAnAge ==
  ASSUME BookTypes, NEW i \in DOMAIN AGE_BANDS, NEW now \in Int, NEW c \in OpenCases
  PROVE  c \in Band(i, now) <=> InBand(AgeOf(c, now), i)
<1>1. AGE_BANDS[i][1] \in Int /\ AGE_BANDS[i][2] \in Int
  BY BandsAreNumbers
<1>2. book[c].submitted_at \in Int
  BY DEF BookTypes, CaseRows, OpenCases, Filed
<1> QED BY <1>1, <1>2 DEF Band, InBand, AgeOf

LEMMA ReadBandKeeps ==
  ASSUME ExposureInv, ReadBand, UNCHANGED <<bookVars, settlements>>
  PROVE  ExposureInv'
<1> DEFINE now == IF view.bands # <<>> THEN view.now ELSE today
           i == Len(view.bands) + 1
<1>1. ViewInv /\ view.at = "by_age"
  BY DEF ExposureInv, ReadBand, ReadBandAt
<1>2. UNCHANGED <<today, book, steady, ever>> /\ BookTypes' /\ PaymentTypes'
      /\ OpenCases' = OpenCases /\ Filed' = Filed
  BY DEF ReadBand, ReadBandAt, ExposureInv, BookTypes, PaymentTypes, Filed, OpenCases, bookVars
<1>3. now \in Int /\ (view.bands # <<>> => now = view.now)
  BY <1>1 DEF ViewInv, ExposureInv, BookTypes
<1>4. /\ view' = [view EXCEPT !.at = IF i = Len(AGE_BANDS) THEN "rate" ELSE @,
                              !.now = now, !.bands = Append(@, Band(i, now))]
  BY <1>1 DEF ReadBand, ReadBandAt
<1> HIDE DEF now
<1>5. PICK bands, rows : bands = view.bands /\ rows = Band(i, now)
  OBVIOUS
<1>6. /\ DOMAIN view' = ViewFields
      /\ view'.at = (IF i = Len(AGE_BANDS) THEN "rate" ELSE "by_age")
      /\ view'.now = now /\ view'.categories = view.categories
      /\ view'.bands = Append(bands, rows)
      /\ view'.decided = view.decided /\ view'.upheld = view.upheld
  BY <1>1, <1>4, <1>5 DEF ViewInv, ViewFields
<1>7. /\ BandsRead(bands, view.now) /\ bands \in Seq(SUBSET Filed) /\ Len(bands) \in Nat
      /\ i = Len(bands) + 1 /\ Len(bands) < Len(AGE_BANDS)
  BY <1>1, <1>5 DEF ViewInv, BandsRead
<1> HIDE DEF i
<1>8. BandsRead(bands, now)
  BY <1>3, <1>5, <1>7 DEF BandsRead
<1>9. i \in DOMAIN AGE_BANDS
  BY <1>7, BandsAreNumbers
<1>10. /\ \A c \in rows : c \in ever /\ InBand(AgeOf(c, now), i)
       /\ \A c \in steady : InBand(AgeOf(c, now), i) => c \in rows
       /\ rows \in SUBSET Filed
  <2>1. steady \subseteq OpenCases /\ OpenCases \subseteq ever /\ rows \subseteq OpenCases
    BY <1>1, <1>5 DEF ViewInv, Band
  <2>2. \A c \in OpenCases : c \in rows <=> InBand(AgeOf(c, now), i)
    BY <1>3, <1>5, <1>9, BandIsOfAnAge DEF ExposureInv
  <2> QED BY <2>1, <2>2, OpenCasesAreFiled
<1>11. BandsRead(Append(bands, rows), now)
  <2> DEFINE longer == Append(bands, rows)
  <2>1. /\ longer \in Seq(SUBSET Filed) /\ DOMAIN longer = 1 .. i /\ DOMAIN bands = 1 .. i - 1
        /\ longer[i] = rows /\ \A k \in 1 .. i - 1 : longer[k] = bands[k]
    BY <1>7, <1>10
  <2> HIDE DEF longer
  <2>2. ASSUME NEW k \in DOMAIN longer
        PROVE  /\ \A c \in longer[k] : c \in ever /\ InBand(AgeOf(c, now), k)
               /\ \A c \in steady : InBand(AgeOf(c, now), k) => c \in longer[k]
    <3>1. CASE k = i
      BY <1>10, <2>1, <3>1
    <3>2. CASE k # i
      <4>1. k \in DOMAIN bands /\ longer[k] = bands[k]
        BY <1>7, <2>1, <3>2
      <4> QED BY <1>8, <4>1 DEF BandsRead
    <3> QED BY <3>1, <3>2
  <2> QED BY <2>1, <2>2 DEF BandsRead, longer
<1>12. BandsRead(view.bands, view.now)'
  BY <1>2, <1>6, <1>11 DEF BandsRead, AgeOf, InBand
<1>13. IF view'.at = "by_age" THEN Len(view'.bands) < Len(AGE_BANDS)
       ELSE Len(view'.bands) = Len(AGE_BANDS)
  <2>1. Len(view'.bands) = i
    BY <1>6, <1>7
  <2>2. CASE i = Len(AGE_BANDS)
    BY <1>6, <2>1, <2>2
  <2>3. CASE i # Len(AGE_BANDS)
    <3>1. i < Len(AGE_BANDS)
      <4>1. PICK n, all : n = Len(bands) /\ all = Len(AGE_BANDS)
        OBVIOUS
      <4>2. n \in Nat /\ all \in Nat /\ n < all /\ i = n + 1 /\ i # all
        BY <1>7, <2>3, <4>1, BandsAreNumbers
      <4> QED BY <4>1, <4>2
    <3>2. view'.at = "by_age"
      BY <1>6, <2>3
    <3> QED BY <2>1, <3>1, <3>2
  <2> QED BY <2>2, <2>3
<1>14. Splits(view.categories, steady, ever)'
  BY <1>1, <1>2, <1>6 DEF ViewInv, Splits
<1>15. view'.at \in {"by_age", "rate"} /\ view'.now \in Int
  BY <1>3, <1>6
<1>16. ViewInv'
  BY <1>1, <1>2, <1>6, <1>12, <1>13, <1>14, <1>15 DEF ViewInv
<1> QED BY <1>2, <1>16 DEF ExposureInv

(* The later queries leave what was read as it was. *)
Answered(at, decided, upheld, open) ==
  /\ view.at \in {"rate", "_open_amount"} /\ at \in {"_open_amount", "shown"}
  /\ UNCHANGED <<bookVars, settlements, steady, ever>>
  /\ decided \in Nat /\ upheld \in Nat /\ upheld <= decided
  /\ at = "shown" => steady \subseteq open /\ open \subseteq ever
  /\ view' = [view EXCEPT !.at = at, !.decided = decided, !.upheld = upheld, !.open = open]

LEMMA RestOfTheViewStays ==
  ASSUME ExposureInv, NEW at, NEW decided, NEW upheld, NEW open,
         Answered(at, decided, upheld, open)
  PROVE  ExposureInv'
<1>1. ViewInv
  BY DEF ExposureInv, Answered
<1>2. UNCHANGED <<today, book, steady, ever>> /\ BookTypes' /\ PaymentTypes'
      /\ OpenCases' = OpenCases /\ Filed' = Filed
  BY DEF Answered, ExposureInv, BookTypes, PaymentTypes, Filed, OpenCases, bookVars
<1>3. /\ DOMAIN view' = ViewFields /\ view'.at = at /\ view'.now = view.now
      /\ view'.categories = view.categories /\ view'.bands = view.bands
      /\ view'.decided = decided /\ view'.upheld = upheld /\ view'.open = open
  BY <1>1 DEF Answered, ViewInv, ViewFields
<1>4. Splits(view.categories, steady, ever)' /\ BandsRead(view.bands, view.now)'
  BY <1>1, <1>2, <1>3 DEF ViewInv, Splits, BandsRead, AgeOf, InBand
<1>5. ViewInv'
  BY <1>1, <1>2, <1>3, <1>4 DEF Answered, ViewInv
<1> QED BY <1>2, <1>5 DEF ExposureInv

LEMMA ReadRateKeeps ==
  ASSUME ExposureInv, ReadRate, UNCHANGED <<bookVars, settlements>>
  PROVE  ExposureInv'
<1> DEFINE decided == { c \in Filed : /\ book[c].resolved_at # Undated
                                     /\ book[c].resolved_at >= today - Lookback }
           upheld == { c \in decided : book[c].outcome \in {"upheld", "partial"} }
<1>1. view' = [view EXCEPT !.at = "_open_amount", !.decided = Cardinality(decided),
                          !.upheld = Cardinality(upheld)]
  BY DEF ReadRate
<1>2. IsFiniteSet(decided) /\ upheld \subseteq decided
  BY FS_Subset DEF ExposureInv, PaymentTypes
<1> HIDE DEF decided, upheld
<1>3. PICK d, u, open : d = Cardinality(decided) /\ u = Cardinality(upheld) /\ open = view.open
  OBVIOUS
<1>4. u \in Nat /\ d \in Nat /\ u <= d
  BY <1>2, <1>3, FS_Subset, FS_CardinalityType
<1>5. ViewInv
  BY DEF ExposureInv, ReadRate
<1>6. view' = [view EXCEPT !.at = "_open_amount", !.decided = d, !.upheld = u, !.open = open]
  BY <1>1, <1>3, <1>5 DEF ViewInv, ViewFields
<1>7. Answered("_open_amount", d, u, open)
  BY <1>4, <1>6 DEF Answered, ReadRate
<1> QED BY <1>7, RestOfTheViewStays

LEMMA OpenAmountKeeps ==
  ASSUME ExposureInv, _open_amount, UNCHANGED <<bookVars, settlements>>
  PROVE  ExposureInv'
<1>1. ViewInv /\ view.at = "_open_amount"
  BY DEF ExposureInv, _open_amount
<1>2. PICK open : open = OpenCases
  OBVIOUS
<1>3. PICK d, u : d = view.decided /\ u = view.upheld
  OBVIOUS
<1>4. view' = [view EXCEPT !.at = "shown", !.decided = d, !.upheld = u, !.open = open]
  BY <1>1, <1>2, <1>3 DEF _open_amount, ViewInv, ViewFields
<1>5. d \in Nat /\ u \in Nat /\ u <= d /\ steady \subseteq open /\ open \subseteq ever
  BY <1>1, <1>2, <1>3 DEF ViewInv
<1>6. Answered("shown", d, u, open)
  BY <1>1, <1>4, <1>5 DEF Answered, _open_amount
<1> QED BY <1>6, RestOfTheViewStays

LEMMA NextExposure == ExposureInv /\ [ExposureNext]_exposureVars => ExposureInv'
<1> SUFFICES ASSUME ExposureInv, [ExposureNext]_exposureVars PROVE ExposureInv' OBVIOUS
<1>1. CASE ReadView
  BY <1>1, UnderDisputeKeeps, ReadBandKeeps, ReadRateKeeps, OpenAmountKeeps DEF ReadView
<1>2. CASE UNCHANGED exposureVars
  <2>1. UNCHANGED <<today, book, settlements, view, steady, ever>>
    BY <1>2 DEF exposureVars, bookVars, viewVars
  <2> QED BY <2>1 DEF ExposureInv, PaymentTypes, BookTypes, ViewInv, Splits, BandsRead, AgeOf,
                      InBand, OpenCases, Filed
<1> QED BY <1>1, <1>2, ExposureCaseworkKeeps, SettleKeeps DEF ExposureNext

(* The sums are over cases and payments that are there, of whole amounts.    *)
LEMMA MoneyIsSummable ==
  ASSUME ExposureInv
  PROVE  /\ \A S \in SUBSET Filed :
              /\ IsFiniteSet(S)
              /\ \A c \in S : /\ [x \in Filed |-> book[x].amount][c] \in Nat
                              /\ [x \in Filed |-> book[x].refund][c] \in Int
         /\ \A S \in SUBSET DOMAIN settlements :
              /\ IsFiniteSet(S)
              /\ \A r \in S : [x \in DOMAIN settlements |-> settlements[x].amount_minor][r] \in Int
<1>1. \A c \in Filed : book[c].amount \in Nat /\ book[c].refund \in Int
  BY DEF ExposureInv, BookTypes, CaseRows, Filed
<1>2. \A r \in DOMAIN settlements : settlements[r].amount_minor \in Int
  BY DEF ExposureInv, PaymentTypes
<1>3. \A S : (S \subseteq Filed \/ S \subseteq DOMAIN settlements) => IsFiniteSet(S)
  BY FS_Subset DEF ExposureInv, PaymentTypes
<1> QED BY <1>1, <1>2, <1>3

(* Rows that split cases add up to them. *)
LEMMA RowsAddUp ==
  ASSUME ExposureInv, NEW rows, NEW least, NEW most, most \subseteq Filed,
         Splits(rows, least, most)
  PROVE  AddUp(rows, least, most)
<1> DEFINE amounts == [c \in Filed |-> book[c].amount]
           I == DOMAIN rows
           sums == [k \in DOMAIN rows |-> AmountOf(rows[k])]
           sizes == [k \in DOMAIN rows |-> Cardinality(rows[k])]
           all == UNION { rows[i] : i \in DOMAIN rows }
<1>1. \A k \in I : IsFiniteSet(rows[k]) /\ \A c \in rows[k] : amounts[c] \in Int
  <2> TAKE k \in I
  <2> DEFINE P == rows[k]
  <2>1. P \in SUBSET Filed
    BY DEF Splits
  <2> HIDE DEF P
  <2>2. IsFiniteSet(P) /\ \A c \in P : amounts[c] \in Nat
    BY <2>1, MoneyIsSummable
  <2>3. IsFiniteSet(P) /\ \A c \in P : amounts[c] \in Int
    BY <2>2
  <2> QED BY <2>3 DEF P
<1>2. \A S : AmountOf(S) = SumFunctionOnSet(amounts, S)
  BY DEF AmountOf
<1> HIDE DEF amounts
<1>3. /\ DOMAIN sums = I /\ DOMAIN sizes = I
      /\ \A k \in I : sums[k] = SumFunctionOnSet(amounts, rows[k]) /\ sizes[k] = Cardinality(rows[k])
  BY <1>2
<1> HIDE DEF sums, sizes
<1> HIDE DEF I
<1>4. Parted(amounts, I, rows) /\ IsFiniteSet(I)
  BY <1>1 DEF Parted, Summable, Splits, I
<1>5. Counts(amounts, I, rows, sums, sizes)
  BY <1>3 DEF Counts
<1>6. /\ SumFunctionOnSet(sums, I) = SumFunctionOnSet(amounts, UNION { rows[i] : i \in I })
      /\ SumFunctionOnSet(sizes, I) = Cardinality(UNION { rows[i] : i \in I })
  <2>1. PICK f, J, p, q : f = amounts /\ J = I /\ p = sums /\ q = sizes
    OBVIOUS
  <2>2. Parted(f, J, rows) /\ IsFiniteSet(J) /\ Counts(f, J, rows, p, q)
    BY <1>4, <1>5, <2>1
  <2>3. /\ SumFunctionOnSet(p, J) = SumFunctionOnSet(f, UNION { rows[i] : i \in J })
        /\ SumFunctionOnSet(q, J) = Cardinality(UNION { rows[i] : i \in J })
    BY <2>2, SumOfParts
  <2> QED BY <2>1, <2>3
<1>7. SumFunction(sums) = AmountOf(all) /\ SumFunction(sizes) = Cardinality(all)
  <2>1. /\ SumFunction(sums) = SumFunctionOnSet(sums, I)
        /\ SumFunction(sizes) = SumFunctionOnSet(sizes, I)
    BY <1>3 DEF SumFunction
  <2>2. all = UNION { rows[i] : i \in I }
    BY DEF I
  <2> QED BY <1>2, <1>6, <2>1, <2>2, Zenon
<1>8. least \subseteq all /\ all \subseteq most
  BY DEF Splits
<1> QED BY <1>7, <1>8 DEF AddUp, sums, sizes

(* by_age: all bands read, a case of a known age is in the one of its age.   *)
LEMMA BandsSplitTheAged ==
  ASSUME ExposureInv, ViewInv, Len(view.bands) = Len(AGE_BANDS)
  PROVE  Splits(view.bands, Aged(steady), Aged(ever)) /\ Aged(ever) \subseteq Filed
<1>1. /\ BandsRead(view.bands, view.now) /\ view.now \in Int
      /\ steady \subseteq ever /\ ever \subseteq Filed
  BY DEF ViewInv
<1>2. DOMAIN view.bands = DOMAIN AGE_BANDS /\ IsFiniteSet(DOMAIN view.bands)
  <2>1. PICK bands : bands = view.bands
    OBVIOUS
  <2>2. bands \in Seq(SUBSET Filed) /\ Len(bands) = Len(AGE_BANDS)
    BY <1>1, <2>1 DEF BandsRead
  <2>3. DOMAIN bands = 1 .. Len(bands)
    BY <2>2
  <2>4. DOMAIN bands = DOMAIN AGE_BANDS /\ DOMAIN bands = 1 .. Len(bands)
    BY <2>2, <2>3, BandsAreNumbers
  <2>5. Len(bands) \in Int
    BY <2>2
  <2>6. IsFiniteSet(1 .. Len(bands))
    BY <2>5, FS_Interval
  <2> QED BY <2>1, <2>4, <2>6
<1>3. \A c \in ever : AgeOf(c, view.now) \in Int /\ (c \in Aged(ever) <=> AgeOf(c, view.now) >= 0)
  BY <1>1 DEF AgeOf, Aged, ExposureInv, BookTypes, CaseRows, Filed
<1>4. ASSUME NEW i \in DOMAIN view.bands, NEW c \in view.bands[i]
      PROVE  c \in Aged(ever) /\ InBand(AgeOf(c, view.now), i)
  <2>1. c \in ever /\ InBand(AgeOf(c, view.now), i)
    BY <1>1, <1>4 DEF BandsRead
  <2>2. AGE_BANDS[i][1] \in Nat /\ AGE_BANDS[i][1] <= AgeOf(c, view.now)
    BY <1>2, <1>4, <2>1, BandsAreNumbers DEF InBand
  <2>3. AgeOf(c, view.now) >= 0
    BY <1>3, <2>1, <2>2
  <2> QED BY <1>3, <2>1, <2>3
<1>5. ASSUME NEW i \in DOMAIN view.bands, NEW j \in DOMAIN view.bands, i # j
      PROVE  view.bands[i] \cap view.bands[j] = {}
  <2> SUFFICES ASSUME NEW c \in view.bands[i], c \in view.bands[j] PROVE FALSE
    OBVIOUS
  <2>1. c \in ever /\ InBand(AgeOf(c, view.now), i) /\ InBand(AgeOf(c, view.now), j)
    BY <1>4 DEF Aged
  <2> QED BY <1>2, <1>3, <1>5, <2>1, NoAgeHasTwoBands
<1>6. ASSUME NEW c \in Aged(steady)
      PROVE  \E i \in DOMAIN view.bands : c \in view.bands[i]
  <2>1. c \in steady /\ c \in ever /\ c \in Aged(ever)
    BY <1>1, <1>6 DEF Aged
  <2>2. AgeOf(c, view.now) \in Nat
    BY <1>3, <2>1
  <2>3. PICK i \in DOMAIN AGE_BANDS : InBand(AgeOf(c, view.now), i)
    BY <2>2, EveryAgeHasABand
  <2> QED BY <1>1, <1>2, <2>1, <2>3 DEF BandsRead
<1>7. Aged(ever) \subseteq Filed
  BY <1>1 DEF Aged
<1> QED BY <1>2, <1>4, <1>5, <1>6, <1>7 DEF Splits

(* expected_loss: a part of the decided cases, rounded down. *)
LEMMA PartIsNoMore ==
  ASSUME NEW a \in Nat, NEW u \in Nat, NEW d \in Nat, u <= d, d # 0
  PROVE  (a * u) \div d <= a
<1> DEFINE q == (a * u) \div d
<1>1. a * u \in Nat /\ a * u <= a * d /\ a * d \in Nat
  OBVIOUS
<1>2. q \in Int /\ d * q <= a * u
  OBVIOUS
<1> HIDE DEF q
<1>3. q <= a
  <2>1. SUFFICES ASSUME q > a PROVE FALSE
    BY <1>2
  <2>2. d * (a + 1) <= d * q
    BY <1>2, <2>1
  <2>3. d * (a + 1) = a * d + d
    OBVIOUS
  <2> QED BY <1>1, <1>2, <2>2, <2>3
<1> QED BY <1>3 DEF q

LEMMA LossIsNoMore ==
  ASSUME ExposureInv, ViewInv, view.at = "shown", view.decided # 0
  PROVE  expected_minor <= AmountOf(view.open)
<1>1. AmountOf(view.open) \in Nat
  <2> DEFINE amounts == [c \in Filed |-> book[c].amount]
  <2>1. view.open \in SUBSET Filed
    BY DEF ViewInv
  <2>2. IsFiniteSet(view.open) /\ \A c \in view.open : amounts[c] \in Nat
    BY <2>1, MoneyIsSummable
  <2>3. AmountOf(view.open) = SumFunctionOnSet(amounts, view.open)
    BY DEF AmountOf
  <2> HIDE DEF amounts
  <2> QED BY <2>2, <2>3, SumIsNat
<1>2. view.decided \in Nat /\ view.upheld \in Nat /\ view.upheld <= view.decided
  BY DEF ViewInv
<1> QED BY <1>1, <1>2, PartIsNoMore DEF expected_minor

(* reconcile: of two periods that meet, each promise and payment is in one.  *)
LEMMA PeriodsAddUp ==
  ASSUME ExposureInv, NEW from \in Int, NEW mid \in Int, NEW to \in Int, from <= mid, mid <= to
  PROVE  \A figure \in DOMAIN reconcile(from, to) :
           reconcile(from, mid)[figure] + reconcile(mid, to)[figure] = reconcile(from, to)[figure]
<1> DEFINE refunds == [c \in Filed |-> book[c].refund]
           payments == [r \in DOMAIN settlements |-> settlements[r].amount_minor]
           Paid(a, b) == { r \in DOMAIN settlements :
                             a <= settlements[r].settled_at /\ settlements[r].settled_at < b }
           Open(a, b) == { c \in Promised(a, b) :
                             \A r \in DOMAIN settlements : settlements[r].dispute # c }
<1>1. \A c \in Filed : book[c].resolved_at \in Int
  BY DEF ExposureInv, BookTypes, CaseRows, Filed
<1>2. \A r \in DOMAIN settlements : settlements[r].settled_at \in Int
  BY DEF ExposureInv, PaymentTypes
<1>3. Promised(from, mid) \cup Promised(mid, to) = Promised(from, to)
      /\ Promised(from, mid) \cap Promised(mid, to) = {}
  BY <1>1 DEF Promised
<1>4. Paid(from, mid) \cup Paid(mid, to) = Paid(from, to) /\ Paid(from, mid) \cap Paid(mid, to) = {}
  BY <1>2
<1>5. Open(from, mid) \cup Open(mid, to) = Open(from, to) /\ Open(from, mid) \cap Open(mid, to) = {}
  BY <1>3
<1>6. \A a, b : Promised(a, b) \in SUBSET Filed /\ Open(a, b) \in SUBSET Filed
  BY DEF Promised
<1>7. \A a, b : Paid(a, b) \in SUBSET DOMAIN settlements
  OBVIOUS
<1>8. ASSUME NEW a, NEW b
      PROVE  reconcile(a, b) = [promised_minor |-> SumFunctionOnSet(refunds, Promised(a, b)),
                                settled_minor |-> SumFunctionOnSet(payments, Paid(a, b)),
                                unreconciled_cases |-> Cardinality(Open(a, b))]
  BY DEF reconcile
<1>9. \A a, b : IsFiniteSet(Promised(a, b)) /\ \A c \in Promised(a, b) : refunds[c] \in Int
  BY <1>6, MoneyIsSummable
<1>10. \A a, b : IsFiniteSet(Paid(a, b)) /\ \A r \in Paid(a, b) : payments[r] \in Int
  BY <1>7, MoneyIsSummable
<1>11. \A a, b : IsFiniteSet(Open(a, b))
  BY <1>6, MoneyIsSummable
<1> HIDE DEF refunds, payments, Paid, Open
<1>12. SumFunctionOnSet(refunds, Promised(from, mid)) + SumFunctionOnSet(refunds, Promised(mid, to)) =
         SumFunctionOnSet(refunds, Promised(from, to))
  <2> DEFINE A == Promised(from, mid)
             B == Promised(mid, to)
  <2>1. IsFiniteSet(A) /\ IsFiniteSet(B) /\ A \cap B = {} /\ \A c \in A \cup B : refunds[c] \in Int
    BY <1>3, <1>9
  <2> HIDE DEF A, B
  <2>2. SumFunctionOnSet(refunds, A \cup B) = SumFunctionOnSet(refunds, A) + SumFunctionOnSet(refunds, B)
    BY <2>1, SumOfUnion
  <2> QED BY <1>3, <2>2, Zenon DEF A, B
<1>13. SumFunctionOnSet(payments, Paid(from, mid)) + SumFunctionOnSet(payments, Paid(mid, to)) =
         SumFunctionOnSet(payments, Paid(from, to))
  <2> DEFINE A == Paid(from, mid)
             B == Paid(mid, to)
  <2>1. IsFiniteSet(A) /\ IsFiniteSet(B) /\ A \cap B = {} /\ \A r \in A \cup B : payments[r] \in Int
    BY <1>4, <1>10
  <2> HIDE DEF A, B
  <2>2. SumFunctionOnSet(payments, A \cup B) = SumFunctionOnSet(payments, A) + SumFunctionOnSet(payments, B)
    BY <2>1, SumOfUnion
  <2> QED BY <1>4, <2>2, Zenon DEF A, B
<1>14. Cardinality(Open(from, mid)) + Cardinality(Open(mid, to)) = Cardinality(Open(from, to))
  <2> DEFINE A == Open(from, mid)
             B == Open(mid, to)
  <2>1. IsFiniteSet(A) /\ IsFiniteSet(B) /\ A \cap B = {}
    BY <1>5, <1>11
  <2> HIDE DEF A, B
  <2>2. Cardinality(A \cup B) = Cardinality(A) + Cardinality(B) - Cardinality(A \cap B)
    BY <2>1, FS_Union
  <2>3. Cardinality(A \cap B) = 0
    BY <2>1, FS_EmptySet
  <2>4. Cardinality(A) \in Nat /\ Cardinality(B) \in Nat
    BY <2>1, FS_CardinalityType
  <2>5. Cardinality(A \cup B) = Cardinality(A) + Cardinality(B)
    BY <2>2, <2>3, <2>4
  <2> QED BY <1>5, <2>5, Zenon DEF A, B
<1>15. DOMAIN reconcile(from, to) = {"promised_minor", "settled_minor", "unreconciled_cases"}
  BY <1>8
<1>16. reconcile(from, mid).promised_minor + reconcile(mid, to).promised_minor = reconcile(from, to).promised_minor
  BY <1>8, <1>12
<1>17. reconcile(from, mid).settled_minor + reconcile(mid, to).settled_minor = reconcile(from, to).settled_minor
  BY <1>8, <1>13
<1>18. reconcile(from, mid).unreconciled_cases + reconcile(mid, to).unreconciled_cases =
         reconcile(from, to).unreconciled_cases
  BY <1>8, <1>14
<1> QED BY <1>15, <1>16, <1>17, <1>18

(* However casework interleaves with the queries of a summary, each of its    *)
(* views counts a case open all along once and none twice, a case dated in   *)
(* the future in its category alone; and the figures of periods that meet    *)
(* add up: for any cases, dates, payments, bands and periods (exposure.py).  *)
THEOREM FiguresAlwaysAddUp == ExposureSpec => []FiguresAddUp
<1>1. ExposureInv => FiguresAddUp
  <2> SUFFICES ASSUME ExposureInv PROVE FiguresAddUp OBVIOUS
  <2>1. \A from, mid, to \in 0 .. LastDay + 1 :
          from <= mid /\ mid <= to =>
            \A figure \in DOMAIN reconcile(from, to) :
              reconcile(from, mid)[figure] + reconcile(mid, to)[figure] = reconcile(from, to)[figure]
    BY PeriodsAddUp
  <2>2. view.at # "none" => ViewInv
    BY DEF ExposureInv
  <2>3. view.at # "none" => AddUp(view.categories, steady, ever)
    <3>1. ViewInv => ever \subseteq Filed /\ Splits(view.categories, steady, ever)
      BY DEF ViewInv
    <3> QED BY <2>2, <3>1, RowsAddUp
  <2>4. view.at \in {"rate", "_open_amount", "shown"} =>
          AddUp(view.bands, Aged(steady), Aged(ever))
    <3>1. ViewInv /\ view.at # "by_age" => Len(view.bands) = Len(AGE_BANDS)
      BY DEF ViewInv
    <3> QED BY <2>2, <3>1, BandsSplitTheAged, RowsAddUp
  <2>5. view.at = "shown" =>
          /\ steady \subseteq view.open /\ view.open \subseteq ever
          /\ view.decided # 0 => expected_minor <= AmountOf(view.open)
    BY <2>2, LossIsNoMore DEF ViewInv
  <2> QED BY <2>1, <2>3, <2>4, <2>5 DEF FiguresAddUp
<1> QED BY <1>1, InitExposure, NextExposure, PTL DEF ExposureSpec

-----------------------------------------------------------------------------
(* Advice.                                                                  *)

ProposedValues == { CATEGORY_HINTS[k][1] : k \in DOMAIN CATEGORY_HINTS } \cup {"high"}

SuggestionRows ==
  [kind : {"category", "priority"}, value : ProposedValues,
   disposition : {"pending", "accepted", "overridden"},
   chosen_value : {Unchosen} \cup ValuesChosen, decided_by : {Unchosen} \cup Deciders]

DecisionRecords ==
  [suggestion : Nat, actor_id : Deciders, chosen : ValuesChosen,
   event : {"accepted", "overridden"}]

DecisionsUnderWay ==
  [at : {"saved"}, suggestion : Nat, chosen : ValuesChosen, was : SuggestionRows]

AdviceTypes ==
  /\ suggestions \in Seq(SuggestionRows)
  /\ decisions \in Seq(DecisionRecords)
  /\ \A k \in DOMAIN decisions : decisions[k].suggestion \in DOMAIN suggestions
  /\ deciding \in [Deciders -> {NoDecision} \cup DecisionsUnderWay]

(* k is the last decision of the trail on a suggestion. *)
IsLastOn(k, i) ==
  /\ k \in DOMAIN decisions
  /\ decisions[k].suggestion = i
  /\ \A j \in DOMAIN decisions : decisions[j].suggestion = i => j <= k

Shows(row, k) ==
  /\ row.disposition = decisions[k].event
  /\ row.decided_by = decisions[k].actor_id
  /\ row.chosen_value = decisions[k].chosen

UpToDate(row, i) ==
  \/ /\ \A k \in DOMAIN decisions : decisions[k].suggestion # i
     /\ row.disposition = "pending"
  \/ \E k \in DOMAIN decisions : IsLastOn(k, i) /\ Shows(row, k)

(* A row nobody is writing is up to date; one that somebody is writing was,  *)
(* and shows what he is about to record.                                     *)
UnderWay(p, t, row) ==
  /\ t.suggestion \in DOMAIN suggestions
  /\ UpToDate(t.was, t.suggestion)
  /\ row.disposition = (IF t.chosen = row.value THEN "accepted" ELSE "overridden")
  /\ row.decided_by = p
  /\ row.chosen_value = t.chosen

OneWriterEach ==
  \A p, q \in Deciders :
    p # q /\ deciding[p] # NoDecision /\ deciding[q] # NoDecision =>
      deciding[p].suggestion # deciding[q].suggestion

AdviceInv ==
  /\ AdviceTypes /\ OneWriterEach
  /\ \A i \in DOMAIN suggestions :
       (\A p \in Deciders : deciding[p] # NoDecision => deciding[p].suggestion # i) =>
         UpToDate(suggestions[i], i)
  /\ \A p \in Deciders : deciding[p] # NoDecision =>
       UnderWay(p, deciding[p], suggestions[deciding[p].suggestion])

LEMMA InitAdvice == AdviceInit => AdviceInv
BY DEF AdviceInit, AdviceInv, AdviceTypes, OneWriterEach

(* What is proposed is a finite set of pending rows, in some order.          *)
LEMMA InSomeOrder ==
  ASSUME NEW S, IsFiniteSet(S)
  PROVE  SetToSeq(S) \in Seq(S)
<1> DEFINE n == Cardinality(S)
<1>1. n \in Nat /\ IsFiniteSet(1 .. n) /\ Cardinality(1 .. n) = n
  BY FS_CardinalityType, FS_Interval
<1>2. ExistsBijection(1 .. n, S)
  BY <1>1, FS_SameCardinalityBij
<1>3. \E f \in [1 .. n -> S] : IsInjective(f)
  BY <1>2 DEF ExistsBijection, Bijection, Injection, IsInjective
<1>4. SetToSeq(S) \in [1 .. n -> S]
  BY <1>3 DEF SetToSeq
<1> QED BY <1>1, <1>4

LEMMA PendingRow ==
  ASSUME NEW kind \in {"category", "priority"}, NEW value \in ProposedValues
  PROVE  /\ Pending([kind |-> kind, value |-> value]) \in SuggestionRows
         /\ Pending([kind |-> kind, value |-> value]).disposition = "pending"
BY DEF Pending, SuggestionRows

LEMMA ProposalsArePending ==
  LET rows == { Pending(p) : p \in _category \cup _priority }
  IN  IsFiniteSet(rows) /\ \A row \in rows : row \in SuggestionRows /\ row.disposition = "pending"
<1> DEFINE best == { k \in DOMAIN CATEGORY_HINTS :
                      /\ Score(k) > 0
                      /\ \A j \in DOMAIN CATEGORY_HINTS :
                           /\ Score(j) <= Score(k)
                           /\ j < k => Score(j) < Score(k) }
           category(k) == [kind |-> "category", value |-> CATEGORY_HINTS[k][1]]
           high == [kind |-> "priority", value |-> "high"]
           rows == { Pending(p) : p \in _category \cup _priority }
<1>1. /\ DOMAIN CATEGORY_HINTS = 1 .. Len(CATEGORY_HINTS) /\ Len(CATEGORY_HINTS) \in Nat
      /\ best \subseteq DOMAIN CATEGORY_HINTS
  BY AdviceAssumption
<1>2. _category = { category(k) : k \in best }
  BY DEF _category
<1>3. _priority \subseteq {high}
  BY DEF _priority
<1>4. IsFiniteSet(best)
  <2>1. IsFiniteSet(1 .. Len(CATEGORY_HINTS))
    BY <1>1, FS_Interval
  <2> HIDE DEF best
  <2> QED BY <1>1, <2>1, FS_Subset
<1>5. \A k \in best : CATEGORY_HINTS[k][1] \in ProposedValues
  BY <1>1 DEF ProposedValues
<1> HIDE DEF best
<1>6. IsFiniteSet({ Pending(category(k)) : k \in best })
  <2> DEFINE f == [k \in best |-> Pending(category(k))]
  <2>1. IsFiniteSet({ f[k] : k \in best })
    BY <1>4, ImageIsFinite
  <2>2. { f[k] : k \in best } = { Pending(category(k)) : k \in best }
    OBVIOUS
  <2> QED BY <2>1, <2>2
<1>7. IsFiniteSet({ Pending(category(k)) : k \in best } \cup {Pending(high)})
  BY <1>6, FS_AddElement
<1>8. rows \subseteq { Pending(category(k)) : k \in best } \cup {Pending(high)}
  BY <1>2, <1>3
<1>9. IsFiniteSet(rows)
  BY <1>7, <1>8, FS_Subset
<1>10. \A k \in best : Pending(category(k)) \in SuggestionRows /\ Pending(category(k)).disposition = "pending"
  BY <1>5, PendingRow
<1>11. Pending(high) \in SuggestionRows /\ Pending(high).disposition = "pending"
  BY PendingRow DEF ProposedValues
<1> QED BY <1>8, <1>9, <1>10, <1>11

LEMMA ProposeKeeps ==
  ASSUME AdviceInv, Propose
  PROVE  AdviceInv'
<1> DEFINE rows == { Pending(p) : p \in _category \cup _priority }
           new == SetToSeq(rows)
<1>1. /\ new \in Seq(rows)
      /\ \A row \in rows : row \in SuggestionRows /\ row.disposition = "pending"
  BY ProposalsArePending, InSomeOrder
<1>2. suggestions' = suggestions \o new /\ UNCHANGED <<decisions, deciding>>
  BY DEF Propose
<1>3. AdviceTypes
  BY DEF AdviceInv
<1> HIDE DEF rows, new
<1>4. new \in Seq(SuggestionRows) /\ suggestions \in Seq(SuggestionRows)
  BY <1>1, <1>3 DEF AdviceTypes
<1>5. /\ suggestions' \in Seq(SuggestionRows) /\ DOMAIN suggestions \subseteq DOMAIN suggestions'
      /\ \A i \in DOMAIN suggestions : suggestions'[i] = suggestions[i]
  BY <1>2, <1>4
<1>6. \A i \in DOMAIN suggestions' \ DOMAIN suggestions : suggestions'[i].disposition = "pending"
  <2> SUFFICES ASSUME NEW i \in DOMAIN suggestions' \ DOMAIN suggestions
      PROVE suggestions'[i].disposition = "pending"
    OBVIOUS
  <2>1. i - Len(suggestions) \in 1 .. Len(new) /\ suggestions'[i] = new[i - Len(suggestions)]
    BY <1>2, <1>4
  <2>2. new[i - Len(suggestions)] \in rows
    BY <1>1, <2>1
  <2> QED BY <1>1, <2>1, <2>2
<1>7. AdviceTypes'
  BY <1>2, <1>3, <1>5 DEF AdviceTypes
<1>8. \A row, i : UpToDate(row, i)' <=> UpToDate(row, i)
  BY <1>2 DEF UpToDate, IsLastOn, Shows
<1>9. ASSUME NEW p \in Deciders, deciding'[p] # NoDecision
      PROVE  UnderWay(p, deciding[p], suggestions[deciding[p].suggestion])'
  <2>1. PICK t : t = deciding[p] /\ t = deciding'[p]
    BY <1>2
  <2>2. UnderWay(p, t, suggestions[t.suggestion])
    BY <1>2, <1>9, <2>1 DEF AdviceInv
  <2>3. suggestions'[t.suggestion] = suggestions[t.suggestion] /\ t.suggestion \in DOMAIN suggestions'
    BY <1>5, <2>2 DEF UnderWay
  <2>4. UpToDate(t.was, t.suggestion)'
    BY <1>8, <2>2 DEF UnderWay
  <2> QED BY <2>1, <2>2, <2>3, <2>4 DEF UnderWay, UpToDate, IsLastOn, Shows
<1>10. ASSUME NEW i \in DOMAIN suggestions',
              \A p \in Deciders : deciding'[p] # NoDecision => deciding'[p].suggestion # i
       PROVE  UpToDate(suggestions[i], i)'
  <2>1. PICK row : row = suggestions'[i]
    OBVIOUS
  <2>2. UpToDate(row, i)
    <3>1. CASE i \in DOMAIN suggestions
      BY <1>2, <1>5, <1>10, <2>1, <3>1 DEF AdviceInv
    <3>2. CASE i \notin DOMAIN suggestions
      BY <1>3, <1>6, <2>1, <3>2 DEF UpToDate, AdviceTypes
    <3> QED BY <3>1, <3>2
  <2>3. UpToDate(row, i)'
    BY <1>8, <2>2
  <2> QED BY <2>1, <2>3 DEF UpToDate, IsLastOn, Shows
<1>11. OneWriterEach'
  BY <1>2 DEF AdviceInv, OneWriterEach
<1> QED BY <1>7, <1>9, <1>10, <1>11 DEF AdviceInv

(* The trail stands: what is up to date stays so.                            *)
LEMMA SameTrail ==
  ASSUME decisions' = decisions
  PROVE  \A row, i : UpToDate(row, i)' <=> UpToDate(row, i)
BY DEF UpToDate, IsLastOn, Shows

LEMMA SaveKeeps ==
  ASSUME AdviceInv, NEW p \in Deciders, NEW i \in DOMAIN suggestions, NEW chosen \in ValuesChosen,
         Save(p, i, chosen)
  PROVE  AdviceInv'
<1> DEFINE old == suggestions[i]
           verdict == Disposition(i, chosen)
           decided == [old EXCEPT !.disposition = verdict, !.chosen_value = chosen]
           row == [decided EXCEPT !.decided_by = p]
           t == [at |-> "saved", suggestion |-> i, chosen |-> chosen, was |-> old]
<1>1. AdviceTypes /\ old \in SuggestionRows /\ i \in Nat /\ deciding[p] = NoDecision
  BY DEF AdviceInv, AdviceTypes, Save, DecisionsUnderWay
<1>2. /\ verdict \in {"accepted", "overridden"}
      /\ verdict = (IF chosen = old.value THEN "accepted" ELSE "overridden")
  BY DEF Disposition
<1>3. decided \in SuggestionRows /\ decided.disposition = verdict
      /\ decided.chosen_value = chosen /\ decided.value = old.value
  <2> HIDE DEF verdict, old
  <2> QED BY <1>1, <1>2 DEF SuggestionRows
<1>4. /\ suggestions' = [suggestions EXCEPT ![i] = row] /\ UNCHANGED decisions
      /\ deciding' = [deciding EXCEPT ![p] = t]
  <2>1. row = [old EXCEPT !.disposition = verdict, !.chosen_value = chosen, !.decided_by = p]
    <3> HIDE DEF verdict, old
    <3> QED BY <1>1 DEF SuggestionRows
  <2> QED BY <2>1 DEF Save
<1> HIDE DEF decided
<1>5. /\ row \in SuggestionRows /\ row.disposition = verdict /\ row.chosen_value = chosen
      /\ row.value = old.value /\ row.decided_by = p
  BY <1>3 DEF SuggestionRows
<1> HIDE DEF row, verdict
<1>6. t \in DecisionsUnderWay /\ t # NoDecision /\ t.suggestion = i /\ t.was = old /\ t.chosen = chosen
  BY <1>1 DEF DecisionsUnderWay, NoDecision
<1> HIDE DEF t
<1>7. /\ suggestions' \in Seq(SuggestionRows) /\ DOMAIN suggestions' = DOMAIN suggestions
      /\ suggestions'[i] = row /\ \A j \in DOMAIN suggestions \ {i} : suggestions'[j] = suggestions[j]
      /\ deciding'[p] = t /\ \A q \in Deciders \ {p} : deciding'[q] = deciding[q]
      /\ deciding' \in [Deciders -> {NoDecision} \cup DecisionsUnderWay]
  BY <1>1, <1>4, <1>5, <1>6 DEF AdviceTypes
<1>8. AdviceTypes'
  BY <1>1, <1>4, <1>7 DEF AdviceTypes
<1>9. \A q \in Deciders : deciding[q] # NoDecision => deciding[q].suggestion # i
  BY DEF Save, Locked, AdviceInv, AdviceTypes, DecisionsUnderWay, NoDecision
<1>10. OneWriterEach'
  BY <1>6, <1>7, <1>9 DEF AdviceInv, OneWriterEach
<1>11. \A r, j : UpToDate(r, j)' <=> UpToDate(r, j)
  BY <1>4, SameTrail
<1>12. UpToDate(old, i)
  BY <1>9 DEF AdviceInv
<1>13. ASSUME NEW q \in Deciders, deciding'[q] # NoDecision
       PROVE  UnderWay(q, deciding[q], suggestions[deciding[q].suggestion])'
  <2>1. CASE q = p
    <3>1. deciding'[q] = t /\ suggestions'[deciding'[q].suggestion] = row
          /\ deciding'[q].suggestion \in DOMAIN suggestions'
      BY <1>6, <1>7, <2>1
    <3>2. UpToDate(deciding'[q].was, deciding'[q].suggestion)
      BY <1>6, <1>12, <3>1
    <3> QED BY <1>2, <1>4, <1>5, <1>6, <2>1, <3>1, <3>2 DEF UnderWay, UpToDate, IsLastOn, Shows
  <2>2. CASE q # p
    <3>1. PICK u : u = deciding[q] /\ u = deciding'[q]
      BY <1>7, <2>2
    <3>2. UnderWay(q, u, suggestions[u.suggestion]) /\ u.suggestion # i
      BY <1>9, <1>13, <3>1 DEF AdviceInv
    <3>3. suggestions'[u.suggestion] = suggestions[u.suggestion] /\ u.suggestion \in DOMAIN suggestions'
      BY <1>7, <3>2 DEF UnderWay
    <3>4. UpToDate(u.was, u.suggestion)'
      BY <1>11, <3>2 DEF UnderWay
    <3> QED BY <3>1, <3>2, <3>3, <3>4 DEF UnderWay, UpToDate, IsLastOn, Shows
  <2> QED BY <2>1, <2>2
<1>14. ASSUME NEW j \in DOMAIN suggestions',
              \A q \in Deciders : deciding'[q] # NoDecision => deciding'[q].suggestion # j
       PROVE  UpToDate(suggestions[j], j)'
  <2>1. j # i /\ j \in DOMAIN suggestions /\ suggestions'[j] = suggestions[j]
    BY <1>6, <1>7, <1>14
  <2>2. UpToDate(suggestions[j], j)
    BY <1>1, <1>7, <1>14, <2>1 DEF AdviceInv
  <2> QED BY <1>4, <2>1, <2>2 DEF UpToDate, IsLastOn, Shows
<1> QED BY <1>8, <1>10, <1>13, <1>14 DEF AdviceInv

LEMMA AbortKeeps ==
  ASSUME AdviceInv, NEW p \in Deciders, Abort(p)
  PROVE  AdviceInv'
<1> DEFINE t == deciding[p]
           i == t.suggestion
<1>1. /\ AdviceTypes /\ t # NoDecision /\ t \in DecisionsUnderWay
      /\ UnderWay(p, t, suggestions[i]) /\ OneWriterEach
  BY DEF AdviceInv, AdviceTypes, Abort, NoDecision
<1>2. /\ suggestions' = [suggestions EXCEPT ![i] = t.was] /\ UNCHANGED decisions
      /\ deciding' = [deciding EXCEPT ![p] = NoDecision]
  BY DEF Abort
<1>3. i \in DOMAIN suggestions /\ UpToDate(t.was, i) /\ t.was \in SuggestionRows
  BY <1>1 DEF UnderWay, DecisionsUnderWay
<1>4. /\ suggestions' \in Seq(SuggestionRows) /\ DOMAIN suggestions' = DOMAIN suggestions
      /\ suggestions'[i] = t.was /\ \A j \in DOMAIN suggestions \ {i} : suggestions'[j] = suggestions[j]
      /\ deciding'[p] = NoDecision /\ \A q \in Deciders \ {p} : deciding'[q] = deciding[q]
      /\ deciding' \in [Deciders -> {NoDecision} \cup DecisionsUnderWay]
  BY <1>1, <1>2, <1>3 DEF AdviceTypes
<1>5. AdviceTypes'
  BY <1>1, <1>2, <1>4 DEF AdviceTypes
<1>6. OneWriterEach'
  BY <1>1, <1>4 DEF OneWriterEach
<1>7. ASSUME NEW q \in Deciders, deciding'[q] # NoDecision
      PROVE  UnderWay(q, deciding[q], suggestions[deciding[q].suggestion])'
  <2>1. PICK u : u = deciding[q] /\ u = deciding'[q]
    BY <1>4, <1>7
  <2>2. UnderWay(q, u, suggestions[u.suggestion]) /\ u.suggestion # i
    BY <1>1, <1>4, <1>7, <2>1 DEF AdviceInv, OneWriterEach
  <2>3. suggestions'[u.suggestion] = suggestions[u.suggestion] /\ u.suggestion \in DOMAIN suggestions'
    BY <1>4, <2>2 DEF UnderWay
  <2>4. UpToDate(u.was, u.suggestion)'
    BY <1>2, <2>2, SameTrail DEF UnderWay
  <2> QED BY <2>1, <2>2, <2>3, <2>4 DEF UnderWay, UpToDate, IsLastOn, Shows
<1>8. ASSUME NEW j \in DOMAIN suggestions',
             \A q \in Deciders : deciding'[q] # NoDecision => deciding'[q].suggestion # j
      PROVE  UpToDate(suggestions[j], j)'
  <2>1. UpToDate(suggestions'[j], j)
    <3>1. CASE j = i
      BY <1>3, <1>4, <3>1
    <3>2. CASE j # i
      BY <1>1, <1>4, <1>8, <3>2 DEF AdviceInv
    <3> QED BY <3>1, <3>2
  <2> QED BY <1>2, <2>1 DEF UpToDate, IsLastOn, Shows
<1> QED BY <1>5, <1>6, <1>7, <1>8 DEF AdviceInv

LEMMA RecordKeeps ==
  ASSUME AdviceInv, NEW p \in Deciders, Record(p)
  PROVE  AdviceInv'
<1> DEFINE t == deciding[p]
           i == t.suggestion
           row == suggestions[i]
           verdict == Disposition(i, t.chosen)
           d == [suggestion |-> i, actor_id |-> p, chosen |-> t.chosen, event |-> verdict]
           n == Len(decisions) + 1
<1>1. /\ AdviceTypes /\ t # NoDecision /\ t \in DecisionsUnderWay
      /\ UnderWay(p, t, row) /\ OneWriterEach
  BY DEF AdviceInv, AdviceTypes, Record, NoDecision
<1>2. /\ decisions' = Append(decisions, d) /\ UNCHANGED suggestions
      /\ deciding' = [deciding EXCEPT ![p] = NoDecision]
  BY DEF Record
<1>3. /\ d \in DecisionRecords /\ i \in DOMAIN suggestions
      /\ row.disposition = verdict /\ row.decided_by = p /\ row.chosen_value = t.chosen
  BY <1>1 DEF UnderWay, DecisionsUnderWay, DecisionRecords, Disposition
<1>4. d.suggestion = i /\ d.actor_id = p /\ d.chosen = t.chosen /\ d.event = verdict
  OBVIOUS
<1> HIDE DEF d
<1>5. /\ decisions \in Seq(DecisionRecords) /\ Len(decisions) \in Nat
      /\ DOMAIN decisions = 1 .. Len(decisions)
  BY <1>1 DEF AdviceTypes
<1>6. /\ decisions' \in Seq(DecisionRecords) /\ DOMAIN decisions' = DOMAIN decisions \cup {n}
      /\ decisions'[n] = d /\ \A k \in DOMAIN decisions : decisions'[k] = decisions[k] /\ k < n
  BY <1>2, <1>3, <1>5
<1>7. /\ deciding'[p] = NoDecision /\ \A q \in Deciders \ {p} : deciding'[q] = deciding[q]
      /\ deciding' \in [Deciders -> {NoDecision} \cup DecisionsUnderWay]
  BY <1>1, <1>2 DEF AdviceTypes
<1>8. AdviceTypes'
  BY <1>1, <1>2, <1>3, <1>4, <1>6, <1>7 DEF AdviceTypes
<1>9. OneWriterEach'
  BY <1>1, <1>7 DEF OneWriterEach
<1> HIDE DEF n
<1>10. ASSUME NEW r, NEW j, j # i, UpToDate(r, j) PROVE UpToDate(r, j)'
  <2>1. CASE \A k \in DOMAIN decisions : decisions[k].suggestion # j
    <3>1. r.disposition = "pending"
      BY <1>10, <2>1 DEF UpToDate, IsLastOn
    <3>2. \A k \in DOMAIN decisions' : decisions'[k].suggestion # j
      BY <1>4, <1>6, <1>10, <2>1
    <3> QED BY <3>1, <3>2 DEF UpToDate
  <2>2. ASSUME NEW k \in DOMAIN decisions, IsLastOn(k, j), Shows(r, k)
        PROVE  UpToDate(r, j)'
    <3>1. IsLastOn(k, j)'
      BY <1>4, <1>6, <1>10, <2>2 DEF IsLastOn
    <3>2. Shows(r, k)'
      BY <1>6, <2>2 DEF Shows
    <3> QED BY <1>6, <3>1, <3>2 DEF UpToDate
  <2> QED BY <1>10, <2>1, <2>2 DEF UpToDate
<1>11. ASSUME NEW q \in Deciders, deciding'[q] # NoDecision
       PROVE  UnderWay(q, deciding[q], suggestions[deciding[q].suggestion])'
  <2>1. PICK u : u = deciding[q] /\ u = deciding'[q]
    BY <1>7, <1>11
  <2>2. UnderWay(q, u, suggestions[u.suggestion]) /\ u.suggestion # i
    BY <1>1, <1>7, <1>11, <2>1 DEF AdviceInv, OneWriterEach
  <2>3. UpToDate(u.was, u.suggestion)'
    BY <1>10, <2>2 DEF UnderWay
  <2> QED BY <1>2, <2>1, <2>2, <2>3 DEF UnderWay, UpToDate, IsLastOn, Shows
<1>12. ASSUME NEW j \in DOMAIN suggestions',
              \A q \in Deciders : deciding'[q] # NoDecision => deciding'[q].suggestion # j
       PROVE  UpToDate(suggestions[j], j)'
  <2>1. PICK r : r = suggestions[j] /\ r = suggestions'[j]
    BY <1>2
  <2>2. CASE j = i
    <3>1. PICK m : m = n
      OBVIOUS
    <3>2. m \in DOMAIN decisions' /\ decisions'[m] = d /\ \A k \in DOMAIN decisions' : k <= m
      BY <1>5, <1>6, <3>1 DEF n
    <3>3. IsLastOn(m, j)'
      BY <1>4, <2>2, <3>2 DEF IsLastOn
    <3>4. Shows(r, m)'
      BY <1>3, <1>4, <2>1, <2>2, <3>2 DEF Shows
    <3> QED BY <2>1, <3>2, <3>3, <3>4 DEF UpToDate, IsLastOn, Shows
  <2>3. CASE j # i
    <3>1. UpToDate(r, j)
      BY <1>1, <1>2, <1>7, <1>12, <2>1, <2>3 DEF AdviceInv
    <3>2. UpToDate(r, j)'
      BY <1>10, <2>3, <3>1
    <3> QED BY <2>1, <3>2 DEF UpToDate, IsLastOn, Shows
  <2> QED BY <2>2, <2>3
<1> QED BY <1>8, <1>9, <1>11, <1>12 DEF AdviceInv

LEMMA NextAdvice == AdviceInv /\ [AdviceNext]_adviceVars => AdviceInv'
<1> SUFFICES ASSUME AdviceInv, [AdviceNext]_adviceVars PROVE AdviceInv'
  OBVIOUS
<1>1. CASE UNCHANGED adviceVars
  <2>1. UNCHANGED <<suggestions, decisions, deciding>>
    BY <1>1 DEF adviceVars
  <2> QED BY <2>1 DEF AdviceInv, AdviceTypes, OneWriterEach, UnderWay, UpToDate, IsLastOn, Shows
<1>2. CASE Propose
  BY <1>2, ProposeKeeps
<1>3. ASSUME NEW p \in Deciders, NEW i \in DOMAIN suggestions, NEW chosen \in ValuesChosen,
             Save(p, i, chosen)
      PROVE  AdviceInv'
  BY <1>3, SaveKeeps
<1>4. ASSUME NEW p \in Deciders, Record(p) PROVE AdviceInv'
  BY <1>4, RecordKeeps
<1>5. ASSUME NEW p \in Deciders, Abort(p) PROVE AdviceInv'
  BY <1>5, AbortKeeps
<1> QED BY <1>1, <1>2, <1>3, <1>4, <1>5 DEF AdviceNext

LEMMA TheLastDecision ==
  ASSUME AdviceInv, NEW i
  PROVE  /\ (\A k \in DOMAIN decisions : decisions[k].suggestion # i) => LastDecisionOn(i) = {}
         /\ \A k : IsLastOn(k, i) => LastDecisionOn(i) = {decisions[k]}
<1> DEFINE of == { k \in DOMAIN decisions : decisions[k].suggestion = i }
<1>1. ASSUME NEW k, IsLastOn(k, i) PROVE LastDecisionOn(i) = {decisions[k]}
  <2>1. of # {} /\ k \in of /\ \A j \in of : j <= k
    BY <1>1 DEF IsLastOn
  <2>2. of \subseteq Nat
    BY DEF AdviceInv, AdviceTypes
  <2>3. \A x \in of : (\A j \in of : j <= x) => x = k
    BY <2>1, <2>2
  <2>4. (CHOOSE x \in of : \A j \in of : j <= x) = k
    BY <2>1, <2>3
  <2> QED BY <2>1, <2>4 DEF LastDecisionOn
<1> QED BY <1>1 DEF LastDecisionOn

(* A row nobody is writing shows the last decision the trail has of it, and  *)
(* the accuracy counts each suggestion once, however many people decide it   *)
(* over one another: decide() and accuracy() in intelligence/triage.py.      *)
THEOREM RowsAlwaysShowTheLastDecision == AdviceSpec => []RowsShowTheLastDecision
<1>1. AdviceInv => RowsShowTheLastDecision
  <2> SUFFICES ASSUME AdviceInv PROVE RowsShowTheLastDecision
    OBVIOUS
  <2>1. /\ suggestions \in Seq(SuggestionRows) /\ decisions \in Seq(DecisionRecords)
        /\ \A k \in DOMAIN decisions :
             decisions[k] \in DecisionRecords /\ decisions[k].suggestion \in DOMAIN suggestions
    BY DEF AdviceInv, AdviceTypes
  <2>2. ASSUME NEW i \in Committed
        PROVE  \/ LastDecisionOn(i) = {} /\ suggestions[i].disposition = "pending"
                  /\ \A k \in DOMAIN decisions : decisions[k].suggestion # i
               \/ \E k \in DOMAIN decisions :
                    /\ LastDecisionOn(i) = {decisions[k]}
                    /\ decisions[k].suggestion = i /\ Shows(suggestions[i], k)
    <3>1. \A p \in Deciders : deciding[p] # NoDecision => deciding[p].suggestion # i
      BY DEF Committed, Locked, AdviceInv, AdviceTypes, DecisionsUnderWay
    <3>2. UpToDate(suggestions[i], i)
      BY <3>1 DEF AdviceInv, Committed
    <3> QED BY <3>2, TheLastDecision DEF UpToDate, IsLastOn
  <2>3. \A i \in Committed :
         IF LastDecisionOn(i) = {} THEN suggestions[i].disposition = "pending"
         ELSE \A d \in LastDecisionOn(i) :
                /\ suggestions[i].disposition = d.event
                /\ suggestions[i].decided_by = d.actor_id
                /\ suggestions[i].chosen_value = d.chosen
    BY <2>2 DEF Shows
  <2>4. ASSUME Locked = {}, NEW score \in accuracy
        PROVE  /\ score[2] = Cardinality({ d.suggestion : d \in Range(decisions) })
               /\ score[1] = Cardinality({ i \in DOMAIN suggestions :
                                             \E d \in LastDecisionOn(i) : d.event = "accepted" })
    <3> DEFINE decided == { i \in Committed : suggestions[i].disposition \in {"accepted", "overridden"} }
               accepted == { i \in decided : suggestions[i].disposition = "accepted" }
    <3>1. score = <<Cardinality(accepted), Cardinality(decided)>>
      BY <2>4 DEF accuracy
    <3>2. Committed = DOMAIN suggestions
      BY <2>4 DEF Committed
    <3>3. ASSUME NEW i \in Committed
          PROVE  /\ i \in decided <=> \E k \in DOMAIN decisions : decisions[k].suggestion = i
                 /\ i \in accepted <=> \E d \in LastDecisionOn(i) : d.event = "accepted"
      <4>1. CASE LastDecisionOn(i) = {} /\ suggestions[i].disposition = "pending"
                 /\ \A k \in DOMAIN decisions : decisions[k].suggestion # i
        BY <4>1
      <4>2. ASSUME NEW k \in DOMAIN decisions, LastDecisionOn(i) = {decisions[k]},
                   decisions[k].suggestion = i, Shows(suggestions[i], k)
            PROVE  /\ i \in decided <=> \E j \in DOMAIN decisions : decisions[j].suggestion = i
                   /\ i \in accepted <=> \E d \in LastDecisionOn(i) : d.event = "accepted"
        <5>1. decisions[k].event \in {"accepted", "overridden"}
          BY <2>1 DEF DecisionRecords
        <5> QED BY <4>2, <5>1 DEF Shows
      <4> QED BY <2>2, <4>1, <4>2
    <3>4. decided = { d.suggestion : d \in Range(decisions) }
      <4>1. { d.suggestion : d \in Range(decisions) } = { decisions[k].suggestion : k \in DOMAIN decisions }
        BY DEF Range
      <4>2. decided = { decisions[k].suggestion : k \in DOMAIN decisions }
        BY <2>1, <3>2, <3>3
      <4> QED BY <4>1, <4>2
    <3>5. accepted = { i \in DOMAIN suggestions : \E d \in LastDecisionOn(i) : d.event = "accepted" }
      BY <3>2, <3>3
    <3> HIDE DEF decided, accepted
    <3> QED BY <3>1, <3>4, <3>5
  <2> QED BY <2>3, <2>4 DEF RowsShowTheLastDecision
<1> QED BY <1>1, InitAdvice, NextAdvice, PTL DEF AdviceSpec

(* The first positions of a sequence, one after the other. *)
LEMMA PrefixPositions ==
  ASSUME NEW n \in Nat
  PROVE  /\ 1 .. 0 = {} /\ 1 .. 0 \in SUBSET (1 .. n)
         /\ \A i \in Nat : i < n =>
              /\ 1 .. i + 1 \in SUBSET (1 .. n) /\ 1 .. i + 1 # {}
              /\ Max(1 .. i + 1) = i + 1 /\ (1 .. i + 1) \ {i + 1} = 1 .. i
<1>1. ASSUME NEW i \in Nat, i < n
      PROVE  /\ 1 .. i + 1 \in SUBSET (1 .. n) /\ 1 .. i + 1 # {}
             /\ Max(1 .. i + 1) = i + 1 /\ (1 .. i + 1) \ {i + 1} = 1 .. i
  <2>1. i + 1 \in 1 .. i + 1 /\ \A x \in 1 .. i + 1 : i + 1 >= x
    OBVIOUS
  <2>2. \A y \in 1 .. i + 1 : (\A x \in 1 .. i + 1 : y >= x) => y = i + 1
    <3>1. TAKE y \in 1 .. i + 1
    <3>2. HAVE \A x \in 1 .. i + 1 : y >= x
    <3>3. y >= i + 1 /\ y <= i + 1
      BY <2>1, <3>2
    <3> QED BY <3>3
  <2>3. Max(1 .. i + 1) = i + 1
    <3>1. \E y \in 1 .. i + 1 : \A x \in 1 .. i + 1 : y >= x
      BY <2>1
    <3>2. Max(1 .. i + 1) \in 1 .. i + 1 /\ \A x \in 1 .. i + 1 : Max(1 .. i + 1) >= x
      BY <3>1, Zenon DEF Max
    <3>3. PICK y \in 1 .. i + 1 : y = Max(1 .. i + 1) /\ \A x \in 1 .. i + 1 : y >= x
      BY <3>2
    <3>4. y = i + 1
      BY <2>2, <3>3
    <3> QED BY <3>3, <3>4
  <2>4. 1 .. i + 1 \in SUBSET (1 .. n) /\ 1 .. i + 1 # {} /\ (1 .. i + 1) \ {i + 1} = 1 .. i
    <3>1. 1 .. i + 1 \in SUBSET (1 .. n)
      BY <1>1
    <3>2. \A x : x \in (1 .. i + 1) \ {i + 1} <=> x \in 1 .. i
      OBVIOUS
    <3>3. (1 .. i + 1) \ {i + 1} = 1 .. i
      BY <3>2, Zenon
    <3> QED BY <2>1, <3>1, <3>3
  <2> QED BY <2>3, <2>4
<1>2. 1 .. 0 = {} /\ 1 .. 0 \in SUBSET (1 .. n)
  OBVIOUS
<1> QED BY <1>1, <1>2

(* A set of positions has a largest one. *)
LEMMA LargestPosition ==
  ASSUME NEW n \in Nat, NEW s \in SUBSET (1 .. n), s # {}
  PROVE  Max(s) \in s
<1> DEFINE N == { k \in Nat : \E x \in s : k + x = n }
<1>1. N # {} /\ N \in SUBSET Nat
  <2>1. PICK x \in s : TRUE
    OBVIOUS
  <2>2. n - x \in Nat /\ (n - x) + x = n
    BY <2>1
  <2>3. n - x \in N
    BY <2>2
  <2> QED BY <2>3
<1>2. PICK k \in N : \A j \in N : k <= j
  BY <1>1, LeastNumber
<1>3. n - k \in s /\ \A y \in s : n - k >= y
  <2>1. k \in Nat /\ n - k \in s
    OBVIOUS
  <2>2. ASSUME NEW y \in s PROVE n - k >= y
    <3>1. n - y \in N
      OBVIOUS
    <3>2. k <= n - y
      BY <1>2, <3>1
    <3> QED BY <2>1, <3>2
  <2> QED BY <2>1, <2>2
<1> QED BY <1>3 DEF Max

(* A set that holds the last position has it as its largest. *)
LEMMA LargestOfAll ==
  ASSUME NEW n \in Nat, NEW s \in SUBSET (1 .. n + 1), n + 1 \in s
  PROVE  Max(s) = n + 1 /\ s \ {n + 1} \in SUBSET (1 .. n)
<1>1. \A x \in s : x \in Int /\ n + 1 >= x
  OBVIOUS
<1>2. \E x \in s : \A y \in s : x >= y
  BY <1>1
<1>3. Max(s) \in s /\ \A y \in s : Max(s) >= y
  BY <1>2 DEF Max
<1>4. PICK m \in s : m = Max(s) /\ \A y \in s : m >= y
  BY <1>3
<1>5. m = n + 1
  BY <1>1, <1>4
<1> QED BY <1>4, <1>5

(* Up to the nth element, g[s] is what folding the positions s gives. *)
Folds(f, base, es, n, g) ==
  g = [s \in SUBSET (1 .. n) |->
         IF s = {} THEN base ELSE f[<<g[s \ {Max(s)}], es[Max(s)]>>]]

(* FoldLeft is defined by a function on sets of positions: it exists. *)
LEMMA FoldExists ==
  ASSUME NEW V, NEW E, NEW f \in [V \X E -> V], NEW base \in V, NEW es \in Seq(E)
  PROVE  \E g : Folds(f, base, es, Len(es), g) /\ \A s \in SUBSET (1 .. Len(es)) : g[s] \in V
<1> DEFINE N == { k \in Nat : k <= Len(es) =>
                    \E g : Folds(f, base, es, k, g) /\ \A s \in SUBSET (1 .. k) : g[s] \in V }
<1>1. 0 \in N
  <2> DEFINE g == [s \in SUBSET (1 .. 0) |-> base]
  <2>1. \A s \in SUBSET (1 .. 0) : s = {}
    OBVIOUS
  <2>2. g = [s \in SUBSET (1 .. 0) |->
              IF s = {} THEN base ELSE f[<<g[s \ {Max(s)}], es[Max(s)]>>]]
    BY <2>1
  <2>3. Folds(f, base, es, 0, g) /\ \A s \in SUBSET (1 .. 0) : g[s] \in V
    BY <2>2 DEF Folds
  <2> QED BY <2>3
<1>2. ASSUME NEW k \in N PROVE k + 1 \in N
  <2>1. k \in Nat /\ k + 1 \in Nat
    OBVIOUS
  <2>2. SUFFICES ASSUME k + 1 <= Len(es)
                 PROVE  \E g : /\ Folds(f, base, es, k + 1, g)
                               /\ \A s \in SUBSET (1 .. k + 1) : g[s] \in V
    BY <2>1
  <2>3. k <= Len(es) /\ es[k + 1] \in E
    BY <2>1, <2>2
  <2>4. PICK g : Folds(f, base, es, k, g) /\ \A s \in SUBSET (1 .. k) : g[s] \in V
    BY <2>3
  <2> DEFINE h == [s \in SUBSET (1 .. k + 1) |->
                     IF k + 1 \in s THEN f[<<g[s \ {k + 1}], es[k + 1]>>] ELSE g[s]]
             Reading(s) == IF s = {} THEN base ELSE f[<<h[s \ {Max(s)}], es[Max(s)]>>]
  <2>5. ASSUME NEW s \in SUBSET (1 .. k + 1) PROVE h[s] = Reading(s) /\ h[s] \in V
    <3>1. CASE k + 1 \in s
      <4>1. Max(s) = k + 1 /\ s \ {k + 1} \in SUBSET (1 .. k)
        BY <2>1, <3>1, LargestOfAll
      <4>2. k + 1 \notin s \ {k + 1} /\ s \ {k + 1} \in SUBSET (1 .. k + 1)
        OBVIOUS
      <4>3. h[s \ {k + 1}] = g[s \ {k + 1}]
        BY <4>2
      <4>4. h[s] = f[<<g[s \ {k + 1}], es[k + 1]>>]
        BY <3>1
      <4>5. f[<<g[s \ {k + 1}], es[k + 1]>>] \in V
        <5>1. g[s \ {k + 1}] \in V
          BY <2>4, <4>1
        <5> QED BY <2>3, <5>1
      <4> HIDE DEF h
      <4> QED BY <3>1, <4>1, <4>3, <4>4, <4>5
    <3>2. CASE k + 1 \notin s
      <4>1. s \in SUBSET (1 .. k)
        BY <2>1, <3>2
      <4>2. h[s] = g[s] /\ g[s] \in V
        BY <2>4, <3>2, <4>1
      <4>3. g[s] = IF s = {} THEN base ELSE f[<<g[s \ {Max(s)}], es[Max(s)]>>]
        BY <2>4, <4>1 DEF Folds
      <4>4. h[s \ {Max(s)}] = g[s \ {Max(s)}]
        BY <3>2
      <4> HIDE DEF h
      <4> QED BY <4>2, <4>3, <4>4
    <3> QED BY <3>1, <3>2
  <2>6. h = [s \in SUBSET (1 .. k + 1) |-> h[s]]
    OBVIOUS
  <2> HIDE DEF h
  <2>7. h = [s \in SUBSET (1 .. k + 1) |-> Reading(s)]
    BY <2>5, <2>6
  <2>8. Folds(f, base, es, k + 1, h)
    BY <2>7 DEF Folds
  <2> QED BY <2>5, <2>8
<1> HIDE DEF N
<1>3. N \in SUBSET Nat
  BY DEF N
<1>4. Len(es) \in Nat /\ Len(es) <= Len(es)
  OBVIOUS
<1>5. Len(es) \in N
  BY <1>1, <1>2, <1>3, <1>4, NumberInduction
<1> QED BY <1>4, <1>5 DEF N

-----------------------------------------------------------------------------
(* The loops as functions, for the lemmas on folds. *)

(* A span holds its start and not its end. *)
Span == Int \X Int

(* The numbers of the days the walk visits. *)
Rank == Nat \ {0}

(* What the loop of compute_deadline carries. *)
Budget == [remaining : Int, answer : SUBSET Int]

(* What the loop of _subtract carries. *)
Walked == [parts : Seq(Span), cursor : Int, done : BOOLEAN]

(* Each loop as a function of what it carries and what it reads. *)
SpendFun == [x \in Budget \X Span |-> Spend(x[1], x[2])]

LengthFun == [x \in Int \X Span |-> AddLength(x[1], x[2])]

MergeFun == [x \in Seq(Span) \X Span |-> Merge(x[1], x[2])]

CutFun(segment) == [x \in Walked \X Span |-> Cut(segment, x[1], x[2])]

CutFold(segment, base, es) ==
  FoldLeft(LAMBDA walk, p : Cut(segment, walk, p), base, es)

PartsFun(merged) == [x \in Seq(Span) \X Span |-> Leave(merged, x[1], x[2])]

PartsFold(merged, base, es) ==
  FoldLeft(LAMBDA parts, segment : Leave(merged, parts, segment), base, es)

VisitFun(moment) == [x \in Seq(Span) \X Rank |-> Visit(moment, x[1], x[2])]

VisitFold(moment, base, es) ==
  FoldLeft(LAMBDA found, i : Visit(moment, found, i), base, es)

-----------------------------------------------------------------------------
(* Spans in order, and the ticks they cover. *)

(* The ticks the first i spans cover. *)
Prior(es, i) == { t \in Int : \E j \in 1 .. i : es[j][1] <= t /\ t < es[j][2] }

(* The ticks all of them do. *)
Covered(es) == Prior(es, Len(es))

(* Spans with ticks, each after the ones before it. *)
Ordered(es) ==
  \A i \in 1 .. Len(es) : /\ es[i][1] < es[i][2]
                          /\ \A j \in 1 .. i - 1 : es[j][2] <= es[i][1]

(* A span of a sequence is a pair of instants. *)
LEMMA SpanOf ==
  ASSUME NEW es \in Seq(Span), NEW k \in 1 .. Len(es)
  PROVE  es[k] \in Int \X Int
BY DEF Span

(* A span has as many ticks as it is long. *)
LEMMA SpanCount ==
  ASSUME NEW a \in Int, NEW b \in Int, a <= b
  PROVE  IsFiniteSet(a .. b - 1) /\ Cardinality(a .. b - 1) = b - a
<1>1. b - 1 \in Int /\ (a > b - 1 => b - a = 0) /\ (b - 1) - a + 1 = b - a
  OBVIOUS
<1>2. Cardinality(a .. b - 1) = IF a > b - 1 THEN 0 ELSE (b - 1) - a + 1
  BY <1>1, FS_Interval
<1>3. IsFiniteSet(a .. b - 1)
  BY <1>1, FS_Interval
<1> QED BY <1>1, <1>2, <1>3

(* The next span of an ordered sequence adds its ticks, all later than     *)
(* those before.                                                           *)
LEMMA PriorGrows ==
  ASSUME NEW es \in Seq(Span), Ordered(es), NEW i \in 0 .. Len(es) - 1
  PROVE  /\ i + 1 \in 1 .. Len(es) /\ es[i + 1][1] \in Int /\ es[i + 1][2] \in Int
         /\ es[i + 1][1] < es[i + 1][2]
         /\ Prior(es, i + 1) = Prior(es, i) \cup (es[i + 1][1] .. es[i + 1][2] - 1)
         /\ \A t \in Prior(es, i) : t < es[i + 1][1]
<1>1. i \in Nat /\ i + 1 \in 1 .. Len(es) /\ Len(es) \in Nat
  OBVIOUS
<1>2. es[i + 1] \in Int \X Int
  BY <1>1 DEF Span
<1>3. PICK a \in Int, b \in Int : a = es[i + 1][1] /\ b = es[i + 1][2]
  BY <1>2
<1>4. a < b
  BY <1>1, <1>3 DEF Ordered
<1>5. \A j \in 1 .. i + 1 : j \in 1 .. i \/ j = i + 1
  BY <1>1
<1>6. Prior(es, i + 1) = Prior(es, i) \cup (a .. b - 1)
  <2>1. ASSUME NEW t \in Int
        PROVE  t \in Prior(es, i + 1) <=> t \in Prior(es, i) \/ t \in a .. b - 1
    <3>1. t \in a .. b - 1 <=> a <= t /\ t < b
      OBVIOUS
    <3>2. 1 .. i \subseteq 1 .. i + 1 /\ i + 1 \in 1 .. i + 1
      BY <1>1
    <3> QED BY <1>3, <1>5, <3>1, <3>2 DEF Prior
  <2>2. a .. b - 1 \subseteq Int
    OBVIOUS
  <2> QED BY <2>1, <2>2 DEF Prior
<1>7. ASSUME NEW t \in Prior(es, i) PROVE t < a
  <2>1. PICK j \in 1 .. i : es[j][1] <= t /\ t < es[j][2]
    BY DEF Prior
  <2>2. j \in 1 .. (i + 1) - 1 /\ j \in 1 .. Len(es)
    BY <1>1
  <2>3. es[j][2] <= a
    BY <1>1, <1>3, <2>2 DEF Ordered
  <2>4. es[j][2] \in Int /\ t \in Int
    <3>1. j \in 1 .. Len(es)
      BY <2>2
    <3>2. es[j] \in Int \X Int
      BY <3>1, SpanOf
    <3>3. t \in Int
      BY DEF Prior
    <3> QED BY <3>2, <3>3
  <2> QED BY <2>1, <2>3, <2>4
<1> QED BY <1>1, <1>3, <1>4, <1>6, <1>7

(* No span, no tick. *)
LEMMA PriorNothing == \A es : Prior(es, 0) = {}
BY DEF Prior

(* The first spans of a sequence cover finitely many ticks. *)
LEMMA PriorFinite ==
  ASSUME NEW es \in Seq(Span), Ordered(es)
  PROVE  \A i \in 0 .. Len(es) : IsFiniteSet(Prior(es, i))
<1> DEFINE N == { i \in Nat : i <= Len(es) => IsFiniteSet(Prior(es, i)) }
<1>1. 0 \in N
  BY PriorNothing, FS_EmptySet
<1>2. ASSUME NEW i \in N PROVE i + 1 \in N
  <2>1. i \in Nat /\ i + 1 \in Nat
    OBVIOUS
  <2>2. SUFFICES ASSUME i + 1 <= Len(es) PROVE IsFiniteSet(Prior(es, i + 1))
    BY <2>1
  <2>3. IsFiniteSet(Prior(es, i)) /\ i \in 0 .. Len(es) - 1
    BY <2>1, <2>2
  <2>4. PICK a \in Int, b \in Int : a <= b /\ Prior(es, i + 1) = Prior(es, i) \cup (a .. b - 1)
    <3>1. /\ es[i + 1][1] \in Int /\ es[i + 1][2] \in Int /\ es[i + 1][1] < es[i + 1][2]
          /\ Prior(es, i + 1) = Prior(es, i) \cup (es[i + 1][1] .. es[i + 1][2] - 1)
      BY <2>3, PriorGrows
    <3>2. \A a, b \in Int : a < b => a <= b
      OBVIOUS
    <3> QED BY <3>1, <3>2, Zenon
  <2>5. IsFiniteSet(a .. b - 1)
    BY <2>4, SpanCount
  <2>6. IsFiniteSet(Prior(es, i) \cup (a .. b - 1))
    BY <2>3, <2>5, FS_Union
  <2> QED BY <2>4, <2>6, Zenon
<1> HIDE DEF N
<1>3. N \in SUBSET Nat
  BY DEF N
<1>4. \A i \in Nat : i \in N
  BY <1>1, <1>2, <1>3, NumberInduction
<1> QED BY <1>4 DEF N

(* A span after a set of ticks adds its length to their number. *)
LEMMA CountOfApart ==
  ASSUME NEW P, IsFiniteSet(P), NEW a \in Int, NEW b \in Int, a <= b, \A t \in P : t < a
  PROVE  /\ IsFiniteSet(P \cup (a .. b - 1))
         /\ Cardinality(P) \in Nat
         /\ Cardinality(P \cup (a .. b - 1)) = Cardinality(P) + (b - a)
<1>1. IsFiniteSet(a .. b - 1) /\ Cardinality(a .. b - 1) = b - a
  BY SpanCount
<1>2. P \cap (a .. b - 1) = {}
  OBVIOUS
<1>3. Cardinality(P) \in Nat /\ Cardinality({}) = 0
  BY FS_CardinalityType, FS_EmptySet
<1>4. /\ IsFiniteSet(P \cup (a .. b - 1))
      /\ Cardinality(P \cup (a .. b - 1)) = Cardinality(P) + (b - a) - Cardinality({})
  BY <1>1, <1>2, FS_Union
<1> QED BY <1>3, <1>4
-----------------------------------------------------------------------------
(* compute_deadline's loop over the parts left by the pauses. *)

(* The instants at which the ticks of S have come to the window.             *)
Reached(S, window) ==
  { d \in Int : d - 1 \in S /\ Cardinality({ t \in S : t < d }) = window }

(* The instant of a span from a to b, if any, n ticks into it. *)
Reaching(a, b, n) == { d \in a + 1 .. b : d = a + n }

(* A span after the ticks so far adds the instant at which they come to    *)
(* the window, if it holds that instant.                                   *)
LEMMA ReachedGrows ==
  ASSUME NEW P, IsFiniteSet(P), NEW a \in Int, NEW b \in Int, a < b,
         \A t \in P : t \in Int /\ t < a, NEW window \in Nat
  PROVE  /\ Reached(P, window) # {} => window <= Cardinality(P)
         /\ Reached(P \cup (a .. b - 1), window) =
              Reached(P, window) \cup Reaching(a, b, window - Cardinality(P))
<1> DEFINE Q == P \cup (a .. b - 1)
<1>1. Cardinality(P) \in Nat
  BY FS_CardinalityType
<1>2. ASSUME NEW d \in Reached(P, window) PROVE window <= Cardinality(P)
  <2>1. Cardinality({ t \in P : t < d }) <= Cardinality(P)
    BY FS_Subset
  <2> QED BY <2>1 DEF Reached
<1>3. ASSUME NEW d \in Int, d - 1 \in P
      PROVE  d \in Reached(Q, window) <=> d \in Reached(P, window)
  <2>1. { t \in Q : t < d } = { t \in P : t < d }
    <3>1. d - 1 < a
      BY <1>3
    <3>2. \A t \in a .. b - 1 : ~(t < d)
      BY <3>1
    <3> QED BY <3>2
  <2>2. d - 1 \in Q
    BY <1>3
  <2> HIDE DEF Q
  <2> QED BY <1>3, <2>1, <2>2 DEF Reached
<1>4. ASSUME NEW d \in Int, d - 1 \notin P
      PROVE  d \in Reached(Q, window) <=> d \in a + 1 .. b /\ d = a + (window - Cardinality(P))
  <2>1. d - 1 \in Q <=> d \in a + 1 .. b
    BY <1>4
  <2>2. ASSUME d \in a + 1 .. b
        PROVE  Cardinality({ t \in Q : t < d }) = Cardinality(P) + (d - a)
    <3>1. { t \in Q : t < d } = P \cup (a .. d - 1)
      <4>1. \A t \in P : t < d
        <5>1. \A t \in P : t \in Int /\ t < a
          OBVIOUS
        <5> QED BY <2>2, <5>1
      <4>2. \A t : t \in a .. b - 1 /\ t < d <=> t \in a .. d - 1
        BY <2>2
      <4> QED BY <4>1, <4>2, Zenon
    <3>2. a <= d
      BY <2>2
    <3> QED BY <3>1, <3>2, CountOfApart
  <2> HIDE DEF Q
  <2>3. CASE d \in a + 1 .. b
    <3>1. Cardinality(P) + (d - a) = window <=> d = a + (window - Cardinality(P))
      BY <1>1
    <3> QED BY <2>1, <2>2, <2>3, <3>1 DEF Reached
  <2>4. CASE d \notin a + 1 .. b
    BY <2>1, <2>4 DEF Reached
  <2> QED BY <2>3, <2>4
<1>5. ASSUME NEW d \in Int, d - 1 \in P
      PROVE  ~(d \in a + 1 .. b)
  <2>1. d - 1 < a
    BY <1>5
  <2> QED BY <2>1
<1>6. ASSUME NEW d \in Int
      PROVE  d \in Reached(Q, window) <=>
               \/ d \in Reached(P, window)
               \/ d \in Reaching(a, b, window - Cardinality(P))
  <2> HIDE DEF Q
  <2>1. CASE d - 1 \in P
    BY <1>3, <1>5, <2>1 DEF Reaching
  <2>2. CASE d - 1 \notin P
    BY <1>4, <2>2 DEF Reached, Reaching
  <2> QED BY <2>1, <2>2
<1> HIDE DEF Q
<1>7. Reached(Q, window) \subseteq Int /\ Reached(P, window) \subseteq Int
      /\ Reaching(a, b, window - Cardinality(P)) \subseteq Int
  BY DEF Reached, Reaching
<1>8. Reached(Q, window) =
        Reached(P, window) \cup Reaching(a, b, window - Cardinality(P))
  BY <1>6, <1>7
<1> QED BY <1>2, <1>8 DEF Q

(* What is left of the window after a part is again a budget. *)
LEMMA SpendType == SpendFun \in [Budget \X Span -> Budget]
<1>1. ASSUME NEW walk \in Budget, NEW part \in Span PROVE Spend(walk, part) \in Budget
  <2>1. part[1] \in Int /\ part[2] \in Int /\ part[2] - part[1] \in Int
    BY DEF Span
  <2> QED BY <2>1 DEF Spend, Budget
<1> QED BY <1>1 DEF SpendFun

(* The loop of compute_deadline, as the budget after each of its turns. *)
LEMMA SpendTrace ==
  ASSUME NEW base \in Budget, NEW es \in Seq(Span)
  PROVE  \E w : /\ w[0] = base /\ w[Len(es)] = FoldLeft(Spend, base, es)
                /\ \A i \in 0 .. Len(es) - 1 : w[i + 1] = Spend(w[i], es[i + 1])
<1> DEFINE n == Len(es)
           IsFold(h) == h = [s \in SUBSET (1 .. n) |->
                               IF s = {} THEN base ELSE Spend(h[s \ {Max(s)}], es[Max(s)])]
<1>1. n \in Nat /\ DOMAIN es = 1 .. n
  OBVIOUS
<1>2. \E h : IsFold(h)
  <2>1. PICK g : Folds(SpendFun, base, es, n, g) /\ \A s \in SUBSET (1 .. n) : g[s] \in Budget
    BY SpendType, FoldExists
  <2>2. ASSUME NEW s \in SUBSET (1 .. n), s # {}
        PROVE  SpendFun[<<g[s \ {Max(s)}], es[Max(s)]>>] = Spend(g[s \ {Max(s)}], es[Max(s)])
    <3>1. Max(s) \in 1 .. n /\ s \ {Max(s)} \in SUBSET (1 .. n)
      BY <1>1, <2>2, LargestPosition
    <3>2. g[s \ {Max(s)}] \in Budget /\ es[Max(s)] \in Span
      BY <2>1, <3>1
    <3> QED BY <3>2 DEF SpendFun
  <2>3. IsFold(g)
    BY <2>1, <2>2 DEF Folds
  <2> QED BY <2>3
<1>3. FoldLeft(Spend, base, es) = (CHOOSE h : IsFold(h))[1 .. n]
  <2>1. FoldLeft(Spend, base, es) = (CHOOSE h : h = [s \in SUBSET DOMAIN es |->
           IF s = {} THEN base ELSE Spend(h[s \ {Max(s)}], es[Max(s)])])[DOMAIN es]
    BY DEF FoldLeft, MapThenFoldSet
  <2> QED BY <1>1, <2>1, Zenon
<1>4. PICK h : IsFold(h) /\ FoldLeft(Spend, base, es) = h[1 .. n]
  <2> HIDE DEF IsFold
  <2> QED BY <1>2, <1>3
<1> DEFINE w == [i \in 0 .. n |-> h[1 .. i]]
<1>5. w[0] = base /\ w[n] = FoldLeft(Spend, base, es)
  <2>1. 1 .. 0 \in SUBSET (1 .. n) /\ 1 .. 0 = {} /\ 0 \in 0 .. n /\ n \in 0 .. n
    BY <1>1
  <2>2. h[1 .. 0] = base
    BY <1>4, <2>1
  <2> QED BY <1>4, <2>1, <2>2
<1>6. ASSUME NEW i \in 0 .. n - 1 PROVE w[i + 1] = Spend(w[i], es[i + 1])
  <2>1. /\ i \in Nat /\ i < n /\ i \in 0 .. n /\ i + 1 \in 0 .. n
    BY <1>1
  <2>2. /\ 1 .. i + 1 \in SUBSET (1 .. n) /\ 1 .. i + 1 # {}
        /\ Max(1 .. i + 1) = i + 1 /\ (1 .. i + 1) \ {i + 1} = 1 .. i
    BY <1>1, <2>1, PrefixPositions
  <2>3. h[1 .. i + 1] = Spend(h[1 .. i], es[i + 1])
    BY <1>4, <2>2
  <2> QED BY <2>1, <2>3
<1> HIDE DEF w
<1> QED BY <1>5, <1>6

(* The loop of compute_deadline over ordered parts answers the instant at  *)
(* which their ticks come to the window, and nothing when there are too    *)
(* few: while it has no answer, what remains is the window less the ticks  *)
(* of the parts it has seen.                                               *)
LEMMA SpendReaches ==
  ASSUME NEW es \in Seq(Span), Ordered(es), NEW window \in Nat \ {0}
  PROVE  FoldLeft(Spend, [remaining |-> window, answer |-> {}], es).answer
           = Reached(Covered(es), window)
<1> DEFINE base == [remaining |-> window, answer |-> {}]
<1>1. base \in Budget
  BY DEF Budget
<1> HIDE DEF base
<1>2. PICK w : /\ w[0] = base /\ w[Len(es)] = FoldLeft(Spend, base, es)
               /\ \A i \in 0 .. Len(es) - 1 : w[i + 1] = Spend(w[i], es[i + 1])
  BY <1>1, SpendTrace
<1> DEFINE Sound(i) == /\ w[i] \in Budget
                       /\ w[i].answer = Reached(Prior(es, i), window)
                       /\ w[i].answer = {} => /\ w[i].remaining = window - Cardinality(Prior(es, i))
                                              /\ w[i].remaining > 0
           N == { i \in Nat : i <= Len(es) => Sound(i) }
<1>3. 0 \in N
  <2>1. Reached({}, window) = {} /\ Cardinality({}) = 0
    BY FS_EmptySet DEF Reached
  <2>2. w[0].answer = {} /\ w[0].remaining = window
    BY <1>2 DEF base
  <2>3. Prior(es, 0) = {}
    BY PriorNothing
  <2>4. Sound(0)
    <3>1. window = window - 0 /\ window > 0
      OBVIOUS
    <3> QED BY <1>1, <1>2, <2>1, <2>2, <2>3, <3>1
  <2> QED BY <2>4
<1>4. ASSUME NEW i \in N PROVE i + 1 \in N
  <2>1. i \in Nat /\ i + 1 \in Nat
    OBVIOUS
  <2>2. SUFFICES ASSUME i + 1 <= Len(es) PROVE Sound(i + 1)
    BY <2>1
  <2>3. Sound(i) /\ i \in 0 .. Len(es) - 1 /\ i \in 0 .. Len(es) /\ i + 1 \in 1 .. Len(es)
    BY <2>1, <2>2
  <2>4. PICK a \in Int, b \in Int :
          /\ a = es[i + 1][1] /\ b = es[i + 1][2] /\ a < b
          /\ Prior(es, i + 1) = Prior(es, i) \cup (a .. b - 1)
          /\ \A t \in Prior(es, i) : t < a
    BY <2>3, PriorGrows
  <2> DEFINE P == Prior(es, i)
             n == Cardinality(P)
  <2>5. P \in SUBSET Int /\ IsFiniteSet(P)
    BY <2>3, PriorFinite DEF Prior
  <2>6. n \in Nat /\ Cardinality(Prior(es, i + 1)) = n + (b - a)
    <3>1. a <= b /\ IsFiniteSet(P) /\ \A t \in P : t < a
      BY <2>4, <2>5
    <3> HIDE DEF P
    <3>2. /\ Cardinality(P) \in Nat
          /\ Cardinality(P \cup (a .. b - 1)) = Cardinality(P) + (b - a)
      BY <3>1, CountOfApart
    <3> QED BY <2>4, <3>2 DEF P
  <2>7. /\ Reached(P, window) # {} => window <= n
        /\ Reached(Prior(es, i + 1), window) =
             Reached(P, window) \cup Reaching(a, b, window - n)
    <3>1. /\ \A t \in P : t \in Int /\ t < a
          /\ IsFiniteSet(P) /\ a < b /\ window \in Nat
      BY <2>4, <2>5
    <3> HIDE DEF P
    <3>2. /\ Reached(P, window) # {} => window <= Cardinality(P)
          /\ Reached(P \cup (a .. b - 1), window) =
               Reached(P, window) \cup Reaching(a, b, window - Cardinality(P))
      BY <3>1, ReachedGrows, ZenonT(60)
    <3> QED BY <2>4, <3>2 DEF P
  <2>8. w[i + 1] = Spend(w[i], es[i + 1]) /\ w[i] \in Budget
    BY <1>2, <2>3
  <2>9. es[i + 1] \in Span
    BY <2>3
  <2>10. w[i + 1] \in Budget
    <3>1. SpendFun[<<w[i], es[i + 1]>>] = Spend(w[i], es[i + 1])
      BY <2>8, <2>9 DEF SpendFun
    <3>2. SpendFun[<<w[i], es[i + 1]>>] \in Budget
      BY <2>8, <2>9, SpendType
    <3> QED BY <2>8, <3>1, <3>2
  <2> HIDE DEF P, n
  <2>11. CASE w[i].answer # {}
    <3>1. w[i + 1] = w[i]
      BY <2>8, <2>11 DEF Spend
    <3>2. window <= n
      BY <2>3, <2>7, <2>11 DEF P
    <3>3. Reaching(a, b, window - n) = {}
      BY <2>6, <3>2 DEF Reaching
    <3> QED BY <2>3, <2>7, <2>10, <2>11, <3>1, <3>3 DEF P
  <2>12. CASE w[i].answer = {} /\ b - a >= window - n
    <3>1. w[i].remaining = window - n /\ window - n > 0
      BY <2>3, <2>12 DEF n, P
    <3>2. w[i + 1].answer = {a + (window - n)}
      BY <2>4, <2>8, <2>12, <3>1 DEF Spend, Budget
    <3>3. Reaching(a, b, window - n) = {a + (window - n)}
      <4>1. n \in Nat /\ a + (window - n) \in a + 1 .. b
        BY <2>6, <2>12, <3>1
      <4>2. \A d : d \in Reaching(a, b, window - n) <=> d = a + (window - n)
        BY <4>1 DEF Reaching
      <4> QED BY <4>2, Zenon
    <3>4. Reached(P, window) = {}
      BY <2>3, <2>12 DEF P
    <3> QED BY <2>7, <2>10, <3>2, <3>3, <3>4
  <2>13. CASE w[i].answer = {} /\ ~(b - a >= window - n)
    <3>1. w[i].remaining = window - n /\ window - n > 0
      BY <2>3, <2>13 DEF n, P
    <3>2. w[i + 1].answer = {} /\ w[i + 1].remaining = window - n - (b - a)
      BY <2>4, <2>8, <2>13, <3>1 DEF Spend, Budget
    <3>3. Reaching(a, b, window - n) = {}
      BY <2>6, <2>13 DEF Reaching
    <3>4. Reached(P, window) = {}
      BY <2>3, <2>13 DEF P
    <3>5. window - n - (b - a) = window - (n + (b - a)) /\ window - n - (b - a) > 0
      BY <2>6, <2>13
    <3> QED BY <2>6, <2>7, <2>10, <3>2, <3>3, <3>4, <3>5
  <2> QED BY <2>11, <2>12, <2>13
<1> HIDE DEF N
<1>5. N \in SUBSET Nat
  BY DEF N
<1>6. Len(es) \in Nat /\ Len(es) <= Len(es)
  OBVIOUS
<1>7. Len(es) \in N
  BY <1>3, <1>4, <1>5, <1>6, NumberInduction
<1> QED BY <1>2, <1>6, <1>7 DEF N, Covered, base
(* The sum of the lengths is the number of ticks. *)
LEMMA LengthType == LengthFun \in [Int \X Span -> Int]
<1>1. ASSUME NEW total \in Int, NEW part \in Span PROVE AddLength(total, part) \in Int
  <2>1. part[1] \in Int /\ part[2] \in Int
    BY DEF Span
  <2> QED BY <2>1 DEF AddLength
<1> QED BY <1>1 DEF LengthFun

(* The sum of business_time_between, after each part. *)
LEMMA LengthTrace ==
  ASSUME NEW base \in Int, NEW es \in Seq(Span)
  PROVE  \E w : /\ w[0] = base /\ w[Len(es)] = FoldLeft(AddLength, base, es)
                /\ \A i \in 0 .. Len(es) - 1 : w[i + 1] = AddLength(w[i], es[i + 1])
<1> DEFINE n == Len(es)
           IsFold(h) == h = [s \in SUBSET (1 .. n) |->
                               IF s = {} THEN base ELSE AddLength(h[s \ {Max(s)}], es[Max(s)])]
<1>1. n \in Nat /\ DOMAIN es = 1 .. n
  OBVIOUS
<1>2. \E h : IsFold(h)
  <2>1. PICK g : Folds(LengthFun, base, es, n, g) /\ \A s \in SUBSET (1 .. n) : g[s] \in Int
    BY LengthType, FoldExists
  <2>2. ASSUME NEW s \in SUBSET (1 .. n), s # {}
        PROVE  LengthFun[<<g[s \ {Max(s)}], es[Max(s)]>>] = AddLength(g[s \ {Max(s)}], es[Max(s)])
    <3>1. Max(s) \in 1 .. n /\ s \ {Max(s)} \in SUBSET (1 .. n)
      BY <1>1, <2>2, LargestPosition
    <3>2. g[s \ {Max(s)}] \in Int /\ es[Max(s)] \in Span
      BY <2>1, <3>1
    <3> QED BY <3>2 DEF LengthFun
  <2>3. IsFold(g)
    BY <2>1, <2>2 DEF Folds
  <2> QED BY <2>3
<1>3. FoldLeft(AddLength, base, es) = (CHOOSE h : IsFold(h))[1 .. n]
  <2>1. FoldLeft(AddLength, base, es) = (CHOOSE h : h = [s \in SUBSET DOMAIN es |->
           IF s = {} THEN base ELSE AddLength(h[s \ {Max(s)}], es[Max(s)])])[DOMAIN es]
    BY DEF FoldLeft, MapThenFoldSet
  <2> QED BY <1>1, <2>1, Zenon
<1>4. PICK h : IsFold(h) /\ FoldLeft(AddLength, base, es) = h[1 .. n]
  <2> HIDE DEF IsFold
  <2> QED BY <1>2, <1>3
<1> DEFINE w == [i \in 0 .. n |-> h[1 .. i]]
<1>5. w[0] = base /\ w[n] = FoldLeft(AddLength, base, es)
  <2>1. 1 .. 0 \in SUBSET (1 .. n) /\ 1 .. 0 = {} /\ 0 \in 0 .. n /\ n \in 0 .. n
    BY <1>1
  <2>2. h[1 .. 0] = base
    BY <1>4, <2>1
  <2> QED BY <1>4, <2>1, <2>2
<1>6. ASSUME NEW i \in 0 .. n - 1 PROVE w[i + 1] = AddLength(w[i], es[i + 1])
  <2>1. /\ i \in Nat /\ i < n /\ i \in 0 .. n /\ i + 1 \in 0 .. n
    BY <1>1
  <2>2. /\ 1 .. i + 1 \in SUBSET (1 .. n) /\ 1 .. i + 1 # {}
        /\ Max(1 .. i + 1) = i + 1 /\ (1 .. i + 1) \ {i + 1} = 1 .. i
    BY <1>1, <2>1, PrefixPositions
  <2>3. h[1 .. i + 1] = AddLength(h[1 .. i], es[i + 1])
    BY <1>4, <2>2
  <2> QED BY <2>1, <2>3
<1> HIDE DEF w
<1> QED BY <1>5, <1>6

(* The lengths of ordered parts add up to the number of their ticks. *)
LEMMA LengthsAddUp ==
  ASSUME NEW es \in Seq(Span), Ordered(es)
  PROVE  FoldLeft(AddLength, 0, es) = Cardinality(Covered(es))
<1> DEFINE base == 0
<1>0. base \in Int
  OBVIOUS
<1> HIDE DEF base
<1>1. PICK w : /\ w[0] = base /\ w[Len(es)] = FoldLeft(AddLength, base, es)
               /\ \A i \in 0 .. Len(es) - 1 : w[i + 1] = AddLength(w[i], es[i + 1])
  BY <1>0, LengthTrace
<1> DEFINE N == { i \in Nat : i <= Len(es) => w[i] = Cardinality(Prior(es, i)) }
<1>2. 0 \in N
  BY <1>1, PriorNothing, FS_EmptySet DEF base
<1>3. ASSUME NEW i \in N PROVE i + 1 \in N
  <2>1. i \in Nat /\ i + 1 \in Nat
    OBVIOUS
  <2>2. SUFFICES ASSUME i + 1 <= Len(es) PROVE w[i + 1] = Cardinality(Prior(es, i + 1))
    BY <2>1
  <2>3. w[i] = Cardinality(Prior(es, i)) /\ i \in 0 .. Len(es) - 1 /\ i \in 0 .. Len(es)
    BY <2>1, <2>2
  <2>4. PICK a \in Int, b \in Int :
          /\ a = es[i + 1][1] /\ b = es[i + 1][2] /\ a < b
          /\ Prior(es, i + 1) = Prior(es, i) \cup (a .. b - 1)
          /\ \A t \in Prior(es, i) : t < a
    BY <2>3, PriorGrows
  <2>5. IsFiniteSet(Prior(es, i))
    BY <2>3, PriorFinite
  <2>6. /\ Cardinality(Prior(es, i)) \in Nat
        /\ Cardinality(Prior(es, i + 1)) = Cardinality(Prior(es, i)) + (b - a)
    <3>1. a <= b /\ \A t \in Prior(es, i) : t < a
      BY <2>4
    <3>2. /\ Cardinality(Prior(es, i)) \in Nat
          /\ Cardinality(Prior(es, i) \cup (a .. b - 1)) = Cardinality(Prior(es, i)) + (b - a)
      BY <2>5, <3>1, CountOfApart
    <3> QED BY <2>4, <3>2
  <2>7. w[i + 1] = w[i] + b - a
    BY <1>1, <2>3, <2>4 DEF AddLength
  <2> QED BY <2>3, <2>6, <2>7
<1> HIDE DEF N
<1>4. N \in SUBSET Nat
  BY DEF N
<1>5. Len(es) \in Nat /\ Len(es) <= Len(es)
  OBVIOUS
<1>6. Len(es) \in N
  BY <1>2, <1>3, <1>4, <1>5, NumberInduction
<1> QED BY <1>1, <1>5, <1>6 DEF N, Covered, base

-----------------------------------------------------------------------------
(* Parts are appended in order. *)

(* Ordered spans after ordered spans are ordered, and cover both. *)
LEMMA JoinOrdered ==
  ASSUME NEW r \in Seq(Span), NEW q \in Seq(Span), Ordered(r), Ordered(q),
         \A i \in 1 .. Len(r), j \in 1 .. Len(q) : r[i][2] <= q[j][1]
  PROVE  /\ r \o q \in Seq(Span) /\ Ordered(r \o q)
         /\ Covered(r \o q) = Covered(r) \cup Covered(q)
<1> DEFINE n == Len(r)
           m == Len(q)
           z == r \o q
<1>1. /\ z \in Seq(Span) /\ Len(z) = n + m /\ n \in Nat /\ m \in Nat
      /\ \A i \in 1 .. n : z[i] = r[i]
      /\ \A i \in n + 1 .. n + m : z[i] = q[i - n]
  OBVIOUS
<1> HIDE DEF z
<1>2. ASSUME NEW i \in 1 .. n + m
      PROVE  /\ z[i][1] < z[i][2]
             /\ \A j \in 1 .. i - 1 : z[j][2] <= z[i][1]
  <2>1. CASE i \in 1 .. n
    <3>1. \A j \in 1 .. i - 1 : j \in 1 .. n /\ z[j] = r[j]
      BY <1>1, <2>1
    <3> QED BY <1>1, <2>1, <3>1 DEF Ordered
  <2>2. CASE i \in n + 1 .. n + m
    <3>1. i - n \in 1 .. m /\ z[i] = q[i - n]
      BY <1>1, <2>2
    <3>2. z[i][1] < z[i][2]
      BY <3>1 DEF Ordered
    <3>3. ASSUME NEW j \in 1 .. i - 1 PROVE z[j][2] <= z[i][1]
      <4>1. CASE j \in 1 .. n
        BY <1>1, <3>1, <4>1
      <4>2. CASE j \in n + 1 .. n + m
        <5>1. j - n \in 1 .. (i - n) - 1 /\ z[j] = q[j - n]
          BY <1>1, <2>2, <4>2
        <5> QED BY <3>1, <5>1 DEF Ordered
      <4>3. j \in 1 .. n \/ j \in n + 1 .. n + m
        BY <1>1
      <4> QED BY <4>1, <4>2, <4>3
    <3> QED BY <3>2, <3>3
  <2>3. i \in 1 .. n \/ i \in n + 1 .. n + m
    BY <1>1
  <2> QED BY <2>1, <2>2, <2>3
<1>3. Ordered(z)
  BY <1>1, <1>2 DEF Ordered
<1>4. ASSUME NEW t \in Int PROVE t \in Covered(z) <=> t \in Covered(r) \/ t \in Covered(q)
  <2>1. ASSUME t \in Covered(z) PROVE t \in Covered(r) \/ t \in Covered(q)
    <3>1. PICK i \in 1 .. n + m : z[i][1] <= t /\ t < z[i][2]
      BY <1>1, <2>1 DEF Covered, Prior
    <3>2. CASE i \in 1 .. n
      BY <1>1, <3>1, <3>2 DEF Covered, Prior
    <3>3. CASE i \in n + 1 .. n + m
      <4>1. i - n \in 1 .. m /\ z[i] = q[i - n]
        BY <1>1, <3>3
      <4> QED BY <3>1, <4>1 DEF Covered, Prior
    <3>4. i \in 1 .. n \/ i \in n + 1 .. n + m
      BY <1>1
    <3> QED BY <3>2, <3>3, <3>4
  <2>2. ASSUME t \in Covered(r) PROVE t \in Covered(z)
    <3>1. PICK i \in 1 .. n : r[i][1] <= t /\ t < r[i][2]
      BY <2>2 DEF Covered, Prior
    <3>2. i \in 1 .. n + m /\ z[i] = r[i]
      BY <1>1
    <3> QED BY <1>1, <3>1, <3>2 DEF Covered, Prior
  <2>3. ASSUME t \in Covered(q) PROVE t \in Covered(z)
    <3>1. PICK i \in 1 .. m : q[i][1] <= t /\ t < q[i][2]
      BY <2>3 DEF Covered, Prior
    <3>2. i + n \in n + 1 .. n + m /\ i + n \in 1 .. n + m /\ (i + n) - n = i
      BY <1>1
    <3>3. z[i + n] = q[i]
      BY <1>1, <3>2
    <3> QED BY <1>1, <3>1, <3>2, <3>3 DEF Covered, Prior
  <2> QED BY <2>1, <2>2, <2>3
<1>5. Covered(z) \subseteq Int /\ Covered(r) \subseteq Int /\ Covered(q) \subseteq Int
  BY DEF Covered, Prior
<1>6. Covered(z) = Covered(r) \cup Covered(q)
  BY <1>4, <1>5
<1> QED BY <1>1, <1>3, <1>6 DEF z

(* One span is ordered, and covers its ticks. *)
LEMMA OneSpan ==
  ASSUME NEW a \in Int, NEW b \in Int, a < b
  PROVE  /\ <<(<<a, b>>)>> \in Seq(Span) /\ Ordered(<<(<<a, b>>)>>)
         /\ Covered(<<(<<a, b>>)>>) = a .. b - 1
<1> DEFINE one == <<(<<a, b>>)>>
<1>1. one \in Seq(Span) /\ Len(one) = 1 /\ one[1][1] = a /\ one[1][2] = b
  BY DEF Span
<1> HIDE DEF one
<1>2. \A i \in 1 .. 1 : i = 1 /\ 1 .. i - 1 = {}
  OBVIOUS
<1>3. Ordered(one)
  BY <1>1, <1>2 DEF Ordered
<1>4. \A t : t \in Covered(one) <=> t \in a .. b - 1
  BY <1>1, <1>2 DEF Covered, Prior
<1> QED BY <1>1, <1>3, <1>4, Zenon DEF one

(* A span appended after ordered spans. *)
LEMMA AppendOrdered ==
  ASSUME NEW r \in Seq(Span), Ordered(r), NEW a \in Int, NEW b \in Int, a < b,
         \A i \in 1 .. Len(r) : r[i][2] <= a
  PROVE  /\ Append(r, <<a, b>>) \in Seq(Span) /\ Ordered(Append(r, <<a, b>>))
         /\ Covered(Append(r, <<a, b>>)) = Covered(r) \cup (a .. b - 1)
         /\ Len(Append(r, <<a, b>>)) = Len(r) + 1
         /\ Append(r, <<a, b>>)[Len(r) + 1] = <<a, b>>
         /\ \A i \in 1 .. Len(r) : Append(r, <<a, b>>)[i] = r[i]
<1>1. PICK one : one = <<(<<a, b>>)>>
  OBVIOUS
<1>2. <<a, b>> \in Span
  BY DEF Span
<1>3. Append(r, <<a, b>>) = r \o one
  BY <1>1, <1>2, AppendIsConcat, Zenon
<1>4. one \in Seq(Span) /\ Ordered(one) /\ Covered(one) = a .. b - 1
  BY <1>1, OneSpan
<1>5. \A i \in 1 .. Len(r), j \in 1 .. Len(one) : r[i][2] <= one[j][1]
  <2>1. Len(one) = 1 /\ one[1][1] = a
    BY <1>1
  <2> QED BY <2>1
<1>6. r \o one \in Seq(Span) /\ Ordered(r \o one) /\ Covered(r \o one) = Covered(r) \cup Covered(one)
  BY <1>4, <1>5, JoinOrdered
<1>7. /\ Len(Append(r, <<a, b>>)) = Len(r) + 1
      /\ Append(r, <<a, b>>)[Len(r) + 1] = <<a, b>>
      /\ \A i \in 1 .. Len(r) : Append(r, <<a, b>>)[i] = r[i]
  BY <1>2
<1> QED BY <1>3, <1>4, <1>6, <1>7
-----------------------------------------------------------------------------
(* What _subtract leaves of a segment. *)

(* A turn of the loop of _subtract leaves parts, a cursor and a flag. *)
LEMMA CutType ==
  ASSUME NEW segment \in Span
  PROVE  CutFun(segment) \in [Walked \X Span -> Walked]
<1>1. ASSUME NEW walk \in Walked, NEW p \in Span PROVE Cut(segment, walk, p) \in Walked
  <2>1. /\ p[1] \in Int /\ p[2] \in Int /\ segment[1] \in Int /\ segment[2] \in Int
        /\ walk.parts \in Seq(Span) /\ walk.cursor \in Int /\ walk.done \in BOOLEAN
    BY DEF Span, Walked
  <2>2. <<walk.cursor, Earlier(p[1], segment[2])>> \in Span
    BY <2>1 DEF Span, Earlier
  <2>3. Append(walk.parts, <<walk.cursor, Earlier(p[1], segment[2])>>) \in Seq(Span)
    BY <2>1, <2>2
  <2>4. [walk EXCEPT !.done = TRUE] \in Walked
    BY DEF Walked
  <2>5. (p[2] >= segment[2]) \in BOOLEAN
    BY <2>1
  <2>6. ASSUME NEW parts \in Seq(Span)
        PROVE  [parts |-> parts, cursor |-> p[2], done |-> p[2] >= segment[2]] \in Walked
    BY <2>1, <2>5 DEF Walked
  <2> QED BY <2>1, <2>3, <2>4, <2>6 DEF Cut
<1> QED BY <1>1 DEF CutFun

(* The loop of _subtract, after each pause. *)
LEMMA CutTrace ==
  ASSUME NEW segment \in Span, NEW base \in Walked, NEW es \in Seq(Span)
  PROVE  \E w : /\ w[0] = base /\ w[Len(es)] = CutFold(segment, base, es)
                /\ \A i \in 0 .. Len(es) - 1 : w[i + 1] = Cut(segment, w[i], es[i + 1])
<1> DEFINE n == Len(es)
           IsFold(h) == h = [s \in SUBSET (1 .. n) |->
                               IF s = {} THEN base ELSE Cut(segment, h[s \ {Max(s)}], es[Max(s)])]
<1>1. n \in Nat /\ DOMAIN es = 1 .. n
  OBVIOUS
<1>2. \E h : IsFold(h)
  <2>1. PICK g : Folds(CutFun(segment), base, es, n, g) /\ \A s \in SUBSET (1 .. n) : g[s] \in Walked
    BY CutType, FoldExists
  <2>2. ASSUME NEW s \in SUBSET (1 .. n), s # {}
        PROVE  CutFun(segment)[<<g[s \ {Max(s)}], es[Max(s)]>>] = Cut(segment, g[s \ {Max(s)}], es[Max(s)])
    <3>1. Max(s) \in 1 .. n /\ s \ {Max(s)} \in SUBSET (1 .. n)
      BY <1>1, <2>2, LargestPosition
    <3>2. g[s \ {Max(s)}] \in Walked /\ es[Max(s)] \in Span
      BY <2>1, <3>1
    <3> QED BY <3>2 DEF CutFun
  <2>3. IsFold(g)
    BY <2>1, <2>2 DEF Folds
  <2> QED BY <2>3
<1>3. CutFold(segment, base, es) = (CHOOSE h : IsFold(h))[1 .. n]
  <2>1. CutFold(segment, base, es) = (CHOOSE h : h = [s \in SUBSET DOMAIN es |->
           IF s = {} THEN base ELSE Cut(segment, h[s \ {Max(s)}], es[Max(s)])])[DOMAIN es]
    BY DEF CutFold, FoldLeft, MapThenFoldSet
  <2> QED BY <1>1, <2>1, Zenon
<1>4. PICK h : IsFold(h) /\ CutFold(segment, base, es) = h[1 .. n]
  <2> HIDE DEF IsFold
  <2> QED BY <1>2, <1>3
<1> DEFINE w == [i \in 0 .. n |-> h[1 .. i]]
<1>5. w[0] = base /\ w[n] = CutFold(segment, base, es)
  <2>1. 1 .. 0 \in SUBSET (1 .. n) /\ 1 .. 0 = {} /\ 0 \in 0 .. n /\ n \in 0 .. n
    BY <1>1
  <2>2. h[1 .. 0] = base
    BY <1>4, <2>1
  <2> QED BY <1>4, <2>1, <2>2
<1>6. ASSUME NEW i \in 0 .. n - 1 PROVE w[i + 1] = Cut(segment, w[i], es[i + 1])
  <2>1. /\ i \in Nat /\ i < n /\ i \in 0 .. n /\ i + 1 \in 0 .. n
    BY <1>1
  <2>2. /\ 1 .. i + 1 \in SUBSET (1 .. n) /\ 1 .. i + 1 # {}
        /\ Max(1 .. i + 1) = i + 1 /\ (1 .. i + 1) \ {i + 1} = 1 .. i
    BY <1>1, <2>1, PrefixPositions
  <2>3. h[1 .. i + 1] = Cut(segment, h[1 .. i], es[i + 1])
    BY <1>4, <2>2
  <2> QED BY <2>1, <2>3
<1> HIDE DEF w
<1> QED BY <1>5, <1>6

(* The parts so far, the cursor up to which the first i pauses have been cut *)
(* out of a segment from a to b, and whether no later one matters.           *)
CutSoFar(parts, c, done, a, b, merged, i) ==
  /\ Ordered(parts) /\ a <= c
  /\ \A k \in 1 .. Len(parts) : a <= parts[k][1] /\ parts[k][2] <= c /\ parts[k][2] <= b
  /\ c = a \/ \E k \in 1 .. i : c = merged[k][2]
  /\ \A t \in Int : t \in Covered(parts) <=> a <= t /\ t < c /\ t < b /\ t \notin Prior(merged, i)
  /\ \A t \in Int : c <= t /\ t < b => t \notin Prior(merged, i)
  /\ done => c >= b \/ \E k \in 1 .. i : merged[k][1] >= b

(* One turn of the loop of _subtract keeps CutSoFar, for one pause more. *)
LEMMA CutGoesOn ==
  ASSUME NEW segment \in Span, NEW a \in Int, NEW b \in Int, segment[1] = a, segment[2] = b,
         a < b, NEW merged \in Seq(Span), Ordered(merged), NEW i \in 0 .. Len(merged) - 1,
         NEW walk \in Walked, CutSoFar(walk.parts, walk.cursor, walk.done, a, b, merged, i)
  PROVE  LET next == Cut(segment, walk, merged[i + 1])
         IN  /\ next \in Walked
             /\ CutSoFar(next.parts, next.cursor, next.done, a, b, merged, i + 1)
<1> DEFINE next == Cut(segment, walk, merged[i + 1])
<1>1. PICK parts \in Seq(Span), c \in Int, done \in BOOLEAN :
        parts = walk.parts /\ c = walk.cursor /\ done = walk.done
  BY DEF Walked
<1>2. CutSoFar(parts, c, done, a, b, merged, i)
  BY <1>1
<1>3. PICK from \in Int, to \in Int :
        /\ from = merged[i + 1][1] /\ to = merged[i + 1][2] /\ from < to
        /\ Prior(merged, i + 1) = Prior(merged, i) \cup (from .. to - 1)
        /\ \A t \in Prior(merged, i) : t < from
  BY PriorGrows
<1>4. merged[i + 1] \in Span /\ i \in Nat /\ i + 1 \in 1 .. i + 1
      /\ \A k \in 1 .. i : k \in 1 .. i + 1
  OBVIOUS
<1>5. ASSUME NEW k \in 1 .. i
      PROVE  /\ merged[k][1] \in Int /\ merged[k][2] \in Int
             /\ merged[k][1] < merged[k][2] /\ merged[k][2] <= from
  <2>1. k \in 1 .. Len(merged) /\ k \in 1 .. (i + 1) - 1 /\ i + 1 \in 1 .. Len(merged)
    BY <1>4
  <2>2. merged[k] \in Int \X Int
    BY <2>1 DEF Span
  <2>3. merged[k][1] < merged[k][2] /\ merged[k][2] <= merged[i + 1][1]
    BY <2>1 DEF Ordered
  <2> QED BY <1>3, <2>2, <2>3
<1>6. c = a \/ c <= from
  BY <1>2, <1>5 DEF CutSoFar
<1>7. done => c >= b \/ from >= b
  <2>1. ASSUME NEW k \in 1 .. i, merged[k][1] >= b PROVE from >= b
    BY <1>5, <2>1
  <2> QED BY <1>2, <2>1 DEF CutSoFar
<1>8. next \in Walked
  <2>1. CutFun(segment)[<<walk, merged[i + 1]>>] = next
    BY <1>4 DEF CutFun
  <2>2. CutFun(segment)[<<walk, merged[i + 1]>>] \in Walked
    BY <1>4, CutType
  <2> QED BY <2>1, <2>2
<1>9. a <= c /\ Ordered(parts)
  BY <1>2 DEF CutSoFar
<1>10. ASSUME NEW k \in 1 .. Len(parts)
       PROVE  parts[k][2] \in Int /\ a <= parts[k][1] /\ parts[k][2] <= c /\ parts[k][2] <= b
  <2>1. parts[k] \in Int \X Int
    BY DEF Span
  <2> QED BY <1>2, <2>1 DEF CutSoFar
<1>11. ASSUME NEW t \in Int
       PROVE  /\ t \in Covered(parts) <=> a <= t /\ t < c /\ t < b /\ t \notin Prior(merged, i)
              /\ c <= t /\ t < b => t \notin Prior(merged, i)
              /\ t \in Prior(merged, i + 1) <=> t \in Prior(merged, i) \/ (from <= t /\ t < to)
  <2>1. t \in from .. to - 1 <=> from <= t /\ t < to
    OBVIOUS
  <2> QED BY <1>2, <1>3, <2>1 DEF CutSoFar
<1> HIDE DEF next
<1>13. CASE to <= c
  <2>1. next = walk
    BY <1>1, <1>3, <1>13 DEF next, Cut
  <2>2. c = a
    BY <1>3, <1>6, <1>13
  <2>3. \A t \in Int : t \in Covered(parts) <=>
                         a <= t /\ t < c /\ t < b /\ t \notin Prior(merged, i + 1)
    BY <1>11, <2>2
  <2>4. \A t \in Int : c <= t /\ t < b => t \notin Prior(merged, i + 1)
    BY <1>11, <1>13
  <2>5. done => c >= b \/ \E k \in 1 .. i + 1 : merged[k][1] >= b
    BY <1>2, <1>4 DEF CutSoFar
  <2>6. CutSoFar(parts, c, done, a, b, merged, i + 1)
    BY <1>9, <1>10, <2>2, <2>3, <2>4, <2>5 DEF CutSoFar
  <2> QED BY <1>1, <1>8, <2>1, <2>6 DEF next
<1>14. CASE ~(to <= c) /\ (done \/ from >= b)
  <2>1. next = [walk EXCEPT !.done = TRUE]
    BY <1>1, <1>3, <1>14 DEF next, Cut
  <2>2. next.parts = parts /\ next.cursor = c /\ next.done = TRUE
    BY <1>1, <2>1 DEF Walked
  <2>3. \A t \in Int : t \in Covered(parts) <=>
                         a <= t /\ t < c /\ t < b /\ t \notin Prior(merged, i + 1)
    BY <1>6, <1>11
  <2>4. \A t \in Int : c <= t /\ t < b => t \notin Prior(merged, i + 1)
    BY <1>7, <1>11, <1>14
  <2>5. c >= b \/ \E k \in 1 .. i + 1 : merged[k][1] >= b
    BY <1>3, <1>4, <1>7, <1>14
  <2>6. c = a \/ \E k \in 1 .. i + 1 : c = merged[k][2]
    BY <1>2, <1>4 DEF CutSoFar
  <2>7. CutSoFar(parts, c, TRUE, a, b, merged, i + 1)
    BY <1>9, <1>10, <2>3, <2>4, <2>5, <2>6 DEF CutSoFar
  <2> QED BY <1>8, <2>2, <2>7 DEF next
<1>15. CASE ~(to <= c) /\ ~(done \/ from >= b)
  <2>1. next = [ parts |-> IF from > c THEN Append(parts, <<c, from>>) ELSE parts,
                 cursor |-> to, done |-> to >= b ]
    <3>1. Earlier(from, b) = from
      BY <1>15 DEF Earlier
    <3> QED BY <1>1, <1>3, <1>15, <3>1 DEF next, Cut
  <2>2. PICK longer : longer = next.parts
    OBVIOUS
  <2>3. \A t \in Int : to <= t /\ t < b => t \notin Prior(merged, i + 1)
    BY <1>11, <1>15
  <2>4. \E k \in 1 .. i + 1 : to = merged[k][2]
    BY <1>3, <1>4
  <2>5. a <= to /\ c < to /\ from < b
    BY <1>9, <1>15
  <2>6. /\ Ordered(longer)
        /\ \A k \in 1 .. Len(longer) :
             a <= longer[k][1] /\ longer[k][2] <= to /\ longer[k][2] <= b
        /\ \A t \in Int : t \in Covered(longer) <=> t \in Covered(parts) \/ (c <= t /\ t < from)
    <3>1. CASE from > c
      <4>1. longer = Append(parts, <<c, from>>)
        BY <2>1, <2>2, <3>1
      <4>2. c < from /\ \A k \in 1 .. Len(parts) : parts[k][2] <= c
        BY <1>10, <3>1
      <4>3. /\ Ordered(longer) /\ Covered(longer) = Covered(parts) \cup (c .. from - 1)
            /\ Len(longer) = Len(parts) + 1 /\ longer[Len(parts) + 1] = <<c, from>>
            /\ \A k \in 1 .. Len(parts) : longer[k] = parts[k]
        BY <1>9, <4>1, <4>2, AppendOrdered
      <4>4. ASSUME NEW k \in 1 .. Len(longer)
            PROVE  a <= longer[k][1] /\ longer[k][2] <= to /\ longer[k][2] <= b
        <5>1. CASE k \in 1 .. Len(parts)
          BY <1>10, <2>5, <4>3, <5>1, SMTT(30)
        <5>2. CASE k = Len(parts) + 1
          BY <1>3, <1>9, <2>5, <4>3, <5>2
        <5>3. Len(parts) \in Nat
          OBVIOUS
        <5> QED BY <4>3, <5>1, <5>2, <5>3
      <4>5. \A t \in Int : t \in c .. from - 1 <=> c <= t /\ t < from
        OBVIOUS
      <4> QED BY <4>3, <4>4, <4>5
    <3>2. CASE ~(from > c)
      <4>1. longer = parts
        BY <2>1, <2>2, <3>2
      <4>2. \A t \in Int : ~(c <= t /\ t < from)
        BY <3>2
      <4>3. \A k \in 1 .. Len(parts) :
              a <= parts[k][1] /\ parts[k][2] <= to /\ parts[k][2] <= b
        BY <1>10, <2>5
      <4> QED BY <1>9, <4>1, <4>2, <4>3
    <3> QED BY <3>1, <3>2
  <2>7. ASSUME NEW t \in Int
        PROVE  t \in Covered(longer) <=>
                 a <= t /\ t < to /\ t < b /\ t \notin Prior(merged, i + 1)
    <3>1. CASE t < c
      BY <1>6, <1>11, <2>5, <2>6, <3>1, SMTT(30)
    <3>2. CASE c <= t /\ t < from
      BY <1>3, <1>9, <1>11, <2>5, <2>6, <3>2, SMTT(30)
    <3>3. CASE c <= t /\ from <= t
      BY <1>11, <2>6, <3>3
    <3> QED BY <3>1, <3>2, <3>3
  <2>8. CutSoFar(longer, to, to >= b, a, b, merged, i + 1)
    BY <2>3, <2>4, <2>5, <2>6, <2>7 DEF CutSoFar
  <2>9. next.cursor = to /\ next.done = (to >= b)
    BY <2>1
  <2> QED BY <1>8, <2>2, <2>8, <2>9 DEF next
<1> QED BY <1>13, <1>14, <1>15 DEF next

(* _subtract leaves of a segment the ticks no merged pause covers, as      *)
(* ordered parts inside the segment.                                       *)
LEMMA SubtractLeaves ==
  ASSUME NEW segment \in Span, segment[1] < segment[2], NEW merged \in Seq(Span), Ordered(merged)
  PROVE  LET left == _subtract(segment, merged)
         IN  /\ left \in Seq(Span) /\ Ordered(left)
             /\ \A k \in 1 .. Len(left) : segment[1] <= left[k][1] /\ left[k][2] <= segment[2]
             /\ Covered(left) = (segment[1] .. segment[2] - 1) \ Covered(merged)
<1>1. PICK a \in Int, b \in Int : a = segment[1] /\ b = segment[2] /\ a < b
  BY DEF Span
<1> DEFINE base == [parts |-> <<>>, cursor |-> segment[1], done |-> FALSE]
<1>2. base \in Walked
  BY <1>1 DEF Walked
<1>3. base.parts = <<>> /\ base.cursor = a /\ base.done = FALSE
  BY <1>1
<1> HIDE DEF base
<1>4. PICK w : /\ w[0] = base
               /\ w[Len(merged)] = CutFold(segment, base, merged)
               /\ \A i \in 0 .. Len(merged) - 1 : w[i + 1] = Cut(segment, w[i], merged[i + 1])
  BY <1>2, CutTrace
<1> DEFINE Sound(i) ==
             w[i] \in Walked /\ CutSoFar(w[i].parts, w[i].cursor, w[i].done, a, b, merged, i)
           N == { i \in Nat : i <= Len(merged) => Sound(i) }
<1>5. 0 \in N
  <2>1. Ordered(<<>>) /\ Covered(<<>>) = {} /\ Len(<<>>) = 0
    BY DEF Ordered, Covered, Prior
  <2>2. CutSoFar(<<>>, a, FALSE, a, b, merged, 0)
    BY <1>1, <2>1, PriorNothing DEF CutSoFar
  <2> QED BY <1>2, <1>3, <1>4, <2>2
<1>6. ASSUME NEW i \in N PROVE i + 1 \in N
  <2>1. i \in Nat /\ i + 1 \in Nat
    OBVIOUS
  <2>2. SUFFICES ASSUME i + 1 <= Len(merged) PROVE Sound(i + 1)
    BY <2>1
  <2>3. Sound(i) /\ i \in 0 .. Len(merged) - 1
    BY <2>1, <2>2
  <2>4. w[i + 1] = Cut(segment, w[i], merged[i + 1])
    BY <1>4, <2>3
  <2> QED BY <1>1, <2>3, <2>4, CutGoesOn
<1> HIDE DEF N
<1>7. N \in SUBSET Nat
  BY DEF N
<1>8. Len(merged) \in Nat /\ Len(merged) <= Len(merged)
  OBVIOUS
<1>9. Len(merged) \in N
  BY <1>5, <1>6, <1>7, <1>8, NumberInduction
<1>10. Sound(Len(merged))
  BY <1>8, <1>9 DEF N
<1>11. PICK parts \in Seq(Span), c \in Int, done \in BOOLEAN :
         parts = w[Len(merged)].parts /\ c = w[Len(merged)].cursor /\ done = w[Len(merged)].done
  BY <1>10 DEF Walked
<1>12. CutSoFar(parts, c, done, a, b, merged, Len(merged))
  BY <1>10, <1>11
<1> DEFINE left == _subtract(segment, merged)
<1>13. left = IF c < b THEN Append(parts, <<c, b>>) ELSE parts
  BY <1>1, <1>4, <1>11, Zenon DEF _subtract, CutFold, base
<1> HIDE DEF left
<1>14. ASSUME NEW k \in 1 .. Len(parts)
       PROVE  parts[k][2] \in Int /\ a <= parts[k][1] /\ parts[k][2] <= c /\ parts[k][2] <= b
  <2>1. parts[k] \in Int \X Int
    BY DEF Span
  <2> QED BY <1>12, <2>1 DEF CutSoFar
<1>15. a <= c /\ Ordered(parts)
  BY <1>12 DEF CutSoFar
<1>16. ASSUME NEW t \in Int
       PROVE  /\ t \in Covered(parts) <=> a <= t /\ t < c /\ t < b /\ t \notin Covered(merged)
              /\ c <= t /\ t < b => t \notin Covered(merged)
  BY <1>12 DEF CutSoFar, Covered
<1>17. /\ left \in Seq(Span) /\ Ordered(left)
       /\ \A k \in 1 .. Len(left) : a <= left[k][1] /\ left[k][2] <= b
       /\ \A t \in Int : t \in Covered(left) <=> a <= t /\ t < b /\ t \notin Covered(merged)
  <2>1. CASE c < b
    <3>1. \A k \in 1 .. Len(parts) : parts[k][2] <= c
      BY <1>14
    <3>2. /\ left \in Seq(Span) /\ Ordered(left) /\ Covered(left) = Covered(parts) \cup (c .. b - 1)
          /\ Len(left) = Len(parts) + 1 /\ left[Len(parts) + 1] = <<c, b>>
          /\ \A k \in 1 .. Len(parts) : left[k] = parts[k]
      BY <1>13, <1>15, <2>1, <3>1, AppendOrdered
    <3>3. ASSUME NEW k \in 1 .. Len(left) PROVE a <= left[k][1] /\ left[k][2] <= b
      <4>1. CASE k \in 1 .. Len(parts)
        BY <1>14, <3>2, <4>1
      <4>2. CASE k = Len(parts) + 1
        BY <1>15, <3>2, <4>2
      <4>3. Len(parts) \in Nat
        OBVIOUS
      <4> QED BY <3>2, <4>1, <4>2, <4>3
    <3>4. \A t \in Int : t \in c .. b - 1 <=> c <= t /\ t < b
      OBVIOUS
    <3>5. \A t \in Int : t \in Covered(left) <=> a <= t /\ t < b /\ t \notin Covered(merged)
      BY <1>15, <1>16, <3>2, <3>4
    <3> QED BY <3>2, <3>3, <3>5
  <2>2. CASE ~(c < b)
    <3>1. left = parts
      BY <1>13, <2>2
    <3>2. \A t \in Int : t \in Covered(left) <=> a <= t /\ t < b /\ t \notin Covered(merged)
      BY <1>16, <2>2, <3>1
    <3> QED BY <1>14, <1>15, <3>1, <3>2
  <2> QED BY <2>1, <2>2
<1>18. Covered(left) = (a .. b - 1) \ Covered(merged)
  <2>1. Covered(left) \subseteq Int
    BY DEF Covered, Prior
  <2>2. \A t : t \in a .. b - 1 <=> t \in Int /\ a <= t /\ t < b
    OBVIOUS
  <2>3. \A t : t \in Covered(left) <=> t \in (a .. b - 1) \ Covered(merged)
    BY <1>17, <2>1, <2>2
  <2> QED BY <2>3, Zenon
<1> QED BY <1>1, <1>17, <1>18 DEF left

(* _subtract leaves spans, whatever the segment. *)
LEMMA SubtractType ==
  ASSUME NEW segment \in Span, NEW merged \in Seq(Span)
  PROVE  _subtract(segment, merged) \in Seq(Span)
<1>1. PICK a \in Int, b \in Int : a = segment[1] /\ b = segment[2]
  BY DEF Span
<1> DEFINE base == [parts |-> <<>>, cursor |-> segment[1], done |-> FALSE]
<1>2. base \in Walked
  BY <1>1 DEF Walked
<1> HIDE DEF base
<1>3. PICK w : /\ w[0] = base
               /\ w[Len(merged)] = CutFold(segment, base, merged)
               /\ \A i \in 0 .. Len(merged) - 1 : w[i + 1] = Cut(segment, w[i], merged[i + 1])
  BY <1>2, CutTrace
<1> DEFINE N == { i \in Nat : i <= Len(merged) => w[i] \in Walked }
<1>4. 0 \in N
  BY <1>2, <1>3
<1>5. ASSUME NEW i \in N PROVE i + 1 \in N
  <2>1. i \in Nat /\ i + 1 \in Nat
    OBVIOUS
  <2>2. SUFFICES ASSUME i + 1 <= Len(merged) PROVE w[i + 1] \in Walked
    BY <2>1
  <2>3. w[i] \in Walked /\ i \in 0 .. Len(merged) - 1 /\ merged[i + 1] \in Span
    BY <2>1, <2>2
  <2>4. CutFun(segment)[<<w[i], merged[i + 1]>>] = Cut(segment, w[i], merged[i + 1])
    BY <2>3 DEF CutFun
  <2>5. CutFun(segment)[<<w[i], merged[i + 1]>>] \in Walked
    BY <2>3, CutType
  <2> QED BY <1>3, <2>3, <2>4, <2>5
<1> HIDE DEF N
<1>6. N \in SUBSET Nat
  BY DEF N
<1>7. Len(merged) \in Nat /\ Len(merged) <= Len(merged)
  OBVIOUS
<1>8. Len(merged) \in N
  BY <1>4, <1>5, <1>6, <1>7, NumberInduction
<1>9. PICK parts \in Seq(Span), c \in Int : parts = w[Len(merged)].parts /\ c = w[Len(merged)].cursor
  BY <1>7, <1>8 DEF N, Walked
<1>10. _subtract(segment, merged) = IF c < b THEN Append(parts, <<c, b>>) ELSE parts
  BY <1>1, <1>3, <1>9, Zenon DEF _subtract, CutFold, base
<1>11. <<c, b>> \in Span
  BY DEF Span
<1> QED BY <1>10, <1>11

-----------------------------------------------------------------------------
(* The parts of all segments. *)

(* The parts of one segment more are spans. *)
LEMMA PartsType ==
  ASSUME NEW merged \in Seq(Span)
  PROVE  PartsFun(merged) \in [Seq(Span) \X Span -> Seq(Span)]
<1>1. ASSUME NEW parts \in Seq(Span), NEW segment \in Span
      PROVE  Leave(merged, parts, segment) \in Seq(Span)
  BY SubtractType DEF Leave
<1> QED BY <1>1 DEF PartsFun

(* The parts after each segment. *)
LEMMA PartsTrace ==
  ASSUME NEW merged \in Seq(Span), NEW base \in Seq(Span), NEW es \in Seq(Span)
  PROVE  \E w : /\ w[0] = base /\ w[Len(es)] = PartsFold(merged, base, es)
                /\ \A i \in 0 .. Len(es) - 1 : w[i + 1] = Leave(merged, w[i], es[i + 1])
<1> DEFINE n == Len(es)
           IsFold(h) == h = [s \in SUBSET (1 .. n) |->
                               IF s = {} THEN base ELSE Leave(merged, h[s \ {Max(s)}], es[Max(s)])]
<1>1. n \in Nat /\ DOMAIN es = 1 .. n
  OBVIOUS
<1>2. \E h : IsFold(h)
  <2>1. PICK g : Folds(PartsFun(merged), base, es, n, g) /\ \A s \in SUBSET (1 .. n) : g[s] \in Seq(Span)
    BY PartsType, FoldExists
  <2>2. ASSUME NEW s \in SUBSET (1 .. n), s # {}
        PROVE  PartsFun(merged)[<<g[s \ {Max(s)}], es[Max(s)]>>] = Leave(merged, g[s \ {Max(s)}], es[Max(s)])
    <3>1. Max(s) \in 1 .. n /\ s \ {Max(s)} \in SUBSET (1 .. n)
      BY <1>1, <2>2, LargestPosition
    <3>2. g[s \ {Max(s)}] \in Seq(Span) /\ es[Max(s)] \in Span
      BY <2>1, <3>1
    <3> QED BY <3>2 DEF PartsFun
  <2>3. IsFold(g)
    BY <2>1, <2>2 DEF Folds
  <2> QED BY <2>3
<1>3. PartsFold(merged, base, es) = (CHOOSE h : IsFold(h))[1 .. n]
  <2>1. PartsFold(merged, base, es) = (CHOOSE h : h = [s \in SUBSET DOMAIN es |->
           IF s = {} THEN base ELSE Leave(merged, h[s \ {Max(s)}], es[Max(s)])])[DOMAIN es]
    BY DEF PartsFold, FoldLeft, MapThenFoldSet
  <2> QED BY <1>1, <2>1, Zenon
<1>4. PICK h : IsFold(h) /\ PartsFold(merged, base, es) = h[1 .. n]
  <2> HIDE DEF IsFold
  <2> QED BY <1>2, <1>3
<1> DEFINE w == [i \in 0 .. n |-> h[1 .. i]]
<1>5. w[0] = base /\ w[n] = PartsFold(merged, base, es)
  <2>1. 1 .. 0 \in SUBSET (1 .. n) /\ 1 .. 0 = {} /\ 0 \in 0 .. n /\ n \in 0 .. n
    BY <1>1
  <2>2. h[1 .. 0] = base
    BY <1>4, <2>1
  <2> QED BY <1>4, <2>1, <2>2
<1>6. ASSUME NEW i \in 0 .. n - 1 PROVE w[i + 1] = Leave(merged, w[i], es[i + 1])
  <2>1. /\ i \in Nat /\ i < n /\ i \in 0 .. n /\ i + 1 \in 0 .. n
    BY <1>1
  <2>2. /\ 1 .. i + 1 \in SUBSET (1 .. n) /\ 1 .. i + 1 # {}
        /\ Max(1 .. i + 1) = i + 1 /\ (1 .. i + 1) \ {i + 1} = 1 .. i
    BY <1>1, <2>1, PrefixPositions
  <2>3. h[1 .. i + 1] = Leave(merged, h[1 .. i], es[i + 1])
    BY <1>4, <2>2
  <2> QED BY <2>1, <2>3
<1> HIDE DEF w
<1> QED BY <1>5, <1>6

(* The parts of ordered segments are ordered, and cover what the segments  *)
(* do less what the merged pauses do.                                      *)
LEMMA PartsLeave ==
  ASSUME NEW segments \in Seq(Span), Ordered(segments), NEW merged \in Seq(Span), Ordered(merged)
  PROVE  LET parts == Parts(segments, merged)
         IN  /\ parts \in Seq(Span) /\ Ordered(parts)
             /\ Covered(parts) = Covered(segments) \ Covered(merged)
<1> DEFINE base == <<>>
<1>1. base \in Seq(Span)
  OBVIOUS
<1>2. base = <<>>
  OBVIOUS
<1> HIDE DEF base
<1>3. PICK w : /\ w[0] = base
               /\ w[Len(segments)] = PartsFold(merged, base, segments)
               /\ \A i \in 0 .. Len(segments) - 1 : w[i + 1] = Leave(merged, w[i], segments[i + 1])
  BY <1>1, PartsTrace
<1> DEFINE Sound(i) == /\ w[i] \in Seq(Span) /\ Ordered(w[i])
                       /\ Covered(w[i]) = Prior(segments, i) \ Covered(merged)
                       /\ \A k \in 1 .. Len(w[i]) : \E j \in 1 .. i : w[i][k][2] <= segments[j][2]
           N == { i \in Nat : i <= Len(segments) => Sound(i) }
<1>4. 0 \in N
  <2>1. Ordered(<<>>) /\ Covered(<<>>) = {} /\ Len(<<>>) = 0
    BY DEF Ordered, Covered, Prior
  <2>2. Covered(<<>>) = Prior(segments, 0) \ Covered(merged) /\ \A k \in 1 .. Len(<<>>) : FALSE
    BY <2>1, PriorNothing
  <2>3. w[0] = <<>>
    BY <1>2, <1>3
  <2>4. Sound(0)
    BY <1>1, <1>2, <2>1, <2>2, <2>3
  <2> QED BY <2>4
<1>5. ASSUME NEW i \in N PROVE i + 1 \in N
  <2>1. i \in Nat /\ i + 1 \in Nat
    OBVIOUS
  <2>2. SUFFICES ASSUME i + 1 <= Len(segments) PROVE Sound(i + 1)
    BY <2>1
  <2> HIDE DEF Sound
  <2>3. Sound(i)
    BY <2>1, <2>2
  <2> USE DEF Sound
  <2>3a. i \in 0 .. Len(segments) - 1 /\ i + 1 \in 1 .. Len(segments) /\ segments[i + 1] \in Span
    BY <2>1, <2>2
  <2>4. PICK a \in Int, b \in Int :
          /\ a = segments[i + 1][1] /\ b = segments[i + 1][2] /\ a < b
          /\ Prior(segments, i + 1) = Prior(segments, i) \cup (a .. b - 1)
    <3>1. /\ segments[i + 1][1] \in Int /\ segments[i + 1][2] \in Int
          /\ segments[i + 1][1] < segments[i + 1][2]
          /\ Prior(segments, i + 1) =
               Prior(segments, i) \cup (segments[i + 1][1] .. segments[i + 1][2] - 1)
      BY <2>3a, PriorGrows
    <3> QED BY <3>1, Zenon
  <2>5. PICK r : r = w[i]
    OBVIOUS
  <2>6. PICK left : left = _subtract(segments[i + 1], merged)
    OBVIOUS
  <2>7. /\ left \in Seq(Span) /\ Ordered(left)
        /\ \A k \in 1 .. Len(left) : a <= left[k][1] /\ left[k][2] <= b
        /\ Covered(left) = (a .. b - 1) \ Covered(merged)
    BY <2>3a, <2>4, <2>6, SubtractLeaves
  <2>8. /\ r \in Seq(Span) /\ Ordered(r)
        /\ Covered(r) = Prior(segments, i) \ Covered(merged)
        /\ \A k \in 1 .. Len(r) : \E j \in 1 .. i : r[k][2] <= segments[j][2]
    BY <2>3, <2>5
  <2>9. ASSUME NEW j \in 1 .. i PROVE segments[j][2] \in Int /\ segments[j][2] <= a
    <3>1. j \in 1 .. Len(segments) /\ j \in 1 .. (i + 1) - 1
      BY <2>1, <2>2
    <3>2. segments[j] \in Int \X Int
      BY <3>1 DEF Span
    <3> QED BY <2>3a, <2>4, <3>1, <3>2 DEF Ordered
  <2>10. ASSUME NEW k \in 1 .. Len(r), NEW m \in 1 .. Len(left) PROVE r[k][2] <= left[m][1]
    <3>1. PICK j \in 1 .. i : r[k][2] <= segments[j][2]
      BY <2>8
    <3>2. r[k] \in Int \X Int /\ left[m] \in Int \X Int
      BY <2>7, <2>8, SpanOf, Zenon
    <3>3. a <= left[m][1]
      BY <2>7
    <3> QED BY <2>9, <3>1, <3>2, <3>3
  <2>11. PICK z : z = r \o left
    OBVIOUS
  <2>12. z \in Seq(Span) /\ Ordered(z) /\ Covered(z) = Covered(r) \cup Covered(left)
    BY <2>7, <2>8, <2>10, <2>11, JoinOrdered
  <2>13. Covered(z) = Prior(segments, i + 1) \ Covered(merged)
    BY <2>4, <2>7, <2>8, <2>12
  <2>14. ASSUME NEW k \in 1 .. Len(z) PROVE \E j \in 1 .. i + 1 : z[k][2] <= segments[j][2]
    <3>1. /\ Len(z) = Len(r) + Len(left) /\ Len(r) \in Nat /\ Len(left) \in Nat
          /\ \A m \in 1 .. Len(r) : z[m] = r[m]
          /\ \A m \in Len(r) + 1 .. Len(r) + Len(left) : z[m] = left[m - Len(r)]
      BY <2>7, <2>8, <2>11
    <3>2. CASE k \in 1 .. Len(r)
      <4>1. PICK j \in 1 .. i : r[k][2] <= segments[j][2]
        BY <2>8, <3>2
      <4>2. j \in 1 .. i + 1
        BY <2>1
      <4> QED BY <3>1, <3>2, <4>1, <4>2
    <3>3. CASE k \in Len(r) + 1 .. Len(r) + Len(left)
      <4>1. k - Len(r) \in 1 .. Len(left) /\ z[k] = left[k - Len(r)]
        BY <3>1, <3>3
      <4>2. z[k][2] <= segments[i + 1][2]
        BY <2>4, <2>7, <4>1
      <4>3. i + 1 \in 1 .. i + 1
        BY <2>1
      <4> QED BY <4>2, <4>3
    <3>4. k \in 1 .. Len(r) \/ k \in Len(r) + 1 .. Len(r) + Len(left)
      BY <3>1
    <3> QED BY <3>2, <3>3, <3>4
  <2>15. w[i + 1] = z
    BY <1>3, <2>3a, <2>5, <2>6, <2>11 DEF Leave
  <2> QED BY <2>12, <2>13, <2>14, <2>15
<1> HIDE DEF N
<1>6. N \in SUBSET Nat
  BY DEF N
<1>7. Len(segments) \in Nat /\ Len(segments) <= Len(segments)
  OBVIOUS
<1>8. Len(segments) \in N
  BY <1>4, <1>5, <1>6, <1>7, NumberInduction
<1>9. Sound(Len(segments))
  BY <1>7, <1>8 DEF N
<1>10. Parts(segments, merged) = w[Len(segments)]
  BY <1>2, <1>3, Zenon DEF Parts, PartsFold
<1> QED BY <1>9, <1>10 DEF Covered
-----------------------------------------------------------------------------
(* _normalise: the pauses sorted, then merged. *)

(* A finite set of pauses can be sorted by where they start. *)
LEMMA SortedExists ==
  ASSUME NEW S \in SUBSET (Nat \X Nat), IsFiniteSet(S)
  PROVE  \E s \in SetToSeqs(S) : InOrder(s)
<1> DEFINE Sortable(T) == \E s \in SetToSeqs(T) : InOrder(s)
           N == { n \in Nat : \A T \in SUBSET S : Cardinality(T) = n => Sortable(T) }
<1>1. 0 \in N
  <2>1. ASSUME NEW T \in SUBSET S, Cardinality(T) = 0 PROVE Sortable(T)
    <3>1. T = {}
      BY <2>1, FS_Subset, FS_EmptySet
    <3>2. <<>> \in [1 .. 0 -> {}] /\ 1 .. 0 = {} /\ DOMAIN <<>> = {}
      OBVIOUS
    <3>3. <<>> \in SetToSeqs({}) /\ InOrder(<<>>)
      BY <3>2, FS_EmptySet DEF SetToSeqs, InOrder
    <3> QED BY <3>1, <3>3
  <2> HIDE DEF Sortable
  <2> QED BY <2>1
<1>2. ASSUME NEW n \in N PROVE n + 1 \in N
  <2>1. n \in Nat
    OBVIOUS
  <2>2. ASSUME NEW T \in SUBSET S, Cardinality(T) = n + 1 PROVE Sortable(T)
    <3>1. IsFiniteSet(T) /\ T # {}
      BY <2>1, <2>2, FS_Subset, FS_EmptySet
    <3>2. \A q \in T : q[1] \in Nat
      OBVIOUS
    <3>3. PICK starts \in SUBSET Nat : starts = { q[1] : q \in T }
      BY <3>2
    <3>4. PICK p \in T : \A q \in T : p[1] <= q[1]
      <4>1. starts # {}
        BY <3>1, <3>3
      <4>2. PICK least \in starts : \A k \in starts : least <= k
        BY <4>1, LeastNumber
      <4> QED BY <3>3, <4>2
    <3>5. IsFiniteSet(T \ {p}) /\ Cardinality(T \ {p}) = n
      <4>1. IsFiniteSet(T \ {p}) /\ Cardinality(T \ {p}) = Cardinality(T) - 1
        BY <3>1, FS_RemoveElement
      <4> QED BY <2>1, <2>2, <4>1
    <3>6. PICK s \in SetToSeqs(T \ {p}) : InOrder(s)
      BY <3>5
    <3>7. /\ s \in [1 .. n -> T \ {p}]
          /\ \A i, j \in 1 .. n : i # j => s[i] # s[j]
          /\ \A i, j \in 1 .. n : i < j => s[i][1] <= s[j][1]
      BY <3>5, <3>6 DEF SetToSeqs, InOrder
    <3> DEFINE r == [i \in 1 .. n + 1 |-> IF i = 1 THEN p ELSE s[i - 1]]
    <3>8. r \in [1 .. n + 1 -> T]
      BY <2>1, <3>7
    <3>9. ASSUME NEW i \in 1 .. n + 1, NEW j \in 1 .. n + 1, i < j
          PROVE  r[i] # r[j] /\ r[i][1] <= r[j][1]
      <4>1. j # 1 /\ j - 1 \in 1 .. n
        BY <2>1, <3>9
      <4>2. r[j] = s[j - 1] /\ s[j - 1] \in T \ {p}
        BY <3>7, <4>1
      <4>3. CASE i = 1
        BY <3>4, <4>2, <4>3
      <4>4. CASE i # 1
        <5>1. i - 1 \in 1 .. n /\ i - 1 < j - 1 /\ i - 1 # j - 1 /\ r[i] = s[i - 1]
          BY <2>1, <3>9, <4>4
        <5> QED BY <3>7, <4>1, <4>2, <5>1
      <4> QED BY <4>3, <4>4
    <3> HIDE DEF r
    <3>10. ASSUME NEW i \in 1 .. n + 1, NEW j \in 1 .. n + 1, i # j PROVE r[i] # r[j]
      <4>1. i < j \/ j < i
        BY <3>10
      <4> QED BY <3>9, <4>1
    <3>11. r \in SetToSeqs(T)
      BY <2>2, <3>8, <3>10 DEF SetToSeqs
    <3>12. InOrder(r)
      BY <3>8, <3>9 DEF InOrder
    <3> QED BY <3>11, <3>12
  <2> HIDE DEF Sortable
  <2> QED BY <2>1, <2>2
<1>3. N \in SUBSET Nat
  OBVIOUS
<1> HIDE DEF N
<1>4. Cardinality(S) \in Nat
  BY FS_CardinalityType
<1>5. Cardinality(S) \in N
  BY <1>1, <1>2, <1>3, <1>4, NumberInduction
<1> QED BY <1>5 DEF N

(* One span more adds its ticks. *)
LEMMA PriorNext ==
  ASSUME NEW es \in Seq(Span), NEW m \in 1 .. Len(es),
         NEW a \in Int, NEW b \in Int, es[m] = <<a, b>>
  PROVE  Prior(es, m) = Prior(es, m - 1) \cup (a .. b - 1)
<1>0. PICK i \in Nat : m = i + 1 /\ m - 1 = i
  <2>1. m - 1 \in Nat /\ m = (m - 1) + 1
    OBVIOUS
  <2> QED BY <2>1
<1>1. es[i + 1] = <<a, b>>
  BY <1>0
<1>2. \A j \in 1 .. i + 1 : j \in 1 .. i \/ j = i + 1
  OBVIOUS
<1>3. 1 .. i \subseteq 1 .. i + 1 /\ i + 1 \in 1 .. i + 1
  OBVIOUS
<1>4. ASSUME NEW t \in Int
      PROVE  t \in Prior(es, i + 1) <=> t \in Prior(es, i) \/ t \in a .. b - 1
  <2>1. t \in a .. b - 1 <=> a <= t /\ t < b
    OBVIOUS
  <2> QED BY <1>1, <1>2, <1>3, <2>1 DEF Prior
<1>5. a .. b - 1 \subseteq Int
  OBVIOUS
<1> QED BY <1>0, <1>4, <1>5 DEF Prior

(* Ordered spans without the last: ordered, before it, and covering the    *)
(* rest.                                                                   *)
LEMMA FrontOrdered ==
  ASSUME NEW r \in Seq(Span), Ordered(r), r # <<>>, NEW a \in Int, NEW b \in Int, Last(r) = <<a, b>>
  PROVE  /\ Front(r) \in Seq(Span) /\ Ordered(Front(r)) /\ a < b
         /\ Len(r) \in Nat \ {0} /\ r[Len(r)] = <<a, b>>
         /\ Len(Front(r)) = Len(r) - 1
         /\ \A k \in 1 .. Len(Front(r)) : Front(r)[k] = r[k] /\ r[k][2] <= a
         /\ Covered(r) = Covered(Front(r)) \cup (a .. b - 1)
<1>1. Len(r) \in Nat \ {0}
  OBVIOUS
<1>2. PICK q : q = Front(r)
  OBVIOUS
<1>3. q \in Seq(Span) /\ Len(q) = Len(r) - 1 /\ \A k \in 1 .. Len(r) - 1 : q[k] = r[k]
  <2>1. q = SubSeq(r, 1, Len(r) - 1)
    BY <1>2 DEF Front
  <2>2. Len(r) - 1 \in Nat /\ Len(r) - 1 <= Len(r) /\ Len(r) - 1 = (Len(r) - 1) - 1 + 1
    BY <1>1
  <2> QED BY <2>1, <2>2
<1>4. r[Len(r)] = <<a, b>> /\ Len(r) \in 1 .. Len(r)
  BY <1>1 DEF Last
<1>5. a < b /\ \A k \in 1 .. Len(r) - 1 : r[k][2] <= a
  BY <1>4 DEF Ordered
<1>6. \A k \in 1 .. Len(r) - 1 : k \in 1 .. Len(r) /\ \A j \in 1 .. k - 1 : j \in 1 .. Len(r) - 1
  BY <1>1
<1>7. Ordered(q)
  BY <1>3, <1>6 DEF Ordered
<1>8. Prior(r, Len(r) - 1) = Covered(q)
  <2>1. \A t : t \in Prior(r, Len(r) - 1) <=> t \in Prior(q, Len(r) - 1)
    BY <1>3 DEF Prior
  <2> QED BY <1>3, <2>1, Zenon DEF Covered
<1>10. Prior(r, Len(r)) = Prior(r, Len(r) - 1) \cup (a .. b - 1)
  BY <1>4, PriorNext
<1>11. Covered(r) = Covered(q) \cup (a .. b - 1)
  BY <1>8, <1>10 DEF Covered
<1> QED BY <1>1, <1>2, <1>3, <1>4, <1>5, <1>7, <1>11

(* Merging leaves spans. *)
LEMMA MergeType == MergeFun \in [Seq(Span) \X Span -> Seq(Span)]
<1>1. ASSUME NEW merged \in Seq(Span), NEW p \in Span PROVE Merge(merged, p) \in Seq(Span)
  <2>1. Append(merged, p) \in Seq(Span)
    OBVIOUS
  <2>2. ASSUME merged # <<>>
        PROVE  Append(Front(merged), <<Last(merged)[1], Later(Last(merged)[2], p[2])>>) \in Seq(Span)
    <3>1. Last(merged) \in Span
      BY <2>2 DEF Last
    <3>2. Len(merged) - 1 \in Nat /\ Len(merged) - 1 <= Len(merged)
      BY <2>2
    <3>3. SubSeq(merged, 1, Len(merged) - 1) \in Seq(Span)
      BY <3>2
    <3>4. <<Last(merged)[1], Later(Last(merged)[2], p[2])>> \in Span
      BY <3>1 DEF Span, Later
    <3> QED BY <3>3, <3>4 DEF Front
  <2> QED BY <2>1, <2>2 DEF Merge
<1> QED BY <1>1 DEF MergeFun

(* The loop of _normalise, after each pause. *)
LEMMA MergeTrace ==
  ASSUME NEW base \in Seq(Span), NEW es \in Seq(Span)
  PROVE  \E w : /\ w[0] = base /\ w[Len(es)] = FoldLeft(Merge, base, es)
                /\ \A i \in 0 .. Len(es) - 1 : w[i + 1] = Merge(w[i], es[i + 1])
<1> DEFINE n == Len(es)
           IsFold(h) == h = [s \in SUBSET (1 .. n) |->
                               IF s = {} THEN base ELSE Merge(h[s \ {Max(s)}], es[Max(s)])]
<1>1. n \in Nat /\ DOMAIN es = 1 .. n
  OBVIOUS
<1>2. \E h : IsFold(h)
  <2>1. PICK g : Folds(MergeFun, base, es, n, g) /\ \A s \in SUBSET (1 .. n) : g[s] \in Seq(Span)
    BY MergeType, FoldExists
  <2>2. ASSUME NEW s \in SUBSET (1 .. n), s # {}
        PROVE  MergeFun[<<g[s \ {Max(s)}], es[Max(s)]>>] = Merge(g[s \ {Max(s)}], es[Max(s)])
    <3>1. Max(s) \in 1 .. n /\ s \ {Max(s)} \in SUBSET (1 .. n)
      BY <1>1, <2>2, LargestPosition
    <3>2. g[s \ {Max(s)}] \in Seq(Span) /\ es[Max(s)] \in Span
      BY <2>1, <3>1
    <3> QED BY <3>2 DEF MergeFun
  <2>3. IsFold(g)
    BY <2>1, <2>2 DEF Folds
  <2> QED BY <2>3
<1>3. FoldLeft(Merge, base, es) = (CHOOSE h : IsFold(h))[1 .. n]
  <2>1. FoldLeft(Merge, base, es) = (CHOOSE h : h = [s \in SUBSET DOMAIN es |->
           IF s = {} THEN base ELSE Merge(h[s \ {Max(s)}], es[Max(s)])])[DOMAIN es]
    BY DEF FoldLeft, MapThenFoldSet
  <2> QED BY <1>1, <2>1, Zenon
<1>4. PICK h : IsFold(h) /\ FoldLeft(Merge, base, es) = h[1 .. n]
  <2> HIDE DEF IsFold
  <2> QED BY <1>2, <1>3
<1> DEFINE w == [i \in 0 .. n |-> h[1 .. i]]
<1>5. w[0] = base /\ w[n] = FoldLeft(Merge, base, es)
  <2>1. 1 .. 0 \in SUBSET (1 .. n) /\ 1 .. 0 = {} /\ 0 \in 0 .. n /\ n \in 0 .. n
    BY <1>1
  <2>2. h[1 .. 0] = base
    BY <1>4, <2>1
  <2> QED BY <1>4, <2>1, <2>2
<1>6. ASSUME NEW i \in 0 .. n - 1 PROVE w[i + 1] = Merge(w[i], es[i + 1])
  <2>1. /\ i \in Nat /\ i < n /\ i \in 0 .. n /\ i + 1 \in 0 .. n
    BY <1>1
  <2>2. /\ 1 .. i + 1 \in SUBSET (1 .. n) /\ 1 .. i + 1 # {}
        /\ Max(1 .. i + 1) = i + 1 /\ (1 .. i + 1) \ {i + 1} = 1 .. i
    BY <1>1, <2>1, PrefixPositions
  <2>3. h[1 .. i + 1] = Merge(h[1 .. i], es[i + 1])
    BY <1>4, <2>2
  <2> QED BY <2>1, <2>3
<1> HIDE DEF w
<1> QED BY <1>5, <1>6

(* The merged spans cover what the pauses so far do, and start where one of  *)
(* them did.                                                                 *)
MergedSoFar(r, es, i) ==
  /\ r \in Seq(Span) /\ Ordered(r) /\ Covered(r) = Prior(es, i)
  /\ \A k \in 1 .. Len(r) : \E j \in 1 .. i : r[k][1] = es[j][1]

(* One turn of the loop of _normalise keeps MergedSoFar, for one pause     *)
(* more.                                                                   *)
LEMMA MergeGoesOn ==
  ASSUME NEW es \in Seq(Span), InOrder(es), NEW m \in 1 .. Len(es), es[m][1] < es[m][2],
         NEW r, MergedSoFar(r, es, m - 1)
  PROVE  MergedSoFar(Merge(r, es[m]), es, m)
<1>1. PICK from \in Int, to \in Int : es[m] = <<from, to>> /\ from < to
  <2>1. es[m] \in Int \X Int
    BY DEF Span
  <2> QED BY <2>1
<1>2. Prior(es, m) = Prior(es, m - 1) \cup (from .. to - 1)
  BY <1>1, PriorNext
<1>3. ASSUME NEW j \in 1 .. m - 1
      PROVE  j \in 1 .. m /\ es[j][1] <= from
  BY <1>1 DEF InOrder
<1>4. ASSUME NEW k \in 1 .. Len(r) PROVE r[k][1] <= from /\ \E j \in 1 .. m : r[k][1] = es[j][1]
  <2>1. PICK j \in 1 .. m - 1 : r[k][1] = es[j][1]
    BY DEF MergedSoFar
  <2>2. j \in 1 .. m /\ es[j][1] <= from
    BY <1>3
  <2> QED BY <2>1, <2>2
<1>5. r \in Seq(Span) /\ Ordered(r) /\ Covered(r) = Prior(es, m - 1)
  BY DEF MergedSoFar
<1>6. PICK next : next = Merge(r, es[m])
  OBVIOUS
<1>7. m \in 1 .. m /\ es[m][1] = from
  BY <1>1
<1>8. \A t \in Int : t \in from .. to - 1 <=> from <= t /\ t < to
  OBVIOUS
<1>9. CASE r = <<>>
  <2>1. next = Append(r, <<from, to>>)
    BY <1>1, <1>6, <1>9 DEF Merge
  <2>2. \A k \in 1 .. Len(r) : r[k][2] <= from
    BY <1>9
  <2>3. /\ next \in Seq(Span) /\ Ordered(next) /\ Covered(next) = Covered(r) \cup (from .. to - 1)
        /\ Len(next) = 1 /\ next[1] = <<from, to>>
    <3>1. LET new == Append(r, <<from, to>>)
          IN  /\ new \in Seq(Span) /\ Ordered(new) /\ Covered(new) = Covered(r) \cup (from .. to - 1)
              /\ Len(new) = Len(r) + 1 /\ new[Len(r) + 1] = <<from, to>>
      BY <1>1, <1>5, <2>2, AppendOrdered
    <3>2. Len(r) + 1 = 1
      BY <1>9
    <3>3. Len(next) = 1 /\ next[1] = <<from, to>>
      BY <2>1, <3>1, <3>2, Zenon
    <3> QED BY <2>1, <3>1, <3>3, Zenon
  <2>4. \A k \in 1 .. Len(next) : \E j \in 1 .. m : next[k][1] = es[j][1]
    BY <1>1, <1>7, <2>3
  <2> QED BY <1>2, <1>5, <1>6, <2>3, <2>4 DEF MergedSoFar
<1>10. CASE r # <<>>
  <2>1. PICK a \in Int, b \in Int : Last(r) = <<a, b>>
    <3>1. Last(r) \in Int \X Int
      BY <1>5, <1>10 DEF Last, Span
    <3> QED BY <3>1
  <2>2. PICK q : q = Front(r)
    OBVIOUS
  <2>3. /\ q \in Seq(Span) /\ Ordered(q) /\ a < b
        /\ Len(r) \in Nat \ {0} /\ r[Len(r)] = <<a, b>> /\ Len(q) = Len(r) - 1
        /\ \A k \in 1 .. Len(q) : q[k] = r[k] /\ r[k][2] <= a
        /\ Covered(r) = Covered(q) \cup (a .. b - 1)
    BY <1>5, <1>10, <2>1, <2>2, FrontOrdered
  <2>4. a <= from /\ \E j \in 1 .. m : a = es[j][1]
    <3>1. Len(r) \in 1 .. Len(r)
      BY <2>3
    <3> QED BY <1>4, <2>3, <3>1
  <2>5. CASE from <= b
    <3>1. PICK c \in Int : c = Later(b, to) /\ a < c
      BY <2>3 DEF Later
    <3>2. next = Append(q, <<a, c>>)
      BY <1>1, <1>6, <1>10, <2>1, <2>2, <2>5, <3>1 DEF Merge
    <3>3. /\ q \in Seq(Span) /\ Ordered(q) /\ a < c
          /\ \A k \in 1 .. Len(q) : q[k][2] <= a
      BY <2>3, <3>1
    <3>4. /\ next \in Seq(Span) /\ Ordered(next) /\ Covered(next) = Covered(q) \cup (a .. c - 1)
          /\ Len(next) = Len(q) + 1 /\ next[Len(q) + 1] = <<a, c>>
          /\ \A k \in 1 .. Len(q) : next[k] = q[k]
      <4>1. LET new == Append(q, <<a, c>>)
            IN  /\ new \in Seq(Span) /\ Ordered(new) /\ Covered(new) = Covered(q) \cup (a .. c - 1)
                /\ Len(new) = Len(q) + 1 /\ new[Len(q) + 1] = <<a, c>>
                /\ \A k \in 1 .. Len(q) : new[k] = q[k]
        BY <3>3, AppendOrdered
      <4> QED BY <3>2, <4>1, Zenon
    <3>5. \A t : t \in a .. c - 1 <=> t \in a .. b - 1 \/ t \in from .. to - 1
      <4>1. c = (IF b > to THEN b ELSE to)
        BY <3>1 DEF Later
      <4>2. from < to /\ a < b /\ a <= from
        BY <1>1, <2>3, <2>4
      <4> QED BY <2>5, <4>1, <4>2
    <3>6. Covered(next) = Covered(r) \cup (from .. to - 1)
      BY <2>3, <3>4, <3>5, Zenon
    <3>7. ASSUME NEW k \in 1 .. Len(next) PROVE \E j \in 1 .. m : next[k][1] = es[j][1]
      <4>1. Len(q) \in Nat /\ Len(next) = Len(r)
        BY <2>3, <3>4
      <4>2. CASE k \in 1 .. Len(q)
        <5>1. next[k] = r[k]
          BY <2>3, <3>4, <4>2
        <5> QED BY <1>4, <4>1, <5>1
      <4>3. CASE k = Len(q) + 1
        BY <2>4, <3>4, <4>3
      <4> QED BY <3>4, <4>1, <4>2, <4>3
    <3> QED BY <1>2, <1>5, <1>6, <3>4, <3>6, <3>7 DEF MergedSoFar
  <2>6. CASE ~(from <= b)
    <3>1. next = Append(r, <<from, to>>)
      BY <1>1, <1>6, <1>10, <2>1, <2>6 DEF Merge
    <3>2. ASSUME NEW k \in 1 .. Len(r) PROVE r[k][2] <= from
      <4>1. CASE k \in 1 .. Len(q)
        <5>1. r[k] \in Int \X Int
          BY <1>5 DEF Span
        <5> QED BY <2>3, <2>4, <4>1, <5>1, SMTT(30)
      <4>2. CASE k = Len(r)
        BY <2>3, <2>6, <4>2
      <4> QED BY <2>3, <4>1, <4>2
    <3>3. /\ next \in Seq(Span) /\ Ordered(next) /\ Covered(next) = Covered(r) \cup (from .. to - 1)
          /\ Len(next) = Len(r) + 1 /\ next[Len(r) + 1] = <<from, to>>
          /\ \A k \in 1 .. Len(r) : next[k] = r[k]
      BY <1>1, <1>5, <3>1, <3>2, AppendOrdered
    <3>4. ASSUME NEW k \in 1 .. Len(next) PROVE \E j \in 1 .. m : next[k][1] = es[j][1]
      <4>1. CASE k \in 1 .. Len(r)
        BY <1>4, <3>3, <4>1
      <4>2. CASE k = Len(r) + 1
        BY <1>7, <3>3, <4>2
      <4> QED BY <2>3, <3>3, <4>1, <4>2
    <3> QED BY <1>2, <1>5, <1>6, <3>3, <3>4 DEF MergedSoFar
  <2> QED BY <2>5, <2>6
<1> QED BY <1>9, <1>10

(* The ticks some of the intervals cover. *)
PausedAt(intervals) == { t \in Int : \E p \in Range(intervals) : p[1] <= t /\ t < p[2] }

(* _normalise returns spans in order that cover exactly the ticks some     *)
(* recorded pause does, in whatever order the pauses were recorded.        *)
LEMMA NormaliseCovers ==
  ASSUME NEW intervals \in Seq(Nat \X Nat)
  PROVE  LET merged == _normalise(intervals)
         IN  merged \in Seq(Span) /\ Ordered(merged) /\ Covered(merged) = PausedAt(intervals)
<1> DEFINE real == { p \in Range(intervals) : p[2] > p[1] }
           es == CHOOSE s \in SetToSeqs(real) : InOrder(s)
<1>1. real \in SUBSET (Nat \X Nat) /\ IsFiniteSet(real)
  <2>1. DOMAIN intervals = 1 .. Len(intervals) /\ Len(intervals) \in Nat
    OBVIOUS
  <2>2. IsFiniteSet(Range(intervals))
    <3>1. IsFiniteSet(1 .. Len(intervals))
      BY <2>1, FS_Interval
    <3>2. IsFiniteSet({ intervals[x] : x \in 1 .. Len(intervals) })
      BY <3>1, ImageIsFinite
    <3> QED BY <2>1, <3>2 DEF Range
  <2>3. real \subseteq Range(intervals)
    OBVIOUS
  <2>4. Range(intervals) \subseteq Nat \X Nat
    BY DEF Range
  <2> QED BY <2>2, <2>3, <2>4, FS_Subset
<1> HIDE DEF real
<1>2. es \in SetToSeqs(real) /\ InOrder(es)
  BY <1>1, SortedExists, Zenon
<1> HIDE DEF es
<1>3. PICK n \in Nat : n = Cardinality(real) /\ \E f : f \in Bijection(1 .. n, real)
  BY <1>1, FS_CardinalityType DEF ExistsBijection
<1>4. es \in [1 .. n -> real] /\ \A i, j \in 1 .. n : i # j => es[i] # es[j]
  BY <1>2, <1>3 DEF SetToSeqs
<1>5. \A p \in real : \E i \in 1 .. n : es[i] = p
  <2>1. es \in Injection(1 .. n, real)
    BY <1>4 DEF Injection, IsInjective
  <2>2. IsFiniteSet(1 .. n) /\ Cardinality(1 .. n) = n
    <3>1. Cardinality(1 .. n) = IF 1 > n THEN 0 ELSE n - 1 + 1
      BY FS_Interval
    <3>2. IsFiniteSet(1 .. n)
      BY FS_Interval
    <3> QED BY <3>1, <3>2
  <2>3. es \in Surjection(1 .. n, real)
    BY <1>1, <1>3, <2>1, <2>2, FS_Injection
  <2> QED BY <2>3 DEF Surjection
<1>6. real \subseteq Span /\ \A p \in real : p[1] < p[2]
  BY <1>1 DEF real, Span
<1>7. es \in Seq(Span) /\ Len(es) = n /\ \A m \in 1 .. n : es[m] \in real
  BY <1>4, <1>6
<1>8. PICK base : base = <<>> /\ base \in Seq(Span)
  <2>1. <<>> \in Seq(Span)
    OBVIOUS
  <2> QED BY <2>1, Zenon
<1>9. PICK w : /\ w[0] = base /\ w[Len(es)] = FoldLeft(Merge, base, es)
               /\ \A i \in 0 .. Len(es) - 1 : w[i + 1] = Merge(w[i], es[i + 1])
  BY <1>7, <1>8, MergeTrace
<1> DEFINE N == { i \in Nat : i <= n => MergedSoFar(w[i], es, i) }
<1>10. 0 \in N
  <2>1. Ordered(<<>>) /\ Covered(<<>>) = {} /\ Len(<<>>) = 0
    BY DEF Ordered, Covered, Prior
  <2>2. <<>> \in Seq(Span) /\ Prior(es, 0) = {} /\ \A k \in 1 .. Len(<<>>) : FALSE
    BY <2>1, PriorNothing
  <2>3. MergedSoFar(<<>>, es, 0)
    BY <2>1, <2>2, Zenon DEF MergedSoFar
  <2> QED BY <1>8, <1>9, <2>3
<1>11. ASSUME NEW i \in N PROVE i + 1 \in N
  <2>1. i \in Nat /\ i + 1 \in Nat
    OBVIOUS
  <2>2. SUFFICES ASSUME i + 1 <= n PROVE MergedSoFar(w[i + 1], es, i + 1)
    BY <2>1
  <2>3. MergedSoFar(w[i], es, (i + 1) - 1) /\ i \in 0 .. Len(es) - 1 /\ i + 1 \in 1 .. Len(es)
    <3>1. (i + 1) - 1 = i
      BY <2>1
    <3> QED BY <1>7, <2>1, <2>2, <3>1
  <2>4. es[i + 1][1] < es[i + 1][2]
    BY <1>6, <1>7, <2>3
  <2>5. MergedSoFar(Merge(w[i], es[i + 1]), es, i + 1)
    BY <1>2, <1>7, <2>3, <2>4, MergeGoesOn
  <2> QED BY <1>9, <2>3, <2>5
<1> HIDE DEF N
<1>12. N \in SUBSET Nat
  BY DEF N
<1>13. n \in N
  BY <1>10, <1>11, <1>12, NumberInduction
<1>14. MergedSoFar(w[n], es, n)
  BY <1>13 DEF N
<1>15. w[n] = _normalise(intervals)
  BY <1>7, <1>8, <1>9 DEF _normalise, es, real
<1>16. ASSUME NEW t \in Int PROVE t \in Prior(es, n) <=> t \in PausedAt(intervals)
  <2>1. ASSUME t \in Prior(es, n) PROVE t \in PausedAt(intervals)
    BY <1>7, <2>1 DEF Prior, PausedAt, real
  <2>2. ASSUME t \in PausedAt(intervals) PROVE t \in Prior(es, n)
    <3>1. PICK p \in Range(intervals) : p[1] <= t /\ t < p[2]
      BY <2>2 DEF PausedAt
    <3>2. p[1] \in Int /\ p[2] \in Int
      BY DEF Range
    <3>3. p \in real
      BY <3>1, <3>2 DEF real
    <3>4. PICK i \in 1 .. n : es[i] = p
      BY <1>5, <3>3
    <3> QED BY <3>1, <3>4 DEF Prior
  <2> QED BY <2>1, <2>2
<1>17. Prior(es, n) = PausedAt(intervals)
  <2>1. Prior(es, n) \subseteq Int /\ PausedAt(intervals) \subseteq Int
    BY DEF Prior, PausedAt
  <2> QED BY <1>16, <2>1
<1> QED BY <1>14, <1>15, <1>17 DEF MergedSoFar
-----------------------------------------------------------------------------
(* The calendar: the days follow each other, and a local hour is the instant *)
(* at which the wall clock comes to it.                                      *)

(* The constants of the walk, as numbers. *)
LEMMA WalkConstants ==
  /\ DayLength \in Nat /\ ChangeHour \in Nat /\ ChangeSpan \in Nat /\ WeekLength \in Nat
  /\ MAX_DAYS \in Nat /\ MAX_CLOSED \in Nat
  /\ ChangeSpan >= 1 /\ DayLength >= 2 /\ WeekLength >= 1
  /\ MAX_CLOSED >= 1 /\ MAX_DAYS = MAX_CLOSED + 1 /\ ChangeHour + ChangeSpan + ChangeSpan <= DayLength
<1>1. /\ DayLength \in Nat \ {0} /\ ChangeHour \in Nat /\ WeekLength \in Nat \ {0}
      /\ ChangeSpan \in Nat \ {0} /\ MAX_DAYS \in Nat \ {0} /\ MAX_CLOSED \in Nat \ {0}
  BY WalkAssumption
<1> QED BY <1>1, WalkAssumption

(* The clocks go forward or back by their span, or not at all, and back      *)
(* within the day.                                                           *)
LEMMA ShiftOfTheClocks ==
  ASSUME IsCalendar(calendar)
  PROVE  \E shift \in Int :
           /\ shift = calendar.change.shift
           /\ \/ shift = 0
              \/ shift = ChangeSpan
              \/ shift = 0 - ChangeSpan /\ ChangeHour >= ChangeSpan
<1>1. PICK shift : shift = calendar.change.shift
  OBVIOUS
<1>2. shift \in {ChangeSpan, 0, 0 - ChangeSpan} /\ ChangeHour + shift >= 0
  BY <1>1 DEF IsCalendar
<1>3. PICK span \in Nat, at \in Nat : span = ChangeSpan /\ at = ChangeHour
  BY WalkConstants
<1>4. shift \in Int
  BY <1>2, <1>3
<1> QED BY <1>1, <1>2, <1>3, <1>4

(* By how much the clocks have changed at a time of day, counted from the    *)
(* start of its day.                                                         *)
ShiftBy(day, hour) ==
  IF /\ day = calendar.change.day
     /\ hour >= (IF calendar.change.shift > 0 THEN ChangeHour + calendar.change.shift ELSE ChangeHour)
  THEN calendar.change.shift ELSE 0

(* A time of day is that many ticks into its day, less what the clocks have  *)
(* changed.                                                                  *)
LEMMA HourOfDay ==
  ASSUME IsCalendar(calendar), NEW day \in Nat, NEW hour \in Nat
  PROVE  /\ At(day, 0) \in Int
         /\ At(day, hour) = At(day, 0) + hour - ShiftBy(day, hour)
         /\ At(day + 1, 0) = At(day, 0) + DayLength
                               - (IF day = calendar.change.day THEN calendar.change.shift ELSE 0)
<1>1. calendar.change.day \in Nat
  BY DEF IsCalendar
<1>2. PICK cd \in Nat, shift \in Int :
        /\ cd = calendar.change.day /\ shift = calendar.change.shift
        /\ \/ shift = 0
           \/ shift = ChangeSpan
           \/ shift = 0 - ChangeSpan /\ ChangeHour >= ChangeSpan
  BY <1>1, ShiftOfTheClocks
<1>3. PICK from \in Nat :
        /\ from = (IF shift > 0 THEN ChangeHour + shift ELSE ChangeHour)
        /\ from >= 1 \/ shift = 0
  BY <1>2, WalkConstants
<1>4. PICK base \in Nat : base = day * DayLength /\ (day + 1) * DayLength = base + DayLength
  <2>1. DayLength \in Nat
    BY WalkConstants
  <2>2. day * DayLength \in Nat /\ (day + 1) * DayLength = day * DayLength + DayLength
    BY <2>1
  <2> QED BY <2>2
<1>5. ASSUME NEW h \in Nat
      PROVE  At(day, h) = base + h - (IF day > cd \/ (day = cd /\ h >= from) THEN shift ELSE 0)
  BY <1>2, <1>3, <1>4 DEF At
<1>6. At(day + 1, 0) = (base + DayLength) + 0
                         - (IF day + 1 > cd \/ (day + 1 = cd /\ 0 >= from) THEN shift ELSE 0)
  BY <1>2, <1>3, <1>4 DEF At
<1>7. At(day, 0) = base + 0 - (IF day > cd \/ (day = cd /\ 0 >= from) THEN shift ELSE 0)
  BY <1>5
<1>8. At(day, 0) = base - (IF day > cd THEN shift ELSE 0)
  BY <1>3, <1>7
<1>9. At(day + 1, 0) = base + DayLength - (IF day >= cd THEN shift ELSE 0)
  BY <1>3, <1>6, WalkConstants
<1>10. ShiftBy(day, hour) = IF day = cd /\ hour >= from THEN shift ELSE 0
  BY <1>2, <1>3 DEF ShiftBy
<1>11. At(day, hour) = At(day, 0) + hour - ShiftBy(day, hour)
  <2>1. At(day, hour) = base + hour - (IF day > cd \/ (day = cd /\ hour >= from) THEN shift ELSE 0)
    BY <1>5
  <2> QED BY <1>8, <1>10, <2>1
<1>12. At(day + 1, 0) = At(day, 0) + DayLength - (IF day = cd THEN shift ELSE 0)
  BY <1>8, <1>9, WalkConstants
<1>13. At(day, 0) \in Int
  BY <1>8
<1> QED BY <1>2, <1>11, <1>12, <1>13

(* A day as numbers: where it starts and ends, whether the clocks change on  *)
(* it and by how much, and what a time of it is less of.                     *)
InNumbers(day, hour, base, by, shift, change) ==
  /\ base = At(day, 0) /\ At(day, hour) = base + hour - by
  /\ shift = calendar.change.shift /\ (change <=> day = calendar.change.day)
  /\ \/ shift = 0
     \/ shift = ChangeSpan
     \/ shift = 0 - ChangeSpan /\ ChangeHour >= ChangeSpan
  /\ by = IF change /\ hour >= (IF shift > 0 THEN ChangeHour + shift ELSE ChangeHour)
          THEN shift ELSE 0
  /\ At(day + 1, 0) = base + DayLength - (IF change THEN shift ELSE 0)

LEMMA DayInNumbers ==
  ASSUME IsCalendar(calendar), NEW day \in Nat, NEW hour \in Nat
  PROVE  \E base, by, shift \in Int : \E change \in BOOLEAN :
           InNumbers(day, hour, base, by, shift, change)
<1>1. PICK shift \in Int :
        /\ shift = calendar.change.shift
        /\ \/ shift = 0
           \/ shift = ChangeSpan
           \/ shift = 0 - ChangeSpan /\ ChangeHour >= ChangeSpan
  BY ShiftOfTheClocks
<1>2. PICK change \in BOOLEAN : change <=> day = calendar.change.day
  OBVIOUS
<1>3. PICK base \in Int : /\ base = At(day, 0)
                          /\ At(day, hour) = base + hour - ShiftBy(day, hour)
                          /\ At(day + 1, 0) = base + DayLength - (IF change THEN shift ELSE 0)
  BY <1>1, <1>2, HourOfDay
<1>4. PICK by \in Int :
        /\ by = ShiftBy(day, hour)
        /\ by = IF change /\ hour >= (IF shift > 0 THEN ChangeHour + shift ELSE ChangeHour)
                THEN shift ELSE 0
  <2>1. ShiftBy(day, hour) = IF change /\ hour >= (IF shift > 0 THEN ChangeHour + shift ELSE ChangeHour)
                             THEN shift ELSE 0
    BY <1>1, <1>2 DEF ShiftBy
  <2>2. ShiftBy(day, hour) \in Int
    BY <2>1
  <2> QED BY <2>1, <2>2, Zenon
<1>5. InNumbers(day, hour, base, by, shift, change)
  <2>1. At(day, hour) = base + hour - by
    BY <1>3, <1>4
  <2> QED BY <1>1, <1>2, <1>3, <1>4, <2>1 DEF InNumbers
<1> QED BY <1>5, Zenon

(* A local day ends after it starts. *)
LEMMA DaysGoOn ==
  ASSUME IsCalendar(calendar), NEW day \in Nat
  PROVE  At(day, 0) \in Int /\ At(day + 1, 0) \in Int /\ At(day, 0) < At(day + 1, 0)
<1>1. 0 \in Nat
  OBVIOUS
<1>2. PICK base \in Int, by \in Int, shift \in Int, change \in BOOLEAN :
        InNumbers(day, 0, base, by, shift, change)
  BY <1>1, DayInNumbers, Zenon
<1> QED BY <1>2, WalkConstants DEF InNumbers

(* The first day starts with the first tick. *)
LEMMA FirstDay == IsCalendar(calendar) => At(0, 0) = 0
<1> SUFFICES ASSUME IsCalendar(calendar) PROVE At(0, 0) = 0
  OBVIOUS
<1>1. PICK shift \in Int :
        /\ shift = calendar.change.shift
        /\ \/ shift = 0
           \/ shift = ChangeSpan
           \/ shift = 0 - ChangeSpan /\ ChangeHour >= ChangeSpan
  BY ShiftOfTheClocks
<1>2. calendar.change.day \in Nat /\ ~(0 > calendar.change.day) /\ 0 * DayLength = 0
  BY WalkConstants DEF IsCalendar
<1>3. shift = 0 \/ ~(0 >= (IF shift > 0 THEN ChangeHour + shift ELSE ChangeHour))
  BY <1>1, WalkConstants
<1>4. At(0, 0) = 0 + 0 - (IF 0 = calendar.change.day
                             /\ 0 >= (IF shift > 0 THEN ChangeHour + shift ELSE ChangeHour)
                          THEN shift ELSE 0)
  BY <1>1, <1>2 DEF At
<1> QED BY <1>3, <1>4

(* Local days follow each other. *)
LEMMA DaysInOrder ==
  ASSUME IsCalendar(calendar)
  PROVE  \A day \in Nat : At(day, 0) >= day /\ \A i \in 0 .. day - 1 : At(i + 1, 0) <= At(day, 0)
<1> DEFINE N == { day \in Nat : At(day, 0) >= day /\ \A i \in 0 .. day - 1 : At(i + 1, 0) <= At(day, 0) }
<1>1. 0 \in N
  BY FirstDay
<1>2. ASSUME NEW day \in N PROVE day + 1 \in N
  <2>1. day \in Nat /\ day + 1 \in Nat
    OBVIOUS
  <2>2. At(day, 0) \in Int /\ At(day + 1, 0) \in Int /\ At(day, 0) < At(day + 1, 0)
    BY <2>1, DaysGoOn
  <2>3. At(day + 1, 0) >= day + 1
    BY <2>1, <2>2
  <2>4. ASSUME NEW i \in 0 .. (day + 1) - 1 PROVE At(i + 1, 0) <= At(day + 1, 0)
    <3>1. i \in Nat /\ (i \in 0 .. day - 1 \/ i = day)
      BY <2>1
    <3>2. At(i + 1, 0) \in Int
      BY <3>1, DaysGoOn
    <3> QED BY <2>2, <3>1, <3>2
  <2> QED BY <2>1, <2>3, <2>4
<1>3. N \in SUBSET Nat
  OBVIOUS
<1> HIDE DEF N
<1>4. \A day \in Nat : day \in N
  BY <1>1, <1>2, <1>3, NumberInduction
<1> QED BY <1>4 DEF N

(* An instant is on one local day. *)
LEMMA LocalDayOf ==
  ASSUME IsCalendar(calendar), NEW moment \in Nat
  PROVE  /\ LocalDay(moment) \in Nat
         /\ At(LocalDay(moment), 0) <= moment /\ moment < At(LocalDay(moment) + 1, 0)
         /\ \A day \in Nat : At(day, 0) <= moment /\ moment < At(day + 1, 0) => LocalDay(moment) = day
<1>1. PICK after \in SUBSET Nat : after = { day \in Nat : moment < At(day, 0) }
  OBVIOUS
<1>2. moment + 1 \in after
  <2>1. moment + 1 \in Nat
    OBVIOUS
  <2>2. At(moment + 1, 0) >= moment + 1 /\ At(moment + 1, 0) \in Int
    BY <2>1, DaysInOrder, DaysGoOn
  <2> QED BY <1>1, <2>1, <2>2
<1>3. PICK next \in after : \A day \in after : next <= day
  BY <1>2, LeastNumber
<1>4. next \in Nat /\ moment < At(next, 0) /\ next # 0 /\ next <= moment + 1
  BY <1>1, <1>2, <1>3, FirstDay
<1>5. PICK day \in 0 .. moment : next = day + 1
  <2>1. next - 1 \in 0 .. moment /\ next = (next - 1) + 1
    BY <1>4
  <2> QED BY <2>1
<1>6. At(day, 0) <= moment
  <2>1. day \in Nat /\ day \notin after
    BY <1>3, <1>5
  <2>2. At(day, 0) \in Int
    BY <2>1, DaysGoOn
  <2> QED BY <1>1, <2>1, <2>2
<1>7. \E d \in 0 .. moment : At(d, 0) <= moment /\ moment < At(d + 1, 0)
  BY <1>4, <1>5, <1>6
<1>8. /\ LocalDay(moment) \in 0 .. moment
      /\ At(LocalDay(moment), 0) <= moment /\ moment < At(LocalDay(moment) + 1, 0)
  BY <1>7, Zenon DEF LocalDay
<1>9. PICK local \in Nat : local = LocalDay(moment)
  BY <1>8
<1>10. ASSUME NEW d \in Nat, At(d, 0) <= moment, moment < At(d + 1, 0), d # local PROVE FALSE
  <2>1. /\ At(d, 0) \in Int /\ At(d + 1, 0) \in Int
        /\ At(local, 0) \in Int /\ At(local + 1, 0) \in Int
    BY DaysGoOn
  <2>2. At(local, 0) <= moment /\ moment < At(local + 1, 0)
    BY <1>8, <1>9
  <2>3. d \in 0 .. local - 1 => At(d + 1, 0) <= At(local, 0)
    BY DaysInOrder
  <2>4. local \in 0 .. d - 1 => At(local + 1, 0) <= At(d, 0)
    BY DaysInOrder
  <2>5. d \in 0 .. local - 1 \/ local \in 0 .. d - 1
    BY <1>10
  <2> QED BY <1>10, <2>1, <2>2, <2>3, <2>4, <2>5
<1> QED BY <1>8, <1>9, <1>10
-----------------------------------------------------------------------------
(* The open span of a day is its open ticks. *)

(* Unless a time lies inside the change of clocks, the wall clock is past it *)
(* once the instant it names has come.                                       *)
LEMMA WallHour ==
  ASSUME IsCalendar(calendar), NEW day \in Nat, NEW hour \in Nat, NEW tick \in Int,
         At(day, 0) <= tick, ~InsideTheChange(day, hour)
  PROVE  LET into == tick - At(day, 0)
             late == day = calendar.change.day /\ into >= ChangeHour
             shown == into + (IF late THEN calendar.change.shift ELSE 0)
         IN  At(day, hour) \in Int /\ (hour <= shown <=> At(day, hour) <= tick)
<1>1. PICK base \in Int, by \in Int, shift \in Int, change \in BOOLEAN :
        InNumbers(day, hour, base, by, shift, change)
  BY DayInNumbers, Zenon
<1>2. PICK into \in Nat : into = tick - base /\ tick = base + into
  <2>1. tick - base \in Nat /\ tick = base + (tick - base)
    BY <1>1 DEF InNumbers
  <2> QED BY <2>1
<1>3. change => /\ ~(ChangeHour < hour /\ hour < ChangeHour + shift)
                /\ ~(ChangeHour + shift < hour /\ hour < ChangeHour)
  BY <1>1 DEF InsideTheChange, InNumbers
<1>4. hour <= into + (IF change /\ into >= ChangeHour THEN shift ELSE 0)
        <=> base + hour - by <= base + into
  <2>1. CASE shift = 0
    BY <1>1, <2>1 DEF InNumbers
  <2>2. CASE shift = ChangeSpan
    BY <1>1, <1>3, <2>2, WalkConstants DEF InNumbers
  <2>3. CASE shift = 0 - ChangeSpan /\ ChangeHour >= ChangeSpan
    BY <1>1, <1>3, <2>3, WalkConstants DEF InNumbers
  <2> QED BY <1>1, <2>1, <2>2, <2>3 DEF InNumbers
<1>5. base + hour - by \in Int
  BY <1>1 DEF InNumbers
<1> QED BY <1>1, <1>2, <1>4, <1>5 DEF InNumbers

(* The instant a time of day names is on its day. *)
LEMMA HourInDay ==
  ASSUME IsCalendar(calendar), NEW day \in Nat, NEW hour \in Nat, hour < DayLength
  PROVE  /\ At(day, hour) \in Int /\ At(day, 0) \in Int /\ At(day + 1, 0) \in Int
         /\ At(day, 0) <= At(day, hour) /\ At(day, hour) < At(day + 1, 0)
<1>1. PICK base \in Int, by \in Int, shift \in Int, change \in BOOLEAN :
        InNumbers(day, hour, base, by, shift, change)
  BY DayInNumbers, Zenon
<1>2. base <= base + hour - by /\ base + hour - by < base + DayLength - (IF change THEN shift ELSE 0)
  <2>1. CASE shift = 0
    BY <1>1, <2>1, WalkConstants DEF InNumbers
  <2>2. CASE shift = ChangeSpan
    BY <1>1, <2>2, WalkConstants DEF InNumbers
  <2>3. CASE shift = 0 - ChangeSpan /\ ChangeHour >= ChangeSpan
    BY <1>1, <2>3, WalkConstants DEF InNumbers
  <2> QED BY <1>1, <2>1, <2>2, <2>3 DEF InNumbers
<1>3. base + DayLength - (IF change THEN shift ELSE 0) \in Int /\ base + hour - by \in Int
  BY <1>1, WalkConstants DEF InNumbers
<1> QED BY <1>1, <1>2, <1>3 DEF InNumbers

(* The wall clock has come to a time once the instant it names has. *)
LEMMA TheHourHasCome ==
  ASSUME IsCalendar(calendar), NEW day \in Nat, NEW hour \in Nat, hour < DayLength,
         NEW tick \in Nat, At(day, 0) <= tick, tick < At(day + 1, 0)
  PROVE  HasCome(tick, hour) <=> At(day, hour) <= tick
<1>1. PICK base \in Int, by \in Int, shift \in Int, change \in BOOLEAN :
        InNumbers(day, hour, base, by, shift, change)
  BY DayInNumbers, Zenon
<1>2. LocalDay(tick) = day
  BY LocalDayOf
<1>3. Skipped(day, hour) <=> change /\ ChangeHour <= hour /\ hour < ChangeHour + shift
  BY <1>1 DEF Skipped, InNumbers
<1>4. CASE Skipped(day, hour)
  <2>1. HasCome(tick, hour) <=> base + hour <= tick
    BY <1>1, <1>2, <1>4 DEF HasCome, InNumbers
  <2>2. by = 0
    BY <1>1, <1>3, <1>4, WalkConstants DEF InNumbers
  <2> QED BY <1>1, <2>1, <2>2 DEF InNumbers
<1>5. CASE ~Skipped(day, hour)
  <2>1. HasCome(tick, hour) <=> \E t \in base .. tick : WallClock(t)[2] = hour
    BY <1>1, <1>2, <1>5 DEF HasCome, InNumbers
  <2>2. base >= 0
    <3>1. At(day, 0) >= day
      BY DaysInOrder
    <3> QED BY <1>1, <3>1 DEF InNumbers
  <2>3. ASSUME NEW t \in base .. tick
        PROVE  WallClock(t)[2] = (t - base) + (IF change /\ t - base >= ChangeHour THEN shift ELSE 0)
    <3>1. t \in Nat /\ base <= t /\ t < At(day + 1, 0)
      <4>1. At(day + 1, 0) \in Int
        BY DaysGoOn
      <4> QED BY <1>1, <2>2, <4>1 DEF InNumbers
    <3>2. LocalDay(t) = day
      BY <1>1, <3>1, LocalDayOf DEF InNumbers
    <3>3. WallClock(t)[2] = (t - At(day, 0))
                              + (IF day = calendar.change.day /\ t - At(day, 0) >= ChangeHour
                                 THEN calendar.change.shift ELSE 0)
      BY <3>2 DEF WallClock
    <3> QED BY <1>1, <3>3 DEF InNumbers
  <2>4. PICK named \in Int : named = base + hour - by /\ base <= named
    <3>1. base + hour - by \in Int
      BY <1>1 DEF InNumbers
    <3>2. base <= base + hour - by
      BY <1>1, HourInDay DEF InNumbers
    <3> QED BY <3>1, <3>2
  <2>5. ASSUME named <= tick PROVE \E t \in base .. tick : WallClock(t)[2] = hour
    <3>1. named \in base .. tick
      BY <2>4, <2>5
    <3>2. (named - base) + (IF change /\ named - base >= ChangeHour THEN shift ELSE 0) = hour
      <4>1. CASE shift = 0
        BY <1>1, <2>4, <4>1 DEF InNumbers
      <4>2. CASE shift = ChangeSpan
        BY <1>1, <1>3, <1>5, <2>4, <4>2, WalkConstants DEF InNumbers
      <4>3. CASE shift = 0 - ChangeSpan /\ ChangeHour >= ChangeSpan
        BY <1>1, <2>4, <4>3, WalkConstants DEF InNumbers
      <4> QED BY <1>1, <4>1, <4>2, <4>3 DEF InNumbers
    <3> QED BY <2>3, <3>1, <3>2
  <2>6. ASSUME NEW t \in base .. tick, WallClock(t)[2] = hour PROVE named <= tick
    <3>1. PICK into \in Nat : into = t - base /\ t = base + into
      <4>1. t - base \in Nat /\ t = base + (t - base)
        OBVIOUS
      <4> QED BY <4>1
    <3>2. hour = into + (IF change /\ into >= ChangeHour THEN shift ELSE 0)
      BY <2>3, <2>6, <3>1
    <3>3. hour - by <= into
      <4>1. CASE shift = 0
        BY <1>1, <3>2, <4>1 DEF InNumbers
      <4>2. CASE shift = ChangeSpan
        BY <1>1, <3>2, <4>2, WalkConstants DEF InNumbers
      <4>3. CASE shift = 0 - ChangeSpan /\ ChangeHour >= ChangeSpan
        BY <1>1, <3>2, <4>3, WalkConstants DEF InNumbers
      <4> QED BY <1>1, <4>1, <4>2, <4>3 DEF InNumbers
    <3> QED BY <1>1, <2>4, <3>1, <3>3 DEF InNumbers
  <2> QED BY <1>1, <2>1, <2>4, <2>5, <2>6 DEF InNumbers
<1> QED BY <1>4, <1>5

(* A day has one open span or none, and its ticks are those between the      *)
(* wall clock coming to the opening hour and its coming to the closing hour. *)
LEMMA SegmentIsOpenTicks ==
  ASSUME IsCalendar(calendar), NEW day \in Nat
  PROVE  /\ \/ _segment_for(day) = {}
            \/ \E a, b \in Int : /\ _segment_for(day) = {<<a, b>>} /\ a < b
                                 /\ At(day, 0) <= a /\ b <= At(day + 1, 0)
         /\ \A tick \in Nat : At(day, 0) <= tick /\ tick < At(day + 1, 0) =>
              (IsOpen(tick) <=> \E s \in _segment_for(day) : s[1] <= tick /\ tick < s[2])
<1> DEFINE window == calendar.hours[day % WeekLength]
           begins == At(day, 0)
           ends == At(day + 1, 0)
<1>1. begins \in Int /\ ends \in Int /\ begins < ends
  BY DaysGoOn
<1>2. ASSUME NEW tick \in Nat, begins <= tick, tick < ends
      PROVE  IsOpen(tick) <=>
               /\ day \notin calendar.holidays
               /\ \/ calendar.always_open
                  \/ window # Closed /\ HasCome(tick, window[1]) /\ ~HasCome(tick, window[2])
  <2>1. LocalDay(tick) = day
    BY <1>2, LocalDayOf
  <2> QED BY <2>1 DEF IsOpen, OpeningHours
<1>3. CASE day \in calendar.holidays
  <2>1. _segment_for(day) = {}
    BY <1>3 DEF _segment_for
  <2>2. ASSUME NEW tick \in Nat, begins <= tick, tick < ends PROVE ~IsOpen(tick)
    BY <1>2, <1>3, <2>2
  <2> QED BY <2>1, <2>2
<1>4. CASE day \notin calendar.holidays /\ calendar.always_open
  <2>1. _segment_for(day) = { s \in {<<begins, ends>>} : s[2] > s[1] }
    BY <1>4 DEF _segment_for
  <2>2. _segment_for(day) = {<<begins, ends>>}
    BY <1>1, <2>1
  <2>3. ASSUME NEW tick \in Nat, begins <= tick, tick < ends PROVE IsOpen(tick)
    BY <1>2, <1>4, <2>3
  <2> HIDE DEF begins, ends
  <2>4. \A tick \in Nat : begins <= tick /\ tick < ends =>
          (IsOpen(tick) <=> \E s \in _segment_for(day) : s[1] <= tick /\ tick < s[2])
    BY <2>2, <2>3
  <2>5. \E a, b \in Int : /\ _segment_for(day) = {<<a, b>>} /\ a < b
                          /\ begins <= a /\ b <= ends
    BY <1>1, <2>2
  <2> QED BY <2>4, <2>5 DEF begins, ends
<1>5. CASE day \notin calendar.holidays /\ ~calendar.always_open /\ window = Closed
  <2>1. _segment_for(day) = {}
    BY <1>5 DEF _segment_for
  <2>2. ASSUME NEW tick \in Nat, begins <= tick, tick < ends PROVE ~IsOpen(tick)
    BY <1>2, <1>5, <2>2
  <2> QED BY <2>1, <2>2
<1>6. CASE day \notin calendar.holidays /\ ~calendar.always_open /\ window # Closed
  <2>1. day % WeekLength \in 0 .. WeekLength - 1
    BY WalkConstants
  <2>2. PICK opens \in Nat, closes \in Nat :
          opens = window[1] /\ closes = window[2] /\ opens < closes /\ closes < DayLength
    BY <1>6, <2>1 DEF IsCalendar
  <2>3. opens < DayLength
    BY <2>2, WalkConstants
  <2>4. PICK a \in Int, b \in Int :
          /\ a = At(day, opens) /\ b = At(day, closes) /\ begins <= a /\ b <= ends
    BY <2>2, <2>3, HourInDay
  <2>5. _segment_for(day) = { s \in {<<a, b>>} : s[2] > s[1] }
    BY <1>6, <2>2, <2>4 DEF _segment_for
  <2>6. ASSUME NEW tick \in Nat, begins <= tick, tick < ends
        PROVE  IsOpen(tick) <=> a <= tick /\ tick < b
    <3>1. HasCome(tick, opens) <=> a <= tick
      BY <2>2, <2>3, <2>4, <2>6, TheHourHasCome
    <3>2. HasCome(tick, closes) <=> b <= tick
      BY <2>2, <2>4, <2>6, TheHourHasCome
    <3>3. IsOpen(tick) <=> HasCome(tick, opens) /\ ~HasCome(tick, closes)
      BY <1>2, <1>6, <2>2, <2>6
    <3> QED BY <2>4, <3>1, <3>2, <3>3
  <2> HIDE DEF begins, ends, window
  <2>7. CASE a < b
    <3>1. _segment_for(day) = {<<a, b>>}
      BY <2>5, <2>7
    <3>2. \A tick \in Nat : begins <= tick /\ tick < ends =>
            (IsOpen(tick) <=> \E s \in _segment_for(day) : s[1] <= tick /\ tick < s[2])
      BY <2>6, <3>1
    <3> QED BY <2>4, <2>7, <3>1, <3>2 DEF begins, ends
  <2>8. CASE ~(a < b)
    <3>1. _segment_for(day) = {}
      BY <2>5, <2>8
    <3>2. \A tick \in Nat : begins <= tick /\ tick < ends => ~IsOpen(tick)
      BY <2>6, <2>8
    <3> QED BY <3>1, <3>2 DEF begins, ends
  <2> QED BY <2>7, <2>8
<1>7. calendar.always_open \in BOOLEAN
  BY DEF IsCalendar
<1> QED BY <1>3, <1>4, <1>5, <1>6, <1>7
-----------------------------------------------------------------------------
(* The walk over the days. *)

(* The only sequence of no element, and of one. *)
LEMMA SetToSeqOfOne ==
  /\ SetToSeq({}) = <<>>
  /\ \A x : SetToSeq({x}) = <<x>>
<1>1. SetToSeq({}) = <<>>
  <2>1. Cardinality({}) = 0 /\ 1 .. 0 = {}
    BY FS_EmptySet
  <2>2. <<>> \in [1 .. 0 -> {}] /\ IsInjective(<<>>)
    BY <2>1 DEF IsInjective
  <2>3. \A f : f \in [1 .. 0 -> {}] => f = <<>>
    BY <2>1
  <2> QED BY <2>1, <2>2, <2>3 DEF SetToSeq
<1>2. ASSUME NEW x PROVE SetToSeq({x}) = <<x>>
  <2>1. Cardinality({x}) = 1
    BY FS_Singleton
  <2>2. <<x>> \in [1 .. 1 -> {x}] /\ IsInjective(<<x>>)
    BY DEF IsInjective
  <2>3. ASSUME NEW f \in [1 .. 1 -> {x}] PROVE f = <<x>>
    <3>1. DOMAIN f = 1 .. 1 /\ f = [i \in 1 .. 1 |-> f[i]] /\ f[1] = x
      OBVIOUS
    <3>2. <<x>> = [i \in 1 .. 1 |-> x] /\ \A i \in 1 .. 1 : i = 1
      OBVIOUS
    <3> QED BY <3>1, <3>2
  <2>4. SetToSeq({x}) \in [1 .. 1 -> {x}]
    BY <2>1, <2>2, Zenon DEF SetToSeq
  <2> QED BY <2>3, <2>4
<1> QED BY <1>1, <1>2

(* The same of the open span from a moment on. *)
LEMMA ClippedIsOpenTicks ==
  ASSUME IsCalendar(calendar), NEW day \in Nat, NEW moment \in Nat
  PROVE  /\ \/ Clipped(day, moment) = {}
            \/ \E a, b \in Int : /\ Clipped(day, moment) = {<<a, b>>} /\ a < b /\ moment <= a
                                 /\ At(day, 0) <= a /\ b <= At(day + 1, 0)
         /\ \A tick \in Nat : moment <= tick /\ At(day, 0) <= tick /\ tick < At(day + 1, 0) =>
              (IsOpen(tick) <=> \E s \in Clipped(day, moment) : s[1] <= tick /\ tick < s[2])
         /\ _segment_for(day) = {} => Clipped(day, moment) = {}
<1>1. PICK begins \in Int, ends \in Int : begins = At(day, 0) /\ ends = At(day + 1, 0)
  BY DaysGoOn
<1>2. \A tick \in Nat : begins <= tick /\ tick < ends =>
        (IsOpen(tick) <=> \E s \in _segment_for(day) : s[1] <= tick /\ tick < s[2])
  BY <1>1, SegmentIsOpenTicks
<1>3. CASE _segment_for(day) = {}
  <2>1. Clipped(day, moment) = {}
    BY <1>3 DEF Clipped
  <2> QED BY <1>1, <1>2, <1>3, <2>1
<1>4. CASE \E a, b \in Int : /\ _segment_for(day) = {<<a, b>>} /\ a < b
                             /\ At(day, 0) <= a /\ b <= At(day + 1, 0)
  <2>1. PICK a \in Int, b \in Int :
          _segment_for(day) = {<<a, b>>} /\ a < b /\ begins <= a /\ b <= ends
    BY <1>1, <1>4
  <2>2. \A tick \in Nat : begins <= tick /\ tick < ends => (IsOpen(tick) <=> a <= tick /\ tick < b)
    BY <1>2, <2>1
  <2>3. CASE b > moment
    <3>1. PICK c \in Int : c = Later(a, moment) /\ c < b /\ moment <= c /\ begins <= c
      BY <2>1, <2>3, <1>1 DEF Later
    <3>2. { x \in _segment_for(day) : x[2] > moment } = {<<a, b>>}
      BY <2>1, <2>3
    <3>3. Clipped(day, moment) = {<<c, b>>}
      <4>1. Clipped(day, moment) = { <<Later(s[1], moment), s[2]>> : s \in {<<a, b>>} }
        BY <3>2 DEF Clipped
      <4>2. Clipped(day, moment) = { <<Later(a, moment), b>> }
        BY <4>1
      <4> QED BY <3>1, <4>2
    <3>4. ASSUME NEW tick \in Nat, moment <= tick, begins <= tick, tick < ends
          PROVE  IsOpen(tick) <=> c <= tick /\ tick < b
      BY <2>1, <2>2, <3>1, <3>4 DEF Later
    <3>6. \A tick \in Nat : moment <= tick /\ At(day, 0) <= tick /\ tick < At(day + 1, 0) =>
            (IsOpen(tick) <=> \E s \in Clipped(day, moment) : s[1] <= tick /\ tick < s[2])
      BY <1>1, <3>3, <3>4
    <3>7. \E x, y \in Int : /\ Clipped(day, moment) = {<<x, y>>} /\ x < y /\ moment <= x
                            /\ At(day, 0) <= x /\ y <= At(day + 1, 0)
      BY <1>1, <2>1, <3>1, <3>3
    <3>8. _segment_for(day) # {}
      BY <2>1
    <3> QED BY <3>6, <3>7, <3>8
  <2>4. CASE ~(b > moment)
    <3>1. Clipped(day, moment) = {}
      BY <2>1, <2>4 DEF Clipped
    <3>2. ASSUME NEW tick \in Nat, moment <= tick, begins <= tick, tick < ends PROVE ~IsOpen(tick)
      BY <2>2, <2>4, <3>2
    <3> QED BY <1>1, <3>1, <3>2
  <2> QED BY <2>3, <2>4
<1> QED BY <1>3, <1>4, SegmentIsOpenTicks

(* The same as a sequence, which is what the walk yields for a day. *)
LEMMA ClippedSequence ==
  ASSUME IsCalendar(calendar), NEW day \in Nat, NEW moment \in Nat
  PROVE  LET found == SetToSeq(Clipped(day, moment))
         IN  /\ found \in Seq(Span) /\ Ordered(found)
             /\ \A k \in 1 .. Len(found) : /\ moment <= found[k][1] /\ At(day, 0) <= found[k][1]
                                           /\ found[k][2] <= At(day + 1, 0)
             /\ \A t \in Int : t \in Covered(found) <=>
                  /\ moment <= t /\ At(day, 0) <= t /\ t < At(day + 1, 0) /\ IsOpen(t)
<1>1. PICK begins \in Int, ends \in Int : begins = At(day, 0) /\ ends = At(day + 1, 0)
  BY DaysGoOn
<1>2. \A tick \in Nat : moment <= tick /\ begins <= tick /\ tick < ends =>
        (IsOpen(tick) <=> \E s \in Clipped(day, moment) : s[1] <= tick /\ tick < s[2])
  BY <1>1, ClippedIsOpenTicks
<1>3. \A t \in Int : moment <= t => t \in Nat
  OBVIOUS
<1>4. CASE Clipped(day, moment) = {}
  <2>1. SetToSeq(Clipped(day, moment)) = <<>>
    BY <1>4, SetToSeqOfOne
  <2>2. <<>> \in Seq(Span) /\ Ordered(<<>>) /\ Covered(<<>>) = {} /\ \A k \in 1 .. Len(<<>>) : FALSE
    BY DEF Ordered, Covered, Prior
  <2> QED BY <1>1, <1>2, <1>3, <1>4, <2>1, <2>2
<1>5. CASE \E a, b \in Int : /\ Clipped(day, moment) = {<<a, b>>} /\ a < b /\ moment <= a
                             /\ At(day, 0) <= a /\ b <= At(day + 1, 0)
  <2>1. PICK a \in Int, b \in Int :
          Clipped(day, moment) = {<<a, b>>} /\ a < b /\ moment <= a /\ begins <= a /\ b <= ends
    BY <1>1, <1>5
  <2>2. PICK found : found = SetToSeq(Clipped(day, moment)) /\ found = <<(<<a, b>>)>>
    BY <2>1, SetToSeqOfOne
  <2>3. found \in Seq(Span) /\ Ordered(found) /\ Covered(found) = a .. b - 1
    BY <2>1, <2>2, OneSpan
  <2>4. Len(found) = 1 /\ found[1][1] = a /\ found[1][2] = b
    BY <2>2
  <2>5. \A k \in 1 .. Len(found) : moment <= found[k][1] /\ begins <= found[k][1] /\ found[k][2] <= ends
    BY <2>1, <2>4
  <2>6. ASSUME NEW t \in Int
        PROVE  t \in Covered(found) <=> moment <= t /\ begins <= t /\ t < ends /\ IsOpen(t)
    <3>1. t \in Covered(found) <=> a <= t /\ t < b
      BY <2>3
    <3>2. moment <= t /\ begins <= t /\ t < ends => (IsOpen(t) <=> a <= t /\ t < b)
      BY <1>2, <1>3, <2>1
    <3> QED BY <2>1, <3>1, <3>2
  <2> QED BY <1>1, <2>2, <2>3, <2>5, <2>6
<1> QED BY <1>4, <1>5, ClippedIsOpenTicks

(* A day more leaves spans. *)
LEMMA VisitType ==
  ASSUME IsCalendar(calendar), NEW moment \in Nat
  PROVE  VisitFun(moment) \in [Seq(Span) \X Rank -> Seq(Span)]
<1>1. ASSUME NEW found \in Seq(Span), NEW i \in Rank PROVE Visit(moment, found, i) \in Seq(Span)
  <2>1. LocalDay(moment) + i - 1 \in Nat
    <3>1. LocalDay(moment) \in Nat
      BY LocalDayOf
    <3> QED BY <3>1 DEF Rank
  <2>2. SetToSeq(Clipped(LocalDay(moment) + i - 1, moment)) \in Seq(Span)
    BY <2>1, ClippedSequence
  <2> QED BY <2>2 DEF Visit
<1> QED BY <1>1 DEF VisitFun

(* The walk of segments_from, after each day. *)
LEMMA VisitTrace ==
  ASSUME IsCalendar(calendar), NEW moment \in Nat, NEW base \in Seq(Span), NEW es \in Seq(Rank)
  PROVE  \E w : /\ w[0] = base /\ w[Len(es)] = VisitFold(moment, base, es)
                /\ \A i \in 0 .. Len(es) - 1 : w[i + 1] = Visit(moment, w[i], es[i + 1])
<1> DEFINE n == Len(es)
           IsFold(h) == h = [s \in SUBSET (1 .. n) |->
                               IF s = {} THEN base ELSE Visit(moment, h[s \ {Max(s)}], es[Max(s)])]
<1>1. n \in Nat /\ DOMAIN es = 1 .. n
  OBVIOUS
<1>2. \E h : IsFold(h)
  <2>1. PICK g : Folds(VisitFun(moment), base, es, n, g) /\ \A s \in SUBSET (1 .. n) : g[s] \in Seq(Span)
    BY VisitType, FoldExists
  <2>2. ASSUME NEW s \in SUBSET (1 .. n), s # {}
        PROVE  VisitFun(moment)[<<g[s \ {Max(s)}], es[Max(s)]>>] = Visit(moment, g[s \ {Max(s)}], es[Max(s)])
    <3>1. Max(s) \in 1 .. n /\ s \ {Max(s)} \in SUBSET (1 .. n)
      BY <1>1, <2>2, LargestPosition
    <3>2. g[s \ {Max(s)}] \in Seq(Span) /\ es[Max(s)] \in Rank
      BY <2>1, <3>1
    <3> QED BY <3>2 DEF VisitFun
  <2>3. IsFold(g)
    BY <2>1, <2>2 DEF Folds
  <2> QED BY <2>3
<1>3. VisitFold(moment, base, es) = (CHOOSE h : IsFold(h))[1 .. n]
  <2>1. VisitFold(moment, base, es) = (CHOOSE h : h = [s \in SUBSET DOMAIN es |->
           IF s = {} THEN base ELSE Visit(moment, h[s \ {Max(s)}], es[Max(s)])])[DOMAIN es]
    BY DEF VisitFold, FoldLeft, MapThenFoldSet
  <2> QED BY <1>1, <2>1, Zenon
<1>4. PICK h : IsFold(h) /\ VisitFold(moment, base, es) = h[1 .. n]
  <2> HIDE DEF IsFold
  <2> QED BY <1>2, <1>3
<1> DEFINE w == [i \in 0 .. n |-> h[1 .. i]]
<1>5. w[0] = base /\ w[n] = VisitFold(moment, base, es)
  <2>1. 1 .. 0 \in SUBSET (1 .. n) /\ 1 .. 0 = {} /\ 0 \in 0 .. n /\ n \in 0 .. n
    BY <1>1
  <2>2. h[1 .. 0] = base
    BY <1>4, <2>1
  <2> QED BY <1>4, <2>1, <2>2
<1>6. ASSUME NEW i \in 0 .. n - 1 PROVE w[i + 1] = Visit(moment, w[i], es[i + 1])
  <2>1. /\ i \in Nat /\ i < n /\ i \in 0 .. n /\ i + 1 \in 0 .. n
    BY <1>1
  <2>2. /\ 1 .. i + 1 \in SUBSET (1 .. n) /\ 1 .. i + 1 # {}
        /\ Max(1 .. i + 1) = i + 1 /\ (1 .. i + 1) \ {i + 1} = 1 .. i
    BY <1>1, <2>1, PrefixPositions
  <2>3. h[1 .. i + 1] = Visit(moment, h[1 .. i], es[i + 1])
    BY <1>4, <2>2
  <2> QED BY <2>1, <2>3
<1> HIDE DEF w
<1> QED BY <1>5, <1>6

(* The open ticks from an instant up to another. *)
OpenIn(moment, bound) == { t \in Int : moment <= t /\ t < bound /\ IsOpen(t) }

(* What the walk has found of the first i days: nothing, if it gives up      *)
(* before any of them opens.                                                 *)
VisitedSoFar(found, moment, i) ==
  LET bound == At(LocalDay(moment) + i, 0)
  IN  /\ found \in Seq(Span) /\ Ordered(found)
      /\ \A k \in 1 .. Len(found) : moment <= found[k][1] /\ found[k][2] <= bound
      /\ Covered(found) = IF MAX_CLOSED \in GivesUpAt(moment) THEN {} ELSE OpenIn(moment, bound)

(* A turn of the walk keeps VisitedSoFar, for one day more. *)
LEMMA VisitGoesOn ==
  ASSUME IsCalendar(calendar), NEW moment \in Nat, NEW i \in 0 .. MAX_DAYS, NEW found,
         VisitedSoFar(found, moment, i)
  PROVE  VisitedSoFar(Visit(moment, found, i + 1), moment, i + 1)
<1>1. PICK first \in Nat : first = LocalDay(moment)
  BY LocalDayOf
<1>2. i \in Nat /\ first + i \in Nat /\ first + (i + 1) = (first + i) + 1
      /\ first + (i + 1) - 1 = first + i
  OBVIOUS
<1>3. PICK begins \in Int, ends \in Int :
        begins = At(first + i, 0) /\ ends = At((first + i) + 1, 0) /\ begins < ends
  BY <1>2, DaysGoOn
<1>4. /\ found \in Seq(Span) /\ Ordered(found)
      /\ \A k \in 1 .. Len(found) : moment <= found[k][1] /\ found[k][2] <= begins
      /\ Covered(found) = IF MAX_CLOSED \in GivesUpAt(moment) THEN {} ELSE OpenIn(moment, begins)
  BY <1>1, <1>3 DEF VisitedSoFar
<1>5. PICK day : day = SetToSeq(Clipped(first + i, moment))
  OBVIOUS
<1>6. /\ day \in Seq(Span) /\ Ordered(day)
      /\ \A k \in 1 .. Len(day) : /\ moment <= day[k][1] /\ begins <= day[k][1]
                                  /\ day[k][2] <= ends
      /\ \A t \in Int : t \in Covered(day) <=>
                          moment <= t /\ begins <= t /\ t < ends /\ IsOpen(t)
  BY <1>2, <1>3, <1>5, ClippedSequence
<1>7. ASSUME NEW t \in Int
      PROVE  t \in OpenIn(moment, ends) <=> t \in OpenIn(moment, begins) \/ t \in Covered(day)
  BY <1>3, <1>6 DEF OpenIn
<1>8. OpenIn(moment, ends) = OpenIn(moment, begins) \cup Covered(day)
  <2>1. OpenIn(moment, ends) \subseteq Int /\ OpenIn(moment, begins) \subseteq Int
        /\ Covered(day) \subseteq Int
    BY DEF OpenIn, Covered, Prior
  <2> QED BY <1>7, <2>1
<1>9. \A last \in GivesUpAt(moment) :
        /\ last = MAX_CLOSED \/ last = MAX_CLOSED + 1
        /\ \A j \in last - MAX_CLOSED .. last : _segment_for(first + j) = {}
  BY <1>1, WalkConstants DEF GivesUpAt
<1>10. _segment_for(first + i) = {} => day = <<>>
  BY <1>2, <1>5, ClippedIsOpenTicks, SetToSeqOfOne
<1>11. Covered(<<>>) = {}
  BY DEF Covered, Prior
<1>12. PICK next : next = Visit(moment, found, i + 1)
  OBVIOUS
<1>13. next = IF \E last \in GivesUpAt(moment) : last < i + 1 THEN found ELSE found \o day
  BY <1>1, <1>2, <1>5, <1>12 DEF Visit
<1>14. ASSUME NEW k \in 1 .. Len(found) PROVE found[k][2] \in Int /\ found[k][2] <= ends
  <2>1. found[k] \in Int \X Int
    BY <1>4 DEF Span
  <2> QED BY <1>3, <1>4, <2>1
<1>15. CASE \E last \in GivesUpAt(moment) : last < i + 1
  <2>1. PICK last \in GivesUpAt(moment) : last < i + 1
    BY <1>15
  <2>2. next = found
    BY <1>13, <1>15
  <2>3. CASE MAX_CLOSED \in GivesUpAt(moment)
    BY <1>1, <1>2, <1>3, <1>4, <1>12, <1>14, <2>2, <2>3 DEF VisitedSoFar
  <2>4. CASE MAX_CLOSED \notin GivesUpAt(moment)
    <3>1. last = MAX_CLOSED + 1 /\ i = last
      BY <1>2, <1>9, <2>1, <2>4, WalkConstants
    <3>2. i \in last - MAX_CLOSED .. last
      BY <3>1, WalkConstants
    <3>3. Covered(day) = {}
      BY <1>9, <1>10, <1>11, <2>1, <3>2
    <3>4. Covered(next) = OpenIn(moment, ends)
      BY <1>4, <1>8, <2>2, <2>4, <3>3
    <3> QED BY <1>1, <1>2, <1>3, <1>4, <1>12, <1>14, <2>2, <2>4, <3>4 DEF VisitedSoFar
  <2> QED BY <2>3, <2>4
<1>16. CASE ~\E last \in GivesUpAt(moment) : last < i + 1
  <2>1. next = found \o day
    BY <1>13, <1>16
  <2>2. ASSUME NEW k \in 1 .. Len(found), NEW m \in 1 .. Len(day) PROVE found[k][2] <= day[m][1]
    <3>1. found[k] \in Int \X Int /\ day[m] \in Int \X Int
      BY <1>4, <1>6, SpanOf, Zenon
    <3>2. found[k][2] \in Int /\ day[m][1] \in Int
      BY <3>1
    <3>3. found[k][2] <= begins /\ begins <= day[m][1]
      BY <1>4, <1>6
    <3> QED BY <1>3, <3>2, <3>3
  <2>3. next \in Seq(Span) /\ Ordered(next) /\ Covered(next) = Covered(found) \cup Covered(day)
    BY <1>4, <1>6, <2>1, <2>2, JoinOrdered
  <2>4. ASSUME NEW k \in 1 .. Len(next) PROVE moment <= next[k][1] /\ next[k][2] <= ends
    <3>1. /\ Len(next) = Len(found) + Len(day) /\ Len(found) \in Nat /\ Len(day) \in Nat
          /\ \A m \in 1 .. Len(found) : next[m] = found[m]
          /\ \A m \in Len(found) + 1 .. Len(found) + Len(day) : next[m] = day[m - Len(found)]
      BY <1>4, <1>6, <2>1
    <3>2. CASE k \in 1 .. Len(found)
      BY <1>4, <1>14, <3>1, <3>2
    <3>3. CASE k \in Len(found) + 1 .. Len(found) + Len(day)
      <4>1. k - Len(found) \in 1 .. Len(day) /\ next[k] = day[k - Len(found)]
        BY <3>1, <3>3
      <4> QED BY <1>6, <4>1
    <3>4. k \in 1 .. Len(found) \/ k \in Len(found) + 1 .. Len(found) + Len(day)
      BY <3>1
    <3> QED BY <3>2, <3>3, <3>4
  <2>5. Covered(next) = IF MAX_CLOSED \in GivesUpAt(moment) THEN {} ELSE OpenIn(moment, ends)
    <3>1. CASE MAX_CLOSED \in GivesUpAt(moment)
      <4>1. i \in MAX_CLOSED - MAX_CLOSED .. MAX_CLOSED
        BY <1>2, <1>16, <3>1, WalkConstants
      <4>2. Covered(day) = {}
        BY <1>9, <1>10, <1>11, <3>1, <4>1
      <4> QED BY <1>4, <2>3, <3>1, <4>2
    <3>2. CASE MAX_CLOSED \notin GivesUpAt(moment)
      BY <1>4, <1>8, <2>3, <3>2
    <3> QED BY <3>1, <3>2
  <2> QED BY <1>1, <1>2, <1>3, <1>12, <2>3, <2>4, <2>5 DEF VisitedSoFar
<1> QED BY <1>15, <1>16

(* segments_from yields, in order, the open ticks from a moment to the     *)
(* horizon, unless it gives up before the first.                           *)
LEMMA SegmentsAreOpenTicks ==
  ASSUME IsCalendar(calendar), NEW moment \in Nat
  PROVE  VisitedSoFar(segments_from(moment), moment, MAX_DAYS + 1)
<1>1. PICK n \in Nat : n = MAX_DAYS + 1
  BY WalkConstants
<1>2. PICK es : es = [i \in 1 .. n |-> i]
  OBVIOUS
<1>3. es \in Seq(Rank) /\ Len(es) = n
  <2>1. \A i \in 1 .. n : i \in Rank
    BY DEF Rank
  <2> QED BY <1>2, <2>1
<1>4. PICK base : base = <<>> /\ base \in Seq(Span)
  <2>1. <<>> \in Seq(Span)
    OBVIOUS
  <2> QED BY <2>1, Zenon
<1>5. PICK w : /\ w[0] = base /\ w[Len(es)] = VisitFold(moment, base, es)
               /\ \A i \in 0 .. Len(es) - 1 : w[i + 1] = Visit(moment, w[i], es[i + 1])
  BY <1>3, <1>4, VisitTrace
<1> DEFINE N == { i \in Nat : i <= n => VisitedSoFar(w[i], moment, i) }
<1>6. 0 \in N
  <2>1. Ordered(<<>>) /\ Covered(<<>>) = {} /\ \A k \in 1 .. Len(<<>>) : FALSE
    BY DEF Ordered, Covered, Prior
  <2>2. OpenIn(moment, At(LocalDay(moment) + 0, 0)) = {}
    <3>1. LocalDay(moment) \in Nat /\ LocalDay(moment) + 0 = LocalDay(moment)
          /\ At(LocalDay(moment), 0) <= moment
      BY LocalDayOf
    <3>2. At(LocalDay(moment), 0) \in Int
      BY <3>1, DaysGoOn
    <3>3. \A t \in Int : ~(moment <= t /\ t < At(LocalDay(moment), 0))
      BY <3>1, <3>2
    <3> QED BY <3>1, <3>3 DEF OpenIn
  <2>3. VisitedSoFar(base, moment, 0)
    BY <1>4, <2>1, <2>2 DEF VisitedSoFar
  <2> QED BY <1>5, <2>3
<1>7. ASSUME NEW i \in N PROVE i + 1 \in N
  <2>1. i \in Nat /\ i + 1 \in Nat
    OBVIOUS
  <2>2. SUFFICES ASSUME i + 1 <= n PROVE VisitedSoFar(w[i + 1], moment, i + 1)
    BY <2>1
  <2>3. VisitedSoFar(w[i], moment, i)
    BY <2>1, <2>2
  <2>4. i \in 0 .. MAX_DAYS /\ i \in 0 .. Len(es) - 1 /\ i + 1 \in 1 .. n
    BY <1>1, <1>3, <2>1, <2>2, WalkConstants
  <2>5. w[i + 1] = Visit(moment, w[i], i + 1)
    BY <1>2, <1>5, <2>4
  <2>6. VisitedSoFar(Visit(moment, w[i], i + 1), moment, i + 1)
    BY <2>3, <2>4, VisitGoesOn
  <2> QED BY <2>5, <2>6
<1> HIDE DEF N
<1>8. N \in SUBSET Nat
  BY DEF N
<1>9. n \in N
  BY <1>6, <1>7, <1>8, NumberInduction
<1>10. VisitedSoFar(w[n], moment, n)
  BY <1>9 DEF N
<1>11. w[n] = segments_from(moment)
  BY <1>1, <1>2, <1>3, <1>4, <1>5, Zenon DEF segments_from, VisitFold
<1> QED BY <1>1, <1>10, <1>11
-----------------------------------------------------------------------------
(* The two properties of the walk. *)

(* The inductive invariant: the values the walk is computed from are a     *)
(* calendar, an instant and pauses.                                        *)
WalkInv ==
  /\ IsCalendar(calendar)
  /\ start \in Nat \cup {NotStarted}
  /\ pauses \in Seq(Nat \X Nat)

(* The business time from the start that no pause takes out. *)
UsableFrom == OpenIn(start, HorizonOf) \ PausedAt(pauses)

(* The business time no pause takes out is what BusinessTicks calls        *)
(* usable.                                                                 *)
LEMMA UsableTicks ==
  ASSUME WalkInv, start \in Nat
  PROVE  /\ HorizonOf \in Nat /\ start < HorizonOf
         /\ \A t \in Int : t \in UsableFrom <=>
              start <= t /\ t \in Ticks(HorizonOf, OpenTicks)!Usable(PauseSet)
         /\ \A t \in UsableFrom : t \in Int /\ start <= t /\ t < HorizonOf
         /\ IsFiniteSet(UsableFrom)
<1>1. PICK first \in Nat, n \in Nat : first = LocalDay(start) /\ n = MAX_DAYS
  BY LocalDayOf, WalkConstants DEF WalkInv
<1>2. HorizonOf \in Nat /\ start < HorizonOf
  <2>1. first + n \in Nat /\ first + 1 \in Nat
    OBVIOUS
  <2>2. /\ At(first + 1, 0) \in Int /\ At((first + n) + 1, 0) \in Int
        /\ start < At(first + 1, 0)
    BY <1>1, <2>1, LocalDayOf, DaysGoOn DEF WalkInv
  <2>3. first \in 0 .. ((first + n) + 1) - 1 /\ (first + n) + 1 \in Nat
    OBVIOUS
  <2>4. At(first + 1, 0) <= At((first + n) + 1, 0)
    BY <2>3, DaysInOrder DEF WalkInv
  <2>5. HorizonOf = At((first + n) + 1, 0)
    BY <1>1 DEF HorizonOf
  <2> QED BY <2>2, <2>4, <2>5
<1>3. PICK horizon \in Nat : horizon = HorizonOf
  BY <1>2
<1>4. PICK open : open = OpenTicks
  OBVIOUS
<1>5. \A t \in Int : t \in open <=> 0 <= t /\ t < horizon /\ IsOpen(t)
  BY <1>3, <1>4 DEF OpenTicks
<1>6. ASSUME NEW t \in Int
      PROVE  t \in PausedAt(pauses) <=> \E p \in PauseSet : p[1] <= t /\ t < p[2]
  <2>1. Range(pauses) = { pauses[i] : i \in DOMAIN pauses }
    BY DEF Range
  <2>2. \A p \in Range(pauses) : p[1] \in Int /\ p[2] \in Int
    BY DEF Range, WalkInv
  <2>3. \A p \in Range(pauses) : p[1] <= t /\ t < p[2] => p[2] > p[1]
    BY <2>2
  <2>4. PauseSet = { p \in Range(pauses) : p[2] > p[1] }
    BY <2>1, Zenon DEF PauseSet
  <2> QED BY <2>3, <2>4 DEF PausedAt
<1>7. \A t \in Int : t \in Ticks(horizon, open)!Usable(PauseSet) <=>
                       t \in open /\ t \notin PausedAt(pauses)
  BY <1>6 DEF Ticks!Usable, Ticks!PausedTicks
<1>8. ASSUME NEW t \in Int
      PROVE  t \in UsableFrom <=> start <= t /\ t \in Ticks(horizon, open)!Usable(PauseSet)
  <2>1. start <= t => 0 <= t
    OBVIOUS
  <2> QED BY <1>3, <1>5, <1>7, <2>1 DEF UsableFrom, OpenIn
<1>9. \A t \in UsableFrom : t \in Int /\ start <= t /\ t < horizon
  BY <1>3 DEF UsableFrom, OpenIn
<1>10. IsFiniteSet(UsableFrom)
  <2>1. IsFiniteSet(0 .. horizon)
    BY FS_Interval
  <2>2. UsableFrom \subseteq 0 .. horizon
    BY <1>9
  <2> QED BY <2>1, <2>2, FS_Subset
<1> QED BY <1>2, <1>3, <1>4, <1>8, <1>9, <1>10

(* The instance counts as this module does. *)
LEMMA TicksAreCounted ==
  ASSUME NEW horizon, NEW open, NEW S
  PROVE  Ticks(horizon, open)!Cardinality(S) = Cardinality(S)
BY DEF Ticks!Cardinality, Cardinality

(* The business time of BusinessTicks is a number of usable ticks. *)
LEMMA UsableTime ==
  ASSUME WalkInv, start \in Nat, NEW b
  PROVE  Ticks(HorizonOf, OpenTicks)!BusinessTimeBetween(start, b, PauseSet)
           = Cardinality({ t \in UsableFrom : t < b })
<1>1. PICK usable : usable = Ticks(HorizonOf, OpenTicks)!Usable(PauseSet)
  OBVIOUS
<1>2. usable \subseteq Int
  BY <1>1 DEF Ticks!Usable, OpenTicks
<1>3. \A t \in Int : t \in UsableFrom <=> start <= t /\ t \in usable
  BY <1>1, UsableTicks
<1>4. UsableFrom \subseteq Int
  BY UsableTicks
<1>5. { t \in usable : start <= t /\ t < b } = { t \in UsableFrom : t < b }
  BY <1>2, <1>3, <1>4
<1>6. Ticks(HorizonOf, OpenTicks)!BusinessTimeBetween(start, b, PauseSet)
        = Cardinality({ t \in Ticks(HorizonOf, OpenTicks)!Usable(PauseSet) : start <= t /\ t < b })
  <2>1. Ticks(HorizonOf, OpenTicks)!BusinessTimeBetween(start, b, PauseSet)
          = Ticks(HorizonOf, OpenTicks)!Cardinality(
              { t \in Ticks(HorizonOf, OpenTicks)!Usable(PauseSet) : start <= t /\ t < b })
    BY Zenon DEF Ticks!BusinessTimeBetween
  <2> QED BY <2>1, TicksAreCounted, Zenon
<1> QED BY <1>1, <1>5, <1>6

(* The parts of the walk from the start are its usable ticks. *)
LEMMA PartsAreUsable ==
  ASSUME WalkInv, start \in Nat
  PROVE  LET parts == Parts(segments_from(start), _normalise(pauses))
         IN  /\ parts \in Seq(Span) /\ Ordered(parts)
             /\ Covered(parts) = IF ClosedForAYear THEN {} ELSE UsableFrom
<1>1. PICK segments, merged : segments = segments_from(start) /\ merged = _normalise(pauses)
  OBVIOUS
<1>2. VisitedSoFar(segments, start, MAX_DAYS + 1)
  BY <1>1, SegmentsAreOpenTicks DEF WalkInv
<1>3. HorizonOf = At(LocalDay(start) + (MAX_DAYS + 1), 0)
  <2>1. LocalDay(start) + (MAX_DAYS + 1) = LocalDay(start) + MAX_DAYS + 1
    BY LocalDayOf, WalkConstants DEF WalkInv
  <2> QED BY <2>1 DEF HorizonOf
<1>4. /\ segments \in Seq(Span) /\ Ordered(segments)
      /\ Covered(segments) = IF ClosedForAYear THEN {} ELSE OpenIn(start, HorizonOf)
  BY <1>2, <1>3 DEF VisitedSoFar, ClosedForAYear
<1>5. merged \in Seq(Span) /\ Ordered(merged) /\ Covered(merged) = PausedAt(pauses)
  BY <1>1, NormaliseCovers DEF WalkInv
<1>6. PICK parts : parts = Parts(segments, merged)
  OBVIOUS
<1>7. parts \in Seq(Span) /\ Ordered(parts) /\ Covered(parts) = Covered(segments) \ Covered(merged)
  BY <1>4, <1>5, <1>6, PartsLeave
<1>8. Covered(parts) = IF ClosedForAYear THEN {} ELSE UsableFrom
  BY <1>4, <1>5, <1>7 DEF UsableFrom
<1> QED BY <1>1, <1>6, <1>7, <1>8

(* compute_deadline and BusinessTicks answer the same instant. *)
LEMMA DeadlineReached ==
  ASSUME WalkInv, start \in Nat, NEW window \in Nat \ {0}
  PROVE  /\ compute_deadline(window) = IF ClosedForAYear THEN {} ELSE Reached(UsableFrom, window)
         /\ Ticks(HorizonOf, OpenTicks)!Expiries(start, window, PauseSet) = Reached(UsableFrom, window)
<1>1. PICK parts : parts = Parts(segments_from(start), _normalise(pauses))
  OBVIOUS
<1>2. /\ parts \in Seq(Span) /\ Ordered(parts)
      /\ Covered(parts) = IF ClosedForAYear THEN {} ELSE UsableFrom
  BY <1>1, PartsAreUsable
<1>3. compute_deadline(window) = Reached(Covered(parts), window)
  <2>1. FoldLeft(Spend, [remaining |-> window, answer |-> {}], parts).answer
          = Reached(Covered(parts), window)
    BY <1>2, SpendReaches
  <2> QED BY <1>1, <2>1, Zenon DEF compute_deadline
<1>4. Reached({}, window) = {}
  BY DEF Reached
<1>5. compute_deadline(window) = IF ClosedForAYear THEN {} ELSE Reached(UsableFrom, window)
  BY <1>2, <1>3, <1>4
<1>6. PICK expiries : expiries = Ticks(HorizonOf, OpenTicks)!Expiries(start, window, PauseSet)
  OBVIOUS
<1>7. PICK horizon \in Nat : horizon = HorizonOf
  BY UsableTicks
<1>8. \A d : d \in expiries <=>
        /\ d \in 0 .. horizon /\ d > start
        /\ d - 1 \in Ticks(HorizonOf, OpenTicks)!Usable(PauseSet)
        /\ Ticks(HorizonOf, OpenTicks)!BusinessTimeBetween(start, d, PauseSet) = window
  BY <1>6, <1>7 DEF Ticks!Expiries, Ticks!Instant
<1>9. ASSUME NEW d \in Int PROVE d \in expiries <=> d \in Reached(UsableFrom, window)
  <2>1. d - 1 \in Int
    OBVIOUS
  <2>2. d - 1 \in UsableFrom <=>
          start <= d - 1 /\ d - 1 \in Ticks(HorizonOf, OpenTicks)!Usable(PauseSet)
    BY <2>1, UsableTicks
  <2>3. d - 1 \in UsableFrom => start <= d - 1 /\ d - 1 < horizon
    BY <1>7, UsableTicks
  <2>4. Ticks(HorizonOf, OpenTicks)!BusinessTimeBetween(start, d, PauseSet)
          = Cardinality({ t \in UsableFrom : t < d })
    BY UsableTime
  <2>5. d \in Reached(UsableFrom, window) <=>
          d - 1 \in UsableFrom /\ Cardinality({ t \in UsableFrom : t < d }) = window
    BY DEF Reached
  <2> QED BY <1>8, <2>2, <2>3, <2>4, <2>5
<1>10. expiries = Reached(UsableFrom, window)
  <2>1. expiries \subseteq Int /\ Reached(UsableFrom, window) \subseteq Int
    BY <1>8 DEF Reached
  <2> QED BY <1>9, <2>1
<1> QED BY <1>5, <1>6, <1>10

(* The calendar is one throughout, the clock starts at an instant, and     *)
(* every pause is a pair of instants.                                      *)
LEMMA WalkInvHolds ==
  ASSUME NEW CONSTANT calendars
  PROVE  WalkSpec(calendars) => []WalkInv
<1>1. WalkInit(calendars) => WalkInv
  BY DEF WalkInit, WalkInv
<1>2. WalkInv /\ [WalkNext]_walkVars => WalkInv'
  <2> SUFFICES ASSUME WalkInv, [WalkNext]_walkVars PROVE WalkInv'
    OBVIOUS
  <2>1. ASSUME NEW moment \in Nat, StartClock(moment) PROVE WalkInv'
    BY <2>1 DEF StartClock, WalkInv, IsCalendar
  <2>2. ASSUME NEW from \in Nat, NEW to \in Nat, AddPause(from, to) PROVE WalkInv'
    BY <2>2 DEF AddPause, WalkInv, IsCalendar
  <2>3. CASE UNCHANGED walkVars
    BY <2>3 DEF walkVars, WalkInv, IsCalendar
  <2> QED BY <2>1, <2>2, <2>3 DEF WalkNext
<1> QED BY <1>1, <1>2, PTL DEF WalkSpec

(* Of a window with no boundary inside the change of clocks, the wall clock  *)
(* shows the opening hours exactly while it is open.                         *)
LEMMA OpenAsShown ==
  ASSUME WalkInv, start \in Nat
  PROVE  OpenIsWhatTheClockShows
<1>1. IsCalendar(calendar)
  BY DEF WalkInv
<1>2. HorizonOf \in Nat
  BY UsableTicks
<1> SUFFICES ASSUME NEW tick \in Nat,
                    ~(OpeningHours(tick) # Closed
                        /\ \E i \in {1, 2} : InsideTheChange(LocalDay(tick), OpeningHours(tick)[i]))
             PROVE  IsOpen(tick) <=> ShownOpen(tick)
  BY <1>2 DEF OpenIsWhatTheClockShows
<1>3. PICK day \in Nat : /\ day = LocalDay(tick)
                         /\ At(day, 0) <= tick /\ tick < At(day + 1, 0)
  BY <1>1, LocalDayOf
<1>4. CASE OpeningHours(tick) = Closed
  BY <1>4 DEF IsOpen, ShownOpen
<1>5. CASE OpeningHours(tick) # Closed
  <2>1. day % WeekLength \in 0 .. WeekLength - 1
    BY WalkConstants
  <2>2. PICK opens \in Nat, closes \in Nat :
          /\ opens = OpeningHours(tick)[1] /\ closes = OpeningHours(tick)[2]
          /\ opens < DayLength /\ closes < DayLength
    <3>1. PICK window \in Nat \X Nat :
            window = OpeningHours(tick) /\ window[1] < window[2] /\ window[2] < DayLength
      BY <1>1, <1>3, <1>5, <2>1 DEF IsCalendar, OpeningHours
    <3> QED BY <3>1, WalkConstants
  <2>3. PICK shown \in Int :
          /\ shown = WallClock(tick)[2]
          /\ shown = (tick - At(day, 0))
                       + (IF day = calendar.change.day /\ tick - At(day, 0) >= ChangeHour
                          THEN calendar.change.shift ELSE 0)
    <3>1. At(day, 0) \in Int
      BY <1>1, DaysGoOn
    <3>2. calendar.change.shift \in Int
      BY <1>1, ShiftOfTheClocks
    <3> QED BY <1>3, <3>1, <3>2 DEF WallClock
  <2>4. ~InsideTheChange(day, opens) /\ ~InsideTheChange(day, closes)
    BY <1>3, <1>5, <2>2
  <2>5. opens <= shown <=> At(day, opens) <= tick
    BY <1>1, <1>3, <2>3, <2>4, WallHour
  <2>6. closes <= shown <=> At(day, closes) <= tick
    BY <1>1, <1>3, <2>3, <2>4, WallHour
  <2>7. HasCome(tick, opens) <=> At(day, opens) <= tick
    BY <1>1, <1>3, <2>2, TheHourHasCome
  <2>8. HasCome(tick, closes) <=> At(day, closes) <= tick
    BY <1>1, <1>3, <2>2, TheHourHasCome
  <2>9. shown < closes <=> ~(closes <= shown)
    BY <2>2, <2>3
  <2> QED BY <2>2, <2>3, <2>5, <2>6, <2>7, <2>8, <2>9 DEF IsOpen, ShownOpen
<1> QED BY <1>4, <1>5

(* For any calendars, any start of a clock and any pauses in any order:    *)
(* the deadline that compute_deadline (sla/deadlines.py) reaches over the  *)
(* segments of segments_from (sla/calendar.py) and the pauses _normalise   *)
(* merges and _subtract cuts out is the instant at which the window is     *)
(* used up, for every window; and it raises exactly when the calendar      *)
(* stays closed from the start or no instant within the horizon uses the   *)
(* window up.  What is used up is the time from the first showing of the   *)
(* opening hour to that of the closing hour, which is what the wall clock  *)
(* shows as open unless one of the two lies inside the change of clocks.   *)
THEOREM DeadlineIsTheExpiry ==
  ASSUME NEW CONSTANT calendars
  PROVE  WalkSpec(calendars) => []WalkReachesTheExpiry
<1>1. WalkInv => WalkReachesTheExpiry
  <2> SUFFICES ASSUME WalkInv, start # NotStarted
               PROVE  /\ OpenIsWhatTheClockShows
                      /\ \A window \in Windows : compute_deadline(window) =
                           IF ClosedForAYear THEN {}
                           ELSE Ticks(HorizonOf, OpenTicks)!Expiries(start, window, PauseSet)
    BY DEF WalkReachesTheExpiry
  <2>1. start \in Nat /\ \A window \in Windows : window \in Nat \ {0}
    BY WindowsAssumption DEF WalkInv
  <2> QED BY <2>1, OpenAsShown, DeadlineReached
<1> QED BY <1>1, WalkInvHolds, PTL
-----------------------------------------------------------------------------
(* The measure: the segments up to an instant. *)

(* The segments that start before an instant are the first so many of      *)
(* them, as they are in order.                                             *)
LEMMA WithinIsPrefix ==
  ASSUME NEW segments \in Seq(Span), Ordered(segments), NEW end \in Int
  PROVE  \E m \in 0 .. Len(segments) : Within(segments, end) = 1 .. m
<1>1. PICK n \in Nat : n = Len(segments)
  OBVIOUS
<1>2. PICK past \in SUBSET Nat :
        past = { i \in 1 .. n + 1 : i = n + 1 \/ ~(segments[i][1] < end) }
  <2>1. { i \in 1 .. n + 1 : i = n + 1 \/ ~(segments[i][1] < end) } \subseteq 1 .. n + 1
    OBVIOUS
  <2>2. 1 .. n + 1 \subseteq Nat
    OBVIOUS
  <2> QED BY <2>1, <2>2, Zenon
<1>3. n + 1 \in past
  BY <1>2
<1>4. PICK first \in past : \A i \in past : first <= i
  BY <1>3, LeastNumber
<1>5. PICK m \in 0 .. n : first = m + 1
  <2>1. first - 1 \in 0 .. n /\ first = (first - 1) + 1
    BY <1>2
  <2> QED BY <2>1
<1>6. \A i \in 1 .. n : segments[i][1] \in Int /\ segments[i][2] \in Int
  <2>1. \A i \in 1 .. n : segments[i] \in Int \X Int
    BY <1>1 DEF Span
  <2> QED BY <2>1
<1>7. ASSUME NEW i \in 1 .. n PROVE segments[i][1] < end <=> i \in 1 .. m
  <2>1. ASSUME i \in 1 .. m PROVE segments[i][1] < end
    <3>1. i \notin past /\ i \in 1 .. n + 1 /\ i # n + 1
      BY <1>4, <1>5, <2>1
    <3> QED BY <1>2, <3>1
  <2>2. ASSUME i \notin 1 .. m PROVE ~(segments[i][1] < end)
    <3>1. m + 1 \in 1 .. n /\ m + 1 <= i
      BY <2>2
    <3>2. ~(segments[m + 1][1] < end)
      BY <1>2, <1>5, <3>1
    <3>3. CASE i = m + 1
      BY <3>2, <3>3
    <3>4. CASE i # m + 1
      <4>1. m + 1 \in 1 .. i - 1
        BY <3>1, <3>4
      <4>2. segments[m + 1][1] < segments[m + 1][2] /\ segments[m + 1][2] <= segments[i][1]
        BY <1>1, <3>1, <4>1 DEF Ordered
      <4>3. /\ segments[m + 1][1] \in Int /\ segments[m + 1][2] \in Int
            /\ segments[i][1] \in Int
        BY <1>6, <3>1
      <4> QED BY <3>2, <4>2, <4>3
    <3> QED BY <3>3, <3>4
  <2> QED BY <2>1, <2>2
<1>8. DOMAIN segments = 1 .. n
  BY <1>1
<1>9. Within(segments, end) = 1 .. m
  <2>1. \A i \in 1 .. m : i \in 1 .. n
    OBVIOUS
  <2> QED BY <1>7, <1>8, <2>1 DEF Within
<1> QED BY <1>1, <1>9

(* The segments up to an instant, the last of them cut off there. *)
UpTo(segments, end) ==
  [i \in Within(segments, end) |-> <<segments[i][1], Earlier(segments[i][2], end)>>]

(* Segments cut off at an instant cover the ticks before it. *)
LEMMA ClippedAtEnd ==
  ASSUME NEW segments \in Seq(Span), Ordered(segments), NEW end \in Int
  PROVE  /\ UpTo(segments, end) \in Seq(Span) /\ Ordered(UpTo(segments, end))
         /\ Covered(UpTo(segments, end)) = { t \in Covered(segments) : t < end }
<1>1. PICK n \in Nat : n = Len(segments)
  OBVIOUS
<1>2. PICK m \in 0 .. n : Within(segments, end) = 1 .. m
  BY <1>1, WithinIsPrefix
<1>3. ASSUME NEW i \in 1 .. n
      PROVE  /\ segments[i][1] \in Int /\ segments[i][2] \in Int
             /\ segments[i][1] < segments[i][2]
             /\ \A j \in 1 .. i - 1 : segments[j][2] <= segments[i][1]
             /\ segments[i][1] < end <=> i \in 1 .. m
  <2>1. segments[i] \in Int \X Int
    BY <1>1 DEF Span
  <2>2. i \in Within(segments, end) <=> segments[i][1] < end
    BY <1>1 DEF Within
  <2> QED BY <1>1, <1>2, <2>1, <2>2 DEF Ordered
<1>4. PICK span : span = UpTo(segments, end)
  OBVIOUS
<1>5. span = [i \in 1 .. m |-> <<segments[i][1], Earlier(segments[i][2], end)>>]
  BY <1>2, <1>4 DEF UpTo
<1>6. ASSUME NEW i \in 1 .. m
      PROVE  /\ i \in 1 .. n /\ span[i] \in Span
             /\ span[i][1] = segments[i][1] /\ span[i][2] = Earlier(segments[i][2], end)
             /\ span[i][2] \in Int
  <2>1. i \in 1 .. n
    OBVIOUS
  <2>2. segments[i][1] \in Int /\ Earlier(segments[i][2], end) \in Int
    BY <1>3, <2>1 DEF Earlier
  <2>3. span[i] = <<segments[i][1], Earlier(segments[i][2], end)>>
    BY <1>5
  <2> QED BY <2>1, <2>2, <2>3 DEF Span
<1>7. span \in Seq(Span) /\ Len(span) = m
  <2>1. \A f \in [1 .. m -> Span] : f \in Seq(Span) /\ Len(f) = m
    OBVIOUS
  <2>2. span \in [1 .. m -> Span]
    BY <1>5, <1>6
  <2> QED BY <2>1, <2>2
<1>8. Ordered(span)
  <2>1. ASSUME NEW i \in 1 .. m
        PROVE  span[i][1] < span[i][2] /\ \A j \in 1 .. i - 1 : span[j][2] <= span[i][1]
    <3>1. /\ segments[i][1] < segments[i][2] /\ segments[i][1] < end
          /\ segments[i][1] \in Int /\ segments[i][2] \in Int
      BY <1>3, <1>6
    <3>2. span[i][1] < span[i][2]
      BY <1>6, <3>1 DEF Earlier
    <3>3. ASSUME NEW j \in 1 .. i - 1 PROVE span[j][2] <= span[i][1]
      <4>1. j \in 1 .. m /\ j \in 1 .. n
        OBVIOUS
      <4>2. segments[j][2] \in Int /\ segments[j][2] <= segments[i][1]
        BY <1>3, <1>6, <4>1
      <4>3. Earlier(segments[j][2], end) <= segments[j][2]
            /\ Earlier(segments[j][2], end) \in Int
        BY <4>2 DEF Earlier
      <4>4. span[j][2] = Earlier(segments[j][2], end) /\ span[i][1] = segments[i][1]
        BY <1>6, <4>1
      <4> QED BY <3>1, <4>2, <4>3, <4>4
    <3> QED BY <3>2, <3>3
  <2> QED BY <1>7, <2>1 DEF Ordered
<1>9. ASSUME NEW t \in Int
      PROVE  t \in Covered(span) <=> t \in Covered(segments) /\ t < end
  <2>1. ASSUME t \in Covered(span) PROVE t \in Covered(segments) /\ t < end
    <3>1. PICK i \in 1 .. m : span[i][1] <= t /\ t < span[i][2]
      BY <1>7, <2>1 DEF Covered, Prior
    <3>2. segments[i][1] <= t /\ t < segments[i][2] /\ t < end /\ i \in 1 .. n
      <4>1. segments[i][2] \in Int /\ i \in 1 .. n
        BY <1>3, <1>6
      <4>2. segments[i][1] <= t /\ t < Earlier(segments[i][2], end)
        BY <1>6, <3>1
      <4> QED BY <4>1, <4>2 DEF Earlier
    <3> QED BY <1>1, <3>2 DEF Covered, Prior
  <2>2. ASSUME t \in Covered(segments), t < end PROVE t \in Covered(span)
    <3>1. PICK i \in 1 .. n : segments[i][1] <= t /\ t < segments[i][2]
      BY <1>1, <2>2 DEF Covered, Prior
    <3>2. i \in 1 .. m
      BY <1>3, <2>2, <3>1
    <3>3. t < Earlier(segments[i][2], end)
      BY <2>2, <3>1 DEF Earlier
    <3>4. span[i][1] <= t /\ t < span[i][2]
      BY <1>6, <3>1, <3>2, <3>3
    <3> QED BY <1>7, <3>2, <3>4 DEF Covered, Prior
  <2> QED BY <2>1, <2>2
<1>10. Covered(span) = { t \in Covered(segments) : t < end }
  <2>1. Covered(span) \subseteq Int /\ Covered(segments) \subseteq Int
    BY DEF Covered, Prior
  <2> QED BY <1>9, <2>1
<1> QED BY <1>4, <1>7, <1>8, <1>10

(* business_time_between answers the number of usable ticks before an      *)
(* instant, when it answers.                                               *)
LEMMA MeasureIsUsable ==
  ASSUME WalkInv, start \in Nat, ~ClosedForAYear, NEW end \in Int, start <= end
  PROVE  \A used \in business_time_between(end) :
           used = Cardinality({ t \in UsableFrom : t < end })
<1>1. PICK segments, merged : segments = segments_from(start) /\ merged = _normalise(pauses)
  OBVIOUS
<1>2. VisitedSoFar(segments, start, MAX_DAYS + 1)
  BY <1>1, SegmentsAreOpenTicks DEF WalkInv
<1>3. HorizonOf = At(LocalDay(start) + (MAX_DAYS + 1), 0)
  <2>1. LocalDay(start) + (MAX_DAYS + 1) = LocalDay(start) + MAX_DAYS + 1
    BY LocalDayOf, WalkConstants DEF WalkInv
  <2> QED BY <2>1 DEF HorizonOf
<1>4. /\ segments \in Seq(Span) /\ Ordered(segments)
      /\ Covered(segments) = OpenIn(start, HorizonOf)
  BY <1>2, <1>3 DEF VisitedSoFar, ClosedForAYear
<1>5. merged \in Seq(Span) /\ Ordered(merged) /\ Covered(merged) = PausedAt(pauses)
  BY <1>1, NormaliseCovers DEF WalkInv
<1>6. PICK span : span = UpTo(segments, end)
  OBVIOUS
<1>7. /\ span \in Seq(Span) /\ Ordered(span)
      /\ Covered(span) = { t \in Covered(segments) : t < end }
  BY <1>4, <1>6, ClippedAtEnd
<1>8. PICK parts : parts = Parts(span, merged)
  OBVIOUS
<1>9. parts \in Seq(Span) /\ Ordered(parts) /\ Covered(parts) = Covered(span) \ Covered(merged)
  BY <1>5, <1>7, <1>8, PartsLeave
<1>10. Covered(parts) = { t \in UsableFrom : t < end }
  BY <1>4, <1>5, <1>7, <1>9 DEF UsableFrom
<1>11. FoldLeft(AddLength, 0, parts) = Cardinality({ t \in UsableFrom : t < end })
  BY <1>9, <1>10, LengthsAddUp
<1>12. \A used \in business_time_between(end) :
         (used = 0 /\ end <= start) \/ used = FoldLeft(AddLength, 0, parts)
  BY <1>1, <1>6, <1>8, Zenon DEF business_time_between, UpTo
<1>13. ASSUME end <= start PROVE Cardinality({ t \in UsableFrom : t < end }) = 0
  <2>1. { t \in UsableFrom : t < end } = {}
    <3>1. \A t \in UsableFrom : t \in Int /\ start <= t
      BY UsableTicks
    <3> QED BY <1>13, <3>1
  <2> QED BY <2>1, FS_EmptySet
<1> QED BY <1>11, <1>12, <1>13

(* By the deadline more ticks have passed than at any earlier instant, and   *)
(* no fewer at any later one.                                                *)
LEMMA UsedAtTheDeadline ==
  ASSUME WalkInv, start \in Nat, NEW now \in Int, NEW deadline \in Int, deadline - 1 \in UsableFrom
  PROVE  LET used == Cardinality({ t \in UsableFrom : t < now })
             total == Cardinality({ t \in UsableFrom : t < deadline })
         IN  used \in Nat /\ total \in Nat /\ (now >= deadline <=> used >= total)
<1>1. PICK before, all : /\ before = { t \in UsableFrom : t < now }
                         /\ all = { t \in UsableFrom : t < deadline }
  OBVIOUS
<1>2. \A t \in UsableFrom : t \in Int
  BY UsableTicks
<1>3. before \subseteq UsableFrom /\ all \subseteq UsableFrom
  BY <1>1
<1>4. IsFiniteSet(before) /\ IsFiniteSet(all)
  BY <1>3, UsableTicks, FS_Subset
<1>5. Cardinality(before) \in Nat /\ Cardinality(all) \in Nat
  BY <1>4, FS_CardinalityType
<1>6. ASSUME now >= deadline PROVE Cardinality(before) >= Cardinality(all)
  <2>1. all \subseteq before
    BY <1>1, <1>2, <1>6
  <2>2. Cardinality(all) <= Cardinality(before)
    BY <1>4, <2>1, FS_Subset
  <2> QED BY <1>5, <2>2
<1>7. ASSUME ~(now >= deadline) PROVE Cardinality(before) < Cardinality(all)
  <2>1. deadline - 1 \in all
    BY <1>1
  <2>2. before \subseteq all \ {deadline - 1}
    BY <1>1, <1>2, <1>7
  <2>3. IsFiniteSet(all \ {deadline - 1}) /\ Cardinality(all \ {deadline - 1}) = Cardinality(all) - 1
    BY <1>4, <2>1, FS_RemoveElement
  <2>4. Cardinality(before) <= Cardinality(all \ {deadline - 1})
    BY <2>2, <2>3, FS_Subset
  <2> QED BY <1>5, <2>3, <2>4
<1> QED BY <1>1, <1>5, <1>6, <1>7

(* The percentage is full once as much has been used as there is. *)
LEMMA FullWhenUsedUp ==
  ASSUME NEW used \in Nat, NEW total \in Nat \ {0}
  PROVE  Later(0, Earlier(100, (used * 100) \div total)) = 100 <=> used >= total
<1>1. PICK n \in Nat : n = used * 100
  OBVIOUS
<1>2. PICK q \in Nat, r \in 0 .. total - 1 : n = q * total + r /\ q = n \div total
  <2>1. n \div total \in Nat /\ n % total \in 0 .. total - 1
        /\ n = ((n \div total) * total) + (n % total)
    <3>1. n \div total \in Nat
      OBVIOUS
    <3>2. n % total \in 0 .. total - 1
      OBVIOUS
    <3>3. n = ((n \div total) * total) + (n % total)
      OBVIOUS
    <3> QED BY <3>1, <3>2, <3>3
  <2> QED BY <2>1
<1>3. q >= 100 <=> used >= total
  <2>1. ASSUME q >= 100 PROVE used >= total
    <3>1. q * total >= 100 * total
      BY <2>1
    <3> QED BY <1>1, <1>2, <3>1
  <2>2. ASSUME ~(q >= 100) PROVE ~(used >= total)
    <3>1. (q + 1) * total <= 100 * total
      BY <2>2
    <3>2. (q + 1) * total = q * total + total
      OBVIOUS
    <3>3. q * total \in Nat
      OBVIOUS
    <3> QED BY <1>1, <1>2, <3>1, <3>2, <3>3
  <2> QED BY <2>1, <2>2
<1>4. Later(0, Earlier(100, q)) = 100 <=> q >= 100
  BY DEF Later, Earlier
<1> QED BY <1>1, <1>2, <1>3, <1>4

(* For any calendars, any start and any pauses: what business_time_between *)
(* (sla/deadlines.py) measures up to an instant is the business time no    *)
(* pause takes out, and the measure and the walk are each other's inverse: *)
(* elapsed_fraction reaches 100 at the deadline compute_deadline returns   *)
(* and at no earlier instant.                                              *)
THEOREM FractionIsFullOnTime ==
  ASSUME NEW CONSTANT calendars
  PROVE  WalkSpec(calendars) => []FractionIsFullAtTheDeadline
<1>1. ASSUME WalkInv, start # NotStarted, NEW window \in Windows,
             NEW deadline \in compute_deadline(window), NEW now \in start .. HorizonOf
      PROVE  /\ \A used \in business_time_between(now) :
                  used = Ticks(HorizonOf, OpenTicks)!BusinessTimeBetween(start, now, PauseSet)
             /\ \A fraction \in elapsed_fraction(now, deadline) :
                  (fraction = 100) <=> (now >= deadline)
  <2>1. start \in Nat /\ window \in Nat \ {0}
    BY <1>1, WindowsAssumption DEF WalkInv
  <2>2. ~ClosedForAYear /\ deadline \in Reached(UsableFrom, window)
    BY <1>1, <2>1, DeadlineReached
  <2>3. /\ deadline \in Int /\ deadline - 1 \in UsableFrom
        /\ Cardinality({ t \in UsableFrom : t < deadline }) = window
    BY <2>2 DEF Reached
  <2>4. now \in Int /\ start <= now
    BY <1>1, <2>1, UsableTicks
  <2>5. start <= deadline
    <3>1. start <= deadline - 1
      BY <1>1, <2>1, <2>3, UsableTicks
    <3> QED BY <2>1, <2>3, <3>1
  <2>6. \A used \in business_time_between(now) : used = Cardinality({ t \in UsableFrom : t < now })
    BY <1>1, <2>1, <2>2, <2>4, MeasureIsUsable
  <2>7. \A total \in business_time_between(deadline) : total = window
    BY <1>1, <2>1, <2>2, <2>3, <2>5, MeasureIsUsable
  <2>8. PICK gone \in Nat : /\ gone = Cardinality({ t \in UsableFrom : t < now })
                            /\ now >= deadline <=> gone >= window
    <3>1. /\ Cardinality({ t \in UsableFrom : t < now }) \in Nat
          /\ now >= deadline <=> Cardinality({ t \in UsableFrom : t < now })
                                  >= Cardinality({ t \in UsableFrom : t < deadline })
      <4>1. WalkInv /\ start \in Nat /\ now \in Int /\ deadline \in Int /\ deadline - 1 \in UsableFrom
        BY <1>1, <2>1, <2>3, <2>4
      <4> QED BY <4>1, UsedAtTheDeadline
    <3> QED BY <2>3, <3>1
  <2>9. \A used \in business_time_between(now) :
          used = Ticks(HorizonOf, OpenTicks)!BusinessTimeBetween(start, now, PauseSet)
    BY <1>1, <2>1, <2>6, UsableTime
  <2>10. ASSUME NEW fraction \in elapsed_fraction(now, deadline)
         PROVE  (fraction = 100) <=> (now >= deadline)
    <3>1. PICK total \in business_time_between(deadline), used \in business_time_between(now) :
            fraction = IF total <= 0 THEN 100
                       ELSE Later(0, Earlier(100, (used * 100) \div total))
      BY DEF elapsed_fraction
    <3>2. total = window /\ used = gone
      BY <2>6, <2>7, <2>8
    <3>3. ~(window <= 0)
      BY <2>1
    <3>4. fraction = Later(0, Earlier(100, (gone * 100) \div window))
      BY <3>1, <3>2, <3>3
    <3> QED BY <2>1, <2>8, <3>4, FullWhenUsedUp
  <2> QED BY <2>9, <2>10
<1>2. WalkInv => FractionIsFullAtTheDeadline
  BY <1>1 DEF FractionIsFullAtTheDeadline
<1> QED BY <1>2, WalkInvHolds, PTL
=============================================================================
