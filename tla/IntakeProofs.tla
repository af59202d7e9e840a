----------------------------- MODULE IntakeProofs -----------------------------
(***************************************************************************)
(* Proofs about Intake and IncidentDeflection, for any callers, keys,      *)
(* calls, requests, incidents and customers.                               *)
(*                                                                         *)
(* A request decides by what it read when it began and writes when it      *)
(* commits.  That this is sound rests on what never shrinks: a case keeps  *)
(* its customer and its contacts (CasesGrow), so that a contact verified   *)
(* at the beginning is one at the commit (ReadsStayTrue).  That a key has  *)
(* one effect rests on where effects are numbered: the next row or post    *)
(* has a number no answer can have named (AnswersNameEffects).             *)
(***************************************************************************)
EXTENDS Intake, IncidentDeflection, FiniteSetTheorems, TLAPS

IsSeq(s) == \E S : s \in Seq(S)

RowFields == {"channel", "from", "text", "thread", "at", "state", "case"}

IntakeTypes ==
  /\ IsSeq(inbox) /\ IsSeq(cases) /\ IsSeq(posts)
  /\ DOMAIN requests = Handlers
  /\ \A i \in Rows : /\ DOMAIN inbox[i] = RowFields
                     /\ inbox[i].channel \in DOMAIN Adapters
                     /\ inbox[i].case \in CaseIds \cup {0}
  /\ \A c \in CaseIds : DOMAIN cases[c] = {"customer", "contacts"}
  /\ \A n \in Posts : posts[n].case \in CaseIds

(* What a request has read and will rely on. *)
TrueOf(request) ==
  /\ request.call.endpoint = "intake" /\ request.call.path \in DOMAIN Adapters =>
       /\ request.case \in CaseIds \cup {0}
       /\ request.verified =>
            request.case # 0 /\ Contact(request.case, request.call.path, request.call.body.from)
  /\ request.call.endpoint = "message" =>
       /\ request.call.path \in CaseIds
       /\ cases[request.call.path].customer = request.call.who

ReadsStayTrue == \A r \in Handlers : requests[r].at = "working" => TrueOf(requests[r])

IntakeInv == IntakeTypes /\ ReadsStayTrue /\ StrangersStayOut /\ RowsTellWhatHappened

-----------------------------------------------------------------------------
(* Sequences. *)

LEMMA AppendAddsOne ==
  ASSUME NEW s, IsSeq(s), NEW e
  PROVE  /\ IsSeq(Append(s, e))
         /\ Len(s) \in Nat /\ Len(Append(s, e)) = Len(s) + 1
         /\ \A i \in 1 .. Len(s) : Append(s, e)[i] = s[i]
         /\ Append(s, e)[Len(s) + 1] = e
<1>1. PICK S : s \in Seq(S) BY DEF IsSeq
<1>2. s \in Seq(S \cup {e}) BY <1>1
<1>3. Append(s, e) \in Seq(S \cup {e}) BY <1>2
<1>4. IsSeq(Append(s, e)) BY <1>3 DEF IsSeq
<1> QED BY <1>2, <1>4

-----------------------------------------------------------------------------
(* What the steps have in common. *)

(* No case loses its customer or a contact. *)
CasesGrow ==
  /\ IsSeq(cases)' /\ CaseIds \subseteq CaseIds'
  /\ \A c \in CaseIds : /\ cases'[c].customer = cases[c].customer
                        /\ cases[c].contacts \subseteq cases'[c].contacts
  /\ \A c \in CaseIds' : DOMAIN cases'[c] = {"customer", "contacts"}

(* A request ends, or none moves. *)
RequestEnds ==
  \/ requests' = requests
  \/ \E r \in Handlers : requests' = [requests EXCEPT ![r] = Idle]

LEMMA ReadsSurvive ==
  ASSUME IntakeInv, CasesGrow, RequestEnds
  PROVE  DOMAIN requests' = Handlers /\ ReadsStayTrue'
<1>1. ASSUME NEW r \in Handlers, requests'[r] = requests[r], requests[r].at = "working"
      PROVE  TrueOf(requests[r])'
  BY <1>1 DEF IntakeInv, ReadsStayTrue, TrueOf, CasesGrow, Contact, CaseIds
<1>2. \A r \in Handlers : requests'[r] = requests[r] \/ requests'[r].at # "working"
  BY DEF RequestEnds, IntakeInv, IntakeTypes, Idle
<1> QED BY <1>1, <1>2 DEF ReadsStayTrue, RequestEnds, IntakeInv, IntakeTypes, TrueOf

(* A text that is its case's customer's, or a verified contact's. *)
PostSound(n) ==
  /\ posts[n].case \in CaseIds
  /\ IF posts[n].channel = "widget"
     THEN posts[n].from = cases[posts[n].case].customer
     ELSE <<posts[n].channel, posts[n].from>> \in cases[posts[n].case].contacts

(* Posts stay, and new ones are sound. *)
PostsGrow ==
  /\ IsSeq(posts)' /\ Posts \subseteq Posts'
  /\ \A n \in Posts : posts'[n] = posts[n]
  /\ \A n \in Posts' \ Posts : PostSound(n)'

LEMMA PostsStaySound ==
  ASSUME IntakeInv, CasesGrow, PostsGrow
  PROVE  StrangersStayOut' /\ \A n \in Posts' : posts'[n].case \in CaseIds'
<1>1. ASSUME NEW n \in Posts' PROVE PostSound(n)'
  <2>1. CASE n \in Posts
    <3>1. PostSound(n)
      BY <2>1 DEF IntakeInv, IntakeTypes, StrangersStayOut, PostSound
    <3> QED BY <2>1, <3>1 DEF PostsGrow, CasesGrow, PostSound
  <2> QED BY <2>1 DEF PostsGrow
<1> QED BY <1>1 DEF StrangersStayOut, PostSound

(* A row that says it was matched has its text in that case's thread. *)
RowTold(i) ==
  /\ inbox[i].state = "matched" =>
       \E n \in Posts : posts[n].row = i /\ posts[n].case = inbox[i].case
  /\ inbox[i].state = "filed" =>
       /\ inbox[i].case \in CaseIds
       /\ cases[inbox[i].case].customer = inbox[i].from
       /\ <<inbox[i].channel, inbox[i].from>> \in cases[inbox[i].case].contacts
  /\ inbox[i].state \in {"ignored", "unmatched_review"} => inbox[i].case = 0

LEMMA RowsStayTold ==
  ASSUME IntakeInv, CasesGrow, PostsGrow, NEW i \in Rows, inbox'[i] = inbox[i]
  PROVE  /\ RowTold(i)'
         /\ DOMAIN inbox'[i] = RowFields /\ inbox'[i].channel \in DOMAIN Adapters
         /\ inbox'[i].case \in CaseIds' \cup {0}
<1>1. RowTold(i)
  BY DEF IntakeInv, RowsTellWhatHappened, RowTold
<1>2. DOMAIN inbox[i] = RowFields /\ inbox[i].channel \in DOMAIN Adapters
      /\ inbox[i].case \in CaseIds \cup {0}
  BY DEF IntakeInv, IntakeTypes
<1> QED BY <1>1, <1>2 DEF RowTold, CasesGrow, PostsGrow

(* Nothing is recorded. *)
LEMMA KeepsInbox ==
  ASSUME IntakeInv, CasesGrow, PostsGrow, inbox' = inbox,
         DOMAIN requests' = Handlers, ReadsStayTrue'
  PROVE  IntakeInv'
<1>1. /\ IsSeq(inbox) /\ Rows' = Rows
      /\ \A i, j \in Rows : i # j /\ inbox[i].state = "filed" /\ inbox[j].state = "filed"
           => inbox[j].case # inbox[i].case
  BY DEF IntakeInv, IntakeTypes, RowsTellWhatHappened, Rows
<1>2. \A i \in Rows :
        /\ RowTold(i)'
        /\ DOMAIN inbox'[i] = RowFields /\ inbox'[i].channel \in DOMAIN Adapters
        /\ inbox'[i].case \in CaseIds' \cup {0}
  BY RowsStayTold
<1>3. IntakeTypes'
  BY <1>1, <1>2, PostsStaySound DEF IntakeTypes, CasesGrow, PostsGrow
<1>4. RowsTellWhatHappened'
  BY <1>1, <1>2 DEF RowsTellWhatHappened, RowTold
<1> QED BY <1>3, <1>4, PostsStaySound DEF IntakeInv

(* A message is recorded with what became of it; a case it files is new. *)
LEMMA RecordsRow ==
  ASSUME IntakeInv, CasesGrow, PostsGrow, NEW row, inbox' = Append(inbox, row),
         DOMAIN requests' = Handlers, ReadsStayTrue',
         DOMAIN row = RowFields, row.channel \in DOMAIN Adapters,
         row.case \in CaseIds' \cup {0},
         row.state = "matched" =>
           \E n \in Posts' : posts'[n].row = Len(inbox) + 1 /\ posts'[n].case = row.case,
         row.state = "filed" =>
           /\ row.case \in CaseIds' \ CaseIds
           /\ cases'[row.case].customer = row.from
           /\ <<row.channel, row.from>> \in cases'[row.case].contacts,
         row.state \in {"ignored", "unmatched_review"} => row.case = 0
  PROVE  IntakeInv'
<1> PICK last : last = Len(inbox) + 1 OBVIOUS
<1>1. /\ IsSeq(inbox') /\ Rows' = Rows \cup {last} /\ last \notin Rows
      /\ inbox'[last] = row /\ \A i \in Rows : inbox'[i] = inbox[i]
  <2>1. IsSeq(inbox)
    BY DEF IntakeInv, IntakeTypes
  <2> QED BY <2>1, AppendAddsOne DEF Rows
<1>2. \A i \in Rows :
        /\ RowTold(i)'
        /\ DOMAIN inbox'[i] = RowFields /\ inbox'[i].channel \in DOMAIN Adapters
        /\ inbox'[i].case \in CaseIds' \cup {0}
  BY <1>1, RowsStayTold
<1>3. RowTold(last)'
  BY <1>1 DEF RowTold
<1>4. IntakeTypes'
  BY <1>1, <1>2, PostsStaySound DEF IntakeTypes, CasesGrow, PostsGrow
<1>5. \A i, j \in Rows' : i # j /\ inbox'[i].state = "filed" /\ inbox'[j].state = "filed"
        => inbox'[j].case # inbox'[i].case
  <2>0. RowsTellWhatHappened
    BY DEF IntakeInv
  <2>1. ASSUME NEW i \in Rows, inbox[i].state = "filed"
        PROVE  \A j \in Rows : i # j /\ inbox[j].state = "filed"
                 => inbox[j].case # inbox[i].case
    BY ONLY <2>0, <2>1 DEF RowsTellWhatHappened
  <2>2. \A i \in Rows : inbox[i].state = "filed" => inbox[i].case \in CaseIds
    BY DEF IntakeInv, RowsTellWhatHappened
  <2>3. row.state = "filed" => row.case \notin CaseIds
    OBVIOUS
  <2>4. \A i \in Rows : inbox'[i] = inbox[i]
    BY <1>1
  <2> SUFFICES ASSUME NEW i \in Rows', NEW j \in Rows', i # j,
                      inbox'[i].state = "filed", inbox'[j].state = "filed"
               PROVE  inbox'[j].case # inbox'[i].case
    OBVIOUS
  <2>5. CASE i \in Rows /\ j \in Rows
    BY <2>1, <2>4, <2>5
  <2>6. CASE i = last /\ j \in Rows
    BY <1>1, <2>2, <2>3, <2>4, <2>6
  <2>7. CASE i \in Rows /\ j = last
    BY <1>1, <2>2, <2>3, <2>4, <2>7
  <2> QED BY <1>1, <2>5, <2>6, <2>7
<1>6. \A i \in Rows' : RowTold(i)'
  BY <1>1, <1>2, <1>3
<1>7. RowsTellWhatHappened'
  BY <1>5, <1>6 DEF RowsTellWhatHappened, RowTold
<1> QED BY <1>4, <1>7, PostsStaySound DEF IntakeInv

-----------------------------------------------------------------------------
(* What a step may do to cases and posts. *)

LEMMA CasesKept ==
  ASSUME IntakeInv, cases' = cases
  PROVE  CasesGrow
BY DEF IntakeInv, IntakeTypes, CasesGrow, CaseIds

LEMMA CaseFiled ==
  ASSUME IntakeInv, NEW who, NEW contacts,
         cases' = Append(cases, [customer |-> who, contacts |-> contacts])
  PROVE  /\ CasesGrow
         /\ Len(cases) + 1 \in CaseIds' \ CaseIds
         /\ cases'[Len(cases) + 1].customer = who
         /\ cases'[Len(cases) + 1].contacts = contacts
<1> PICK case : case = [customer |-> who, contacts |-> contacts] OBVIOUS
<1>1. IsSeq(cases) /\ \A c \in CaseIds : DOMAIN cases[c] = {"customer", "contacts"}
  BY DEF IntakeInv, IntakeTypes
<1>2. cases' = Append(cases, case)
  OBVIOUS
<1>3. DOMAIN case = {"customer", "contacts"} /\ case.customer = who /\ case.contacts = contacts
  OBVIOUS
<1>4. /\ IsSeq(cases') /\ Len(cases) \in Nat /\ Len(cases') = Len(cases) + 1
      /\ \A c \in 1 .. Len(cases) : cases'[c] = cases[c]
      /\ cases'[Len(cases) + 1] = case
  BY <1>1, <1>2, AppendAddsOne
<1> QED BY <1>1, <1>3, <1>4 DEF CasesGrow, CaseIds

LEMMA PostsKept ==
  ASSUME IntakeInv, posts' = posts
  PROVE  PostsGrow
BY DEF IntakeInv, IntakeTypes, PostsGrow, Posts

LEMMA PostAdded ==
  ASSUME IntakeInv, NEW post, posts' = Append(posts, post), post.case \in CaseIds',
         IF post.channel = "widget" THEN post.from = cases'[post.case].customer
         ELSE <<post.channel, post.from>> \in cases'[post.case].contacts
  PROVE  /\ PostsGrow
         /\ Len(posts) + 1 \in Posts' /\ posts'[Len(posts) + 1] = post
<1>1. IsSeq(posts)
  BY DEF IntakeInv, IntakeTypes
<1>2. /\ IsSeq(posts') /\ Len(posts) \in Nat /\ Len(posts') = Len(posts) + 1
      /\ \A n \in 1 .. Len(posts) : posts'[n] = posts[n]
      /\ posts'[Len(posts) + 1] = post
  BY <1>1, AppendAddsOne
<1> QED BY <1>2 DEF PostsGrow, Posts, PostSound

-----------------------------------------------------------------------------
(* The steps. *)

LEMMA InitIntake == IntakeInit => IntakeInv
<1> SUFFICES ASSUME IntakeInit PROVE IntakeInv OBVIOUS
<1>1. IsSeq(<<>>)
  BY DEF IsSeq
<1>2. Rows = {} /\ CaseIds = {} /\ Posts = {}
  BY DEF IntakeInit, Rows, CaseIds, Posts
<1> QED BY <1>1, <1>2 DEF IntakeInit, IntakeInv, IntakeTypes, ReadsStayTrue, Idle,
                          StrangersStayOut, RowsTellWhatHappened

(* What is read is true when it is read. *)
LEMMA ReadKeepsInv ==
  ASSUME IntakeInv, NEW r \in Handlers, NEW key \in Keys, NEW call \in Calls,
         Read(r, key, call)
  PROVE  IntakeInv'
<1> DEFINE routed == call.endpoint = "intake" /\ call.path \in DOMAIN Adapters
<1>1. PICK c \in IF routed THEN _find_case(Inbound(call)) ELSE {0} :
        requests' = [requests EXCEPT ![r] =
          [ at |-> "working", call |-> call, key |-> key, case |-> c,
            verified |-> c # 0 /\ Contact(c, call.path, call.body.from),
            category |-> IF routed THEN PolicyFor(Inbound(call)) ELSE "" ]]
  BY DEF Read
<1>2. Admitted(call) /\ UNCHANGED <<inbox, cases, posts>>
  BY DEF Read
<1>3. c \in CaseIds \cup {0}
  <2>1. ASSUME routed, Inbound(call).quote # 0 PROVE c \in CaseIds \cup {0}
    BY <1>1, <2>1 DEF _find_case, CaseIds
  <2>2. ASSUME routed, Inbound(call).quote = 0 PROVE c \in CaseIds \cup {0}
    <3>1. \A i \in ThreadRows(Inbound(call)) : inbox[i].case \in CaseIds
      BY DEF ThreadRows, IntakeInv, IntakeTypes, Rows
    <3> QED BY <1>1, <2>2, <3>1 DEF _find_case
  <2> QED BY <1>1, <2>1, <2>2
<1>4. requests'[r].at = "working" => TrueOf(requests'[r])
  BY <1>1, <1>2, <1>3 DEF TrueOf, Admitted, CaseIds, IntakeInv, IntakeTypes
<1>5. CasesGrow /\ PostsGrow
  BY <1>2, CasesKept, PostsKept
<1>6. DOMAIN requests' = Handlers /\ \A q \in Handlers \ {r} : requests'[q] = requests[q]
  BY <1>1 DEF IntakeInv, IntakeTypes
<1>7. \A q \in Handlers \ {r} : requests'[q].at = "working" => TrueOf(requests'[q])
  BY <1>6 DEF IntakeInv, ReadsStayTrue
<1>8. \A q : TrueOf(requests'[q]) => TrueOf(requests[q])'
  BY <1>2 DEF TrueOf, CaseIds, Contact
<1>9. ReadsStayTrue'
  BY <1>4, <1>7, <1>8 DEF ReadsStayTrue
<1> QED BY <1>2, <1>5, <1>6, <1>9, KeepsInbox

(* A request ends with nothing recorded. *)
LEMMA EndsKeepsInv ==
  ASSUME IntakeInv, RequestEnds, CasesGrow, PostsGrow, inbox' = inbox
  PROVE  IntakeInv'
BY ReadsSurvive, KeepsInbox

LEMMA CommitEnds ==
  ASSUME NEW r \in Handlers, NEW status, NEW of, CommitAnswer(r, status, of)
  PROVE  RequestEnds
BY DEF CommitAnswer, Finish, RequestEnds

(* The row a disposition writes. *)
LEMMA DisposedWrites ==
  ASSUME IntakeInv, NEW r \in Handlers, NEW state, NEW c, Disposed(r, state, c)
  PROVE  \E row : /\ inbox' = Append(inbox, row)
                  /\ DOMAIN row = RowFields /\ row.channel \in DOMAIN Adapters
                  /\ row.channel = Inbound(requests[r].call).channel
                  /\ row.from = Inbound(requests[r].call).from
                  /\ row.state = state /\ row.case = c
<1> DEFINE inbound == Inbound(requests[r].call)
           row == [ channel |-> inbound.channel, from |-> inbound.from,
                    text |-> inbound.text, thread |-> inbound.thread, at |-> inbound.at,
                    state |-> state, case |-> c ]
<1>1. inbox' = Append(inbox, row)
  BY DEF Disposed, Record
<1>2. inbound.channel \in DOMAIN Adapters
  BY DEF Disposed, Routed, Inbound, normalise
<1> QED BY <1>1, <1>2 DEF RowFields

LEMMA SetAsideKeepsInv ==
  ASSUME IntakeInv, NEW r \in Handlers, Ignore(r) \/ Review(r) \/ Quarantine(r)
  PROVE  IntakeInv'
<1>1. UNCHANGED <<cases, posts>>
  BY DEF Ignore, Review, Quarantine
<1>2. PICK state \in {"ignored", "unmatched_review", "quarantined"}, c \in CaseIds \cup {0} :
        Disposed(r, state, c) /\ (state # "quarantined" => c = 0)
  <2>1. Quarantine(r) => requests[r].case \in CaseIds \cup {0}
    BY DEF Quarantine, Considered, Routed, Working, IntakeInv, ReadsStayTrue, TrueOf
  <2> QED BY <2>1 DEF Ignore, Review, Quarantine
<1>3. RequestEnds
  BY <1>2, CommitEnds DEF Disposed
<1>4. CasesGrow /\ PostsGrow
  BY <1>1, CasesKept, PostsKept
<1>5. CaseIds' = CaseIds
  BY <1>1 DEF CaseIds
<1>6. PICK row : /\ inbox' = Append(inbox, row)
                  /\ DOMAIN row = RowFields /\ row.channel \in DOMAIN Adapters
                  /\ row.state = state /\ row.case = c
  BY <1>2, DisposedWrites
<1>7. row.state # "matched" /\ row.state # "filed"
  BY <1>6
<1> QED BY <1>2, <1>3, <1>4, <1>5, <1>6, <1>7, ReadsSurvive, RecordsRow

LEMMA AppendKeepsInv ==
  ASSUME IntakeInv, NEW r \in Handlers, AppendTo(r)
  PROVE  IntakeInv'
<1> DEFINE inbound == Inbound(requests[r].call)
           c == requests[r].case
           post == Post(c, inbound.channel, inbound.from, Len(inbox) + 1)
<1>1. /\ Considered(r) /\ c # 0 /\ requests[r].verified /\ Disposed(r, "matched", c)
      /\ posts' = Append(posts, post) /\ cases' = cases
  BY DEF AppendTo
<1>2. /\ inbound.channel = requests[r].call.path /\ inbound.from = requests[r].call.body.from
      /\ inbound.channel \in DOMAIN Adapters /\ inbound.channel # "widget"
  BY <1>1 DEF Considered, Routed, Inbound, normalise, Adapters
<1>3. c \in CaseIds /\ <<inbound.channel, inbound.from>> \in cases[c].contacts
  BY <1>1, <1>2 DEF Considered, Routed, Working, IntakeInv, ReadsStayTrue, TrueOf, Contact
<1>4. RequestEnds
  BY <1>1, CommitEnds DEF Disposed
<1>5. CasesGrow /\ CaseIds' = CaseIds
  BY <1>1, CasesKept DEF CaseIds
<1>6. /\ post.case = c /\ post.channel = inbound.channel /\ post.from = inbound.from
      /\ post.row = Len(inbox) + 1
  BY DEF Post
<1> HIDE DEF post
<1>7. PostsGrow /\ Len(posts) + 1 \in Posts' /\ posts'[Len(posts) + 1] = post
  BY <1>1, <1>2, <1>3, <1>5, <1>6, PostAdded
<1> QED BY <1>1, <1>3, <1>4, <1>5, <1>6, <1>7, ReadsSurvive, DisposedWrites, RecordsRow

LEMMA FileKeepsInv ==
  ASSUME IntakeInv, NEW r \in Handlers, FileNew(r)
  PROVE  IntakeInv'
<1> DEFINE inbound == Inbound(requests[r].call)
<1>1. /\ cases' = Append(cases, [customer |-> inbound.from,
                                 contacts |-> {<<inbound.channel, inbound.from>>}])
      /\ Disposed(r, "filed", Len(cases) + 1) /\ posts' = posts
  BY DEF FileNew
<1>2. /\ CasesGrow /\ Len(cases) + 1 \in CaseIds' \ CaseIds
      /\ cases'[Len(cases) + 1].customer = inbound.from
      /\ <<inbound.channel, inbound.from>> \in cases'[Len(cases) + 1].contacts
  BY <1>1, CaseFiled
<1>3. PostsGrow
  BY <1>1, PostsKept
<1>4. RequestEnds
  BY <1>1, CommitEnds DEF Disposed
<1> QED BY <1>1, <1>2, <1>3, <1>4, ReadsSurvive, DisposedWrites, RecordsRow

LEMMA WidgetKeepsInv ==
  ASSUME IntakeInv, NEW r \in Handlers, WidgetFile(r) \/ WidgetPost(r)
  PROVE  IntakeInv'
<1> DEFINE call == requests[r].call
<1>1. CASE WidgetFile(r)
  <2>1. /\ cases' = Append(cases, [customer |-> call.who, contacts |-> {}])
        /\ UNCHANGED <<inbox, posts>>
    BY <1>1 DEF WidgetFile
  <2>2. RequestEnds
    BY <1>1, CommitEnds DEF WidgetFile
  <2> QED BY <2>1, <2>2, CaseFiled, PostsKept, EndsKeepsInv
<1>2. CASE WidgetPost(r)
  <2> DEFINE post == Post(call.path, "widget", call.who, 0)
  <2>1. /\ Working(r, "message") /\ posts' = Append(posts, post)
        /\ UNCHANGED <<inbox, cases>>
    BY <1>2 DEF WidgetPost
  <2>2. call.path \in CaseIds /\ cases[call.path].customer = call.who
    BY <2>1 DEF Working, IntakeInv, ReadsStayTrue, TrueOf
  <2>3. post.case = call.path /\ post.channel = "widget" /\ post.from = call.who
    BY DEF Post
  <2> HIDE DEF post
  <2>4. CasesGrow /\ CaseIds' = CaseIds
    BY <2>1, CasesKept DEF CaseIds
  <2>5. PostsGrow
    BY <2>1, <2>2, <2>3, <2>4, PostAdded
  <2>6. RequestEnds
    BY <1>2, CommitEnds DEF WidgetPost
  <2> QED BY <2>1, <2>4, <2>5, <2>6, EndsKeepsInv
<1> QED BY <1>1, <1>2

(* A person attributes a row: the sender becomes a contact first. *)
LEMMA AttributeKeepsInv ==
  ASSUME IntakeInv, NEW i \in Rows, NEW c \in CaseIds, attribute(i, c)
  PROVE  IntakeInv'
<1>a. PICK who : who = <<inbox[i].channel, inbox[i].from>> OBVIOUS
<1>b. PICK post : post = Post(c, inbox[i].channel, inbox[i].from, i) OBVIOUS
<1>c. PICK case : case = [cases[c] EXCEPT !.contacts = @ \cup {who}] OBVIOUS
<1>d. PICK row : row = [inbox[i] EXCEPT !.state = "matched", !.case = c] OBVIOUS
<1>1. /\ posts' = Append(posts, post) /\ requests' = requests
      /\ cases' = [cases EXCEPT ![c] = case] /\ inbox' = [inbox EXCEPT ![i] = row]
  BY <1>a, <1>b, <1>c, <1>d DEF attribute
<1>2. /\ IsSeq(cases) /\ IsSeq(inbox)
      /\ DOMAIN cases[c] = {"customer", "contacts"} /\ DOMAIN inbox[i] = RowFields
      /\ inbox[i].channel \in DOMAIN Adapters
  BY DEF IntakeInv, IntakeTypes
<1>3. /\ case.customer = cases[c].customer /\ case.contacts = cases[c].contacts \cup {who}
      /\ DOMAIN case = {"customer", "contacts"}
  BY <1>c, <1>2
<1>4. /\ row.state = "matched" /\ row.case = c /\ row.channel = inbox[i].channel
      /\ DOMAIN row = RowFields
  BY <1>d, <1>2 DEF RowFields
<1>5. /\ IsSeq(cases') /\ CaseIds' = CaseIds /\ cases'[c] = case
      /\ \A d \in CaseIds \ {c} : cases'[d] = cases[d]
  <2>1. c \in 1 .. Len(cases)
    BY DEF CaseIds
  <2>2. PICK S : cases \in Seq(S)
    BY <1>2 DEF IsSeq
  <2>3. cases \in Seq(S \cup {case})
    BY <2>2
  <2>4. cases' \in Seq(S \cup {case}) /\ Len(cases') = Len(cases)
    BY <1>1, <2>1, <2>3
  <2>5. cases'[c] = case /\ \A d \in 1 .. Len(cases) : d # c => cases'[d] = cases[d]
    BY <1>1, <2>1, <2>3
  <2>6. IsSeq(cases')
    BY <2>4 DEF IsSeq
  <2> QED BY <2>4, <2>5, <2>6 DEF CaseIds
<1>6. CasesGrow
  BY <1>3, <1>5 DEF CasesGrow, IntakeInv, IntakeTypes
<1>7. post.case = c /\ post.channel = inbox[i].channel /\ post.from = inbox[i].from
      /\ post.row = i
  BY <1>b DEF Post
<1>8. post.channel # "widget"
  BY <1>2, <1>7 DEF Adapters
<1>9. PostsGrow /\ Len(posts) + 1 \in Posts' /\ posts'[Len(posts) + 1] = post
  BY <1>a, <1>1, <1>3, <1>5, <1>7, <1>8, PostAdded
<1>10. /\ IsSeq(inbox') /\ Rows' = Rows /\ inbox'[i] = row
       /\ \A j \in Rows \ {i} : inbox'[j] = inbox[j]
  <2>1. i \in 1 .. Len(inbox)
    BY DEF Rows
  <2>2. PICK S : inbox \in Seq(S)
    BY <1>2 DEF IsSeq
  <2>3. inbox \in Seq(S \cup {row})
    BY <2>2
  <2>4. inbox' \in Seq(S \cup {row}) /\ Len(inbox') = Len(inbox)
    BY <1>1, <2>1, <2>3
  <2>5. inbox'[i] = row /\ \A j \in 1 .. Len(inbox) : j # i => inbox'[j] = inbox[j]
    BY <1>1, <2>1, <2>3
  <2>6. IsSeq(inbox')
    BY <2>4 DEF IsSeq
  <2> QED BY <2>4, <2>5, <2>6 DEF Rows
<1>11. \A j \in Rows \ {i} :
         /\ RowTold(j)'
         /\ DOMAIN inbox'[j] = RowFields /\ inbox'[j].channel \in DOMAIN Adapters
         /\ inbox'[j].case \in CaseIds' \cup {0}
  BY <1>6, <1>9, <1>10, RowsStayTold
<1>12. RowTold(i)'
  BY <1>4, <1>7, <1>9, <1>10 DEF RowTold
<1>13. DOMAIN requests' = Handlers /\ ReadsStayTrue'
  BY <1>1, <1>6, ReadsSurvive DEF RequestEnds
<1>14. IntakeTypes'
  <2>1. /\ DOMAIN inbox'[i] = RowFields /\ inbox'[i].channel \in DOMAIN Adapters
        /\ inbox'[i].case \in CaseIds' \cup {0}
    BY <1>2, <1>4, <1>5, <1>10
  <2>2. \A j \in Rows' : /\ DOMAIN inbox'[j] = RowFields
                         /\ inbox'[j].channel \in DOMAIN Adapters
                         /\ inbox'[j].case \in CaseIds' \cup {0}
    BY <1>10, <1>11, <2>1
  <2>3. \A n \in Posts' : posts'[n].case \in CaseIds'
    BY <1>6, <1>9, PostsStaySound
  <2> QED BY <1>6, <1>9, <1>10, <1>13, <2>2, <2>3 DEF IntakeTypes, CasesGrow, PostsGrow
<1>15. ASSUME NEW j \in Rows, NEW k \in Rows, j # k, inbox'[j].state = "filed",
              inbox'[k].state = "filed"
       PROVE  inbox'[k].case # inbox'[j].case
  <2>1. j # i /\ k # i
    BY <1>4, <1>10, <1>15
  <2>2. inbox'[j] = inbox[j] /\ inbox'[k] = inbox[k]
    BY <1>10, <2>1
  <2>3. \A l, m \in Rows : l # m /\ inbox[l].state = "filed" /\ inbox[m].state = "filed"
          => inbox[m].case # inbox[l].case
    BY DEF IntakeInv, RowsTellWhatHappened
  <2> QED BY <1>15, <2>2, <2>3
<1>16. \A j \in Rows' : RowTold(j)'
  BY <1>10, <1>11, <1>12
<1>17. RowsTellWhatHappened'
  BY <1>10, <1>15, <1>16 DEF RowsTellWhatHappened, RowTold
<1> QED BY <1>6, <1>9, <1>13, <1>14, <1>17, PostsStaySound DEF IntakeInv

LEMMA NextIntake == IntakeInv /\ [IntakeNext]_intakeVars => IntakeInv'
<1> SUFFICES ASSUME IntakeInv, [IntakeNext]_intakeVars PROVE IntakeInv' OBVIOUS
<1>1. ASSUME UNCHANGED <<inbox, cases, posts>>, RequestEnds PROVE IntakeInv'
  BY <1>1, CasesKept, PostsKept, EndsKeepsInv
<1>2. ASSUME NEW r \in Handlers, HandlerStep(r) PROVE IntakeInv'
  <2>1. CASE Undone(r) \/ Dies(r) \/ Raises(r)
    BY <1>1, <2>1 DEF Undone, Dies, Raises, Finish, RequestEnds
  <2>2. CASE Unsupported(r)
    BY <1>1, <2>2, CommitEnds DEF Unsupported
  <2> QED BY <1>2, <2>1, <2>2, SetAsideKeepsInv, AppendKeepsInv, FileKeepsInv,
             WidgetKeepsInv DEF HandlerStep
<1>3. ASSUME NEW r \in Handlers, NEW key \in Keys, NEW call \in Calls,
             Replay(r, key, call) \/ Conflict(r, key, call) \/ Read(r, key, call)
      PROVE  IntakeInv'
  BY <1>1, <1>3, ReadKeepsInv DEF Replay, Conflict, intakeVars, RequestEnds
<1>4. ASSUME NEW i \in 1 .. Len(inbox), NEW c \in 1 .. Len(cases), attribute(i, c)
      PROVE  IntakeInv'
  BY <1>4, AttributeKeepsInv DEF Rows, CaseIds
<1>5. ASSUME (\E who \in Identities : Erase(who)) \/ Publish(DefaultCategory)
      PROVE  IntakeInv'
  BY <1>1, <1>5 DEF Erase, Publish, RequestEnds
<1>6. CASE UNCHANGED intakeVars
  BY <1>1, <1>6 DEF intakeVars, RequestEnds
<1> QED BY <1>2, <1>3, <1>4, <1>5, <1>6 DEF IntakeNext

LEMMA IntakeAlways == IntakeSpec => []IntakeInv
BY InitIntake, NextIntake, PTL DEF IntakeSpec

-----------------------------------------------------------------------------

(* No text reaches a case's thread but its customer's own or that of a       *)
(* contact verified for that case on that channel (router.py:3-11).          *)
THEOREM StrangersAlwaysStayOut == IntakeSpec => []StrangersStayOut
<1>1. IntakeInv => StrangersStayOut BY DEF IntakeInv
<1> QED BY <1>1, IntakeAlways, PTL

(* What a recorded message says became of it is what became of it            *)
(* (router.py:96-200).                                                       *)
THEOREM RowsAlwaysTell == IntakeSpec => []RowsTellWhatHappened
<1>1. IntakeInv => RowsTellWhatHappened BY DEF IntakeInv
<1> QED BY <1>1, IntakeAlways, PTL

-----------------------------------------------------------------------------
(* One effect per key.  An answer names the effect it tells of by its place: *)
(* the next row, case or post, which no answer can have named before.        *)

NoEffect == <<"none", 0>>

NamesAnEffect(of) ==
  \/ \E i \in Rows : of = <<"row", i>>
  \/ \E c \in CaseIds : of = <<"case", c>>
  \/ \E n \in Posts : of = <<"post", n>>

AnswersNameEffects ==
  /\ \A k \in Keys : answers[k].of = NoEffect \/ NamesAnEffect(answers[k].of)
  /\ \A k, l \in Keys : answers[k].of = answers[l].of => k = l \/ answers[k].of = NoEffect

(* Every row and every post made in the widget was answered for.             *)
EffectsAreAnswered ==
  /\ \A i \in Rows : \E k \in Keys : answers[k].of = <<"row", i>>
  /\ \A n \in Posts : posts[n].row = 0 => \E k \in Keys : answers[k].of = <<"post", n>>

(* What a caller was told is what the key keeps.                             *)
AnswersAreKept ==
  \A t \in told :
    /\ t.key \in Keys /\ answers[t.key] # NoAnswer
    /\ t = [key |-> t.key, body |-> answers[t.key].body, of |-> answers[t.key].of]

EffectsInv ==
  /\ DOMAIN answers = Keys
  /\ \A r \in Handlers : requests[r].at = "working" => requests[r].key \in Keys
  /\ AnswersNameEffects /\ EffectsAreAnswered /\ AnswersAreKept

LEMMA InitEffects == IntakeInit => EffectsInv
BY DEF IntakeInit, EffectsInv, AnswersNameEffects, EffectsAreAnswered, AnswersAreKept,
       NoAnswer, NoEffect, Idle, Rows, Posts

(* A step that answers nobody new and leaves no new effect: what was named   *)
(* stays.                                                                    *)
LEMMA NothingNewKeeps ==
  ASSUME EffectsInv, UNCHANGED answers, told' = told,
         \A r \in Handlers : requests'[r].at = "working" => requests'[r].key \in Keys,
         Rows' = Rows, CaseIds \subseteq CaseIds', Posts \subseteq Posts',
         \A n \in Posts' : posts'[n].row = 0 => n \in Posts /\ posts[n].row = 0
  PROVE  EffectsInv'
<1>1. AnswersNameEffects'
  BY DEF EffectsInv, AnswersNameEffects, NamesAnEffect
<1>2. EffectsAreAnswered'
  BY DEF EffectsInv, EffectsAreAnswered
<1>3. AnswersAreKept'
  BY DEF EffectsInv, AnswersAreKept
<1> QED BY <1>1, <1>2, <1>3 DEF EffectsInv

(* A commit under a new key, of an effect that nobody has named.             *)
LEMMA CommitKeepsEffects ==
  ASSUME EffectsInv, NEW r \in Handlers, NEW status, status # "none", NEW of,
         CommitAnswer(r, status, of), DOMAIN requests = Handlers,
         of = NoEffect \/ (NamesAnEffect(of)' /\ ~NamesAnEffect(of)),
         Rows \subseteq Rows', \A i \in Rows' \ Rows : of = <<"row", i>>,
         CaseIds \subseteq CaseIds', Posts \subseteq Posts',
         \A n \in Posts' : posts'[n].row = 0 => (n \in Posts /\ posts[n].row = 0) \/ of = <<"post", n>>
  PROVE  EffectsInv'
<1> DEFINE key == requests[r].key
           call == requests[r].call
           kept == [body |-> fingerprint(call), status |-> status, of |-> of]
<1>1. /\ key \in Keys /\ answers[key] = NoAnswer
      /\ answers' = [answers EXCEPT ![key] = kept]
      /\ told' = told \cup {[key |-> key, body |-> call.body, of |-> of]}
      /\ requests' = [requests EXCEPT ![r] = Idle]
  BY DEF CommitAnswer, EffectsInv, Tell, Finish
<1>2. PICK k0 : k0 = key
  OBVIOUS
<1>3. /\ k0 \in Keys /\ DOMAIN answers' = Keys
      /\ answers'[k0].of = of /\ answers'[k0].body = call.body /\ answers'[k0] # NoAnswer
      /\ \A k \in Keys \ {k0} : answers'[k] = answers[k]
      /\ answers[k0].of = NoEffect
  BY <1>1, <1>2 DEF EffectsInv, fingerprint, NoAnswer, NoEffect
<1>4. \A q \in Handlers : requests'[q].at = "working" => requests'[q].key \in Keys
  BY <1>1 DEF EffectsInv, Idle
<1>5. AnswersNameEffects'
  <2>1. \A o : NamesAnEffect(o) => NamesAnEffect(o)'
    BY DEF NamesAnEffect
  <2>2. ASSUME NEW k \in Keys PROVE answers'[k].of = NoEffect \/ NamesAnEffect(answers[k].of)'
    <3>1. PICK o : o = answers'[k].of
      OBVIOUS
    <3>2. o = NoEffect \/ NamesAnEffect(o)'
      BY <1>3, <2>1, <3>1 DEF EffectsInv, AnswersNameEffects
    <3> QED BY <3>1, <3>2 DEF NamesAnEffect
  <2>3. ASSUME NEW k \in Keys, NEW l \in Keys, answers'[k].of = answers'[l].of, k # l
        PROVE  answers'[k].of = NoEffect
    <3>1. CASE k # k0 /\ l # k0
      BY <1>3, <2>3, <3>1 DEF EffectsInv, AnswersNameEffects
    <3>2. CASE k = k0 \/ l = k0
      <4>1. PICK m \in Keys \ {k0} : answers[m].of = of
        BY <1>3, <2>3, <3>2
      <4>2. of = NoEffect \/ NamesAnEffect(of)
        BY <4>1 DEF EffectsInv, AnswersNameEffects
      <4> QED BY <1>3, <2>3, <3>2, <4>2
    <3> QED BY <3>1, <3>2
  <2> QED BY <2>2, <2>3 DEF AnswersNameEffects
<1>6. EffectsAreAnswered'
  <2>1. ASSUME NEW e, e # NoEffect, NEW k \in Keys, answers[k].of = e PROVE answers'[k].of = e
    BY <1>3, <2>1
  <2>2. ASSUME NEW i \in Rows' PROVE \E k \in Keys : answers'[k].of = <<"row", i>>
    <3>1. CASE i \in Rows
      BY <2>1, <3>1 DEF EffectsInv, EffectsAreAnswered, NoEffect
    <3>2. CASE i \notin Rows
      BY <1>3, <2>2, <3>2
    <3> QED BY <3>1, <3>2
  <2>3. ASSUME NEW n \in Posts', posts'[n].row = 0 PROVE \E k \in Keys : answers'[k].of = <<"post", n>>
    <3>1. CASE n \in Posts /\ posts[n].row = 0
      BY <2>1, <3>1 DEF EffectsInv, EffectsAreAnswered, NoEffect
    <3>2. CASE of = <<"post", n>>
      BY <1>3, <3>2
    <3> QED BY <2>3, <3>1, <3>2
  <2> QED BY <2>2, <2>3 DEF EffectsAreAnswered
<1>7. AnswersAreKept'
  <2> SUFFICES ASSUME NEW t \in told'
      PROVE  /\ t.key \in Keys /\ answers'[t.key] # NoAnswer
             /\ t = [key |-> t.key, body |-> answers'[t.key].body, of |-> answers'[t.key].of]
    BY DEF AnswersAreKept
  <2>1. CASE t \in told
    <3>1. /\ t.key \in Keys /\ answers[t.key] # NoAnswer
          /\ t = [key |-> t.key, body |-> answers[t.key].body, of |-> answers[t.key].of]
      BY <2>1 DEF EffectsInv, AnswersAreKept
    <3>2. t.key # k0
      BY <1>1, <1>2, <3>1
    <3> QED BY <1>3, <3>1, <3>2
  <2>2. CASE t = [key |-> key, body |-> call.body, of |-> of]
    BY <1>2, <1>3, <2>2
  <2> QED BY <1>1, <2>1, <2>2
<1> QED BY <1>3, <1>4, <1>5, <1>6, <1>7 DEF EffectsInv

(* The next place in a sequence names an effect that is new.                 *)
LEMMA NextPlace ==
  ASSUME NEW s, IsSeq(s), NEW e, NEW t, t = Append(s, e)
  PROVE  /\ IsSeq(t) /\ 1 .. Len(t) = 1 .. Len(s) \cup {Len(s) + 1}
         /\ Len(s) + 1 \notin 1 .. Len(s) /\ t[Len(s) + 1] = e
         /\ \A i \in 1 .. Len(s) : t[i] = s[i]
         /\ Len(s) + 1 # 0 /\ 0 \notin 1 .. Len(s)
BY AppendAddsOne

LEMMA DisposedKeepsEffects ==
  ASSUME IntakeInv, EffectsInv, NEW r \in Handlers, NEW state, NEW c, Disposed(r, state, c),
         CaseIds \subseteq CaseIds', Posts \subseteq Posts',
         \A n \in Posts' : posts'[n].row = 0 => n \in Posts /\ posts[n].row = 0
  PROVE  EffectsInv'
<1>1. PICK row : inbox' = Append(inbox, row)
  BY DisposedWrites
<1>2. PICK m : m = Len(inbox) + 1
  OBVIOUS
<1>3. Rows' = Rows \cup {m} /\ m \notin Rows
  BY <1>1, <1>2, NextPlace DEF IntakeInv, IntakeTypes, Rows
<1>4. PICK of : of = <<"row", m>>
  OBVIOUS
<1>5. CommitAnswer(r, "202", of)
  BY <1>2, <1>4 DEF Disposed
<1>6. NamesAnEffect(of)' /\ ~NamesAnEffect(of)
  BY <1>3, <1>4 DEF NamesAnEffect
<1> QED BY <1>3, <1>4, <1>5, <1>6, CommitKeepsEffects DEF IntakeInv, IntakeTypes

LEMMA RoutedKeepsEffects ==
  ASSUME IntakeInv, EffectsInv, NEW r \in Handlers,
         Ignore(r) \/ Review(r) \/ Quarantine(r) \/ AppendTo(r) \/ FileNew(r)
  PROVE  EffectsInv'
<1> DEFINE c == requests[r].case
<1>1. CASE Ignore(r) \/ Review(r) \/ Quarantine(r)
  <2>1. UNCHANGED <<cases, posts>>
    BY <1>1 DEF Ignore, Review, Quarantine
  <2>2. PICK state, d : Disposed(r, state, d)
    BY <1>1 DEF Ignore, Review, Quarantine
  <2> QED BY <2>1, <2>2, DisposedKeepsEffects DEF CaseIds, Posts
<1>2. CASE AppendTo(r)
  <2>1. PICK post : post = Post(c, Inbound(requests[r].call).channel,
                                Inbound(requests[r].call).from, Len(inbox) + 1)
    OBVIOUS
  <2>2. posts' = Append(posts, post) /\ cases' = cases /\ Disposed(r, "matched", c)
    BY <1>2, <2>1 DEF AppendTo
  <2>3. post.row # 0
    BY <2>1, NextPlace DEF Post, IntakeInv, IntakeTypes
  <2>4. /\ Posts' = Posts \cup {Len(posts) + 1} /\ posts'[Len(posts) + 1] = post
        /\ \A n \in Posts : posts'[n] = posts[n]
    BY <2>2, NextPlace DEF IntakeInv, IntakeTypes, Posts
  <2> QED BY <2>2, <2>3, <2>4, DisposedKeepsEffects DEF CaseIds
<1>3. CASE FileNew(r)
  <2>1. PICK new : cases' = Append(cases, new)
    BY <1>3 DEF FileNew
  <2>2. CaseIds \subseteq CaseIds'
    BY <2>1, NextPlace DEF IntakeInv, IntakeTypes, CaseIds
  <2>3. posts' = posts /\ Disposed(r, "filed", Len(cases) + 1)
    BY <1>3 DEF FileNew
  <2> QED BY <2>2, <2>3, DisposedKeepsEffects DEF Posts
<1> QED BY <1>1, <1>2, <1>3

LEMMA WidgetKeepsEffects ==
  ASSUME IntakeInv, EffectsInv, NEW r \in Handlers,
         Unsupported(r) \/ WidgetFile(r) \/ WidgetPost(r)
  PROVE  EffectsInv'
<1>1. DOMAIN requests = Handlers
  BY DEF IntakeInv, IntakeTypes
<1>2. CASE Unsupported(r)
  <2>1. CommitAnswer(r, "400", NoEffect) /\ UNCHANGED <<inbox, cases, posts>>
    BY <1>2 DEF Unsupported, NoEffect
  <2> QED BY <1>1, <2>1, CommitKeepsEffects DEF Rows, CaseIds, Posts
<1>3. CASE WidgetFile(r)
  <2>1. PICK new : cases' = Append(cases, new)
    BY <1>3 DEF WidgetFile
  <2>2. PICK m : m = Len(cases) + 1
    OBVIOUS
  <2>3. CaseIds' = CaseIds \cup {m} /\ m \notin CaseIds
    BY <2>1, <2>2, NextPlace DEF IntakeInv, IntakeTypes, CaseIds
  <2>4. PICK of : of = <<"case", m>>
    OBVIOUS
  <2>5. CommitAnswer(r, "201", of) /\ UNCHANGED <<inbox, posts>>
    BY <1>3, <2>2, <2>4 DEF WidgetFile
  <2>6. NamesAnEffect(of)' /\ ~NamesAnEffect(of)
    BY <2>3, <2>4 DEF NamesAnEffect
  <2> QED BY <1>1, <2>3, <2>5, <2>6, CommitKeepsEffects DEF Rows, Posts
<1>4. CASE WidgetPost(r)
  <2>1. PICK post : posts' = Append(posts, post)
    BY <1>4 DEF WidgetPost
  <2>2. PICK m : m = Len(posts) + 1
    OBVIOUS
  <2>3. /\ Posts' = Posts \cup {m} /\ m \notin Posts /\ \A n \in Posts : posts'[n] = posts[n]
    BY <2>1, <2>2, NextPlace DEF IntakeInv, IntakeTypes, Posts
  <2>4. PICK of : of = <<"post", m>>
    OBVIOUS
  <2>5. CommitAnswer(r, "201", of) /\ UNCHANGED <<inbox, cases>>
    BY <1>4, <2>2, <2>4 DEF WidgetPost
  <2>6. NamesAnEffect(of)' /\ ~NamesAnEffect(of)
    BY <2>3, <2>4 DEF NamesAnEffect
  <2> QED BY <1>1, <2>3, <2>4, <2>5, <2>6, CommitKeepsEffects DEF Rows, CaseIds
<1> QED BY <1>2, <1>3, <1>4

LEMMA AttributeKeepsEffects ==
  ASSUME IntakeInv, EffectsInv, NEW i \in Rows, NEW c \in CaseIds, attribute(i, c)
  PROVE  EffectsInv'
<1>1. PICK post : post = Post(c, inbox[i].channel, inbox[i].from, i)
  OBVIOUS
<1>2. PICK case, row : cases' = [cases EXCEPT ![c] = case] /\ inbox' = [inbox EXCEPT ![i] = row]
  BY DEF attribute
<1>3. posts' = Append(posts, post) /\ UNCHANGED <<answers, requests, told>>
  BY <1>1 DEF attribute
<1>4. Rows' = Rows
  <2>1. PICK S : inbox \in Seq(S)
    BY DEF IntakeInv, IntakeTypes, IsSeq
  <2>2. inbox \in Seq(S \cup {row}) /\ i \in 1 .. Len(inbox)
    BY <2>1 DEF Rows
  <2>3. Len(inbox') = Len(inbox)
    BY <1>2, <2>2
  <2> QED BY <2>3 DEF Rows
<1>5. CaseIds' = CaseIds
  <2>1. PICK S : cases \in Seq(S)
    BY DEF IntakeInv, IntakeTypes, IsSeq
  <2>2. cases \in Seq(S \cup {case}) /\ c \in 1 .. Len(cases)
    BY <2>1 DEF CaseIds
  <2>3. Len(cases') = Len(cases)
    BY <1>2, <2>2
  <2> QED BY <2>3 DEF CaseIds
<1>6. post.row # 0
  BY <1>1, NextPlace DEF Post, IntakeInv, IntakeTypes, Rows
<1>7. /\ Posts' = Posts \cup {Len(posts) + 1} /\ posts'[Len(posts) + 1] = post
      /\ \A n \in Posts : posts'[n] = posts[n]
  BY <1>3, NextPlace DEF IntakeInv, IntakeTypes, Posts
<1> QED BY <1>3, <1>4, <1>5, <1>6, <1>7, NothingNewKeeps DEF EffectsInv

LEMMA NextEffects == IntakeInv /\ EffectsInv /\ [IntakeNext]_intakeVars => EffectsInv'
<1> SUFFICES ASSUME IntakeInv, EffectsInv, [IntakeNext]_intakeVars PROVE EffectsInv' OBVIOUS
<1>0. DOMAIN requests = Handlers
  BY DEF IntakeInv, IntakeTypes
<1>1. ASSUME UNCHANGED <<inbox, cases, posts, answers, told>>,
             \A r \in Handlers : requests'[r].at = "working" => requests'[r].key \in Keys
      PROVE  EffectsInv'
  BY <1>1, NothingNewKeeps DEF Rows, CaseIds, Posts
<1>2. ASSUME NEW r \in Handlers, HandlerStep(r) PROVE EffectsInv'
  <2>1. CASE Undone(r) \/ Dies(r) \/ Raises(r)
    <3>1. requests' = [requests EXCEPT ![r] = Idle] /\ UNCHANGED <<inbox, cases, posts, answers, told>>
      BY <2>1 DEF Undone, Dies, Raises, Finish
    <3>2. requests'[r] = Idle /\ \A q \in Handlers : q # r => requests'[q] = requests[q]
      BY <1>0, <3>1
    <3>3. Idle.at # "working"
      BY DEF Idle
    <3>4. \A q \in Handlers : requests'[q].at = "working" => requests'[q].key \in Keys
      BY <3>2, <3>3 DEF EffectsInv
    <3> QED BY <1>1, <3>1, <3>4
  <2> QED BY <1>2, <2>1, RoutedKeepsEffects, WidgetKeepsEffects DEF HandlerStep
<1>3. ASSUME NEW r \in Handlers, NEW key \in Keys, NEW call \in Calls, Replay(r, key, call)
      PROVE  EffectsInv'
  <2>1. /\ UNCHANGED <<inbox, cases, posts, answers, requests>>
        /\ told' = told \cup {[key |-> key, body |-> answers[key].body, of |-> answers[key].of]}
        /\ answers[key] # NoAnswer
    BY <1>3 DEF Replay, Tell, fingerprint
  <2>2. AnswersAreKept'
    BY <2>1 DEF EffectsInv, AnswersAreKept
  <2>3. Rows' = Rows /\ CaseIds' = CaseIds /\ Posts' = Posts
    BY <2>1 DEF Rows, CaseIds, Posts
  <2>4. \A of : NamesAnEffect(of)' <=> NamesAnEffect(of)
    BY <2>1, <2>3 DEF NamesAnEffect
  <2>5. AnswersNameEffects'
    BY <2>1, <2>4 DEF EffectsInv, AnswersNameEffects
  <2>6. EffectsAreAnswered'
    BY <2>1, <2>3 DEF EffectsInv, EffectsAreAnswered
  <2> QED BY <2>1, <2>2, <2>5, <2>6 DEF EffectsInv
<1>4. ASSUME NEW r \in Handlers, NEW key \in Keys, NEW call \in Calls,
             Conflict(r, key, call) \/ Read(r, key, call)
      PROVE  EffectsInv'
  <2>1. CASE Conflict(r, key, call)
    BY <1>1, <2>1 DEF Conflict, intakeVars, EffectsInv
  <2>2. CASE Read(r, key, call)
    <3>1. \A q \in Handlers : requests'[q].at = "working" => requests'[q].key \in Keys
      <4>1. PICK record : record.key = key /\ requests' = [requests EXCEPT ![r] = record]
        BY <2>2 DEF Read
      <4>2. requests'[r] = record /\ \A q \in Handlers : q # r => requests'[q] = requests[q]
        BY <1>0, <4>1
      <4> QED BY <4>1, <4>2 DEF EffectsInv
    <3> QED BY <1>1, <2>2, <3>1 DEF Read
  <2> QED BY <1>4, <2>1, <2>2
<1>5. ASSUME NEW i \in 1 .. Len(inbox), NEW c \in 1 .. Len(cases), attribute(i, c)
      PROVE  EffectsInv'
  BY <1>5, AttributeKeepsEffects DEF Rows, CaseIds
<1>6. ASSUME (\E who \in Identities : Erase(who)) \/ Publish(DefaultCategory)
      PROVE  EffectsInv'
  BY <1>1, <1>6 DEF Erase, Publish, EffectsInv
<1>7. CASE UNCHANGED intakeVars
  BY <1>1, <1>7 DEF intakeVars, EffectsInv
<1> QED BY <1>2, <1>3, <1>4, <1>5, <1>6, <1>7 DEF IntakeNext

(* Every effect of a write is the answer of one key, kept and never given to *)
(* another question, however often a call is retried and whatever runs       *)
(* beside it (idempotency.py:50-82).                                         *)
THEOREM KeysAlwaysHaveOneEffect == IntakeSpec => []OneEffectPerKey
<1>1. IntakeInv /\ EffectsInv => OneEffectPerKey
  <2> SUFFICES ASSUME IntakeInv, EffectsInv PROVE OneEffectPerKey OBVIOUS
  <2>1. ASSUME NEW e \in Effects PROVE Cardinality({ k \in Keys : answers[k].of = e }) <= 1
    <3>1. e # NoEffect
      BY DEF Effects, NoEffect
    <3>2. \A k, l \in Keys : answers[k].of = e /\ answers[l].of = e => k = l
      BY <3>1 DEF EffectsInv, AnswersNameEffects
    <3>3. CASE { k \in Keys : answers[k].of = e } = {}
      BY <3>3, FS_EmptySet
    <3>4. CASE { k \in Keys : answers[k].of = e } # {}
      <4>1. PICK k : { l \in Keys : answers[l].of = e } = {k}
        BY <3>2, <3>4
      <4>2. Cardinality({k}) = 1
        BY FS_Singleton
      <4>3. Cardinality({ l \in Keys : answers[l].of = e }) = 1
        BY <4>1, <4>2
      <4> QED BY <4>3
    <3> QED BY <3>3, <3>4
  <2>2. { e \in Effects : e[1] = "row" } \subseteq { answers[k].of : k \in Keys }
    BY DEF EffectsInv, EffectsAreAnswered, Effects
  <2>3. { e \in Effects : e[1] = "post" } \subseteq { answers[k].of : k \in Keys }
    BY DEF EffectsInv, EffectsAreAnswered, Effects
  <2>4. \A t, u \in told : t.key = u.key => t = u
    BY DEF EffectsInv, AnswersAreKept
  <2> QED BY <2>1, <2>2, <2>3, <2>4 DEF OneEffectPerKey
<1> QED BY <1>1, InitIntake, NextIntake, InitEffects, NextEffects, PTL DEF IntakeSpec

-----------------------------------------------------------------------------
(* The count of deflections.  The row and its record commit together, and a  *)
(* row that was there already is neither inserted nor recorded.              *)

DeflectionInv == IsSeq(trail) /\ IsFiniteSet(subscriptions) /\ DeflectionsAreCounted

RecordsOf(i, who) == { n \in 1 .. Len(trail) : trail[n] = <<i, who>> }

RowsOf(i, who) == { s \in subscriptions : s.incident = i /\ s.customer = who }

LEMMA InitDeflection == DeflectionInit => DeflectionInv
<1> SUFFICES ASSUME DeflectionInit PROVE DeflectionInv OBVIOUS
<1>1. subscriptions = {} /\ trail = <<>>
  BY DEF DeflectionInit
<1>2. IsSeq(trail) /\ Len(trail) = 0
  BY <1>1 DEF IsSeq
<1>3. IsFiniteSet(subscriptions) /\ Cardinality(subscriptions) = 0
  BY <1>1, FS_EmptySet
<1>4. ASSUME NEW i \in Incidents, NEW who \in Customers
      PROVE  Cardinality(RecordsOf(i, who)) = Cardinality(RowsOf(i, who))
  <2>1. RecordsOf(i, who) = {} /\ RowsOf(i, who) = {}
    BY <1>1, <1>2 DEF RecordsOf, RowsOf
  <2> QED BY <2>1
<1>5. Len(trail) = Cardinality(subscriptions)
  BY <1>2, <1>3
<1>6. DeflectionsAreCounted
  BY <1>4, <1>5 DEF DeflectionsAreCounted, deflections_total, RecordsOf, RowsOf
<1> QED BY <1>2, <1>3, <1>6 DEF DeflectionInv

(* A new row is one row more, and one record more of the same two. *)
LEMMA SubscribeIsCounted ==
  ASSUME DeflectionInv, NEW row, row \notin subscriptions,
         subscriptions' = subscriptions \cup {row},
         trail' = Append(trail, <<row.incident, row.customer>>)
  PROVE  DeflectionInv'
<1>1. /\ IsSeq(trail') /\ Len(trail) \in Nat /\ Len(trail') = Len(trail) + 1
      /\ \A n \in 1 .. Len(trail) : trail'[n] = trail[n]
      /\ trail'[Len(trail) + 1] = <<row.incident, row.customer>>
  BY AppendAddsOne DEF DeflectionInv
<1>2. IsFiniteSet(subscriptions') /\ Cardinality(subscriptions') = Cardinality(subscriptions) + 1
  BY FS_AddElement DEF DeflectionInv
<1>3. ASSUME NEW i \in Incidents, NEW who \in Customers
      PROVE  Cardinality(RecordsOf(i, who)') = Cardinality(RowsOf(i, who)')
  <2>1. IsFiniteSet(RecordsOf(i, who)) /\ Len(trail) + 1 \notin RecordsOf(i, who)
    <3>1. IsFiniteSet(1 .. Len(trail))
      BY <1>1, FS_Interval
    <3>2. RecordsOf(i, who) \subseteq 1 .. Len(trail)
      BY DEF RecordsOf
    <3>3. IsFiniteSet(RecordsOf(i, who))
      BY <3>1, <3>2, FS_Subset
    <3>4. Len(trail) + 1 \notin 1 .. Len(trail)
      BY <1>1
    <3> QED BY <3>2, <3>3, <3>4
  <2>2. IsFiniteSet(RowsOf(i, who)) /\ row \notin RowsOf(i, who)
    <3>1. RowsOf(i, who) \subseteq subscriptions
      BY DEF RowsOf
    <3> QED BY <3>1, FS_Subset DEF DeflectionInv
  <2>3. Cardinality(RecordsOf(i, who)) = Cardinality(RowsOf(i, who))
    BY DEF DeflectionInv, DeflectionsAreCounted, RecordsOf, RowsOf
  <2>4. CASE row.incident = i /\ row.customer = who
    <3>1. RecordsOf(i, who)' = RecordsOf(i, who) \cup {Len(trail) + 1}
      BY <1>1, <2>4 DEF RecordsOf
    <3>2. RowsOf(i, who)' = RowsOf(i, who) \cup {row}
      BY <2>4 DEF RowsOf
    <3>3. Cardinality(RecordsOf(i, who)') = Cardinality(RecordsOf(i, who)) + 1
      BY <2>1, <3>1, FS_AddElement
    <3>4. Cardinality(RowsOf(i, who)') = Cardinality(RowsOf(i, who)) + 1
      BY <2>2, <3>2, FS_AddElement
    <3> QED BY <2>3, <3>3, <3>4
  <2>5. CASE ~(row.incident = i /\ row.customer = who)
    <3>1. RecordsOf(i, who)' = RecordsOf(i, who)
      BY <1>1, <2>5 DEF RecordsOf
    <3>2. RowsOf(i, who)' = RowsOf(i, who)
      BY <2>5 DEF RowsOf
    <3> QED BY <2>3, <3>1, <3>2
  <2> QED BY <2>4, <2>5
<1>4. Len(trail') = Cardinality(subscriptions')
  BY <1>1, <1>2 DEF DeflectionInv, DeflectionsAreCounted, deflections_total
<1> QED BY <1>1, <1>2, <1>3, <1>4 DEF DeflectionInv, DeflectionsAreCounted, deflections_total,
                                      RecordsOf, RowsOf

LEMMA NextDeflection == DeflectionInv /\ [DeflectionNext]_deflectionVars => DeflectionInv'
<1> SUFFICES ASSUME DeflectionInv, [DeflectionNext]_deflectionVars PROVE DeflectionInv' OBVIOUS
<1>1. ASSUME UNCHANGED <<subscriptions, trail>> PROVE DeflectionInv'
  BY <1>1 DEF DeflectionInv, DeflectionsAreCounted, deflections_total, IsSeq
<1>2. ASSUME NEW i, NEW status, SetStatus(i, status) PROVE DeflectionInv'
  BY <1>1, <1>2 DEF SetStatus
<1>3. ASSUME NEW b, NEW who, NEW complaint, Ask(b, who, complaint) PROVE DeflectionInv'
  BY <1>1, <1>3 DEF Ask
<1>4. ASSUME NEW b, Already(b) \/ Missing(b) \/ Abandon(b) PROVE DeflectionInv'
  BY <1>1, <1>4 DEF Already, Missing, Abandon
<1>5. ASSUME NEW b, Subscribe(b) PROVE DeflectionInv'
  <2>1. PICK row : row = browsers[b].row
    OBVIOUS
  <2>2. CASE row \in subscriptions
    BY <1>1, <1>5, <2>1, <2>2 DEF Subscribe
  <2>3. CASE row \notin subscriptions
    BY <1>5, <2>1, <2>3, SubscribeIsCounted DEF Subscribe
  <2> QED BY <2>2, <2>3
<1>6. CASE UNCHANGED deflectionVars
  BY <1>1, <1>6 DEF deflectionVars
<1> QED BY <1>2, <1>3, <1>4, <1>5, <1>6 DEF DeflectionNext

(* The deflections counted from the trail are the subscriptions, customer by *)
(* customer, whatever clicks and requests overlap (deflection.py:88-111).    *)
THEOREM DeflectionsAlwaysCounted == DeflectionSpec => []DeflectionsAreCounted
<1>1. DeflectionInv => DeflectionsAreCounted
  BY DEF DeflectionInv
<1> QED BY <1>1, InitDeflection, NextDeflection, PTL DEF DeflectionSpec
=============================================================================
