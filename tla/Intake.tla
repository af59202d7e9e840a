-------------------------------- MODULE Intake --------------------------------
(***************************************************************************)
(* How a complaint enters: a channel gateway forwards what arrived, or a   *)
(* customer writes through the widget.  Every write carries an             *)
(* idempotency key and runs in one transaction (ATOMIC_REQUESTS): it       *)
(* reads, decides, and commits everything it wrote or nothing.             *)
(***************************************************************************)
EXTENDS Naturals, Sequences, FiniteSets

CONSTANTS
  Handlers,        \* requests being handled
  Keys,            \* idempotency keys the callers use
  Identities,      \* customers and senders, as their hashes
  Calls,           \* what callers may ask; see Call
  DefaultCategory  \* the category of a message that names none

VARIABLES
  inbox,     \* InboundMessage rows, in the order they were committed
  cases,     \* cases: whose they are and who may write to them
  posts,     \* customers' messages appended to cases
  answers,   \* IdempotencyRecord: the answer kept under each key
  requests,  \* what each request is doing and what it has read
  policies,  \* categories that have a published policy version
  erased,    \* customers whose key has been destroyed
  told,      \* history: successful answers callers were given, with their question
  lost       \* history: calls rolled back because their own work raised

intakeVars == <<inbox, cases, posts, answers, requests, policies, erased, told, lost>>

-----------------------------------------------------------------------------
(* What the channels send, as the adapters of normalise.py read it.  A call *)
(* to intake has its channel in the path; the payload is its body.          *)

NoSender == "nobody"
NoThread == "no thread"

(* The fields each adapter looks at besides sender and text; the others keep *)
(* their default.                                                            *)
Adapters ==
  [ email    |-> {"thread", "quote", "auto"}, whatsapp |-> {"thread", "quote"},
    ussd     |-> {"thread", "category"},      social   |-> {"thread", "quote"},
    phone    |-> {"thread", "quote", "category"},
    web_form |-> {"category"} ]

normalise(channel, payload) ==
  LET read(field, default) ==
        IF field \in Adapters[channel] THEN payload[field] ELSE default
  IN  [ channel |-> channel, from |-> payload.from, text |-> payload.text,
        at |-> payload.at, thread |-> read("thread", NoThread),
        quote |-> read("quote", 0), auto |-> read("auto", FALSE),
        category |-> read("category", "") ]

Inbound(call) == normalise(call.path, call.body)

(* The digest of the body: neither the path nor the caller is part of it. *)
fingerprint(call) == call.body

NoAnswer == [body |-> [text |-> "none"], status |-> "none", of |-> <<"none", 0>>]

Idle == [at |-> "idle"]

Post(c, channel, from, row) ==
  [case |-> c, channel |-> channel, from |-> from, row |-> row]

-----------------------------------------------------------------------------
(* What a request reads before it decides. *)

Contact(c, channel, from) == <<channel, from>> \in cases[c].contacts

ThreadRows(inbound) ==
  { i \in 1 .. Len(inbox) :
      /\ inbox[i].channel = inbound.channel /\ inbox[i].thread = inbound.thread
      /\ inbox[i].case # 0 }

(* A quoted reference decides alone, even when no case bears it; else the   *)
(* latest message of the thread that has a case (any of them in a tie).     *)
_find_case(inbound) ==
  IF inbound.quote # 0
  THEN { IF inbound.quote \in 1 .. Len(cases) THEN inbound.quote ELSE 0 }
  ELSE LET prior == IF inbound.thread = NoThread THEN {} ELSE ThreadRows(inbound)
           latest == { i \in prior : \A j \in prior : inbox[j].at <= inbox[i].at }
       IN  IF prior = {} THEN {0} ELSE { inbox[i].case : i \in latest }

(* The category a new case would be filed under; "" when neither the message *)
(* nor the default names one with a policy.                                  *)
PolicyFor(inbound) ==
  LET category == IF inbound.category = "" THEN DefaultCategory ELSE inbound.category
  IN  CASE category \in policies -> category
        [] category \notin policies /\ DefaultCategory \in policies -> DefaultCategory
        [] OTHER -> ""

-----------------------------------------------------------------------------
(* A call a caller may make: in the widget, into a case of the session's    *)
(* customer or a category that has a policy.  A retry is the same call      *)
(* under the same key.                                                      *)
Admitted(call) ==
  /\ call.endpoint = "message" =>
       call.path \in 1 .. Len(cases) /\ cases[call.path].customer = call.who
  /\ call.endpoint = "file" => call.category \in policies

Finish(r) == requests' = [requests EXCEPT ![r] = Idle]

Tell(key, call, of) == told' = told \cup {[key |-> key, body |-> call.body, of |-> of]}

(* The key was used before, with this body: the stored answer again.         *)
Replay(r, key, call) ==
  /\ requests[r] = Idle /\ Admitted(call)
  /\ answers[key] # NoAnswer /\ answers[key].body = fingerprint(call)
  /\ Tell(key, call, answers[key].of)
  /\ UNCHANGED <<inbox, cases, posts, answers, requests, policies, erased, lost>>

(* The key was used before, with another body: 409, and nothing is done.     *)
Conflict(r, key, call) ==
  /\ requests[r] = Idle /\ Admitted(call)
  /\ answers[key] # NoAnswer /\ answers[key].body # fingerprint(call)
  /\ UNCHANGED intakeVars

(* The key is new: the work begins, reading what is committed.               *)
Read(r, key, call) ==
  LET routed == call.endpoint = "intake" /\ call.path \in DOMAIN Adapters
  IN  /\ requests[r] = Idle /\ Admitted(call)
      /\ answers[key] = NoAnswer
      /\ \E c \in IF routed THEN _find_case(Inbound(call)) ELSE {0} :
           requests' = [requests EXCEPT ![r] =
             [ at |-> "working", call |-> call, key |-> key,
               case |-> c,
               verified |-> c # 0 /\ Contact(c, call.path, call.body.from),
               category |-> IF routed THEN PolicyFor(Inbound(call)) ELSE "" ]]
      /\ UNCHANGED <<inbox, cases, posts, answers, policies, erased, told, lost>>

(* As CommitAnswer, on a table without the unique constraint.                *)
CommitAnyway(r, status, of) ==
  /\ requests[r].at = "working"
  /\ answers' = [answers EXCEPT ![requests[r].key] =
       [body |-> fingerprint(requests[r].call), status |-> status, of |-> of]]
  /\ Tell(requests[r].key, requests[r].call, of)
  /\ Finish(r)
  /\ UNCHANGED <<policies, erased, lost>>

(* The commit inserts the answer; the key is unique per tenant.              *)
CommitAnswer(r, status, of) ==
  /\ requests[r].at = "working"
  /\ answers[requests[r].key] = NoAnswer
  /\ answers' = [answers EXCEPT ![requests[r].key] =
       [body |-> fingerprint(requests[r].call), status |-> status, of |-> of]]
  /\ Tell(requests[r].key, requests[r].call, of)
  /\ Finish(r)
  /\ UNCHANGED <<policies, erased, lost>>

(* Another request committed the key first: IntegrityError undoes the work.  *)
Undone(r) ==
  /\ requests[r].at = "working"
  /\ answers[requests[r].key] # NoAnswer
  /\ Finish(r)
  /\ UNCHANGED <<inbox, cases, posts, answers, policies, erased, told, lost>>

(* The process dies, or the connection does, before the commit.              *)
Dies(r) ==
  /\ requests[r].at # "idle"
  /\ Finish(r)
  /\ UNCHANGED <<inbox, cases, posts, answers, policies, erased, told, lost>>

-----------------------------------------------------------------------------
(* The outcomes of `receive`.  Each writes the inbound row with its          *)
(* disposition, and answers with the row.                                    *)

Working(r, endpoint) ==
  requests[r].at = "working" /\ requests[r].call.endpoint = endpoint

Routed(r) == Working(r, "intake") /\ requests[r].call.path \in DOMAIN Adapters

Record(r, state, c) ==
  LET inbound == Inbound(requests[r].call)
  IN  inbox' = Append(inbox,
        [ channel |-> inbound.channel, from |-> inbound.from, text |-> inbound.text,
          thread |-> inbound.thread, at |-> inbound.at, state |-> state, case |-> c ])

Disposed(r, state, c) ==
  /\ Routed(r)
  /\ Record(r, state, c)
  /\ CommitAnswer(r, "202", <<"row", Len(inbox) + 1>>)

Considered(r) ==
  Routed(r) /\ ~Inbound(requests[r].call).auto /\ Inbound(requests[r].call).from # NoSender

Ignore(r) ==
  /\ Routed(r) /\ Inbound(requests[r].call).auto
  /\ Disposed(r, "ignored", 0)
  /\ UNCHANGED <<cases, posts>>

Review(r) ==
  /\ Routed(r) /\ ~Inbound(requests[r].call).auto
  /\ \/ Inbound(requests[r].call).from = NoSender
     \/ requests[r].case = 0 /\ requests[r].category = ""
  /\ Disposed(r, "unmatched_review", 0)
  /\ UNCHANGED <<cases, posts>>

Quarantine(r) ==
  /\ Considered(r) /\ requests[r].case # 0 /\ ~requests[r].verified
  /\ Disposed(r, "quarantined", requests[r].case)
  /\ UNCHANGED <<cases, posts>>

(* add_message refuses a blank body, and seals under the case's customer.    *)
CanPost(c, text) == text # "blank" /\ cases[c].customer \notin erased

AppendTo(r) ==
  LET inbound == Inbound(requests[r].call)  c == requests[r].case
  IN  /\ Considered(r) /\ c # 0 /\ requests[r].verified
      /\ CanPost(c, inbound.text)
      /\ Disposed(r, "matched", c)
      /\ posts' = Append(posts, Post(c, inbound.channel, inbound.from, Len(inbox) + 1))
      /\ UNCHANGED cases

(* As FileNew, with no contact for the case.                                 *)
FileWithoutContact(r) ==
  LET inbound == Inbound(requests[r].call)
  IN  /\ Considered(r) /\ requests[r].case = 0 /\ requests[r].category # ""
      /\ inbound.from \notin erased
      /\ cases' = Append(cases, [customer |-> inbound.from, contacts |-> {}])
      /\ Disposed(r, "filed", Len(cases) + 1)
      /\ UNCHANGED posts

(* A new case; the sender is its customer and its first verified contact.    *)
FileNew(r) ==
  LET inbound == Inbound(requests[r].call)
  IN  /\ Considered(r) /\ requests[r].case = 0 /\ requests[r].category # ""
      /\ inbound.from \notin erased
      /\ cases' = Append(cases, [ customer |-> inbound.from,
                                  contacts |-> {<<inbound.channel, inbound.from>>} ])
      /\ Disposed(r, "filed", Len(cases) + 1)
      /\ UNCHANGED posts

(* A channel no adapter handles: the 400 is an answer like any other.        *)
Unsupported(r) ==
  /\ Working(r, "intake") /\ ~Routed(r)
  /\ CommitAnswer(r, "400", <<"none", 0>>)
  /\ UNCHANGED <<inbox, cases, posts>>

-----------------------------------------------------------------------------
(* The widget's two writes, in the scope of the session's customer.          *)

WidgetFile(r) ==
  /\ Working(r, "file")
  /\ requests[r].call.who \notin erased
  /\ cases' = Append(cases, [customer |-> requests[r].call.who, contacts |-> {}])
  /\ CommitAnswer(r, "201", <<"case", Len(cases) + 1>>)
  /\ UNCHANGED <<inbox, posts>>

WidgetPost(r) ==
  LET call == requests[r].call
  IN  /\ Working(r, "message")
      /\ CanPost(call.path, "words")
      /\ posts' = Append(posts, Post(call.path, "widget", call.who, 0))
      /\ CommitAnswer(r, "201", <<"post", Len(posts) + 1>>)
      /\ UNCHANGED <<inbox, cases>>

(* The work raises -- the key is destroyed, or a reply has no body -- and the *)
(* request's transaction takes the inbound row with it.                       *)
Raises(r) ==
  LET call == requests[r].call  c == requests[r].case
  IN  /\ requests[r].at = "working"
      /\ \/ call.endpoint = "file" /\ call.who \in erased
         \/ call.endpoint = "message" /\ ~CanPost(call.path, "words")
         \/ /\ Considered(r) /\ c # 0 /\ requests[r].verified
            /\ ~CanPost(c, Inbound(call).text)
         \/ /\ Considered(r) /\ c = 0 /\ requests[r].category # ""
            /\ Inbound(call).from \in erased
      /\ lost' = lost \cup {call}
      /\ Finish(r)
      /\ UNCHANGED <<inbox, cases, posts, answers, policies, erased, told>>

-----------------------------------------------------------------------------
(* As attribute, without making the sender a contact.                        *)
AttributeOnce(i, c) ==
  /\ i \in 1 .. Len(inbox) /\ c \in 1 .. Len(cases)
  /\ CanPost(c, inbox[i].text)
  /\ posts' = Append(posts, Post(c, inbox[i].channel, inbox[i].from, i))
  /\ inbox' = [inbox EXCEPT ![i].state = "matched", ![i].case = c]
  /\ UNCHANGED <<cases, answers, requests, policies, erased, told, lost>>

(* A person attributes a recorded message to a case: the sender becomes a    *)
(* contact and the text is appended.  Nothing looks at the row's state.      *)
attribute(i, c) ==
  /\ i \in 1 .. Len(inbox) /\ c \in 1 .. Len(cases)
  /\ CanPost(c, inbox[i].text)
  /\ cases' = [cases EXCEPT ![c].contacts = @ \cup {<<inbox[i].channel, inbox[i].from>>}]
  /\ posts' = Append(posts, Post(c, inbox[i].channel, inbox[i].from, i))
  /\ inbox' = [inbox EXCEPT ![i].state = "matched", ![i].case = c]
  /\ UNCHANGED <<answers, requests, policies, erased, told, lost>>

(* A first policy version is published for a category.                       *)
Publish(category) ==
  /\ category \notin policies
  /\ policies' = policies \cup {category}
  /\ UNCHANGED <<inbox, cases, posts, answers, requests, erased, told, lost>>

(* A customer's key is destroyed (see CustomerRecords).                      *)
Erase(who) ==
  /\ who \notin erased
  /\ \E c \in 1 .. Len(cases) : cases[c].customer = who
  /\ erased' = erased \cup {who}
  /\ UNCHANGED <<inbox, cases, posts, answers, requests, policies, told, lost>>

IntakeInit ==
  /\ inbox = <<>> /\ cases = <<>> /\ posts = <<>>
  /\ answers = [k \in Keys |-> NoAnswer]
  /\ requests = [r \in Handlers |-> Idle]
  /\ policies \in {{}, {DefaultCategory}}
  /\ erased = {} /\ told = {} /\ lost = {}

HandlerStep(r) ==
  \/ Undone(r) \/ Dies(r) \/ Raises(r)
  \/ Ignore(r) \/ Review(r) \/ Quarantine(r) \/ AppendTo(r) \/ FileNew(r)
  \/ Unsupported(r) \/ WidgetFile(r) \/ WidgetPost(r)

IntakeNext ==
  \/ \E r \in Handlers : HandlerStep(r)
  \/ \E r \in Handlers, key \in Keys, call \in Calls :
       Replay(r, key, call) \/ Conflict(r, key, call) \/ Read(r, key, call)
  \/ \E i \in 1 .. Len(inbox), c \in 1 .. Len(cases) : attribute(i, c)
  \/ \E who \in Identities : Erase(who)
  \/ Publish(DefaultCategory)

IntakeSpec == IntakeInit /\ [][IntakeNext]_intakeVars

-----------------------------------------------------------------------------
(* Properties. *)

Rows == 1 .. Len(inbox)
CaseIds == 1 .. Len(cases)
Posts == 1 .. Len(posts)

(* The effects a request may leave, each named by the answer that tells it.  *)
Effects ==
  { <<"row", i>> : i \in Rows }
    \cup { <<"case", c>> : c \in { c \in CaseIds : cases[c].contacts = {} } }
    \cup { <<"post", n>> : n \in { n \in Posts : posts[n].row = 0 } }

(* Every effect is the stored answer of one key, and no two keys share an    *)
(* effect; so however often a call is retried, and whatever runs beside it,  *)
(* its work is done once (idempotency.py:50-82).  And no key ever answers    *)
(* two different questions with success, nor one question twice differently. *)
OneEffectPerKey ==
  /\ \A e \in Effects : Cardinality({ k \in Keys : answers[k].of = e }) <= 1
  /\ { e \in Effects : e[1] = "row" } \subseteq { answers[k].of : k \in Keys }
  /\ { e \in Effects : e[1] = "post" } \subseteq { answers[k].of : k \in Keys }
  /\ \A t, u \in told : t.key = u.key => t = u

(* A text reaches a case's thread only from the case's own customer in the   *)
(* widget or from a contact verified for that case on that very channel,     *)
(* whatever a thread, a quoted reference or a person's attribution led to    *)
(* (router.py:3-11).                                                         *)
StrangersStayOut ==
  \A n \in Posts :
    LET post == posts[n]
    IN  IF post.channel = "widget"
        THEN post.from = cases[post.case].customer
        ELSE <<post.channel, post.from>> \in cases[post.case].contacts

(* A row that says it was matched has its text in that case's thread; a row  *)
(* that says it was filed has a case, of its own sender, which no other      *)
(* filed row claims; and a row set aside without a case never has one        *)
(* (router.py:96-200: row, case, contact and message commit together).       *)
RowsTellWhatHappened ==
  \A i \in Rows :
    /\ inbox[i].state = "matched" =>
         \E n \in Posts : posts[n].row = i /\ posts[n].case = inbox[i].case
    /\ inbox[i].state = "filed" =>
         /\ inbox[i].case \in CaseIds
         /\ cases[inbox[i].case].customer = inbox[i].from
         /\ <<inbox[i].channel, inbox[i].from>> \in cases[inbox[i].case].contacts
         /\ \A j \in Rows \ {i} :
              inbox[j].state = "filed" => inbox[j].case # inbox[i].case
    /\ inbox[i].state \in {"ignored", "unmatched_review"} => inbox[i].case = 0

(* router.py:47 says a message is recorded before anything is decided, so    *)
(* that none that arrived is silently dropped.  A call whose work raised has *)
(* left no row: recording and deciding are one transaction.                  *)
NothingIsDropped == { call \in lost : call.endpoint = "intake" } = {}

=============================================================================
