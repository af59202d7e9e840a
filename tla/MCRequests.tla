------------------------------ MODULE MCRequests ------------------------------
(***************************************************************************)
(* Requests that overlap, in four scenarios that share no variable;        *)
(* `scenario`, chosen at the start, says which one moves:                  *)
(*   chain       transactions that append to one tenant's audit chain      *)
(*   case        requests that move one case, and the sweep                *)
(*   intake      complaints arriving under idempotency keys                *)
(*   deflection  incidents offered before filing                           *)
(* A closed tick at 2 lets a pause be of no effect, and the window can run *)
(* out while requests are in flight.                                       *)
(***************************************************************************)
EXTENDS AuditChainProperties, CaseTransactions, Intake, IncidentDeflection

CONSTANTS MaxRows, MaxCases, MaxPosts   \* bounds of the run

VARIABLE scenario

allVars == <<chainVars, txnVars, intakeVars, deflectionVars, scenario>>

MCHorizon == 9
MCOpenTicks == (0 .. 8) \ {2}

Text(from, thread, quote) ==
  [ from |-> from, text |-> "words", thread |-> thread, quote |-> quote,
    auto |-> FALSE, category |-> "", at |-> 1 ]

Call(channel, payload) == [endpoint |-> "intake", path |-> channel, body |-> payload]

(* A first email of ann's and a late answer to it, a stranger in her thread, *)
(* her case quoted from a phone call, an automatic and a blank reply, a call *)
(* with a category, no sender, an unknown channel, and the widget.           *)
MCCalls ==
  { Call("email", Text("ann", "t", 0)), Call("email", Text("bob", "t", 0)),
    Call("email", [Text("ann", "t", 0) EXCEPT !.text = "blank", !.at = 2]),
    Call("email", [Text("ann", "t", 0) EXCEPT !.auto = TRUE]),
    Call("phone", [Text("bob", "u", 1) EXCEPT !.category = "fraud"]),
    Call("email", Text(NoSender, "t", 0)), Call("fax", Text("ann", "t", 0)),
    [endpoint |-> "file", path |-> "-", who |-> "ann", category |-> "other",
     body |-> [text |-> "filed"]],
    [endpoint |-> "message", path |-> 1, who |-> "ann", body |-> [text |-> "words"]] }

MCIncidents ==
  { [categories |-> {"fraud"}, prefixes |-> {}], [categories |-> {}, prefixes |-> {"NIP"}],
    [categories |-> {}, prefixes |-> {}] }

MCComplaints == [category : {"fraud", "other"}, prefix : {"NIP", "POS"}]

ChainMoves == ChainNext /\ UNCHANGED <<txnVars, intakeVars, deflectionVars>>

CaseMoves == TxnNext /\ UNCHANGED <<chainVars, intakeVars, deflectionVars>>

IntakeMoves ==
  /\ IntakeNext
  /\ Len(inbox') <= MaxRows /\ Len(cases') <= MaxCases /\ Len(posts') <= MaxPosts
  /\ UNCHANGED <<chainVars, txnVars, deflectionVars>>

DeflectionMoves ==
  /\ DeflectionNext /\ Len(trail') <= 2
  /\ UNCHANGED <<chainVars, txnVars, intakeVars>>

MCInit ==
  /\ ChainInit /\ TxnInit /\ IntakeInit /\ DeflectionInit
  /\ scenario \in {"chain", "case", "intake", "deflection"}
  /\ scenario # "intake" => policies = {}

MCNext ==
  /\ \/ scenario = "chain" /\ ChainMoves
     \/ scenario = "case" /\ CaseMoves
     \/ scenario = "intake" /\ IntakeMoves
     \/ scenario = "deflection" /\ DeflectionMoves
  /\ UNCHANGED scenario

MCSpec == MCInit /\ [][MCNext]_allVars

=============================================================================
