--------------------------- MODULE DisputeStates ---------------------------
(***************************************************************************)
(* The dispute state machine as a table: disputeshield/disputes/states.py. *)
(* A constant-level module; CaseClock and CaseTransactions move cases by   *)
(* looking rules up in it.                                                 *)
(***************************************************************************)
EXTENDS Naturals

Statuses ==
  {"submitted", "acknowledged", "investigating", "awaiting_customer",
   "escalated", "resolved", "reopened", "closed", "auto_closed"}

ClockEffects == {"none", "pause", "resume", "stop"}

ActorTypes == {"user", "system", "api_key"}

(* One rule: the clock effect, whether a reason is demanded and who may     *)
(* perform it.  The trigger's name is wording and is left out.              *)
Rule(source, target, effect, reasoned, actors) ==
  [source |-> source, target |-> target, clock_effect |-> effect,
   requires_reason |-> reasoned, actor_types |-> actors]

TRANSITIONS ==
  { Rule("submitted", "acknowledged", "none", FALSE, ActorTypes),
    Rule("acknowledged", "investigating", "none", FALSE, ActorTypes),
    Rule("submitted", "investigating", "none", FALSE, ActorTypes),
    Rule("investigating", "awaiting_customer", "pause", TRUE, ActorTypes),
    Rule("awaiting_customer", "investigating", "resume", TRUE, ActorTypes),
    Rule("awaiting_customer", "auto_closed", "stop", TRUE, {"system"}),
    Rule("investigating", "escalated", "none", TRUE, ActorTypes),
    Rule("escalated", "investigating", "none", TRUE, ActorTypes),
    Rule("investigating", "resolved", "stop", TRUE, ActorTypes),
    Rule("escalated", "resolved", "stop", TRUE, ActorTypes),
    Rule("resolved", "reopened", "none", TRUE, ActorTypes),
    Rule("reopened", "investigating", "none", FALSE, ActorTypes),
    Rule("resolved", "closed", "stop", FALSE, {"system", "user"}) }

TERMINAL == {"closed", "auto_closed"}

(* find(): the rules for a move.  At most one; none is an IllegalTransition. *)
Find(source, target) ==
  { r \in TRANSITIONS : r.source = source /\ r.target = target }

=============================================================================
