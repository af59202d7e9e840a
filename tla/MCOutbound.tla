------------------------------ MODULE MCOutbound ------------------------------
(***************************************************************************)
(* What leaves the system: the report schedule with its dispatcher, and    *)
(* the webhooks.  The two share no variable, so a behaviour of one needs   *)
(* no steps of the other; `scenario`, chosen at the start, says which one  *)
(* moves:                                                                  *)
(*   "months"    the schedule on two months, one dispatcher                *)
(*   "passes"    one month, two dispatchers that overlap                   *)
(*   "webhooks"  events of one dispute, two endpoints                      *)
(***************************************************************************)
EXTENDS ReportDelivery, WebhookDelivery

CONSTANTS First, Second,    (* the dispatchers *)
          Beside            (* the enqueuer that overlaps the other *)

VARIABLE scenario

outboundVars == <<deliveryVars, webhookVars, scenario>>

(* The ledger wants every event, the operations tool resolutions only. *)
MCWants(p) == IF p = "ledger" THEN EventTypes ELSE {"resolved"}

(* A step stays within the bounds of the scenario. *)
Within ==
  /\ scenario # "webhooks"
  /\ scenario = "months" =>
       memory'[Second] = Nothing /\ accidents' = 0 /\ edition'[2] = 0
  /\ scenario = "passes" =>
       /\ closed' <= 1 /\ registered' /\ active' /\ edition'[1] = 0 /\ edition'[2] = 0
       /\ \A m \in Months \ {1} : deliveries'[<<m, 0>>] = NoDelivery

ReportsMove(A) == A /\ Within /\ UNCHANGED <<webhookVars, scenario>>

(* The first event of a dispute is its creation, unless one enqueuer reads   *)
(* the number 1 and another overtakes it; then nothing dies or is replayed.  *)
WebhooksMove(A) ==
  /\ A /\ scenario = "webhooks"
  /\ \A e \in Enqueuers \ {Beside} : numbered'[e].type = "created" => numbered'[e].sequence = 1
  /\ \A k \in Queued' \ raced' : k.sequence = 1 => k.type = "created"
  /\ numbered'[Beside] # NoEvent =>
       /\ \E e \in Enqueuers : numbered'[e] = [dispute |-> "x", type |-> "resolved", sequence |-> 1]
       /\ numbered'[Beside].type = "created"
  /\ replays' + losses' <= IF overtaken' = {} /\ raced' = {} THEN 1 ELSE 0
  /\ UNCHANGED <<deliveryVars, scenario>>

OutboundInit ==
  /\ DeliveryInit /\ WebhookInit
  /\ scenario \in {"months", "passes", "webhooks"}

OutboundNext == ReportsMove(DeliveryNext) \/ WebhooksMove(WebhookNext)

(* The fairness of the two specifications, within the scenario. *)
OutboundSpec ==
  /\ OutboundInit /\ [][OutboundNext]_outboundVars
  /\ WF_outboundVars(ReportsMove(RunDue))
  /\ \A d \in Dispatchers : WF_outboundVars(ReportsMove(PassStep(d)))
  /\ WF_outboundVars(WebhooksMove(DispatchStep))
  /\ WF_outboundVars(WebhooksMove(SomeBackoffElapses))

=============================================================================
