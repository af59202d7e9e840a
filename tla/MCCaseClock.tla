----------------------------- MODULE MCCaseClock -----------------------------
(***************************************************************************)
(* CaseClock on one short working week: ticks 2 and 5 are closed, so       *)
(* windows straddle closed time; a case can be paused more than once and   *)
(* the sweep can be stalled for any number of ticks.                       *)
(***************************************************************************)
EXTENDS CaseClockProperties

MCHorizon == 14
MCOpenTicks == (0 .. 13) \ {2, 5}

(* One warning at half the window, and a threshold the code ignores. *)
MCWarningThresholds == {50, 100}
MCSchemeWarningThresholds == {50}
MCBodies == {"ombudsman"}

(* Actor types that reach transition() through the API; "system" never does. *)
MCActors == {"user", "api_key"}

=============================================================================
