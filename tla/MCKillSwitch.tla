----------------------------- MODULE MCKillSwitch -----------------------------
(* Three changes, each of which may stop payments or resume them, and may be     *)
(* carried out more than once: stopped, resumed and stopped again.               *)
EXTENDS KillSwitch

CONSTANTS Maker, Checker, c1, c2, c3

MCOperators == {Maker, Checker}
MCIds       == {c1, c2, c3}
MCAsks      == {"kill_switch", "resume_payments"}
MCSwitch(ask) == ask = "resume_payments"
=============================================================================
