------------------------------ MODULE MCMobile ------------------------------
(***************************************************************************)
(* The mobile app with three things done in one behaviour: by the customer *)
(* on the screens that keep something, by an operator, or by the system    *)
(* that kills the app.  Every screen is visited before the first of them.  *)
(***************************************************************************)
EXTENDS MobileApp

MCCore == {"home", "profile", "splash", "welcome", "security", "freeze", "settings", "identity"}

\* One switch, and one value the screen computes from its copy.
MCTouched == {"simChangeAlerts", "passkeyCount"}
=============================================================================
