------------------------------- MODULE MCSend -------------------------------
(***************************************************************************)
(* Two taps on either app, in any order with five things customers and    *)
(* operators do: enough to open the screen, fill it, authorise, walk back, *)
(* edit and authorise again while the first tap is under way.              *)
(***************************************************************************)
EXTENDS SendMoney

MCNames   == {"ama"}
MCAmounts == {10000}
=============================================================================
