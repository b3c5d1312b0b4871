----------------------------- MODULE MCTransfer -----------------------------
(***************************************************************************)
(* Payments of one payer with four minor units, all submitted under one   *)
(* idempotency key: p1, the same transfer authorised again (p2), and       *)
(* another transfer that reuses the key (p3).                              *)
(***************************************************************************)
EXTENDS DomesticTransfer, TLC

CONSTANTS k1, x1, x2, g1, g2, g3, p1, p2, p3

MCAccounts   == {"alice", "bob", "fee"}
MCWallets    == {"alice", "bob"}
MCCurrencies == {"GHS"}
MCCurrencyOf == [a \in MCAccounts |-> "GHS"]
MCFeeAccount == [c \in MCCurrencies |-> "fee"]
MCOpening    == [a \in MCAccounts |-> IF a = "alice" THEN 4 ELSE 0]

Send(x, amount, fee) ==
  [transfer |-> x, from |-> "alice", to |-> "bob", amount |-> amount, fee |-> fee, ccy |-> "GHS"]

First        == Send(x1, 1, 1)
Second       == Send(x2, 2, 0)
MCTerms      == {First, Second}
MCHoldTerms  == {[account |-> "alice", amount |-> 2, transfer |-> x] : x \in {x1, x2}}
MCGrantTerms == [g \in Grants |-> IF g = g3 THEN Second ELSE First]

MCPaymentTerms == [p \in Payments |-> IF p = p3 THEN Second ELSE First]
MCPaymentKey   == [p \in Payments |-> k1]
MCPaymentGrant == [p \in Payments |-> CASE p = p1 -> g1 [] p = p2 -> g2 [] p = p3 -> g3]
=============================================================================
