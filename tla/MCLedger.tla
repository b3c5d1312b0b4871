------------------------------ MODULE MCLedger ------------------------------
(***************************************************************************)
(* A small ledger: a payer with four minor units, a payee, their           *)
(* currency's fee account, and a wallet in a currency without a fee        *)
(* account.  Two idempotency keys let a request be retried and a key be    *)
(* reused; two grants for one transfer let it be presented under two keys. *)
(***************************************************************************)
EXTENDS Ledger, TLC

CONSTANTS k1, k2, x1, x2, g1, g2, g3, g4

MCAccounts   == {"alice", "bob", "carol", "fee"}
MCWallets    == {"alice", "bob", "carol"}
MCCurrencies == {"GHS", "GBP"}
MCCurrencyOf == [a \in MCAccounts |-> IF a = "carol" THEN "GBP" ELSE "GHS"]
MCFeeAccount == [c \in {"GHS"} |-> "fee"]
MCOpening    == [a \in MCAccounts |-> IF a = "alice" THEN 4 ELSE 0]

Send(x, from, to, amount, fee) ==
  [transfer |-> x, from |-> from, to |-> to, amount |-> amount, fee |-> fee, ccy |-> "GHS"]

SendWithFee == Send(x1, "alice", "bob", 1, 1)
SendBack    == Send(x2, "bob", "alice", 1, 0)
CrossCcy    == Send(x2, "alice", "carol", 1, 0)
MCTerms     == {SendWithFee, SendBack, CrossCcy}
MCHoldTerms == {[account |-> "alice", amount |-> 2, transfer |-> x1],
                [account |-> "alice", amount |-> 3, transfer |-> x2],
                [account |-> "bob",   amount |-> 1, transfer |-> x2]}
MCGrantTerms == (g1 :> SendWithFee) @@ (g2 :> SendWithFee)
                  @@ (g3 :> SendBack) @@ (g4 :> CrossCcy)
KeySymmetry  == Permutations({k1, k2})
=============================================================================
