------------------------------- MODULE Ledger -------------------------------
(***************************************************************************)
(* The ledger service, the sole authority for balances (ADR 0001).  Each   *)
(* action is one database transaction of services/ledger/internal/store,   *)
(* taken as atomic: the row locks it takes serialise it with the others.   *)
(*                                                                         *)
(* A hold and a journal entry are identified by their idempotency key: the *)
(* column is UNIQUE in both tables, so the key determines the row and the  *)
(* generated row id adds nothing.  A call refused by the code changes no   *)
(* row and is a stuttering step here, as is a repeated call answered with  *)
(* the existing row.                                                       *)
(*                                                                         *)
(* Not in the model: account creation (no operation creates one), status   *)
(* 'closed' (no operation sets it), descriptions, hashes and timestamps.   *)
(* An operator that no other definition uses is a fault a run puts in the  *)
(* place of the definition after it, to see that a property notices.       *)
(***************************************************************************)
EXTENDS Integers, FiniteSets, Sequences

CONSTANTS
  Accounts,            \* accounts.external_ref
  Wallets,             \* accounts whose type is user_wallet or merchant
  Currencies,
  CurrencyOf,          \* accounts.currency
  FeeAccount,          \* "system:fee:" + currency, for the currencies that have one
  Opening,             \* balances once the migrations have run
  Keys,                \* idempotency keys
  NoKey,               \* the absent key, hold or entry
  Transfers,           \* transfer identifiers
  Terms,               \* the transfers a caller may present, see TransferTerms
  HoldTerms,           \* the holds a caller may present, see HoldRequests
  Grants,              \* grants carrying a valid signature of the identity service
  GrantTerms,          \* the transfer a grant's binding digest commits to
  SandboxGrants,       \* grants minted without an authenticator challenge
  AllowSandboxMethod,  \* the deployment's opt-in for them
  MaxMinor,            \* the largest BIGINT
  MaxFreezes           \* model bound: freeze and unfreeze orders in one behaviour

\* What a TransferRequest carries besides its keys: the fields a grant binds.
TransferTerms ==
  [transfer: Transfers, from: Accounts, to: Accounts,
   amount: Int, fee: Int, ccy: Currencies]

HoldRequests == [account: Accounts, amount: Int, transfer: Transfers]

ASSUME LedgerAssumption ==
  /\ Wallets \subseteq Accounts
  /\ CurrencyOf \in [Accounts -> Currencies]
  /\ DOMAIN FeeAccount \subseteq Currencies
  /\ \A c \in DOMAIN FeeAccount : /\ FeeAccount[c] \in Accounts
                                  /\ CurrencyOf[FeeAccount[c]] = c
  /\ Opening \in [Accounts -> Int]
  /\ \A a \in Wallets : Opening[a] >= 0
  /\ MaxMinor \in Nat
  /\ \A a \in Accounts : Opening[a] <= MaxMinor /\ -MaxMinor <= Opening[a]
  /\ NoKey \notin Keys \cup Transfers
  /\ IsFiniteSet(Keys) /\ IsFiniteSet(Accounts)
  /\ Terms \subseteq TransferTerms
  /\ HoldTerms \subseteq HoldRequests
  /\ GrantTerms \in [Grants -> Terms]
  /\ SandboxGrants \subseteq Grants
  /\ AllowSandboxMethod \in BOOLEAN
  /\ MaxFreezes \in Nat

VARIABLES
  status,     \* accounts.status
  balance,    \* account_balances.balance_minor
  held,       \* account_balances.hold_minor
  hold,       \* holds, by idempotency key
  entry,      \* journal_entries.transfer_id, by idempotency key
  postings,   \* the postings rows
  spent,      \* authorisation_grants: the entry each spent grant paid for
  receipts,   \* the receipts rows
  evidence,   \* authorisation_evidence rows of captures
  freezeLog,  \* authorisation_evidence rows of freezes and unfreezes
  expired     \* grants whose validity window has passed

accountVars == <<status, freezeLog>>
moneyVars   == <<balance, held, hold>>
paperVars   == <<entry, postings, spent, receipts, evidence>>
vars        == <<accountVars, moneyVars, paperVars, expired>>

-----------------------------------------------------------------------------
NoHold      == [status |-> "none"]
HoldStatus  == {"open", "captured", "released"}
HoldRecord  == [status: HoldStatus, account: Accounts,
                amount: 1..MaxMinor, transfer: Transfers]
PostingRow  == [entry: Keys, leg: {"principal", "fee"}, account: Accounts,
                direction: {"debit", "credit"}, amount: 1..MaxMinor]
ReceiptRow  == [entry: Keys, terms: Terms, grant: Grants]
EvidenceRow == [transfer: Transfers, grant: Grants]
FreezeRow   == [action: {"freeze", "unfreeze"}, account: Accounts,
                by: {"customer", "operator"}]

TypeOK ==
  /\ status    \in [Accounts -> {"active", "frozen"}]
  /\ balance   \in [Accounts -> -MaxMinor..MaxMinor]
  /\ held      \in [Accounts -> Nat]
  /\ hold      \in [Keys -> HoldRecord \cup {NoHold}]
  /\ entry     \in [Keys -> Transfers \cup {NoKey}]
  /\ postings  \subseteq PostingRow
  /\ spent     \in [Grants -> Keys \cup {NoKey}]
  /\ receipts  \subseteq ReceiptRow
  /\ evidence  \subseteq EvidenceRow
  /\ freezeLog \in Seq(FreezeRow)
  /\ expired   \subseteq Grants

Init ==
  /\ status    = [a \in Accounts |-> "active"]
  /\ balance   = Opening
  /\ held      = [a \in Accounts |-> 0]
  /\ hold      = [k \in Keys |-> NoHold]
  /\ entry     = [k \in Keys |-> NoKey]
  /\ postings  = {}
  /\ spent     = [g \in Grants |-> NoKey]
  /\ receipts  = {}
  /\ evidence  = {}
  /\ freezeLog = <<>>
  /\ expired   = {}

Available(a) == balance[a] - held[a]

-----------------------------------------------------------------------------
(* Holds *)

ValidHold(r) == r.amount > 0 /\ r.amount <= MaxMinor

\* Fault: the account's status is not tested.
AnyStatus(a) == TRUE
NotFrozen(a) == status[a] # "frozen"

\* Fault: the reserved part of the balance is forgotten.
MayPlaceHoldTwice(r, k) ==
  /\ ValidHold(r)
  /\ hold[k] = NoHold
  /\ NotFrozen(r.account)
  /\ balance[r.account] >= r.amount

\* The account checks of PlaceHold.  The currency of the request is stored and
\* never compared with the account's, so it is not part of a request here.
MayPlaceHold(r, k) ==
  /\ ValidHold(r)
  /\ hold[k] = NoHold
  /\ NotFrozen(r.account)
  /\ Available(r.account) >= r.amount

PlaceHold(r, k) ==
  /\ MayPlaceHold(r, k)
  /\ hold' = [hold EXCEPT ![k] = [status   |-> "open",   account  |-> r.account,
                                  amount   |-> r.amount, transfer |-> r.transfer]]
  /\ held' = [held EXCEPT ![r.account] = @ + r.amount]
  /\ UNCHANGED <<accountVars, balance, paperVars, expired>>

\* Fault: the status of the hold is not tested.
ReleaseAnyHold(k) ==
  /\ hold[k] # NoHold
  /\ hold' = [hold EXCEPT ![k].status = "released"]
  /\ held' = [held EXCEPT ![hold[k].account] = @ - hold[k].amount]
  /\ UNCHANGED <<accountVars, balance, paperVars, expired>>

\* A hold that is no longer open is left alone and the call succeeds.
ReleaseHold(k) ==
  /\ hold[k].status = "open"
  /\ hold' = [hold EXCEPT ![k].status = "released"]
  /\ held' = [held EXCEPT ![hold[k].account] = @ - hold[k].amount]
  /\ UNCHANGED <<accountVars, balance, paperVars, expired>>

-----------------------------------------------------------------------------
(* Capture *)

ValidTransfer(t) ==
  /\ t.from # t.to
  /\ t.amount > 0
  /\ t.fee >= 0
  /\ t.fee <= MaxMinor - t.amount

\* verifyGrant: the signature is genuine (g \in Grants), the window is open, the
\* binding is this transfer, and the method is one the deployment accepts.
Authorises(g, t) ==
  /\ g \notin expired
  /\ GrantTerms[g] = t
  /\ g \in SandboxGrants => AllowSandboxMethod

\* Fault: the owner of the hold is not tested.
HoldExists(h, t) == h # NoKey => hold[h] # NoHold

\* The hold named by a capture must be a hold of the paying account (M3); its
\* transfer and amount are not compared with the capture's.
HoldIsPayers(h, t) == h # NoKey => hold[h] # NoHold /\ hold[h].account = t.from

FreedByCapture(h) == IF h # NoKey /\ hold[h].status = "open" THEN hold[h].amount ELSE 0

\* The rows insertPosting writes for entry k.
Legs(k, t) ==
  LET Row(leg, a, dir, n) == [entry |-> k, leg |-> leg, account |-> a,
                              direction |-> dir, amount |-> n]
  IN  {Row("principal", t.from, "debit", t.amount), Row("principal", t.to, "credit", t.amount)}
      \cup IF t.fee = 0 THEN {}
           ELSE {Row("fee", t.from, "debit", t.fee), Row("fee", FeeAccount[t.ccy], "credit", t.fee)}

\* The sum of the adjustBalance calls of one capture for account a.
Delta(t, a) ==
    (IF a = t.to THEN t.amount ELSE 0)
  - (IF a = t.from THEN t.amount + t.fee ELSE 0)
  + (IF t.fee > 0 /\ a = FeeAccount[t.ccy] THEN t.fee ELSE 0)

\* Fault: only the payer's currency is compared.
PayersCurrency(t) == CurrencyOf[t.from] = t.ccy
SameCurrency(t) == CurrencyOf[t.from] = t.ccy /\ CurrencyOf[t.to] = t.ccy

\* Fault: an entry is inserted whether its key is new or not.
AnyKey(k) == TRUE
FreshKey(k) == entry[k] = NoKey

\* Fault: a grant is not consumed.
AnyGrant(g) == TRUE
Unspent(g) == spent[g] = NoKey

MayCapture(t, k, h, g) ==
  /\ ValidTransfer(t)
  /\ Authorises(g, t)
  /\ FreshKey(k)
  /\ NotFrozen(t.from)
  /\ SameCurrency(t)
  /\ HoldIsPayers(h, t)
  /\ Available(t.from) + FreedByCapture(h) >= t.amount + t.fee
  /\ t.fee > 0 => t.ccy \in DOMAIN FeeAccount
  /\ \A a \in Accounts : balance[a] + Delta(t, a) <= MaxMinor
  /\ Unspent(g)

\* An open hold named by the capture is settled, on the hold's own account.
SettleHold(h) ==
  IF h # NoKey /\ hold[h].status = "open"
  THEN /\ hold' = [hold EXCEPT ![h].status = "captured"]
       /\ held' = [held EXCEPT ![hold[h].account] = @ - hold[h].amount]
  ELSE UNCHANGED <<hold, held>>

CaptureTransfer(t, k, h, g) ==
  /\ MayCapture(t, k, h, g)
  /\ SettleHold(h)
  /\ entry'    = [entry EXCEPT ![k] = t.transfer]
  /\ postings' = postings \cup Legs(k, t)
  /\ balance'  = [a \in Accounts |-> balance[a] + Delta(t, a)]
  /\ spent'    = [spent EXCEPT ![g] = k]
  /\ receipts' = receipts \cup {[entry |-> k, terms |-> t, grant |-> g]}
  /\ evidence' = evidence \cup {[transfer |-> t.transfer, grant |-> g]}
  /\ UNCHANGED <<accountVars, expired>>

-----------------------------------------------------------------------------
(* Restricting an account *)

RecordFreeze(action, a, by) ==
  /\ Len(freezeLog) < MaxFreezes
  /\ freezeLog' = Append(freezeLog, [action |-> action, account |-> a, by |-> by])

FreezeBy(a, by) ==
  /\ status' = [status EXCEPT ![a] = "frozen"]
  /\ RecordFreeze("freeze", a, by)
  /\ UNCHANGED <<moneyVars, paperVars, expired>>

\* The customer's own unfreeze: no evidence row.
Unfreeze(a) ==
  /\ status[a] = "frozen"
  /\ status' = [status EXCEPT ![a] = "active"]
  /\ UNCHANGED <<freezeLog, moneyVars, paperVars, expired>>

\* The operator's unfreeze writes its evidence even when nothing was frozen.
UnfreezeBy(a) ==
  /\ status' = [status EXCEPT ![a] = "active"]
  /\ RecordFreeze("unfreeze", a, "operator")
  /\ UNCHANGED <<moneyVars, paperVars, expired>>

\* Time passes beyond a grant's expiry and the accepted clock skew.
Expire(g) ==
  /\ g \notin expired
  /\ expired' = expired \cup {g}
  /\ UNCHANGED <<accountVars, moneyVars, paperVars>>

Next ==
  \/ \E r \in HoldTerms, k \in Keys : PlaceHold(r, k)
  \/ \E k \in Keys : ReleaseHold(k)
  \/ \E t \in Terms, k \in Keys, h \in Keys \cup {NoKey}, g \in Grants :
        CaptureTransfer(t, k, h, g)
  \/ \E a \in Accounts, by \in {"customer", "operator"} : FreezeBy(a, by)
  \/ \E a \in Accounts : Unfreeze(a) \/ UnfreezeBy(a)
  \/ \E g \in Grants : Expire(g)

Spec == Init /\ [][Next]_vars

-----------------------------------------------------------------------------
(***************************************************************************)
(* Properties.  A sum of amounts over rows is written as the cardinality   *)
(* of the set of their minor units: <<x, i>> for i in 1..amount of row x.  *)
(***************************************************************************)

\* The minor units reserved by the holds of account a that are still open.
OpenUnits(a) ==
  {u \in Keys \X (1..MaxMinor) :
     /\ hold[u[1]].status = "open"
     /\ hold[u[1]].account = a
     /\ u[2] <= hold[u[1]].amount}

\* hold_minor is a running total kept by three different transactions; it must
\* always be the sum of the holds that are open, whichever of capture, release
\* and their retries settled the others.  A drift strands a customer's funds or
\* lets a reserved amount be spent.
HeldIsOpenHolds == \A a \in Accounts : held[a] = Cardinality(OpenUnits(a))

\* The minor units posted to account a in one direction.
PostedUnits(a, dir) ==
  {u \in postings \X (1..MaxMinor) :
     /\ u[1].account = a
     /\ u[1].direction = dir
     /\ u[2] <= u[1].amount}

\* ADR 0001.4: account_balances is a cache that can be rebuilt from postings.
\* The balance moves by adjustBalance, the postings by insertPosting: for every
\* account, the fee account and the payer of a fee included, both must agree.
BalanceIsPostings ==
  \A a \in Accounts :
    balance[a] = Opening[a] + Cardinality(PostedUnits(a, "credit"))
                            - Cardinality(PostedUnits(a, "debit"))

\* The minor units of currency c in a set of balances.  A system account may be
\* overdrawn, so an account's units are counted from the smallest balance upwards.
UnitsOf(c, balances) ==
  {u \in Accounts \X (-MaxMinor..MaxMinor) :
     /\ CurrencyOf[u[1]] = c
     /\ u[2] < balances[u[1]]}

\* Money is neither created nor destroyed in any currency: all its accounts
\* together have what they had when the ledger was opened.  The two account
\* currencies are compared with the request's; without that a transfer between
\* accounts of different currencies turns one into the other at par.
MoneyConserved ==
  \A c \in Currencies : Cardinality(UnitsOf(c, balance)) = Cardinality(UnitsOf(c, Opening))

\* Customer accounts never have less than what is reserved on them.  The code
\* tests it before it writes; this says the floor trigger of migration 004,
\* which is not a guard of any action here, never has to fire.
WalletFloor == \A a \in Wallets : Available(a) >= 0

\* A grant pays at most once, whatever keys its presenter uses, and only for the
\* transfer its binding commits to.
GrantPaysOnce ==
  \A r \in receipts :
    /\ GrantTerms[r.grant] = r.terms
    /\ \A s \in receipts : s.grant = r.grant => s = r

\* An entry, its postings, its receipt, its spent grant and its evidence are one
\* record of one payment: each entry has exactly the postings of one receipt.
EntryIsDocumented ==
  /\ \A k \in Keys : entry[k] # NoKey <=> \E r \in receipts : r.entry = k
  /\ \A r \in receipts :
       /\ entry[r.entry] = r.terms.transfer
       /\ {p \in postings : p.entry = r.entry} = Legs(r.entry, r.terms)
       /\ spent[r.grant] = r.entry
       /\ [transfer |-> r.terms.transfer, grant |-> r.grant] \in evidence
  /\ \A p \in postings : entry[p.entry] # NoKey

\* A settled hold stays settled and no hold ever changes hands or amount: a late
\* release cannot reopen a captured reservation, nor a late capture a released one.
HoldSettlesOnce ==
  [][\A k \in Keys : hold[k] # NoHold =>
        /\ hold[k].status # "open" => hold'[k] = hold[k]
        /\ hold'[k].account = hold[k].account
        /\ hold'[k].amount = hold[k].amount]_vars

\* While an account is frozen nothing leaves it and nothing more is reserved on
\* it, including by captures of holds placed before the freeze.
FrozenPaysNothing ==
  [][\A a \in Accounts :
        status[a] = "frozen" => balance'[a] >= balance[a] /\ held'[a] <= held[a]]_vars

\* M3: a hold is captured only by a payment out of its own account.  The grant's
\* binding does not cover the hold a capture names.
CapturedHoldPays ==
  [][\A k \in Keys :
        hold[k].status = "open" /\ hold'[k].status = "captured"
          => balance'[hold[k].account] < balance[hold[k].account]]_vars

\* Lifting a freeze is the more dangerous direction and is evidenced the same way
\* as applying one (store.go:525-526): a step that unfreezes leaves a row.
UnfreezeIsEvidenced ==
  [][\A a \in Accounts :
        status[a] = "frozen" /\ status'[a] = "active" => freezeLog' # freezeLog]_vars
=============================================================================
