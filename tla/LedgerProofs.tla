---------------------------- MODULE LedgerProofs ----------------------------
(***************************************************************************)
(* Proofs that the ledger keeps its promises for every set of accounts,    *)
(* keys, transfers and grants.  Sums of amounts are cardinalities of sets  *)
(* of minor units (see Ledger), so the arithmetic of the running totals    *)
(* reduces to adding and removing the disjoint units of one row.           *)
(***************************************************************************)
EXTENDS Ledger, FiniteSetTheorems, TLAPS

-----------------------------------------------------------------------------
(* Units of one row *)

LEMMA UnitsOfOneRow ==
  ASSUME NEW x, NEW n \in Nat
  PROVE  /\ IsFiniteSet({x} \X (1..n))
         /\ Cardinality({x} \X (1..n)) = n
<1>1. IsFiniteSet({x}) /\ Cardinality({x}) = 1
  BY FS_Singleton
<1>2. IsFiniteSet(1..n) /\ Cardinality(1..n) = n
  BY FS_Interval
<1>3. /\ IsFiniteSet({x} \X (1..n))
      /\ Cardinality({x} \X (1..n)) = Cardinality({x}) * Cardinality(1..n)
  BY <1>1, <1>2, FS_Product
<1> QED BY <1>1, <1>2, <1>3

LEMMA AddUnits ==
  ASSUME NEW S, IsFiniteSet(S), NEW x, NEW n \in Nat,
         \A u \in S : u[1] # x
  PROVE  /\ IsFiniteSet(S \cup ({x} \X (1..n)))
         /\ Cardinality(S \cup ({x} \X (1..n))) = Cardinality(S) + n
<1> DEFINE U == {x} \X (1..n)
<1>1. IsFiniteSet(U) /\ Cardinality(U) = n
  BY UnitsOfOneRow
<1>2. S \cap U = {}
  OBVIOUS
<1>3. Cardinality(S \cap U) = 0
  BY <1>2, FS_EmptySet
<1>4. Cardinality(S) \in Nat
  BY FS_CardinalityType
<1>5. /\ IsFiniteSet(S \cup U)
      /\ Cardinality(S \cup U) = Cardinality(S) + Cardinality(U) - Cardinality(S \cap U)
  BY <1>1, FS_Union
<1> QED BY <1>1, <1>3, <1>4, <1>5

LEMMA RemoveUnits ==
  ASSUME NEW S, IsFiniteSet(S), NEW x, NEW n \in Nat,
         {x} \X (1..n) \subseteq S
  PROVE  /\ n <= Cardinality(S)
         /\ Cardinality(S \ ({x} \X (1..n))) = Cardinality(S) - n
<1> DEFINE U == {x} \X (1..n)
<1>1. IsFiniteSet(U) /\ Cardinality(U) = n
  BY UnitsOfOneRow
<1>2. S \cap U = U
  OBVIOUS
<1>3. Cardinality(U) <= Cardinality(S)
  BY FS_Subset
<1>4. Cardinality(S \ U) = Cardinality(S) - Cardinality(S \cap U)
  BY FS_Difference
<1> QED BY <1>1, <1>2, <1>3, <1>4

-----------------------------------------------------------------------------
(* The holds of an account *)

LEMMA OpenUnitsFinite ==
  ASSUME NEW a
  PROVE  IsFiniteSet(OpenUnits(a)) /\ Cardinality(OpenUnits(a)) \in Nat
<1>1. IsFiniteSet(1..MaxMinor) /\ IsFiniteSet(Keys)
  BY LedgerAssumption, FS_Interval DEF LedgerAssumption
<1>2. IsFiniteSet(Keys \X (1..MaxMinor))
  BY <1>1, FS_Product
<1>3. OpenUnits(a) \subseteq Keys \X (1..MaxMinor)
  BY DEF OpenUnits
<1>4. IsFiniteSet(OpenUnits(a))
  BY <1>2, <1>3, FS_Subset
<1> QED BY <1>4, FS_CardinalityType

\* An open hold's units are all among its account's, so the account holds that much.
LEMMA OpenHoldIsCounted ==
  ASSUME TypeOK, NEW k \in Keys, hold[k].status = "open"
  PROVE  /\ hold[k] \in HoldRecord
         /\ {k} \X (1..hold[k].amount) \subseteq OpenUnits(hold[k].account)
         /\ hold[k].amount <= Cardinality(OpenUnits(hold[k].account))
<1>1. hold[k] \in HoldRecord
  BY DEF TypeOK, NoHold
<1>2. {k} \X (1..hold[k].amount) \subseteq OpenUnits(hold[k].account)
  BY <1>1, LedgerAssumption DEF OpenUnits, HoldRecord, LedgerAssumption
<1>3. hold[k].amount \in Nat
  BY <1>1, LedgerAssumption DEF HoldRecord, LedgerAssumption
<1> QED BY <1>1, <1>2, <1>3, OpenUnitsFinite, RemoveUnits

LEMMA SettledHoldType ==
  ASSUME TypeOK, NEW k \in Keys, hold[k].status = "open",
         NEW s \in {"captured", "released"},
         hold' = [hold EXCEPT ![k].status = s]
  PROVE  hold' \in [Keys -> HoldRecord \cup {NoHold}]
<1>1. hold[k] \in HoldRecord
  BY OpenHoldIsCounted
<1>2. [hold[k] EXCEPT !.status = s] \in HoldRecord
  BY <1>1 DEF HoldRecord, HoldStatus
<1>3. hold' = [hold EXCEPT ![k] = [hold[k] EXCEPT !.status = s]]
  OBVIOUS
<1> HIDE DEF HoldRecord
<1> QED BY <1>2, <1>3 DEF TypeOK

\* Settling an open hold, whether by release or by capture, takes exactly its
\* amount off its account and leaves every other account alone.
LEMMA SettlingAHold ==
  ASSUME TypeOK, NEW k \in Keys, hold[k].status = "open",
         NEW s \in {"captured", "released"},
         hold' = [hold EXCEPT ![k].status = s],
         NEW a \in Accounts
  PROVE  Cardinality(OpenUnits(a)') =
           Cardinality(OpenUnits(a)) - (IF a = hold[k].account THEN hold[k].amount ELSE 0)
<1>1. hold[k] \in HoldRecord
  BY OpenHoldIsCounted
<1>2. \A j \in Keys \ {k} : hold'[j] = hold[j]
  BY DEF TypeOK
<1>3. hold'[k].status # "open"
  BY <1>1 DEF TypeOK, HoldRecord
<1>4. CASE a = hold[k].account
  <2>1. OpenUnits(a)' = OpenUnits(a) \ ({k} \X (1..hold[k].amount))
    BY <1>1, <1>2, <1>3, <1>4, LedgerAssumption DEF OpenUnits, HoldRecord, LedgerAssumption
  <2>2. hold[k].amount \in Nat
    BY <1>1, LedgerAssumption DEF HoldRecord, LedgerAssumption
  <2>3. {k} \X (1..hold[k].amount) \subseteq OpenUnits(a)
    BY <1>4, OpenHoldIsCounted
  <2>4. Cardinality(OpenUnits(a) \ ({k} \X (1..hold[k].amount)))
          = Cardinality(OpenUnits(a)) - hold[k].amount
    BY <2>2, <2>3, OpenUnitsFinite, RemoveUnits
  <2> QED BY <1>4, <2>1, <2>4
<1>5. CASE a # hold[k].account
  <2>1. OpenUnits(a)' = OpenUnits(a)
    BY <1>2, <1>3, <1>5 DEF OpenUnits
  <2> QED BY <1>5, <2>1, OpenUnitsFinite
<1> QED BY <1>4, <1>5

LEMMA PlacingAHold ==
  ASSUME TypeOK, NEW r \in HoldTerms, NEW k \in Keys, PlaceHold(r, k),
         NEW a \in Accounts
  PROVE  Cardinality(OpenUnits(a)') =
           Cardinality(OpenUnits(a)) + (IF a = r.account THEN r.amount ELSE 0)
<1> DEFINE new == [status |-> "open", account |-> r.account,
                   amount |-> r.amount, transfer |-> r.transfer]
<1>1. r.amount \in 1..MaxMinor
  BY LedgerAssumption DEF LedgerAssumption, HoldRequests, PlaceHold, MayPlaceHold, ValidHold
<1>2. hold' = [hold EXCEPT ![k] = new]
  BY DEF PlaceHold
<1>3. hold[k].status # "open"
  BY DEF PlaceHold, MayPlaceHold, NoHold
<1>4. hold'[k] = new /\ \A j \in Keys \ {k} : hold'[j] = hold[j]
  BY <1>2 DEF TypeOK
<1>5. CASE a = r.account
  <2>1. OpenUnits(a)' = OpenUnits(a) \cup ({k} \X (1..r.amount))
    BY <1>1, <1>3, <1>4, <1>5, LedgerAssumption DEF OpenUnits, LedgerAssumption
  <2>2. \A u \in OpenUnits(a) : u[1] # k
    BY <1>3 DEF OpenUnits
  <2>3. r.amount \in Nat
    BY <1>1, LedgerAssumption DEF LedgerAssumption
  <2>4. Cardinality(OpenUnits(a) \cup ({k} \X (1..r.amount)))
          = Cardinality(OpenUnits(a)) + r.amount
    BY <2>2, <2>3, OpenUnitsFinite, AddUnits
  <2> QED BY <1>5, <2>1, <2>4
<1>6. CASE a # r.account
  <2>1. OpenUnits(a)' = OpenUnits(a)
    BY <1>3, <1>4, <1>6 DEF OpenUnits
  <2> QED BY <1>6, <2>1, OpenUnitsFinite
<1> QED BY <1>5, <1>6

-----------------------------------------------------------------------------
(***************************************************************************)
(* Reservations.  HeldIsOpenHolds is needed for TypeOK (hold_minor never   *)
(* goes below zero because it counts the hold being settled) and for the   *)
(* capture's balance bound, so the three facts are proved together.        *)
(***************************************************************************)

Reserved == TypeOK /\ HeldIsOpenHolds /\ WalletFloor

LEMMA InitReserved == Init => Reserved
<1> SUFFICES ASSUME Init PROVE Reserved
  OBVIOUS
<1>1. TypeOK
  BY LedgerAssumption DEF Init, TypeOK, LedgerAssumption
<1>2. HeldIsOpenHolds
  <2> SUFFICES ASSUME NEW a \in Accounts PROVE held[a] = Cardinality(OpenUnits(a))
    BY DEF HeldIsOpenHolds
  <2>1. OpenUnits(a) = {}
    BY DEF Init, OpenUnits, NoHold
  <2>2. held[a] = 0
    BY DEF Init
  <2> QED BY <2>1, <2>2, FS_EmptySet
<1>3. WalletFloor
  BY LedgerAssumption DEF Init, WalletFloor, Available, LedgerAssumption
<1> QED BY <1>1, <1>2, <1>3 DEF Reserved

LEMMA PlaceHoldReserved ==
  ASSUME Reserved, NEW r \in HoldTerms, NEW k \in Keys, PlaceHold(r, k)
  PROVE  Reserved'
<1> USE DEF Reserved
<1>1. /\ r \in HoldRequests
      /\ r.account \in Accounts
      /\ r.amount \in 1..MaxMinor
      /\ r.amount \in Nat
  BY LedgerAssumption DEF LedgerAssumption, HoldRequests, PlaceHold, MayPlaceHold, ValidHold
<1>2. TypeOK'
  BY <1>1 DEF TypeOK, PlaceHold, accountVars, paperVars, HoldRecord, HoldStatus, HoldRequests
<1>3. HeldIsOpenHolds'
  <2> SUFFICES ASSUME NEW a \in Accounts PROVE held'[a] = Cardinality(OpenUnits(a)')
    BY DEF HeldIsOpenHolds
  <2>1. held'[a] = held[a] + (IF a = r.account THEN r.amount ELSE 0)
    BY <1>1 DEF PlaceHold, TypeOK
  <2>2. held[a] = Cardinality(OpenUnits(a))
    BY DEF HeldIsOpenHolds
  <2> QED BY <2>1, <2>2, PlacingAHold
<1>4. WalletFloor'
  BY <1>1, LedgerAssumption
  DEF WalletFloor, Available, PlaceHold, MayPlaceHold, TypeOK, LedgerAssumption
<1> QED BY <1>2, <1>3, <1>4

LEMMA ReleaseHoldReserved ==
  ASSUME Reserved, NEW k \in Keys, ReleaseHold(k)
  PROVE  Reserved'
<1> USE DEF Reserved
<1>1. /\ hold[k].status = "open"
      /\ hold[k] \in HoldRecord
      /\ hold[k].account \in Accounts
      /\ hold[k].amount \in Nat
  BY OpenHoldIsCounted, LedgerAssumption DEF ReleaseHold, HoldRecord, LedgerAssumption
<1>2. hold[k].amount <= held[hold[k].account]
  BY <1>1, OpenHoldIsCounted DEF HeldIsOpenHolds
<1>3. TypeOK'
  <2>1. hold' \in [Keys -> HoldRecord \cup {NoHold}]
    BY <1>1, SettledHoldType DEF ReleaseHold
  <2>2. held' \in [Accounts -> Nat]
    BY <1>1, <1>2 DEF TypeOK, ReleaseHold
  <2> QED BY <2>1, <2>2 DEF TypeOK, ReleaseHold, accountVars, paperVars
<1>4. HeldIsOpenHolds'
  <2> SUFFICES ASSUME NEW a \in Accounts PROVE held'[a] = Cardinality(OpenUnits(a)')
    BY DEF HeldIsOpenHolds
  <2>1. held'[a] = held[a] - (IF a = hold[k].account THEN hold[k].amount ELSE 0)
    BY <1>1 DEF ReleaseHold, TypeOK
  <2>2. held[a] = Cardinality(OpenUnits(a))
    BY DEF HeldIsOpenHolds
  <2> QED BY <1>1, <2>1, <2>2, SettlingAHold DEF ReleaseHold
<1>5. WalletFloor'
  BY <1>1, LedgerAssumption
  DEF WalletFloor, Available, ReleaseHold, TypeOK, LedgerAssumption
<1> QED BY <1>3, <1>4, <1>5

\* The facts about a capture's transfer and hold the proofs below use.
LEMMA CaptureTypes ==
  ASSUME TypeOK, NEW t \in Terms, NEW k \in Keys, NEW h \in Keys \cup {NoKey},
         NEW g \in Grants, CaptureTransfer(t, k, h, g)
  PROVE  /\ t \in TransferTerms
         /\ t.from \in Accounts /\ t.to \in Accounts /\ t.from # t.to
         /\ t.amount \in 1..MaxMinor /\ t.fee \in 0..MaxMinor
         /\ t.transfer \in Transfers /\ t.transfer # NoKey
         /\ t.fee > 0 => FeeAccount[t.ccy] \in Accounts
         /\ h # NoKey => h \in Keys
<1> USE LedgerAssumption DEF LedgerAssumption, TransferTerms
<1>1. /\ t.from \in Accounts /\ t.to \in Accounts
      /\ t.amount \in Int /\ t.fee \in Int
      /\ t.transfer \in Transfers /\ t.ccy \in Currencies
  OBVIOUS
<1>2. ValidTransfer(t) /\ (t.fee > 0 => t.ccy \in DOMAIN FeeAccount)
  BY DEF CaptureTransfer, MayCapture
<1>3. t.from # t.to /\ t.amount \in 1..MaxMinor /\ t.fee \in 0..MaxMinor
  BY <1>1, <1>2 DEF ValidTransfer
<1> QED BY <1>1, <1>2, <1>3

LEMMA DeltaType ==
  ASSUME TypeOK, NEW t \in Terms, NEW k \in Keys, NEW h \in Keys \cup {NoKey},
         NEW g \in Grants, CaptureTransfer(t, k, h, g), NEW a \in Accounts
  PROVE  /\ Delta(t, a) \in Int
         /\ a # t.from => Delta(t, a) >= 0
         /\ Delta(t, a) >= -(t.amount + t.fee)
BY CaptureTypes, LedgerAssumption DEF Delta, LedgerAssumption

\* What a capture does to the reservations: nothing, or the open hold it names,
\* which is the payer's, is settled.
LEMMA CaptureHolds ==
  ASSUME TypeOK, HeldIsOpenHolds, NEW t \in Terms, NEW k \in Keys,
         NEW h \in Keys \cup {NoKey}, NEW g \in Grants, CaptureTransfer(t, k, h, g)
  PROVE  /\ hold' \in [Keys -> HoldRecord \cup {NoHold}]
         /\ held' \in [Accounts -> Nat]
         /\ FreedByCapture(h) \in Nat
         /\ held'[t.from] = held[t.from] - FreedByCapture(h)
         /\ \A a \in Accounts \ {t.from} : held'[a] = held[a]
         /\ HeldIsOpenHolds'
<1>1. CASE h # NoKey /\ hold[h].status = "open"
  <2>1. /\ h \in Keys
        /\ t.from \in Accounts
        /\ hold[h].account = t.from
        /\ hold' = [hold EXCEPT ![h].status = "captured"]
        /\ held' = [held EXCEPT ![t.from] = @ - hold[h].amount]
    BY <1>1, CaptureTypes DEF CaptureTransfer, SettleHold, MayCapture, HoldIsPayers
  <2>2. hold[h] \in HoldRecord /\ hold[h].amount <= held[t.from]
    BY <1>1, <2>1, OpenHoldIsCounted DEF HeldIsOpenHolds
  <2>3. hold[h].amount \in Nat /\ FreedByCapture(h) = hold[h].amount
    BY <1>1, <2>2, LedgerAssumption DEF HoldRecord, LedgerAssumption, FreedByCapture
  <2>4. hold' \in [Keys -> HoldRecord \cup {NoHold}]
    BY <1>1, <2>1, SettledHoldType
  <2>5. HeldIsOpenHolds'
    <3> SUFFICES ASSUME NEW a \in Accounts PROVE held'[a] = Cardinality(OpenUnits(a)')
      BY DEF HeldIsOpenHolds
    <3>1. held'[a] = held[a] - (IF a = hold[h].account THEN hold[h].amount ELSE 0)
      BY <2>1, <2>3 DEF TypeOK
    <3>2. held[a] = Cardinality(OpenUnits(a))
      BY DEF HeldIsOpenHolds
    <3> QED BY <1>1, <2>1, <3>1, <3>2, SettlingAHold
  <2>6. held' \in [Accounts -> Nat]
    BY <2>1, <2>2, <2>3 DEF TypeOK
  <2> QED BY <2>1, <2>3, <2>4, <2>5, <2>6 DEF TypeOK
<1>2. CASE ~(h # NoKey /\ hold[h].status = "open")
  <2>1. UNCHANGED <<hold, held>> /\ t.from \in Accounts
    BY <1>2, CaptureTypes DEF CaptureTransfer, SettleHold
  <2>2. FreedByCapture(h) = 0
    BY <1>2 DEF FreedByCapture
  <2>3. HeldIsOpenHolds'
    BY <2>1 DEF HeldIsOpenHolds, OpenUnits
  <2> QED BY <2>1, <2>2, <2>3 DEF TypeOK
<1> QED BY <1>1, <1>2

LEMMA LegsType ==
  ASSUME TypeOK, NEW t \in Terms, NEW k \in Keys, NEW h \in Keys \cup {NoKey},
         NEW g \in Grants, CaptureTransfer(t, k, h, g)
  PROVE  Legs(k, t) \subseteq PostingRow /\ \A p \in Legs(k, t) : p.entry = k
<1>1. /\ t.from \in Accounts /\ t.to \in Accounts
      /\ t.amount \in 1..MaxMinor
      /\ t.fee # 0 => t.fee \in 1..MaxMinor /\ FeeAccount[t.ccy] \in Accounts
  BY CaptureTypes, LedgerAssumption DEF LedgerAssumption
<1> QED BY <1>1 DEF Legs, PostingRow

LEMMA CaptureReserved ==
  ASSUME Reserved, NEW t \in Terms, NEW k \in Keys, NEW h \in Keys \cup {NoKey},
         NEW g \in Grants, CaptureTransfer(t, k, h, g)
  PROVE  Reserved'
<1> USE DEF Reserved
<1>1. /\ t.from \in Accounts /\ t.to \in Accounts
      /\ t.amount \in Nat /\ t.fee \in Nat
      /\ t.transfer \in Transfers
  BY CaptureTypes, LedgerAssumption DEF LedgerAssumption
<1>2. balance' = [a \in Accounts |-> balance[a] + Delta(t, a)]
  BY DEF CaptureTransfer
<1>3. \A a \in Accounts : balance[a] + Delta(t, a) <= MaxMinor
  BY DEF CaptureTransfer, MayCapture
<1>4. Available(t.from) + FreedByCapture(h) >= t.amount + t.fee
  BY DEF CaptureTransfer, MayCapture
<1>5. /\ FreedByCapture(h) \in Nat
      /\ held'[t.from] \in Nat
      /\ held'[t.from] = held[t.from] - FreedByCapture(h)
  BY <1>1, CaptureHolds
<1>6. \A a \in Accounts : /\ balance[a] \in -MaxMinor..MaxMinor
                          /\ held[a] \in Nat
                          /\ Delta(t, a) \in Int
                          /\ a # t.from => Delta(t, a) >= 0
                          /\ Delta(t, a) >= -(t.amount + t.fee)
  BY DeltaType DEF TypeOK
<1>7. balance[t.from] + Delta(t, t.from) - held'[t.from] >= 0
  <2>1. balance[t.from] - held[t.from] + FreedByCapture(h) >= t.amount + t.fee
    BY <1>4 DEF Available
  <2> QED BY <1>1, <1>5, <1>6, <2>1, LedgerAssumption DEF LedgerAssumption
<1>8. balance' \in [Accounts -> -MaxMinor..MaxMinor]
  <2> SUFFICES ASSUME NEW a \in Accounts
               PROVE  balance[a] + Delta(t, a) \in -MaxMinor..MaxMinor
    BY <1>2
  <2>1. MaxMinor \in Nat /\ balance[a] \in Int /\ Delta(t, a) \in Int
    BY <1>6, LedgerAssumption DEF LedgerAssumption
  <2>2. balance[a] + Delta(t, a) >= -MaxMinor
    <3>1. CASE a = t.from
      <4>1. balance[a] + Delta(t, a) - held'[a] >= 0 /\ held'[a] \in Nat
        BY <1>5, <1>7, <3>1
      <4> QED BY <2>1, <4>1
    <3>2. CASE a # t.from
      BY <1>6, <2>1, <3>2
    <3> QED BY <3>1, <3>2
  <2> QED BY <1>3, <2>1, <2>2
<1>9. entry' \in [Keys -> Transfers \cup {NoKey}] /\ spent' \in [Grants -> Keys \cup {NoKey}]
  BY <1>1 DEF CaptureTransfer, TypeOK
<1>10. postings' \subseteq PostingRow
  BY LegsType DEF CaptureTransfer, TypeOK
<1>11. receipts' \subseteq ReceiptRow /\ evidence' \subseteq EvidenceRow
  BY <1>1 DEF CaptureTransfer, TypeOK, ReceiptRow, EvidenceRow
<1>12. TypeOK'
  BY <1>8, <1>9, <1>10, <1>11, CaptureHolds DEF TypeOK, CaptureTransfer, accountVars
<1>13. WalletFloor'
  <2> SUFFICES ASSUME NEW a \in Wallets PROVE balance'[a] - held'[a] >= 0
    BY DEF WalletFloor, Available
  <2>1. a \in Accounts
    BY LedgerAssumption DEF LedgerAssumption
  <2>2. CASE a = t.from
    <3>1. balance'[a] = balance[a] + Delta(t, a)
      BY <1>2, <2>1
    <3>2. balance[a] + Delta(t, a) - held'[a] >= 0
      BY <1>7, <2>2
    <3>3. balance[a] \in Int /\ Delta(t, a) \in Int /\ held'[a] \in Int
      BY <1>5, <1>6, <2>1, <2>2
    <3> QED BY <3>1, <3>2, <3>3
  <2>3. CASE a # t.from
    <3>1. balance'[a] = balance[a] + Delta(t, a) /\ held'[a] = held[a]
      BY <1>2, <2>1, <2>3, CaptureHolds
    <3>2. balance[a] - held[a] >= 0
      BY DEF WalletFloor, Available
    <3>3. balance[a] \in Int /\ held[a] \in Int /\ Delta(t, a) \in Int /\ Delta(t, a) >= 0
      BY <1>6, <2>1, <2>3, LedgerAssumption DEF LedgerAssumption
    <3> QED BY <3>1, <3>2, <3>3
  <2> QED BY <2>2, <2>3
<1> QED BY <1>12, <1>13, CaptureHolds

\* Freezing, unfreezing and the passing of time touch no money.
LEMMA RestrictionReserved ==
  ASSUME Reserved,
         \/ \E a \in Accounts, by \in {"customer", "operator"} : FreezeBy(a, by)
         \/ \E a \in Accounts : Unfreeze(a) \/ UnfreezeBy(a)
         \/ \E g \in Grants : Expire(g)
         \/ UNCHANGED vars
  PROVE  Reserved'
<1> USE DEF Reserved
<1>1. UNCHANGED moneyVars /\ UNCHANGED paperVars
  BY DEF FreezeBy, Unfreeze, UnfreezeBy, Expire, vars
<1>2. TypeOK'
  <2>1. status' \in [Accounts -> {"active", "frozen"}]
    BY DEF TypeOK, FreezeBy, Unfreeze, UnfreezeBy, Expire, vars, accountVars
  <2>2. freezeLog' \in Seq(FreezeRow)
    <3>1. CASE UNCHANGED freezeLog
      BY <3>1 DEF TypeOK
    <3>2. CASE \E row \in FreezeRow : freezeLog' = Append(freezeLog, row)
      BY <3>2 DEF TypeOK
    <3>3. UNCHANGED freezeLog \/ \E row \in FreezeRow : freezeLog' = Append(freezeLog, row)
      BY DEF FreezeBy, Unfreeze, UnfreezeBy, Expire, RecordFreeze, FreezeRow, vars, accountVars
    <3> QED BY <3>1, <3>2, <3>3
  <2>3. expired' \subseteq Grants
    BY DEF TypeOK, FreezeBy, Unfreeze, UnfreezeBy, Expire, vars
  <2> QED BY <1>1, <2>1, <2>2, <2>3 DEF TypeOK, moneyVars, paperVars
<1>3. HeldIsOpenHolds' /\ WalletFloor'
  BY <1>1 DEF moneyVars, HeldIsOpenHolds, OpenUnits, WalletFloor, Available
<1> QED BY <1>2, <1>3

LEMMA ReservedIsInductive == Reserved /\ [Next]_vars => Reserved'
BY PlaceHoldReserved, ReleaseHoldReserved, CaptureReserved, RestrictionReserved DEF Next

LEMMA AlwaysReserved == Spec => []Reserved
BY InitReserved, ReservedIsInductive, PTL DEF Spec

\* Every reachable ledger is well formed: statuses, rows and counters keep their
\* types, and in particular hold_minor never goes below zero.
THEOREM LedgerTypeOK == Spec => []TypeOK
<1>1. Reserved => TypeOK
  BY DEF Reserved
<1> QED BY <1>1, AlwaysReserved, PTL

\* hold_minor of every account is the sum of the holds that are open on it.
THEOREM LedgerHeldIsOpenHolds == Spec => []HeldIsOpenHolds
<1>1. Reserved => HeldIsOpenHolds
  BY DEF Reserved
<1> QED BY <1>1, AlwaysReserved, PTL

\* No customer account ever has less than what is reserved on it.
THEOREM LedgerWalletFloor == Spec => []WalletFloor
<1>1. Reserved => WalletFloor
  BY DEF Reserved
<1> QED BY <1>1, AlwaysReserved, PTL
=============================================================================
