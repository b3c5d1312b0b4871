------------------------- MODULE LedgerEntryProofs -------------------------
(***************************************************************************)
(* Proofs about what the ledger writes down: that a grant pays once, that  *)
(* every entry is one documented payment, that balances are the sum of the *)
(* postings, and that no payment makes or loses money.  They use the       *)
(* reservations proved in LedgerProofs.                                    *)
(***************************************************************************)
EXTENDS LedgerProofs

\* A grant that is spent names the entry it paid for, so a capture that finds its
\* grant unspent knows that no receipt carries it: EntryIsDocumented is what makes
\* GrantPaysOnce inductive.
Documented == TypeOK /\ EntryIsDocumented
PaysOnce == Documented /\ GrantPaysOnce

LEMMA InitPaysOnce == Init => PaysOnce
<1> SUFFICES ASSUME Init PROVE PaysOnce
  OBVIOUS
<1>1. TypeOK
  BY InitReserved DEF Reserved
<1>2. EntryIsDocumented /\ GrantPaysOnce
  BY DEF Init, EntryIsDocumented, GrantPaysOnce
<1> QED BY <1>1, <1>2 DEF PaysOnce, Documented

\* The paper a capture adds, and that none of it existed before: a fresh key has
\* neither receipt nor posting, an unspent grant has no receipt.
LEMMA CapturePaper ==
  ASSUME Documented, NEW t \in Terms, NEW k \in Keys, NEW h \in Keys \cup {NoKey},
         NEW g \in Grants, CaptureTransfer(t, k, h, g)
  PROVE  /\ \A r \in receipts : r.entry # k /\ r.grant # g
         /\ \A p \in postings : p.entry # k
         /\ entry'[k] = t.transfer /\ t.transfer # NoKey
         /\ \A j \in Keys \ {k} : entry'[j] = entry[j]
         /\ spent'[g] = k
         /\ \A f \in Grants \ {g} : spent'[f] = spent[f]
         /\ receipts' = receipts \cup {[entry |-> k, terms |-> t, grant |-> g]}
         /\ postings' = postings \cup Legs(k, t)
         /\ evidence' = evidence \cup {[transfer |-> t.transfer, grant |-> g]}
         /\ GrantTerms[g] = t
<1> USE DEF Documented
<1>1. /\ entry[k] = NoKey /\ spent[g] = NoKey /\ GrantTerms[g] = t
      /\ entry' = [entry EXCEPT ![k] = t.transfer]
      /\ spent' = [spent EXCEPT ![g] = k]
      /\ receipts' = receipts \cup {[entry |-> k, terms |-> t, grant |-> g]}
      /\ postings' = postings \cup Legs(k, t)
      /\ evidence' = evidence \cup {[transfer |-> t.transfer, grant |-> g]}
  BY DEF CaptureTransfer, MayCapture, Authorises, FreshKey, Unspent
<1>2. \A r \in receipts : r.entry \in Keys /\ r.grant \in Grants
  BY DEF TypeOK, ReceiptRow
<1>3. \A p \in postings : p.entry \in Keys
  BY DEF TypeOK, PostingRow
<1>4. NoKey \notin Keys
  BY LedgerAssumption DEF LedgerAssumption
<1>5. \A r \in receipts : r.entry # k /\ r.grant # g
  <2> SUFFICES ASSUME NEW r \in receipts PROVE r.entry # k /\ r.grant # g
    OBVIOUS
  <2>1. entry[r.entry] # NoKey /\ spent[r.grant] = r.entry
    BY <1>2 DEF EntryIsDocumented
  <2> QED BY <1>1, <1>2, <1>4, <2>1
<1>6. \A p \in postings : p.entry # k
  BY <1>1, <1>3 DEF EntryIsDocumented
<1>7. t.transfer # NoKey
  BY CaptureTypes
<1> QED BY <1>1, <1>5, <1>6, <1>7 DEF TypeOK

LEMMA CapturePaysOnce ==
  ASSUME PaysOnce, TypeOK', NEW t \in Terms, NEW k \in Keys, NEW h \in Keys \cup {NoKey},
         NEW g \in Grants, CaptureTransfer(t, k, h, g)
  PROVE  PaysOnce'
<1> DEFINE new == [entry |-> k, terms |-> t, grant |-> g]
<1>1. Documented
  BY DEF PaysOnce
<1>2. EntryIsDocumented /\ GrantPaysOnce /\ TypeOK
  BY DEF PaysOnce, Documented
<1>3. /\ \A r \in receipts : r.entry # k /\ r.grant # g
      /\ \A p \in postings : p.entry # k
      /\ entry'[k] = t.transfer /\ t.transfer # NoKey
      /\ \A j \in Keys \ {k} : entry'[j] = entry[j]
      /\ spent'[g] = k
      /\ \A f \in Grants \ {g} : spent'[f] = spent[f]
      /\ receipts' = receipts \cup {new}
      /\ postings' = postings \cup Legs(k, t)
      /\ evidence' = evidence \cup {[transfer |-> t.transfer, grant |-> g]}
      /\ GrantTerms[g] = t
  BY <1>1, CapturePaper
<1>4. new.entry = k /\ new.terms = t /\ new.grant = g
  OBVIOUS
<1>5. \A p \in Legs(k, t) : p.entry = k
  BY <1>2, LegsType
<1>6. \A r \in receipts : r.entry \in Keys /\ r.grant \in Grants
  BY <1>2 DEF TypeOK, ReceiptRow
<1> HIDE DEF new
<1>7. GrantPaysOnce'
  BY <1>2, <1>3, <1>4 DEF GrantPaysOnce
<1>8. \A j \in Keys : entry'[j] # NoKey <=> \E r \in receipts' : r.entry = j
  BY <1>2, <1>3, <1>4 DEF EntryIsDocumented
<1>9. \A p \in postings' : entry'[p.entry] # NoKey
  <2>1. \A p \in postings : p.entry \in Keys
    BY <1>2 DEF TypeOK, PostingRow
  <2> QED BY <1>2, <1>3, <1>5, <2>1 DEF EntryIsDocumented
<1>10. ASSUME NEW r \in receipts'
       PROVE  /\ entry'[r.entry] = r.terms.transfer
              /\ {p \in postings' : p.entry = r.entry} = Legs(r.entry, r.terms)
              /\ spent'[r.grant] = r.entry
              /\ [transfer |-> r.terms.transfer, grant |-> r.grant] \in evidence'
  <2>1. CASE r = new
    <3>1. {p \in postings' : p.entry = k} = Legs(k, t)
      BY <1>3, <1>5
    <3> QED BY <1>3, <1>4, <2>1, <3>1
  <2>2. CASE r \in receipts
    <3>1. /\ entry[r.entry] = r.terms.transfer
          /\ {p \in postings : p.entry = r.entry} = Legs(r.entry, r.terms)
          /\ spent[r.grant] = r.entry
          /\ [transfer |-> r.terms.transfer, grant |-> r.grant] \in evidence
      BY <1>2, <2>2 DEF EntryIsDocumented
    <3>2. r.entry \in Keys \ {k} /\ r.grant \in Grants \ {g}
      BY <1>3, <1>6, <2>2
    <3>3. {p \in postings' : p.entry = r.entry} = {p \in postings : p.entry = r.entry}
      BY <1>3, <1>5, <3>2
    <3> QED BY <1>3, <3>1, <3>2, <3>3
  <2> QED BY <1>3, <2>1, <2>2
<1>11. EntryIsDocumented'
  BY <1>8, <1>9, <1>10 DEF EntryIsDocumented, Legs
<1> QED BY <1>7, <1>11 DEF PaysOnce, Documented

LEMMA PaysOnceIsInductive ==
  ASSUME PaysOnce, TypeOK', [Next]_vars
  PROVE  PaysOnce'
<1>1. CASE \E t \in Terms, k \in Keys, h \in Keys \cup {NoKey}, g \in Grants :
             CaptureTransfer(t, k, h, g)
  BY <1>1, CapturePaysOnce
<1>2. CASE UNCHANGED paperVars
  BY <1>2 DEF PaysOnce, Documented, EntryIsDocumented, GrantPaysOnce, paperVars
<1>3. UNCHANGED paperVars \/ \E t \in Terms, k \in Keys, h \in Keys \cup {NoKey}, g \in Grants :
             CaptureTransfer(t, k, h, g)
  BY DEF Next, PlaceHold, ReleaseHold, FreezeBy, Unfreeze, UnfreezeBy, Expire, vars
<1> QED BY <1>1, <1>2, <1>3

LEMMA AlwaysPaysOnce == Spec => []PaysOnce
<1>1. PaysOnce /\ TypeOK' /\ [Next]_vars => PaysOnce'
  BY PaysOnceIsInductive
<1> QED BY <1>1, InitPaysOnce, LedgerTypeOK, PTL DEF Spec

\* A grant pays at most once and only for its own transfer, however many keys its
\* presenter tries and however the transactions interleave.
THEOREM LedgerGrantPaysOnce == Spec => []GrantPaysOnce
<1>1. PaysOnce => GrantPaysOnce
  BY DEF PaysOnce
<1> QED BY <1>1, AlwaysPaysOnce, PTL

\* Every journal entry has exactly the postings of one receipt, a spent grant and
\* its evidence, and there is no posting or receipt without an entry.
THEOREM LedgerEntryIsDocumented == Spec => []EntryIsDocumented
<1>1. PaysOnce => EntryIsDocumented
  BY DEF PaysOnce, Documented
<1> QED BY <1>1, AlwaysPaysOnce, PTL

-----------------------------------------------------------------------------
(***************************************************************************)
(* Balances are the sum of the postings.  The rows of a capture are new,   *)
(* so each direction of each account grows by the units of its new rows.   *)
(***************************************************************************)

Balanced == IsFiniteSet(postings) /\ BalanceIsPostings

LEMMA PostedUnitsFinite ==
  ASSUME IsFiniteSet(postings), NEW a, NEW dir
  PROVE  IsFiniteSet(PostedUnits(a, dir)) /\ Cardinality(PostedUnits(a, dir)) \in Nat
<1>1. IsFiniteSet(1..MaxMinor)
  BY LedgerAssumption, FS_Interval DEF LedgerAssumption
<1>2. IsFiniteSet(postings \X (1..MaxMinor))
  BY <1>1, FS_Product
<1>3. PostedUnits(a, dir) \subseteq postings \X (1..MaxMinor)
  BY DEF PostedUnits
<1>4. IsFiniteSet(PostedUnits(a, dir))
  BY <1>2, <1>3, FS_Subset
<1> QED BY <1>4, FS_CardinalityType

\* One direction of one account after a capture: row p is the principal's leg in
\* that direction, q the fee's, and no older row has this entry's key.
LEMMA PostedAfter ==
  ASSUME IsFiniteSet(postings), NEW a, NEW dir, NEW k, NEW fee \in BOOLEAN,
         \A r \in postings : r.entry # k,
         NEW p, p.entry = k, p.leg = "principal", p.direction = dir, p.amount \in 1..MaxMinor,
         NEW q, q.entry = k, q.leg = "fee", q.direction = dir,
         fee => q.amount \in 1..MaxMinor, ~fee => q.amount = 0,
         \A r \in postings' : r \in postings \/ r = p \/ (fee /\ r = q) \/ r.direction # dir,
         postings \cup {p} \subseteq postings', fee => q \in postings'
  PROVE  Cardinality(PostedUnits(a, dir)') =
           Cardinality(PostedUnits(a, dir)) + ((IF p.account = a THEN p.amount ELSE 0)
                                               + (IF q.account = a THEN q.amount ELSE 0))
<1> DEFINE S0 == PostedUnits(a, dir)
           S1 == S0 \cup (IF p.account = a THEN {p} \X (1..p.amount) ELSE {})
           S2 == S1 \cup (IF q.account = a THEN {q} \X (1..q.amount) ELSE {})
<1>1. MaxMinor \in Nat /\ p.amount \in Nat /\ q.amount \in Nat
  BY LedgerAssumption DEF LedgerAssumption
<1>2. \A u \in S0 : u[1] # p /\ u[1] # q
  BY DEF PostedUnits
<1>3. p # q
  OBVIOUS
<1>4. IsFiniteSet(S0) /\ Cardinality(S0) \in Nat
  BY PostedUnitsFinite
<1>5. IsFiniteSet(S1) /\ Cardinality(S1) = Cardinality(S0) + (IF p.account = a THEN p.amount ELSE 0)
  <2>1. CASE p.account = a
    <3>1. S1 = S0 \cup ({p} \X (1..p.amount))
      BY <2>1
    <3>2. \A u \in S0 : u[1] # p
      BY <1>2
    <3> HIDE DEF S0, S1
    <3> QED BY <1>1, <1>4, <2>1, <3>1, <3>2, AddUnits
  <2>2. CASE p.account # a
    BY <1>4, <2>2
  <2> QED BY <2>1, <2>2
<1>6. \A u \in S1 : u[1] # q
  BY <1>2, <1>3
<1>7. Cardinality(S2) = Cardinality(S1) + (IF q.account = a THEN q.amount ELSE 0)
  <2>1. CASE q.account = a
    <3>1. S2 = S1 \cup ({q} \X (1..q.amount))
      BY <2>1
    <3>2. IsFiniteSet(S1) /\ \A u \in S1 : u[1] # q
      BY <1>5, <1>6
    <3>3. Cardinality(S1 \cup ({q} \X (1..q.amount))) = Cardinality(S1) + q.amount
      <4> HIDE DEF S1
      <4> QED BY <1>1, <3>2, AddUnits
    <3> QED BY <2>1, <3>1, <3>3
  <2>2. CASE q.account # a
    BY <1>1, <1>4, <1>5, <2>2
  <2> QED BY <2>1, <2>2
<1>8. PostedUnits(a, dir)' = S2
  <2>1. S2 \subseteq PostedUnits(a, dir)'
    BY <1>1 DEF PostedUnits
  <2>2. PostedUnits(a, dir)' \subseteq S2
    BY <1>1 DEF PostedUnits
  <2> QED BY <2>1, <2>2
<1> QED BY <1>1, <1>4, <1>5, <1>7, <1>8

LEMMA PairIsFinite ==
  ASSUME NEW x, NEW y
  PROVE  IsFiniteSet({x, y})
<1>1. IsFiniteSet({x}) /\ IsFiniteSet({y}) /\ {x, y} = {x} \cup {y}
  BY FS_Singleton
<1> QED BY <1>1, FS_Union

LEMMA CaptureBalanced ==
  ASSUME Balanced, TypeOK, EntryIsDocumented, NEW t \in Terms, NEW k \in Keys,
         NEW h \in Keys \cup {NoKey}, NEW g \in Grants, CaptureTransfer(t, k, h, g)
  PROVE  Balanced'
<1> DEFINE Row(leg, a, dir, n) == [entry |-> k, leg |-> leg, account |-> a,
                                   direction |-> dir, amount |-> n]
           fee == t.fee # 0
           pd == Row("principal", t.from, "debit", t.amount)
           pc == Row("principal", t.to, "credit", t.amount)
           fd == Row("fee", t.from, "debit", t.fee)
           fc == Row("fee", FeeAccount[t.ccy], "credit", t.fee)
<1>1. /\ t.amount \in 1..MaxMinor /\ t.fee \in 0..MaxMinor /\ MaxMinor \in Nat
      /\ t.from # t.to
  BY CaptureTypes, LedgerAssumption DEF LedgerAssumption
<1>2. /\ \A r \in postings : r.entry # k
      /\ postings' = postings \cup Legs(k, t)
  BY CapturePaper DEF Documented
<1>3. Legs(k, t) = {pd, pc} \cup (IF fee THEN {fd, fc} ELSE {})
  BY DEF Legs
<1>4. IsFiniteSet(postings')
  <2>1. IsFiniteSet({pd, pc}) /\ IsFiniteSet({fd, fc}) /\ IsFiniteSet({})
    <3> HIDE DEF pd, pc, fd, fc
    <3> QED BY PairIsFinite, FS_EmptySet
  <2>2. IsFiniteSet(Legs(k, t))
    <3> HIDE DEF pd, pc, fd, fc
    <3>1. CASE fee
      BY <1>3, <2>1, <3>1, FS_Union
    <3>2. CASE ~fee
      BY <1>3, <2>1, <3>2, FS_Union
    <3> QED BY <3>1, <3>2
  <2> QED BY <1>2, <2>2, FS_Union DEF Balanced
<1>5. BalanceIsPostings'
  <2> SUFFICES ASSUME NEW a \in Accounts
               PROVE  balance'[a] = Opening[a] + Cardinality(PostedUnits(a, "credit")')
                                             - Cardinality(PostedUnits(a, "debit")')
    BY DEF BalanceIsPostings
  <2> DEFINE credit == (IF t.to = a THEN t.amount ELSE 0)
                       + (IF FeeAccount[t.ccy] = a THEN t.fee ELSE 0)
             debit  == (IF t.from = a THEN t.amount ELSE 0)
                       + (IF t.from = a THEN t.fee ELSE 0)
  <2>1. Cardinality(PostedUnits(a, "credit")') = Cardinality(PostedUnits(a, "credit")) + credit
    <3>1. \A r \in postings' : r \in postings \/ r = pc \/ (fee /\ r = fc) \/ r.direction # "credit"
      BY <1>2, <1>3
    <3>2. postings \cup {pc} \subseteq postings' /\ (fee => fc \in postings')
      BY <1>2, <1>3
    <3>3. /\ pc.entry = k /\ pc.leg = "principal" /\ pc.direction = "credit"
          /\ pc.amount = t.amount /\ pc.account = t.to
          /\ fc.entry = k /\ fc.leg = "fee" /\ fc.direction = "credit"
          /\ fc.amount = t.fee /\ fc.account = FeeAccount[t.ccy]
      OBVIOUS
    <3>4. IsFiniteSet(postings) /\ fee \in BOOLEAN
      BY DEF Balanced
    <3>5. (fee => t.fee \in 1..MaxMinor) /\ (~fee => t.fee = 0)
      BY <1>1
    <3>6. Cardinality(PostedUnits(a, "credit")') =
            Cardinality(PostedUnits(a, "credit")) + ((IF pc.account = a THEN pc.amount ELSE 0)
                                                     + (IF fc.account = a THEN fc.amount ELSE 0))
      <4>1. pc.amount \in 1..MaxMinor
        BY <1>1, <3>3
      <4>2. (fee => fc.amount \in 1..MaxMinor) /\ (~fee => fc.amount = 0)
        BY <3>3, <3>5
      <4>3. /\ pc.entry = k /\ pc.leg = "principal" /\ pc.direction = "credit"
            /\ fc.entry = k /\ fc.leg = "fee" /\ fc.direction = "credit"
        BY <3>3
      <4>4. \A r \in postings : r.entry # k
        BY <1>2
      <4> HIDE DEF Row, pc, fc, pd, fd, fee, credit, debit
      <4> QED BY <3>1, <3>2, <3>4, <4>1, <4>2, <4>3, <4>4, PostedAfter
    <3> QED BY <3>3, <3>6
  <2>2. Cardinality(PostedUnits(a, "debit")') = Cardinality(PostedUnits(a, "debit")) + debit
    <3>1. \A r \in postings' : r \in postings \/ r = pd \/ (fee /\ r = fd) \/ r.direction # "debit"
      BY <1>2, <1>3
    <3>2. postings \cup {pd} \subseteq postings' /\ (fee => fd \in postings')
      BY <1>2, <1>3
    <3>3. /\ pd.entry = k /\ pd.leg = "principal" /\ pd.direction = "debit"
          /\ pd.amount = t.amount /\ pd.account = t.from
          /\ fd.entry = k /\ fd.leg = "fee" /\ fd.direction = "debit"
          /\ fd.amount = t.fee /\ fd.account = t.from
      OBVIOUS
    <3>4. IsFiniteSet(postings) /\ fee \in BOOLEAN
      BY DEF Balanced
    <3>5. (fee => t.fee \in 1..MaxMinor) /\ (~fee => t.fee = 0)
      BY <1>1
    <3>6. Cardinality(PostedUnits(a, "debit")') =
            Cardinality(PostedUnits(a, "debit")) + ((IF pd.account = a THEN pd.amount ELSE 0)
                                                    + (IF fd.account = a THEN fd.amount ELSE 0))
      <4>1. pd.amount \in 1..MaxMinor
        BY <1>1, <3>3
      <4>2. (fee => fd.amount \in 1..MaxMinor) /\ (~fee => fd.amount = 0)
        BY <3>3, <3>5
      <4>3. /\ pd.entry = k /\ pd.leg = "principal" /\ pd.direction = "debit"
            /\ fd.entry = k /\ fd.leg = "fee" /\ fd.direction = "debit"
        BY <3>3
      <4>4. \A r \in postings : r.entry # k
        BY <1>2
      <4> HIDE DEF Row, pc, fc, pd, fd, fee, credit, debit
      <4> QED BY <3>1, <3>2, <3>4, <4>1, <4>2, <4>3, <4>4, PostedAfter
    <3> QED BY <3>3, <3>6
  <2>3. Delta(t, a) = credit - debit
    BY <1>1 DEF Delta
  <2>4. balance'[a] = balance[a] + Delta(t, a)
    BY DEF CaptureTransfer
  <2>5. balance[a] = Opening[a] + Cardinality(PostedUnits(a, "credit"))
                               - Cardinality(PostedUnits(a, "debit"))
    BY DEF Balanced, BalanceIsPostings
  <2>6. /\ Cardinality(PostedUnits(a, "credit")) \in Nat
        /\ Cardinality(PostedUnits(a, "debit")) \in Nat
    BY PostedUnitsFinite DEF Balanced
  <2>7. Opening[a] \in Int /\ credit \in Int /\ debit \in Int
    BY <1>1, LedgerAssumption DEF LedgerAssumption
  <2> HIDE DEF credit, debit
  <2> QED BY <2>1, <2>2, <2>3, <2>4, <2>5, <2>6, <2>7
<1> QED BY <1>4, <1>5 DEF Balanced

LEMMA InitBalanced == Init => Balanced
<1> SUFFICES ASSUME Init PROVE Balanced
  OBVIOUS
<1>1. IsFiniteSet(postings)
  BY FS_EmptySet DEF Init
<1>2. \A a \in Accounts, dir \in {"credit", "debit"} : PostedUnits(a, dir) = {}
  BY DEF Init, PostedUnits
<1>3. Cardinality({}) = 0
  BY FS_EmptySet
<1>4. \A a \in Accounts : balance[a] = Opening[a] /\ Opening[a] \in Int
  BY LedgerAssumption DEF Init, LedgerAssumption
<1>5. BalanceIsPostings
  BY <1>2, <1>3, <1>4 DEF BalanceIsPostings
<1> QED BY <1>1, <1>5 DEF Balanced

LEMMA BalancedIsInductive ==
  ASSUME Balanced, TypeOK, EntryIsDocumented, [Next]_vars
  PROVE  Balanced'
<1>1. CASE \E t \in Terms, k \in Keys, h \in Keys \cup {NoKey}, g \in Grants :
             CaptureTransfer(t, k, h, g)
  BY <1>1, CaptureBalanced
<1>2. CASE UNCHANGED <<balance, postings>>
  BY <1>2 DEF Balanced, BalanceIsPostings, PostedUnits
<1>3. \/ UNCHANGED <<balance, postings>>
      \/ \E t \in Terms, k \in Keys, h \in Keys \cup {NoKey}, g \in Grants :
             CaptureTransfer(t, k, h, g)
  BY DEF Next, PlaceHold, ReleaseHold, FreezeBy, Unfreeze, UnfreezeBy, Expire, vars,
         paperVars, moneyVars
<1> QED BY <1>1, <1>2, <1>3

\* Every account's balance is its opening balance plus what its postings credit
\* less what they debit, so account_balances can be rebuilt from the postings.
THEOREM LedgerBalanceIsPostings == Spec => []BalanceIsPostings
<1>1. Balanced /\ TypeOK /\ EntryIsDocumented /\ [Next]_vars => Balanced'
  BY BalancedIsInductive
<1>2. Balanced => BalanceIsPostings
  BY DEF Balanced
<1> QED BY <1>1, <1>2, InitBalanced, LedgerTypeOK, LedgerEntryIsDocumented, PTL DEF Spec

-----------------------------------------------------------------------------
(* What a step may never do *)

LEMMA StepSettlesOnce ==
  ASSUME TypeOK, [Next]_vars, NEW k \in Keys, hold[k] # NoHold
  PROVE  /\ hold[k].status # "open" => hold'[k] = hold[k]
         /\ hold'[k].account = hold[k].account
         /\ hold'[k].amount = hold[k].amount
<1>1. hold[k] \in HoldRecord
  BY DEF TypeOK
<1>2. CASE UNCHANGED hold
  BY <1>2
<1>3. ASSUME NEW j \in Keys, hold[j] = NoHold, \E new : hold' = [hold EXCEPT ![j] = new]
      PROVE  hold'[k] = hold[k]
  BY <1>3 DEF TypeOK
<1>4. ASSUME NEW j \in Keys, hold[j].status = "open", NEW s,
             hold' = [hold EXCEPT ![j].status = s]
      PROVE  /\ hold[k].status # "open" => hold'[k] = hold[k]
             /\ hold'[k].account = hold[k].account
             /\ hold'[k].amount = hold[k].amount
  BY <1>1, <1>4 DEF TypeOK, HoldRecord
<1>5. CASE \E r \in HoldTerms, j \in Keys : PlaceHold(r, j)
  BY <1>3, <1>5 DEF PlaceHold, MayPlaceHold
<1>6. CASE \E j \in Keys : ReleaseHold(j)
  BY <1>4, <1>6 DEF ReleaseHold
<1>7. CASE \E t \in Terms, j \in Keys, h \in Keys \cup {NoKey}, g \in Grants :
             CaptureTransfer(t, j, h, g)
  BY <1>2, <1>4, <1>7 DEF CaptureTransfer, SettleHold
<1> QED BY <1>2, <1>5, <1>6, <1>7
        DEF Next, FreezeBy, Unfreeze, UnfreezeBy, Expire, vars, moneyVars

\* A settled hold stays settled, and a hold never changes its account or amount.
THEOREM LedgerHoldSettlesOnce == Spec => HoldSettlesOnce
<1>1. TypeOK /\ [Next]_vars =>
        [\A k \in Keys : hold[k] # NoHold =>
           /\ hold[k].status # "open" => hold'[k] = hold[k]
           /\ hold'[k].account = hold[k].account
           /\ hold'[k].amount = hold[k].amount]_vars
  BY StepSettlesOnce
<1> QED BY <1>1, LedgerTypeOK, PTL DEF Spec, HoldSettlesOnce

LEMMA StepPaysNothing ==
  ASSUME Reserved, [Next]_vars, NEW a \in Accounts, status[a] = "frozen"
  PROVE  balance'[a] >= balance[a] /\ held'[a] <= held[a]
<1>1. balance[a] \in Int /\ held[a] \in Int
  BY LedgerAssumption DEF Reserved, TypeOK, LedgerAssumption
<1>2. CASE UNCHANGED <<balance, held>>
  BY <1>1, <1>2
<1>3. ASSUME NEW r \in HoldTerms, NEW k \in Keys, PlaceHold(r, k)
      PROVE  UNCHANGED balance /\ held'[a] = held[a]
  BY <1>3 DEF PlaceHold, MayPlaceHold, NotFrozen, Reserved, TypeOK
<1>4. ASSUME NEW k \in Keys, ReleaseHold(k)
      PROVE  UNCHANGED balance /\ held'[a] <= held[a]
  <2>1. hold[k].account \in Accounts /\ hold[k].amount \in Nat
    BY <1>4, OpenHoldIsCounted, LedgerAssumption
    DEF ReleaseHold, Reserved, HoldRecord, LedgerAssumption
  <2>2. held' = [held EXCEPT ![hold[k].account] = @ - hold[k].amount] /\ UNCHANGED balance
    BY <1>4 DEF ReleaseHold
  <2> QED BY <1>1, <2>1, <2>2 DEF Reserved, TypeOK
<1>5. ASSUME NEW t \in Terms, NEW k \in Keys, NEW h \in Keys \cup {NoKey},
             NEW g \in Grants, CaptureTransfer(t, k, h, g)
      PROVE  balance'[a] >= balance[a] /\ held'[a] = held[a]
  <2>1. a # t.from
    BY <1>5 DEF CaptureTransfer, MayCapture, NotFrozen
  <2>2. balance'[a] = balance[a] + Delta(t, a)
    BY <1>5 DEF CaptureTransfer
  <2>3. Delta(t, a) \in Int /\ Delta(t, a) >= 0
    BY <1>5, <2>1, DeltaType DEF Reserved
  <2>4. held'[a] = held[a]
    BY <1>5, <2>1, CaptureHolds DEF Reserved
  <2> QED BY <1>1, <2>2, <2>3, <2>4
<1>6. CASE \E r \in HoldTerms, k \in Keys : PlaceHold(r, k)
  BY <1>1, <1>3, <1>6
<1>7. CASE \E k \in Keys : ReleaseHold(k)
  BY <1>1, <1>4, <1>7
<1>8. CASE \E t \in Terms, k \in Keys, h \in Keys \cup {NoKey}, g \in Grants :
             CaptureTransfer(t, k, h, g)
  BY <1>1, <1>5, <1>8
<1> QED BY <1>2, <1>6, <1>7, <1>8
        DEF Next, FreezeBy, Unfreeze, UnfreezeBy, Expire, vars, moneyVars

\* Nothing leaves a frozen account and nothing more is reserved on it.
THEOREM LedgerFrozenPaysNothing == Spec => FrozenPaysNothing
<1>1. Reserved /\ [Next]_vars =>
        [\A a \in Accounts :
           status[a] = "frozen" => balance'[a] >= balance[a] /\ held'[a] <= held[a]]_vars
  BY StepPaysNothing
<1> QED BY <1>1, AlwaysReserved, PTL DEF Spec, FrozenPaysNothing

LEMMA StepPaysFromHold ==
  ASSUME TypeOK, [Next]_vars, NEW k \in Keys,
         hold[k].status = "open", hold'[k].status = "captured"
  PROVE  balance'[hold[k].account] < balance[hold[k].account]
<1>1. hold' # hold
  OBVIOUS
<1>2. ASSUME NEW r \in HoldTerms, NEW j \in Keys, PlaceHold(r, j)
      PROVE  FALSE
  <2>1. hold[j] = NoHold /\ j # k
    BY <1>2 DEF PlaceHold, MayPlaceHold, NoHold
  <2> QED BY <1>2, <2>1 DEF PlaceHold, TypeOK
<1>3. ASSUME NEW j \in Keys, ReleaseHold(j)
      PROVE  FALSE
  <2>1. hold[k] \in HoldRecord
    BY DEF TypeOK, NoHold
  <2> QED BY <1>3, <2>1 DEF ReleaseHold, TypeOK, HoldRecord
<1>4. ASSUME NEW t \in Terms, NEW j \in Keys, NEW h \in Keys \cup {NoKey},
             NEW g \in Grants, CaptureTransfer(t, j, h, g)
      PROVE  balance'[hold[k].account] < balance[hold[k].account]
  <2>1. h \in Keys /\ hold' = [hold EXCEPT ![h].status = "captured"]
    BY <1>1, <1>4 DEF CaptureTransfer, SettleHold
  <2>2. h = k
    BY <2>1 DEF TypeOK
  <2>3. hold[k].account = t.from
    BY <1>4, <2>1, <2>2, LedgerAssumption
    DEF CaptureTransfer, MayCapture, HoldIsPayers, LedgerAssumption
  <2>4. /\ t.from \in Accounts /\ t.to # t.from
        /\ t.amount \in Int /\ t.fee \in Int /\ t.amount > 0
        /\ balance[t.from] \in Int
    BY <1>4, CaptureTypes, LedgerAssumption
    DEF CaptureTransfer, MayCapture, ValidTransfer, TypeOK, LedgerAssumption, TransferTerms
  <2>5. Delta(t, t.from) < 0
    <3>1. Delta(t, t.from) = (0 - (t.amount + t.fee))
                               + (IF t.fee > 0 /\ t.from = FeeAccount[t.ccy] THEN t.fee ELSE 0)
      BY <2>4 DEF Delta
    <3>2. CASE t.fee > 0 /\ t.from = FeeAccount[t.ccy]
      BY <2>4, <3>1, <3>2
    <3>3. CASE ~(t.fee > 0 /\ t.from = FeeAccount[t.ccy])
      BY <1>4, <2>4, <3>1, <3>3 DEF CaptureTransfer, MayCapture, ValidTransfer
    <3> QED BY <3>2, <3>3
  <2>6. balance'[t.from] = balance[t.from] + Delta(t, t.from)
    BY <1>4, <2>4 DEF CaptureTransfer
  <2>7. Delta(t, t.from) \in Int
    BY <2>4 DEF Delta
  <2> QED BY <2>3, <2>4, <2>5, <2>6, <2>7
<1>5. CASE \E r \in HoldTerms, j \in Keys : PlaceHold(r, j)
  BY <1>2, <1>5
<1>6. CASE \E j \in Keys : ReleaseHold(j)
  BY <1>3, <1>6
<1>7. CASE \E t \in Terms, j \in Keys, h \in Keys \cup {NoKey}, g \in Grants :
             CaptureTransfer(t, j, h, g)
  BY <1>4, <1>7
<1> QED BY <1>1, <1>5, <1>6, <1>7
        DEF Next, FreezeBy, Unfreeze, UnfreezeBy, Expire, vars, moneyVars

\* A hold is captured only by a payment out of its own account (M3).
THEOREM LedgerCapturedHoldPays == Spec => CapturedHoldPays
<1>1. TypeOK /\ [Next]_vars =>
        [\A k \in Keys :
           hold[k].status = "open" /\ hold'[k].status = "captured"
             => balance'[hold[k].account] < balance[hold[k].account]]_vars
  BY StepPaysFromHold
<1> QED BY <1>1, LedgerTypeOK, PTL DEF Spec, CapturedHoldPays

-----------------------------------------------------------------------------
(* Money: a payment moves units from one account to another *)

LEMMA UnitsOfFinite ==
  ASSUME NEW c, NEW f
  PROVE  IsFiniteSet(UnitsOf(c, f))
<1>1. -MaxMinor \in Int /\ MaxMinor \in Int /\ IsFiniteSet(Accounts)
  BY LedgerAssumption DEF LedgerAssumption
<1>2. IsFiniteSet(-MaxMinor..MaxMinor)
  BY <1>1, FS_Interval
<1>3. IsFiniteSet(Accounts \X (-MaxMinor..MaxMinor))
  BY <1>1, <1>2, FS_Product
<1>4. UnitsOf(c, f) \subseteq Accounts \X (-MaxMinor..MaxMinor)
  BY DEF UnitsOf
<1> QED BY <1>3, <1>4, FS_Subset

\* n units of one account, from its unit b upwards.
UnitsAt(x, b, n) == {x} \X (b..(b + n - 1))

LEMMA UnitsAtCount ==
  ASSUME NEW x, NEW b \in Int, NEW n \in Nat
  PROVE  IsFiniteSet(UnitsAt(x, b, n)) /\ Cardinality(UnitsAt(x, b, n)) = n
<1>1. IsFiniteSet({x}) /\ Cardinality({x}) = 1
  BY FS_Singleton
<1>2. IsFiniteSet(b..(b + n - 1)) /\ Cardinality(b..(b + n - 1)) = n
  BY FS_Interval
<1>3. /\ IsFiniteSet({x} \X (b..(b + n - 1)))
      /\ Cardinality({x} \X (b..(b + n - 1))) = Cardinality({x}) * Cardinality(b..(b + n - 1))
  BY <1>1, <1>2, FS_Product
<1> QED BY <1>1, <1>2, <1>3 DEF UnitsAt

\* Taking n units off one account and adding as many to another of its currency
\* leaves the number of units in every currency as it was.
LEMMA MovingUnits ==
  ASSUME NEW c, NEW f \in [Accounts -> -MaxMinor..MaxMinor],
         NEW x \in Accounts, NEW y \in Accounts, x # y, CurrencyOf[x] = CurrencyOf[y],
         NEW n \in Nat, f[x] - n >= -MaxMinor, f[y] + n <= MaxMinor,
         NEW g \in [Accounts -> Int], g[x] = f[x] - n, g[y] = f[y] + n,
         \A a \in Accounts : a \notin {x, y} => g[a] = f[a]
  PROVE  /\ g \in [Accounts -> -MaxMinor..MaxMinor]
         /\ Cardinality(UnitsOf(c, g)) = Cardinality(UnitsOf(c, f))
<1> USE LedgerAssumption DEF LedgerAssumption
<1>1. /\ f[x] \in -MaxMinor..MaxMinor /\ f[y] \in -MaxMinor..MaxMinor
      /\ f[x] \in Int /\ f[y] \in Int /\ f[x] - n \in Int
  OBVIOUS
<1>2. g \in [Accounts -> -MaxMinor..MaxMinor]
  BY <1>1
<1>3. CASE CurrencyOf[x] # c
  <2>1. \A a \in Accounts : CurrencyOf[a] = c => g[a] = f[a]
    BY <1>1, <1>3
  <2>2. UnitsOf(c, g) = UnitsOf(c, f)
    BY <2>1 DEF UnitsOf
  <2> QED BY <1>2, <2>2
<1>4. CASE CurrencyOf[x] = c
  <2> DEFINE S == UnitsOf(c, f)
             X == UnitsAt(x, f[x] - n, n)
             Y == UnitsAt(y, f[y], n)
  <2>1. \A u \in X : u[1] = x /\ u[2] \in Int /\ f[x] - n <= u[2] /\ u[2] < f[x]
    BY <1>1 DEF UnitsAt
  <2>2. X \subseteq S
    BY <1>1, <1>4 DEF UnitsOf, UnitsAt
  <2>3. Y \cap (S \ X) = {}
    BY <1>1 DEF UnitsOf, UnitsAt
  <2>4. UnitsOf(c, g) = (S \ X) \cup Y
    <3>1. ASSUME NEW u \in Accounts \X (-MaxMinor..MaxMinor)
          PROVE  u \in UnitsOf(c, g) <=> u \in (S \ X) \cup Y
      <4>1. u \in X <=> u[1] = x /\ f[x] - n <= u[2] /\ u[2] < f[x]
        BY <1>1, <3>1 DEF UnitsAt
      <4>2. u \in Y <=> u[1] = y /\ f[y] <= u[2] /\ u[2] < f[y] + n
        BY <1>1, <3>1 DEF UnitsAt
      <4>3. u \in S <=> CurrencyOf[u[1]] = c /\ u[2] < f[u[1]]
        BY <3>1 DEF UnitsOf
      <4>4. u \in UnitsOf(c, g) <=> CurrencyOf[u[1]] = c /\ u[2] < g[u[1]]
        BY <3>1 DEF UnitsOf
      <4>5. u[1] \in Accounts /\ u[2] \in Int
        BY <3>1
      <4> HIDE DEF S, X, Y
      <4>6. CASE u[1] = x
        BY <1>1, <1>4, <4>1, <4>2, <4>3, <4>4, <4>5, <4>6
      <4>7. CASE u[1] = y
        <5>1. f[u[1]] = f[y] /\ g[u[1]] = f[y] + n /\ u[1] # x /\ CurrencyOf[u[1]] = c
          BY <1>4, <4>7
        <5> QED BY <1>1, <4>1, <4>2, <4>3, <4>4, <4>5, <4>7, <5>1
      <4>8. CASE u[1] \notin {x, y}
        BY <1>1, <4>1, <4>2, <4>3, <4>4, <4>5, <4>8
      <4> QED BY <4>6, <4>7, <4>8
    <3>2. UnitsOf(c, g) \subseteq Accounts \X (-MaxMinor..MaxMinor) /\ S \subseteq Accounts \X (-MaxMinor..MaxMinor)
      BY DEF UnitsOf
    <3>3. Y \subseteq Accounts \X (-MaxMinor..MaxMinor)
      BY <1>1 DEF UnitsAt
    <3> QED BY <3>1, <3>2, <3>3
  <2>5. /\ IsFiniteSet(S) /\ Cardinality(S) \in Nat
        /\ IsFiniteSet(X) /\ Cardinality(X) = n
        /\ IsFiniteSet(Y) /\ Cardinality(Y) = n
    <3>1. IsFiniteSet(X) /\ Cardinality(X) = n
      BY <1>1, UnitsAtCount
    <3>2. IsFiniteSet(Y) /\ Cardinality(Y) = n
      BY <1>1, UnitsAtCount
    <3>3. IsFiniteSet(S)
      BY UnitsOfFinite
    <3> HIDE DEF S, X, Y
    <3> QED BY <3>1, <3>2, <3>3, FS_CardinalityType
  <2> HIDE DEF S, X, Y
  <2>6. /\ IsFiniteSet(S \ X)
        /\ Cardinality(S \ X) = Cardinality(S) - n
    <3>1. S \cap X = X
      BY <2>2
    <3>2. IsFiniteSet(S \ X) /\ Cardinality(S \ X) = Cardinality(S) - Cardinality(S \cap X)
      BY <2>5, FS_Difference
    <3> QED BY <2>5, <3>1, <3>2
  <2>7. Cardinality((S \ X) \cup Y) = Cardinality(S \ X) + Cardinality(Y) - Cardinality((S \ X) \cap Y)
    BY <2>5, <2>6, FS_Union
  <2>8. Cardinality((S \ X) \cap Y) = 0
    BY <2>3, FS_EmptySet
  <2>9. Cardinality((S \ X) \cup Y) = Cardinality(S)
    BY <2>5, <2>6, <2>7, <2>8
  <2> QED BY <1>2, <2>4, <2>9 DEF S
<1> QED BY <1>3, <1>4

\* A capture moves its amount to the payee, then its fee to the fee account, which may
\* be the payer or the payee.
LEMMA CaptureConserves ==
  ASSUME Reserved, NEW t \in Terms, NEW k \in Keys, NEW h \in Keys \cup {NoKey},
         NEW g \in Grants, CaptureTransfer(t, k, h, g), NEW c
  PROVE  Cardinality(UnitsOf(c, balance')) = Cardinality(UnitsOf(c, balance))
<1>1. /\ t.from \in Accounts /\ t.to \in Accounts /\ t.from # t.to
      /\ t.amount \in Nat /\ t.fee \in Nat
      /\ t.fee > 0 => FeeAccount[t.ccy] \in Accounts
  BY CaptureTypes, LedgerAssumption DEF LedgerAssumption, Reserved
<1>2. /\ CurrencyOf[t.from] = t.ccy /\ CurrencyOf[t.to] = t.ccy
      /\ t.fee > 0 => CurrencyOf[FeeAccount[t.ccy]] = t.ccy
  BY LedgerAssumption DEF CaptureTransfer, MayCapture, SameCurrency, LedgerAssumption
<1>3. /\ balance \in [Accounts -> -MaxMinor..MaxMinor]
      /\ balance' = [a \in Accounts |-> balance[a] + Delta(t, a)]
      /\ \A a \in Accounts : balance[a] + Delta(t, a) <= MaxMinor
      /\ MaxMinor \in Nat
  BY LedgerAssumption DEF CaptureTransfer, MayCapture, Reserved, TypeOK, LedgerAssumption
<1>4. balance[t.from] >= t.amount + t.fee
  <2>1. held'[t.from] \in Nat /\ held'[t.from] = held[t.from] - FreedByCapture(h) /\ FreedByCapture(h) \in Nat
    BY <1>1, CaptureHolds DEF Reserved
  <2>2. balance[t.from] - held[t.from] + FreedByCapture(h) >= t.amount + t.fee
    BY DEF CaptureTransfer, MayCapture, Available
  <2>3. balance[t.from] \in Int /\ held[t.from] \in Int
    BY <1>1, <1>3 DEF Reserved, TypeOK
  <2> QED BY <1>1, <2>1, <2>2, <2>3
<1> DEFINE F == FeeAccount[t.ccy]
<1>5. ASSUME NEW a \in Accounts
      PROVE  /\ Delta(t, a) \in Int /\ balance[a] \in Int
             /\ balance'[a] = balance[a] + Delta(t, a) /\ balance'[a] <= MaxMinor
  <2>1. Delta(t, a) \in Int
    BY DeltaType DEF Reserved
  <2>2. -MaxMinor..MaxMinor \subseteq Int
    BY <1>3
  <2> QED BY <1>3, <2>1, <2>2
<1>6. balance' \in [Accounts -> Int]
  BY <1>3, <1>5
<1>7. Delta(t, t.to) >= t.amount
  BY <1>1 DEF Delta
<1>8. CASE t.fee = 0 \/ F = t.from
  <2>1. balance'[t.from] = balance[t.from] - t.amount /\ balance'[t.to] = balance[t.to] + t.amount
    BY <1>1, <1>5, <1>8 DEF Delta
  <2>2. ASSUME NEW a \in Accounts, a \notin {t.from, t.to} PROVE balance'[a] = balance[a]
    BY <1>1, <1>5, <1>8, <2>2 DEF Delta
  <2>3. balance[t.from] - t.amount >= -MaxMinor /\ balance[t.to] + t.amount <= MaxMinor
    BY <1>1, <1>3, <1>4, <1>5, <2>1
  <2> QED BY <1>1, <1>2, <1>3, <1>6, <2>1, <2>2, <2>3, MovingUnits
<1>9. CASE t.fee > 0 /\ F # t.from
  <2> DEFINE f == [a \in Accounts |-> IF a = t.from THEN balance[a] - t.amount
                                      ELSE IF a = t.to THEN balance[a] + t.amount ELSE balance[a]]
  <2>1. /\ f \in [Accounts -> Int]
        /\ f[t.from] = balance[t.from] - t.amount /\ f[t.to] = balance[t.to] + t.amount
        /\ \A a \in Accounts : a \notin {t.from, t.to} => f[a] = balance[a]
    BY <1>1, <1>5
  <2> HIDE DEF f
  <2>2. balance[t.from] - t.amount >= -MaxMinor /\ balance[t.to] + t.amount <= MaxMinor
    BY <1>1, <1>3, <1>4, <1>5, <1>7
  <2>3. /\ f \in [Accounts -> -MaxMinor..MaxMinor]
        /\ Cardinality(UnitsOf(c, f)) = Cardinality(UnitsOf(c, balance))
    BY <1>1, <1>2, <1>3, <2>1, <2>2, MovingUnits
  <2>4. F \in Accounts /\ f[F] \in Int /\ f[t.from] \in Int
    BY <1>1, <1>9, <2>1
  <2>5. ASSUME NEW a \in Accounts
        PROVE  /\ a = t.from => balance'[a] = f[a] - t.fee
               /\ a = F => balance'[a] = f[a] + t.fee
               /\ a \notin {t.from, F} => balance'[a] = f[a]
    <3>1. CASE a = t.from
      BY <1>1, <1>5, <1>9, <2>1, <3>1 DEF Delta
    <3>2. CASE a = t.to
      BY <1>1, <1>5, <1>9, <2>1, <3>2 DEF Delta
    <3>3. CASE a \notin {t.from, t.to}
      BY <1>1, <1>5, <1>9, <2>1, <3>3 DEF Delta
    <3> QED BY <3>1, <3>2, <3>3
  <2>6. balance'[t.from] = f[t.from] - t.fee /\ balance'[F] = f[F] + t.fee
    BY <1>1, <2>4, <2>5
  <2>7. f[t.from] - t.fee >= -MaxMinor /\ f[F] + t.fee <= MaxMinor
    BY <1>1, <1>3, <1>4, <1>5, <2>1, <2>4, <2>6
  <2>8. Cardinality(UnitsOf(c, balance')) = Cardinality(UnitsOf(c, f))
    BY <1>1, <1>2, <1>6, <1>9, <2>3, <2>4, <2>5, <2>6, <2>7, MovingUnits
  <2> QED BY <2>3, <2>8
<1> QED BY <1>1, <1>8, <1>9

\* No other transaction changes a balance.
LEMMA StepConserves == Reserved /\ MoneyConserved /\ [Next]_vars => MoneyConserved'
<1> SUFFICES ASSUME Reserved, MoneyConserved, [Next]_vars, NEW c \in Currencies
             PROVE  Cardinality(UnitsOf(c, balance')) = Cardinality(UnitsOf(c, Opening))
  BY DEF MoneyConserved
<1>1. Cardinality(UnitsOf(c, balance)) = Cardinality(UnitsOf(c, Opening))
  BY DEF MoneyConserved
<1>2. CASE \E t \in Terms, k \in Keys, h \in Keys \cup {NoKey}, g \in Grants : CaptureTransfer(t, k, h, g)
  BY <1>1, <1>2, CaptureConserves
<1>3. CASE UNCHANGED balance
  BY <1>1, <1>3
<1> QED BY <1>2, <1>3 DEF Next, PlaceHold, ReleaseHold, FreezeBy, Unfreeze, UnfreezeBy, Expire, vars, moneyVars

\* Money is neither created nor destroyed in any currency, whatever the fee account is.
THEOREM LedgerMoneyConserved == Spec => []MoneyConserved
<1>1. Init => MoneyConserved
  BY DEF Init, MoneyConserved
<1> QED BY <1>1, StepConserves, AlwaysReserved, PTL DEF Spec
=============================================================================
