--------------------------- MODULE TransferProofs ---------------------------
(***************************************************************************)
(* Theorems about the transfer workflow: it does to the ledger only what   *)
(* the ledger's specification allows, so that every theorem about Ledger   *)
(* holds of the composition; what it reports as settled is posted; and the *)
(* rail is never ahead of the ledger.  The order of the lemmas is that of  *)
(* the argument: types, the refinement, the answer of a capture, the rail. *)
(***************************************************************************)
EXTENDS DomesticTransfer, LedgerEntryProofs

-----------------------------------------------------------------------------
(* Types *)

LEMMA PaymentTypes ==
  ASSUME NEW p \in Payments
  PROVE  /\ PaymentKey[p] \in Keys
         /\ PaymentTerms[p] \in Terms
         /\ PaymentTerms[p].transfer \in Transfers
         /\ PaymentTerms[p].transfer # NoKey
         /\ PaymentGrant[p] \in Grants
         /\ HoldOf(p) \in HoldTerms
BY PaymentAssumption, LedgerAssumption
DEF PaymentAssumption, LedgerAssumption, TransferTerms

LEMMA OverdueType ==
  ASSUME inflight \subseteq Requests, NEW p \in Payments
  PROVE  /\ Overdue(p) \subseteq Requests
         /\ \A m \in Overdue(p) : m.pay = p => m.late
         /\ \A m \in Overdue(p) : m.pay # p => m \in inflight
BY DEF Overdue, Requests

\* The types of what a workflow step changes.
StepTypeOK ==
  /\ step     \in [Payments -> Steps]
  /\ attempt  \in [Payments -> 0..MaxAttempts]
  /\ reply    \in [Payments -> {"none", "ok", "refused"}]
  /\ inflight \subseteq Requests

LEMMA RequestType ==
  ASSUME StepTypeOK, NEW p \in Payments, NEW op \in LedgerOps,
         NEW n \in 0..MaxAttempts, Request(p, op, n)
  PROVE  StepTypeOK'
<1>1. [pay |-> p, op |-> op, late |-> FALSE] \in Requests
  BY DEF Requests
<1>2. inflight' \subseteq Requests
  BY <1>1, OverdueType DEF Request, StepTypeOK
<1>3. step' \in [Payments -> Steps] /\ attempt' \in [Payments -> 0..MaxAttempts]
  BY DEF Request, StepTypeOK, Steps
<1>4. reply' \in [Payments -> {"none", "ok", "refused"}]
  BY DEF Request, StepTypeOK
<1> QED BY <1>2, <1>3, <1>4 DEF StepTypeOK

LEMMA GoType ==
  ASSUME StepTypeOK, NEW p \in Payments, NEW s \in Steps, Go(p, s)
  PROVE  StepTypeOK'
<1>1. inflight' \subseteq Requests
  BY OverdueType DEF Go, StepTypeOK
<1>2. (IF s = "rail" THEN 1 ELSE 0) \in 0..MaxAttempts
  BY PaymentAssumption DEF PaymentAssumption
<1>3. attempt' \in [Payments -> 0..MaxAttempts]
  BY <1>2 DEF Go, StepTypeOK
<1>4. step' \in [Payments -> Steps] /\ reply' \in [Payments -> {"none", "ok", "refused"}]
  BY DEF Go, StepTypeOK
<1> QED BY <1>1, <1>3, <1>4 DEF StepTypeOK

LEMMA RetryType ==
  ASSUME StepTypeOK, NEW p \in Payments, step[p] \in LedgerOps, RetryOrGiveUp(p)
  PROVE  StepTypeOK'
<1>1. CASE attempt[p] < MaxAttempts
  <2>1. attempt[p] + 1 \in 0..MaxAttempts
    BY <1>1, PaymentAssumption DEF PaymentAssumption, StepTypeOK
  <2> QED BY <1>1, <2>1, RequestType DEF RetryOrGiveUp
<1>2. CASE ~(attempt[p] < MaxAttempts) /\ step[p] = "capture"
  <2>1. 1 \in 0..MaxAttempts /\ "release" \in LedgerOps
    BY PaymentAssumption DEF PaymentAssumption, LedgerOps
  <2> QED BY <1>2, <2>1, RequestType DEF RetryOrGiveUp
<1>3. CASE ~(attempt[p] < MaxAttempts) /\ step[p] # "capture"
  BY <1>3, GoType DEF RetryOrGiveUp, Steps, Results
<1> QED BY <1>1, <1>2, <1>3

LEMMA ServeType ==
  ASSUME StepTypeOK, NEW m \in inflight, Serve(m)
  PROVE  StepTypeOK' /\ UNCHANGED <<step, attempt, lapsed, runs, railVars>>
<1>1. ASSUME NEW result \in {"ok", "refused"}, Answer(m, result)
      PROVE  StepTypeOK' /\ UNCHANGED <<step, attempt, lapsed, runs, railVars>>
  BY <1>1 DEF Answer, StepTypeOK
<1> QED BY <1>1 DEF Serve, ServeHold, ServeCapture, ServeRelease, Aborted

LEMMA RailType ==
  ASSUME TransferTypeOK, NEW p \in Payments, RailEffect(p) \/ UNCHANGED <<delivered, seen>>
  PROVE  delivered' \in [Keys -> Nat] /\ seen' \subseteq Keys
BY PaymentTypes DEF TransferTypeOK, RailEffect

LEMMA DeliverType ==
  ASSUME TransferTypeOK, NEW p \in Payments, NEW outcome \in {"delivered", "delivery_failed"},
         DeliverTo(p, outcome)
  PROVE  StepTypeOK' /\ delivery' \in [Payments -> {"none", "delivered", "delivery_failed"}]
<1>1. StepTypeOK'
  BY GoType DEF DeliverTo, StepTypeOK, TransferTypeOK, Steps
<1> QED BY <1>1 DEF DeliverTo, TransferTypeOK

LEMMA ProgressType ==
  ASSUME TransferTypeOK, NEW p \in Payments, Progress(p)
  PROVE  TransferTypeOK'
<1> DEFINE Rest == UNCHANGED <<runs, railVars>> /\ lapsed' \in [Payments -> SUBSET LedgerOps]
<1>1. StepTypeOK
  BY DEF TransferTypeOK, StepTypeOK
<1>2. ASSUME StepTypeOK', Rest
      PROVE  TransferTypeOK'
  BY <1>2 DEF TransferTypeOK, StepTypeOK, railVars
<1>3. 1 \in 0..MaxAttempts /\ LedgerOps \subseteq Steps /\ Results \subseteq Steps
  BY PaymentAssumption DEF PaymentAssumption, Steps
<1>4. CASE Authorise(p)
  <2>1. CASE Request(p, "hold", 1)
    BY <1>1, <1>2, <1>3, <1>4, <2>1, RequestType DEF Authorise, LedgerOps, TransferTypeOK
  <2>2. CASE Go(p, "denied")
    BY <1>1, <1>2, <1>3, <1>4, <2>2, GoType DEF Authorise, Results, TransferTypeOK
  <2> QED BY <1>4, <2>1, <2>2 DEF Authorise
<1>5. CASE Succeed(p)
  <2>1. CASE Request(p, "capture", 1)
    BY <1>1, <1>2, <1>3, <1>5, <2>1, RequestType DEF Succeed, LedgerOps, TransferTypeOK
  <2>2. CASE Go(p, "rail") \/ Go(p, "failed")
    BY <1>1, <1>2, <1>3, <1>5, <2>2, GoType DEF Succeed, Results, Steps, TransferTypeOK
  <2> QED BY <1>5, <2>1, <2>2 DEF Succeed, LedgerOps
<1>6. CASE Refused(p)
  BY <1>1, <1>2, <1>6, RetryType DEF Refused, TransferTypeOK
<1>7. CASE TimeOut(p)
  <2>1. lapsed' \in [Payments -> SUBSET LedgerOps]
    BY <1>7 DEF TimeOut, TransferTypeOK
  <2> QED BY <1>1, <1>2, <1>7, <2>1, RetryType DEF TimeOut
<1>8. CASE ExecuteRail(p)
  <2>1. PICK outcome \in {"delivered", "delivery_failed"} : DeliverTo(p, outcome)
    BY <1>8 DEF ExecuteRail
  <2>2. StepTypeOK' /\ delivery' \in [Payments -> {"none", "delivered", "delivery_failed"}]
    BY <2>1, DeliverType
  <2>3. delivered' \in [Keys -> Nat] /\ seen' \subseteq Keys
    BY <1>8, RailType DEF ExecuteRail
  <2> QED BY <1>8, <2>2, <2>3 DEF ExecuteRail, TransferTypeOK, StepTypeOK
<1>9. CASE LoseRail(p)
  <2>1. delivered' \in [Keys -> Nat] /\ seen' \subseteq Keys
    BY <1>9, RailType DEF LoseRail
  <2>2. StepTypeOK' /\ delivery' \in [Payments -> {"none", "delivered", "delivery_failed"}]
    <3>1. CASE attempt[p] < MaxAttempts
      <4>1. attempt[p] + 1 \in 0..MaxAttempts
        BY <3>1, PaymentAssumption DEF PaymentAssumption, TransferTypeOK
      <4> QED BY <1>1, <1>9, <3>1, <4>1 DEF LoseRail, TransferTypeOK, StepTypeOK
    <3>2. CASE ~(attempt[p] < MaxAttempts)
      BY <1>9, <3>2, DeliverType DEF LoseRail
    <3> QED BY <3>1, <3>2
  <2> QED BY <1>9, <2>1, <2>2 DEF LoseRail, TransferTypeOK, StepTypeOK
<1>10. CASE CreateReceipt(p)
  BY <1>1, <1>2, <1>3, <1>10, GoType DEF CreateReceipt, Results, TransferTypeOK
<1> QED BY <1>4, <1>5, <1>6, <1>7, <1>8, <1>9, <1>10 DEF Progress

LEMMA TransferTypeStep == TransferTypeOK /\ [TransferNext]_tvars => TransferTypeOK'
<1> SUFFICES ASSUME TransferTypeOK, [TransferNext]_tvars
             PROVE  TransferTypeOK'
  OBVIOUS
<1>1. CASE UNCHANGED <<runVars, railVars>>
  BY <1>1 DEF TransferTypeOK, runVars, railVars
<1>2. ASSUME NEW p \in Payments, Start(p)
      PROVE  TransferTypeOK'
  <2>1. runs[PaymentKey[p]] + 1 \in 0..MaxRuns
    BY <1>2, PaymentTypes, PaymentAssumption DEF PaymentAssumption, Start, TransferTypeOK
  <2> QED BY <1>2, <2>1 DEF Start, TransferTypeOK, Steps
<1>3. ASSUME NEW p \in Payments, Progress(p)
      PROVE  TransferTypeOK'
  BY <1>3, ProgressType
<1>4. ASSUME NEW m \in inflight, Serve(m)
      PROVE  TransferTypeOK'
  BY <1>4, ServeType DEF TransferTypeOK, StepTypeOK, railVars
<1>5. ASSUME NEW m \in inflight, Lose(m)
      PROVE  TransferTypeOK'
  BY <1>5 DEF Lose, TransferTypeOK, railVars
<1>6. CASE RestartWorker
  BY <1>6, PaymentAssumption
  DEF RestartWorker, TransferTypeOK, runVars, PaymentAssumption
<1> QED BY <1>1, <1>2, <1>3, <1>4, <1>5, <1>6 DEF TransferNext, Meanwhile, tvars

\* The workflow's variables are well typed, its attempts bounded by the retry policy.
THEOREM TransferTypes == TransferSpec => []TransferTypeOK
<1>1. TransferInit => TransferTypeOK
  BY PaymentAssumption DEF PaymentAssumption, TransferInit, TransferTypeOK, Steps
<1> QED BY <1>1, TransferTypeStep, PTL DEF TransferSpec

-----------------------------------------------------------------------------
(* The refinement *)

LEMMA StepImplementsLedger == TransferTypeOK /\ [TransferNext]_tvars => [Next]_vars
<1> SUFFICES ASSUME TransferTypeOK, [TransferNext]_tvars
             PROVE  [Next]_vars
  OBVIOUS
<1>1. CASE UNCHANGED vars
  BY <1>1
<1>2. ASSUME NEW m \in inflight, Serve(m)
      PROVE  [Next]_vars
  <2>1. m.pay \in Payments
    BY DEF TransferTypeOK, Requests
  <2>2. CASE ServeHold(m)
    BY <2>1, <2>2, PaymentTypes DEF ServeHold, Aborted, Next
  <2>3. CASE ServeCapture(m)
    BY <2>1, <2>3, PaymentTypes DEF ServeCapture, Aborted, Next
  <2>4. CASE ServeRelease(m)
    BY <2>1, <2>4, PaymentTypes DEF ServeRelease, Aborted, Next
  <2> QED BY <1>2, <2>2, <2>3, <2>4 DEF Serve
<1>3. CASE Meanwhile
  BY <1>3 DEF Meanwhile, Next
<1>4. ASSUME NEW p \in Payments, Start(p) \/ Progress(p)
      PROVE  UNCHANGED vars
  BY <1>4 DEF Start, Progress, Authorise, Succeed, Refused, TimeOut, ExecuteRail,
              LoseRail, CreateReceipt
<1> QED BY <1>1, <1>2, <1>3, <1>4 DEF TransferNext, Lose, RestartWorker, tvars

\* Whatever the workflow, its retries and its late requests do, the ledger takes
\* only steps of its own specification.
THEOREM TransferImplementsLedger == TransferSpec => ImplementsLedger
<1>1. TransferInit => Init
  BY DEF TransferInit
<1> QED BY <1>1, StepImplementsLedger, TransferTypes, PTL
        DEF TransferSpec, ImplementsLedger, Spec

\* So the ledger's theorems hold of the workflow's ledger; the next proofs use these.
LEMMA LedgerOfTransfer == TransferSpec => [](TypeOK /\ EntryIsDocumented)
BY TransferImplementsLedger, LedgerTypeOK, LedgerEntryIsDocumented, PTL DEF ImplementsLedger

-----------------------------------------------------------------------------
(* What is settled is posted *)

Posted(p) ==
  /\ entry[PaymentKey[p]] = PaymentTerms[p].transfer
  /\ hold[PaymentKey[p]].status # "open"

\* A capture names the hold of its own key, so an entry's hold exists and is settled.
EntryHasHold == \A k \in Keys : entry[k] # NoKey => hold[k] # NoHold /\ hold[k].status # "open"

\* A request somebody waits for is the one the workflow's step sent.
CurrentRequest == \A m \in inflight : ~m.late => step[m.pay] = m.op

CaptureAnswered == \A p \in Payments : step[p] = "capture" /\ reply[p] = "ok" => Posted(p)

PostedInv == EntryHasHold /\ CurrentRequest /\ CaptureAnswered /\ SettledIsPosted

LEMMA InitPosted == TransferInit => PostedInv
BY PaymentTypes
DEF TransferInit, Init, PostedInv, EntryHasHold, CurrentRequest, CaptureAnswered,
    SettledIsPosted

LEMMA SettledStatus ==
  ASSUME TypeOK, NEW k \in Keys, hold[k].status = "open", NEW s \in {"captured", "released"},
         hold' = [hold EXCEPT ![k].status = s]
  PROVE  /\ hold'[k].status = s /\ hold'[k] # NoHold
         /\ \A j \in Keys \ {k} : hold'[j] = hold[j]
<1>1. hold[k] \in HoldRecord
  BY DEF TypeOK, NoHold
<1> QED BY <1>1 DEF TypeOK, HoldRecord, NoHold

LEMMA CapturedStatus ==
  ASSUME TypeOK, NEW t \in Terms, NEW k \in Keys, k # NoKey, NEW g \in Grants,
         hold[k] # NoHold, CaptureTransfer(t, k, k, g)
  PROVE  /\ hold'[k] # NoHold /\ hold'[k].status # "open"
         /\ \A j \in Keys \ {k} : hold'[j] = hold[j]
<1>1. CASE hold[k].status = "open"
  <2>1. hold' = [hold EXCEPT ![k].status = "captured"]
    BY <1>1 DEF CaptureTransfer, SettleHold
  <2> QED BY <1>1, <2>1, SettledStatus
<1>2. CASE hold[k].status # "open"
  BY <1>2 DEF CaptureTransfer, SettleHold
<1> QED BY <1>1, <1>2

\* A settled hold and an entry stay: placing needs a key without a hold, releasing an
\* open hold, posting a key without an entry.
LEMMA LedgerKeepsEntries ==
  ASSUME TypeOK, TransferTypeOK, EntryHasHold, [TransferNext]_tvars
  PROVE  EntryHasHold' /\ \A p \in Payments : Posted(p) => Posted(p)'
<1>1. CASE UNCHANGED <<hold, entry>>
  BY <1>1 DEF EntryHasHold, Posted
<1>2. ASSUME NEW k \in Keys, hold[k] = NoHold \/ hold[k].status = "open",
             hold[k] = NoHold => hold'[k] # NoHold,
             hold[k].status = "open" => hold'[k] # NoHold /\ hold'[k].status # "open",
             \A j \in Keys \ {k} : hold'[j] = hold[j],
             UNCHANGED entry
      PROVE  EntryHasHold' /\ \A p \in Payments : Posted(p) => Posted(p)'
  <2>1. entry[k] = NoKey
    BY <1>2 DEF EntryHasHold
  <2>2. EntryHasHold'
    BY <1>2, <2>1 DEF EntryHasHold
  <2>3. \A p \in Payments : Posted(p) => PaymentKey[p] \in Keys \ {k}
    BY <2>1, PaymentTypes DEF Posted
  <2> QED BY <1>2, <2>2, <2>3 DEF Posted
<1>3. ASSUME NEW r \in HoldTerms, NEW k \in Keys, PlaceHold(r, k)
      PROVE  EntryHasHold' /\ \A p \in Payments : Posted(p) => Posted(p)'
  <2>1. /\ hold[k] = NoHold /\ hold'[k] # NoHold /\ hold[k].status # "open"
        /\ \A j \in Keys \ {k} : hold'[j] = hold[j]
        /\ UNCHANGED entry
    BY <1>3 DEF PlaceHold, MayPlaceHold, NoHold, TypeOK, paperVars
  <2> QED BY <1>2, <2>1
<1>4. ASSUME NEW k \in Keys, ReleaseHold(k)
      PROVE  EntryHasHold' /\ \A p \in Payments : Posted(p) => Posted(p)'
  <2>1. /\ hold[k].status = "open" /\ hold'[k].status = "released"
        /\ \A j \in Keys \ {k} : hold'[j] = hold[j]
        /\ UNCHANGED entry
    BY <1>4, SettledStatus DEF ReleaseHold, TypeOK, paperVars
  <2> QED BY <1>2, <2>1 DEF NoHold
<1>5. ASSUME NEW p \in Payments,
             CaptureTransfer(PaymentTerms[p], PaymentKey[p], PaymentKey[p], PaymentGrant[p])
      PROVE  EntryHasHold' /\ \A q \in Payments : Posted(q) => Posted(q)'
  <2> DEFINE k == PaymentKey[p]
  <2>1. k \in Keys /\ k # NoKey
    BY PaymentTypes, LedgerAssumption DEF LedgerAssumption
  <2>2. /\ entry[k] = NoKey /\ hold[k] # NoHold
        /\ entry' = [entry EXCEPT ![k] = PaymentTerms[p].transfer]
    BY <1>5, <2>1 DEF CaptureTransfer, MayCapture, FreshKey, HoldIsPayers
  <2>3. /\ hold'[k] # NoHold /\ hold'[k].status # "open"
        /\ \A j \in Keys \ {k} : hold'[j] = hold[j]
    BY <1>5, <2>1, <2>2, PaymentTypes, CapturedStatus
  <2>4. EntryHasHold'
    BY <2>1, <2>2, <2>3 DEF EntryHasHold, TypeOK
  <2>5. \A q \in Payments : Posted(q) => PaymentKey[q] \in Keys \ {k}
    BY <2>2, PaymentTypes DEF Posted
  <2> QED BY <2>2, <2>3, <2>4, <2>5 DEF Posted, TypeOK
<1>6. ASSUME NEW m \in inflight, Serve(m)
      PROVE  EntryHasHold' /\ \A p \in Payments : Posted(p) => Posted(p)'
  <2>1. m.pay \in Payments
    BY DEF TransferTypeOK, Requests
  <2>2. CASE ServeHold(m)
    BY <1>1, <1>3, <2>1, <2>2, PaymentTypes DEF ServeHold, Aborted, vars, moneyVars, paperVars
  <2>3. CASE ServeCapture(m)
    BY <1>1, <1>5, <2>1, <2>3 DEF ServeCapture, Aborted, vars, moneyVars, paperVars
  <2>4. CASE ServeRelease(m)
    BY <1>1, <1>4, <2>1, <2>4, PaymentTypes DEF ServeRelease, Aborted, vars, moneyVars, paperVars
  <2> QED BY <1>6, <2>2, <2>3, <2>4 DEF Serve
<1>7. CASE Meanwhile
  BY <1>1, <1>7 DEF Meanwhile, FreezeBy, Unfreeze, UnfreezeBy, Expire, moneyVars, paperVars
<1>8. ASSUME NEW p \in Payments, Start(p) \/ Progress(p)
      PROVE  UNCHANGED vars
  BY <1>8 DEF Start, Progress, Authorise, Succeed, Refused, TimeOut, ExecuteRail,
              LoseRail, CreateReceipt
<1> QED BY <1>1, <1>6, <1>7, <1>8
        DEF TransferNext, Lose, RestartWorker, tvars, vars, moneyVars, paperVars

LEMMA RequestPosted ==
  ASSUME TransferTypeOK, PostedInv, EntryHasHold', NEW p \in Payments,
         \A q \in Payments : Posted(q) => Posted(q)',
         NEW op \in LedgerOps, NEW n, Request(p, op, n)
  PROVE  PostedInv'
<1>1. /\ step'[p] = op /\ reply'[p] = "none"
      /\ \A q \in Payments \ {p} : step'[q] = step[q] /\ reply'[q] = reply[q]
  BY DEF Request, TransferTypeOK
<1>2. CurrentRequest'
  <2> SUFFICES ASSUME NEW m \in inflight', ~m.late PROVE step'[m.pay] = m.op
    BY DEF CurrentRequest
  <2>1. CASE m = [pay |-> p, op |-> op, late |-> FALSE]
    BY <1>1, <2>1
  <2>2. CASE m \in Overdue(p)
    <3>1. m.pay # p /\ m \in inflight /\ m.pay \in Payments
      BY <2>2, OverdueType DEF TransferTypeOK, Requests
    <3> QED BY <1>1, <3>1 DEF PostedInv, CurrentRequest
  <2> QED BY <2>1, <2>2 DEF Request
<1>3. CaptureAnswered'
  BY <1>1 DEF CaptureAnswered, PostedInv
<1>4. SettledIsPosted'
  BY <1>1 DEF SettledIsPosted, PostedInv, Posted, LedgerOps
<1> QED BY <1>2, <1>3, <1>4 DEF PostedInv

LEMMA GoPosted ==
  ASSUME TransferTypeOK, PostedInv, EntryHasHold', NEW p \in Payments,
         \A q \in Payments : Posted(q) => Posted(q)',
         NEW s \in Steps \ LedgerOps, Go(p, s),
         s \in {"rail", "receipt", "settled", "error"} => Posted(p)
  PROVE  PostedInv'
<1>1. /\ step'[p] = s /\ reply'[p] = "none"
      /\ \A q \in Payments \ {p} : step'[q] = step[q] /\ reply'[q] = reply[q]
  BY DEF Go, TransferTypeOK
<1>2. CurrentRequest'
  <2> SUFFICES ASSUME NEW m \in Overdue(p), ~m.late PROVE step'[m.pay] = m.op
    BY DEF CurrentRequest, Go
  <2>1. m.pay # p /\ m \in inflight /\ m.pay \in Payments
    BY OverdueType DEF TransferTypeOK, Requests
  <2> QED BY <1>1, <2>1 DEF PostedInv, CurrentRequest
<1>3. CaptureAnswered'
  BY <1>1 DEF CaptureAnswered, PostedInv
<1>4. SettledIsPosted'
  BY <1>1 DEF SettledIsPosted, PostedInv, Posted
<1> QED BY <1>2, <1>3, <1>4 DEF PostedInv

\* An attempt that fails leads to another request or to a failure.
LEMMA RetryPosted ==
  ASSUME TransferTypeOK, PostedInv, EntryHasHold', NEW p \in Payments,
         \A q \in Payments : Posted(q) => Posted(q)',
         step[p] \in LedgerOps, RetryOrGiveUp(p)
  PROVE  PostedInv'
<1>1. "release" \in LedgerOps /\ "failed" \in Steps \ LedgerOps
  BY DEF LedgerOps, Steps, Results
<1> QED BY <1>1, RequestPosted, GoPosted DEF RetryOrGiveUp

LEMMA ProgressPosted ==
  ASSUME TransferTypeOK, PostedInv, EntryHasHold', NEW p \in Payments,
         \A q \in Payments : Posted(q) => Posted(q)',
         Progress(p)
  PROVE  PostedInv'
<1>1. /\ {"hold", "capture", "release"} \subseteq LedgerOps
      /\ {"denied", "failed", "settled", "error", "rail", "receipt"} \subseteq Steps \ LedgerOps
  BY DEF LedgerOps, Steps, Results
<1>2. CASE Authorise(p)
  BY <1>1, <1>2, RequestPosted, GoPosted DEF Authorise
<1>3. CASE Succeed(p)
  <2>1. CASE step[p] = "hold"
    BY <1>1, <1>3, <2>1, RequestPosted DEF Succeed
  <2>2. CASE step[p] = "capture"
    <3>1. Posted(p) /\ Go(p, "rail")
      BY <1>3, <2>2 DEF Succeed, PostedInv, CaptureAnswered
    <3> QED BY <1>1, <3>1, GoPosted
  <2>3. CASE step[p] = "release"
    BY <1>1, <1>3, <2>3, GoPosted DEF Succeed
  <2> QED BY <1>3, <2>1, <2>2, <2>3 DEF Succeed, LedgerOps
<1>4. CASE Refused(p) \/ TimeOut(p)
  BY <1>4, RetryPosted DEF Refused, TimeOut
<1>5. CASE ExecuteRail(p)
  <2>1. Posted(p) /\ Go(p, "receipt")
    BY <1>5 DEF ExecuteRail, DeliverTo, PostedInv, SettledIsPosted, Posted
  <2> QED BY <1>1, <2>1, GoPosted
<1>6. CASE LoseRail(p)
  <2>1. Posted(p)
    BY <1>6 DEF LoseRail, PostedInv, SettledIsPosted, Posted
  <2>2. CASE attempt[p] < MaxAttempts
    <3>1. UNCHANGED <<step, reply, inflight>>
      BY <1>6, <2>2 DEF LoseRail
    <3> QED BY <3>1 DEF PostedInv, CurrentRequest, CaptureAnswered, SettledIsPosted, Posted
  <2>3. CASE ~(attempt[p] < MaxAttempts)
    BY <1>1, <1>6, <2>1, <2>3, GoPosted DEF LoseRail, DeliverTo
  <2> QED BY <2>2, <2>3
<1>7. CASE CreateReceipt(p)
  <2>1. Posted(p)
    BY <1>7 DEF CreateReceipt, PostedInv, SettledIsPosted, Posted
  <2> QED BY <1>1, <1>7, <2>1, GoPosted DEF CreateReceipt
<1> QED BY <1>2, <1>3, <1>4, <1>5, <1>6, <1>7 DEF Progress

\* The ledger answers "ok" to a capture only when its payment is posted.
LEMMA ServePosted ==
  ASSUME TypeOK, TransferTypeOK, PostedInv, EntryHasHold',
         \A q \in Payments : Posted(q) => Posted(q)',
         NEW m \in inflight, Serve(m)
  PROVE  PostedInv'
<1>1. m.pay \in Payments /\ UNCHANGED step
  BY DEF TransferTypeOK, Requests, Serve, ServeHold, ServeCapture, ServeRelease, Aborted, Answer
<1>2. PICK result \in {"ok", "refused"} : Answer(m, result)
  BY DEF Serve, ServeHold, ServeCapture, ServeRelease, Aborted
<1>3. m.op = "capture" /\ ~m.late /\ reply'[m.pay] = "ok" => Posted(m.pay)'
  <2> SUFFICES ASSUME m.op = "capture", ~m.late, reply'[m.pay] = "ok"
               PROVE  Posted(m.pay)'
    OBVIOUS
  <2> DEFINE k == PaymentKey[m.pay]
             t == PaymentTerms[m.pay]
             g == PaymentGrant[m.pay]
  <2>1. ServeCapture(m) /\ k \in Keys /\ k # NoKey /\ t \in Terms /\ g \in Grants
    BY <1>1, PaymentTypes, LedgerAssumption
    DEF Serve, ServeHold, ServeRelease, Aborted, LedgerAssumption
  <2>2. CASE CaptureTransfer(t, k, k, g)
    <3>1. entry'[k] = t.transfer
      BY <2>1, <2>2 DEF CaptureTransfer, TypeOK
    <3>2. hold[k] # NoHold
      BY <2>1, <2>2 DEF CaptureTransfer, MayCapture, HoldIsPayers
    <3>3. hold'[k].status # "open"
      BY <2>1, <2>2, <3>2, CapturedStatus
    <3> QED BY <3>1, <3>3 DEF Posted
  <2>3. CASE AlreadyPosted(t, k, g) /\ UNCHANGED vars
    <3>1. entry[k] = t.transfer /\ t.transfer # NoKey
      BY <1>1, <2>3, PaymentTypes DEF AlreadyPosted
    <3>2. hold[k].status # "open"
      BY <2>1, <3>1 DEF PostedInv, EntryHasHold
    <3> QED BY <2>3, <3>1, <3>2 DEF Posted, vars, moneyVars, paperVars
  <2>4. CASE Answer(m, "refused")
    BY <1>1, <2>4 DEF Answer, TransferTypeOK
  <2> QED BY <2>1, <2>2, <2>3, <2>4 DEF ServeCapture, Aborted
<1>4. \A q \in Payments : reply'[q] = reply[q] \/ (q = m.pay /\ ~m.late)
  BY <1>2 DEF Answer, TransferTypeOK
<1>5. CurrentRequest'
  BY <1>1, <1>2 DEF Answer, PostedInv, CurrentRequest
<1>6. CaptureAnswered'
  <2> SUFFICES ASSUME NEW q \in Payments, step[q] = "capture", reply'[q] = "ok"
               PROVE  Posted(q)'
    BY <1>1 DEF CaptureAnswered
  <2>1. CASE reply'[q] = reply[q]
    BY <2>1 DEF PostedInv, CaptureAnswered
  <2>2. CASE q = m.pay /\ ~m.late
    BY <1>3, <2>2 DEF PostedInv, CurrentRequest
  <2> QED BY <1>4, <2>1, <2>2
<1>7. SettledIsPosted'
  BY <1>1 DEF PostedInv, SettledIsPosted, Posted
<1> QED BY <1>5, <1>6, <1>7 DEF PostedInv

LEMMA PostedIsInductive ==
  TypeOK /\ TransferTypeOK /\ PostedInv /\ [TransferNext]_tvars => PostedInv'
<1> SUFFICES ASSUME TypeOK, TransferTypeOK, PostedInv, [TransferNext]_tvars
             PROVE  PostedInv'
  OBVIOUS
<1>1. EntryHasHold' /\ \A q \in Payments : Posted(q) => Posted(q)'
  BY LedgerKeepsEntries DEF PostedInv
<1>2. CASE UNCHANGED <<step, reply>> /\ inflight' \subseteq inflight
  BY <1>1, <1>2 DEF PostedInv, CurrentRequest, CaptureAnswered, SettledIsPosted, Posted
<1>3. ASSUME NEW p \in Payments, Start(p)
      PROVE  PostedInv'
  <2>1. Idle(p) /\ step'[p] = "authorise" /\ UNCHANGED <<reply, inflight>>
        /\ \A q \in Payments \ {p} : step'[q] = step[q]
    BY <1>3 DEF Start, TransferTypeOK
  <2>2. \A m \in inflight : ~m.late => m.pay # p /\ m.pay \in Payments
    BY <2>1 DEF PostedInv, CurrentRequest, TransferTypeOK, Requests, Idle, Closed, Results, LedgerOps
  <2>3. CurrentRequest'
    BY <2>1, <2>2 DEF PostedInv, CurrentRequest
  <2>4. CaptureAnswered' /\ SettledIsPosted'
    BY <1>1, <2>1 DEF PostedInv, CaptureAnswered, SettledIsPosted, Posted
  <2> QED BY <1>1, <2>3, <2>4 DEF PostedInv
<1>4. ASSUME NEW p \in Payments, Progress(p)
      PROVE  PostedInv'
  BY <1>1, <1>4, ProgressPosted
<1>5. ASSUME NEW m \in inflight, Serve(m)
      PROVE  PostedInv'
  BY <1>1, <1>5, ServePosted
<1> QED BY <1>2, <1>3, <1>4, <1>5
        DEF TransferNext, Lose, RestartWorker, Meanwhile, tvars, runVars

LEMMA AlwaysPosted == TransferSpec => []PostedInv
BY InitPosted, PostedIsInductive, TransferTypes, LedgerOfTransfer, PTL DEF TransferSpec

\* What the workflow reports as settled, or has taken past its capture, is posted
\* under its key and reserves nothing.
THEOREM TransferSettledIsPosted == TransferSpec => []SettledIsPosted
<1>1. PostedInv => SettledIsPosted
  BY DEF PostedInv
<1> QED BY <1>1, AlwaysPosted, PTL

-----------------------------------------------------------------------------
(* The rail *)

\* A step that delivers is a step of a payment at the rail, within the life of a
\* worker that had not seen the key.
LEMMA RailStep ==
  ASSUME TransferTypeOK, [TransferNext]_tvars, NEW k \in Keys
  PROVE  \/ /\ UNCHANGED <<seen, restarts>>
            /\ delivered'[k] = delivered[k]
         \/ /\ seen' = {} /\ restarts' = restarts + 1
            /\ delivered'[k] = delivered[k]
         \/ \E p \in Payments :
              /\ step[p] = "rail" /\ PaymentKey[p] \notin seen
              /\ UNCHANGED restarts
              /\ seen' = seen \cup {PaymentKey[p]}
              /\ delivered'[k] = IF k = PaymentKey[p] THEN delivered[k] + 1 ELSE delivered[k]
<1>1. CASE UNCHANGED <<delivered, seen, restarts>>
  BY <1>1
<1>2. CASE RestartWorker
  BY <1>2 DEF RestartWorker
<1>3. ASSUME NEW p \in Payments, step[p] = "rail", UNCHANGED restarts,
             RailEffect(p) \/ UNCHANGED <<delivered, seen>>
      PROVE  \/ UNCHANGED <<delivered, seen, restarts>>
             \/ /\ step[p] = "rail" /\ PaymentKey[p] \notin seen
                /\ UNCHANGED restarts
                /\ seen' = seen \cup {PaymentKey[p]}
                /\ delivered'[k] = IF k = PaymentKey[p] THEN delivered[k] + 1 ELSE delivered[k]
  BY <1>3, PaymentTypes DEF RailEffect, PaysOut, TransferTypeOK
<1>4. ASSUME NEW p \in Payments, ExecuteRail(p) \/ LoseRail(p)
      PROVE  /\ step[p] = "rail" /\ UNCHANGED restarts
             /\ RailEffect(p) \/ UNCHANGED <<delivered, seen>>
  BY <1>4 DEF ExecuteRail, LoseRail
<1>5. ASSUME NEW p \in Payments,
             \/ Start(p) \/ Authorise(p) \/ Succeed(p) \/ Refused(p) \/ TimeOut(p)
             \/ CreateReceipt(p)
      PROVE  UNCHANGED <<delivered, seen, restarts>>
  BY <1>5 DEF Start, Authorise, Succeed, Refused, TimeOut, CreateReceipt, railVars
<1>6. ASSUME NEW m \in inflight, Serve(m) \/ Lose(m)
      PROVE  UNCHANGED <<delivered, seen, restarts>>
  BY <1>6 DEF Serve, ServeHold, ServeCapture, ServeRelease, Aborted, Answer, Lose, railVars
<1>7. CASE Meanwhile
  BY <1>7 DEF Meanwhile, railVars
<1>8. ASSUME NEW p \in Payments, ExecuteRail(p) \/ LoseRail(p)
      PROVE  \/ UNCHANGED <<delivered, seen, restarts>>
             \/ /\ step[p] = "rail" /\ PaymentKey[p] \notin seen
                /\ UNCHANGED restarts
                /\ seen' = seen \cup {PaymentKey[p]}
                /\ delivered'[k] = IF k = PaymentKey[p] THEN delivered[k] + 1 ELSE delivered[k]
  BY <1>3, <1>4, <1>8
<1>9. CASE UNCHANGED tvars
  BY <1>9 DEF tvars, railVars
<1>10. CASE \E p \in Payments : ExecuteRail(p) \/ LoseRail(p)
  BY <1>1, <1>8, <1>10
<1> QED BY <1>1, <1>2, <1>5, <1>6, <1>7, <1>9, <1>10 DEF TransferNext, Progress

LEMMA EntryStays ==
  ASSUME TypeOK, [Next]_vars, NEW k \in Keys, entry[k] # NoKey
  PROVE  entry'[k] = entry[k]
<1>1. CASE UNCHANGED entry
  BY <1>1
<1>2. CASE \E t \in Terms, j \in Keys, h \in Keys \cup {NoKey}, g \in Grants :
             CaptureTransfer(t, j, h, g)
  BY <1>2 DEF CaptureTransfer, MayCapture, FreshKey, TypeOK
<1> QED BY <1>1, <1>2
        DEF Next, PlaceHold, ReleaseHold, FreezeBy, Unfreeze, UnfreezeBy, Expire, vars, paperVars

LEMMA DeliveryStep ==
  TypeOK /\ TransferTypeOK /\ PostedInv /\ DeliveryFollowsCapture /\ [TransferNext]_tvars
    => DeliveryFollowsCapture'
<1> SUFFICES ASSUME TypeOK, TransferTypeOK, PostedInv, DeliveryFollowsCapture,
                    [TransferNext]_tvars, NEW k \in Keys, delivered'[k] > 0
             PROVE  entry'[k] # NoKey
  BY DEF DeliveryFollowsCapture
<1>1. entry[k] # NoKey
  <2>1. CASE delivered'[k] = delivered[k]
    BY <2>1 DEF DeliveryFollowsCapture
  <2>2. ASSUME NEW p \in Payments, step[p] = "rail", k = PaymentKey[p]
        PROVE  entry[k] # NoKey
    BY <2>2, PaymentTypes DEF PostedInv, SettledIsPosted
  <2> QED BY <2>1, <2>2, RailStep
<1>2. entry'[k] = entry[k]
  <2>1. [Next]_vars
    BY StepImplementsLedger
  <2> QED BY <1>1, <2>1, EntryStays
<1> QED BY <1>1, <1>2

\* The irreversible delivery never precedes the ledger record (H1).
THEOREM TransferDeliveryFollowsCapture == TransferSpec => []DeliveryFollowsCapture
<1>1. TransferInit => DeliveryFollowsCapture
  BY DEF TransferInit, DeliveryFollowsCapture
<1> QED BY <1>1, DeliveryStep, AlwaysPosted, TransferTypes, LedgerOfTransfer, PTL
        DEF TransferSpec

\* A key the worker has forgotten was forgotten by one of its restarts.
PayoutsAreRemembered ==
  \A k \in Keys : delivered[k] <= restarts + (IF k \in seen THEN 1 ELSE 0)

LEMMA RememberedStep ==
  TransferTypeOK /\ PayoutsAreRemembered /\ [TransferNext]_tvars => PayoutsAreRemembered'
<1> SUFFICES ASSUME TransferTypeOK, PayoutsAreRemembered, [TransferNext]_tvars, NEW k \in Keys
             PROVE  delivered'[k] <= restarts' + (IF k \in seen' THEN 1 ELSE 0)
  BY DEF PayoutsAreRemembered
<1>1. /\ delivered[k] \in Nat /\ restarts \in Nat
      /\ delivered[k] <= restarts + (IF k \in seen THEN 1 ELSE 0)
  BY PaymentAssumption DEF TransferTypeOK, PayoutsAreRemembered, PaymentAssumption
<1>2. CASE UNCHANGED <<seen, restarts>> /\ delivered'[k] = delivered[k]
  BY <1>1, <1>2
<1>3. CASE seen' = {} /\ restarts' = restarts + 1 /\ delivered'[k] = delivered[k]
  BY <1>1, <1>3
<1>4. ASSUME NEW p \in Payments, PaymentKey[p] \notin seen, UNCHANGED restarts,
             seen' = seen \cup {PaymentKey[p]},
             delivered'[k] = IF k = PaymentKey[p] THEN delivered[k] + 1 ELSE delivered[k]
      PROVE  delivered'[k] <= restarts' + (IF k \in seen' THEN 1 ELSE 0)
  <2>1. CASE k = PaymentKey[p]
    BY <1>1, <1>4, <2>1
  <2>2. CASE k # PaymentKey[p]
    BY <1>1, <1>4, <2>2
  <2> QED BY <2>1, <2>2
<1> QED BY <1>2, <1>3, <1>4, RailStep

\* A key is paid out at most once in the life of one worker process.
THEOREM TransferDeliveredOncePerWorker == TransferSpec => []DeliveredOncePerWorker
<1>1. TransferInit => PayoutsAreRemembered
  BY DEF TransferInit, PayoutsAreRemembered
<1>2. TransferTypeOK /\ PayoutsAreRemembered => DeliveredOncePerWorker
  BY PaymentAssumption
  DEF TransferTypeOK, PayoutsAreRemembered, DeliveredOncePerWorker, PaymentAssumption
<1> QED BY <1>1, <1>2, RememberedStep, TransferTypes, PTL DEF TransferSpec

-----------------------------------------------------------------------------
(* The key *)

\* A capture adds its receipt under a key that has no entry, hence no receipt.
LEMMA KeyStep == EntryIsDocumented /\ KeyPaysOnce /\ [Next]_vars => KeyPaysOnce'
<1> SUFFICES ASSUME EntryIsDocumented, KeyPaysOnce, [Next]_vars
             PROVE  KeyPaysOnce'
  OBVIOUS
<1>1. CASE UNCHANGED receipts
  BY <1>1 DEF KeyPaysOnce
<1>2. ASSUME NEW t \in Terms, NEW k \in Keys, NEW h \in Keys \cup {NoKey},
             NEW g \in Grants, CaptureTransfer(t, k, h, g)
      PROVE  KeyPaysOnce'
  <2>1. receipts' = receipts \cup {[entry |-> k, terms |-> t, grant |-> g]}
    BY <1>2 DEF CaptureTransfer
  <2>2. \A r \in receipts : r.entry # k
    BY <1>2 DEF CaptureTransfer, MayCapture, FreshKey, EntryIsDocumented
  <2> QED BY <2>1, <2>2 DEF KeyPaysOnce
<1>3. CASE \E t \in Terms, k \in Keys, h \in Keys \cup {NoKey}, g \in Grants :
             CaptureTransfer(t, k, h, g)
  BY <1>2, <1>3
<1> QED BY <1>1, <1>3
        DEF Next, PlaceHold, ReleaseHold, FreezeBy, Unfreeze, UnfreezeBy, Expire, vars, paperVars

\* However a payment is retried or resubmitted, its key is debited once.
THEOREM TransferKeyPaysOnce == TransferSpec => []KeyPaysOnce
<1>1. Init => KeyPaysOnce
  BY DEF Init, KeyPaysOnce
<1>2. Spec => []KeyPaysOnce
  BY <1>1, KeyStep, LedgerEntryIsDocumented, PTL DEF Spec
<1> QED BY <1>2, TransferImplementsLedger, PTL DEF ImplementsLedger

-----------------------------------------------------------------------------
(***************************************************************************)
(* What a failure means.  Both statements follow requests: one that is     *)
(* late left its activity unanswered, and one that is awaited has no reply *)
(* yet.  Then whoever made the entry of a key, or placed its open hold,    *)
(* either knows of it, or had an attempt that went unanswered, or gave up  *)
(* a release that failed.                                                  *)
(***************************************************************************)

LateIsUnanswered == \A m \in inflight : m.late => m.op \in lapsed[m.pay]

AwaitedHasNoReply == \A m \in inflight : ~m.late => reply[m.pay] = "none"

\* Submissions are counted: a payment that left "idle" was submitted.
Submitted ==
  /\ \A p \in Payments : runs[PaymentKey[p]] = 0 => step[p] = "idle"
  /\ \A p, q \in Payments :
       /\ PaymentKey[p] = PaymentKey[q] /\ runs[PaymentKey[p]] = 1
       /\ step[p] # "idle" /\ step[q] # "idle"
       => p = q
  /\ \A m \in inflight : step[m.pay] # "idle"

RequestInv == CurrentRequest /\ LateIsUnanswered /\ AwaitedHasNoReply /\ Submitted

\* What p knows of the entry with its key.
KnowsEntry(p) ==
  \/ "capture" \in lapsed[p]
  \/ step[p] = "capture" /\ reply[p] = "ok"
  \/ step[p] \in {"rail", "receipt", "settled", "error"}

\* The first submission of a key knows of the entry, or had a capture unanswered.
EntryIsKnown ==
  /\ \A k \in Keys : runs[k] = 0 => entry[k] = NoKey
  /\ \A p \in Payments :
       /\ step[p] # "idle" /\ runs[PaymentKey[p]] = 1 /\ entry[PaymentKey[p]] # NoKey
       => KnowsEntry(p)

\* A payment that knows of its hold, or has not managed to free it yet.
HoldsTheHold(p) ==
  \/ step[p] = "hold" /\ reply[p] = "ok"
  \/ step[p] = "capture"
  \/ step[p] = "release" /\ reply[p] # "ok"

Answered(k) ==
  \A q \in Payments : PaymentKey[q] = k => lapsed[q] \cap {"hold", "release"} = {}

OpenHoldIsKnown ==
  /\ \A k \in Keys :
       hold[k].status = "open" /\ Answered(k)
         => \E p \in Payments : PaymentKey[p] = k /\ HoldsTheHold(p)
  /\ \A p \in Payments :
       step[p] = "release" /\ reply[p] = "ok"
         => hold[PaymentKey[p]].status \in {"captured", "released"}

\* A step of p's workflow that ends an attempt, as far as requests are concerned.
Moves(p) ==
  /\ ~Idle(p) /\ step'[p] # "idle" /\ reply'[p] = "none"
  /\ \A q \in Payments \ {p} :
       step'[q] = step[q] /\ reply'[q] = reply[q] /\ lapsed'[q] = lapsed[q]
  /\ lapsed[p] \subseteq lapsed'[p]
  /\ \A m \in inflight' : \/ m.pay = p /\ ~m.late /\ m.op = step'[p]
                          \/ m.pay = p /\ m.late /\ m.op \in lapsed'[p]
                          \/ m.pay # p /\ m \in inflight
  /\ UNCHANGED <<vars, runs>>

LEMMA OverdueRequests ==
  ASSUME TransferTypeOK, RequestInv, NEW p \in Payments,
         reply[p] # "none" \/ step[p] \notin LedgerOps \/ step[p] \in lapsed'[p],
         lapsed[p] \subseteq lapsed'[p]
  PROVE  \A m \in Overdue(p) : \/ m.pay = p /\ m.late /\ m.op \in lapsed'[p]
                               \/ m.pay # p /\ m \in inflight
<1> SUFFICES ASSUME NEW n \in inflight
             PROVE  LET m == IF n.pay = p THEN [n EXCEPT !.late = TRUE] ELSE n
                    IN  \/ m.pay = p /\ m.late /\ m.op \in lapsed'[p]
                        \/ m.pay # p /\ m \in inflight
  BY DEF Overdue
<1>1. n \in Requests
  BY DEF TransferTypeOK
<1>2. n.pay = p => n.op \in lapsed'[p]
  BY <1>1 DEF RequestInv, LateIsUnanswered, AwaitedHasNoReply, CurrentRequest, Requests
<1> QED BY <1>1, <1>2 DEF Requests

LEMMA RequestMoves ==
  ASSUME TransferTypeOK, RequestInv, NEW p \in Payments, NEW op \in LedgerOps, NEW n,
         Request(p, op, n), ~Idle(p), UNCHANGED <<vars, runs>>,
         reply[p] # "none" \/ step[p] \notin LedgerOps \/ step[p] \in lapsed'[p],
         lapsed[p] \subseteq lapsed'[p],
         \A q \in Payments \ {p} : lapsed'[q] = lapsed[q]
  PROVE  Moves(p)
<1>1. /\ step'[p] = op /\ reply'[p] = "none"
      /\ \A q \in Payments \ {p} : step'[q] = step[q] /\ reply'[q] = reply[q]
  BY DEF Request, TransferTypeOK
<1>2. \A m \in inflight' : m \in Overdue(p) \/ m = [pay |-> p, op |-> op, late |-> FALSE]
  BY DEF Request
<1> QED BY <1>1, <1>2, OverdueRequests DEF Moves, LedgerOps

LEMMA GoMoves ==
  ASSUME TransferTypeOK, RequestInv, NEW p \in Payments, NEW s \in Steps \ {"idle"},
         Go(p, s), ~Idle(p), UNCHANGED <<vars, runs>>,
         reply[p] # "none" \/ step[p] \notin LedgerOps \/ step[p] \in lapsed'[p],
         lapsed[p] \subseteq lapsed'[p],
         \A q \in Payments \ {p} : lapsed'[q] = lapsed[q]
  PROVE  Moves(p) /\ step'[p] = s
<1>1. /\ step'[p] = s /\ reply'[p] = "none"
      /\ \A q \in Payments \ {p} : step'[q] = step[q] /\ reply'[q] = reply[q]
  BY DEF Go, TransferTypeOK
<1> QED BY <1>1, OverdueRequests DEF Moves, Go

LEMMA RetryMoves ==
  ASSUME TransferTypeOK, RequestInv, NEW p \in Payments, step[p] \in LedgerOps,
         RetryOrGiveUp(p), UNCHANGED <<vars, runs>>,
         reply[p] # "none" \/ step[p] \in lapsed'[p],
         lapsed[p] \subseteq lapsed'[p],
         \A q \in Payments \ {p} : lapsed'[q] = lapsed[q]
  PROVE  /\ Moves(p)
         /\ step[p] = "capture" => step'[p] \in {"capture", "release"}
<1>1. ~Idle(p) /\ "failed" \in Steps \ {"idle"} /\ "release" \in LedgerOps
  BY DEF Idle, Closed, Results, LedgerOps, Steps
<1>2. CASE Request(p, step[p], attempt[p] + 1)
  <2>1. step'[p] = step[p]
    BY <1>2 DEF Request, TransferTypeOK
  <2> QED BY <1>1, <1>2, <2>1, RequestMoves
<1>3. CASE Request(p, "release", 1)
  <2>1. step'[p] = "release"
    BY <1>3 DEF Request, TransferTypeOK
  <2> QED BY <1>1, <1>3, <2>1, RequestMoves
<1>4. CASE Go(p, "failed") /\ step[p] # "capture"
  BY <1>1, <1>4, GoMoves
<1> QED BY <1>2, <1>3, <1>4 DEF RetryOrGiveUp

LEMMA ProgressMoves ==
  ASSUME TransferTypeOK, RequestInv, NEW p \in Payments, Progress(p)
  PROVE  /\ \/ Moves(p)
            \/ step[p] = "rail" /\ UNCHANGED <<step, reply, inflight, lapsed, runs, vars>>
         /\ KnowsEntry(p) => KnowsEntry(p)'
         /\ HoldsTheHold(p) => \/ HoldsTheHold(p)'
                               \/ lapsed'[p] \cap {"hold", "release"} # {}
                               \/ step[p] = "capture" /\ reply[p] = "ok"
<1> DEFINE Goal == /\ Moves(p)
                   /\ KnowsEntry(p) => KnowsEntry(p)'
                   /\ HoldsTheHold(p) => \/ HoldsTheHold(p)'
                                         \/ lapsed'[p] \cap {"hold", "release"} # {}
                                         \/ step[p] = "capture" /\ reply[p] = "ok"
<1>1. /\ {"hold", "capture", "release"} = LedgerOps
      /\ {"denied", "failed", "settled", "error", "rail", "receipt"} \subseteq Steps \ {"idle"}
  BY DEF LedgerOps, Steps, Results
<1>2. CASE Authorise(p)
  <2>1. /\ step[p] = "authorise" /\ ~Idle(p) /\ step[p] \notin LedgerOps
        /\ UNCHANGED <<vars, runs, lapsed>>
    BY <1>2 DEF Authorise, Idle, Closed, Results, LedgerOps
  <2>2. Moves(p)
    BY <1>1, <1>2, <2>1, RequestMoves, GoMoves DEF Authorise
  <2> QED BY <2>1, <2>2 DEF KnowsEntry, HoldsTheHold
<1>3. CASE Succeed(p)
  <2>1. /\ step[p] \in LedgerOps /\ reply[p] = "ok" /\ ~Idle(p)
        /\ UNCHANGED <<vars, runs, lapsed>>
    BY <1>3 DEF Succeed, Idle, Closed, Results, LedgerOps
  <2>2. CASE step[p] = "hold"
    <3>1. Request(p, "capture", 1)
      BY <1>3, <2>2 DEF Succeed
    <3>2. Moves(p) /\ step'[p] = "capture"
      BY <1>1, <2>1, <3>1, RequestMoves DEF Request, TransferTypeOK
    <3> QED BY <2>1, <2>2, <3>2 DEF KnowsEntry, HoldsTheHold
  <2>3. CASE step[p] = "capture"
    <3>1. Go(p, "rail")
      BY <1>3, <2>3 DEF Succeed
    <3>2. Moves(p) /\ step'[p] = "rail"
      BY <1>1, <2>1, <3>1, GoMoves
    <3> QED BY <2>1, <2>3, <3>2 DEF KnowsEntry
  <2>4. CASE step[p] = "release"
    <3>1. Go(p, "failed")
      BY <1>3, <2>4 DEF Succeed
    <3>2. Moves(p)
      BY <1>1, <2>1, <3>1, GoMoves
    <3> QED BY <2>1, <2>4, <3>2 DEF KnowsEntry, HoldsTheHold
  <2> QED BY <1>1, <2>1, <2>2, <2>3, <2>4
<1>4. CASE Refused(p)
  <2>1. /\ step[p] \in LedgerOps /\ reply[p] = "refused" /\ RetryOrGiveUp(p)
        /\ UNCHANGED <<vars, runs>> /\ lapsed[p] \subseteq lapsed'[p]
        /\ \A q \in Payments \ {p} : lapsed'[q] = lapsed[q]
        /\ step[p] = "release" => attempt[p] < MaxAttempts \/ "release" \in lapsed'[p]
    BY <1>4, PaymentAssumption DEF Refused, TransferTypeOK, PaymentAssumption
  <2>2. Moves(p) /\ (step[p] = "capture" => step'[p] \in {"capture", "release"})
    BY <2>1, RetryMoves
  <2>3. reply'[p] = "none"
    BY <2>2 DEF Moves
  <2>4. step[p] = "release" => step'[p] = "release" \/ "release" \in lapsed'[p]
    BY <2>1 DEF RetryOrGiveUp, Request, TransferTypeOK
  <2> QED BY <1>1, <2>1, <2>2, <2>3, <2>4 DEF KnowsEntry, HoldsTheHold
<1>5. CASE TimeOut(p)
  <2>1. /\ step[p] \in LedgerOps /\ RetryOrGiveUp(p) /\ UNCHANGED <<vars, runs>>
        /\ lapsed'[p] = lapsed[p] \cup {step[p]}
        /\ \A q \in Payments \ {p} : lapsed'[q] = lapsed[q]
    BY <1>5 DEF TimeOut, TransferTypeOK
  <2>2. Moves(p) /\ (step[p] = "capture" => step'[p] \in {"capture", "release"})
    BY <2>1, RetryMoves
  <2>3. reply'[p] = "none"
    BY <2>2 DEF Moves
  <2> QED BY <1>1, <2>1, <2>2, <2>3 DEF KnowsEntry, HoldsTheHold
<1>6. ASSUME NEW s \in {"receipt", "settled", "error"}, Go(p, s),
             step[p] \in {"rail", "receipt"}, UNCHANGED <<vars, runs, lapsed>>
      PROVE  Goal
  <2>1. Moves(p) /\ step'[p] = s
    BY <1>1, <1>6, GoMoves DEF Idle, Closed, Results
  <2> QED BY <1>6, <2>1 DEF KnowsEntry, HoldsTheHold
<1>7. CASE ExecuteRail(p)
  BY <1>6, <1>7 DEF ExecuteRail, DeliverTo
<1>8. CASE LoseRail(p)
  <2>1. CASE attempt[p] < MaxAttempts
    <3>1. step[p] = "rail" /\ UNCHANGED <<step, reply, inflight, lapsed, runs, vars>>
      BY <1>8, <2>1 DEF LoseRail
    <3> QED BY <3>1 DEF KnowsEntry, HoldsTheHold
  <2>2. CASE ~(attempt[p] < MaxAttempts)
    BY <1>6, <1>8, <2>2 DEF LoseRail, DeliverTo
  <2> QED BY <2>1, <2>2
<1>9. CASE CreateReceipt(p)
  BY <1>6, <1>9 DEF CreateReceipt
<1> QED BY <1>2, <1>3, <1>4, <1>5, <1>7, <1>8, <1>9 DEF Progress

\* A request that is executed or lost.
LEMMA ServeRequest ==
  ASSUME TransferTypeOK, RequestInv, NEW m \in inflight, Serve(m) \/ Lose(m)
  PROVE  /\ UNCHANGED <<step, lapsed, runs>> /\ inflight' = inflight \ {m}
         /\ \A q \in Payments : reply'[q] = reply[q] \/ (q = m.pay /\ ~m.late)
         /\ \A n \in inflight' : n.pay = m.pay /\ ~n.late => m.late
<1>1. m \in Requests
  BY DEF TransferTypeOK
<1>2. /\ UNCHANGED <<step, lapsed, runs>> /\ inflight' = inflight \ {m}
      /\ \A q \in Payments : reply'[q] = reply[q] \/ (q = m.pay /\ ~m.late)
  BY <1>1 DEF Serve, ServeHold, ServeCapture, ServeRelease, Aborted, Answer, Lose, TransferTypeOK, Requests
<1>3. ASSUME NEW n \in inflight, n.pay = m.pay, ~n.late, ~m.late
      PROVE  n = m
  <2>1. n.op = m.op
    BY <1>3 DEF RequestInv, CurrentRequest
  <2> QED BY <1>1, <1>3, <2>1 DEF TransferTypeOK, Requests
<1> QED BY <1>2, <1>3

LEMMA StartStep ==
  ASSUME TransferTypeOK, NEW p \in Payments, Start(p)
  PROVE  /\ \A q \in Payments : PaymentKey[q] = PaymentKey[p] => Idle(q)
         /\ step'[p] = "authorise" /\ ~Idle(p)'
         /\ \A q \in Payments \ {p} : step'[q] = step[q]
         /\ UNCHANGED <<reply, inflight, lapsed, vars>>
         /\ runs'[PaymentKey[p]] = runs[PaymentKey[p]] + 1
         /\ \A k \in Keys \ {PaymentKey[p]} : runs'[k] = runs[k]
         /\ runs \in [Keys -> Nat]
BY PaymentTypes, PaymentAssumption
DEF Start, TransferTypeOK, Idle, Closed, Results, PaymentAssumption

LEMMA RequestStep == TransferTypeOK /\ RequestInv /\ [TransferNext]_tvars => RequestInv'
<1> SUFFICES ASSUME TransferTypeOK, RequestInv, [TransferNext]_tvars
             PROVE  RequestInv'
  OBVIOUS
<1> USE DEF RequestInv, CurrentRequest, LateIsUnanswered, AwaitedHasNoReply,
            Submitted, Idle, Closed
<1>1. \A m \in inflight : m.pay \in Payments /\ m.op \in LedgerOps
  BY DEF TransferTypeOK, Requests
<1>2. CASE UNCHANGED <<step, reply, lapsed, runs, inflight>>
  BY <1>2
<1>3. ASSUME NEW p \in Payments, Start(p)
      PROVE  RequestInv'
  <2>1. \A m \in inflight : m.pay = p => m.late
    BY <1>1, <1>3, StartStep DEF Results, LedgerOps
  <2>2. CurrentRequest' /\ LateIsUnanswered' /\ AwaitedHasNoReply'
    BY <1>1, <1>3, <2>1, StartStep
  <2>3. \A q \in Payments : PaymentKey[q] = PaymentKey[p] /\ runs'[PaymentKey[p]] = 1
                              => step[q] = "idle"
    BY <1>3, PaymentTypes, StartStep
  <2>4. Submitted'
    BY <1>1, <1>3, <2>3, PaymentTypes, StartStep
  <2> QED BY <2>2, <2>4
<1>4. ASSUME NEW p \in Payments, Moves(p)
      PROVE  RequestInv'
  <2>1. CurrentRequest' /\ LateIsUnanswered' /\ AwaitedHasNoReply'
    BY <1>1, <1>4 DEF Moves
  <2>2. Submitted'
    BY <1>1, <1>4 DEF Moves
  <2> QED BY <2>1, <2>2
<1>5. ASSUME NEW p \in Payments, Progress(p)
      PROVE  RequestInv'
  BY <1>2, <1>4, <1>5, ProgressMoves
<1>6. ASSUME NEW m \in inflight, Serve(m) \/ Lose(m)
      PROVE  RequestInv'
  BY <1>1, <1>6, ServeRequest
<1> QED BY <1>2, <1>3, <1>5, <1>6
        DEF TransferNext, RestartWorker, Meanwhile, tvars, runVars

LEMMA ServeEntry ==
  ASSUME TypeOK, TransferTypeOK, NEW m \in inflight, Serve(m), NEW k \in Keys, entry'[k] # entry[k]
  PROVE  m.op = "capture" /\ PaymentKey[m.pay] = k /\ Answer(m, "ok")
<1>1. m.pay \in Payments /\ PaymentKey[m.pay] \in Keys
  BY PaymentTypes DEF TransferTypeOK, Requests
<1>2. CASE ServeHold(m)
  BY <1>2 DEF ServeHold, Aborted, PlaceHold, vars, paperVars
<1>3. CASE ServeCapture(m)
  BY <1>1, <1>3 DEF ServeCapture, Aborted, CaptureTransfer, TypeOK, vars, paperVars
<1>4. CASE ServeRelease(m)
  BY <1>4 DEF ServeRelease, Aborted, ReleaseHold, vars, paperVars
<1> QED BY <1>2, <1>3, <1>4 DEF Serve

LEMMA EntryKnownStep ==
  TypeOK /\ TransferTypeOK /\ RequestInv /\ EntryIsKnown /\ [TransferNext]_tvars => EntryIsKnown'
<1> SUFFICES ASSUME TypeOK, TransferTypeOK, RequestInv, EntryIsKnown, [TransferNext]_tvars
             PROVE  EntryIsKnown'
  OBVIOUS
<1>1. CASE UNCHANGED <<step, reply, lapsed, runs, entry>>
  BY <1>1 DEF EntryIsKnown, KnowsEntry
<1>2. ASSUME NEW p \in Payments, Start(p)
      PROVE  EntryIsKnown'
  <2>1. entry[PaymentKey[p]] # NoKey => runs'[PaymentKey[p]] \notin {0, 1}
    BY <1>2, PaymentTypes, StartStep DEF EntryIsKnown
  <2>2. UNCHANGED entry
    BY <1>2, StartStep DEF vars, paperVars
  <2>3. \A k \in Keys : runs'[k] = 0 => entry'[k] = NoKey
    BY <1>2, <2>1, <2>2, StartStep DEF EntryIsKnown
  <2>4. ASSUME NEW q \in Payments, step'[q] # "idle", runs'[PaymentKey[q]] = 1,
               entry'[PaymentKey[q]] # NoKey
        PROVE  KnowsEntry(q)'
    <3>1. PaymentKey[q] # PaymentKey[p]
      BY <2>1, <2>2, <2>4
    <3>2. step'[q] = step[q] /\ runs'[PaymentKey[q]] = runs[PaymentKey[q]]
      BY <1>2, <3>1, PaymentTypes, StartStep
    <3> QED BY <1>2, <2>2, <2>4, <3>2, StartStep DEF EntryIsKnown, KnowsEntry
  <2> QED BY <2>3, <2>4 DEF EntryIsKnown
<1>3. ASSUME NEW p \in Payments, Progress(p)
      PROVE  EntryIsKnown'
  <2>1. CASE UNCHANGED <<step, reply, inflight, lapsed, runs, vars>>
    BY <1>1, <2>1 DEF vars, paperVars
  <2>2. CASE Moves(p)
    <3>1. UNCHANGED <<entry, runs>> /\ step[p] # "idle"
      BY <2>2 DEF Moves, vars, paperVars, Idle
    <3>2. \A q \in Payments : KnowsEntry(q) => KnowsEntry(q)'
      BY <1>3, <2>2, ProgressMoves DEF Moves, KnowsEntry
    <3>3. \A q \in Payments : step'[q] # "idle" => step[q] # "idle"
      BY <2>2, <3>1 DEF Moves
    <3> QED BY <3>1, <3>2, <3>3 DEF EntryIsKnown
  <2> QED BY <1>3, <2>1, <2>2, ProgressMoves
<1>4. ASSUME NEW m \in inflight, Serve(m)
      PROVE  EntryIsKnown'
  <2>1. m.pay \in Payments /\ m.op \in LedgerOps /\ step[m.pay] # "idle"
    BY DEF TransferTypeOK, Requests, RequestInv, Submitted
  <2>2. UNCHANGED <<step, lapsed, runs>>
        /\ \A q \in Payments : reply'[q] = reply[q] \/ (q = m.pay /\ ~m.late)
    BY <1>4, ServeRequest
  <2>3. \A k \in Keys : runs[k] = 0 => entry'[k] = NoKey
    BY <1>4, <2>1, ServeEntry DEF EntryIsKnown, RequestInv, Submitted
  <2>4. ASSUME NEW p \in Payments, step[p] # "idle", runs[PaymentKey[p]] = 1,
               entry'[PaymentKey[p]] # NoKey
        PROVE  KnowsEntry(p)'
    <3>1. CASE entry'[PaymentKey[p]] = entry[PaymentKey[p]]
      <4>1. KnowsEntry(p)
        BY <2>4, <3>1 DEF EntryIsKnown
      <4>2. reply[p] = "ok" => reply'[p] = reply[p]
        BY <2>2 DEF RequestInv, AwaitedHasNoReply
      <4> QED BY <2>2, <4>1, <4>2 DEF KnowsEntry
    <3>2. CASE entry'[PaymentKey[p]] # entry[PaymentKey[p]]
      <4>1. m.op = "capture" /\ PaymentKey[m.pay] = PaymentKey[p] /\ Answer(m, "ok")
        BY <1>4, <3>2, PaymentTypes, ServeEntry
      <4>2. p = m.pay
        BY <2>1, <2>4, <4>1 DEF RequestInv, Submitted
      <4>3. CASE m.late
        BY <2>2, <4>1, <4>2, <4>3 DEF RequestInv, LateIsUnanswered, KnowsEntry
      <4>4. CASE ~m.late
        <5>1. step[p] = "capture" /\ reply'[p] = "ok"
          BY <4>1, <4>2, <4>4 DEF RequestInv, CurrentRequest, Answer, TransferTypeOK
        <5> QED BY <2>2, <5>1 DEF KnowsEntry
      <4> QED BY <4>3, <4>4
    <3> QED BY <3>1, <3>2
  <2> QED BY <2>2, <2>3, <2>4 DEF EntryIsKnown
<1>5. CASE Meanwhile
  BY <1>1, <1>5 DEF Meanwhile, FreezeBy, Unfreeze, UnfreezeBy, Expire, paperVars, runVars
<1> QED BY <1>1, <1>2, <1>3, <1>4, <1>5
        DEF TransferNext, Lose, RestartWorker, tvars, runVars, vars, paperVars

LEMMA InitRequests == TransferInit => RequestInv /\ EntryIsKnown /\ OpenHoldIsKnown
BY PaymentTypes
DEF TransferInit, Init, RequestInv, CurrentRequest, LateIsUnanswered, AwaitedHasNoReply,
    Submitted, EntryIsKnown, OpenHoldIsKnown, NoHold

LEMMA AlwaysRequests == TransferSpec => []RequestInv
BY InitRequests, RequestStep, TransferTypes, PTL DEF TransferSpec

\* When the first submission of a key fails with every capture answered, nothing
\* was posted.
THEOREM TransferFirstFailureIsTrue == TransferSpec => []FirstFailureIsTrue
<1>1. EntryIsKnown => FirstFailureIsTrue
  BY DEF EntryIsKnown, KnowsEntry, FirstFailureIsTrue
<1> QED BY <1>1, InitRequests, EntryKnownStep, AlwaysRequests, TransferTypes,
           LedgerOfTransfer, PTL DEF TransferSpec

LEMMA ServeHoldEffect ==
  ASSUME TypeOK, TransferTypeOK, NEW m \in inflight, Serve(m)
  PROVE  /\ \A k \in Keys :
              /\ hold[k].status \in {"captured", "released"} => hold'[k] = hold[k]
              /\ hold[k].status # "open" /\ hold'[k].status = "open"
                 => m.op = "hold" /\ PaymentKey[m.pay] = k /\ Answer(m, "ok")
         /\ m.op = "release"
            => \/ Answer(m, "ok") /\ hold'[PaymentKey[m.pay]].status \in {"captured", "released"}
               \/ Answer(m, "refused")
<1> DEFINE k == PaymentKey[m.pay]
<1>1. m.pay \in Payments /\ k \in Keys /\ k # NoKey
  BY PaymentTypes, LedgerAssumption DEF TransferTypeOK, Requests, LedgerAssumption
<1>2. CASE ServeHold(m)
  <2>1. CASE UNCHANGED hold
    BY <1>2, <2>1 DEF ServeHold, Aborted
  <2>2. CASE PlaceHold(HoldOf(m.pay), k) /\ Answer(m, "ok")
    BY <1>1, <1>2, <2>2 DEF ServeHold, Aborted, PlaceHold, MayPlaceHold, NoHold, TypeOK
  <2> QED BY <1>2, <2>1, <2>2 DEF ServeHold, Aborted, vars, moneyVars
<1>3. CASE ServeCapture(m)
  <2>1. CASE UNCHANGED hold
    BY <1>3, <2>1 DEF ServeCapture, Aborted
  <2>2. CASE hold[k].status = "open" /\ hold' = [hold EXCEPT ![k].status = "captured"]
    BY <1>1, <1>3, <2>2, SettledStatus DEF ServeCapture, Aborted
  <2> QED BY <1>1, <1>3, <2>1, <2>2
          DEF ServeCapture, Aborted, CaptureTransfer, SettleHold, vars, moneyVars
<1>4. CASE ServeRelease(m)
  <2>1. CASE hold[k].status = "open" /\ hold' = [hold EXCEPT ![k].status = "released"]
    BY <1>1, <1>4, <2>1, SettledStatus DEF ServeRelease, Aborted
  <2>2. CASE hold[k].status \in {"captured", "released"} /\ UNCHANGED hold
    BY <1>4, <2>2 DEF ServeRelease, Aborted
  <2>3. CASE Aborted(m)
    BY <1>4, <2>3 DEF Aborted, vars, moneyVars, ServeRelease
  <2> QED BY <1>1, <1>4, <2>1, <2>2, <2>3 DEF ServeRelease, ReleaseHold, vars, moneyVars
<1> QED BY <1>2, <1>3, <1>4 DEF Serve

LEMMA HoldKnownServe ==
  ASSUME TypeOK, TransferTypeOK, RequestInv, OpenHoldIsKnown, NEW m \in inflight, Serve(m)
  PROVE  OpenHoldIsKnown'
<1>1. m.pay \in Payments
  BY DEF TransferTypeOK, Requests
<1>2. /\ UNCHANGED <<step, lapsed>>
      /\ \A q \in Payments : reply'[q] = reply[q] \/ (q = m.pay /\ ~m.late)
  BY ServeRequest
<1>3. ~m.late => step[m.pay] = m.op /\ reply[m.pay] = "none"
  BY DEF RequestInv, CurrentRequest, AwaitedHasNoReply
<1>4. m.late => m.op \in lapsed[m.pay]
  BY DEF RequestInv, LateIsUnanswered
<1>5. ASSUME NEW k \in Keys, hold'[k].status = "open", Answered(k)'
      PROVE  \E p \in Payments : PaymentKey[p] = k /\ HoldsTheHold(p)'
  <2>1. Answered(k)
    BY <1>2, <1>5 DEF Answered
  <2>2. CASE hold[k].status = "open"
    <3>1. PICK p \in Payments : PaymentKey[p] = k /\ HoldsTheHold(p)
      BY <2>1, <2>2 DEF OpenHoldIsKnown
    <3>2. CASE reply'[p] = reply[p]
      BY <1>2, <3>1, <3>2 DEF HoldsTheHold
    <3>3. CASE p = m.pay /\ ~m.late
      <4>1. m.op = "release" => Answer(m, "refused")
        BY <1>5, <3>1, <3>3, ServeHoldEffect
      <4>2. m.op = "release" => reply'[p] # "ok"
        BY <1>1, <3>3, <4>1 DEF Answer, TransferTypeOK
      <4> QED BY <1>2, <1>3, <3>1, <3>3, <4>2 DEF HoldsTheHold
    <3> QED BY <1>2, <3>2, <3>3
  <2>3. CASE hold[k].status # "open"
    <3>1. m.op = "hold" /\ PaymentKey[m.pay] = k /\ Answer(m, "ok")
      BY <1>5, <2>3, ServeHoldEffect
    <3>2. ~m.late
      BY <1>1, <1>4, <2>1, <3>1 DEF Answered
    <3>3. reply'[m.pay] = "ok"
      BY <1>1, <3>1, <3>2 DEF Answer, TransferTypeOK
    <3> QED BY <1>1, <1>2, <1>3, <3>1, <3>2, <3>3 DEF HoldsTheHold
  <2> QED BY <2>2, <2>3
<1>6. ASSUME NEW p \in Payments, step'[p] = "release", reply'[p] = "ok"
      PROVE  hold'[PaymentKey[p]].status \in {"captured", "released"}
  <2>1. CASE reply'[p] = reply[p]
    <3>1. hold[PaymentKey[p]].status \in {"captured", "released"}
      BY <1>2, <1>6, <2>1 DEF OpenHoldIsKnown
    <3> QED BY <2>1, <3>1, PaymentTypes, ServeHoldEffect
  <2>2. CASE p = m.pay /\ ~m.late
    <3>1. m.op = "release"
      BY <1>2, <1>3, <1>6, <2>2
    <3>2. ~Answer(m, "refused")
      BY <1>1, <1>6, <2>2 DEF Answer, TransferTypeOK
    <3> QED BY <2>2, <3>1, <3>2, ServeHoldEffect
  <2> QED BY <1>2, <2>1, <2>2
<1> QED BY <1>5, <1>6 DEF OpenHoldIsKnown

LEMMA HoldKnownProgress ==
  ASSUME TransferTypeOK, RequestInv, PostedInv, OpenHoldIsKnown, NEW p \in Payments, Moves(p),
         HoldsTheHold(p) => \/ HoldsTheHold(p)'
                            \/ lapsed'[p] \cap {"hold", "release"} # {}
                            \/ step[p] = "capture" /\ reply[p] = "ok"
  PROVE  OpenHoldIsKnown'
<1>1. /\ UNCHANGED hold /\ reply'[p] = "none" /\ lapsed[p] \subseteq lapsed'[p]
      /\ \A q \in Payments \ {p} :
           step'[q] = step[q] /\ reply'[q] = reply[q] /\ lapsed'[q] = lapsed[q]
  BY DEF Moves, vars, moneyVars
<1>2. ASSUME NEW k \in Keys, hold[k].status = "open", Answered(k)'
      PROVE  \E q \in Payments : PaymentKey[q] = k /\ HoldsTheHold(q)'
  <2>1. Answered(k)
    BY <1>1, <1>2 DEF Answered
  <2>2. PICK q \in Payments : PaymentKey[q] = k /\ HoldsTheHold(q)
    BY <1>2, <2>1 DEF OpenHoldIsKnown
  <2>3. CASE q # p
    BY <1>1, <2>2, <2>3 DEF HoldsTheHold
  <2>4. CASE q = p
    <3>1. ~(step[p] = "capture" /\ reply[p] = "ok")
      BY <1>2, <2>2, <2>4 DEF PostedInv, CaptureAnswered, Posted
    <3>2. lapsed'[p] \cap {"hold", "release"} = {}
      BY <1>2, <2>2, <2>4 DEF Answered
    <3> QED BY <2>2, <2>4, <3>1, <3>2
  <2> QED BY <2>3, <2>4
<1>3. \A q \in Payments : step'[q] = "release" /\ reply'[q] = "ok"
        => hold[PaymentKey[q]].status \in {"captured", "released"}
  BY <1>1 DEF OpenHoldIsKnown
<1> QED BY <1>1, <1>2, <1>3 DEF OpenHoldIsKnown

LEMMA HoldKnownStep ==
  TypeOK /\ TransferTypeOK /\ RequestInv /\ PostedInv /\ OpenHoldIsKnown /\ [TransferNext]_tvars
    => OpenHoldIsKnown'
<1> SUFFICES ASSUME TypeOK, TransferTypeOK, RequestInv, PostedInv, OpenHoldIsKnown,
                    [TransferNext]_tvars
             PROVE  OpenHoldIsKnown'
  OBVIOUS
<1>1. CASE UNCHANGED <<step, reply, lapsed, hold>>
  BY <1>1 DEF OpenHoldIsKnown, HoldsTheHold, Answered
<1>2. ASSUME NEW p \in Payments, Start(p)
      PROVE  OpenHoldIsKnown'
  <2>1. /\ step'[p] = "authorise" /\ UNCHANGED <<reply, lapsed, hold>>
        /\ \A q \in Payments \ {p} : step'[q] = step[q]
        /\ ~HoldsTheHold(p)
    BY <1>2, StartStep DEF vars, moneyVars, Idle, Closed, Results, HoldsTheHold
  <2>2. \A q \in Payments : HoldsTheHold(q) => HoldsTheHold(q)'
    BY <2>1 DEF HoldsTheHold
  <2> QED BY <2>1, <2>2 DEF OpenHoldIsKnown, Answered
<1>3. ASSUME NEW p \in Payments, Progress(p)
      PROVE  OpenHoldIsKnown'
  BY <1>1, <1>3, ProgressMoves, HoldKnownProgress DEF vars, moneyVars
<1>4. ASSUME NEW m \in inflight, Serve(m)
      PROVE  OpenHoldIsKnown'
  BY <1>4, HoldKnownServe
<1>5. CASE Meanwhile
  BY <1>1, <1>5 DEF Meanwhile, FreezeBy, Unfreeze, UnfreezeBy, Expire, moneyVars, runVars
<1> QED BY <1>1, <1>2, <1>3, <1>4, <1>5
        DEF TransferNext, Lose, RestartWorker, tvars, runVars, vars, moneyVars

\* A payment that has failed leaves no hold open, its hold was never placed, was captured,
\* or its release has been executed (H2), unless a hold or a release went unanswered or
\* the release failed on every attempt.
THEOREM TransferFailureFreesTheHold == TransferSpec => []FailureFreesTheHold
<1>1. OpenHoldIsKnown => FailureFreesTheHold
  <2> SUFFICES ASSUME OpenHoldIsKnown, NEW p \in Payments, hold[PaymentKey[p]].status = "open",
                      \A q \in Payments : PaymentKey[q] = PaymentKey[p] =>
                        Idle(q) /\ lapsed[q] \cap {"hold", "release"} = {}
               PROVE  FALSE
    BY DEF FailureFreesTheHold
  <2>1. PICK q \in Payments : PaymentKey[q] = PaymentKey[p] /\ HoldsTheHold(q)
    BY PaymentTypes DEF OpenHoldIsKnown, Answered
  <2> QED BY <2>1 DEF HoldsTheHold, Idle, Closed, Results
<1> QED BY <1>1, InitRequests, HoldKnownStep, AlwaysRequests, AlwaysPosted, TransferTypes,
           LedgerOfTransfer, PTL DEF TransferSpec
=============================================================================
