-------------------------- MODULE DomesticTransfer --------------------------
(***************************************************************************)
(* The DomesticTransferSim workflow of services/payments and the ledger it *)
(* calls.  Temporal runs the workflow's activities one at a time, each up  *)
(* to MaxAttempts times; an attempt of a ledger activity is one HTTP       *)
(* request.  An attempt ends when its answer arrives, with the ledger's    *)
(* refusal, or unanswered after a timeout or a worker crash: its request   *)
(* may then have been lost, have been executed, or still be executed.      *)
(*                                                                         *)
(* A payment is one workflow input.  Its idempotency key is the workflow   *)
(* id, names its hold (key + ":hold") and its journal entry (key +         *)
(* ":capture"); the two tables are separate, so one key stands for both.   *)
(* The compliance decision, the kill switch and the approval token that    *)
(* precede the workflow are not part of this module, nor are quotes,       *)
(* summaries and the worker's own copy of the receipt.  As in Ledger, an   *)
(* operator that no other definition uses is a fault for a run to put in   *)
(* the place of the definition after it.                                   *)
(***************************************************************************)
EXTENDS Ledger

CONSTANTS
  Payments,        \* workflow inputs the API may submit
  PaymentTerms,    \* the transfer of each
  PaymentKey,      \* its idempotency key
  PaymentGrant,    \* its authorisation grant
  RailRefuses,     \* the payments whose provider rejects the delivery (FailMode)
  MaxAttempts,     \* RetryPolicy.MaximumAttempts
  MaxRuns,         \* model bound: submissions with one key
  MaxRestarts      \* model bound: restarts of the worker

\* The hold the workflow places for a payment.
HoldOf(p) == [account  |-> PaymentTerms[p].from,
              amount   |-> PaymentTerms[p].amount + PaymentTerms[p].fee,
              transfer |-> PaymentTerms[p].transfer]

ASSUME PaymentAssumption ==
  /\ PaymentTerms \in [Payments -> Terms]
  /\ PaymentKey \in [Payments -> Keys]
  /\ PaymentGrant \in [Payments -> Grants]
  /\ \A p \in Payments : HoldOf(p) \in HoldTerms
  /\ RailRefuses \subseteq Payments
  /\ MaxAttempts \in Nat \ {0}
  /\ MaxRuns \in Nat
  /\ MaxRestarts \in Nat

VARIABLES
  step,        \* where each payment's workflow stands, or how it closed
  attempt,     \* the attempt of the current activity
  reply,       \* what came back for the latest request
  inflight,    \* requests the ledger has not executed
  lapsed,      \* ledger activities with an attempt that got no answer, in any run, and
               \* releases that were given up
  runs,        \* submissions so far, by idempotency key
  delivery,    \* DeliveryStatus of this run
  delivered,   \* payouts the rail has made, by idempotency key
  seen,        \* the rail's dedup map, in the worker's memory (Sim.byKey)
  restarts

runVars  == <<step, attempt, reply, inflight, lapsed, runs>>
railVars == <<delivery, delivered, seen, restarts>>
tvars    == <<vars, runVars, railVars>>

LedgerOps == {"hold", "capture", "release"}
Results   == {"denied", "failed", "settled", "error"}
Steps     == {"idle", "authorise", "rail", "receipt"} \cup LedgerOps \cup Results

\* A late request is one whose attempt is over: nobody waits for its answer.  Two
\* late requests for one activity are kept as one, since the ledger's handlers are
\* idempotent and the second changes nothing that the first has changed.
Requests  == [pay: Payments, op: LedgerOps, late: BOOLEAN]

TransferTypeOK ==
  /\ step       \in [Payments -> Steps]
  /\ attempt    \in [Payments -> 0..MaxAttempts]
  /\ reply      \in [Payments -> {"none", "ok", "refused"}]
  /\ inflight   \subseteq Requests
  /\ lapsed     \in [Payments -> SUBSET LedgerOps]
  /\ runs       \in [Keys -> 0..MaxRuns]
  /\ delivery   \in [Payments -> {"none", "delivered", "delivery_failed"}]
  /\ delivered  \in [Keys -> Nat]
  /\ seen       \subseteq Keys
  /\ restarts   \in 0..MaxRestarts

TransferInit ==
  /\ Init
  /\ step       = [p \in Payments |-> "idle"]
  /\ attempt    = [p \in Payments |-> 0]
  /\ reply      = [p \in Payments |-> "none"]
  /\ inflight   = {}
  /\ lapsed     = [p \in Payments |-> {}]
  /\ runs       = [k \in Keys |-> 0]
  /\ delivery   = [p \in Payments |-> "none"]
  /\ delivered  = [k \in Keys |-> 0]
  /\ seen       = {}
  /\ restarts   = 0

Closed(p) == step[p] \in Results
Idle(p)   == step[p] = "idle" \/ Closed(p)

-----------------------------------------------------------------------------
(* The workflow *)

\* Submission.  Temporal refuses a second open workflow of one id and lets a
\* closed one be submitted again.
Start(p) ==
  /\ \A q \in Payments : PaymentKey[q] = PaymentKey[p] => Idle(q)
  /\ runs[PaymentKey[p]] < MaxRuns
  /\ runs' = [runs EXCEPT ![PaymentKey[p]] = @ + 1]
  /\ step' = [step EXCEPT ![p] = "authorise"]
  /\ delivery' = [delivery EXCEPT ![p] = "none"]
  /\ UNCHANGED <<vars, attempt, reply, inflight, lapsed, delivered, seen, restarts>>

Overdue(p) == {IF m.pay = p THEN [m EXCEPT !.late = TRUE] ELSE m : m \in inflight}

\* Send the request of attempt n of activity op.
Request(p, op, n) ==
  /\ step' = [step EXCEPT ![p] = op]
  /\ attempt' = [attempt EXCEPT ![p] = n]
  /\ reply' = [reply EXCEPT ![p] = "none"]
  /\ inflight' = Overdue(p) \cup {[pay |-> p, op |-> op, late |-> FALSE]}

\* Go to a step that makes no ledger request.
Go(p, s) ==
  /\ step' = [step EXCEPT ![p] = s]
  /\ attempt' = [attempt EXCEPT ![p] = IF s = "rail" THEN 1 ELSE 0]
  /\ reply' = [reply EXCEPT ![p] = "none"]
  /\ inflight' = Overdue(p)

\* RequireAuthorisation: signature, window and binding, but not the method.
WorkerAuthorises(p) ==
  /\ PaymentGrant[p] \notin expired
  /\ GrantTerms[PaymentGrant[p]] = PaymentTerms[p]

\* Quote, then RequireAuthorisation; either may also exhaust its attempts.
Authorise(p) ==
  /\ step[p] = "authorise"
  /\ \/ WorkerAuthorises(p) /\ Request(p, "hold", 1)
     \/ Go(p, "denied")
  /\ UNCHANGED <<vars, lapsed, runs, railVars>>

\* Fault: the rail is called on the strength of the hold alone.
SucceedRailFirst(p) ==
  /\ step[p] \in LedgerOps /\ reply[p] = "ok"
  /\ Go(p, IF step[p] = "release" THEN "failed" ELSE "rail")
  /\ UNCHANGED <<vars, lapsed, runs, railVars>>

\* The answer of the current request arrives in time.
Succeed(p) ==
  /\ step[p] \in LedgerOps /\ reply[p] = "ok"
  /\ CASE step[p] = "hold"    -> Request(p, "capture", 1)
       [] step[p] = "capture" -> Go(p, "rail")
       [] step[p] = "release" -> Go(p, "failed")
  /\ UNCHANGED <<vars, lapsed, runs, railVars>>

\* Fault: one attempt too many.
RetryOnceMore(p) ==
  IF attempt[p] <= MaxAttempts THEN Request(p, step[p], attempt[p] + 1)
  ELSE IF step[p] = "capture" THEN Request(p, "release", 1)
  ELSE Go(p, "failed")

\* Fault: no maximum of attempts.
RetryForever(p) == Request(p, step[p], attempt[p])

\* Fault: a failed capture leaves the hold.
GiveUpWithoutRelease(p) ==
  IF attempt[p] < MaxAttempts THEN Request(p, step[p], attempt[p] + 1)
  ELSE Go(p, "failed")

\* An attempt has failed: try again, or take the activity's error branch.  The
\* error of ReleaseLedgerHold is ignored; a hold that was not granted, as far as
\* the workflow knows, is not released.
RetryOrGiveUp(p) ==
  IF attempt[p] < MaxAttempts THEN Request(p, step[p], attempt[p] + 1)
  ELSE IF step[p] = "capture" THEN Request(p, "release", 1)
  ELSE Go(p, "failed")

Refused(p) ==
  /\ step[p] \in LedgerOps /\ reply[p] = "refused"
  /\ lapsed' = IF step[p] = "release" /\ attempt[p] = MaxAttempts
               THEN [lapsed EXCEPT ![p] = @ \cup {"release"}] ELSE lapsed
  /\ RetryOrGiveUp(p)
  /\ UNCHANGED <<vars, runs, railVars>>

\* The client's 15 s or the activity's 30 s pass, or the worker dies: whatever
\* the ledger answered is lost.
TimeOut(p) ==
  /\ step[p] \in LedgerOps
  /\ lapsed' = [lapsed EXCEPT ![p] = @ \cup {step[p]}]
  /\ RetryOrGiveUp(p)
  /\ UNCHANGED <<vars, runs, railVars>>

-----------------------------------------------------------------------------
(* The ledger's handlers *)

Answer(m, result) ==
  /\ inflight' = inflight \ {m}
  /\ reply' = IF m.late THEN reply ELSE [reply EXCEPT ![m.pay] = result]
  /\ UNCHANGED <<step, attempt, lapsed, runs, railVars>>

\* The transaction fails, or the ledger is out of reach of its database: a deadlock or a
\* lost connection is answered like a refusal, and nothing has changed.
Aborted(m) == UNCHANGED vars /\ Answer(m, "refused")

\* An existing hold with the key is returned whatever became of it; a guard that fails is
\* answered as an aborted transaction is.
ServeHold(m) ==
  LET k == PaymentKey[m.pay]
      r == HoldOf(m.pay)
  IN  /\ m.op = "hold"
      /\ \/ MayPlaceHold(r, k) /\ PlaceHold(r, k) /\ Answer(m, "ok")
         \/ ValidHold(r) /\ hold[k] # NoHold /\ UNCHANGED vars /\ Answer(m, "ok")
         \/ Aborted(m)

\* Fault: any entry with the key answers the request.
AlreadyPostedAny(t, k, g) ==
  ValidTransfer(t) /\ Authorises(g, t) /\ entry[k] # NoKey

\* The grant is verified before the idempotency key is looked up.
AlreadyPosted(t, k, g) ==
  ValidTransfer(t) /\ Authorises(g, t) /\ entry[k] = t.transfer

ServeCapture(m) ==
  LET k == PaymentKey[m.pay]
      t == PaymentTerms[m.pay]
      g == PaymentGrant[m.pay]
  IN  /\ m.op = "capture"
      /\ \/ MayCapture(t, k, k, g) /\ CaptureTransfer(t, k, k, g) /\ Answer(m, "ok")
         \/ AlreadyPosted(t, k, g) /\ UNCHANGED vars /\ Answer(m, "ok")
         \/ Aborted(m)

\* Fault: a hold that was captured is released as well.
ServeReleaseTwice(m) ==
  LET k == PaymentKey[m.pay]
  IN  /\ m.op = "release"
      /\ \/ ReleaseAnyHold(k) /\ Answer(m, "ok")
         \/ Aborted(m)

ServeRelease(m) ==
  LET k == PaymentKey[m.pay]
  IN  /\ m.op = "release"
      /\ \/ ReleaseHold(k) /\ Answer(m, "ok")
         \/ hold[k].status \in {"captured", "released"} /\ UNCHANGED vars /\ Answer(m, "ok")
         \/ Aborted(m)

\* A request that never reaches the ledger.
Lose(m) ==
  /\ inflight' = inflight \ {m}
  /\ UNCHANGED <<vars, step, attempt, reply, lapsed, runs, railVars>>

-----------------------------------------------------------------------------
(* The rail and the receipt *)

\* Fault: the rail does not recognise a repeated key.
PaysOutAgain(p) == p \notin RailRefuses

\* Sim.Execute: a key it remembers gets the first result, without a new payout.
PaysOut(p) == PaymentKey[p] \notin seen /\ p \notin RailRefuses

RailEffect(p) ==
  IF PaysOut(p)
  THEN /\ delivered' = [delivered EXCEPT ![PaymentKey[p]] = @ + 1]
       /\ seen' = seen \cup {PaymentKey[p]}
  ELSE UNCHANGED <<delivered, seen>>

\* Fault: an undelivered payment is reported as a failed one.
DeliverOrFail(p, outcome) ==
  /\ Go(p, IF outcome = "delivered" THEN "receipt" ELSE "failed")
  /\ delivery' = [delivery EXCEPT ![p] = outcome]

\* ExecuteRail verifies the grant again.  Delivery is recorded, never undone.
DeliverTo(p, outcome) ==
  /\ Go(p, "receipt")
  /\ delivery' = [delivery EXCEPT ![p] = outcome]

ExecuteRail(p) ==
  /\ step[p] = "rail"
  /\ \/ /\ WorkerAuthorises(p)
        /\ RailEffect(p)
        /\ DeliverTo(p, IF PaymentKey[p] \in seen \/ p \notin RailRefuses
                        THEN "delivered" ELSE "delivery_failed")
     \/ /\ ~WorkerAuthorises(p)
        /\ DeliverTo(p, "delivery_failed")
        /\ UNCHANGED <<delivered, seen>>
  /\ UNCHANGED <<vars, lapsed, runs, restarts>>

\* An attempt whose outcome is lost, before the payout or after it.
LoseRail(p) ==
  /\ step[p] = "rail"
  /\ (WorkerAuthorises(p) /\ RailEffect(p)) \/ UNCHANGED <<delivered, seen>>
  /\ IF attempt[p] < MaxAttempts
     THEN /\ attempt' = [attempt EXCEPT ![p] = @ + 1]
          /\ UNCHANGED <<step, reply, inflight, delivery>>
     ELSE DeliverTo(p, "delivery_failed")
  /\ UNCHANGED <<vars, lapsed, runs, restarts>>

\* The receipt is read back from the ledger; when the activity itself fails the
\* workflow fails, though the transfer is settled.
CreateReceipt(p) ==
  /\ step[p] = "receipt"
  /\ Go(p, "settled") \/ Go(p, "error")
  /\ UNCHANGED <<vars, lapsed, runs, railVars>>

RestartWorker ==
  /\ restarts < MaxRestarts
  /\ restarts' = restarts + 1
  /\ seen' = {}
  /\ UNCHANGED <<vars, runVars, delivery, delivered>>

\* What happens to the payers and grants meanwhile.
Meanwhile ==
  /\ \/ \E a \in Accounts, by \in {"customer", "operator"} : FreezeBy(a, by)
     \/ \E a \in Accounts : Unfreeze(a) \/ UnfreezeBy(a)
     \/ \E g \in Grants : Expire(g)
  /\ UNCHANGED <<runVars, railVars>>

Progress(p) ==
  Authorise(p) \/ Succeed(p) \/ Refused(p) \/ TimeOut(p)
    \/ ExecuteRail(p) \/ LoseRail(p) \/ CreateReceipt(p)

Serve(m) == ServeHold(m) \/ ServeCapture(m) \/ ServeRelease(m)

TransferNext ==
  \/ \E p \in Payments : Start(p) \/ Progress(p)
  \/ \E m \in inflight : Serve(m) \/ Lose(m)
  \/ RestartWorker
  \/ Meanwhile

TransferSpec == TransferInit /\ [][TransferNext]_tvars

\* Temporal keeps its timers across crashes of the worker, so an activity's
\* timeout always fires and a workflow that can take a step takes it.
FairTransferSpec == TransferSpec /\ \A p \in Payments : WF_tvars(Progress(p))

-----------------------------------------------------------------------------
(* Properties *)

\* The requests of payments with key k that may still reach the ledger.
Pending(k) == {m \in inflight : PaymentKey[m.pay] = k}

\* What the workflow does to the ledger, with every retry, late request and
\* resubmission, is always something the ledger's own specification allows.
ImplementsLedger == Spec

\* A transfer reported as settled, or past its capture, is posted under its key
\* and has nothing left reserved.
SettledIsPosted ==
  \A p \in Payments : step[p] \in {"rail", "receipt", "settled", "error"} =>
    /\ entry[PaymentKey[p]] = PaymentTerms[p].transfer
    /\ hold[PaymentKey[p]].status # "open"

\* However often a payment is resubmitted, with the same grant or with a fresh
\* one for the same transfer, its key is debited once.
KeyPaysOnce ==
  \A r, s \in receipts : r.entry = s.entry => r = s

\* The irreversible delivery never precedes the ledger record (H1).
DeliveryFollowsCapture == \A k \in Keys : delivered[k] > 0 => entry[k] # NoKey

\* Within the life of one worker process a key is paid out once.
DeliveredOncePerWorker == \A k \in Keys : delivered[k] <= restarts + 1

\* H2 as far as the workflow can keep it: once a payment has failed and nothing with its
\* key is under way, its hold is open only if a request to hold or to release went
\* unanswered, or the ledger failed every attempt to release, whose error is dropped.
FailureFreesTheHold ==
  \A p \in Payments :
    LET k == PaymentKey[p]
        same == {q \in Payments : PaymentKey[q] = k}
    IN  /\ step[p] = "failed"
        /\ \A q \in same : Idle(q) /\ lapsed[q] \cap {"hold", "release"} = {}
        => hold[k].status # "open"

\* When the first submission with a key fails and each of its captures got an
\* answer, the failure is the truth: nothing was posted.
FirstFailureIsTrue ==
  \A p \in Payments :
    /\ step[p] = "failed"
    /\ runs[PaymentKey[p]] = 1
    /\ "capture" \notin lapsed[p]
    => entry[PaymentKey[p]] = NoKey

\* Every submission is eventually decided.
SubmissionCloses ==
  \A p \in Payments : (step[p] = "authorise") ~> Closed(p)

-----------------------------------------------------------------------------
(* Statements of the documentation that the code does not keep *)

\* docs/design/money-path-settlement.md:14-15: "a capture failure releases the
\* hold and stops (nothing delivered)".
FailedPostsNothing ==
  \A p \in Payments : step[p] = "failed" => entry[PaymentKey[p]] = NoKey

\* domestic_transfer_test.go:166-167: "A capture that fails releases the hold and
\* stops before the rail. Nothing is delivered, so the reservation must not stand
\* (H2)."  Here the workflow knew of its hold, and nothing is under way.
FailedCaptureFreesTheHold ==
  \A p \in Payments :
    /\ step[p] = "failed"
    /\ "hold" \notin lapsed[p]
    /\ Pending(PaymentKey[p]) = {}
    => hold[PaymentKey[p]].status # "open"

\* docs/design/money-path-settlement.md:18-19: "The rail sim is idempotent on the
\* idempotency key, so a Temporal retry cannot deliver twice".
DeliveredOnce == \A k \in Keys : delivered[k] <= 1
=============================================================================
