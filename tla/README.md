# EPHERA: specifications

TLA+ specifications of EPHERA, from the ledger's transactions to the buttons of its
apps and consoles, checked with TLC and proved with TLAPS. `PROJECT.json` lists the
components, the runs, the mutants, the map from definitions to source lines, the
findings, the hazards and the theorems. Source paths below are relative to `src/`.

## The system

| component | state it keeps | operations | what makes it correct |
|---|---|---|---|
| ledger (`services/ledger`) | Postgres: accounts, balances, holds, journal entries, postings, spent grants, receipts, evidence | hold, release, capture, freeze, unfreeze, receipts | balances are the sum of postings; reservations are the open holds; one debit per key and per grant; nothing leaves a frozen account; every change evidenced |
| payments workflow (`services/payments/internal/workflow`) | a Temporal history per idempotency key | quote, authorise, hold, capture, release, rail, receipt | what it reports is what the ledger did; no delivery before the ledger record; a failure leaves nothing reserved; it ends |
| mobile-money rail (`internal/adapter/mobilemoney`) | a map of executions in the worker's memory | quote, execute, status | one payout per key |
| payments API (`services/payments/cmd/api`) | the approval secret, cached flags | prepare, submit, freeze | nothing is submitted that compliance did not approve; a stopped platform takes no payments |
| kill switch client (`internal/flags`) | last flags and their age | poll, decide | stopped stays stopped; unknown is stopped; a stop is read |
| grants (`services/authgrant`), identity (`services/identity-access`) | credentials, challenges, operator sessions | register, challenge, mint, sign in | single use, bound to one transfer, inside its window; the stronger method rules |
| control plane (`services/platform-control-bff`) | change requests, flags, audit chain | propose, decide, apply, append | four eyes; nothing applied unapproved; the audit is one chain |
| admin console (`apps/admin-console`) | a tab: token, panel, the queue as read | sign in, propose, decide, apply | a stale queue does no harm |
| compliance (`services/compliance-risk`) and its console | customers, tiers, documents, decisions, cases; a tab per analyst | decide, submit and review documents, set tier, close case | concurrent payments never exceed the daily limit; tiers rest on evidence; a decision on a case stands |
| mobile app (`apps/mobile`) | the screen, stored settings, sounds, the offline queue | navigate, change, freeze, send, speak | the freeze is near and shown as it is; settings are neither lost nor shown wrong; one visit sends one payment |
| web app (`apps/consumer-pwa`) | one page: tab, form, status | quote, register a passkey, send | "settled" is settled; the attempt ends |

A payment goes like this. An app asks the payments API to *prepare* it: compliance
decides under the customer's lock and the API signs an approval token. The app gets a
*grant* from identity, by passkey or by the sandbox authenticator, bound to that
transfer, and *submits*: the API checks the kill switch as it last read it, the token
and the transfer, and starts a workflow named after the idempotency key. The workflow's
activities call the ledger over HTTP with a timeout and then the rail; the ledger
verifies the grant again and does everything else in one transaction. Operators work
through the control plane, which keeps the changes that need two of them, passes
decisions on cases, documents and tiers to compliance, and writes every request to
its audit chain.

What is hard: requests that time out and are executed later; retries with an expired
grant; a key submitted again after a failure; a hold settled by two transactions; a
worker that loses its memory; an effect that comes before its record; concurrent
decisions on one limit; copies of a queue that are stale when a button is pressed; a
record read, patched and written back by two changes at once; answers that arrive for
a screen that has been left. `hazards` in `PROJECT.json` has them all, each at its
line.

## Modules

| module | models | composed of |
|---|---|---|
| `Ledger` | the ledger's store: one action per database transaction | |
| `DomesticTransfer` | the workflow, the messages between it and the ledger, the rail | `Ledger` |
| `SendMoney` | both apps' send forms, and prepare, grant and submit at the services | |
| `ChangeControl` | abstract: what the control plane promises about a change | |
| `ControlPlane` | requests, change rows, effects, audit chain | implements `ChangeControl` |
| `KillSwitch` | the flag client of the payments API: polls, restarts, what it permits | `ChangeControl`, which moves the switch |
| `Console` | the admin console on top | `ControlPlane` |
| `Compliance` | decisions, tiers, documents and cases of one customer | |
| `CaseReview` | operators' requests through the control plane, the compliance console | `Compliance` |
| `MobileNavigation` | the tabs and screens of the mobile app and every button between them, the steps of the send screen among them | |
| `MobileStorage` | the stored records, AsyncStorage, the providers | `MobileNavigation` |
| `MobileApp` | the wallet as screens show it, the freeze, custom sounds, crashes | `MobileStorage` |
| `MCLedger`, `MCTransfer`, `MCSend`, `MCConsole`, `MCKillSwitch`, `MCReview`, `MCMobile` | the instances TLC checks | |
| `LedgerProofs`, `LedgerEntryProofs`, `TransferProofs`, `ControlProofs`, `ReviewProofs`, `SendProofs`, `MobileProofs`, `MobileStorageProofs` | the theorems | |

### Ledger

| variable | table |
|---|---|
| `status` | `accounts.status` |
| `balance`, `held` | `account_balances.balance_minor`, `hold_minor` |
| `hold` | `holds`, by idempotency key |
| `entry` | `journal_entries`, by idempotency key |
| `postings`, `receipts` | the rows of those tables |
| `spent` | `authorisation_grants` |
| `evidence`, `freezeLog` | `authorisation_evidence` of captures, and of restrictions |
| `expired` | the clock, as far as grants notice it |

`PlaceHold`, `ReleaseHold`, `CaptureTransfer`, `FreezeBy`, `Unfreeze` and `UnfreezeBy`
are the functions of those names in `store.go`. `CaptureTransfer` includes everything
its transaction writes: the hold, the entry, four postings, three balances, the spent
grant, the receipt and the evidence. Guards are the code's checks and the database's
key constraints. The floor trigger of migration 004 is *not* a guard: `WalletFloor`
says it never has to fire. A refused or repeated call is a stuttering step.

Two abstractions matter. A transaction is atomic: in the code it locks the rows it
reads (accounts, balance, hold), and the key constraints reject the rest. It can also be
aborted, by a deadlock or a lost connection; here that is a stuttering step, and
`DomesticTransfer` has the answer the caller gets. And a row is named by its
idempotency key instead of a generated id, which is sound because both columns are
UNIQUE and the workflow derives one from the other.

### DomesticTransfer

`step`, `attempt` and `reply` are where a workflow run stands; `inflight` holds the
requests that the ledger has neither executed nor lost, `late` when nobody waits for
the answer any more; `lapsed` remembers which activities had an attempt without an answer,
and a release that was given up. An activity is attempted up to `MaxAttempts` times (3 in
the code). `TimeOut` ends an attempt at any moment: the request may already have been executed, may be
executed later (`ServeHold`, `ServeCapture`, `ServeRelease` on a late request), or be
lost (`Lose`). Any request can also be answered with an error although every guard holds
(`Aborted`): its transaction was aborted, or the ledger could not reach its database. The
workflow takes that like a refusal and retries; when it gives up a release, it drops the
error. A commit whose acknowledgement is lost between the database and the ledger is
modelled as an attempt without an answer. `RestartWorker` forgets the rail's map. `Start`
lets a closed workflow be submitted again, as Temporal does when no reuse policy is set. `Meanwhile` lets
accounts be frozen and unfrozen and grants expire at any moment.

Abstracted: the quote (pure), descriptions and summaries, retry intervals, and the
worker's copy of a receipt. A rail attempt that times out has its effect when it times
out: its context is cancelled then (`sim.go:82-87`), so no payout of it comes later.

### SendMoney

| variable | code |
|---|---|
| `visit` | the mounted `SendScreen`: step, recipient, amount, the intent it was opened with, `busy` |
| `web` | the page of `PwaShell`: tab, what it waits for, `busy` |
| `runs` | one record per tap on authorise: its idempotency key, where it is, its verdict, grant and workflow, and how it ended for the customer |
| `queue` | the mobile offline queue |
| `registered`, `stopped`, `posted` | identity's credentials, the kill switch as the API sees it, the ledger |

Each tap is a sequence of calls: `Prepare`, then on mobile the stand-in passkey and the
sandbox grant (`MobileGrant`), on the web `Challenge` and `PasskeyGrant` or
`SandboxGrant`, then `Submit` and `Answer`. Every call can be refused or lose its answer.
`EndAs` is what the end of a tap does to the screen it belongs to, if it is still there.
A workflow runs, posts (`Post`, after a reported failure too, as `DomesticTransfer`
shows) and ends (`FlowEnds`); a second submission under a running key joins it
(`Joins`). `OpenSend`, `LateIntent` and the rest are the form; `Others` are a passkey
registered on another device and the kill switch.

Abstracted: quotes and fees, the currency of a code, what a compliance decision rests on
(`Compliance` has that). Recipients all map to one account in the code
(`SendScreen.tsx`), so a run has no payee. An id made from the time is named by when it
was made, visit and revision of the form, so two different moments never collide.

### ChangeControl, ControlPlane and Console

`ChangeControl` is the promise: a change is proposed by one operator, decided by
another, carried out only when approved, recorded as applied only when carried out; the
switch of payments moves in no other way. `ControlPlane` is the service: `changes` are
the rows of `change_requests`, `late` those past `expires_at`, `done` what an effect has
left behind, `sends` the flag `payments.sends_enabled`, `calls` each operator's request
under way. `Propose`, `Decide`, `ApplyRead`, `ApplyEffect`, `ApplyFails` and
`MarkApplied` are the handlers' steps between two of which a crash, a cancelled request
or another operator can come; `ReadTip`, `Chain` and `AuditFails` append to the audit
log, whose entries are abstracted to whether each links to the one before (`intact`).
`Interrupt` ends a request after any step. `KeepsChangeControl` is the refinement (`INSTANCE ChangeControl`).

`Console` adds a browser tab per operator: session token, whether the control-plane
panel is on the screen, who it shows as signed in, the queue *as read*. Requests of a tab
enter `ControlPlane` with `Arrive`; operators without a tab call the API themselves, and
can ask for what the panel does not offer (`resume_payments`, payloads).

Abstracted: one request and one token per operator at a time; the read of a change and
the authorisation of the operator who applies it are one step; read-only requests are
left out.

`KillSwitch` is the other end of the switch: `sends` moves as `ChangeControl` allows, and
`api` is the flag client of the payments API. `ServeFlags` is the control plane's answer
to a poll, `TakeFlags` its arrival, with the switch free to move in between, `PollFails`
a poll without an answer, and `ApiRestarts` forgets everything. Polls follow one another,
as in the loop of `StartRefreshing`. `SendsAllowed` does not look at the age of what was
read: a stale flag that permits still permits (`flags.go:129-133`, and the test
`TestRunningContinuesWhenStaleButSaysSo`), although the comment on `MaxStaleness` says
that a value past it is treated as unknown. So the client keeps no age here.

### Compliance and CaseReview

`Compliance` has one customer: `tier` and `evidence` are the rows of `customers` and
`verification_documents`, `asks` the requests for a decision with what each has read
before it took the lock, `rows` the decisions, `locked` the subject lock, `cases` the
queue. `Ask` reads the standing, `Begin` takes the lock and fixes the day, `Evaluate`
counts what was spent, `Record` commits, `Answer` raises the case of a held payment.
`Fail` and `Midnight` come at any moment. Screening and monitoring may raise any
outcome, a free choice here.

`CaseReview` adds the operators: a request that the control plane passes on
(`CloseCase`, `ReviewDocument`, `CheckEvidence` then `SetTier`, `Refused`), its audit
entry (`Audit`, after the effect), its interruption; and the compliance console with its
copy of the queue. A verified document counts until its expiry date, which nothing in the
code sets (`Missing`). A request is admitted and passed on in one step; a call downstream
that outlives the control plane's timeout is cancelled with it.

### MobileNavigation, MobileStorage and MobileApp

`nav` is the active tab, the one screen above it, and the step of the send screen while
that is the one: its header leads one step back before it leads away (`StepBack`), and a
screen that hands it an intent opens it at the review, from which it leads away at once. Every screen's buttons are a set of
names (`HomeLinks`, `ProfileLinks`, ...), which `Resolve`, `AfterGo` and `AfterTab` turn
into the next `nav` as `App.tsx` does; a product screen without a branch of its own ends
where the code ends.

`disk` is AsyncStorage, `ops` the operations asked of it, served in order; `Patch` is the
read, merge and write of `security-store` and `identity-store` as the two operations they
are, with other changes between them; `mem` is what the providers of theme, language and
sounds hold, who write every change and read once at launch (`hydrate`). `copy` is the
record the mounted screen shows. `MobileApp` adds the wallet: `frozen` is the mounted
screen's idea of it, `reads` its balance requests, `call` its freeze or unfreeze, `late`
such requests nobody waits for, which may be carried out later. Imports and removals of
a custom sound are `jobs` of several steps, started with the provider's state of that
moment. `Kill` ends the app with all that was not done.

`overtaken`, `behind`, `settled`, `sure` and `torn`, and `fresh` of a balance request, are
history: they say which changes overlapped, so that the properties claim what the code
keeps and no more. `fresh` is set when a balance is read and lost when the wallet changes
without the screen, `sure` is that of the answer the screen took last; so overlapping
loads of the home screen are covered, whichever answer arrives last. (`told` in
`KillSwitch` is history too.) The identity screen takes its tier from the profile when
that differs from the stored one (`IdentityScreen.tsx:58-61`); nothing in the app sets
either, so `ServeLoad` shows the stored record.
AsyncStorage is taken to be in order and not to fail.

## Runs

| run | shows | bounds |
|---|---|---|
| `ledger` | all ledger properties, every order of transactions | two keys, so one can be reused and two compete for a grant; four grants: two for one transfer, one from the sandbox authenticator, one across currencies; a transfer with a fee, one back, one to another currency; one freeze order |
| `transfer_alone` | one payment alone: what failure means, the rail, liveness, and that the workflow implements the ledger | three attempts, two submissions, one worker restart, one freeze order |
| `transfer_resubmitted` | the key: three payments under one key, three submissions | one attempt each, so an unanswered attempt is final; requests of all three stay in flight |
| `send_money` | which taps submit what, under which key, on whose word, and what the customer is told | two taps on either app (`MaxRuns`), five things done by customers and operators (`MaxActs`): open, fill, authorise, walk back or edit, authorise again |
| `control_plane` | four eyes as a refinement, and the audit chain | a maker at the API and a checker at the console, two changes (stop and resume), six acts (`MaxActs`) among proposals, decisions, applications, sign-outs, suspension and deadlines |
| `kill_switch` | that a stop which was read stays one, and that a stop is read | three changes, each a stop or a resumption and carried out any number of times; any number of polls, failures and restarts |
| `case_review` | the daily limit, the evidence of a tier, the standing of a decision | two payments of 2 or 3 against a limit of 3, so one fits and two do not; one document, two tiers, two days, an officer at the API and an analyst at the console, four acts; the two payments are symmetric |
| `mobile_app` | the freeze and its display, stored settings, sounds | all screens; three changes (`MaxEdits`), the first after any walk, the rest on the screens that keep something (`Core`), on two fields of the security record (`Touched`) |
| `unfreeze_evidence`, `failed_but_posted`, `failed_hold_kept`, `delivered_twice` | statements of the repository its code does not keep; see `findings` | one payment, one submission, three attempts, one restart |

The bounds are enough for each hazard to occur. A hold can be captured, released and
named again by another key; a capture can be executed after the workflow has failed,
been resubmitted and used a second grant. Two operators can apply one approved change
together while a third request waits for the audit lock. Two payments can be between the
read of the standing and the lock while the tier is raised and midnight passes. Three
changes of a setting can overlap on one record, or two with the app killed between them.
Each passing property is broken by a plausible fault (`mutants`); the faults are the
operators marked `Fault:` before the definition they replace, and nothing in the
specifications uses them. The constants named `Max...` bound what actors do and no
handler; polls, launch, navigation and answers are not bounded.

Deadlock is checked in `kill_switch` and `mobile_app`, which can always do something. In
the other runs a bounded set of payments, taps, acts or decisions ends.

What the runs say of the workflow, besides the properties:

- a `settled` or errored payment is posted, under its own transfer, once;
- `failed` means "not posted" only for the first submission with a key and only when
  no capture was left unanswered (`FirstFailureIsTrue`); otherwise it may be posted
  (`failed_but_posted`) and a resubmission with the key and a fresh grant is safe
  (`KeyPaysOnce`) and answers with the posted entry;
- a failure leaves no open hold unless a hold or a release went unanswered, or the ledger
  answered each attempt to release with an error (`FailureFreesTheHold`), and then it may,
  for ever (`failed_hold_kept`);
- the capture comes before the rail (`DeliveryFollowsCapture`), so a delivery the rail
  rejects leaves the transfer captured and settled. The workflow's comment says so
  (`domestic_transfer.go:67-72`); `docs/TRUST.md:42`, "a failed payment rail releases the
  hold on the customer's funds and does not capture", has the order the code had before.

What modelling the apps and the control plane showed, stated where it matters as the
behaviour of a definition:

- The mobile app submits without the approval token (`SendScreen.tsx:191-202`), so the
  server refuses every one of its payments; they go to the offline queue, and nothing in
  the app flushes it (`CarriesToken`, `Enqueue`).
- Both apps take the 202 of a held payment for success and go on; it is not posted
  because the later steps need a transfer id that a held one lacks (`HeldIsNotPosted`).
  Clearing its case does not release it: the customer has to send again.
- A second tap of the web app is a new payment, its key is the time (`WebSend`); one of
  the mobile app repeats the key while the form is untouched (`RetryKeepsKey`).
- The console offers no `resume_payments` and proposes without a payload, so the changes
  that need one fail when they are applied; an operator's wallet freeze is always refused
  by the ledger, which asks for roles an operator session does not carry (`Effective`).
- Two operators who apply one change together, or one after a crash, repeat its effect;
  expiry is not looked at again once a change is approved. A late repetition of
  a resumption can lift a newer stop, which `StopReachesPayments` allows.
- While the control plane cannot be read, the payments API goes on with the flag it has:
  a stop does not reach it (`PollFails`). A stop it has read, it keeps (`StopIsKept`).
- A failed audit append is logged and the request goes on: the chain is a chain, but
  not complete.
- Signing out does not stop what a tab is waiting for (`LateLogin`), and a call that
  throws leaves its buttons disabled until the panel or page is opened anew.
- The daily limit counts decisions, not payments: an allowed one that is never sent is
  spent. A held payment may lack a case when raising it fails.
- A freeze whose answer is lost may be carried out after the screen has said it failed
  (`ServeLate`). On the home screen a balance that was read before a change stays shown when
  it arrives after a newer one, and a first balance that fails shows any wallet as active.
  Otherwise the screens are right about the wallet (`FrozenIsShown`).
- From the send screen the freeze is four taps away, not three (`FreezeIsNear`): at the
  amount, back leads to the recipient first. A dialog on a screen takes one more.

### Fairness

- `FairTransferSpec` assumes weak fairness of each workflow's own steps, including the
  time-out of an attempt. Temporal persists its timers, so a start-to-close timeout
  fires whatever the worker does and the next step is scheduled. Nothing is assumed of
  the ledger, of the network, or of late requests: `SubmissionCloses` holds with a
  ledger that never answers.
- `SendFairness` is weak fairness of the next step of each tap: a call is answered or
  fails, and a passkey prompt times out. That the answer is a success is not assumed.
- `KillSpec` has weak fairness of `Refresh`, which is all the ticker in `flags.go:139-156`
  guarantees: that there is another poll, or a next step of the one under way, and nothing
  of its outcome. `StopReachesPayments` therefore says that a stop is read or a poll fails.

## Proofs

All theorems hold for any values of the constants that satisfy the named assumptions,
which TLC evaluates in every run.

`LedgerProofs` and `LedgerEntryProofs` prove theorems about `Spec` of `Ledger` for any
currencies, transfers, requests and grants, any finite sets of accounts and keys and any
`MaxMinor`, from `LedgerAssumption` (fee accounts are of their currency, openings are
within BIGINT and customers' are not negative, grants bind transfers a caller may
present).

- `Reserved` (`TypeOK`, `HeldIsOpenHolds` and `WalletFloor` together) is inductive. None
  of its parts is alone: a release keeps `held` natural only because the hold it settles
  is counted in `held`, and the floor survives a capture of a hold only because what it
  frees was reserved. The lemmas `PlacingAHold` and `SettlingAHold` say what one hold
  does to a sum over all of them, with the sum written as the cardinality of a set of
  minor units, so no induction over data is needed.
- `PaysOnce` (`EntryIsDocumented`, `GrantPaysOnce` and the correspondence of entries
  and spent grants) is inductive over it: `CapturePaper` says what one capture writes.
- `BalanceIsPostings` follows from `PostedAfter`, which adds one entry's rows to a
  sum; the four legs of a capture are disjoint.
- `LedgerMoneyConserved`: a capture is two moves between accounts of one currency, the
  amount and the fee. `MoneyConserved` counts minor units as a set too, from `-MaxMinor`
  upwards since system accounts may be overdrawn, and `MovingUnits` is the one fact
  needed: when `n` units move, `n` leave the set and `n` join it. The types keep every
  balance in the counted range.
- `LedgerHoldSettlesOnce`, `LedgerFrozenPaysNothing` and `LedgerCapturedHoldPays` are
  action properties, proved step by step from the type and reservation invariants.

`TransferProofs` proves theorems about `TransferSpec` for any payments, keys, grants,
rail refusals, numbers of attempts, submissions and restarts, from `PaymentAssumption`
(each payment's terms, key and hold are ones the ledger accepts as input; at least one
attempt) and `LedgerAssumption`.

- `TransferImplementsLedger`: each step of the workflow, of a request or of the rail is
  a step of the ledger or leaves it alone. The mapping is the identity, since
  `DomesticTransfer` extends `Ledger`. Every theorem about `Spec` therefore holds of
  the composition, and the proofs below use the ledger's types and `EntryIsDocumented`.
- `PostedInv` gives `SettledIsPosted`. It needs that a request still awaited is the one
  the workflow's step sent (`CurrentRequest`), so that an "ok" in step "capture" is a
  capture's; what that "ok" means (`CaptureAnswered`); and that a hold whose key has an
  entry is settled (`EntryHasHold`), which is why nothing is reserved afterwards and
  why a later hold request under the key cannot reserve again.
- `DeliveryFollowsCapture` follows from it and from entries being kept;
  `DeliveredOncePerWorker` from `PayoutsAreRemembered`, which counts a key the worker
  still knows.
- `RequestInv` follows requests: a late one left its activity unanswered, an awaited one
  has no reply yet, and a key submitted once has one payment. Over it `EntryIsKnown`
  (whoever posted a key's only submission knows of it or had a capture unanswered) gives
  `FirstFailureIsTrue`, and `OpenHoldIsKnown` (an open hold is known to a payment that
  has not tried to free it, unless a hold or release lapsed: went unanswered, or, for a
  release, was given up after an error) gives `FailureFreesTheHold`.

`ControlProofs` proves `ControlTyped`, `AuditChained` and `ControlPromised`, the
refinement of `ChangeControl`, about `ConsoleSpec` for any operators, roles, changes and
browsers, from `ControlAssumption` and `ConsoleAssumption`. `ControlInv` is inductive:
`Rows` ties a row's status to its maker and checker; `Behind` says what a request in the
middle of an application has seen, which only stays true because no status but "applied"
follows "approved"; `Lock` says that whoever has read the tip holds the lock and that
the tip is still the tip. Each step of `ControlPlane` then maps to one of
`ChangeControl` (`PromiseStep`) or to a stutter (`ElseStep`). `KillStopIsKept` is about
`KillSpec` for any operators and changes: a client that was told to stop has no answer
under way that says otherwise, and what it knows, if anything, is that stop (`ToldInv`).

`ReviewProofs` proves `TierRests`, `DecisionsStand` and `LimitHolds` about `ReviewSpec`
for any finite set of payments and any tiers, documents and operators, the customer among
the operators too, from `ComplianceAssumption` and `ReviewAssumption`. `ReviewInv` is
inductive: a request that checked the evidence still has it when it sets the tier, because
a reviewed document is not reviewed again, and a closed case is not closed again.
`LimitInv` is what the daily limit needs besides: an evaluated payment holds the
customer's lock, so nobody adds to a day between its sum and its row, and an allowed one
has room under the tier *it* read, which may no longer be the customer's. That is why the
limit is one of a tier some payment of the day was decided on.

`SendProofs` proves six theorems about `SendSpec` for any recipients, amounts and number
of taps, over three invariants.

- `SendInv` says of each tap what its stage has behind it: a tap that was let past the
  request for a grant has a transfer of its own that was allowed, one that submits has a
  grant that vouches for its subject (not the sandbox authenticator's, if the subject had
  a passkey when the transfer was asked for), and a workflow that settled is posted; only
  what a workflow ran for is. A tap that joins another's workflow under its key ends
  "settled" only because that other transfer is posted. It gives `SendHeldIsNotPosted`,
  `SendSuccessIsPosted` and `SendStrongerMethodRules`.
- `FormInv` ties the form on the mobile screen to the taps made on it: a busy form has at
  most one tap under way, the form of a submitted tap is at its end and stays there, and
  the key of a tap of the form's present revision is the one the form would make now.
  Taps of earlier visits are told apart by the visit's number. It gives
  `SendOneSubmission` and `SendRetryKeepsKey`.
- `TypeInv` adds what the screens and the queue hold, for `SendTyped`. That a form under
  review names a recipient is not typing: an intent without one can arrive at any step, and
  the form only gets past "amount" with a name (`Named`).

`MobileProofs` proves `MobileFrozenIsShown` and `MobileFreezeIsNear` about `MobileSpec` for
any number of changes. `WalletInv` says that the freeze screen waits for one thing at a
time (its first balance, a request, or the balance after it), so that no answer can undo
a later one, and what a screen that was told, or the answer on its way to it, says of the
wallet; `fresh` is what makes it hold of every answer, also where loads overlap. `NavInv`
says that every button names a tab or a screen, every screen has a branch and only the send
screen has a step; over it the way to the freeze screen is back, the profile tab and its
button, three steps of the function `FreezeIn`, whose equations `FreezeInSteps` derives, or
four when the first back only leads from the amount to the recipient.

`MobileStorageProofs` proves the rest of the app, for any number of changes, from
`StorageAssumption` and `UnsetAssumption` (no item that is stored is the absence of one).
Every step does one thing to the queue of storage operations: the k-th leaves, or none, and
one joins at the end, or none (`Moves`). `Places`, `QueueMoves` and `PrefsMove` say once
what that leaves of the others and their order; each invariant then only looks at what
left and what joined.

- `StoreInv` has the kinds of everything stored and on its way, and the queue's shape:
  reads at launch come before all else and each preference is in one of them, the mounted
  screen has one load at most, what a screen that has been left asked for does not show.
- `MobileShownIsStored` is then a matter of which operations set `copy`, since a write of
  a screen that is still there carries the whole record.
- `MobileFinishedChangeSurvives` needs `SettledInv`: what is settled is on the disk, every
  write on its way agrees with it and no change on its way asks for any of it, and a change
  that is still alone is the only one of its record.
- `MobilePrefsAreStored` needs `PrefInv`: the last write on its way of a preference that is
  not overtaken carries what memory holds; with none on its way the disk has it, unless the
  read at launch is still to come, and then memory has the default. A custom colour's
  second write is the last of the mood (`MoodLast`), an import or removal is the only one,
  of the sounds memory holds (`JobsLast`).
- `MobileCustomSoundExists` needs `FilesInv`: nothing names the file of an import that is
  not recorded (`NewFile`), so removing a file that is in use hurts no import; and a name
  of a file that is gone is followed by a write that names one that is there, or by a job
  about to ask for that write (`Replaced`). A kill that finds neither sets `torn`. While
  the stored sounds are not read yet, nothing that is started can remove their file.
- `MobileTyped` combines all of these.

Every invariant and action property of the passing runs is thus proved, and
`BalanceIsPostings` besides. Only
model-checked are `SubmissionCloses`, `AttemptEnds` and `StopReachesPayments`: liveness
under fairness, which needs `ENABLED`, is beyond the provers used.

## Not modelled

- *Row locks of the ledger.* Transactions are atomic in `Ledger`, and any of them may be
  aborted in `DomesticTransfer`; which lock orders make Postgres do so is not modelled.
- *Bounded authority* (`modules/boundedauth`): no service calls it.
- *Challenges, enrolment tokens and sign counters of identity*: what they protect is in
  `SendMoney` and `ControlPlane` as which method may mint and which session verifies.
- *Native posting core* (`native/financial-core`): a pure library that no service links.
- *Voice intent, fuzzy screening, behavioural detection*: pattern matching and
  floating-point statistics without state. Their outcome is a free choice where used.
- *Bank rail and airtime workflow*: a stateless variant of the rail, and a workflow that
  moves no ledger money.
- *Provider portal*: its pages send no credentials, so the services refuse every call
  that would change something. The connect layer and the SDK have no caller.
- *Seeds of the admin console's other sections, presentation, balances on the web page*:
  nothing changes in them.
- *Profile store, older Home, Profile and Services screens, the screens under `app/`*:
  no screen in use leads to them.
- *The flush of the offline queue*: written and tested, called by nothing.
- *Failing storage on the device, a second page of the web app.*
