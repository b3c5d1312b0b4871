------------------------------ MODULE SendMoney ------------------------------
(***************************************************************************)
(* Sending money from the mobile app and from the web app: what the forms  *)
(* let the customer do while a payment is under way, and the calls a tap   *)
(* on "authorise" makes: prepare at the payments API, a grant from         *)
(* identity, then the transfer.  Each call can fail or lose its answer.    *)
(* What the workflow does is in DomesticTransfer; here it runs, posts or   *)
(* not, and ends.  A compliance answer, a customer's prompt and the        *)
(* platform's kill switch are choices.  Mobile screens are left and opened *)
(* again while their calls go on; reloading the web page ends its calls.   *)
(***************************************************************************)
EXTENDS Naturals, Sequences, FiniteSets

CONSTANTS
  None,         \* model value: no intent, nothing typed
  Names,        \* recipients
  Amounts,      \* amounts in minor units; the QR default is one of them
  QrDefault,    \* what a code without an amount asks for
  MaxActs,      \* model bound: what customers and operators do in all
  MaxRuns       \* model bound: taps on authorise

ASSUME SendAssumption == /\ Amounts \subseteq Nat \ {0} /\ QrDefault \in Amounts
                         /\ Names # {} /\ MaxActs \in Nat /\ MaxRuns \in Nat

VARIABLES
  visit,        \* the mounted send screen of the mobile app
  web,          \* the page of the web app
  runs,         \* one record per tap on authorise, oldest first
  queue,        \* the mobile app's offline queue: the transfers put in it
  registered,   \* identity: the subject has a passkey
  stopped,      \* the kill switch as the payments API sees it
  posted,       \* the transfers in the ledger, by the run that prepared them
  acts          \* what has been done so far

sendVars == <<visit, web, runs, queue, registered, stopped, posted, acts>>

Act == acts < MaxActs /\ acts' = acts + 1

-----------------------------------------------------------------------------
(* The form of the mobile app *)

Steps   == {"recipient", "amount", "review", "done"}

\* An id made from the time is named by when: the visit and the revision of its form.
Now(v)     == <<v.n, v.rev>>
ConstantId == <<0, 0>>

NotMounted(n) == [n |-> n, from |-> None, step |-> "none", name |-> None, amount |-> None,
                  id |-> ConstantId, rev |-> 0, busy |-> FALSE]

\* Fault: the fields are not taken from the intent.
MountedBlank(n, from) ==
  [NotMounted(n) EXCEPT !.from = from, !.step = IF from = None THEN "recipient" ELSE "review",
                        !.id = IF from = None THEN <<n, 0>> ELSE from.id]

Mounted(n, from) ==
  [n |-> n, from |-> from, id |-> IF from = None THEN <<n, 0>> ELSE from.id, rev |-> 0, busy |-> FALSE,
   step   |-> IF from = None THEN "recipient" ELSE "review",
   name   |-> IF from = None THEN None ELSE from.name,
   amount |-> IF from = None THEN None ELSE from.amount]

\* What a payee asks for on his receive screen: an amount, the half of one, or any; the
\* code he shows or sends says so, and one who pays it is asked the default for any.
Requests       == Amounts \cup {None}
Codes          == [name : Names, amount : Requests]
AmountOf(code) == IF code.amount = None THEN QrDefault ELSE code.amount

\* What the app opens the screen with: nothing, a scanned code, a parsed utterance, or
\* the suggestion of the listening screen, whose id is a constant.
QrIntents(now)    == {[id |-> now, sure |-> TRUE, name |-> code.name, amount |-> AmountOf(code)] : code \in Codes}
VoiceIntents(now) == [id : {now}, sure : BOOLEAN, name : Names, amount : Amounts]
Suggestion        == [id |-> ConstantId, sure |-> TRUE, name |-> CHOOSE n \in Names : TRUE, amount |-> QrDefault]

SpokenIntents(now) == VoiceIntents(now) \cup {Suggestion}

\* A new intent is memoised whenever something it is made of changes; only a given
\* intent keeps its id.
Memoised(v) ==
  LET next == [v EXCEPT !.rev = @ + 1]
  IN  [next EXCEPT !.id = IF v.from = None THEN Now(next) ELSE v.from.id]

Edit(v) == visit' = IF <<v.name, v.amount, v.from>> = <<visit.name, visit.amount, visit.from>>
                    THEN v ELSE Memoised(v)

Issues(v) == v.amount = None \/ (v.from # None /\ ~v.from.sure)

FormUnchanged == UNCHANGED <<web, runs, queue, registered, stopped, posted>>

OpenSend ==
  /\ visit.step = "none" /\ Act
  /\ LET n == visit.n + 1 IN
     \E from \in {None} \cup QrIntents(<<n, 0>>) \cup SpokenIntents(<<n, 0>>) : visit' = Mounted(n, from)
  /\ FormUnchanged

\* Back in a given intent or after the end, cancel, done, another screen, a scan.
LeaveSend ==
  /\ visit.step # "none" /\ Act
  /\ visit' = NotMounted(visit.n)
  /\ FormUnchanged

\* An utterance is parsed after the customer has gone from the listening screen to the
\* send screen: the screen gets a new intent but keeps what it holds.
LateIntent ==
  /\ visit.step # "none" /\ Act
  /\ \E from \in SpokenIntents(<<visit.n, visit.rev + 1>>) : Edit([visit EXCEPT !.from = from])
  /\ FormUnchanged

ChooseRecipient ==
  /\ visit.step = "recipient" /\ visit.rev < MaxActs
  /\ \E n \in Names : Edit([visit EXCEPT !.name = n, !.step = "amount"])
  /\ UNCHANGED acts /\ FormUnchanged

TypeAmount ==
  /\ visit.step = "amount" /\ Act
  /\ \E a \in Amounts \cup {None} : Edit([visit EXCEPT !.amount = a])
  /\ FormUnchanged

Review ==
  /\ visit.step = "amount" /\ visit.amount # None
  /\ Edit([visit EXCEPT !.step = "review"])
  /\ UNCHANGED acts /\ FormUnchanged

\* Fault: the header of the receipt leads to the review.
HeaderBackFromDone(v) ==
  CASE v.step = "amount"                     -> {[v EXCEPT !.step = "recipient"]}
    [] v.step = "review" /\ v.from = None    -> {[v EXCEPT !.step = "amount"]}
    [] v.step = "done"                       -> {[v EXCEPT !.step = "review"]}
    [] OTHER                                 -> {}

\* Where the header's arrow leads within the screen.
HeaderBack(v) ==
  CASE v.step = "amount"                     -> {[v EXCEPT !.step = "recipient"]}
    [] v.step = "review" /\ v.from = None    -> {[v EXCEPT !.step = "amount"]}
    [] OTHER                                 -> {}

StepBack ==
  /\ \E v \in HeaderBack(visit) : Edit(v)
  /\ UNCHANGED acts /\ FormUnchanged

-----------------------------------------------------------------------------
(* A tap on authorise *)

Run(app, place, rev, key) ==
  [app |-> app, place |-> place, rev |-> rev, key |-> key, stage |-> "prepare", verdict |-> "none",
   method |-> "none", submitted |-> FALSE, on |-> 0, flow |-> "none", had |-> registered,
   end |-> "none"]

\* Fault: the key is made from the time of the tap.
KeyPerTap(v) == <<<<v.n, v.rev, Len(runs)>>, v.amount>>

IdempotencyKey(v) == <<v.id, v.amount>>

Authorise ==
  /\ visit.step = "review" /\ ~Issues(visit) /\ ~visit.busy /\ Len(runs) < MaxRuns /\ Act
  /\ visit' = [visit EXCEPT !.busy = TRUE]
  /\ runs' = Append(runs, Run("mobile", visit.n, visit.rev, IdempotencyKey(visit)))
  /\ UNCHANGED <<web, queue, registered, stopped, posted>>

\* What the end of a run does to the screen or page it belongs to, if that is still there.
FormAfter(i, how) ==
  IF runs[i].app = "mobile" /\ visit.step # "none" /\ visit.n = runs[i].place
  THEN [visit EXCEPT !.busy = FALSE, !.step = IF how \in {"settled", "notsent"} THEN "done" ELSE @]
  ELSE visit

PageAfter(i) ==
  IF runs[i].app = "web" /\ web.page = runs[i].place THEN [web EXCEPT !.job = "none", !.busy = FALSE] ELSE web

EndAs(i, how, run) ==
  /\ runs' = [runs EXCEPT ![i] = [run EXCEPT !.stage = "ended", !.end = how]]
  /\ visit' = FormAfter(i, how)
  /\ web' = PageAfter(i)

Go(i, run) == runs' = [runs EXCEPT ![i] = run] /\ UNCHANGED <<visit, web>>

CallUnchanged == UNCHANGED <<registered, stopped, posted, acts>>
Elsewhere     == CallUnchanged /\ UNCHANGED queue

\* Fault: a payment held for review is prepared like any other.
PreparedHeld(i) ==
  \E verdict \in {"allow", "review"} :
    Go(i, [runs[i] EXCEPT !.stage = "authorise", !.verdict = verdict, !.on = i])

\* Only an allowed transfer gets an id and a token, but a held one is answered with 202,
\* which both apps take for success.
PreparedBy(i) ==
  \/ Go(i, [runs[i] EXCEPT !.stage = "authorise", !.verdict = "allow", !.on = i])
  \/ Go(i, [runs[i] EXCEPT !.stage = "authorise", !.verdict = "review"])

\* Fault: a call that throws is not caught.
PrepareUncaught(i) ==
  /\ runs[i].stage = "prepare"
  /\ \/ ~stopped /\ PreparedBy(i)
     \/ Go(i, [runs[i] EXCEPT !.stage = "thrown"])
  /\ Elsewhere

Prepare(i) ==
  /\ runs[i].stage = "prepare"
  /\ \/ ~stopped /\ PreparedBy(i)
     \/ EndAs(i, "refused", runs[i])    \* stopped, denied, compliance or network away
  /\ Elsewhere

HasTransfer(i) == runs[i].on = i

\* Fault: the sandbox authenticator does not ask whether there is a passkey.
SandboxMintsAnyone(i) == HasTransfer(i)

SandboxMints(i) == HasTransfer(i) /\ ~registered

Granted(i, method) == Go(i, [runs[i] EXCEPT !.stage = "submit", !.method = method])

\* The mobile app's passkey is a stand-in that only wants a complete transfer, and the
\* grant is the sandbox authenticator's.
StandInAuthorises(i) == HasTransfer(i)

MobileGrant(i) ==
  /\ runs[i].stage = "authorise" /\ runs[i].app = "mobile"
  /\ \/ StandInAuthorises(i) /\ SandboxMints(i) /\ Granted(i, "sandbox")
     \/ EndAs(i, "refused", runs[i])
  /\ Elsewhere

SandboxGrant(i) ==
  /\ runs[i].stage = "authorise" /\ runs[i].app = "web" /\ ~web.supported
  /\ \/ SandboxMints(i) /\ Granted(i, "sandbox")
     \/ EndAs(i, "refused", runs[i])
  /\ Elsewhere

ChallengeIssued(i) == HasTransfer(i) /\ registered

Challenge(i) ==
  /\ runs[i].stage = "authorise" /\ runs[i].app = "web" /\ web.supported
  /\ \/ ChallengeIssued(i) /\ Go(i, [runs[i] EXCEPT !.stage = "prompt"])
     \/ HasTransfer(i) /\ ~registered /\ EndAs(i, "unregistered", runs[i])
     \/ EndAs(i, "refused", runs[i])
  /\ Elsewhere

\* The assertion is verified and the grant minted, or the prompt is dismissed.
PasskeyGrant(i) ==
  /\ runs[i].stage = "prompt"
  /\ \/ Granted(i, "passkey")
     \/ EndAs(i, "refused", runs[i])
  /\ Elsewhere

\* The web app sends the token prepare gave it; the mobile app sends none.
CarriesToken(i) == runs[i].app = "web"

\* The workflow that is running under the key of the run, or one of its own.
Joins(i) ==
  LET running == {j \in DOMAIN runs : runs[j].flow = "running" /\ runs[j].key = runs[i].key}
  IN  IF running = {} THEN {i} ELSE running

\* The queue holds a transfer as pending; nothing in the app sends it again.
Enqueue(i) == queue' = queue \cup {i}

\* A transfer that was not accepted: the mobile app puts it in its queue.
NotAccepted(i, run) ==
  /\ EndAs(i, IF run.app = "mobile" THEN "notsent" ELSE "failed", run)
  /\ IF run.app = "mobile" THEN Enqueue(i) ELSE UNCHANGED queue

Accepted(i) == ~stopped /\ CarriesToken(i) /\ HasTransfer(i)

Submit(i) ==
  LET sent == [runs[i] EXCEPT !.submitted = TRUE] IN
  /\ runs[i].stage = "submit"
  /\ \/ /\ Accepted(i)
        /\ \E j \in Joins(i) :
             runs' = [runs EXCEPT ![i] = [sent EXCEPT !.stage = "waiting", !.on = j],
                                  ![j].flow = "running"]
        /\ UNCHANGED <<visit, web, queue>>
     \/ NotAccepted(i, sent)            \* stopped, no token, or the network away
  /\ CallUnchanged

\* Fault: the API answers when the workflow has started.
StartedIsSettled(i) == runs[runs[i].on].flow \in {"running", "settled"}

Settled(i) == runs[runs[i].on].flow = "settled"

\* The workflow ended, the API stopped waiting for it, or the answer was lost.
Answer(i) ==
  /\ runs[i].stage = "waiting"
  /\ \/ Settled(i) /\ EndAs(i, "settled", runs[i]) /\ UNCHANGED queue
     \/ NotAccepted(i, runs[i])
  /\ CallUnchanged

\* A capture may be carried out after the workflow has failed, see DomesticTransfer.
Post(i) ==
  /\ runs[i].flow \in {"running", "failed"} /\ i \notin posted
  /\ posted' = posted \cup {i}
  /\ UNCHANGED <<visit, web, runs, queue, registered, stopped, acts>>

FlowEnds(i) ==
  /\ runs[i].flow = "running"
  /\ \E flow \in (IF i \in posted THEN {"settled", "failed"} ELSE {"failed"}) :
       runs' = [runs EXCEPT ![i].flow = flow]
  /\ UNCHANGED <<visit, web, queue>> /\ CallUnchanged

-----------------------------------------------------------------------------
(* The page of the web app *)

\* Home, assets and the page on installing show what was read and change nothing here.
WebTabs == {"send", "other"}

Page(n, supported) ==
  [page |-> n, tab |-> "other", supported |-> supported, job |-> "none", busy |-> FALSE]

\* The buttons of the send tab; they stay as they are while another tab is shown.
CanPress == web.tab = "send" /\ ~web.busy

PageOnly == UNCHANGED <<visit, queue, stopped, posted>>

\* The bar below, the buttons of home, or installing where the browser offers no prompt.
OpenTab ==
  /\ \E tab \in WebTabs \ {web.tab} : web' = [web EXCEPT !.tab = tab]
  /\ PageOnly /\ UNCHANGED <<runs, registered, acts>>

\* With an amount and a recipient; without, the page says so at once.
WebQuote ==
  /\ CanPress /\ Act
  /\ web' = [web EXCEPT !.busy = TRUE, !.job = "quote"]
  /\ PageOnly /\ UNCHANGED <<runs, registered>>

WebQuoted ==
  /\ web.job = "quote"
  /\ web' = [web EXCEPT !.busy = FALSE, !.job = "none"]
  /\ PageOnly /\ UNCHANGED <<runs, registered, acts>>

WebRegister ==
  /\ CanPress /\ web.supported /\ Act
  /\ web' = [web EXCEPT !.busy = TRUE, !.job = "register"]
  /\ PageOnly /\ UNCHANGED <<runs, registered>>

\* Identity may have stored the credential whatever the page is told.  A call that
\* throws is not caught: the page stays busy.
WebRegistered ==
  /\ web.job = "register"
  /\ registered' \in {TRUE, registered}
  /\ \E busy \in BOOLEAN : web' = [web EXCEPT !.busy = busy, !.job = "none"]
  /\ PageOnly /\ UNCHANGED <<runs, acts>>

WebSend ==
  /\ CanPress /\ Len(runs) < MaxRuns /\ Act
  /\ web' = [web EXCEPT !.busy = TRUE, !.job = "send"]
  /\ runs' = Append(runs, Run("web", web.page, 0, <<Len(runs)>>))
  /\ PageOnly /\ UNCHANGED registered

WebReload ==
  /\ Act
  /\ web' = Page(web.page + 1, web.supported)
  /\ runs' = [i \in DOMAIN runs |->
               IF runs[i].app = "web" /\ runs[i].stage # "ended"
               THEN [runs[i] EXCEPT !.stage = "ended", !.end = "reloaded"]
               ELSE runs[i]]
  /\ PageOnly /\ UNCHANGED registered

\* The subject registers on another device, an operator uses the kill switch.
Others ==
  /\ Act
  /\ \/ registered' = TRUE /\ UNCHANGED stopped
     \/ stopped' = ~stopped /\ UNCHANGED registered
  /\ UNCHANGED <<visit, web, runs, queue, posted>>

-----------------------------------------------------------------------------

SendInit ==
  /\ visit = NotMounted(0)
  /\ \E supported \in BOOLEAN : web = Page(0, supported)
  /\ runs = <<>> /\ queue = {} /\ posted = {}
  /\ registered \in BOOLEAN /\ stopped = FALSE
  /\ acts = 0

Form == OpenSend \/ LeaveSend \/ LateIntent \/ ChooseRecipient \/ TypeAmount \/ Review \/ StepBack

WebPage == OpenTab \/ WebQuote \/ WebQuoted \/ WebRegister \/ WebRegistered \/ WebSend \/ WebReload

\* The next step of the run's own code.
Continue(i) ==
  /\ i \in DOMAIN runs
  /\ Prepare(i) \/ MobileGrant(i) \/ SandboxGrant(i) \/ Challenge(i) \/ PasskeyGrant(i) \/ Submit(i) \/ Answer(i)

SendNext ==
  \/ Form \/ Authorise \/ WebPage \/ Others
  \/ \E i \in DOMAIN runs : Continue(i) \/ Post(i) \/ FlowEnds(i)

\* Every call is answered or fails, and a prompt is answered or times out.
SendFairness == \A i \in 1..MaxRuns : WF_sendVars(Continue(i))

SendSpec == SendInit /\ [][SendNext]_sendVars /\ SendFairness

-----------------------------------------------------------------------------
(* Properties *)

SendTypeOK ==
  /\ visit.step \in Steps \cup {"none"} /\ visit.busy \in BOOLEAN
  /\ visit.step = "review" => visit.name \in Names
  /\ web.job \in {"none", "quote", "register", "send"} /\ (web.job # "none" => web.busy)
  /\ queue \subseteq DOMAIN runs /\ posted \subseteq DOMAIN runs
  /\ registered \in BOOLEAN /\ stopped \in BOOLEAN /\ acts \in 0..MaxActs
  /\ \A i \in DOMAIN runs : runs[i].on \in 0..Len(runs) /\ (runs[i].stage = "waiting" => runs[i].on # 0)

\* One visit of the send screen submits one transfer at most, although the customer can
\* walk back into the form, edit it and be given another intent while the first tap is
\* under way: a retry is only possible of what was never submitted.
OneSubmissionPerVisit ==
  \A i, j \in DOMAIN runs :
    /\ runs[i].app = "mobile" /\ runs[j].app = "mobile" /\ runs[i].place = runs[j].place
    /\ runs[i].submitted /\ runs[j].submitted
    => i = j

\* A second tap on a form nobody touched since the first names the same payment to the
\* server: the key is the intent's and the amount's, not the clock's.
RetryKeepsKey ==
  \A i, j \in DOMAIN runs :
    /\ runs[i].app = "mobile" /\ runs[j].app = "mobile"
    /\ runs[i].place = runs[j].place /\ runs[i].rev = runs[j].rev
    => runs[i].key = runs[j].key

\* What compliance holds for review is never posted, though the apps go on after a 202
\* as after a 200 and only later steps lack what they need.
HeldIsNotPosted == \A i \in posted : runs[i].verdict = "allow"

\* The customer is told "settled" of a transfer only when that transfer is in the ledger.
SuccessIsPosted == \A i \in DOMAIN runs : runs[i].end = "settled" => runs[i].on \in posted

\* A transfer asked for after the subject registered a passkey, on whatever device, is
\* never posted on the word of the sandbox authenticator.
StrongerMethodRules == \A i \in posted : runs[i].had => runs[i].method = "passkey"

\* Every tap comes to an end that the customer is told, whatever is lost.
AttemptEnds ==
  \A i \in 1..MaxRuns :
    (i \in DOMAIN runs /\ runs[i].stage # "ended") ~> (i \in DOMAIN runs /\ runs[i].stage = "ended")
=============================================================================
