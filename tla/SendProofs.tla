------------------------------ MODULE SendProofs ------------------------------
(***************************************************************************)
(* For any recipients, amounts and number of taps, on both apps: what a    *)
(* customer is told is settled is in the ledger, what compliance holds is  *)
(* not, and a passkey outranks the sandbox authenticator; one visit of the *)
(* mobile send screen submits once, and a tap on a form nobody touched     *)
(* repeats the key.  The first invariant says of each tap what its stage   *)
(* has behind it.  The second ties the form on the screen to the taps made *)
(* on it: a busy form has at most one under way, a form whose tap was      *)
(* submitted is at its end, and the key is that of the form's revision.    *)
(* The third is of what the screens and the queue hold.                    *)
(***************************************************************************)
EXTENDS SendMoney, TLAPS

RunStages == {"prepare", "authorise", "prompt", "submit", "waiting", "ended"}
Flows     == {"none", "running", "settled", "failed"}
Ends      == {"none", "refused", "unregistered", "notsent", "failed", "settled", "reloaded"}

\* A tap of any place, revision and key.
Record(r) ==
  r \in [app : {"mobile", "web"}, place : {r.place}, rev : {r.rev}, key : {r.key}, stage : RunStages,
         verdict : {"none", "allow", "review"}, method : {"none", "sandbox", "passkey"},
         submitted : BOOLEAN, on : Nat, flow : Flows, had : BOOLEAN, end : Ends]

\* The sandbox authenticator vouches for nobody who had a passkey.
Vouched(r) == r.had => r.method = "passkey"

\* What a tap has behind it.
Sound(i) ==
  LET r == runs[i] IN
  /\ Record(r)
  /\ r.had => registered
  /\ r.on \in DOMAIN runs \cup {0} /\ (r.on = i => r.verdict = "allow")
  /\ r.stage = "prepare" => r.on = 0
  /\ r.stage \in {"prompt", "submit"} => r.on = i
  /\ r.stage = "submit" => Vouched(r)
  /\ r.stage \in {"prepare", "authorise", "prompt", "submit"} => r.flow = "none"
  /\ r.stage = "waiting" => r.on \in DOMAIN runs
  /\ r.flow # "none" => r.verdict = "allow" /\ Vouched(r)
  /\ r.flow = "settled" => i \in posted
  /\ r.stage # "ended" => r.end = "none"
  /\ r.end = "settled" => r.on \in posted

\* Only what a workflow ran for is posted.
Books == posted \subseteq {i \in DOMAIN runs : runs[i].flow # "none"}

Sequence == \E S : runs \in Seq(S)

SendInv == Sequence /\ Books /\ registered \in BOOLEAN /\ \A i \in DOMAIN runs : Sound(i)

-----------------------------------------------------------------------------
(* Steps by what they touch *)

LEMMA InvInit == SendInit => SendInv
<1> SUFFICES ASSUME SendInit PROVE SendInv
  OBVIOUS
<1>1. runs \in Seq({})
  BY DEF SendInit
<1>2. DOMAIN runs = {}
  BY DEF SendInit
<1> QED
  BY <1>1, <1>2 DEF SendInit, SendInv, Sequence, Books

\* A step that changes no tap, and adds to the books only what is named.
LEMMA KeptInv ==
  ASSUME SendInv, UNCHANGED runs, registered' \in BOOLEAN, registered => registered',
         posted \subseteq posted', posted' \subseteq {i \in DOMAIN runs : runs[i].flow # "none"}
  PROVE  SendInv'
<1>1. Sequence' /\ Books'
  BY DEF SendInv, Sequence, Books
<1>2. ASSUME NEW i \in DOMAIN runs PROVE Sound(i)'
  BY <1>2 DEF SendInv, Sound, Record, Vouched
<1> QED
  BY <1>1, <1>2 DEF SendInv

Only(i) == \E r : runs' = [runs EXCEPT ![i] = r]

LEMMA OnlyOne ==
  ASSUME Sequence, NEW i \in DOMAIN runs, NEW r, runs' = [runs EXCEPT ![i] = r]
  PROVE  /\ Sequence' /\ DOMAIN runs' = DOMAIN runs /\ runs'[i] = r
         /\ \A j \in DOMAIN runs \ {i} : runs'[j] = runs[j]
<1>1. PICK S : runs \in Seq(S)
  BY DEF Sequence
<1>2. runs \in Seq(S \cup {r})
  BY <1>1
<1>3. runs' \in Seq(S \cup {r})
  BY <1>2
<1> QED
  BY <1>1, <1>3 DEF Sequence

\* A step of one tap.
LEMMA OneInv ==
  ASSUME SendInv, NEW i \in DOMAIN runs, Only(i), UNCHANGED <<posted, registered>>,
         runs'[i].flow # "none" \/ runs[i].flow = "none", Sound(i)'
  PROVE  SendInv'
<1>1. /\ Sequence' /\ DOMAIN runs' = DOMAIN runs
      /\ \A j \in DOMAIN runs \ {i} : runs'[j] = runs[j]
  BY OnlyOne DEF SendInv, Only
<1>2. Books'
  BY <1>1 DEF SendInv, Books
<1>3. ASSUME NEW j \in DOMAIN runs PROVE Sound(j)'
  <2>1. CASE j = i
    BY <2>1
  <2>2. CASE j # i
    BY <1>1, <2>2 DEF SendInv, Sound, Record, Vouched
  <2> QED
    BY <2>1, <2>2
<1> QED
  BY <1>1, <1>2, <1>3 DEF SendInv

\* A tap begins.
LEMMA TapInv ==
  ASSUME SendInv, NEW app \in {"mobile", "web"}, NEW place, NEW rev, NEW key,
         runs' = Append(runs, Run(app, place, rev, key)), UNCHANGED <<posted, registered>>
  PROVE  SendInv'
<1> DEFINE r == Run(app, place, rev, key)
<1>1. PICK S : runs \in Seq(S)
  BY DEF SendInv, Sequence
<1>2. runs \in Seq(S \cup {r})
  BY <1>1
<1>0. PICK n \in Nat \ {0} : n = Len(runs) + 1
  BY <1>1
<1>3. /\ runs' \in Seq(S \cup {r}) /\ DOMAIN runs = 1..Len(runs) /\ DOMAIN runs' = 1..n /\ Len(runs) \in Nat
      /\ runs'[n] = r /\ \A i \in DOMAIN runs : runs'[i] = runs[i]
  BY <1>0, <1>2
<1>4. Books'
  BY <1>3 DEF SendInv, Books
<1>5. ASSUME NEW i \in DOMAIN runs PROVE Sound(i)'
  BY <1>3 DEF SendInv, Sound, Record, Vouched
<1>6. Sound(n)'
  <2>1. runs'[n] = r /\ r.on = 0 /\ r.stage = "prepare" /\ r.flow = "none" /\ r.end = "none"
    BY <1>3 DEF Run
  <2>2. r.had => registered'
    BY DEF Run
  <2>3. Record(r)
    BY DEF Record, Run, RunStages, Flows, Ends, SendInv
  <2> HIDE DEF r
  <2> QED
    BY <2>1, <2>2, <2>3 DEF Sound, Record
<1> QED
  BY <1>0, <1>3, <1>4, <1>5, <1>6 DEF SendInv, Sequence

-----------------------------------------------------------------------------
(* The steps of a tap *)

\* A step by which the form or page learns nothing of the end.
LEMMA GoInv ==
  ASSUME SendInv, NEW i \in DOMAIN runs, NEW run, Go(i, run), UNCHANGED <<posted, registered>>,
         run.flow = runs[i].flow, runs'[i] = run /\ DOMAIN runs' = DOMAIN runs => Sound(i)'
  PROVE  SendInv'
<1>1. Only(i) /\ runs'[i] = run /\ DOMAIN runs' = DOMAIN runs
  BY OnlyOne DEF Go, Only, SendInv
<1> QED
  BY <1>1, OneInv

LEMMA EndInv ==
  ASSUME SendInv, NEW i \in DOMAIN runs, NEW how \in Ends \ {"none"},
         NEW run \in {runs[i], [runs[i] EXCEPT !.submitted = TRUE]}, EndAs(i, how, run),
         how = "settled" => runs[i].on \in posted, UNCHANGED <<posted, registered>>
  PROVE  SendInv'
<1> DEFINE ended == [run EXCEPT !.stage = "ended", !.end = how]
<1>1. Only(i) /\ runs'[i] = ended /\ DOMAIN runs' = DOMAIN runs
  BY OnlyOne DEF EndAs, Only, SendInv
<1>2. Record(ended) /\ ended.on = runs[i].on /\ ended.flow = runs[i].flow /\ ended.had = runs[i].had
  /\ ended.method = runs[i].method /\ ended.verdict = runs[i].verdict /\ ended.stage = "ended" /\ ended.end = how
  <2>1. Record(runs[i])
    BY DEF SendInv, Sound
  <2>2. /\ Record(run) /\ run.on = runs[i].on /\ run.flow = runs[i].flow /\ run.had = runs[i].had
        /\ run.method = runs[i].method /\ run.verdict = runs[i].verdict
    BY <2>1 DEF Record
  <2> QED
    BY <2>2 DEF Record, RunStages, Ends
<1>3. Sound(i)'
  <2> HIDE DEF ended
  <2> QED
    BY <1>1, <1>2 DEF SendInv, Sound, Record, Vouched
<1> QED
  BY <1>1, <1>2, <1>3, OneInv

LEMMA PrepareInv ==
  ASSUME SendInv, NEW i \in DOMAIN runs, Prepare(i)
  PROVE  SendInv'
<1>0. UNCHANGED <<posted, registered>> /\ Sound(i) /\ runs[i].stage = "prepare" /\ i \in Nat \ {0}
  BY DEF Prepare, Elsewhere, CallUnchanged, SendInv, Sequence
<1>1. CASE EndAs(i, "refused", runs[i])
  BY <1>0, <1>1, EndInv DEF Ends
<1>2. CASE Go(i, [runs[i] EXCEPT !.stage = "authorise", !.verdict = "allow", !.on = i])
  <2> DEFINE run == [runs[i] EXCEPT !.stage = "authorise", !.verdict = "allow", !.on = i]
  <2>1. /\ Record(run) /\ run.flow = "none" /\ run.had = runs[i].had /\ run.stage = "authorise"
        /\ run.verdict = "allow" /\ run.end = "none" /\ run.flow = runs[i].flow /\ run.on = i
    BY <1>0 DEF Sound, Record, RunStages
  <2> HIDE DEF run
  <2>2. runs'[i] = run /\ DOMAIN runs' = DOMAIN runs => Sound(i)'
    BY <1>0, <2>1 DEF Sound, Record, Vouched
  <2> QED
    BY <1>0, <1>2, <2>1, <2>2, GoInv DEF run
<1>3. CASE Go(i, [runs[i] EXCEPT !.stage = "authorise", !.verdict = "review"])
  <2> DEFINE run == [runs[i] EXCEPT !.stage = "authorise", !.verdict = "review"]
  <2>1. /\ Record(run) /\ run.flow = "none" /\ run.had = runs[i].had /\ run.stage = "authorise"
        /\ run.on = 0 /\ run.end = "none" /\ run.flow = runs[i].flow
    BY <1>0 DEF Sound, Record, RunStages
  <2> HIDE DEF run
  <2>2. runs'[i] = run /\ DOMAIN runs' = DOMAIN runs => Sound(i)'
    BY <1>0, <2>1 DEF Sound, Record, Vouched
  <2> QED
    BY <1>0, <1>3, <2>1, <2>2, GoInv DEF run
<1> QED
  BY <1>1, <1>2, <1>3 DEF Prepare, PreparedBy

\* A grant, for a transfer the tap has.
LEMMA GrantedInv ==
  ASSUME SendInv, NEW i \in DOMAIN runs, NEW method \in {"sandbox", "passkey"}, Granted(i, method),
         runs[i].stage \in {"authorise", "prompt"}, HasTransfer(i),
         method = "passkey" \/ ~registered, UNCHANGED <<posted, registered>>
  PROVE  SendInv'
<1> DEFINE run == [runs[i] EXCEPT !.stage = "submit", !.method = method]
<1>0. Sound(i)
  BY DEF SendInv
<1>1. /\ Record(run) /\ run.flow = "none" /\ run.had = runs[i].had /\ run.stage = "submit" /\ run.method = method
      /\ run.on = i /\ run.end = "none" /\ run.flow = runs[i].flow /\ run.verdict = runs[i].verdict
  BY <1>0 DEF Sound, Record, RunStages, HasTransfer
<1> HIDE DEF run
<1>2. runs'[i] = run /\ DOMAIN runs' = DOMAIN runs => Sound(i)'
  BY <1>0, <1>1 DEF Sound, Record, Vouched, HasTransfer
<1> QED
  BY <1>1, <1>2, GoInv DEF run, Granted

LEMMA GrantInv ==
  ASSUME SendInv, NEW i \in DOMAIN runs, MobileGrant(i) \/ SandboxGrant(i) \/ PasskeyGrant(i)
  PROVE  SendInv'
<1>0. UNCHANGED <<posted, registered>> /\ Sound(i) /\ runs[i].stage \in {"authorise", "prompt"}
  BY DEF MobileGrant, SandboxGrant, PasskeyGrant, Elsewhere, CallUnchanged, SendInv
<1>1. CASE EndAs(i, "refused", runs[i])
  BY <1>0, <1>1, EndInv DEF Ends
<1>2. CASE SandboxMints(i) /\ Granted(i, "sandbox")
  BY <1>0, <1>2, GrantedInv DEF SandboxMints
<1>3. CASE PasskeyGrant(i) /\ Granted(i, "passkey")
  BY <1>0, <1>3, GrantedInv DEF PasskeyGrant, Sound, HasTransfer
<1> QED
  BY <1>1, <1>2, <1>3 DEF MobileGrant, SandboxGrant, PasskeyGrant

LEMMA ChallengeInv ==
  ASSUME SendInv, NEW i \in DOMAIN runs, Challenge(i)
  PROVE  SendInv'
<1>0. UNCHANGED <<posted, registered>> /\ Sound(i) /\ runs[i].stage = "authorise"
  BY DEF Challenge, Elsewhere, CallUnchanged, SendInv
<1>1. CASE \E how \in {"refused", "unregistered"} : EndAs(i, how, runs[i])
  BY <1>0, <1>1, EndInv DEF Ends
<1>2. CASE HasTransfer(i) /\ Go(i, [runs[i] EXCEPT !.stage = "prompt"])
  <2> DEFINE run == [runs[i] EXCEPT !.stage = "prompt"]
  <2>1. /\ Record(run) /\ run.flow = "none" /\ run.had = runs[i].had /\ run.stage = "prompt"
        /\ run.on = i /\ run.end = "none" /\ run.flow = runs[i].flow /\ run.verdict = runs[i].verdict
    BY <1>0, <1>2 DEF Sound, Record, RunStages, HasTransfer
  <2> HIDE DEF run
  <2>2. runs'[i] = run /\ DOMAIN runs' = DOMAIN runs => Sound(i)'
    BY <1>0, <1>2, <2>1 DEF Sound, Record, Vouched, HasTransfer
  <2> QED
    BY <1>0, <1>2, <2>1, <2>2, GoInv DEF run
<1> QED
  BY <1>1, <1>2 DEF Challenge, ChallengeIssued

\* An accepted submission begins to wait for a workflow, which runs.
LEMMA AcceptedInv ==
  ASSUME SendInv, NEW i \in DOMAIN runs, NEW j \in Joins(i), runs[i].stage = "submit", Accepted(i),
         runs' = [runs EXCEPT ![i] = [[runs[i] EXCEPT !.submitted = TRUE] EXCEPT !.stage = "waiting", !.on = j],
                              ![j].flow = "running"],
         UNCHANGED <<posted, registered>>
  PROVE  SendInv'
<1> DEFINE waits == [[runs[i] EXCEPT !.submitted = TRUE] EXCEPT !.stage = "waiting", !.on = j]
           both  == [waits EXCEPT !.flow = "running"]
<1>0. /\ Sound(i) /\ runs[i].on = i /\ j \in DOMAIN runs /\ Sound(j) /\ (j # i => runs[j].flow = "running")
      /\ j \in Nat \ {0}
  BY DEF Joins, Accepted, HasTransfer, SendInv, Sequence
<1>1. Record(waits) /\ Record(both)
  BY <1>0 DEF Record, Sound, RunStages, Flows
<1>2. CASE j = i
  <2>1. runs' = [runs EXCEPT ![i] = both]
    BY <1>2
  <2>2. Only(i) /\ runs'[i] = both /\ DOMAIN runs' = DOMAIN runs
    BY <2>1, OnlyOne DEF Only, SendInv
  <2>3. /\ both.flow = "running" /\ both.had = runs[i].had /\ both.stage = "waiting" /\ both.on = i
        /\ both.end = "none" /\ both.verdict = runs[i].verdict /\ both.method = runs[i].method
    BY <1>0, <1>2 DEF Sound, Record
  <2> HIDE DEF both
  <2>4. Sound(i)'
    BY <1>0, <1>1, <2>2, <2>3 DEF Sound, Record, Vouched
  <2> QED
    BY <2>2, <2>3, <2>4, OneInv
<1>3. CASE j # i
  <2>1. runs' = [runs EXCEPT ![i] = waits]
    <3>1. PICK S : runs \in Seq(S)
      BY DEF SendInv, Sequence
    <3>2. [runs[j] EXCEPT !.flow = "running"] = runs[j]
      BY <1>0, <1>3 DEF Sound, Record
    <3>3. runs' = [[runs EXCEPT ![i] = waits] EXCEPT ![j] = [runs[j] EXCEPT !.flow = "running"]]
      BY <1>3
    <3> HIDE DEF waits
    <3> QED
      BY <3>1, <3>2, <3>3, <1>0, <1>3
  <2>2. Only(i) /\ runs'[i] = waits /\ DOMAIN runs' = DOMAIN runs
    BY <2>1, OnlyOne DEF Only, SendInv
  <2>3. /\ waits.flow = runs[i].flow /\ waits.had = runs[i].had /\ waits.stage = "waiting" /\ waits.on = j
        /\ waits.end = "none" /\ waits.verdict = runs[i].verdict /\ waits.method = runs[i].method
    BY <1>0 DEF Sound, Record
  <2> HIDE DEF waits
  <2>4. Sound(i)'
    BY <1>0, <1>1, <1>3, <2>2, <2>3 DEF Sound, Record, Vouched
  <2> QED
    BY <2>2, <2>3, <2>4, OneInv
<1> QED
  BY <1>2, <1>3

LEMMA SubmitInv ==
  ASSUME SendInv, NEW i \in DOMAIN runs, Submit(i)
  PROVE  SendInv'
<1> DEFINE sent == [runs[i] EXCEPT !.submitted = TRUE]
<1>0. UNCHANGED <<posted, registered>> /\ runs[i].stage = "submit"
  BY DEF Submit, CallUnchanged
<1>1. CASE \E how \in {"notsent", "failed"} : EndAs(i, how, sent)
  BY <1>0, <1>1, EndInv DEF Ends
<1>2. CASE /\ Accepted(i)
           /\ \E j \in Joins(i) :
                runs' = [runs EXCEPT ![i] = [sent EXCEPT !.stage = "waiting", !.on = j], ![j].flow = "running"]
  BY <1>0, <1>2, AcceptedInv
<1> QED
  BY <1>1, <1>2 DEF Submit, NotAccepted

LEMMA AnswerInv ==
  ASSUME SendInv, NEW i \in DOMAIN runs, Answer(i)
  PROVE  SendInv'
<1>0. UNCHANGED <<posted, registered>> /\ runs[i].stage = "waiting" /\ Sound(i) /\ runs[i].on \in DOMAIN runs
  BY DEF Answer, CallUnchanged, SendInv, Sound
<1>1. CASE \E how \in {"notsent", "failed"} : EndAs(i, how, runs[i])
  BY <1>0, <1>1, EndInv DEF Ends
<1>2. CASE Settled(i) /\ EndAs(i, "settled", runs[i])
  <2>1. Sound(runs[i].on)
    BY <1>0 DEF SendInv
  <2>2. runs[i].on \in posted
    BY <1>2, <2>1 DEF Settled, Sound
  <2> QED
    BY <1>0, <1>2, <2>2, EndInv DEF Ends
<1> QED
  BY <1>1, <1>2 DEF Answer, NotAccepted

-----------------------------------------------------------------------------
(* The workflows, the form and the page *)

LEMMA WorkflowInv ==
  ASSUME SendInv, NEW i \in DOMAIN runs, Post(i) \/ FlowEnds(i)
  PROVE  SendInv'
<1>1. CASE Post(i)
  <2>1. /\ UNCHANGED <<runs, registered>> /\ posted \subseteq posted'
        /\ posted' \subseteq {j \in DOMAIN runs : runs[j].flow # "none"}
    BY <1>1 DEF Post, SendInv, Books
  <2> QED
    BY <2>1, KeptInv DEF SendInv
<1>2. ASSUME NEW flow \in IF i \in posted THEN {"settled", "failed"} ELSE {"failed"}, FlowEnds(i),
             runs' = [runs EXCEPT ![i].flow = flow]
      PROVE  SendInv'
  <2> DEFINE run == [runs[i] EXCEPT !.flow = flow]
  <2>0. UNCHANGED <<posted, registered>> /\ Sound(i) /\ runs[i].flow = "running" /\ flow \in Flows \ {"none"}
    BY <1>2 DEF FlowEnds, CallUnchanged, SendInv, Flows
  <2>1. Only(i) /\ runs'[i] = run /\ DOMAIN runs' = DOMAIN runs
    BY <1>2, OnlyOne DEF Only, SendInv
  <2>2. /\ Record(run) /\ run.flow = flow /\ run.had = runs[i].had /\ run.stage = runs[i].stage
        /\ run.on = runs[i].on /\ run.end = runs[i].end /\ run.verdict = runs[i].verdict
        /\ run.method = runs[i].method
    BY <2>0 DEF Sound, Record
  <2> HIDE DEF run
  <2>3. Sound(i)'
    BY <1>2, <2>0, <2>1, <2>2 DEF Sound, Record, Vouched
  <2> QED
    BY <2>0, <2>1, <2>2, <2>3, OneInv
<1> QED
  BY <1>1, <1>2 DEF FlowEnds

\* Reloading the page ends its taps where they are.
LEMMA ReloadInv ==
  ASSUME SendInv, WebReload
  PROVE  SendInv'
<1> DEFINE ended(i) == [runs[i] EXCEPT !.stage = "ended", !.end = "reloaded"]
<1>1. PICK S : runs \in Seq(S)
  BY DEF SendInv, Sequence
<1>2. /\ UNCHANGED <<posted, registered>> /\ DOMAIN runs' = DOMAIN runs
      /\ \A i \in DOMAIN runs : runs'[i] \in {runs[i], ended(i)}
  BY DEF WebReload, PageOnly
<1>3. Sequence'
  <2>1. \A i \in DOMAIN runs : runs'[i] \in {runs'[j] : j \in DOMAIN runs}
    OBVIOUS
  <2>2. PICK T : \A i \in DOMAIN runs : runs'[i] \in T
    BY <2>1
  <2>3. DOMAIN runs = 1..Len(runs) /\ Len(runs) \in Nat
    BY <1>1
  <2>4. runs' \in [DOMAIN runs -> T]
    BY <2>2 DEF WebReload
  <2>5. runs' \in Seq(T)
    BY <2>3, <2>4
  <2> QED
    BY <2>5 DEF Sequence
<1>4. ASSUME NEW i \in DOMAIN runs PROVE Sound(i)' /\ runs'[i].flow = runs[i].flow
  <2>1. Sound(i)
    BY DEF SendInv
  <2>2. CASE runs'[i] = runs[i]
    BY <1>2, <2>1, <2>2 DEF Sound, Record, Vouched
  <2>3. CASE runs'[i] = ended(i)
    <3> DEFINE run == ended(i)
    <3>1. /\ Record(run) /\ run.flow = runs[i].flow /\ run.had = runs[i].had /\ run.stage = "ended"
          /\ run.on = runs[i].on /\ run.end = "reloaded" /\ run.verdict = runs[i].verdict
          /\ run.method = runs[i].method
      BY <2>1 DEF Sound, Record, RunStages, Ends
    <3>2. runs'[i] = run
      BY <2>3
    <3>3. /\ DOMAIN runs' = DOMAIN runs /\ posted' = posted /\ registered' = registered
      BY <1>2
    <3> HIDE DEF run, ended
    <3> QED
      BY <2>1, <3>1, <3>2, <3>3 DEF Sound, Record, Vouched
  <2> QED
    BY <1>2, <2>2, <2>3
<1>5. Books'
  BY <1>2, <1>4 DEF SendInv, Books
<1> QED
  BY <1>2, <1>3, <1>4, <1>5 DEF SendInv

LEMMA NextInv == SendInv /\ [SendNext]_sendVars => SendInv'
<1> SUFFICES ASSUME SendInv, [SendNext]_sendVars PROVE SendInv'
  OBVIOUS
<1>1. CASE Form \/ UNCHANGED sendVars
  <2>1. UNCHANGED <<runs, posted, registered>>
    BY <1>1 DEF Form, OpenSend, LeaveSend, LateIntent, ChooseRecipient, TypeAmount, Review, StepBack,
                FormUnchanged, sendVars
  <2> QED
    BY <2>1, KeptInv DEF SendInv, Books
<1>2. CASE Authorise \/ WebSend
  BY <1>2, TapInv DEF Authorise, WebSend, PageOnly
<1>3. CASE OpenTab \/ WebQuote \/ WebQuoted \/ WebRegister \/ WebRegistered \/ Others
  <2>1. UNCHANGED <<runs, posted>> /\ registered' \in {TRUE, registered}
    BY <1>3 DEF OpenTab, WebQuote, WebQuoted, WebRegister, WebRegistered, Others, PageOnly
  <2> QED
    BY <2>1, KeptInv DEF SendInv, Books
<1>4. CASE WebReload
  BY <1>4, ReloadInv
<1>5. ASSUME NEW i \in DOMAIN runs, Continue(i) \/ Post(i) \/ FlowEnds(i) PROVE SendInv'
  BY <1>5, PrepareInv, GrantInv, ChallengeInv, SubmitInv, AnswerInv, WorkflowInv DEF Continue
<1> QED
  BY <1>1, <1>2, <1>3, <1>4, <1>5 DEF SendNext, WebPage

-----------------------------------------------------------------------------

\* What compliance holds for review is never posted, whichever of prepare, grant and
\* submit the apps go on to after the 202 of a held payment.
THEOREM SendHeldIsNotPosted == SendSpec => []HeldIsNotPosted
<1>1. SendInv => HeldIsNotPosted
  BY DEF SendInv, Books, Sound, HeldIsNotPosted
<1> QED
  BY InvInit, NextInv, <1>1, PTL DEF SendSpec

\* "Settled" is only said of a transfer in the ledger, also to a tap that joined the
\* workflow of another under its key.
THEOREM SendSuccessIsPosted == SendSpec => []SuccessIsPosted
<1>1. SendInv => SuccessIsPosted
  BY DEF SendInv, Sound, SuccessIsPosted
<1> QED
  BY InvInit, NextInv, <1>1, PTL DEF SendSpec

\* Once a subject has a passkey, no transfer asked for later is posted on the sandbox
\* authenticator's word, whenever and wherever the passkey was registered.
THEOREM SendStrongerMethodRules == SendSpec => []StrongerMethodRules
<1>1. SendInv => StrongerMethodRules
  BY DEF SendInv, Books, Sound, Vouched, StrongerMethodRules
<1> QED
  BY InvInit, NextInv, <1>1, PTL DEF SendSpec

-----------------------------------------------------------------------------
(* The form of the mobile app *)

\* A form with any intent, recipient, amount and id.
Fields(v) ==
  v \in [n : Nat, from : {v.from}, step : Steps \cup {"none"}, name : {v.name}, amount : {v.amount},
         id : {v.id}, rev : Nat, busy : BOOLEAN]

\* A tap made on the form that is on the screen.
Here(i) == visit.step # "none" /\ runs[i].place = visit.n

OnForm(i) ==
  LET r == runs[i] IN
  /\ r.place \in Nat /\ r.place <= visit.n
  /\ r.submitted => r.stage = "ended"
  /\ Here(i) => /\ r.rev \in Nat /\ r.rev <= visit.rev
                /\ r.rev = visit.rev => r.key = IdempotencyKey(visit)
                /\ r.stage # "ended" => visit.busy
                /\ r.submitted => visit.step = "done"

Apart(i, j) ==
  runs[i].place = runs[j].place =>
    /\ runs[i].rev = runs[j].rev => runs[i].key = runs[j].key
    /\ runs[i].stage = "ended" \/ runs[j].stage = "ended"
    /\ runs[i].submitted => runs[j].stage = "ended" /\ ~runs[j].submitted

Taps == {i \in DOMAIN runs : runs[i].app = "mobile"}

FormInv == /\ Fields(visit)
           /\ \A i \in Taps : OnForm(i)
           /\ \A i, j \in Taps : i # j => Apart(i, j)

-----------------------------------------------------------------------------
(* Steps by what they do to the taps *)

LEMMA FormInit == SendInit => FormInv
  BY DEF SendInit, FormInv, Fields, NotMounted, ConstantId, Taps, Steps

\* No tap of the mobile app is made, submitted or ended, whatever else it does.
Keeps(i) ==
  /\ runs'[i].app = runs[i].app /\ runs'[i].place = runs[i].place /\ runs'[i].rev = runs[i].rev
  /\ runs'[i].key = runs[i].key
  /\ runs[i].app = "mobile" => /\ runs'[i].submitted = runs[i].submitted
                               /\ (runs'[i].stage = "ended") <=> (runs[i].stage = "ended")

LEMMA KeepsForm ==
  ASSUME FormInv, UNCHANGED visit, DOMAIN runs' = DOMAIN runs, \A i \in DOMAIN runs : Keeps(i)
  PROVE  FormInv'
<1>1. Taps' = Taps /\ Fields(visit)'
  BY DEF Taps, Keeps, FormInv, Fields
<1>2. ASSUME NEW i \in Taps PROVE OnForm(i)'
  BY <1>2 DEF Taps, Keeps, FormInv, OnForm, Here, IdempotencyKey
<1>3. ASSUME NEW i \in Taps, NEW j \in Taps, i # j PROVE Apart(i, j)'
  BY <1>3 DEF Taps, Keeps, FormInv, Apart
<1> QED
  BY <1>1, <1>2, <1>3 DEF FormInv

\* The form is opened, left or edited.
LEMMA FormChanges ==
  ASSUME FormInv, UNCHANGED runs, Fields(visit'),
         \/ visit'.step = "none" /\ visit'.n = visit.n
         \/ visit'.n = visit.n + 1
         \/ /\ visit.step # "none" /\ visit'.n = visit.n /\ visit'.busy = visit.busy
            /\ visit.step = "done" => visit'.step = "done"
            /\ \/ visit'.rev = visit.rev + 1
               \/ visit'.rev = visit.rev /\ visit'.id = visit.id /\ visit'.amount = visit.amount
  PROVE  FormInv'
<1>1. Taps' = Taps /\ Fields(visit)' /\ visit.n \in Nat /\ visit.rev \in Nat
  BY DEF Taps, FormInv, Fields
<1>2. ASSUME NEW i \in Taps PROVE OnForm(i)'
  BY <1>1, <1>2 DEF FormInv, OnForm, Here, IdempotencyKey
<1>3. ASSUME NEW i \in Taps, NEW j \in Taps, i # j PROVE Apart(i, j)'
  BY <1>3 DEF FormInv, Apart
<1> QED
  BY <1>1, <1>2, <1>3 DEF FormInv

\* An edit that keeps the form's number, and its id until it is memoised anew.
LEMMA EditForm ==
  ASSUME FormInv, visit.step # "none", UNCHANGED runs, NEW v, Fields(v), Edit(v), v.n = visit.n,
         v.rev = visit.rev, v.id = visit.id, v.busy = visit.busy, visit.step = "done" => v.step = "done"
  PROVE  FormInv'
<1>1. CASE <<v.name, v.amount, v.from>> = <<visit.name, visit.amount, visit.from>>
  BY <1>1, FormChanges DEF Edit
<1>2. CASE <<v.name, v.amount, v.from>> # <<visit.name, visit.amount, visit.from>>
  <2>1. visit' = Memoised(v)
    BY <1>2 DEF Edit
  <2>2. /\ Fields(visit') /\ visit'.n = v.n /\ visit'.rev = v.rev + 1 /\ visit'.busy = v.busy
        /\ visit'.step = v.step
    <3> DEFINE next == [v EXCEPT !.rev = v.rev + 1]
               id   == IF v.from = None THEN Now(next) ELSE v.from.id
    <3>1. Fields(next) /\ next.n = v.n /\ next.rev = v.rev + 1 /\ next.busy = v.busy /\ next.step = v.step
      BY DEF Fields
    <3>2. visit' = [next EXCEPT !.id = id]
      BY <2>1 DEF Memoised
    <3> HIDE DEF next, id
    <3> QED
      BY <3>1, <3>2 DEF Fields
  <2> QED
    BY <2>2, FormChanges
<1> QED
  BY <1>1, <1>2

-----------------------------------------------------------------------------
(* The actions *)

LEMMA FormStep ==
  ASSUME FormInv, Form
  PROVE  FormInv'
<1>0. UNCHANGED runs /\ Fields(visit)
  BY DEF Form, OpenSend, LeaveSend, LateIntent, ChooseRecipient, TypeAmount, Review, StepBack,
         FormUnchanged, FormInv
<1>1. CASE OpenSend
  <2>1. PICK from : visit' = Mounted(visit.n + 1, from)
    BY <1>1 DEF OpenSend
  <2>2. Fields(visit') /\ visit'.n = visit.n + 1
    BY <1>0, <2>1 DEF Mounted, Fields, Steps
  <2> QED
    BY <1>0, <2>2, FormChanges
<1>2. CASE LeaveSend
  <2>1. Fields(visit') /\ visit'.n = visit.n /\ visit'.step = "none"
    BY <1>0, <1>2 DEF LeaveSend, NotMounted, Fields, Steps
  <2> QED
    BY <1>0, <2>1, FormChanges
<1>3. ASSUME NEW from, visit.step # "none", Edit([visit EXCEPT !.from = from])
      PROVE  FormInv'
  <2> DEFINE v == [visit EXCEPT !.from = from]
  <2>1. /\ Fields(v) /\ v.n = visit.n /\ v.rev = visit.rev /\ v.id = visit.id /\ v.busy = visit.busy
        /\ v.step = visit.step
    BY <1>0 DEF Fields
  <2> QED
    BY <1>0, <1>3, <2>1, EditForm
<1>4. ASSUME NEW name, visit.step = "recipient", Edit([visit EXCEPT !.name = name, !.step = "amount"])
      PROVE  FormInv'
  <2> DEFINE v == [visit EXCEPT !.name = name, !.step = "amount"]
  <2>1. Fields(v) /\ v.n = visit.n /\ v.rev = visit.rev /\ v.id = visit.id /\ v.busy = visit.busy
    BY <1>0 DEF Fields, Steps
  <2> QED
    BY <1>0, <1>4, <2>1, EditForm
<1>5. ASSUME NEW a, visit.step = "amount", Edit([visit EXCEPT !.amount = a])
      PROVE  FormInv'
  <2> DEFINE v == [visit EXCEPT !.amount = a]
  <2>1. Fields(v) /\ v.n = visit.n /\ v.rev = visit.rev /\ v.id = visit.id /\ v.busy = visit.busy
    BY <1>0 DEF Fields
  <2> QED
    BY <1>0, <1>5, <2>1, EditForm
<1>6. ASSUME NEW step \in Steps, visit.step \in {"amount", "review"}, Edit([visit EXCEPT !.step = step])
      PROVE  FormInv'
  <2> DEFINE v == [visit EXCEPT !.step = step]
  <2>1. Fields(v) /\ v.n = visit.n /\ v.rev = visit.rev /\ v.id = visit.id /\ v.busy = visit.busy
    BY <1>0 DEF Fields
  <2> QED
    BY <1>0, <1>6, <2>1, EditForm
<1>7. CASE StepBack
  <2>1. PICK v \in HeaderBack(visit) : Edit(v)
    BY <1>7 DEF StepBack
  <2> QED
    BY <1>6, <2>1 DEF HeaderBack, Steps
<1> QED
  BY <1>1, <1>2, <1>3, <1>4, <1>5, <1>6, <1>7
     DEF Form, LateIntent, ChooseRecipient, TypeAmount, Review, Steps

\* A tap on authorise finds no other of its form under way or submitted.
LEMMA AuthoriseForm ==
  ASSUME SendInv, FormInv, Authorise
  PROVE  FormInv'
<1> DEFINE key == IdempotencyKey(visit)
           r   == Run("mobile", visit.n, visit.rev, key)
<1>1. PICK S : runs \in Seq(S)
  BY DEF SendInv, Sequence
<1>2. PICK n \in Nat \ {0} : n = Len(runs) + 1
  BY <1>1
<1>3. /\ DOMAIN runs' = DOMAIN runs \cup {n} /\ n \notin DOMAIN runs /\ runs'[n] = r
      /\ \A i \in DOMAIN runs : runs'[i] = runs[i]
  <2>1. runs \in Seq(S \cup {r})
    BY <1>1
  <2>2. runs' = Append(runs, r)
    BY DEF Authorise
  <2> HIDE DEF r
  <2> QED
    BY <1>2, <2>1, <2>2
<1>4. /\ r.app = "mobile" /\ r.place = visit.n /\ r.rev = visit.rev /\ r.key = key
      /\ r.stage = "prepare" /\ ~r.submitted
  BY DEF Run
<1>5. /\ visit.step = "review" /\ ~visit.busy /\ visit'.busy = TRUE /\ visit'.n = visit.n /\ visit'.rev = visit.rev
      /\ visit'.id = visit.id /\ visit'.amount = visit.amount /\ visit'.step = visit.step /\ Fields(visit')
      /\ visit.n \in Nat /\ visit.rev \in Nat
  BY DEF Authorise, FormInv, Fields
<1> HIDE DEF r
<1>6. Taps' = Taps \cup {n} /\ Taps \subseteq DOMAIN runs
  BY <1>3, <1>4 DEF Taps
<1>7. ASSUME NEW i \in Taps PROVE OnForm(i)'
  BY <1>3, <1>5, <1>6 DEF FormInv, OnForm, Here, IdempotencyKey
<1>8. OnForm(n)'
  BY <1>3, <1>4, <1>5 DEF OnForm, Here, IdempotencyKey
<1>9. ASSUME NEW i \in Taps, NEW j \in Taps, i # j PROVE Apart(i, j)'
  BY <1>3, <1>6, <1>9 DEF FormInv, Apart
<1>10. ASSUME NEW i \in Taps PROVE Apart(i, n)' /\ Apart(n, i)'
  <2>1. OnForm(i) /\ runs'[i] = runs[i]
    BY <1>3, <1>6 DEF FormInv
  <2> QED
    BY <1>3, <1>4, <1>5, <2>1 DEF OnForm, Here, Apart
<1>11. Fields(visit)'
  BY <1>5 DEF Fields
<1> QED
  BY <1>6, <1>7, <1>8, <1>9, <1>10, <1>11 DEF FormInv

\* The end of a tap frees its form, and is the end of the form if it was submitted.
LEMMA EndForm ==
  ASSUME SendInv, FormInv, NEW i \in Taps, runs[i].stage # "ended", NEW how \in Ends,
         NEW run \in {runs[i], [runs[i] EXCEPT !.submitted = TRUE]}, EndAs(i, how, run),
         run.submitted => how = "notsent"
  PROVE  FormInv'
<1> DEFINE ended == [run EXCEPT !.stage = "ended", !.end = how]
<1>1. /\ DOMAIN runs' = DOMAIN runs /\ runs'[i] = ended /\ i \in DOMAIN runs
      /\ \A j \in DOMAIN runs \ {i} : runs'[j] = runs[j]
  BY OnlyOne DEF EndAs, SendInv, Taps
<1>2. /\ ended.app = "mobile" /\ ended.place = runs[i].place /\ ended.rev = runs[i].rev
      /\ ended.key = runs[i].key /\ ended.stage = "ended" /\ (ended.submitted => how = "notsent")
  <2>1. Record(runs[i]) /\ runs[i].app = "mobile"
    BY DEF SendInv, Sound, Taps
  <2> QED
    BY <2>1 DEF Record
<1>3. /\ Fields(visit') /\ visit'.n = visit.n /\ visit'.rev = visit.rev /\ visit'.id = visit.id
      /\ visit'.amount = visit.amount
      /\ Here(i) => visit'.busy = FALSE /\ (how = "notsent" => visit'.step = "done")
      /\ ~Here(i) => visit' = visit
      /\ (visit'.step = "none") <=> (visit.step = "none")
      /\ visit'.step # visit.step => visit'.step = "done"
  <2>1. visit' = FormAfter(i, how) /\ runs[i].app = "mobile" /\ Fields(visit)
    BY DEF EndAs, FormInv, Taps
  <2> QED
    BY <2>1 DEF FormAfter, Fields, Here, Steps
<1> HIDE DEF ended
<1>4. Taps' = Taps /\ Fields(visit)'
  BY <1>1, <1>2, <1>3 DEF Taps, Fields
<1>5. ASSUME NEW j \in Taps, j # i PROVE OnForm(j)'
  <2>1. OnForm(j) /\ Apart(i, j) /\ runs'[j] = runs[j]
    BY <1>1, <1>5 DEF FormInv, Taps
  <2> QED
    BY <1>3, <2>1 DEF OnForm, Apart, Here, IdempotencyKey
<1>6. OnForm(i)'
  BY <1>1, <1>2, <1>3 DEF FormInv, OnForm, Here, IdempotencyKey
<1>7. ASSUME NEW j \in Taps, j # i PROVE Apart(i, j)' /\ Apart(j, i)'
  <2>1. OnForm(j) /\ Apart(i, j) /\ Apart(j, i) /\ runs'[j] = runs[j]
    BY <1>1, <1>7 DEF FormInv, Taps
  <2> QED
    BY <1>1, <1>2, <2>1 DEF OnForm, Apart
<1>8. ASSUME NEW j \in Taps \ {i}, NEW k \in Taps \ {i}, j # k PROVE Apart(j, k)'
  BY <1>1, <1>8 DEF FormInv, Apart, Taps
<1> QED
  BY <1>4, <1>5, <1>6, <1>7, <1>8 DEF FormInv

\* The end of a tap of either app, not of one that is accepted.
LEMMA AnyEndForm ==
  ASSUME SendInv, FormInv, NEW i \in DOMAIN runs, runs[i].stage # "ended", NEW how \in Ends,
         NEW run \in {runs[i], [runs[i] EXCEPT !.submitted = TRUE]}, EndAs(i, how, run),
         run.submitted /\ runs[i].app = "mobile" => how = "notsent"
  PROVE  FormInv'
<1>1. CASE runs[i].app = "mobile"
  BY <1>1, EndForm DEF Taps
<1>2. CASE runs[i].app # "mobile"
  <2> DEFINE ended == [run EXCEPT !.stage = "ended", !.end = how]
  <2>1. /\ DOMAIN runs' = DOMAIN runs /\ runs'[i] = ended
        /\ \A j \in DOMAIN runs \ {i} : runs'[j] = runs[j]
    BY OnlyOne DEF EndAs, SendInv
  <2>2. /\ ended.app = runs[i].app /\ ended.place = runs[i].place /\ ended.rev = runs[i].rev
        /\ ended.key = runs[i].key
    <3>1. Record(runs[i])
      BY DEF SendInv, Sound
    <3> QED
      BY <3>1 DEF Record
  <2> HIDE DEF ended
  <2>3. UNCHANGED visit
    BY <1>2 DEF EndAs, FormAfter
  <2> QED
    BY <1>2, <2>1, <2>2, <2>3, KeepsForm DEF Keeps
<1> QED
  BY <1>1, <1>2

\* A step of one tap that neither submits nor ends it, or is of the web app.
LEMMA GoForm ==
  ASSUME SendInv, FormInv, NEW i \in DOMAIN runs, NEW run, runs' = [runs EXCEPT ![i] = run], UNCHANGED visit,
         run.app = runs[i].app, run.place = runs[i].place, run.rev = runs[i].rev, run.key = runs[i].key,
         runs[i].app = "mobile" => /\ run.submitted = runs[i].submitted
                                   /\ (run.stage = "ended") <=> (runs[i].stage = "ended")
  PROVE  FormInv'
<1>1. /\ DOMAIN runs' = DOMAIN runs /\ runs'[i] = run
      /\ \A j \in DOMAIN runs \ {i} : runs'[j] = runs[j]
  BY OnlyOne DEF SendInv
<1> QED
  BY <1>1, KeepsForm DEF Keeps

LEMMA CallForm ==
  ASSUME SendInv, FormInv, NEW i \in DOMAIN runs,
         Prepare(i) \/ MobileGrant(i) \/ SandboxGrant(i) \/ Challenge(i) \/ PasskeyGrant(i)
  PROVE  FormInv'
<1>0. Record(runs[i]) /\ runs[i].stage \in {"prepare", "authorise", "prompt"}
  BY DEF SendInv, Sound, Prepare, MobileGrant, SandboxGrant, Challenge, PasskeyGrant
<1>a. runs[i].app = "mobile" => ~runs[i].submitted
  BY <1>0 DEF FormInv, OnForm, Taps, Record
<1>1. CASE \E how \in {"refused", "unregistered"} : EndAs(i, how, runs[i])
  BY <1>0, <1>a, <1>1, AnyEndForm DEF Ends
<1>2. CASE Go(i, [runs[i] EXCEPT !.stage = "authorise", !.verdict = "allow", !.on = i])
  BY <1>0, <1>2, GoForm DEF Go, Record
<1>3. CASE Go(i, [runs[i] EXCEPT !.stage = "authorise", !.verdict = "review"])
  BY <1>0, <1>3, GoForm DEF Go, Record
<1>4. CASE \E method : Granted(i, method)
  <2>1. PICK method : Go(i, [runs[i] EXCEPT !.stage = "submit", !.method = method])
    BY <1>4 DEF Granted
  <2> DEFINE run == [runs[i] EXCEPT !.stage = "submit", !.method = method]
  <2>2. /\ run.app = runs[i].app /\ run.place = runs[i].place /\ run.rev = runs[i].rev /\ run.key = runs[i].key
        /\ run.submitted = runs[i].submitted /\ run.stage = "submit"
    BY <1>0 DEF Record
  <2> HIDE DEF run
  <2> QED
    BY <1>0, <2>1, <2>2, GoForm DEF Go, run
<1>5. CASE Go(i, [runs[i] EXCEPT !.stage = "prompt"])
  BY <1>0, <1>5, GoForm DEF Go, Record
<1> QED
  BY <1>1, <1>2, <1>3, <1>4, <1>5
     DEF Prepare, PreparedBy, MobileGrant, SandboxGrant, Challenge, PasskeyGrant

LEMMA SubmitForm ==
  ASSUME SendInv, FormInv, NEW i \in DOMAIN runs, Submit(i) \/ Answer(i)
  PROVE  FormInv'
<1> DEFINE sent == [runs[i] EXCEPT !.submitted = TRUE]
<1>0. Record(runs[i]) /\ runs[i].stage \in {"submit", "waiting"}
  BY DEF SendInv, Sound, Submit, Answer
<1>b. /\ sent.app = runs[i].app /\ sent.place = runs[i].place /\ sent.rev = runs[i].rev
      /\ sent.key = runs[i].key /\ Record(sent)
  BY <1>0 DEF Record
<1>a. runs[i].app = "mobile" => ~runs[i].submitted
  BY <1>0 DEF FormInv, OnForm, Taps, Record
<1>1. CASE NotAccepted(i, sent)
  <2>1. PICK how \in {"notsent", "failed"} : EndAs(i, how, sent) /\ (runs[i].app = "mobile" => how = "notsent")
    BY <1>0, <1>b, <1>1 DEF NotAccepted
  <2> QED
    BY <1>0, <2>1, AnyEndForm DEF Ends
<1>2. CASE NotAccepted(i, runs[i])
  <2>1. PICK how \in {"notsent", "failed"} : EndAs(i, how, runs[i])
    BY <1>2 DEF NotAccepted
  <2> QED
    BY <1>0, <1>a, <2>1, AnyEndForm DEF Ends
<1>3. CASE EndAs(i, "settled", runs[i])
  BY <1>0, <1>a, <1>3, AnyEndForm DEF Ends
<1>4. ASSUME NEW j \in Joins(i), Accepted(i), UNCHANGED visit,
             runs' = [runs EXCEPT ![i] = [sent EXCEPT !.stage = "waiting", !.on = j], ![j].flow = "running"]
      PROVE  FormInv'
  <2> DEFINE waits == [sent EXCEPT !.stage = "waiting", !.on = j]
             first == [runs EXCEPT ![i] = waits]
  <2>1. runs[i].app = "web" /\ j \in DOMAIN runs
    BY <1>4 DEF Accepted, CarriesToken, Joins
  <2>2. /\ waits.app = "web" /\ waits.place = runs[i].place /\ waits.rev = runs[i].rev
        /\ waits.key = runs[i].key /\ Record(waits)
    <3>1. j \in Nat
      BY <2>1 DEF SendInv, Sequence
    <3> HIDE DEF sent
    <3> QED
      BY <1>b, <2>1, <3>1 DEF Record, RunStages
  <2>3. PICK S : runs \in Seq(S)
    BY DEF SendInv, Sequence
  <2>4. DOMAIN runs' = DOMAIN runs /\ runs' = [first EXCEPT ![j].flow = "running"]
    BY <1>4, <2>3
  <2>5. first[i] = waits /\ DOMAIN first = DOMAIN runs /\ \A k \in DOMAIN runs \ {i} : first[k] = runs[k]
    BY <2>3
  <2> HIDE DEF waits, first
  <2>6. \A k \in DOMAIN runs : Record(first[k])
    BY <2>2, <2>5 DEF SendInv, Sound
  <2>7. \A k \in DOMAIN runs : runs'[k] \in {first[k], [first[k] EXCEPT !.flow = "running"]}
    BY <2>1, <2>4, <2>5
  <2>8. ASSUME NEW k \in DOMAIN runs PROVE Keeps(k)
    <3>1. /\ runs'[k].app = first[k].app /\ runs'[k].place = first[k].place /\ runs'[k].rev = first[k].rev
          /\ runs'[k].key = first[k].key /\ runs'[k].submitted = first[k].submitted
          /\ runs'[k].stage = first[k].stage
      BY <2>6, <2>7 DEF Record
    <3> QED
      BY <2>1, <2>2, <2>5, <3>1 DEF Keeps
  <2> QED
    BY <1>4, <2>4, <2>8, KeepsForm
<1> QED
  BY <1>1, <1>2, <1>3, <1>4 DEF Submit, Answer

LEMMA ElsewhereForm ==
  ASSUME SendInv, FormInv,
         \/ OpenTab \/ WebQuote \/ WebQuoted \/ WebRegister \/ WebRegistered \/ Others \/ UNCHANGED sendVars
         \/ \E i \in DOMAIN runs : Post(i)
  PROVE  FormInv'
<1>1. UNCHANGED <<visit, runs>>
  BY DEF OpenTab, WebQuote, WebQuoted, WebRegister, WebRegistered, Others, PageOnly, Post, sendVars
<1> QED
  BY <1>1, KeepsForm DEF Keeps

LEMMA FlowForm ==
  ASSUME SendInv, FormInv, NEW i \in DOMAIN runs, FlowEnds(i)
  PROVE  FormInv'
<1>1. PICK flow : runs' = [runs EXCEPT ![i].flow = flow]
  BY DEF FlowEnds
<1>2. Record(runs[i]) /\ UNCHANGED visit
  BY DEF SendInv, Sound, FlowEnds
<1> QED
  BY <1>1, <1>2, GoForm DEF Record

LEMMA WebSendForm ==
  ASSUME SendInv, FormInv, WebSend
  PROVE  FormInv'
<1> DEFINE r == Run("web", web.page, 0, <<Len(runs)>>)
<1>1. PICK S : runs \in Seq(S)
  BY DEF SendInv, Sequence
<1>2. PICK n \in Nat : n = Len(runs) + 1
  BY <1>1
<1>3. /\ DOMAIN runs' = DOMAIN runs \cup {n} /\ n \notin DOMAIN runs /\ runs'[n].app = "web"
      /\ \A i \in DOMAIN runs : runs'[i] = runs[i]
  <2>1. runs \in Seq(S \cup {r}) /\ r.app = "web"
    BY <1>1 DEF Run
  <2>2. runs' = Append(runs, r)
    BY DEF WebSend
  <2> HIDE DEF r
  <2> QED
    BY <1>2, <2>1, <2>2
<1>4. Taps' = Taps /\ UNCHANGED visit /\ \A i \in Taps : runs'[i] = runs[i]
  BY <1>3 DEF Taps, WebSend, PageOnly
<1>5. Fields(visit)'
  BY <1>4 DEF FormInv, Fields
<1>6. ASSUME NEW i \in Taps PROVE OnForm(i)'
  BY <1>4, <1>6 DEF FormInv, OnForm, Here, IdempotencyKey
<1>7. ASSUME NEW i \in Taps, NEW j \in Taps, i # j PROVE Apart(i, j)'
  BY <1>4, <1>7 DEF FormInv, Apart
<1> QED
  BY <1>4, <1>5, <1>6, <1>7 DEF FormInv

LEMMA ReloadForm ==
  ASSUME SendInv, FormInv, WebReload
  PROVE  FormInv'
<1>1. UNCHANGED visit /\ DOMAIN runs' = DOMAIN runs
  BY DEF WebReload, PageOnly
<1>2. ASSUME NEW i \in DOMAIN runs PROVE Keeps(i)
  <2>1. Record(runs[i])
    BY DEF SendInv, Sound
  <2>2. runs'[i] = IF runs[i].app = "web" /\ runs[i].stage # "ended"
                   THEN [runs[i] EXCEPT !.stage = "ended", !.end = "reloaded"] ELSE runs[i]
    BY DEF WebReload
  <2> QED
    BY <2>1, <2>2 DEF Keeps, Record
<1> QED
  BY <1>1, <1>2, KeepsForm

LEMMA FormNext == SendInv /\ FormInv /\ [SendNext]_sendVars => FormInv'
<1> SUFFICES ASSUME SendInv, FormInv, [SendNext]_sendVars PROVE FormInv'
  OBVIOUS
<1>1. ASSUME NEW i \in DOMAIN runs, Continue(i) PROVE FormInv'
  BY <1>1, CallForm, SubmitForm DEF Continue
<1> QED
  BY <1>1, FormStep, AuthoriseForm, ElsewhereForm, FlowForm, WebSendForm, ReloadForm DEF SendNext, WebPage

-----------------------------------------------------------------------------

\* However the customer walks back, edits and is given other intents while a tap is
\* under way, one visit of the send screen submits one transfer at most.
THEOREM SendOneSubmission == SendSpec => []OneSubmissionPerVisit
<1>1. SendInv /\ FormInv => OneSubmissionPerVisit
  BY DEF FormInv, Apart, Taps, OneSubmissionPerVisit
<1> QED
  BY InvInit, NextInv, FormInit, FormNext, <1>1, PTL DEF SendSpec

\* Two taps on a form nobody touched in between carry one idempotency key.
THEOREM SendRetryKeepsKey == SendSpec => []RetryKeepsKey
<1>1. SendInv /\ FormInv => RetryKeepsKey
  BY DEF FormInv, Apart, Taps, RetryKeepsKey
<1> QED
  BY InvInit, NextInv, FormInit, FormNext, <1>1, PTL DEF SendSpec
-----------------------------------------------------------------------------
(* What the screens and the queue hold *)

\* A form that has its recipient.
Named(v) == v.step \in {"amount", "review"} => v.name \in Names

\* A page that works on something is busy.
WebPages == [page : Nat, tab : WebTabs, supported : BOOLEAN, job : {"none", "quote", "register", "send"},
             busy : BOOLEAN]

TypeInv == /\ Named(visit)
           /\ web \in WebPages /\ (web.job # "none" => web.busy)
           /\ queue \subseteq DOMAIN runs
           /\ stopped \in BOOLEAN /\ acts \in 0..MaxActs

LEMMA PageType ==
  ASSUME NEW n \in Nat, NEW supported \in BOOLEAN
  PROVE  Page(n, supported) \in WebPages /\ Page(n, supported).job = "none"
  BY DEF Page, WebPages, WebTabs

LEMMA TypeInit == SendInit => TypeInv
<1> SUFFICES ASSUME SendInit PROVE TypeInv
  OBVIOUS
<1>1. PICK supported \in BOOLEAN : web = Page(0, supported)
  BY DEF SendInit
<1>2. web \in WebPages /\ web.job = "none"
  BY <1>1, PageType
<1>3. Named(visit)
  BY DEF SendInit, NotMounted, Named
<1>4. acts = 0 /\ MaxActs \in Nat /\ queue = {} /\ stopped = FALSE
  BY SendAssumption DEF SendInit
<1>5. acts \in 0..MaxActs
  BY <1>4
<1> QED
  BY <1>2, <1>3, <1>4, <1>5 DEF TypeInv

\* The form is edited with the recipient it has, or one that is chosen.
LEMMA EditNamed ==
  ASSUME FormInv, NEW v, Fields(v), Edit(v), Named(v)
  PROVE  Named(visit')
<1>1. CASE visit' = v
  BY <1>1
<1>2. CASE visit' = Memoised(v)
  <2> DEFINE next == [v EXCEPT !.rev = v.rev + 1]
             id   == IF v.from = None THEN Now(next) ELSE v.from.id
  <2>1. next.step = v.step /\ next.name = v.name /\ Fields(next)
    BY DEF Fields
  <2>2. visit' = [next EXCEPT !.id = id]
    BY <1>2 DEF Memoised
  <2> HIDE DEF next, id
  <2>3. visit'.step = v.step /\ visit'.name = v.name
    BY <2>1, <2>2 DEF Fields
  <2> QED
    BY <2>3 DEF Named
<1> QED
  BY <1>1, <1>2 DEF Edit

\* An intent names its recipient.
LEMMA IntentNames ==
  ASSUME NEW now, NEW from \in QrIntents(now) \cup SpokenIntents(now)
  PROVE  from.name \in Names
<1>1. CASE from \in QrIntents(now)
  BY <1>1 DEF QrIntents, Codes
<1>2. CASE from \in VoiceIntents(now)
  BY <1>2 DEF VoiceIntents
<1>3. CASE from = Suggestion
  BY <1>3, SendAssumption DEF Suggestion
<1> QED
  BY <1>1, <1>2, <1>3 DEF SpokenIntents

LEMMA FormNamed ==
  ASSUME FormInv, TypeInv, Form
  PROVE  Named(visit')
<1>0. Fields(visit) /\ Named(visit)
  BY DEF FormInv, TypeInv
<1>1. CASE OpenSend
  <2>1. PICK from \in {None} \cup QrIntents(<<visit.n + 1, 0>>) \cup SpokenIntents(<<visit.n + 1, 0>>) :
          visit' = Mounted(visit.n + 1, from)
    BY <1>1 DEF OpenSend
  <2>2. from # None => from.name \in Names
    BY <2>1, IntentNames
  <2> QED
    BY <2>1, <2>2 DEF Mounted, Named
<1>2. CASE LeaveSend
  BY <1>2 DEF LeaveSend, NotMounted, Named
<1>3. ASSUME NEW from, Edit([visit EXCEPT !.from = from]) PROVE Named(visit')
  <2> DEFINE v == [visit EXCEPT !.from = from]
  <2>1. Fields(v) /\ v.step = visit.step /\ v.name = visit.name
    BY <1>0 DEF Fields
  <2> HIDE DEF v
  <2>2. Named(v)
    BY <1>0, <2>1 DEF Named
  <2> QED
    BY <1>3, <2>1, <2>2, EditNamed DEF v
<1>4. ASSUME NEW name \in Names, Edit([visit EXCEPT !.name = name, !.step = "amount"]) PROVE Named(visit')
  <2> DEFINE v == [visit EXCEPT !.name = name, !.step = "amount"]
  <2>1. Fields(v) /\ v.name = name
    BY <1>0 DEF Fields, Steps
  <2> HIDE DEF v
  <2>2. Named(v)
    BY <2>1 DEF Named
  <2> QED
    BY <1>4, <2>1, <2>2, EditNamed DEF v
<1>5. ASSUME NEW a, Edit([visit EXCEPT !.amount = a]) PROVE Named(visit')
  <2> DEFINE v == [visit EXCEPT !.amount = a]
  <2>1. Fields(v) /\ v.step = visit.step /\ v.name = visit.name
    BY <1>0 DEF Fields
  <2> HIDE DEF v
  <2>2. Named(v)
    BY <1>0, <2>1 DEF Named
  <2> QED
    BY <1>5, <2>1, <2>2, EditNamed DEF v
<1>6. ASSUME NEW step \in Steps, visit.step \in {"amount", "review"}, Edit([visit EXCEPT !.step = step])
      PROVE  Named(visit')
  <2> DEFINE v == [visit EXCEPT !.step = step]
  <2>1. Fields(v) /\ v.name = visit.name /\ visit.name \in Names
    BY <1>0, <1>6 DEF Fields, Named
  <2> HIDE DEF v
  <2>2. Named(v)
    BY <2>1 DEF Named
  <2> QED
    BY <1>6, <2>1, <2>2, EditNamed DEF v
<1>7. CASE StepBack
  <2>1. PICK v \in HeaderBack(visit) : Edit(v)
    BY <1>7 DEF StepBack
  <2> QED
    BY <1>6, <2>1 DEF HeaderBack, Steps
<1> QED
  BY <1>1, <1>2, <1>3, <1>4, <1>5, <1>6, <1>7 DEF Form, LateIntent, ChooseRecipient, TypeAmount, Review, Steps

\* Of the form's steps, only those of the form itself lead to the recipient's being needed.
LEMMA OthersNamed ==
  ASSUME SendInv, FormInv, TypeInv,
         \/ Authorise \/ UNCHANGED visit
         \/ \E i \in DOMAIN runs : \E how, run : EndAs(i, how, run)
  PROVE  Named(visit')
<1>0. Fields(visit) /\ Named(visit)
  BY DEF FormInv, TypeInv
<1>1. CASE Authorise
  <2>1. visit'.step = visit.step /\ visit'.name = visit.name
    BY <1>0, <1>1 DEF Authorise, Fields
  <2> QED
    BY <1>0, <2>1 DEF Named
<1>2. ASSUME NEW i \in DOMAIN runs, NEW how, NEW run, EndAs(i, how, run) PROVE Named(visit')
  <2>1. visit'.step \in {visit.step, "done"} /\ visit'.name = visit.name
    BY <1>0, <1>2 DEF EndAs, FormAfter, Fields
  <2> QED
    BY <1>0, <2>1 DEF Named
<1> QED
  BY <1>0, <1>1, <1>2

\* A tap goes on as it is, or ends and frees its page.
Calls(i) == \/ UNCHANGED <<visit, web>>
            \/ \E how, run : EndAs(i, how, run)

LEMMA ContinueCalls ==
  ASSUME NEW i \in DOMAIN runs, Continue(i)
  PROVE  /\ Calls(i) /\ UNCHANGED <<stopped, acts>>
         /\ queue' \subseteq queue \cup {i}
<1>1. CASE Submit(i)
  BY <1>1 DEF Submit, NotAccepted, Enqueue, CallUnchanged, Calls
<1>2. CASE Answer(i)
  BY <1>2 DEF Answer, NotAccepted, Enqueue, CallUnchanged, Calls
<1>3. CASE Prepare(i) \/ MobileGrant(i) \/ SandboxGrant(i) \/ Challenge(i) \/ PasskeyGrant(i)
  BY <1>3 DEF Prepare, PreparedBy, MobileGrant, SandboxGrant, Challenge, PasskeyGrant, Granted, Go, Elsewhere,
              CallUnchanged, Calls
<1> QED
  BY <1>1, <1>2, <1>3 DEF Continue

LEMMA WebStep ==
  ASSUME TypeInv, WebPage
  PROVE  web' \in WebPages /\ (web'.job # "none" => web'.busy)
<1>0. web \in WebPages /\ (web.job # "none" => web.busy)
  BY DEF TypeInv
<1>1. CASE OpenTab
  BY <1>0, <1>1 DEF OpenTab, WebPages
<1>2. CASE WebQuote \/ WebQuoted \/ WebRegister
  BY <1>0, <1>2 DEF WebQuote, WebQuoted, WebRegister, WebPages
<1>3. CASE WebRegistered
  <2>1. PICK busy \in BOOLEAN : web' = [web EXCEPT !.busy = busy, !.job = "none"]
    BY <1>3 DEF WebRegistered
  <2> QED
    BY <1>0, <2>1 DEF WebPages
<1>4. CASE WebSend
  BY <1>0, <1>4 DEF WebSend, WebPages
<1>5. CASE WebReload
  <2>1. web.page + 1 \in Nat /\ web.supported \in BOOLEAN
    BY <1>0 DEF WebPages
  <2> QED
    BY <1>5, <2>1, PageType DEF WebReload
<1> QED
  BY <1>1, <1>2, <1>3, <1>4, <1>5 DEF WebPage

\* No tap is ever forgotten.
LEMMA RunsGrow ==
  ASSUME SendInv, [SendNext]_sendVars
  PROVE  DOMAIN runs \subseteq DOMAIN runs'
<1>0. PICK S : runs \in Seq(S)
  BY DEF SendInv, Sequence
<1>1. ASSUME NEW r, runs' = Append(runs, r) PROVE DOMAIN runs \subseteq DOMAIN runs'
  <2>1. runs \in Seq(S \cup {r})
    BY <1>0
  <2> QED
    BY <1>1, <2>1
<1>2. CASE Authorise \/ WebSend
  BY <1>1, <1>2 DEF Authorise, WebSend
<1>3. CASE UNCHANGED runs \/ WebReload
  BY <1>3 DEF WebReload
<1>4. ASSUME NEW i \in DOMAIN runs, Continue(i) \/ Post(i) \/ FlowEnds(i)
      PROVE  DOMAIN runs' = DOMAIN runs
  BY <1>4 DEF Continue, Prepare, PreparedBy, MobileGrant, SandboxGrant, Challenge, PasskeyGrant, Granted, Go,
              EndAs, Submit, Answer, NotAccepted, Post, FlowEnds
<1>5. Form \/ OpenTab \/ WebQuote \/ WebQuoted \/ WebRegister \/ WebRegistered \/ Others \/ UNCHANGED sendVars
        => UNCHANGED runs
  BY DEF Form, OpenSend, LeaveSend, LateIntent, ChooseRecipient, TypeAmount, Review, StepBack, FormUnchanged,
         OpenTab, WebQuote, WebQuoted, WebRegister, WebRegistered, Others, PageOnly, sendVars
<1> QED
  BY <1>2, <1>3, <1>4, <1>5 DEF SendNext, WebPage

LEMMA ActsBounded ==
  ASSUME TypeInv, [SendNext]_sendVars
  PROVE  acts' \in 0..MaxActs
<1>1. UNCHANGED acts \/ Act
  <2>1. \A i \in DOMAIN runs : Continue(i) \/ Post(i) \/ FlowEnds(i) => UNCHANGED acts
    BY ContinueCalls DEF Post, FlowEnds, CallUnchanged
  <2> QED
    BY <2>1 DEF SendNext, Form, OpenSend, LeaveSend, LateIntent, ChooseRecipient, TypeAmount, Review, StepBack,
                Authorise, WebPage, OpenTab, WebQuote, WebQuoted, WebRegister, WebRegistered, WebSend, WebReload,
                Others, PageOnly, sendVars
<1> QED
  BY <1>1, SendAssumption DEF TypeInv, Act

LEMMA TypeNext == SendInv /\ FormInv /\ TypeInv /\ [SendNext]_sendVars => TypeInv'
<1> SUFFICES ASSUME SendInv, FormInv, TypeInv, [SendNext]_sendVars PROVE TypeInv'
  OBVIOUS
<1>0. DOMAIN runs \subseteq DOMAIN runs' /\ acts' \in 0..MaxActs
  BY RunsGrow, ActsBounded
<1>1. CASE Form
  <2>1. UNCHANGED <<web, queue, stopped>>
    BY <1>1 DEF Form, OpenSend, LeaveSend, LateIntent, ChooseRecipient, TypeAmount, Review, StepBack, FormUnchanged
  <2> QED
    BY <1>0, <1>1, <2>1, FormNamed DEF TypeInv
<1>2. CASE Authorise \/ Others \/ UNCHANGED sendVars \/ \E i \in DOMAIN runs : Post(i) \/ FlowEnds(i)
  <2>1. UNCHANGED <<web, queue>> /\ (Authorise \/ UNCHANGED visit) /\ stopped' \in BOOLEAN
    BY <1>2 DEF Authorise, Others, Post, FlowEnds, CallUnchanged, sendVars, TypeInv
  <2> QED
    BY <1>0, <2>1, OthersNamed DEF TypeInv
<1>3. CASE WebPage
  <2>1. UNCHANGED <<visit, queue, stopped>>
    BY <1>3 DEF WebPage, OpenTab, WebQuote, WebQuoted, WebRegister, WebRegistered, WebSend, WebReload, PageOnly
  <2> QED
    BY <1>0, <1>3, <2>1, OthersNamed, WebStep DEF TypeInv
<1>4. ASSUME NEW i \in DOMAIN runs, Continue(i) PROVE TypeInv'
  <2>1. Calls(i) /\ UNCHANGED stopped /\ queue' \subseteq queue \cup {i}
    BY <1>4, ContinueCalls
  <2>2. web' \in WebPages /\ (web'.job # "none" => web'.busy)
    BY <2>1 DEF TypeInv, Calls, EndAs, PageAfter, WebPages
  <2>3. Named(visit')
    BY <2>1, OthersNamed DEF Calls
  <2> QED
    BY <1>0, <2>1, <2>2, <2>3 DEF TypeInv
<1> QED
  BY <1>1, <1>2, <1>3, <1>4 DEF SendNext

\* A payment that is under review has a recipient, a page that works on something is
\* busy, and what the queue, the ledger and a waiting tap refer to are taps that were made.
THEOREM SendTyped == SendSpec => []SendTypeOK
<1>1. SendInv /\ FormInv /\ TypeInv => SendTypeOK
  <2> SUFFICES ASSUME SendInv, FormInv, TypeInv PROVE SendTypeOK
    OBVIOUS
  <2>1. visit.step \in Steps \cup {"none"} /\ visit.busy \in BOOLEAN
    BY DEF FormInv, Fields
  <2>2. ASSUME NEW i \in DOMAIN runs
        PROVE  runs[i].on \in 0..Len(runs) /\ (runs[i].stage = "waiting" => runs[i].on # 0)
    <3>1. PICK S : runs \in Seq(S)
      BY DEF SendInv, Sequence
    <3>2. DOMAIN runs = 1..Len(runs) /\ Len(runs) \in Nat
      BY <3>1
    <3>3. runs[i].on \in DOMAIN runs \cup {0} /\ (runs[i].stage = "waiting" => runs[i].on \in DOMAIN runs)
      BY DEF SendInv, Sound
    <3> QED
      BY <3>2, <3>3
  <2>3. posted \subseteq DOMAIN runs /\ registered \in BOOLEAN
    BY DEF SendInv, Books
  <2> QED
    BY <2>1, <2>2, <2>3 DEF TypeInv, Named, WebPages, SendTypeOK
<1> QED
  BY InvInit, NextInv, FormInit, FormNext, TypeInit, TypeNext, <1>1, PTL DEF SendSpec
=============================================================================
