----------------------------- MODULE MobileProofs -----------------------------
(***************************************************************************)
(* For any number of changes, wherever they are made: a screen at rest     *)
(* shows the wallet as it was when the answer it took last was given, and  *)
(* the freeze screen is a few taps away.  The invariant says that the      *)
(* freeze screen waits for one thing at a time, and what a told screen or  *)
(* the answers on their way say of the wallet; and that every button names *)
(* a tab or a screen there is.                                             *)
(***************************************************************************)
EXTENDS MobileApp, TLAPS

Answers == {"active", "frozen"}

Kept ==
  /\ wallet \in Answers /\ frozen \in BOOLEAN /\ sure \in BOOLEAN /\ loading \in BOOLEAN /\ busy \in BOOLEAN
  /\ reads \subseteq [kind : {"mount", "again"}, val : {"sent", "failed"} \cup Answers, fresh : BOOLEAN]
  /\ call \in [act : {"freeze", "unfreeze"}, stage : {"sent", "done"}] \cup {NoCall}
  /\ late \subseteq {"freeze", "unfreeze"}

\* The freeze screen reads its first balance, or makes a request, or reads again.
OneAtATime ==
  IF Mounted = "freeze"
  THEN /\ \A r, s \in reads : r = s
       /\ loading => ~busy /\ call = NoCall
       /\ ~loading => \A r \in reads : r.kind = "again"
       /\ ~loading /\ ~busy => reads = {}
       /\ call # NoCall => busy /\ ~loading /\ reads = {}
  ELSE call = NoCall /\ ~busy /\ ~loading

\* A fresh answer gives the wallet's status, and so does a screen that is sure of it, which
\* is about to when its own request is done.
Told ==
  /\ \A r \in reads : r.fresh => r.val = wallet
  /\ sure => IF call.stage = "done" THEN wallet = StatusAfter(call.act)
                                    ELSE frozen <=> wallet = "frozen"

WalletInv == Kept /\ OneAtATime /\ Told

-----------------------------------------------------------------------------

LEMMA WalletInit == MobileInit => WalletInv
  BY DEF MobileInit, WalletInv, Kept, OneAtATime, Told, Answers, NoCall, Launched, Mounted, Shown

LEMMA ElsewhereInv ==
  ASSUME WalletInv, UNCHANGED <<nav, walletVars>>
  PROVE  WalletInv'
  BY DEF WalletInv, Kept, OneAtATime, Told, walletVars, Mounted

\* A request the customer does not wait for is one that was made.
LEMMA LeftBehind ==
  ASSUME Kept, late' = (IF call.stage = "sent" THEN late \cup {call.act} ELSE late)
  PROVE  late' \subseteq {"freeze", "unfreeze"}
<1>1. CASE call = NoCall
  <2>1. call.stage # "sent"
    BY <1>1 DEF NoCall
  <2> QED
    BY <2>1 DEF Kept
<1>2. CASE call # NoCall
  <2>1. call.act \in {"freeze", "unfreeze"}
    BY <1>2 DEF Kept
  <2> QED
    BY <2>1 DEF Kept
<1> QED
  BY <1>1, <1>2

LEMMA VisitInv ==
  ASSUME WalletInv, NEW n, nav' = n, Visit(Shown(n))
  PROVE  WalletInv'
<1>1. Mounted' = Shown(n)
  BY DEF Mounted, Shown
<1>2. /\ frozen' = FALSE /\ sure' = FALSE /\ busy' = FALSE /\ call' = NoCall /\ wallet' = wallet
      /\ reads' = (IF Shown(n) \in BalanceViews THEN {Read("mount")} ELSE {})
      /\ loading' = (Shown(n) = "freeze")
      /\ late' = (IF call.stage = "sent" THEN late \cup {call.act} ELSE late)
  BY DEF Visit
<1>3. Kept'
  <2>1. Read("mount") \in [kind : {"mount", "again"}, val : {"sent", "failed"} \cup Answers, fresh : BOOLEAN]
    BY DEF Read
  <2>2. late' \subseteq {"freeze", "unfreeze"}
    BY <1>2, LeftBehind DEF WalletInv
  <2>3. (Shown(n) = "freeze") \in BOOLEAN
    OBVIOUS
  <2> QED
    BY <1>2, <2>1, <2>2, <2>3 DEF WalletInv, Kept
<1>4. OneAtATime'
  BY <1>1, <1>2 DEF OneAtATime, Read
<1> QED
  BY <1>2, <1>3, <1>4 DEF WalletInv, Told, Read

LEMMA ServeReadInv ==
  ASSUME WalletInv, ServeRead
  PROVE  WalletInv'
<1>1. PICK r \in reads :
        /\ r.val = "sent"
        /\ \E answer \in {[r EXCEPT !.val = wallet, !.fresh = TRUE], [r EXCEPT !.val = "failed"]} :
             reads' = (reads \ {r}) \cup {answer}
        /\ UNCHANGED <<nav, wallet, frozen, sure, loading, busy, call, late>>
  BY DEF ServeRead, Others
<1>2. PICK answer \in {[r EXCEPT !.val = wallet, !.fresh = TRUE], [r EXCEPT !.val = "failed"]} :
        reads' = (reads \ {r}) \cup {answer}
  BY <1>1
<1>3. call = NoCall
  BY <1>1 DEF WalletInv, OneAtATime
<1>4. /\ r \in [kind : {"mount", "again"}, val : {"sent"}, fresh : BOOLEAN]
      /\ r.fresh => wallet = "sent"
  BY <1>1 DEF WalletInv, Kept, Told
<1>5. /\ answer \in [kind : {r.kind}, val : {"failed"} \cup Answers, fresh : BOOLEAN]
      /\ answer.fresh => answer.val = wallet
  BY <1>2, <1>4 DEF WalletInv, Kept, Answers
<1>6. Kept'
  BY <1>1, <1>2, <1>4, <1>5 DEF WalletInv, Kept
<1>7. OneAtATime'
  BY <1>1, <1>2, <1>3, <1>4, <1>5 DEF WalletInv, OneAtATime, Mounted
<1>8. Told'
  BY <1>1, <1>2, <1>5 DEF WalletInv, Told
<1> QED
  BY <1>6, <1>7, <1>8 DEF WalletInv

LEMMA TakeReadInv ==
  ASSUME WalletInv, TakeRead
  PROVE  WalletInv'
<1>1. PICK r \in reads :
        /\ r.val # "sent" /\ reads' = reads \ {r}
        /\ frozen' = IF r.val = "failed" THEN frozen ELSE r.val = "frozen"
        /\ sure' = IF r.val = "failed" THEN sure ELSE r.fresh
        /\ loading' = FALSE /\ busy' = (busy /\ r.kind = "mount")
        /\ UNCHANGED <<nav, wallet, call, late>>
  BY DEF TakeRead, Others
<1>2. /\ call = NoCall /\ r.val \in {"failed"} \cup Answers /\ r.kind \in {"mount", "again"}
      /\ r.fresh \in BOOLEAN
  BY <1>1 DEF WalletInv, OneAtATime, Kept
<1>3. Kept'
  BY <1>1, <1>2 DEF WalletInv, Kept
<1>4. OneAtATime'
  BY <1>1, <1>2 DEF WalletInv, OneAtATime, Mounted, Kept
<1>5. Told'
  <2>1. CASE r.val = "failed"
    BY <1>1, <2>1 DEF WalletInv, Told
  <2>2. CASE r.val # "failed"
    <3>1. sure' => r.val = wallet
      BY <1>1, <2>2 DEF WalletInv, Told
    <3>2. call'.stage # "done"
      BY <1>1, <1>2 DEF NoCall
    <3> QED
      BY <1>1, <2>2, <3>1, <3>2 DEF WalletInv, Told
  <2> QED
    BY <2>1, <2>2
<1> QED
  BY <1>3, <1>4, <1>5 DEF WalletInv

LEMMA RequestInv ==
  ASSUME WalletInv, PressFreeze \/ ServeFreeze \/ FreezeAnswered \/ FreezeFails
  PROVE  WalletInv'
<1>0. /\ Mounted' = Mounted
      /\ (call \in [act : {"freeze", "unfreeze"}, stage : {"sent", "done"}]) <=> call # NoCall
  BY DEF PressFreeze, ServeFreeze, FreezeAnswered, FreezeFails, Others, Mounted, WalletInv, Kept, NoCall
<1>1. CASE PressFreeze
  BY <1>0, <1>1 DEF PressFreeze, FreezeButton, WalletInv, Kept, OneAtATime, Told, NoCall
<1>2. CASE ServeFreeze
  <2>1. call # NoCall /\ Mounted = "freeze" /\ busy /\ ~loading /\ reads = {}
    BY <1>2 DEF ServeFreeze, NoCall, WalletInv, OneAtATime
  <2>2. /\ call'.act = call.act /\ call'.stage = "done" /\ call' # NoCall
        /\ call' \in [act : {"freeze", "unfreeze"}, stage : {"sent", "done"}]
    BY <1>0, <1>2, <2>1 DEF ServeFreeze, NoCall
  <2>3. Kept'
    BY <1>2, <2>2 DEF ServeFreeze, Others, WalletInv, Kept, StatusAfter, Answers
  <2>4. OneAtATime' /\ Told'
    BY <1>0, <1>2, <2>1, <2>2 DEF ServeFreeze, Others, OneAtATime, Told, StatusAfter
  <2> QED
    BY <2>3, <2>4 DEF WalletInv
<1>3. CASE FreezeAnswered
  <2>1. call # NoCall /\ Mounted = "freeze" /\ busy /\ ~loading /\ reads = {} /\ call.act \in {"freeze", "unfreeze"}
    BY <1>0, <1>3 DEF FreezeAnswered, NoCall, WalletInv, OneAtATime
  <2>2. Kept'
    BY <1>3, <2>1 DEF FreezeAnswered, Others, WalletInv, Kept, Read
  <2>3. OneAtATime'
    BY <1>0, <1>3, <2>1 DEF FreezeAnswered, Others, OneAtATime, Read
  <2>4. Told'
    <3>1. /\ call.stage = "done" /\ frozen' = (call.act = "freeze") /\ wallet' = wallet /\ sure' = sure
          /\ \A r \in reads' : ~r.fresh
          /\ call' = NoCall
      BY <1>3, <2>1 DEF FreezeAnswered, Others, Read
    <3>2. call'.stage # "done"
      BY <3>1 DEF NoCall
    <3>3. sure => (wallet = "frozen" <=> call.act = "freeze")
      BY <2>1, <3>1 DEF WalletInv, Told, StatusAfter
    <3> QED
      BY <3>1, <3>2, <3>3 DEF Told
  <2> QED
    BY <2>2, <2>3, <2>4 DEF WalletInv
<1>4. CASE FreezeFails
  <2>1. call # NoCall /\ Mounted = "freeze" /\ ~loading /\ reads = {} /\ call.act \in {"freeze", "unfreeze"}
    BY <1>0, <1>4 DEF FreezeFails, WalletInv, OneAtATime
  <2> QED
    BY <1>0, <1>4, <2>1 DEF FreezeFails, Others, WalletInv, Kept, OneAtATime, Told, NoCall
<1> QED
  BY <1>1, <1>2, <1>3, <1>4

\* What happens to the wallet away from the screen.
LEMMA BehindInv ==
  ASSUME WalletInv, ServeLate \/ ChangedElsewhere
  PROVE  WalletInv'
<1> DEFINE stale(r) == [r EXCEPT !.fresh = FALSE]
<1>1. /\ UNCHANGED <<nav, frozen, loading, busy, call>> /\ late' \subseteq late /\ wallet' \in Answers
      /\ \/ UNCHANGED <<wallet, sure, reads>>
         \/ sure' = FALSE /\ reads' = {stale(r) : r \in reads}
  <2>0. ASSUME NEW status \in Answers, Behind(status)
        PROVE  /\ wallet' \in Answers
               /\ \/ UNCHANGED <<wallet, sure, reads>>
                  \/ sure' = FALSE /\ reads' = {stale(r) : r \in reads}
    BY <2>0 DEF Behind
  <2>1. CASE ServeLate
    <3>1. PICK act \in late :
            /\ late' = late \ {act}
            /\ Behind(StatusAfter(act)) \/ UNCHANGED <<wallet, sure, reads>>
            /\ UNCHANGED <<nav, frozen, loading, busy, call>>
      BY <2>1 DEF ServeLate, Others
    <3>2. StatusAfter(act) \in Answers
      BY DEF StatusAfter, Answers
    <3>3. CASE Behind(StatusAfter(act))
      BY <2>0, <3>1, <3>2, <3>3
    <3>4. CASE UNCHANGED <<wallet, sure, reads>>
      BY <3>1, <3>4 DEF WalletInv, Kept
    <3> QED
      BY <3>1, <3>3, <3>4
  <2>2. CASE ChangedElsewhere
    <3>1. PICK status \in Answers : Behind(status)
      BY <2>2 DEF ChangedElsewhere, Answers
    <3> QED
      BY <2>0, <2>2, <3>1 DEF ChangedElsewhere
  <2> QED
    BY <2>1, <2>2
<1>2. CASE UNCHANGED <<wallet, sure, reads>>
  BY <1>1, <1>2 DEF WalletInv, Kept, OneAtATime, Told, Mounted
<1>3. CASE sure' = FALSE /\ reads' = {stale(r) : r \in reads}
  <2>1. \A r \in reads : /\ stale(r) \in [kind : {r.kind}, val : {r.val}, fresh : {FALSE}]
                         /\ stale(r) \in [kind : {"mount", "again"}, val : {"sent", "failed"} \cup Answers,
                                         fresh : BOOLEAN]
    BY DEF WalletInv, Kept
  <2>2. Kept'
    BY <1>1, <1>3, <2>1 DEF WalletInv, Kept
  <2>3. OneAtATime'
    BY <1>1, <1>3, <2>1 DEF WalletInv, OneAtATime, Mounted
  <2>4. Told'
    BY <1>3, <2>1 DEF Told
  <2> QED
    BY <2>2, <2>3, <2>4 DEF WalletInv
<1> QED
  BY <1>1, <1>2, <1>3

LEMMA RefreshInv ==
  ASSUME WalletInv, RefreshHome
  PROVE  WalletInv'
<1>1. /\ Mounted = "home" /\ reads' = reads \cup {Read("again")}
      /\ UNCHANGED <<nav, wallet, frozen, sure, loading, busy, call, late>>
  BY DEF RefreshHome
<1>2. /\ Read("again") \in [kind : {"mount", "again"}, val : {"sent", "failed"} \cup Answers, fresh : BOOLEAN]
      /\ ~Read("again").fresh
  BY DEF Read
<1>3. Kept'
  BY <1>1, <1>2 DEF WalletInv, Kept
<1>4. OneAtATime'
  BY <1>1 DEF WalletInv, OneAtATime, Mounted
<1>5. Told'
  BY <1>1, <1>2 DEF WalletInv, Told
<1> QED
  BY <1>3, <1>4, <1>5 DEF WalletInv

LEMMA WalletNext == WalletInv /\ [MobileNext]_mobileVars => WalletInv'
<1> SUFFICES ASSUME WalletInv, [MobileNext]_mobileVars PROVE WalletInv'
  OBVIOUS
<1>1. CASE Navigate
  <2>1. PICK n : nav' = n /\ \/ Shown(n) = Mounted /\ UNCHANGED walletVars
                             \/ Visit(Shown(n))
    BY <1>1 DEF Navigate
  <2>2. CASE Shown(n) = Mounted /\ UNCHANGED walletVars
    <3>1. Mounted' = Mounted
      BY <2>1, <2>2 DEF Mounted, Shown
    <3> QED
      BY <2>2, <3>1 DEF WalletInv, Kept, OneAtATime, Told, walletVars
  <2> QED
    BY <2>1, <2>2, VisitInv
<1>2. CASE Kill
  <2>1. Mounted' = "splash"
    BY <1>2 DEF Kill, Launched, Mounted, Shown
  <2>2. /\ reads' = {} /\ call' = NoCall /\ ~sure' /\ ~busy' /\ ~loading' /\ wallet' = wallet
        /\ frozen' = FALSE /\ sure' = FALSE /\ busy' = FALSE /\ loading' = FALSE
    BY <1>2 DEF Kill
  <2>3. late' \subseteq {"freeze", "unfreeze"}
    BY <1>2, LeftBehind DEF Kill, WalletInv
  <2>4. Kept'
    BY <2>2, <2>3 DEF WalletInv, Kept
  <2> QED
    BY <2>1, <2>2, <2>4 DEF WalletInv, OneAtATime, Told
<1>3. CASE Wallet
  BY <1>3, ServeReadInv, TakeReadInv, RefreshInv, RequestInv, BehindInv DEF Wallet
<1>4. CASE SoundSettings
  BY <1>4, ElsewhereInv DEF SoundSettings, ToggleClicks, ToggleSonic, ChoosePack, ChooseServices, PreviewClick,
     UploadSound, ClearCustom, StartJob, SetSound
<1>5. CASE SoundJobs
  BY <1>5, ElsewhereInv DEF SoundJobs, Pick, RemoveFile, RecordSound
<1>6. CASE \/ ServeStorage /\ UNCHANGED <<nav, walletVars, soundVars>>
           \/ ThemeSettings /\ UNCHANGED <<nav, walletVars, soundVars>>
           \/ ChangeRecord \/ UNCHANGED mobileVars
  <2>1. UNCHANGED <<nav, walletVars>>
    BY <1>6 DEF ChangeRecord, mobileVars
  <2> QED
    BY <2>1, ElsewhereInv
<1> QED
  BY <1>1, <1>2, <1>3, <1>4, <1>5, <1>6 DEF MobileNext

\* However reads, requests, time-outs, late requests and visits interleave, a screen at
\* rest shows the wallet frozen exactly when it is, unless the wallet changed behind the
\* screen after the answer was given that it took last, or it has taken none.
THEOREM MobileFrozenIsShown == MobileSpec => []FrozenIsShown
<1>1. WalletInv => FrozenIsShown
  BY DEF WalletInv, Kept, OneAtATime, Told, FrozenIsShown, NoCall
<1> QED
  BY WalletInit, WalletNext, <1>1, PTL DEF MobileSpec

-----------------------------------------------------------------------------
(* The way to the freeze screen *)

NavInv == nav \in Navs

\* Every button names a tab or a screen, and every screen there is has a branch.
LEMMA LinksLead ==
  ASSUME NEW s \in Rendered, NEW t \in Links[s] \cup HomeAlertLinks \cup OrbLinks
  PROVE  t \in Tabs \cup Stacks /\ Resolve(t) = t
<1>1. t \in Tabs \cup Stacks
  <2>1. CASE t \in HomeAlertLinks \cup OrbLinks
    BY <2>1 DEF HomeAlertLinks, OrbLinks, Stacks
  <2>2. CASE t \in Links[s] /\ s \in Tabs \cup Products
    BY <2>2 DEF Rendered, Links, Tabs, Products, Stacks, HomeLinks, HomeRecent, PaymentsLinks, MoneyLinks,
                ActivityLinks, ActivityRows, ProfileLinks, ProductLinks
  <2>3. CASE t \in Links[s] /\ s \in {"splash", "welcome", "board", "voice", "servicesDrawer", "accounts", "send",
                                      "receive", "scan", "crossBorder", "bills", "airtime"}
    BY <2>3 DEF Rendered, Links, Tabs, Products, Stacks, SplashLinks, WelcomeLinks, BoardLinks, VoiceLinks,
                ServicesLinks, AccountsLinks, SendLinks, ReceiveLinks, ScanLinks, CrossBorderLinks, BillsLinks,
                AirtimeLinks
  <2>4. CASE t \in Links[s] /\ s \in {"receipt", "failedPayment", "security", "support", "freeze", "settings",
                                      "invest", "cards", "savings", "merchant", "insights", "identity"}
    BY <2>4 DEF Rendered, Links, Tabs, Products, Stacks, ReceiptLinks, FailedLinks, SecurityLinks, SupportLinks,
                FreezeLinks, SettingsLinks, InvestLinks, InvestActions, InvestPanels, InvestCoach, CardsLinks,
                SavingsLinks, MerchantLinks, MerchantPays, InsightsLinks, IdentityLinks
  <2> QED
    BY <2>1, <2>2, <2>3, <2>4 DEF Rendered
<1> QED
  BY <1>1 DEF Resolve, Tabs, Stacks

LEMMA ShownRendered ==
  ASSUME NEW n \in Navs
  PROVE  /\ Shown(n) \in Rendered /\ n.tab \in Tabs
         /\ n = [tab |-> n.tab, stack |-> n.stack, step |-> n.step]
  BY DEF Navs, Locations, Shown, Rendered, Stacks, Products, Tabs

LEMMA TabStays == ASSUME NEW t \in Tabs PROVE AfterTab(t) \in Navs
  BY DEF AfterTab, Navs, Locations

LEMMA GoStays ==
  ASSUME NEW n \in Navs, NEW t \in Tabs \cup Stacks, Resolve(t) = t
  PROVE  AfterGo(n, t) \in Navs
<1>1. CASE t \in Tabs
  <2>1. AfterGo(n, t) = AfterTab(t)
    BY <1>1 DEF AfterGo, Tabs
  <2> QED
    BY <1>1, <2>1, TabStays
<1>2. CASE t \in {"splash", "welcome"}
  <2>1. AfterGo(n, t) = [tab |-> "home", stack |-> t, step |-> "none"]
    BY <1>2 DEF AfterGo, Tabs
  <2> QED
    BY <1>2, <2>1 DEF Navs, Locations, Tabs, Stacks
<1>3. CASE t \notin Tabs \cup {"splash", "welcome"}
  <2>1. AfterGo(n, t) = [n EXCEPT !.stack = t, !.step = FirstStep(n, t)]
    BY <1>3 DEF AfterGo
  <2>2. FirstStep(n, t) \in SendSteps \cup {"none"} /\ (t = "send" <=> FirstStep(n, t) # "none")
    BY DEF FirstStep, SendSteps
  <2> QED
    BY <1>3, <2>1, <2>2 DEF Navs, Locations
<1> QED
  BY <1>1, <1>2, <1>3

\* The steps of the send screen follow each other.
LEMMA StepsStay ==
  ASSUME NEW n \in Navs
  PROVE  /\ \A step \in DOMAIN StepBack : StepBack[step] \in SendSteps
         /\ \A step \in DOMAIN StepOn : StepOn[step] \in SendSteps
         /\ \A step \in SendSteps : n.stack = "send" => [n EXCEPT !.step = step] \in Navs
<1>1. \A step \in SendSteps : n.stack = "send" => [n EXCEPT !.step = step] \in Navs
  BY DEF Navs, Locations, SendSteps
<1> QED
  BY <1>1 DEF StepBack, StepOn, SendSteps

LEMMA TapsStay ==
  ASSUME NEW n \in Navs, NEW m \in Taps(n) \cup {AfterGo(n, t) : t \in HomeAlertLinks}
  PROVE  m \in Navs
<1>1. Shown(n) \in Rendered /\ n.tab \in Tabs
  BY ShownRendered
<1>2. CASE \E t \in Links[Shown(n)] \cup HomeAlertLinks \cup OrbLinks : m = AfterGo(n, t)
  BY <1>1, <1>2, LinksLead, GoStays
<1>3. CASE m = AfterBack(n) \/ \E t \in Tabs : m = AfterTab(t)
  BY <1>1, <1>3, TabStays DEF AfterBack
<1>4. CASE m \in Backs(n)
  <2>1. n.step \in DOMAIN StepBack => n.stack = "send"
    BY DEF Navs, StepBack
  <2> QED
    BY <1>3, <1>4, <2>1, StepsStay DEF Backs
<1>5. CASE m \in SendTaps(n)
  <2>1. n.stack = "send" /\ n.step \in SendSteps
    BY <1>5 DEF SendTaps, Navs, Locations
  <2>2. \A t \in SendStepLinks[n.step] : t \in Stacks /\ Resolve(t) = t
    BY <2>1 DEF SendStepLinks, SendSteps, Stacks, Resolve
  <2> QED
    BY <1>5, <2>1, <2>2, GoStays, StepsStay DEF SendTaps
<1> QED
  BY <1>2, <1>3, <1>4, <1>5 DEF Taps

LEMMA NavInit == MobileInit => NavInv
  BY DEF MobileInit, NavInv, Launched, Navs, Locations, Tabs, Stacks

LEMMA NavNext == NavInv /\ [MobileNext]_mobileVars => NavInv'
<1> SUFFICES ASSUME NavInv, [MobileNext]_mobileVars PROVE NavInv'
  OBVIOUS
<1>1. CASE Navigate
  BY <1>1, TapsStay DEF Navigate, NavInv
<1>2. CASE Kill
  BY <1>2 DEF Kill, NavInv, Launched, Navs, Locations, Tabs, Stacks
<1>3. CASE UNCHANGED nav
  BY <1>3 DEF NavInv
<1>4. Wallet \/ SoundSettings \/ SoundJobs \/ ChangeRecord \/ UNCHANGED mobileVars => UNCHANGED nav
  BY DEF Wallet, ServeRead, TakeRead, RefreshHome, PressFreeze, ServeFreeze, FreezeAnswered, FreezeFails, ServeLate,
         ChangedElsewhere, Others, SoundSettings, ToggleClicks, ToggleSonic, ChoosePack, ChooseServices,
         PreviewClick, UploadSound, ClearCustom, StartJob, SetSound, SoundJobs, Pick, RemoveFile, RecordSound,
         ChangeRecord, mobileVars
<1> QED
  BY <1>1, <1>2, <1>3, <1>4 DEF MobileNext

\* One tap more.
TapFrom(there) == there \cup {n \in Navs : Shown(n) \in Rendered /\ Taps(n) \cap there # {}}

LEMMA FreezeInSteps ==
  /\ FreezeIn[0] = {n \in Navs : Shown(n) = "freeze"}
  /\ \A k \in 1..4 : FreezeIn[k] = TapFrom(FreezeIn[k - 1])
<1> DEFINE at0 == {n \in Navs : Shown(n) = "freeze"}
           at1 == TapFrom(at0)
           at2 == TapFrom(at1)
           at3 == TapFrom(at2)
           at4 == TapFrom(at3)
           g   == [k \in 0..4 |-> IF k = 0 THEN at0 ELSE IF k = 1 THEN at1 ELSE IF k = 2 THEN at2
                                ELSE IF k = 3 THEN at3 ELSE at4]
           Solves(f) == f = [k \in 0..4 |-> IF k = 0 THEN at0 ELSE TapFrom(f[k - 1])]
<1>1. Solves(g)
  <2> DEFINE h == [k \in 0..4 |-> IF k = 0 THEN at0 ELSE TapFrom(g[k - 1])]
  <2>1. g[0] = at0 /\ g[1] = at1 /\ g[2] = at2 /\ g[3] = at3 /\ g[4] = at4
    OBVIOUS
  <2>2. h[0] = at0 /\ h[1] = at1 /\ h[2] = at2 /\ h[3] = at3 /\ h[4] = at4
    <3> HIDE DEF g, at0
    <3> QED
      BY <2>1
  <2>3. \A k \in 0..4 : g[k] = h[k]
    <3> HIDE DEF g, h, at0, at1, at2, at3, at4
    <3> QED
      BY <2>1, <2>2
  <2>4. DOMAIN g = 0..4 /\ DOMAIN h = 0..4 /\ g = [k \in 0..4 |-> g[k]] /\ h = [k \in 0..4 |-> h[k]]
    OBVIOUS
  <2> HIDE DEF g, h
  <2>5. g = h
    BY <2>3, <2>4
  <2> QED
    BY <2>5 DEF h
<1>2. FreezeIn = CHOOSE f : Solves(f)
  BY DEF FreezeIn, TapFrom
<1> HIDE DEF Solves, g
<1>3. Solves(FreezeIn)
  BY <1>1, <1>2
<1> QED
  BY <1>3 DEF Solves

\* A customer who sees his money is three taps from the freeze screen, back, to the profile
\* tab, and its button; and four taps where back leads through the steps of a payment.
THEOREM MobileFreezeIsNear == MobileSpec => []FreezeIsNear
<1>1. NavInv => FreezeIsNear
  <2> SUFFICES ASSUME NavInv, Mounted \notin {"splash", "welcome"}
               PROVE  nav \in FreezeIn[IF nav.step = "none" THEN 3 ELSE 4]
    BY DEF FreezeIsNear
  <2>1. \A k \in 1..4 : /\ FreezeIn[k - 1] \subseteq FreezeIn[k]
                        /\ \A n \in Navs : Taps(n) \cap FreezeIn[k - 1] # {} => n \in FreezeIn[k]
    BY FreezeInSteps, ShownRendered DEF TapFrom
  <2>2. AfterTab("profile") \in FreezeIn[1] /\ AfterTab("profile") \in Navs
    <3>1. AfterTab("profile") \in Navs /\ Shown(AfterTab("profile")) = "profile"
      BY TabStays DEF AfterTab, Shown, Tabs
    <3>2. "freeze" \in Links["profile"]
      BY DEF Links, Rendered, Tabs, Products, ProfileLinks
    <3>3. AfterGo(AfterTab("profile"), "freeze") \in Taps(AfterTab("profile"))
      BY <3>1, <3>2 DEF Taps
    <3>4. AfterGo(AfterTab("profile"), "freeze") \in FreezeIn[0]
      <4>1. "freeze" \in Stacks /\ Resolve("freeze") = "freeze"
        BY DEF Stacks, Resolve
      <4>2. Shown(AfterGo(AfterTab("profile"), "freeze")) = "freeze"
        BY <4>1 DEF AfterGo, AfterTab, Shown, Tabs
      <4> QED
        BY <3>1, <4>1, <4>2, GoStays, FreezeInSteps
    <3> QED
      BY <2>1, <3>1, <3>3, <3>4
  <2>3. ASSUME NEW n \in Navs, n.stack = "none" PROVE n \in FreezeIn[2]
    <3>1. AfterTab("profile") \in Taps(n)
      BY <2>3 DEF Taps, Tabs
    <3> QED
      BY <2>1, <2>2, <3>1
  <2>4. ASSUME NEW n \in Navs, HasBack(n), n.step # "amount" PROVE n \in FreezeIn[3]
    <3>1. AfterBack(n) \in Taps(n)
      BY <2>4 DEF Taps, Backs
    <3>2. AfterBack(n) \in Navs /\ AfterBack(n).stack = "none"
      BY TabStays, ShownRendered DEF AfterBack, AfterTab
    <3> QED
      BY <2>1, <2>3, <3>1, <3>2
  <2>5. CASE nav.stack = "none"
    BY <2>1, <2>3, <2>5 DEF NavInv
  <2>6. CASE nav.stack # "none" /\ nav.step # "amount"
    <3>1. HasBack(nav)
      BY <2>6 DEF HasBack, Mounted, Shown
    <3> QED
      BY <2>1, <2>4, <2>6, <3>1 DEF NavInv
  <2>7. CASE nav.step = "amount"
    <3> DEFINE before == [nav EXCEPT !.step = "recipient"]
    <3>1. nav.stack = "send" /\ before \in Navs /\ HasBack(before) /\ before.step = "recipient"
      BY <2>7, StepsStay DEF NavInv, Navs, Locations, SendSteps, HasBack
    <3>2. before \in Taps(nav)
      BY <2>7 DEF Taps, Backs, StepBack
    <3>3. before \in FreezeIn[3]
      BY <2>4, <3>1
    <3> HIDE DEF before
    <3>4. nav \in FreezeIn[4]
      BY <2>1, <3>2, <3>3 DEF NavInv
    <3> QED
      BY <2>7, <3>4
  <2> QED
    BY <2>5, <2>6, <2>7
<1> QED
  BY NavInit, NavNext, <1>1, PTL DEF MobileSpec
=============================================================================
