-------------------------- MODULE MobileNavigation --------------------------
(***************************************************************************)
(* The shell of the mobile app: five tabs, one screen on top of them at a  *)
(* time, and the buttons by which every screen names the next.  A screen   *)
(* exists only while it is shown; leaving it drops its local state, so the *)
(* modules that model what a screen holds build on this one.  The steps of *)
(* the send screen are here because its back button goes through them;     *)
(* what it does at them, and the intents that come late, are in SendMoney. *)
(* Dialogs, sounds and layout are left out.                                *)
(***************************************************************************)
EXTENDS Naturals, FiniteSets

VARIABLE nav     \* the active tab, the screen above it or "none", and the send screen's step

Tabs == {"home", "payments", "money", "activity", "profile"}

Stacks == {"splash", "welcome", "voice", "servicesDrawer", "accounts", "send", "receive", "scan",
           "crossBorder", "bills", "airtime", "cards", "savings", "insurance", "credit", "invest",
           "merchant", "receipt", "failedPayment", "disputes", "security", "identity", "exchange",
           "family", "insights", "notifications", "settings", "accessibility", "freeze",
           "support", "board"}

\* The steps of the send screen; "intent" is the review of what was spoken, scanned or quoted.
SendSteps == {"recipient", "amount", "review", "intent", "done"}

\* The product screens App renders through one component.
Products == {"insurance", "credit", "exchange", "family", "disputes", "accessibility", "notifications"}

\* The screens App has a branch for.
Rendered ==
  Tabs \cup Products \cup
  {"splash", "welcome", "board", "voice", "servicesDrawer", "accounts", "send", "receive", "scan",
   "crossBorder", "bills", "airtime", "receipt", "failedPayment", "security", "support", "freeze",
   "settings", "invest", "cards", "savings", "merchant", "insights", "identity"}

\* What go() turns its argument into.
Resolve(target) ==
  CASE target \in {"listening", "voiceMode"} -> "voice"
    [] target = "services"                   -> "servicesDrawer"
    [] OTHER                                 -> target

-----------------------------------------------------------------------------
(* The buttons of each screen, as arguments of go() or setTab() *)

SplashLinks    == {"welcome"}
WelcomeLinks   == {"home"}
HomeRecent     == {"activity", "receipt"}
HomeLinks      == {"servicesDrawer", "notifications", "profile", "accounts", "send", "receive",
                   "bills", "payments", "exchange"} \cup HomeRecent
HomeAlertLinks == {"security"}         \* shown while outgoing payments are frozen
PaymentsLinks  == {"send", "receive", "scan", "crossBorder", "bills", "airtime", "merchant"}
MoneyLinks     == {"accounts", "savings", "cards", "invest", "insurance", "credit", "exchange",
                   "family", "insights"}
ActivityRows   == {"failedPayment", "receipt"}
ActivityLinks  == ActivityRows \cup {"disputes"}

\* Fault: the profile tab leads to the freeze only through the security centre.
ProfileLinksIndirect ==
  {"settings", "identity", "accounts", "security", "support", "accessibility", "notifications",
   "board"}

ProfileLinks   == {"settings", "identity", "accounts", "security", "freeze", "support",
                   "accessibility", "notifications", "board"}
VoiceLinks     == {"send", "home", "bills", "activity", "servicesDrawer"}
ServicesLinks  == {"send", "receive", "bills", "airtime", "cards", "savings", "insurance", "credit",
                   "invest", "crossBorder", "exchange", "merchant", "freeze", "disputes",
                   "identity", "security", "support", "board"}
AccountsLinks  == {"identity"}
SendLinks      == {"scan"}             \* at every step; two more at one step each
SendStepLinks  == [step \in SendSteps |-> CASE step = "recipient" -> {"crossBorder"}
                                            [] step = "done"      -> {"receipt"}
                                            [] OTHER              -> {}]
ReceiveLinks   == {"scan"}
ScanLinks      == {"send"}
CrossBorderLinks == {"send"}
BillsLinks     == {"send"}
AirtimeLinks   == {"send"}
ReceiptLinks   == {"disputes"}
FailedLinks    == {"support"}

SecurityLinks  == {"freeze"}
SupportLinks   == {"disputes", "voice"}
FreezeLinks    == {"support"}
SettingsLinks  == {"board"}
InvestActions  == {"send", "exchange"}
InvestPanels   == {"insights", "exchange"}
InvestCoach    == {"insights", "voice"}
InvestLinks    == {"voice"} \cup InvestActions \cup InvestPanels \cup InvestCoach
CardsLinks     == {"security", "activity", "support"}
SavingsLinks   == {"send", "support"}
MerchantPays   == {"scan", "send", "receive", "disputes"}
MerchantLinks  == MerchantPays \cup {"support"}
ProductLinks   == {"support"}
InsightsLinks  == {"bills", "support"}
IdentityLinks  == {"support"}
BoardLinks     == {"splash", "welcome", "voice", "home", "servicesDrawer"}

Links == [s \in Rendered |->
  CASE s = "splash"   -> SplashLinks   [] s = "welcome"        -> WelcomeLinks
    [] s = "home"     -> HomeLinks     [] s = "payments"       -> PaymentsLinks
    [] s = "money"    -> MoneyLinks    [] s = "activity"       -> ActivityLinks
    [] s = "profile"  -> ProfileLinks  [] s = "voice"          -> VoiceLinks
    [] s = "accounts" -> AccountsLinks [] s = "servicesDrawer" -> ServicesLinks
    [] s = "send"     -> SendLinks     [] s = "receive"        -> ReceiveLinks
    [] s = "scan"     -> ScanLinks     [] s = "crossBorder"    -> CrossBorderLinks
    [] s = "bills"    -> BillsLinks    [] s = "airtime"        -> AirtimeLinks
    [] s = "receipt"  -> ReceiptLinks  [] s = "failedPayment"  -> FailedLinks
    [] s = "security" -> SecurityLinks [] s = "support"        -> SupportLinks
    [] s = "freeze"   -> FreezeLinks   [] s = "settings"       -> SettingsLinks
    [] s = "invest"   -> InvestLinks   [] s = "cards"          -> CardsLinks
    [] s = "savings"  -> SavingsLinks  [] s = "merchant"       -> MerchantLinks
    [] s = "insights" -> InsightsLinks [] s = "identity"       -> IdentityLinks
    [] s = "board"    -> BoardLinks    [] s \in Products       -> ProductLinks]

-----------------------------------------------------------------------------
(* Moving *)

\* A place: the send screen has a step, no other screen has.
Locations == [tab: Tabs, stack: Stacks \cup {"none"}, step: SendSteps \cup {"none"}]
Navs   == {n \in Locations : n.stack = "send" <=> n.step # "none"}

Launched == [tab |-> "home", stack |-> "splash", step |-> "none"]

\* The tab bar and the voice orb are there when nothing is above the tab.
AfterTab(tab) == [tab |-> tab, stack |-> "none", step |-> "none"]
OrbLinks      == {"voice"}

\* The screen that is mounted.
Shown(n) == IF n.stack = "none" THEN n.tab ELSE n.stack
Mounted  == Shown(nav)

\* The screens that hand the send screen an intent, whose review it begins with.
IntentScreens == {"voice", "scan", "crossBorder"}

FirstStep(n, screen) == IF screen # "send" THEN "none"
                        ELSE IF Shown(n) \in IntentScreens THEN "intent" ELSE "recipient"

\* Fault: a tab is opened like a screen.
AfterGoAsScreen(n, target) ==
  LET screen == Resolve(target) IN
  IF screen \in {"splash", "welcome"} THEN [tab |-> "home", stack |-> screen, step |-> "none"]
                                      ELSE [n EXCEPT !.stack = screen, !.step = FirstStep(n, screen)]

\* go(): a tab closes what is above it; sign-in sits above home; the rest above the tab.
AfterGo(n, target) ==
  LET screen == Resolve(target) IN
  CASE screen \in Tabs                  -> AfterTab(screen)
    [] screen \in {"splash", "welcome"} -> [tab |-> "home", stack |-> screen, step |-> "none"]
    [] OTHER                            -> [n EXCEPT !.stack = screen, !.step = FirstStep(n, screen)]

\* back(): every screen but the sign-in ones, whatever it was opened from.
AfterBack(n) == AfterTab(n.tab)

HasBack(n) == n.stack \notin {"none", "splash", "welcome"}

\* The header of the send screen leads one step back before it leads away.
StepBack == [amount |-> "recipient", review |-> "amount"]

\* The back buttons of a screen; Cancel, beside the review, leaves at once.
Backs(n) ==
  (IF n.step \in DOMAIN StepBack THEN {[n EXCEPT !.step = StepBack[n.step]]} ELSE {})
    \cup (IF HasBack(n) /\ n.step # "amount" THEN {AfterBack(n)} ELSE {})

\* The buttons and answers that lead the send screen on.
StepOn == [recipient |-> "amount", amount |-> "review", review |-> "done", intent |-> "done"]

SendTaps(n) ==
  IF n.stack = "send"
  THEN {AfterGo(n, t) : t \in SendStepLinks[n.step]}
         \cup (IF n.step \in DOMAIN StepOn THEN {[n EXCEPT !.step = StepOn[n.step]]} ELSE {})
  ELSE {}

Taps(n) ==
  {AfterGo(n, t) : t \in Links[Shown(n)]} \cup Backs(n) \cup SendTaps(n)
    \cup (IF n.stack = "none" THEN {AfterTab(t) : t \in Tabs} \cup {AfterGo(n, t) : t \in OrbLinks}
                              ELSE {})

\* The places at most k taps away from the freeze screen.
FreezeIn[k \in 0..4] ==
  IF k = 0 THEN {n \in Navs : Shown(n) = "freeze"}
  ELSE LET nearer == FreezeIn[k - 1]
       IN  nearer \cup {n \in Navs : Shown(n) \in Rendered /\ Taps(n) \cap nearer # {}}

\* A customer who has signed in and sees his money go is four taps from the freeze screen
\* wherever he is, in the middle of a payment too, where the way back leads through the form;
\* on a screen without steps, three.  A dialog on top takes one more.
FreezeIsNear == Mounted \in {"splash", "welcome"} \/ nav \in FreezeIn[IF nav.step = "none" THEN 3 ELSE 4]
=============================================================================
