-------------------------------- MODULE Console --------------------------------
(***************************************************************************)
(* The admin console, a browser tab per operator, on top of ControlPlane.  *)
(* Its control-plane panel acts on the copy of the queue it last read,     *)
(* signs in with a passkey, and after every action asks again who it is    *)
(* and what the queue holds.  A call that throws leaves its buttons        *)
(* disabled until the panel is opened anew.  The console's other sections  *)
(* change nothing: they show what was read, and their buttons only say     *)
(* where a change is made.  Operators without a tab call the API directly, *)
(* and so can ask for what the panel does not offer.                       *)
(***************************************************************************)
EXTENDS ControlPlane

CONSTANT Browsers   \* the operators who use the panel; the others call the API

ASSUME ConsoleAssumption == Browsers \subseteq Operators

VARIABLE tabs

consoleVars == <<controlVars, tabs>>

\* Token in the tab's session storage, panel on the screen, operator shown as signed
\* in, what is awaited, buttons disabled, the statuses in the queue as read, and a
\* sign-in under way of a panel that was left.
Panel(token, pending) ==
  [token |-> token, shown |-> TRUE, me |-> FALSE, job |-> "refresh", busy |-> FALSE,
   seen |-> [i \in Ids |-> "none"], late |-> pending]

\* Another section is on the screen.
Away(token, pending) == [Panel(token, pending) EXCEPT !.shown = FALSE, !.job = "none"]

\* What the panel's list of actions offers; a proposal carries no payload.
ConsoleAsks == {a \in Asks : a.action # "resume_payments" /\ a.payload = None}

Tab(o, tab) == tabs' = [tabs EXCEPT ![o] = tab]

TabOnly == UNCHANGED <<store, calls, log, standing>>

-----------------------------------------------------------------------------

SignIn(o) ==
  /\ tabs[o].shown /\ ~tabs[o].me /\ ~tabs[o].busy /\ tabs[o].job = "none" /\ Act
  /\ \E job \in {"login", "register"} : Tab(o, [tabs[o] EXCEPT !.busy = TRUE, !.job = job])
  /\ TabOnly

\* A credential, or the reason the prompt gave none, put in words; or a call threw.
AfterPrompt == {"refresh", "none"}

Registered(o) ==
  /\ tabs[o].job = "register"
  /\ \E job \in AfterPrompt : Tab(o, [tabs[o] EXCEPT !.job = job])
  /\ TabOnly /\ UNCHANGED acts

\* The passkey prompt is not guarded: to dismiss it throws.
OperatorLogin(o) ==
  /\ tabs[o].job = "login"
  /\ \/ Tab(o, [tabs[o] EXCEPT !.token = TRUE, !.job = "refresh"])
        /\ LogIn(o)
     \/ \E job \in {"refresh", "none"} : Tab(o, [tabs[o] EXCEPT !.job = job]) /\ TabOnly
  /\ UNCHANGED acts

\* The panel was left, what it awaits goes on: the tab may be signed in afterwards.
LateLogin(o) ==
  /\ tabs[o].late
  /\ \/ Tab(o, [tabs[o] EXCEPT !.token = TRUE, !.late = FALSE]) /\ LogIn(o)
     \/ Tab(o, [tabs[o] EXCEPT !.late = FALSE]) /\ TabOnly
  /\ UNCHANGED acts

Recognised(o) == tabs[o].token /\ o \in live /\ o \notin suspended

Idle(tab) == [tab EXCEPT !.job = "none", !.busy = FALSE]

\* Who the token speaks for; signing out meanwhile does not stop the answer, which
\* is the same as signing out in the sidebar after it.
FetchMe(o) ==
  /\ tabs[o].job = "refresh"
  /\ \/ Recognised(o) /\ Tab(o, [tabs[o] EXCEPT !.me = TRUE, !.job = "queue"])
     \/ Tab(o, [Idle(tabs[o]) EXCEPT !.me = FALSE])
  /\ TabOnly /\ UNCHANGED acts

\* The queue as it is, or an empty one if it cannot be read; then the log.
ListChanges(o) ==
  /\ tabs[o].job = "queue"
  /\ \/ Recognised(o) /\ Tab(o, [Idle(tabs[o]) EXCEPT !.seen = [i \in Ids |-> changes[i].status]])
     \/ Tab(o, [Idle(tabs[o]) EXCEPT !.seen = [i \in Ids |-> "none"]])
  /\ TabOnly /\ UNCHANGED acts

Offered(o, kind, i) ==
  \/ kind \in {"approved", "rejected"} /\ tabs[o].seen[i] = "pending" /\ Can(o, "change.approve")
  \/ kind = "apply" /\ tabs[o].seen[i] = "approved"

Press(o) ==
  /\ tabs[o].me /\ ~tabs[o].busy /\ tabs[o].job = "none" /\ Act
  /\ Tab(o, [tabs[o] EXCEPT !.busy = TRUE, !.job = "call"])
  /\ \/ \E ask \in ConsoleAsks : Arrive(o, "propose", 0, ask, tabs[o].token)
     \/ \E kind \in Kinds, i \in Ids : Offered(o, kind, i) /\ Arrive(o, kind, i, None, tabs[o].token)

\* A request without an answer throws.
Answered(o) ==
  /\ tabs[o].job = "call"
  /\ Tab(o, [tabs[o] EXCEPT !.job = IF calls[o].stage = "lost" THEN "none" ELSE "refresh"])
  /\ Collect(o)

\* The panel's own button, which does not wait for what is under way, or the sidebar's,
\* which leaves the panel as it is.
SignOut(o) ==
  /\ tabs[o].token /\ Act
  /\ \E me \in {FALSE, tabs[o].me} : Tab(o, [tabs[o] EXCEPT !.token = FALSE, !.me = me])
  /\ TabOnly

\* The console starts with another section than the panel's.
Reload(o) ==
  /\ Act /\ Tab(o, Away(tabs[o].token, FALSE))
  /\ TabOnly

\* A section opened in the sidebar, or by a recommendation, which opens no panel.
OpenPanel(o) ==
  /\ ~tabs[o].shown /\ Tab(o, Panel(tabs[o].token, tabs[o].late))
  /\ TabOnly /\ UNCHANGED acts

LeavePanel(o) ==
  /\ tabs[o].shown /\ Act
  /\ Tab(o, Away(tabs[o].token, tabs[o].late \/ tabs[o].job = "login"))
  /\ TabOnly

-----------------------------------------------------------------------------

\* Of an operator without a tab.
Direct(o) ==
  /\ o \notin Browsers /\ Act
  /\ \/ \E ask \in Asks : Arrive(o, "propose", 0, ask, TRUE)
     \/ \E kind \in Kinds \ {"propose"}, i \in Ids :
          changes[i].status # "none" /\ Arrive(o, kind, i, None, TRUE)

\* A panel that was left does not wait for its request.
Dropped(o) == (o \in Browsers => tabs[o].job # "call") /\ Collect(o)

ConsoleInit == ControlInit /\ tabs = [o \in Browsers |-> Away(TRUE, FALSE)]

TabStep(o) == \/ SignIn(o) \/ Registered(o) \/ OperatorLogin(o) \/ FetchMe(o)
              \/ ListChanges(o) \/ Press(o) \/ Answered(o) \/ SignOut(o) \/ Reload(o)
              \/ OpenPanel(o) \/ LeavePanel(o) \/ LateLogin(o)

ServiceStep == \/ \E o \in Operators : Handle(o) \/ Interrupt(o) \/ Direct(o) \/ Dropped(o)
               \/ Administer

ConsoleNext ==
  \/ \E o \in Browsers : TabStep(o)
  \/ ServiceStep /\ UNCHANGED tabs

ConsoleSpec == ConsoleInit /\ [][ConsoleNext]_consoleVars

=============================================================================
