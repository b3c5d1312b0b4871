------------------------------- MODULE CaseReview ------------------------------
(***************************************************************************)
(* The operators' side of compliance: the requests the control plane       *)
(* passes on to the compliance service in an operator's name, and the case *)
(* queue of the compliance console, a tab per analyst.  A tab decides on   *)
(* the copy of the queue it last read.  The other requests, on documents   *)
(* and tiers, have no console: operators call the control plane.  An       *)
(* operator has one request under way at a time.  What a tab does with a   *)
(* session is as in Console: a call that throws leaves its buttons         *)
(* disabled until the page is loaded again.                                *)
(***************************************************************************)
EXTENDS Compliance

CONSTANTS
  Operators,
  Officers,     \* the operators with the role compliance_officer
  Analysts,     \* the operators with the role risk_analyst
  Consoles,     \* the operators who use the console
  MaxActs       \* model bound: what operators do in all

ASSUME ReviewAssumption ==
  /\ Officers \cup Analysts \cup Consoles \subseteq Operators
  /\ None \notin Operators /\ MaxActs \in Nat

VARIABLES
  requests,     \* the request of each operator that is under way
  recorded,     \* the entries of the audit log that say a case was decided: case, status, operator
  tabs,
  acts

office     == <<requests, recorded>>
reviewVars == <<complianceVars, office, tabs, acts>>

Act == acts < MaxActs /\ acts' = acts + 1

\* The permissions of the two roles; a tier is decided by officers.
May(o, kind) ==
  \/ o \in Officers
  \/ o \in Analysts /\ kind # "tier"

-----------------------------------------------------------------------------
(* A request *)

Request == [kind : {"case"}, of : Payments, as : {"cleared", "blocked"}]
           \cup [kind : {"document"}, of : Documents, as : {"verified", "rejected"}]
           \cup [kind : {"tier"}, of : {Customer}, as : DOMAIN Tiers]

NoRequest == [kind |-> "none", of |-> None, as |-> None]

RequestStages == {"idle", "sent", "checked", "applied", "failed", "answered", "lost"}

\* With nothing more to do.
Over(stage) == [stage |-> stage, asks |-> NoRequest]

To(o, stage) == requests' = [requests EXCEPT ![o].stage = stage]

End(o, stage) == requests' = [requests EXCEPT ![o] = Over(stage)]

\* The session verifies, and the operator's roles allow it.
Admitted(o, kind) == requests[o].stage = "sent" /\ requests[o].asks.kind = kind /\ May(o, kind)

Send(o, request) ==
  /\ requests[o].stage = "idle"
  /\ requests' = [requests EXCEPT ![o] = [stage |-> "sent", asks |-> request]]
  /\ UNCHANGED <<complianceVars, recorded>>

\* Done, though the control plane may not hear of it in time.
Done(o) == To(o, "applied") \/ To(o, "failed")

CloseCase(o) ==
  LET it == requests[o].asks IN
  /\ Admitted(o, "case")
  /\ Close(it.of, it.as, o)
  /\ Done(o)
  /\ UNCHANGED <<standing, deciding, recorded>>

ReviewDocument(o) ==
  LET it == requests[o].asks IN
  /\ Admitted(o, "document")
  /\ Review(it.of, it.as, o)
  /\ Done(o)
  /\ UNCHANGED <<tier, deciding, cases, recorded>>

\* The evidence is read outside the transaction that sets the tier.
CheckEvidence(o) ==
  /\ Admitted(o, "tier")
  /\ o # Customer /\ Missing(requests[o].asks.as) = {}
  /\ To(o, "checked")
  /\ UNCHANGED <<complianceVars, recorded>>

SetTier(o) ==
  /\ requests[o].stage = "checked"
  /\ tier' = requests[o].asks.as
  /\ Done(o)
  /\ UNCHANGED <<evidence, deciding, cases, recorded>>

\* Refused by the control plane or by the service, or the service is away.
Refused(o) ==
  /\ requests[o].stage \in {"sent", "checked"}
  /\ To(o, "failed")
  /\ UNCHANGED <<complianceVars, recorded>>

\* The audit log gets what the control plane knows; a failed append is not noticed.
Audit(o) ==
  LET it == requests[o].asks IN
  /\ requests[o].stage \in {"applied", "failed"}
  /\ \/ requests[o].stage = "applied" /\ it.kind = "case"
        /\ recorded' = recorded \cup {[case |-> it.of, status |-> it.as, by |-> o]}
     \/ UNCHANGED recorded
  /\ End(o, "answered")
  /\ UNCHANGED complianceVars

\* The client goes away or the control plane restarts.
Interrupt(o) ==
  /\ requests[o].stage \notin {"idle", "answered", "lost"} /\ Act
  /\ End(o, "lost")
  /\ UNCHANGED <<complianceVars, recorded>>

Collect(o) ==
  /\ requests[o].stage \in {"answered", "lost"}
  /\ End(o, "idle")
  /\ UNCHANGED <<complianceVars, recorded>>

-----------------------------------------------------------------------------
(* A tab of the console *)

\* Token in the session storage, analyst shown as signed in, what is awaited, buttons
\* disabled, and the cases in the queue as read.
EmptyTab(token) == [token |-> token, me |-> FALSE, job |-> "refresh", busy |-> FALSE, seen |-> {}]

Tab(o, tab) == tabs' = [tabs EXCEPT ![o] = tab]

TabOnly == UNCHANGED <<complianceVars, office>>

Idle(tab) == [tab EXCEPT !.job = "none", !.busy = FALSE]

SignIn(o) ==
  /\ ~tabs[o].me /\ ~tabs[o].busy /\ tabs[o].job = "none" /\ Act
  /\ \E job \in {"login", "register"} : Tab(o, [tabs[o] EXCEPT !.busy = TRUE, !.job = job])
  /\ TabOnly

\* Registered, refused or dismissed; or a call threw.
RegisterPasskey(o) ==
  /\ tabs[o].job = "register"
  /\ \E job \in {"refresh", "none"} : Tab(o, [tabs[o] EXCEPT !.job = job])
  /\ TabOnly /\ UNCHANGED acts

Login(o) ==
  /\ tabs[o].job = "login"
  /\ \/ Tab(o, [tabs[o] EXCEPT !.token = TRUE, !.job = "refresh"])
     \/ \E job \in {"refresh", "none"} : Tab(o, [tabs[o] EXCEPT !.job = job])
  /\ TabOnly /\ UNCHANGED acts

\* Nobody is signed in without a token, or when the control plane does not say who.
FetchMe(o) ==
  /\ tabs[o].job = "refresh"
  /\ \/ tabs[o].token /\ Tab(o, [tabs[o] EXCEPT !.me = TRUE, !.job = "queue"])
     \/ Tab(o, [Idle(tabs[o]) EXCEPT !.me = FALSE])
  /\ TabOnly /\ UNCHANGED acts

\* The open cases, or none if they cannot be read.
ListCases(o) ==
  /\ tabs[o].job = "queue"
  /\ \E seen \in {{}, {c \in Payments : tabs[o].token /\ cases[c].status = "open"}} :
       Tab(o, [Idle(tabs[o]) EXCEPT !.seen = seen])
  /\ TabOnly /\ UNCHANGED acts

\* With a note, on a case of the queue as read.
DecideCase(o) ==
  /\ tabs[o].me /\ ~tabs[o].busy /\ tabs[o].job = "none" /\ May(o, "case") /\ Act
  /\ Tab(o, [tabs[o] EXCEPT !.busy = TRUE, !.job = "call"])
  /\ \E request \in Request : request.kind = "case" /\ request.of \in tabs[o].seen /\ Send(o, request)

\* A request without an answer throws.
Answered(o) ==
  /\ tabs[o].job = "call"
  /\ Tab(o, [tabs[o] EXCEPT !.job = IF requests[o].stage = "lost" THEN "none" ELSE "refresh"])
  /\ Collect(o) /\ UNCHANGED acts

\* Does not stop an answer to who is signed in that is under way.
SignOut(o) ==
  /\ tabs[o].me /\ Act
  /\ \/ Tab(o, [tabs[o] EXCEPT !.token = FALSE, !.me = FALSE])
     \/ tabs[o].token /\ tabs[o].job = "refresh" /\ Tab(o, [tabs[o] EXCEPT !.token = FALSE, !.job = "queue"])
  /\ TabOnly

Reload(o) == Act /\ Tab(o, EmptyTab(tabs[o].token)) /\ TabOnly

-----------------------------------------------------------------------------

\* Of an operator who calls the control plane without a console.
Direct(o) ==
  /\ o \notin Consoles /\ Act
  /\ \E request \in Request :
       /\ request.kind = "case" => cases[request.of].status # "none"
       /\ request.kind = "document" => evidence[request.of].status # "none"
       /\ Send(o, request)

\* A tab that was loaded again does not wait for its request.
Dropped(o) == (o \in Consoles => tabs[o].job # "call") /\ Collect(o) /\ UNCHANGED acts

ReviewInit ==
  /\ ComplianceInit
  /\ requests = [o \in Operators |-> Over("idle")]
  /\ recorded = {}
  /\ tabs = [o \in Consoles |-> EmptyTab(TRUE)]
  /\ acts = 0

Work(o) == CloseCase(o) \/ ReviewDocument(o) \/ CheckEvidence(o) \/ SetTier(o) \/ Refused(o) \/ Audit(o)

TabStep(o) == \/ SignIn(o) \/ RegisterPasskey(o) \/ Login(o) \/ FetchMe(o) \/ ListCases(o)
              \/ DecideCase(o) \/ Answered(o) \/ SignOut(o) \/ Reload(o)

ReviewNext ==
  \/ /\ \/ \E p \in Payments : Decide(p)
        \/ \E d \in Documents : SubmitDocument(d)
        \/ Midnight
     /\ UNCHANGED <<office, tabs, acts>>
  \/ \E o \in Operators : Work(o) /\ UNCHANGED <<tabs, acts>>
  \/ \E o \in Operators : (Interrupt(o) \/ Direct(o) \/ Dropped(o)) /\ UNCHANGED tabs
  \/ \E o \in Consoles : TabStep(o)

ReviewSpec == ReviewInit /\ [][ReviewNext]_reviewVars

-----------------------------------------------------------------------------
(* Properties *)

\* What the audit log says of a case is what became of it, for good: of two analysts
\* who decide on copies of the queue, of a decision repeated after a lost answer and of
\* a tab loaded again while its decision is under way, one decides, and not the
\* customer.
DecisionStands ==
  \A entry \in recorded :
    cases[entry.case] = [status |-> entry.status, by |-> entry.by] /\ entry.by # Customer
=============================================================================
