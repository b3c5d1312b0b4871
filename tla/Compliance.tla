------------------------------- MODULE Compliance ------------------------------
(***************************************************************************)
(* The compliance service, for one customer: the decisions on the payments *)
(* that are about to be prepared, several at a time, each taken under the  *)
(* customer's lock; the evidence and the tier that rests on it; and the    *)
(* cases of the payments that are held.  A decision counts against the day *)
(* on which its transaction began, by the database's clock.  Screening and *)
(* behavioural monitoring may each raise the outcome, and are free here.   *)
(***************************************************************************)
EXTENDS Naturals, FiniteSets

CONSTANTS
  None,        \* model value
  Customer,    \* the subject: of the payments, the evidence, the tier and the cases
  Payments,    \* the requests for a decision
  Amounts, Recipients,
  Tiers,       \* for each tier, its limits [day, single, fresh] and the evidence it requires
  Unverified,  \* the tier of a new customer
  Documents,   \* the rows of verification_documents
  MaxDay       \* model bound: the days

Kinds == UNION {Tiers[t].evidence : t \in DOMAIN Tiers}

ASSUME ComplianceAssumption ==
  /\ Amounts \subseteq Nat \ {0} /\ MaxDay \in Nat /\ None \notin Payments /\ IsFiniteSet(Payments)
  /\ Unverified \in DOMAIN Tiers /\ Tiers[Unverified].evidence = {} /\ Tiers[Unverified].single = 0
  /\ \A t \in DOMAIN Tiers : Tiers[t].day \in Nat /\ Tiers[t].single \in Nat /\ Tiers[t].fresh \in Nat

VARIABLES
  tier,        \* customers.tier
  evidence,    \* verification_documents
  asks,        \* the request for each payment
  rows,        \* risk_decisions
  locked,      \* the payment whose transaction holds the customer's lock
  cases,       \* review_cases: a payment that is held raises one
  today

standing       == <<tier, evidence>>
deciding       == <<asks, rows, locked, today>>
complianceVars == <<standing, deciding, cases>>

-----------------------------------------------------------------------------
(* The rules *)

Severity == [allow |-> 0, review |-> 1, deny |-> 2]

Worse(a, b) == IF Severity[a] < Severity[b] THEN b ELSE a

\* What the limits of a tier make of a payment.
LimitsSay(limits, amount, spent, known) ==
  IF limits.single = 0 \/ amount > limits.single \/ spent + amount > limits.day THEN "deny"
  ELSE IF ~known /\ amount > limits.fresh THEN "review"
  ELSE "allow"

Allowed == {p \in Payments : rows[p] # None /\ rows[p].outcome = "allow"}

\* A sum of amounts is the number of their minor units.
UnitsOf(some) == UNION {{p} \X (1..rows[p].amount) : p \in some}
Total(some) == Cardinality(UnitsOf(some))

SpentSince(d) == Total({p \in Allowed : rows[p].day >= d})

Known(recipient) == \E p \in Allowed : rows[p].recipient = recipient

-----------------------------------------------------------------------------
(* A decision *)

Stages == {"none", "asked", "begun", "evaluated", "recorded", "answered", "failed"}

Unasked == [stage |-> "none", tier |-> None, amount |-> 0, recipient |-> None, day |-> 0, outcome |-> None]

\* The row has what is still needed.
Leave(p, stage) == asks' = [asks EXCEPT ![p] = [Unasked EXCEPT !.stage = stage]]

\* The customer's tier is read here, before the lock.
Ask(p) ==
  /\ asks[p].stage = "none"
  /\ \E amount \in Amounts, recipient \in Recipients :
       asks' = [asks EXCEPT ![p] = [Unasked EXCEPT !.stage = "asked", !.tier = tier, !.amount = amount,
                                                   !.recipient = recipient]]
  /\ UNCHANGED <<standing, rows, locked, cases, today>>

\* The transaction's start is its clock from here on.
Begin(p) ==
  /\ asks[p].stage = "asked"
  /\ asks' = [asks EXCEPT ![p].stage = "begun", ![p].day = today]
  /\ UNCHANGED <<standing, rows, locked, cases, today>>

\* Fault: the day's total and the known recipients are read without the lock.
EvaluateUnlocked(p) ==
  /\ asks[p].stage = "begun"
  /\ \E concern \in DOMAIN Severity :
       asks' = [asks EXCEPT ![p].stage = "evaluated",
                            ![p].outcome = Worse(concern, LimitsSay(Tiers[asks[p].tier], asks[p].amount,
                                             SpentSince(asks[p].day), Known(asks[p].recipient)))]
  /\ locked' = p
  /\ UNCHANGED <<standing, rows, cases, today>>

\* The lock, then what was spent and who is known, then the rules.
Evaluate(p) ==
  /\ asks[p].stage = "begun" /\ locked = None
  /\ \E concern \in DOMAIN Severity :
       asks' = [asks EXCEPT ![p].stage = "evaluated",
                            ![p].outcome = Worse(concern, LimitsSay(Tiers[asks[p].tier], asks[p].amount,
                                             SpentSince(asks[p].day), Known(asks[p].recipient)))]
  /\ locked' = p
  /\ UNCHANGED <<standing, rows, cases, today>>

\* Committed, and the lock released.
Record(p) ==
  /\ asks[p].stage = "evaluated"
  /\ rows' = [rows EXCEPT ![p] = [outcome |-> asks[p].outcome, amount |-> asks[p].amount,
                                  recipient |-> asks[p].recipient, tier |-> asks[p].tier, day |-> asks[p].day]]
  /\ locked' = None
  /\ Leave(p, "recorded")
  /\ UNCHANGED <<standing, cases, today>>

\* A held payment raises a case; failing to raise it is written to the service's log.
Answer(p) ==
  /\ asks[p].stage = "recorded"
  /\ \/ rows[p].outcome = "review" /\ cases' = [cases EXCEPT ![p].status = "open"]
     \/ UNCHANGED cases
  /\ Leave(p, "answered")
  /\ UNCHANGED <<standing, rows, locked, today>>

\* The database fails, the client goes away or the service restarts: what is not
\* committed is rolled back.
Fail(p) ==
  /\ asks[p].stage \in {"asked", "begun", "evaluated"}
  /\ locked' = IF locked = p THEN None ELSE locked
  /\ Leave(p, "failed")
  /\ UNCHANGED <<standing, rows, cases, today>>

Midnight ==
  /\ today < MaxDay
  /\ today' = today + 1
  /\ UNCHANGED <<standing, asks, rows, locked, cases>>

-----------------------------------------------------------------------------
(* Evidence, tiers and cases: what the operators' requests do, see CaseReview *)

SubmitDocument(d) ==
  /\ evidence[d].status = "none"
  /\ \E kind \in Kinds : evidence' = [evidence EXCEPT ![d] = [kind |-> kind, status |-> "submitted", by |-> None]]
  /\ UNCHANGED <<tier, deciding, cases>>

\* Fault: what was reviewed can be reviewed again.
ReviewAgain(d, status, by) ==
  /\ evidence[d].status # "none" /\ by # Customer
  /\ evidence' = [evidence EXCEPT ![d].status = status, ![d].by = by]

\* Only what is still to be reviewed, and not by the customer.
Review(d, status, by) ==
  /\ evidence[d].status = "submitted" /\ by # Customer
  /\ evidence' = [evidence EXCEPT ![d].status = status, ![d].by = by]

Verified == {evidence[d].kind : d \in {d \in Documents : evidence[d].status = "verified"}}

\* A verified document with an expiry date counts until then; none is given one.
Missing(to) == Tiers[to].evidence \ Verified

\* Fault: a case that was closed is closed again.
CloseAgain(c, status, by) ==
  /\ cases[c].status # "none" /\ by # Customer
  /\ cases' = [cases EXCEPT ![c] = [status |-> status, by |-> by]]

\* Only an open case, and not by the customer.
Close(c, status, by) ==
  /\ cases[c].status = "open" /\ by # Customer
  /\ cases' = [cases EXCEPT ![c] = [status |-> status, by |-> by]]

-----------------------------------------------------------------------------

NoDocument == [kind |-> None, status |-> "none", by |-> None]

NoCase == [status |-> "none", by |-> None]

ComplianceInit ==
  /\ tier = Unverified
  /\ evidence = [d \in Documents |-> NoDocument]
  /\ asks = [p \in Payments |-> Unasked]
  /\ rows = [p \in Payments |-> None]
  /\ locked = None
  /\ cases = [p \in Payments |-> NoCase]
  /\ today = 1

Decide(p) == Ask(p) \/ Begin(p) \/ Evaluate(p) \/ Record(p) \/ Answer(p) \/ Fail(p)

-----------------------------------------------------------------------------
(* Properties *)

\* However many payments are decided at once, on whichever side of midnight they began
\* and whatever happens to the customer's tier meanwhile: what is allowed in a day is
\* within the daily limit of a tier on which a payment of that day was decided.
DailyLimitHolds ==
  \A d \in 1..MaxDay :
    LET paid == {p \in Allowed : rows[p].day = d} IN
    paid # {} => \E p \in paid : Total(paid) <= Tiers[rows[p].tier].day

\* A customer's tier rests on evidence: each document the tier requires is there,
\* verified, and by somebody else, although the evidence is read before the tier is
\* written and others review meanwhile.
TierRestsOnEvidence ==
  \A kind \in Tiers[tier].evidence :
    \E d \in Documents : evidence[d].kind = kind /\ evidence[d].status = "verified" /\ evidence[d].by # Customer
=============================================================================
