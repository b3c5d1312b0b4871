------------------------------ MODULE ReviewProofs -----------------------------
(***************************************************************************)
(* For any payments, tiers, documents and operators: a customer's tier     *)
(* rests on evidence, what the log says of a case stands, and what is      *)
(* allowed in a day is within a daily limit.  The invariants say what a    *)
(* request has behind it: evidence once it was checked, the closed case    *)
(* once it was closed, that a case is raised once; and what an evaluated   *)
(* payment has: the customer's lock, and room in the day for it.           *)
(***************************************************************************)
EXTENDS CaseReview, FiniteSetTheorems, TLAPS, Integers

AskRecords == [stage : Stages, tier : DOMAIN Tiers \cup {None}, amount : Nat,
               recipient : Recipients \cup {None}, day : Nat, outcome : {"allow", "review", "deny"} \cup {None}]

DocumentRecords == [kind : Kinds \cup {None}, status : {"none", "submitted", "verified", "rejected"},
                    by : Operators \cup {None}]

CaseRecords == [status : {"none", "open", "cleared", "blocked"}, by : Operators \cup {None}]

RequestRecords == [stage : RequestStages, asks : Request \cup {NoRequest}]

Held(kind) == \E d \in Documents :
                evidence[d].kind = kind /\ evidence[d].status = "verified" /\ evidence[d].by # Customer

\* Verified and rejected documents have a reviewer, who is not the customer.
Evidence ==
  /\ evidence \in [Documents -> DocumentRecords]
  /\ \A d \in Documents : evidence[d].status \in {"verified", "rejected"} => evidence[d].by # Customer

Tier == tier \in DOMAIN Tiers /\ \A kind \in Tiers[tier].evidence : Held(kind)

\* A payment has a case only when its decision is answered.
Cases ==
  /\ asks \in [Payments -> AskRecords] /\ today \in Nat
  /\ cases \in [Payments -> CaseRecords]
  /\ \A p \in Payments : cases[p].status # "none" => asks[p].stage = "answered"

\* What a request has behind it.
Behind(o) ==
  LET it == requests[o].asks IN
  /\ requests[o].stage \in {"sent", "checked", "applied", "failed"} => it \in Request
  /\ requests[o].stage = "checked" => it.kind = "tier" /\ \A kind \in Tiers[it.as].evidence : Held(kind)
  /\ requests[o].stage = "applied" /\ it.kind = "case" =>
       cases[it.of] = [status |-> it.as, by |-> o] /\ o # Customer

Requests == requests \in [Operators -> RequestRecords] /\ \A o \in Operators : Behind(o)

Recorded ==
  /\ recorded \subseteq [case : Payments, status : {"cleared", "blocked"}, by : Operators]
  /\ DecisionStands

ReviewInv == Evidence /\ Tier /\ Cases /\ Requests /\ Recorded

LEMMA UnitsOfOneRow ==
  ASSUME NEW x, NEW n \in Nat
  PROVE  IsFiniteSet({x} \X (1..n)) /\ Cardinality({x} \X (1..n)) = n
<1>1. IsFiniteSet({x}) /\ Cardinality({x}) = 1
  BY FS_Singleton
<1>2. IsFiniteSet(1..n) /\ Cardinality(1..n) = n
  BY FS_Interval
<1>3. /\ IsFiniteSet({x} \X (1..n))
      /\ Cardinality({x} \X (1..n)) = Cardinality({x}) * Cardinality(1..n)
  BY <1>1, <1>2, FS_Product
<1> QED BY <1>1, <1>2, <1>3

USE ComplianceAssumption, ReviewAssumption

-----------------------------------------------------------------------------
(* Steps by what they touch *)

LEMMA InvInit == ReviewInit => ReviewInv
  BY DEF ReviewInit, ComplianceInit, ReviewInv, Evidence, Tier, Cases, Requests, Behind, Recorded, DecisionStands,
         Unasked, NoDocument, NoCase, Over, NoRequest, AskRecords, DocumentRecords, CaseRecords, RequestRecords,
         RequestStages, Stages

\* Nothing of the services or the requests changes.
LEMMA StutterKeeps == ReviewInv /\ UNCHANGED <<complianceVars, office>> => ReviewInv'
  BY DEF ReviewInv, Evidence, Tier, Held, Cases, Requests, Behind, Recorded, DecisionStands,
         complianceVars, standing, deciding, office

\* The outcome is one of three, whatever the limits say.
LEMMA OutcomeIsOne ==
  ASSUME NEW p \in Payments, NEW concern \in DOMAIN Severity, NEW limits, NEW amount, NEW spent, NEW known
  PROVE  Worse(concern, LimitsSay(limits, amount, spent, known)) \in {"allow", "review", "deny"}
  <1>1. concern \in {"allow", "review", "deny"} BY DEF Severity
  <1>2. LimitsSay(limits, amount, spent, known) \in {"allow", "review", "deny"} BY DEF LimitsSay
  <1> QED BY <1>1, <1>2 DEF Worse

\* A decision on the way: no case of its payment yet, none after.
LEMMA AskingKeeps ==
  ASSUME ReviewInv, UNCHANGED <<standing, cases, office>>,
         asks' \in [Payments -> AskRecords], today' \in Nat,
         \A p \in Payments : asks[p].stage = "answered" => asks'[p].stage = "answered"
  PROVE  ReviewInv'
  BY DEF ReviewInv, Evidence, Tier, Held, Cases, Requests, Behind, Recorded, DecisionStands, standing, office

LEMMA DecideKeeps ==
  ASSUME ReviewInv, NEW p \in Payments, Decide(p), UNCHANGED office
  PROVE  ReviewInv'
  <1> USE DEF ReviewInv, Cases
  <1>1. CASE Ask(p)
    <2>1. PICK amount \in Amounts, recipient \in Recipients :
            asks' = [asks EXCEPT ![p] = [Unasked EXCEPT !.stage = "asked", !.tier = tier, !.amount = amount,
                                                        !.recipient = recipient]]
      BY <1>1 DEF Ask
    <2>2. [Unasked EXCEPT !.stage = "asked", !.tier = tier, !.amount = amount, !.recipient = recipient]
            \in AskRecords
      BY ComplianceAssumption DEF Unasked, AskRecords, Stages, Tier
    <2>3. asks' \in [Payments -> AskRecords]
      BY <2>1, <2>2
    <2> QED BY <1>1, <2>3, AskingKeeps DEF Ask, standing
  <1>2. CASE Begin(p)
    <2>1. asks' = [asks EXCEPT ![p] = [asks[p] EXCEPT !.stage = "begun", !.day = today]]
      BY <1>2 DEF Begin, AskRecords
    <2>2. [asks[p] EXCEPT !.stage = "begun", !.day = today] \in AskRecords
      BY DEF AskRecords, Stages
    <2>3. asks' \in [Payments -> AskRecords]
      BY <2>1, <2>2
    <2> QED BY <1>2, <2>3, AskingKeeps DEF Begin, standing
  <1>3. CASE Evaluate(p)
    <2>1. PICK concern \in DOMAIN Severity :
            asks' = [asks EXCEPT ![p].stage = "evaluated",
                                 ![p].outcome = Worse(concern, LimitsSay(Tiers[asks[p].tier], asks[p].amount,
                                                  SpentSince(asks[p].day), Known(asks[p].recipient)))]
      BY <1>3 DEF Evaluate
    <2>2. Worse(concern, LimitsSay(Tiers[asks[p].tier], asks[p].amount, SpentSince(asks[p].day),
                                   Known(asks[p].recipient))) \in {"allow", "review", "deny"}
      BY OutcomeIsOne
    <2>3. \A r \in AskRecords, x \in {"allow", "review", "deny"} :
            [r EXCEPT !.stage = "evaluated", !.outcome = x] \in AskRecords
      BY DEF AskRecords, Stages
    <2>4. asks' \in [Payments -> AskRecords]
      <3> DEFINE x == Worse(concern, LimitsSay(Tiers[asks[p].tier], asks[p].amount, SpentSince(asks[p].day),
                                               Known(asks[p].recipient)))
      <3>1. asks' = [asks EXCEPT ![p] = [asks[p] EXCEPT !.stage = "evaluated", !.outcome = x]]
        BY <2>1
      <3>2. x \in {"allow", "review", "deny"}
        BY <2>2
      <3> HIDE DEF x
      <3> QED BY <3>1, <3>2, <2>3
    <2>5. \A q \in Payments : asks[q].stage = "answered" => asks'[q].stage = "answered"
      BY <1>3, <2>1 DEF Evaluate
    <2> QED BY <1>3, <2>4, <2>5, AskingKeeps DEF Evaluate, standing
  <1>4. CASE Record(p)
    <2>1. asks' \in [Payments -> AskRecords]
      BY <1>4 DEF Record, Leave, Unasked, AskRecords, Stages
    <2> QED BY <1>4, <2>1, AskingKeeps DEF Record, Leave, standing
  <1>5. CASE Fail(p)
    <2>1. asks' \in [Payments -> AskRecords]
      BY <1>5 DEF Fail, Leave, Unasked, AskRecords, Stages
    <2> QED BY <1>5, <2>1, AskingKeeps DEF Fail, Leave, standing
  <1>6. CASE Answer(p)
    <2>1. asks' = [asks EXCEPT ![p] = [Unasked EXCEPT !.stage = "answered"]] /\ cases[p].status = "none"
      BY <1>6 DEF Answer, Leave, CaseRecords
    <2>2. Cases'
      <3>1. asks' \in [Payments -> AskRecords]
        BY <2>1 DEF Unasked, AskRecords, Stages
      <3>2. cases' \in [Payments -> CaseRecords]
        BY <1>6 DEF Answer, CaseRecords
      <3>3. \A q \in Payments : cases'[q].status # "none" => asks'[q].stage = "answered"
        BY <1>6, <2>1 DEF Answer, CaseRecords, Unasked
      <3> QED BY <1>6, <3>1, <3>2, <3>3 DEF Answer
    <2>3. \A q \in Payments : q # p => cases'[q] = cases[q]
      BY <1>6 DEF Answer
    <2>4. Requests'
      <3> SUFFICES ASSUME NEW o \in Operators PROVE Behind(o)'
        BY DEF Requests, office
      <3>1. Behind(o) /\ requests' = requests /\ requests[o] \in RequestRecords
        BY DEF Requests, office
      <3>2. requests[o].stage = "applied" /\ requests[o].asks.kind = "case" =>
              requests[o].asks.of \in Payments /\ requests[o].asks.of # p
        BY <2>1, <3>1 DEF Behind, Request, CaseRecords
      <3> QED BY <1>6, <2>3, <3>1, <3>2 DEF Behind, Held, Answer, standing
    <2>5. Recorded'
      BY <2>1, <2>3 DEF Recorded, DecisionStands, office
    <2> QED BY <1>6, <2>2, <2>4, <2>5 DEF Answer, standing, Evidence, Tier, Held
  <1> QED BY <1>1, <1>2, <1>3, <1>4, <1>5, <1>6 DEF Decide

\* Evidence is only added to: what was held is held.
LEMMA EvidenceGrows ==
  ASSUME ReviewInv, evidence' \in [Documents -> DocumentRecords], UNCHANGED <<tier, deciding, cases, recorded>>,
         \A d \in Documents : evidence[d].status \in {"verified", "rejected"} => evidence'[d] = evidence[d],
         \A d \in Documents : evidence'[d].status \in {"verified", "rejected"} => evidence'[d].by # Customer
  PROVE  /\ Evidence' /\ Tier' /\ Cases' /\ Recorded'
         /\ \A kind \in Kinds : Held(kind) => Held(kind)'
  <1>1. \A kind \in Kinds : Held(kind) => Held(kind)'
    BY DEF Held
  <1>2. Tier'
    BY <1>1 DEF ReviewInv, Tier, Kinds
  <1> QED BY <1>1, <1>2 DEF ReviewInv, Evidence, Cases, Recorded, DecisionStands, deciding

LEMMA SubmitKeeps ==
  ASSUME ReviewInv, NEW d \in Documents, SubmitDocument(d), UNCHANGED office
  PROVE  ReviewInv'
  <1>1. evidence' \in [Documents -> DocumentRecords]
    BY DEF SubmitDocument, ReviewInv, Evidence, DocumentRecords
  <1>2. \A e \in Documents : evidence[e].status \in {"verified", "rejected"} => evidence'[e] = evidence[e]
    BY DEF SubmitDocument, ReviewInv, Evidence
  <1>3. \A e \in Documents : evidence'[e].status \in {"verified", "rejected"} => evidence'[e].by # Customer
    BY DEF SubmitDocument, ReviewInv, Evidence
  <1>4. /\ Evidence' /\ Tier' /\ Cases' /\ Recorded'
        /\ \A kind \in Kinds : Held(kind) => Held(kind)'
    BY <1>1, <1>2, <1>3, EvidenceGrows DEF SubmitDocument, office
  <1>5. Requests'
    BY <1>4 DEF SubmitDocument, office, ReviewInv, Requests, Behind, Request, Kinds
  <1> QED BY <1>4, <1>5 DEF ReviewInv

-----------------------------------------------------------------------------
(* Steps of a request *)

\* One request moves on, with what its new stage needs behind it.
LEMMA RequestKeeps ==
  ASSUME ReviewInv, UNCHANGED <<complianceVars, recorded>>, NEW o \in Operators, NEW r \in RequestRecords,
         requests' = [requests EXCEPT ![o] = r], Behind(o)'
  PROVE  ReviewInv'
  <1>1. requests' \in [Operators -> RequestRecords] /\ \A q \in Operators : q # o => requests'[q] = requests[q]
    BY DEF ReviewInv, Requests
  <1>2. ASSUME NEW q \in Operators PROVE Behind(q)'
    <2>1. CASE q = o BY <2>1
    <2>2. CASE q # o
      BY <1>1, <2>2 DEF ReviewInv, Requests, Behind, Held, complianceVars, standing
    <2> QED BY <2>1, <2>2
  <1>3. Evidence' /\ Tier' /\ Cases' /\ Recorded'
    BY DEF ReviewInv, Evidence, Tier, Held, Cases, Recorded, DecisionStands, complianceVars, standing, deciding
  <1> QED BY <1>1, <1>2, <1>3 DEF ReviewInv, Requests

\* Nothing is behind a request that is over, nor needed behind one that was sent.
LEMMA EndKeeps ==
  ASSUME ReviewInv, UNCHANGED <<complianceVars, recorded>>, NEW o \in Operators,
         NEW stage \in {"idle", "answered", "lost"}, End(o, stage)
  PROVE  ReviewInv'
  <1>1. Over(stage) \in RequestRecords
    BY DEF Over, RequestRecords, RequestStages
  <1>2. requests' = [requests EXCEPT ![o] = Over(stage)] /\ requests'[o] = Over(stage)
    BY DEF End, ReviewInv, Requests
  <1>3. Behind(o)'
    BY <1>2 DEF Behind, Over
  <1> QED BY <1>1, <1>2, <1>3, RequestKeeps

LEMMA SendKeeps ==
  ASSUME ReviewInv, NEW o \in Operators, NEW request \in Request, Send(o, request)
  PROVE  ReviewInv'
  <1> DEFINE r == [stage |-> "sent", asks |-> request]
  <1>1. r \in RequestRecords
    BY DEF RequestRecords, RequestStages
  <1>2. requests' = [requests EXCEPT ![o] = r] /\ requests'[o] = r
    BY DEF Send, ReviewInv, Requests
  <1>3. Behind(o)'
    BY <1>2 DEF Behind
  <1>4. UNCHANGED <<complianceVars, recorded>>
    BY DEF Send
  <1> HIDE DEF r
  <1> QED BY <1>1, <1>2, <1>3, <1>4, RequestKeeps

\* A stage that a request moves on to, its question as it was.
LEMMA ToMoves ==
  ASSUME ReviewInv, NEW o \in Operators, NEW stage \in RequestStages, To(o, stage)
  PROVE  /\ requests' \in [Operators -> RequestRecords]
         /\ requests'[o].stage = stage /\ requests'[o].asks = requests[o].asks
         /\ \A q \in Operators : q # o => requests'[q] = requests[q]
         /\ \E r \in RequestRecords : requests' = [requests EXCEPT ![o] = r]
  <1>1. requests \in [Operators -> RequestRecords]
    BY DEF ReviewInv, Requests
  <1>2. requests[o] \in RequestRecords
    BY <1>1
  <1> DEFINE r == [requests[o] EXCEPT !.stage = stage]
  <1>3. r \in RequestRecords /\ r.stage = stage /\ r.asks = requests[o].asks
    BY <1>2 DEF RequestRecords
  <1>4. requests' = [requests EXCEPT ![o] = r]
    BY DEF To
  <1> HIDE DEF r
  <1> QED BY <1>1, <1>3, <1>4

LEMMA DoneMoves ==
  ASSUME ReviewInv, NEW o \in Operators, Done(o)
  PROVE  /\ requests' \in [Operators -> RequestRecords]
         /\ requests'[o].stage \in {"applied", "failed"} /\ requests'[o].asks = requests[o].asks
         /\ \A q \in Operators : q # o => requests'[q] = requests[q]
  BY ToMoves DEF Done, RequestStages

\* Only an open case is closed: no request has closed it and no entry names it.
LEMMA CloseCaseKeeps ==
  ASSUME ReviewInv, NEW o \in Operators, CloseCase(o)
  PROVE  ReviewInv'
  <1> DEFINE it == requests[o].asks
  <1>1. /\ it \in Request /\ it.kind = "case" /\ it.of \in Payments /\ it.as \in {"cleared", "blocked"}
        /\ requests[o].stage = "sent"
    BY DEF CloseCase, Admitted, ReviewInv, Requests, Behind, Request
  <1>2. /\ cases[it.of].status = "open" /\ o # Customer
        /\ cases' = [cases EXCEPT ![it.of] = [status |-> it.as, by |-> o]]
    BY DEF CloseCase, Close
  <1>3. /\ requests' \in [Operators -> RequestRecords]
        /\ requests'[o].stage \in {"applied", "failed"} /\ requests'[o].asks = it
        /\ \A q \in Operators : q # o => requests'[q] = requests[q]
    BY DoneMoves DEF CloseCase
  <1>4. /\ cases'[it.of] = [status |-> it.as, by |-> o]
        /\ \A c \in Payments : c # it.of => cases'[c] = cases[c]
    BY <1>1, <1>2 DEF ReviewInv, Cases
  <1>5. Cases'
    <2>1. cases' \in [Payments -> CaseRecords]
      BY <1>1, <1>2 DEF ReviewInv, Cases, CaseRecords
    <2>2. asks[it.of].stage = "answered"
      BY <1>1, <1>2 DEF ReviewInv, Cases
    <2> HIDE DEF it
    <2> QED BY <1>1, <1>4, <2>1, <2>2 DEF CloseCase, deciding, ReviewInv, Cases
  <1>6. ASSUME NEW q \in Operators PROVE Behind(q)'
    <2>1. CASE q = o
      BY <1>1, <1>2, <1>3, <1>4, <2>1 DEF Behind
    <2>2. CASE q # o
      <3>1. requests'[q] = requests[q] /\ Behind(q)
        BY <1>3, <2>2 DEF ReviewInv, Requests
      <3>2. requests[q].stage = "applied" /\ requests[q].asks.kind = "case" =>
              requests[q].asks.of \in Payments /\ requests[q].asks.of # it.of
        BY <1>1, <1>2, <3>1 DEF Behind, Request
      <3> QED BY <1>4, <3>1, <3>2 DEF Behind, Held, CloseCase, standing
    <2> QED BY <2>1, <2>2
  <1>7. Recorded'
    BY <1>1, <1>2, <1>4 DEF ReviewInv, Recorded, DecisionStands, CloseCase
  <1>8. Evidence' /\ Tier'
    BY DEF ReviewInv, Evidence, Tier, Held, CloseCase, standing
  <1> QED BY <1>3, <1>5, <1>6, <1>7, <1>8 DEF ReviewInv, Requests

LEMMA ReviewDocumentKeeps ==
  ASSUME ReviewInv, NEW o \in Operators, ReviewDocument(o)
  PROVE  ReviewInv'
  <1> DEFINE it == requests[o].asks
  <1>1. it \in Request /\ it.kind = "document" /\ it.of \in Documents /\ it.as \in {"verified", "rejected"}
    BY DEF ReviewDocument, Admitted, ReviewInv, Requests, Behind, Request
  <1>2. /\ evidence[it.of].status = "submitted" /\ o # Customer
        /\ evidence' = [evidence EXCEPT ![it.of] = [evidence[it.of] EXCEPT !.status = it.as, !.by = o]]
    BY DEF ReviewDocument, Review
  <1>3. /\ requests' \in [Operators -> RequestRecords]
        /\ requests'[o].stage \in {"applied", "failed"} /\ requests'[o].asks = it
        /\ \A q \in Operators : q # o => requests'[q] = requests[q]
    BY DoneMoves DEF ReviewDocument
  <1>4. /\ [evidence[it.of] EXCEPT !.status = it.as, !.by = o] \in DocumentRecords
        /\ [evidence[it.of] EXCEPT !.status = it.as, !.by = o].by = o
    <2>1. \A e \in DocumentRecords, status \in {"verified", "rejected"} :
            /\ [e EXCEPT !.status = status, !.by = o] \in DocumentRecords
            /\ [e EXCEPT !.status = status, !.by = o].by = o
      BY DEF DocumentRecords
    <2>2. evidence[it.of] \in DocumentRecords
      BY <1>1 DEF ReviewInv, Evidence
    <2> HIDE DEF it
    <2> QED BY <1>1, <2>1, <2>2
  <1>5. evidence' \in [Documents -> DocumentRecords]
    BY <1>1, <1>2, <1>4 DEF ReviewInv, Evidence
  <1>6. \A d \in Documents : evidence[d].status \in {"verified", "rejected"} => evidence'[d] = evidence[d]
    BY <1>1, <1>2 DEF ReviewInv, Evidence
  <1>7. \A d \in Documents : evidence'[d].status \in {"verified", "rejected"} => evidence'[d].by # Customer
    BY <1>1, <1>2, <1>4 DEF ReviewInv, Evidence
  <1>8. /\ Evidence' /\ Tier' /\ Cases' /\ Recorded'
        /\ \A kind \in Kinds : Held(kind) => Held(kind)'
    BY <1>5, <1>6, <1>7, EvidenceGrows DEF ReviewDocument
  <1>9. ASSUME NEW q \in Operators PROVE Behind(q)'
    <2>1. CASE q = o
      BY <1>1, <1>3, <2>1 DEF Behind
    <2>2. CASE q # o
      BY <1>3, <1>8, <2>2 DEF ReviewInv, Requests, Behind, Request, Kinds, ReviewDocument
    <2> QED BY <2>1, <2>2
  <1> QED BY <1>3, <1>8, <1>9 DEF ReviewInv, Requests

LEMMA CheckEvidenceKeeps ==
  ASSUME ReviewInv, NEW o \in Operators, CheckEvidence(o)
  PROVE  ReviewInv'
  <1> DEFINE it == requests[o].asks
  <1>1. it \in Request /\ it.kind = "tier"
    BY DEF CheckEvidence, Admitted, ReviewInv, Requests, Behind
  <1>2. \A kind \in Tiers[it.as].evidence : Held(kind)
    BY DEF CheckEvidence, Missing, Verified, Held, ReviewInv, Evidence
  <1>3. PICK r \in RequestRecords : requests' = [requests EXCEPT ![o] = r]
    BY ToMoves DEF CheckEvidence, RequestStages
  <1>4. requests'[o].stage = "checked" /\ requests'[o].asks = it
    BY ToMoves DEF CheckEvidence, RequestStages
  <1>5. Behind(o)'
    BY <1>1, <1>2, <1>4 DEF Behind, Held, CheckEvidence, complianceVars, standing
  <1> QED BY <1>3, <1>5, RequestKeeps DEF CheckEvidence

\* The evidence that was checked is still there when the tier is set.
LEMMA SetTierKeeps ==
  ASSUME ReviewInv, NEW o \in Operators, SetTier(o)
  PROVE  ReviewInv'
  <1> DEFINE it == requests[o].asks
  <1>1. it \in Request /\ it.kind = "tier" /\ it.as \in DOMAIN Tiers /\ \A kind \in Tiers[it.as].evidence : Held(kind)
    BY DEF SetTier, ReviewInv, Requests, Behind, Request
  <1>2. /\ requests' \in [Operators -> RequestRecords]
        /\ requests'[o].stage \in {"applied", "failed"} /\ requests'[o].asks = it
        /\ \A q \in Operators : q # o => requests'[q] = requests[q]
    BY DoneMoves DEF SetTier
  <1>3. Tier' /\ Evidence' /\ Cases' /\ Recorded'
    BY <1>1 DEF SetTier, ReviewInv, Tier, Held, Evidence, Cases, Recorded, DecisionStands, deciding
  <1>4. ASSUME NEW q \in Operators PROVE Behind(q)'
    <2>1. CASE q = o
      BY <1>1, <1>2, <2>1 DEF Behind
    <2>2. CASE q # o
      BY <1>2, <2>2 DEF ReviewInv, Requests, Behind, Held, SetTier
    <2> QED BY <2>1, <2>2
  <1> QED BY <1>2, <1>3, <1>4 DEF ReviewInv, Requests

LEMMA RefusedKeeps ==
  ASSUME ReviewInv, NEW o \in Operators, Refused(o)
  PROVE  ReviewInv'
  <1>1. PICK r \in RequestRecords : requests' = [requests EXCEPT ![o] = r]
    BY ToMoves DEF Refused, RequestStages
  <1>2. requests'[o].stage = "failed" /\ requests'[o].asks = requests[o].asks
    BY ToMoves DEF Refused, RequestStages
  <1>3. Behind(o)'
    BY <1>2 DEF Behind, Refused, ReviewInv, Requests
  <1> QED BY <1>1, <1>3, RequestKeeps DEF Refused

\* What is recorded of a case is what its request has behind it.
LEMMA AuditKeeps ==
  ASSUME ReviewInv, NEW o \in Operators, Audit(o)
  PROVE  ReviewInv'
  <1>1. ReviewInv /\ UNCHANGED complianceVars /\ End(o, "answered")
    BY DEF Audit
  <1>2. CASE UNCHANGED recorded
    BY <1>1, <1>2, EndKeeps
  <1>3. CASE /\ requests[o].stage = "applied" /\ requests[o].asks.kind = "case"
             /\ recorded' = recorded \cup {[case |-> requests[o].asks.of, status |-> requests[o].asks.as, by |-> o]}
    <2>1. requests[o].asks.of \in Payments /\ requests[o].asks.as \in {"cleared", "blocked"}
      BY <1>3 DEF ReviewInv, Requests, Behind, Request
    <2>2. cases[requests[o].asks.of] = [status |-> requests[o].asks.as, by |-> o] /\ o # Customer
      BY <1>3 DEF ReviewInv, Requests, Behind
    <2>3. Recorded'
      BY <1>1, <1>3, <2>1, <2>2 DEF ReviewInv, Recorded, DecisionStands, complianceVars
    <2>4. /\ requests' \in [Operators -> RequestRecords] /\ requests'[o] = Over("answered")
          /\ \A q \in Operators : q # o => requests'[q] = requests[q]
      BY <1>1 DEF End, Over, ReviewInv, Requests, RequestRecords, RequestStages
    <2>5. ASSUME NEW q \in Operators PROVE Behind(q)'
      <3>1. CASE q = o
        BY <2>4, <3>1 DEF Behind, Over
      <3>2. CASE q # o
        BY <1>1, <2>4, <3>2 DEF ReviewInv, Requests, Behind, Held, complianceVars, standing
      <3> QED BY <3>1, <3>2
    <2> QED BY <1>1, <2>3, <2>4, <2>5
            DEF ReviewInv, Requests, Evidence, Tier, Held, Cases, complianceVars, standing, deciding
  <1> QED BY <1>2, <1>3 DEF Audit

LEMMA WorkKeeps ==
  ASSUME ReviewInv, NEW o \in Operators, Work(o)
  PROVE  ReviewInv'
  BY CloseCaseKeeps, ReviewDocumentKeeps, CheckEvidenceKeeps, SetTierKeeps, RefusedKeeps, AuditKeeps DEF Work

\* A tab changes nothing of the services except by sending a request or taking its answer.
LEMMA TabKeeps ==
  ASSUME ReviewInv, NEW o \in Operators, TabStep(o)
  PROVE  ReviewInv'
  <1>1. CASE TabOnly
    BY <1>1, StutterKeeps DEF TabOnly
  <1>2. CASE DecideCase(o)
    BY <1>2, SendKeeps DEF DecideCase
  <1>3. CASE Answered(o)
    BY <1>3, EndKeeps DEF Answered, Collect
  <1> QED BY <1>1, <1>2, <1>3 DEF TabStep, SignIn, RegisterPasskey, Login, FetchMe, ListCases, SignOut, Reload

LEMMA InvNext == ReviewInv /\ [ReviewNext]_reviewVars => ReviewInv'
  <1> SUFFICES ASSUME ReviewInv, [ReviewNext]_reviewVars PROVE ReviewInv'
    OBVIOUS
  <1>1. CASE UNCHANGED reviewVars
    BY <1>1, StutterKeeps DEF reviewVars
  <1>2. CASE (\E p \in Payments : Decide(p)) /\ UNCHANGED <<office, tabs, acts>>
    BY <1>2, DecideKeeps
  <1>3. CASE (\E d \in Documents : SubmitDocument(d)) /\ UNCHANGED <<office, tabs, acts>>
    BY <1>3, SubmitKeeps
  <1>4. CASE Midnight /\ UNCHANGED <<office, tabs, acts>>
    BY <1>4, AskingKeeps DEF Midnight, ReviewInv, Cases
  <1>5. CASE \E o \in Operators : Work(o) /\ UNCHANGED <<tabs, acts>>
    BY <1>5, WorkKeeps
  <1>6. CASE \E o \in Operators : (Interrupt(o) \/ Direct(o) \/ Dropped(o)) /\ UNCHANGED tabs
    <2> PICK o \in Operators : Interrupt(o) \/ Direct(o) \/ Dropped(o)
      BY <1>6
    <2>1. CASE Interrupt(o)
      BY <2>1, EndKeeps DEF Interrupt
    <2>2. CASE Direct(o)
      BY <2>2, SendKeeps DEF Direct
    <2>3. CASE Dropped(o)
      BY <2>3, EndKeeps DEF Dropped, Collect
    <2> QED BY <2>1, <2>2, <2>3
  <1>7. CASE \E o \in Consoles : TabStep(o)
    BY <1>7, TabKeeps, ReviewAssumption
  <1> QED BY <1>1, <1>2, <1>3, <1>4, <1>5, <1>6, <1>7 DEF ReviewNext

-----------------------------------------------------------------------------
(* Theorems *)

LEMMA InvAlways == ReviewSpec => []ReviewInv
  BY InvInit, InvNext, PTL DEF ReviewSpec

\* A customer's tier always rests on verified evidence that somebody else reviewed:
\* evidence is never taken back, so what was checked still holds when the tier is set.
THEOREM TierRests == ReviewSpec => []TierRestsOnEvidence
  <1>1. ReviewInv => TierRestsOnEvidence
    BY DEF ReviewInv, Tier, Held, TierRestsOnEvidence
  <1> QED BY <1>1, InvAlways, PTL

\* What the audit log says of a case is what became of it: a payment raises one case, a
\* case is closed once, and an entry is written only with the closed case behind it.
THEOREM DecisionsStand == ReviewSpec => []DecisionStands
  <1>1. ReviewInv => DecisionStands
    BY DEF ReviewInv, Recorded
  <1> QED BY <1>1, InvAlways, PTL
-----------------------------------------------------------------------------
(* The daily limit *)

RowRecords == [outcome : {"allow", "review", "deny"}, amount : Nat, recipient : Recipients \cup {None},
               tier : DOMAIN Tiers, day : Nat]

\* A payment's row is written once, after which nothing more is asked for it.
Rows ==
  /\ rows \in [Payments -> RowRecords \cup {None}]
  /\ \A p \in Payments : rows[p] # None => rows[p] \in RowRecords /\ asks[p].stage \in {"recorded", "answered"}

\* What an evaluated payment has behind it: the customer's lock, and, if it is allowed, a
\* day's total that leaves room for it.
Evaluated(p) ==
  /\ locked = p
  /\ asks[p].outcome \in {"allow", "review", "deny"}
  /\ asks[p].outcome = "allow" => SpentSince(asks[p].day) + asks[p].amount <= Tiers[asks[p].tier].day

LimitInv ==
  /\ Rows
  /\ \A p \in Payments : asks[p].stage \in {"asked", "begun", "evaluated"} => asks[p].tier \in DOMAIN Tiers
  /\ \A p \in Payments : asks[p].stage = "evaluated" => Evaluated(p)
  /\ DailyLimitHolds

LEMMA LimitInit == ReviewInit => LimitInv
  BY DEF ReviewInit, ComplianceInit, LimitInv, Rows, Evaluated, DailyLimitHolds, Unasked, Allowed

\* The rows of some payments add up.
LEMMA TotalType ==
  ASSUME Rows, NEW some \in SUBSET Allowed
  PROVE  /\ IsFiniteSet(UnitsOf(some))
         /\ Total(some) \in Nat
         /\ \A fewer \in SUBSET some : Total(fewer) <= Total(some)
<1>1. some \subseteq Payments /\ IsFiniteSet(some)
  <2>1. IsFiniteSet(Payments) /\ some \subseteq Payments
    BY ComplianceAssumption DEF Allowed
  <2> QED BY <2>1, FS_Subset
<1> DEFINE f == [p \in some |-> {p} \X (1..rows[p].amount)]
           T == {{p} \X (1..rows[p].amount) : p \in some}
<1>2. f \in Surjection(some, T)
  BY DEF Surjection
<1>3. IsFiniteSet(T)
  BY <1>1, <1>2, FS_Surjection
<1>4. ASSUME NEW S \in T PROVE IsFiniteSet(S)
  <2>1. PICK p \in some : S = {p} \X (1..rows[p].amount)
    OBVIOUS
  <2>2. rows[p].amount \in Nat
    BY DEF Allowed, Rows, RowRecords
  <2> QED BY <2>1, <2>2, UnitsOfOneRow
<1> HIDE DEF f, T
<1>5. IsFiniteSet(UNION T)
  BY <1>3, <1>4, FS_UNION
<1>6. IsFiniteSet(UnitsOf(some))
  BY <1>5 DEF T, UnitsOf
<1>7. \A fewer \in SUBSET some : UnitsOf(fewer) \subseteq UnitsOf(some)
  BY DEF UnitsOf
<1> QED BY <1>6, <1>7, FS_CardinalityType, FS_Subset DEF Total

\* One row more adds its amount.
LEMMA TotalAdds ==
  ASSUME Rows, NEW some \in SUBSET Allowed, NEW p \in Payments, p \notin some,
         rows'[p].amount \in Nat, \A q \in some : rows'[q] = rows[q]
  PROVE  /\ Total(some)' = Total(some)
         /\ (Total(some \cup {p}))' = Total(some) + rows'[p].amount
<1> DEFINE n == rows'[p].amount
           U == {p} \X (1..n)
<1>1. UnitsOf(some)' = UnitsOf(some)
  BY DEF UnitsOf
<1>2. (UnitsOf(some \cup {p}))' = UnitsOf(some) \cup U
  BY <1>1 DEF UnitsOf
<1>3. UnitsOf(some) \cap U = {}
  BY DEF UnitsOf
<1>4. IsFiniteSet(UnitsOf(some)) /\ Total(some) \in Nat
  BY TotalType
<1>5. IsFiniteSet(U) /\ Cardinality(U) = n
  BY UnitsOfOneRow
<1> HIDE DEF n, U
<1>6. Cardinality(UnitsOf(some) \cup U) = Cardinality(UnitsOf(some)) + Cardinality(U)
  <2>1. Cardinality(UnitsOf(some) \cup U)
          = Cardinality(UnitsOf(some)) + Cardinality(U) - Cardinality(UnitsOf(some) \cap U)
    BY <1>4, <1>5, FS_Union
  <2>2. Cardinality(UnitsOf(some) \cap U) = 0
    BY <1>3, FS_EmptySet
  <2>3. Cardinality(UnitsOf(some)) \in Nat /\ Cardinality(U) \in Nat
    BY <1>4, <1>5, FS_CardinalityType
  <2> QED BY <2>1, <2>2, <2>3
<1> QED BY <1>1, <1>2, <1>5, <1>6 DEF Total, n

\* Steps that write no row and evaluate nothing.
LEMMA RowsKept ==
  ASSUME LimitInv, UNCHANGED rows,
         \A p \in Payments : rows[p] # None => asks'[p].stage \in {"recorded", "answered"},
         \A p \in Payments : asks'[p].stage \in {"asked", "begun", "evaluated"} => asks'[p].tier \in DOMAIN Tiers,
         \A p \in Payments : asks'[p].stage = "evaluated" => Evaluated(p)'
  PROVE  LimitInv'
<1>1. Rows'
  BY DEF LimitInv, Rows
<1>2. DailyLimitHolds'
  BY DEF LimitInv, DailyLimitHolds, Allowed, Total, UnitsOf
<1> QED BY <1>1, <1>2 DEF LimitInv

\* The outcome "allow" leaves room: no concern, and within the limits.
LEMMA AllowedHasRoom ==
  ASSUME NEW concern \in DOMAIN Severity, NEW limits, NEW amount \in Nat, NEW spent \in Nat, NEW known,
         limits.day \in Nat, Worse(concern, LimitsSay(limits, amount, spent, known)) = "allow"
  PROVE  spent + amount <= limits.day
<1>1. LimitsSay(limits, amount, spent, known) \in {"allow", "review", "deny"} /\ concern \in {"allow", "review", "deny"}
  BY DEF LimitsSay, Severity
<1>2. /\ Severity["allow"] = 0 /\ Severity["review"] = 1 /\ Severity["deny"] = 2
  BY DEF Severity
<1>3. LimitsSay(limits, amount, spent, known) = "allow"
  <2> DEFINE says == LimitsSay(limits, amount, spent, known)
  <2> HIDE DEF says
  <2>1. says \in {"allow", "review", "deny"} /\ Worse(concern, says) = "allow"
    BY <1>1 DEF says
  <2>2. says = "allow"
    BY <1>1, <1>2, <2>1 DEF Worse
  <2> QED BY <2>2 DEF says
<1> QED BY <1>3 DEF LimitsSay

LEMMA EvaluateLimit ==
  ASSUME ReviewInv, LimitInv, NEW p \in Payments, Evaluate(p)
  PROVE  LimitInv'
<1>1. /\ asks[p].stage = "begun" /\ locked = None /\ locked' = p /\ UNCHANGED rows
      /\ asks \in [Payments -> AskRecords] /\ asks[p] \in AskRecords
  BY DEF Evaluate, ReviewInv, Cases
<1>2. PICK concern \in DOMAIN Severity :
        asks' = [asks EXCEPT ![p].stage = "evaluated",
                             ![p].outcome = Worse(concern, LimitsSay(Tiers[asks[p].tier], asks[p].amount,
                                              SpentSince(asks[p].day), Known(asks[p].recipient)))]
  BY DEF Evaluate
<1> DEFINE x == Worse(concern, LimitsSay(Tiers[asks[p].tier], asks[p].amount, SpentSince(asks[p].day),
                                         Known(asks[p].recipient)))
<1>3. x \in {"allow", "review", "deny"}
  BY OutcomeIsOne
<1>4. /\ asks[p].tier \in DOMAIN Tiers /\ Tiers[asks[p].tier].day \in Nat /\ asks[p].amount \in Nat
  BY <1>1, ComplianceAssumption DEF LimitInv, AskRecords
<1>5. SpentSince(asks[p].day) \in Nat
  BY TotalType DEF SpentSince, LimitInv
<1>6. x = "allow" => SpentSince(asks[p].day) + asks[p].amount <= Tiers[asks[p].tier].day
  BY <1>4, <1>5, AllowedHasRoom
<1>7. asks' = [asks EXCEPT ![p] = [asks[p] EXCEPT !.stage = "evaluated", !.outcome = x]]
  BY <1>2
<1> HIDE DEF x
<1>8. /\ asks'[p].stage = "evaluated" /\ asks'[p].outcome = x
      /\ asks'[p].tier = asks[p].tier /\ asks'[p].amount = asks[p].amount /\ asks'[p].day = asks[p].day
      /\ \A q \in Payments : q # p => asks'[q] = asks[q]
  BY <1>1, <1>7 DEF AskRecords
<1>9. SpentSince(asks[p].day)' = SpentSince(asks[p].day)
  BY <1>1, <1>8 DEF SpentSince, Total, UnitsOf, Allowed
<1>10. \A q \in Payments : q # p => asks'[q].stage # "evaluated"
  BY <1>1, <1>8, ComplianceAssumption DEF LimitInv, Evaluated
<1>11. Evaluated(p)'
  BY <1>1, <1>3, <1>6, <1>8, <1>9 DEF Evaluated, SpentSince, Total, UnitsOf, Allowed
<1> QED BY <1>1, <1>4, <1>8, <1>10, <1>11, RowsKept DEF LimitInv, Rows

\* The row is written under the lock, so the total its payment was evaluated on stands.
LEMMA RecordLimit ==
  ASSUME ReviewInv, LimitInv, NEW p \in Payments, Record(p)
  PROVE  LimitInv'
<1> DEFINE row == [outcome |-> asks[p].outcome, amount |-> asks[p].amount, recipient |-> asks[p].recipient,
                   tier |-> asks[p].tier, day |-> asks[p].day]
           paid(d) == {q \in Allowed : rows[q].day = d}
<1>1. /\ asks[p].stage = "evaluated" /\ rows' = [rows EXCEPT ![p] = row]
      /\ asks' = [asks EXCEPT ![p] = [Unasked EXCEPT !.stage = "recorded"]]
      /\ asks \in [Payments -> AskRecords] /\ asks[p] \in AskRecords
      /\ Evaluated(p) /\ asks[p].tier \in DOMAIN Tiers
  BY DEF Record, Leave, ReviewInv, Cases, LimitInv
<1>2. row \in RowRecords
  BY <1>1 DEF RowRecords, AskRecords, Evaluated
<1>3. row.outcome = asks[p].outcome /\ row.amount = asks[p].amount /\ row.tier = asks[p].tier /\ row.day = asks[p].day
  OBVIOUS
<1> HIDE DEF row
<1>4. /\ rows'[p] = row /\ \A q \in Payments : q # p => rows'[q] = rows[q]
      /\ rows[p] = None
  BY <1>1 DEF LimitInv, Rows
<1>5. asks'[p].stage = "recorded" /\ \A q \in Payments : q # p => asks'[q] = asks[q]
  BY <1>1 DEF Unasked
<1>6. Rows'
  <2>1. rows' \in [Payments -> RowRecords \cup {None}]
    BY <1>1, <1>2 DEF LimitInv, Rows
  <2> QED BY <1>2, <1>4, <1>5, <2>1 DEF LimitInv, Rows
<1>7. \A q \in Payments : asks'[q].stage # "evaluated"
  BY <1>1, <1>5, ComplianceAssumption DEF LimitInv, Evaluated
<1>8. ASSUME NEW d \in 1..MaxDay, {q \in Allowed' : rows'[q].day = d} # {}
      PROVE  \E q \in {q \in Allowed' : rows'[q].day = d} :
                Total({r \in Allowed : rows[r].day = d})' <= Tiers[rows'[q].tier].day
  <2>1. paid(d) \in SUBSET Allowed /\ p \notin paid(d) /\ Rows /\ d \in Nat
    BY <1>4, ComplianceAssumption DEF Allowed, LimitInv
  <2>2. rows'[p].amount \in Nat /\ \A q \in paid(d) : rows'[q] = rows[q]
    BY <1>2, <1>4, <2>1 DEF RowRecords, Allowed
  <2>3. /\ Total(paid(d)) \in Nat
        /\ \A some : some = paid(d) => Total(some)' = Total(some)
        /\ \A some : some = paid(d) \cup {p} => Total(some)' = Total(paid(d)) + row.amount
    BY <1>4, <2>1, <2>2, TotalType, TotalAdds DEF Total, UnitsOf
  <2>4. CASE row # None /\ row.outcome = "allow" /\ row.day = d
    <3>1. {q \in Allowed' : rows'[q].day = d} = paid(d) \cup {p}
      BY <1>4, <2>4 DEF Allowed
    <3>2. Total(paid(d)) <= SpentSince(d)
      <4>1. paid(d) \subseteq {q \in Allowed : rows[q].day >= d}
        BY <2>1
      <4> QED BY <4>1, TotalType DEF SpentSince, LimitInv
    <3>3. SpentSince(d) + row.amount <= Tiers[row.tier].day /\ SpentSince(d) \in Nat
      BY <1>1, <1>3, <2>4, TotalType DEF Evaluated, SpentSince, LimitInv
    <3>4. Tiers[row.tier].day \in Nat /\ row.amount \in Nat
      BY <1>2, ComplianceAssumption DEF RowRecords
    <3>5. Total(paid(d)) + row.amount <= Tiers[row.tier].day
      BY <2>3, <3>2, <3>3, <3>4
    <3>6. (Total({q \in Allowed : rows[q].day = d}))' = Total(paid(d)) + row.amount
      <4>1. ({q \in Allowed : rows[q].day = d})' = {q \in Allowed' : rows'[q].day = d}
        OBVIOUS
      <4>2. \A some : some = paid(d) \cup {p} => Cardinality(UnitsOf(some)') = Total(paid(d)) + row.amount
        BY <2>3 DEF Total
      <4> QED BY <3>1, <4>1, <4>2 DEF Total, UnitsOf
    <3>7. p \in {q \in Allowed' : rows'[q].day = d}
      BY <3>1
    <3> QED BY <1>4, <3>5, <3>6, <3>7
  <2>5. CASE ~(row # None /\ row.outcome = "allow" /\ row.day = d)
    <3>1. {q \in Allowed' : rows'[q].day = d} = paid(d)
      BY <1>4, <2>5 DEF Allowed
    <3>2. PICK q \in paid(d) : Total(paid(d)) <= Tiers[rows[q].tier].day
      BY <1>8, <3>1 DEF LimitInv, DailyLimitHolds
    <3>3. (Total({r \in Allowed : rows[r].day = d}))' = Total(paid(d))
      <4>1. ({r \in Allowed : rows[r].day = d})' = paid(d)
        BY <3>1
      <4>2. \A some : some = paid(d) => Cardinality(UnitsOf(some)') = Total(paid(d))
        BY <2>3 DEF Total
      <4> QED BY <4>1, <4>2 DEF Total, UnitsOf
    <3>4. q \in {r \in Allowed' : rows'[r].day = d} /\ rows'[q] = rows[q]
      BY <2>2, <3>1
    <3> HIDE DEF paid
    <3> QED BY <3>2, <3>3, <3>4
  <2> QED BY <2>4, <2>5
<1>9. DailyLimitHolds'
  BY <1>8 DEF DailyLimitHolds
<1> QED BY <1>5, <1>6, <1>7, <1>9 DEF LimitInv

LEMMA DecideLimit ==
  ASSUME ReviewInv, LimitInv, NEW p \in Payments, Decide(p)
  PROVE  LimitInv'
<1>1. /\ asks \in [Payments -> AskRecords] /\ asks[p] \in AskRecords /\ tier \in DOMAIN Tiers
  BY DEF ReviewInv, Cases, Tier
<1>2. \A q \in Payments : q # p /\ asks[q].stage = "evaluated" /\ UNCHANGED <<rows, locked>>
                          /\ asks'[q] = asks[q] => Evaluated(q)'
  BY DEF LimitInv, Evaluated, SpentSince, Total, UnitsOf, Allowed
<1>3. CASE Ask(p)
  <2>1. /\ asks'[p].stage = "asked" /\ asks'[p].tier = tier /\ asks[p].stage = "none"
        /\ \A q \in Payments : q # p => asks'[q] = asks[q]
        /\ UNCHANGED <<rows, locked>>
    BY <1>1, <1>3 DEF Ask, Unasked, AskRecords
  <2> QED BY <1>1, <1>2, <2>1, RowsKept DEF LimitInv, Rows
<1>4. CASE Begin(p)
  <2>1. /\ asks'[p].stage = "begun" /\ asks'[p].tier = asks[p].tier /\ asks[p].stage = "asked"
        /\ \A q \in Payments : q # p => asks'[q] = asks[q]
        /\ UNCHANGED <<rows, locked>>
    BY <1>1, <1>4 DEF Begin, AskRecords
  <2> QED BY <1>2, <2>1, RowsKept DEF LimitInv, Rows
<1>5. CASE Answer(p)
  <2>1. /\ asks'[p].stage = "answered"
        /\ \A q \in Payments : q # p => asks'[q] = asks[q]
        /\ UNCHANGED <<rows, locked>>
    BY <1>1, <1>5 DEF Answer, Leave, Unasked, AskRecords
  <2> QED BY <1>2, <2>1, RowsKept DEF LimitInv, Rows
<1>6. CASE Fail(p)
  <2>1. /\ asks'[p].stage = "failed" /\ rows[p] = None
        /\ \A q \in Payments : q # p => asks'[q] = asks[q]
        /\ UNCHANGED rows
    BY <1>1, <1>6 DEF Fail, Leave, Unasked, AskRecords, LimitInv, Rows
  <2>2. \A q \in Payments : q # p /\ asks[q].stage = "evaluated" => UNCHANGED locked
    BY <1>6 DEF Fail, LimitInv, Evaluated
  <2> QED BY <1>2, <2>1, <2>2, RowsKept DEF LimitInv, Rows
<1> QED BY <1>3, <1>4, <1>5, <1>6, EvaluateLimit, RecordLimit DEF Decide

LEMMA LimitNext == ReviewInv /\ LimitInv /\ [ReviewNext]_reviewVars => LimitInv'
<1> SUFFICES ASSUME ReviewInv, LimitInv, [ReviewNext]_reviewVars PROVE LimitInv'
  OBVIOUS
<1>1. CASE UNCHANGED <<asks, rows, locked>>
  <2>1. \A p \in Payments : asks'[p].stage = "evaluated" => Evaluated(p)'
    BY <1>1 DEF LimitInv, Evaluated, SpentSince, Total, UnitsOf, Allowed
  <2> QED BY <1>1, <2>1, RowsKept DEF LimitInv, Rows
<1>2. CASE \E p \in Payments : Decide(p)
  BY <1>2, DecideLimit
<1>3. UNCHANGED <<asks, rows, locked>> \/ \E p \in Payments : Decide(p)
  <2>1. ASSUME NEW o \in Operators, Work(o) PROVE UNCHANGED deciding
    BY <2>1 DEF Work, CloseCase, ReviewDocument, CheckEvidence, SetTier, Refused, Audit, complianceVars
  <2>2. ASSUME NEW o \in Operators, TabStep(o) PROVE UNCHANGED deciding
    BY <2>2 DEF TabStep, SignIn, RegisterPasskey, Login, FetchMe, ListCases, DecideCase, Answered, SignOut, Reload,
                TabOnly, Send, Collect, complianceVars
  <2>3. ASSUME NEW o \in Operators, Interrupt(o) \/ Direct(o) \/ Dropped(o) PROVE UNCHANGED deciding
    BY <2>3 DEF Interrupt, Direct, Dropped, Send, Collect, complianceVars
  <2> QED BY <2>1, <2>2, <2>3, ReviewAssumption
          DEF ReviewNext, SubmitDocument, Midnight, deciding, reviewVars, complianceVars
<1> QED BY <1>1, <1>2, <1>3

\* What is allowed in a day is within a daily limit on which one of that day's payments was
\* decided, however many are decided at once and on whichever side of midnight.
THEOREM LimitHolds == ReviewSpec => []DailyLimitHolds
<1>1. LimitInv => DailyLimitHolds
  BY DEF LimitInv
<1> QED BY LimitInit, LimitNext, InvAlways, <1>1, PTL DEF ReviewSpec
=============================================================================
