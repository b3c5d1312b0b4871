----------------------------- MODULE ControlProofs -----------------------------
(***************************************************************************)
(* For any operators, roles, changes and number of browsers: the control   *)
(* plane keeps the promise of ChangeControl and its audit log is one       *)
(* chain; and while the switch moves as promised, the payments API keeps   *)
(* to a stop it has read.  The invariant says of a request what the        *)
(* service has seen of its change, and of the log who may append to it.    *)
(***************************************************************************)
EXTENDS Console, TLAPS

Rows ==
  /\ changes \in [Ids -> [status : Statuses, ask : Asks \cup {None},
                          maker : Operators \cup {None}, checker : Operators \cup {None}]]
  /\ \A i \in Ids :
       /\ (changes[i].checker # None) <=> changes[i].status \in {"approved", "rejected", "applied"}
       /\ (changes[i].maker # None) <=> changes[i].status # "none"
       /\ changes[i].status # "none" => changes[i].ask \in Asks
  /\ late \subseteq Ids /\ done \subseteq Ids /\ sends \in BOOLEAN

CallRecords == [stage : Stages, kind : Kinds \cup {None}, change : Ids \cup {0},
                ask : Asks \cup {None}, token : BOOLEAN, tip : BOOLEAN]

Approved(i) == i \in Ids /\ changes[i].status \in {"approved", "applied"}

\* What a request has behind it at each of its stages.
Behind(o) ==
  /\ calls[o].stage = "sent" =>
       IF calls[o].kind = "propose" THEN calls[o].ask \in Asks
       ELSE calls[o].kind \in Kinds /\ calls[o].change \in Ids
  /\ calls[o].stage \in {"read", "effected"} => Approved(calls[o].change)
  /\ calls[o].stage = "effected" => calls[o].change \in done

Lines == calls \in [Operators -> CallRecords] /\ \A o \in Operators : Behind(o)

\* Only the holder of the lock has read the end of the log, and it is the end.
Lock ==
  /\ auditing \in Operators \cup {None}
  /\ \A o \in Operators : /\ calls[o].stage = "tip" <=> auditing = o
                          /\ calls[o].stage = "tip" => calls[o].tip
  /\ intact = TRUE

Jobs == {"none", "login", "register", "refresh", "queue", "call"}

TabRecords == [token : BOOLEAN, shown : BOOLEAN, me : BOOLEAN, job : Jobs, busy : BOOLEAN,
               seen : [Ids -> Statuses], late : BOOLEAN]

Tabs == tabs \in [Browsers -> TabRecords]

Rest ==
  /\ live \subseteq Operators /\ suspended \subseteq Operators
  /\ acts \in 0..MaxActs

ControlInv == Rows /\ Lines /\ Lock /\ Tabs /\ Rest

USE ControlAssumption, ConsoleAssumption

-----------------------------------------------------------------------------
(* Steps by what they leave alone *)

LEMMA PanelRecord ==
  ASSUME NEW token \in BOOLEAN, NEW pending \in BOOLEAN
  PROVE  Panel(token, pending) \in TabRecords /\ Away(token, pending) \in TabRecords
<1>1. [i \in Ids |-> "none"] \in [Ids -> Statuses]
  BY DEF Statuses
<1> QED
  BY <1>1 DEF Panel, Away, TabRecords, Jobs

LEMMA InvInit == ConsoleInit => ControlInv
<1> SUFFICES ASSUME ConsoleInit PROVE ControlInv
  OBVIOUS
<1>1. Tabs
  BY PanelRecord DEF ConsoleInit, Tabs
<1>2. Rows /\ Lines /\ Lock /\ Rest
  BY DEF ConsoleInit, ControlInit, Rows, Lines, Lock, Rest, NoChange, Call, CallRecords,
         Behind, Approved, Statuses, Stages, Kinds, Ids
<1> QED
  BY <1>1, <1>2 DEF ControlInv

\* What is said of rows, requests and the log rests on nothing else.
LEMMA StoreKept ==
  ASSUME ControlInv, UNCHANGED <<store, calls, log>>, Tabs', Rest'
  PROVE  ControlInv'
  BY DEF ControlInv, Rows, Lines, Lock, CallRecords, Behind, Approved, store, log

LEMMA ActInv == ASSUME Rest, Act PROVE acts' \in 0..MaxActs
  BY DEF Rest, Act

\* A request moves to a stage at which it needs nothing of its change.
LEMMA ToInv ==
  ASSUME ControlInv, NEW o \in Operators, NEW stage \in Stages \ {"sent", "read", "effected", "tip"},
         To(o, stage)
  PROVE  /\ calls' \in [Operators -> CallRecords]
         /\ calls'[o] = Call(stage)
         /\ \A p \in Operators \ {o} : calls'[p] = calls[p]
  BY DEF ControlInv, Lines, To, Call, CallRecords

LEMMA OnInv ==
  ASSUME ControlInv, NEW o \in Operators, NEW stage \in {"read", "effected"}, On(o, stage)
  PROVE  /\ calls' \in [Operators -> CallRecords]
         /\ calls'[o] = [Call(stage) EXCEPT !.change = calls[o].change]
         /\ \A p \in Operators \ {o} : calls'[p] = calls[p]
  BY DEF ControlInv, Lines, On, Call, CallRecords, Stages

\* Requests of the others are not touched by a step that keeps what is approved.
LEMMA OthersKept ==
  ASSUME ControlInv, NEW o \in Operators, NEW p \in Operators \ {o}, calls'[p] = calls[p],
         \A i \in Ids : Approved(i) => Approved(i)', done \subseteq done'
  PROVE  Behind(p)'
  BY DEF ControlInv, Lines, Behind, Approved

\* A step of one request, outside the log.
LEMMA RequestInv ==
  ASSUME ControlInv, NEW o \in Operators, calls[o].stage # "tip", calls'[o].stage # "tip",
         calls' \in [Operators -> CallRecords], \A p \in Operators \ {o} : calls'[p] = calls[p],
         Behind(o)', Rows', Tabs', Rest', UNCHANGED log,
         \A i \in Ids : Approved(i) => Approved(i)', done \subseteq done'
  PROVE  ControlInv'
<1>1. \A p \in Operators \ {o} : Behind(p)'
  BY OthersKept
<1>2. Lines'
  BY <1>1 DEF Lines
<1>3. Lock'
  BY DEF ControlInv, Lock, log
<1> QED
  BY <1>2, <1>3 DEF ControlInv

\* The same, when the request needs nothing any more.
LEMMA RequestToInv ==
  ASSUME ControlInv, NEW o \in Operators, calls[o].stage # "tip",
         NEW stage \in {"idle", "audit", "answered", "lost"}, To(o, stage),
         Rows', Tabs', Rest', UNCHANGED log,
         \A i \in Ids : Approved(i) => Approved(i)', done \subseteq done'
  PROVE  ControlInv'
<1>1. /\ calls' \in [Operators -> CallRecords] /\ calls'[o] = Call(stage)
      /\ \A p \in Operators \ {o} : calls'[p] = calls[p]
  BY ToInv DEF Stages
<1>2. calls'[o].stage = stage
  BY <1>1 DEF Call
<1>3. Behind(o)'
  BY <1>2 DEF Behind
<1> QED
  BY <1>1, <1>2, <1>3, RequestInv

LEMMA RestKept == ASSUME Rest, UNCHANGED <<standing, acts>> PROVE Rest'
  BY DEF Rest, standing

LEMMA TabsKept == ASSUME Tabs, UNCHANGED tabs PROVE Tabs'
  BY DEF Tabs

LEMMA RowsKept ==
  ASSUME ControlInv, UNCHANGED store
  PROVE  Rows' /\ (\A i \in Ids : Approved(i) => Approved(i)') /\ done \subseteq done'
  BY DEF ControlInv, Rows, Approved, store

-----------------------------------------------------------------------------
(* The handlers *)

LEMMA ProposeInv ==
  ASSUME ControlInv, NEW o \in Operators, Propose(o), UNCHANGED tabs
  PROVE  ControlInv'
<1>1. /\ Rest' /\ Tabs' /\ UNCHANGED log /\ calls[o].stage = "sent" /\ calls[o].kind = "propose"
  BY RestKept, TabsKept DEF Propose, Handling, ControlInv
<1>2. CASE Denied(o)
  BY <1>1, <1>2, RequestToInv, RowsKept DEF Denied
<1>3. ASSUME NEW i \in Ids, Fresh(i), To(o, "audit"), UNCHANGED <<late, done, sends>>,
             changes' = [changes EXCEPT ![i] = [status |-> "pending", ask |-> calls[o].ask, maker |-> o,
                                                checker |-> None]]
      PROVE  ControlInv'
  <2>1. calls[o].ask \in Asks
    BY <1>1 DEF ControlInv, Lines, Behind
  <2>2. Rows'
    BY <1>3, <2>1 DEF ControlInv, Rows, Statuses
  <2>3. \A j \in Ids : Approved(j) => Approved(j)'
    BY <1>3 DEF ControlInv, Rows, Approved, Fresh
  <2> QED
    BY <1>1, <1>3, <2>2, <2>3, RequestToInv
<1> QED
  BY <1>2, <1>3 DEF Propose

LEMMA DecideInv ==
  ASSUME ControlInv, NEW o \in Operators, Decide(o), UNCHANGED tabs
  PROVE  ControlInv'
<1> DEFINE i == calls[o].change
<1>1. /\ Rest' /\ Tabs' /\ UNCHANGED log /\ calls[o].stage = "sent" /\ calls[o].kind \in {"approved", "rejected"}
  BY RestKept, TabsKept DEF Decide, Handling, ControlInv
<1>2. i \in Ids
  BY <1>1 DEF ControlInv, Lines, Behind
<1>3. ASSUME DecideRow(o), UNCHANGED <<late, done, sends>>
      PROVE  ControlInv'
  <2>1. Rows' /\ \A j \in Ids : Approved(j) => Approved(j)'
    BY <1>1, <1>2, <1>3 DEF ControlInv, Rows, Statuses, Approved, DecideRow
  <2>2. To(o, "answered") \/ To(o, "audit")
    BY <1>3 DEF DecideRow
  <2> QED
    BY <1>1, <1>3, <2>1, <2>2, RequestToInv
<1>4. ASSUME UNCHANGED store, To(o, "answered") \/ To(o, "audit")
      PROVE  ControlInv'
  BY <1>1, <1>4, RequestToInv, RowsKept
<1> QED
  BY <1>3, <1>4 DEF Decide, Denied

LEMMA ApplyReadInv ==
  ASSUME ControlInv, NEW o \in Operators, ApplyRead(o), UNCHANGED tabs
  PROVE  ControlInv'
<1> DEFINE i == calls[o].change
<1>1. /\ Rest' /\ Tabs' /\ UNCHANGED log /\ UNCHANGED store /\ calls[o].stage = "sent" /\ calls[o].kind = "apply"
  BY RestKept, TabsKept DEF ApplyRead, Handling, ControlInv
<1>2. i \in Ids
  BY <1>1 DEF ControlInv, Lines, Behind
<1>3. CASE To(o, "answered") \/ To(o, "audit")
  BY <1>1, <1>3, RequestToInv, RowsKept
<1>4. ASSUME changes[i].status = "approved", On(o, "read")
      PROVE  ControlInv'
  <2>1. /\ calls' \in [Operators -> CallRecords] /\ calls'[o] = [Call("read") EXCEPT !.change = i]
        /\ \A p \in Operators \ {o} : calls'[p] = calls[p]
    BY <1>4, OnInv
  <2>2. calls'[o].stage = "read" /\ calls'[o].change = i
    BY <2>1 DEF Call
  <2>3. Behind(o)'
    BY <1>1, <1>2, <1>4, <2>2 DEF Behind, Approved, store
  <2> QED
    BY <1>1, <2>1, <2>2, <2>3, RequestInv, RowsKept
<1> QED
  BY <1>3, <1>4 DEF ApplyRead

LEMMA ApplyEffectInv ==
  ASSUME ControlInv, NEW o \in Operators, ApplyEffect(o), UNCHANGED tabs
  PROVE  ControlInv'
<1> DEFINE i == calls[o].change  asked == AskedOfSwitch(changes[i].ask)
<1>1. /\ Rest' /\ Tabs' /\ UNCHANGED log /\ calls[o].stage = "read" /\ Approved(i)
      /\ UNCHANGED <<changes, late>> /\ done' = done \cup {i}
  BY RestKept, TabsKept DEF ApplyEffect, Handling, ControlInv, Lines, Behind
<1>2. changes[i].ask \in Asks
  BY <1>1 DEF ControlInv, Rows, Approved
<1>3. sends' \in BOOLEAN
  <2>1. Effective(changes[i].ask) /\ sends' = IF asked = None THEN sends ELSE asked
    BY DEF ApplyEffect
  <2>2. CASE changes[i].ask.action = "kill_switch" \/ changes[i].ask.action = "resume_payments"
    BY <2>1, <2>2 DEF AskedOfSwitch, ControlInv, Rows
  <2>3. CASE changes[i].ask.action = "features.edit"
    <3>1. asked = changes[i].ask.payload /\ asked # None
      BY <2>1, <2>3 DEF AskedOfSwitch, Effective
    <3> QED
      BY <1>2, <2>1, <3>1
  <2>4. CASE changes[i].ask.action \notin {"kill_switch", "resume_payments", "features.edit"}
    BY <2>1, <2>4 DEF AskedOfSwitch, Effective, SessionRoles, FreezeRoles
  <2> QED
    BY <2>2, <2>3, <2>4
<1>4. Rows' /\ (\A j \in Ids : Approved(j) => Approved(j)') /\ done \subseteq done'
  BY <1>1, <1>3 DEF ControlInv, Rows, Approved
<1>5. CASE To(o, "audit")
  BY <1>1, <1>4, <1>5, RequestToInv
<1>6. CASE On(o, "effected")
  <2>1. /\ calls' \in [Operators -> CallRecords] /\ calls'[o] = [Call("effected") EXCEPT !.change = i]
        /\ \A p \in Operators \ {o} : calls'[p] = calls[p]
    BY <1>6, OnInv
  <2>2. calls'[o].stage = "effected" /\ calls'[o].change = i
    BY <2>1 DEF Call
  <2>3. Behind(o)'
    BY <1>1, <2>2 DEF Behind, Approved
  <2> QED
    BY <1>1, <1>4, <2>1, <2>2, <2>3, RequestInv
<1> QED
  BY <1>5, <1>6 DEF ApplyEffect

LEMMA ApplyFailsInv ==
  ASSUME ControlInv, NEW o \in Operators, ApplyFails(o), UNCHANGED tabs
  PROVE  ControlInv'
<1>1. Rest' /\ Tabs' /\ UNCHANGED log
  BY RestKept, TabsKept DEF ApplyFails, Handling, ControlInv
<1> QED
  BY <1>1, RequestToInv, RowsKept DEF ApplyFails

LEMMA MarkAppliedInv ==
  ASSUME ControlInv, NEW o \in Operators, MarkApplied(o), UNCHANGED tabs
  PROVE  ControlInv'
<1> DEFINE i == calls[o].change
<1>1. /\ Rest' /\ Tabs' /\ UNCHANGED log /\ calls[o].stage = "effected" /\ i \in Ids
      /\ UNCHANGED <<late, done, sends>>
  BY RestKept, TabsKept DEF MarkApplied, Handling, ControlInv, Lines, Behind, Approved
<1>2. Rows' /\ \A j \in Ids : Approved(j) => Approved(j)'
  BY <1>1 DEF ControlInv, Rows, Statuses, Approved, MarkApplied
<1>3. To(o, "answered") \/ To(o, "audit")
  BY DEF MarkApplied
<1> QED
  BY <1>1, <1>2, <1>3, RequestToInv

-----------------------------------------------------------------------------
(* The log *)

LEMMA ReadTipInv ==
  ASSUME ControlInv, NEW o \in Operators, ReadTip(o), UNCHANGED tabs
  PROVE  ControlInv'
<1>1. Rest' /\ Tabs' /\ UNCHANGED store
  BY RestKept, TabsKept DEF ReadTip, Appending, ControlInv
<1>2. Rows' /\ (\A j \in Ids : Approved(j) => Approved(j)') /\ done \subseteq done'
  BY <1>1, RowsKept
<1>3. /\ calls' \in [Operators -> CallRecords] /\ calls'[o].stage = "tip" /\ calls'[o].tip
      /\ \A p \in Operators \ {o} : calls'[p] = calls[p]
  BY DEF ReadTip, ControlInv, Lines, CallRecords, Stages
<1>4. Lines'
  <2>1. \A p \in Operators \ {o} : Behind(p)'
    BY <1>2, <1>3, OthersKept
  <2>2. Behind(o)'
    BY <1>3 DEF Behind
  <2> QED
    BY <1>3, <2>1, <2>2 DEF Lines
<1>5. Lock'
  BY <1>3, ControlAssumption DEF ReadTip, ControlInv, Lock
<1> QED
  BY <1>1, <1>2, <1>4, <1>5 DEF ControlInv

LEMMA ChainInv ==
  ASSUME ControlInv, NEW o \in Operators, Chain(o), UNCHANGED tabs
  PROVE  ControlInv'
<1>1. Rest' /\ Tabs' /\ UNCHANGED store
  BY RestKept, TabsKept DEF Chain, Appending, ControlInv
<1>2. Rows' /\ (\A j \in Ids : Approved(j) => Approved(j)') /\ done \subseteq done'
  BY <1>1, RowsKept
<1>3. /\ calls' \in [Operators -> CallRecords] /\ calls'[o] = Call("answered")
      /\ \A p \in Operators \ {o} : calls'[p] = [calls[p] EXCEPT !.tip = FALSE]
  BY DEF Chain, ControlInv, Lines, CallRecords, Call, Stages
<1>4. /\ calls'[o].stage = "answered"
      /\ \A p \in Operators \ {o} : /\ calls'[p].stage = calls[p].stage
                                   /\ calls'[p].kind = calls[p].kind
                                   /\ calls'[p].ask = calls[p].ask
                                   /\ calls'[p].change = calls[p].change
  BY <1>3 DEF Call, ControlInv, Lines, CallRecords
<1>5. Behind(o)'
  BY <1>4 DEF Behind
<1>6. \A p \in Operators \ {o} : Behind(p)'
  BY <1>1, <1>2, <1>4 DEF ControlInv, Lines, Behind, Approved, store
<1>7. Lock'
  BY <1>4, ControlAssumption DEF Chain, ControlInv, Lock
<1> QED
  BY <1>1, <1>2, <1>3, <1>5, <1>6, <1>7 DEF ControlInv, Lines

\* The lock is given up with the request.
LEMMA ReleaseInv ==
  ASSUME ControlInv, NEW o \in Operators, NEW stage \in {"answered", "lost"}, To(o, stage),
         auditing' = Released(o), UNCHANGED intact, UNCHANGED store, Rest', Tabs'
  PROVE  ControlInv'
<1>2. Rows' /\ (\A j \in Ids : Approved(j) => Approved(j)') /\ done \subseteq done'
  BY RowsKept
<1>3. /\ calls' \in [Operators -> CallRecords] /\ calls'[o] = Call(stage)
      /\ \A p \in Operators \ {o} : calls'[p] = calls[p]
  BY ToInv DEF Stages
<1>4. calls'[o].stage = stage
  BY <1>3 DEF Call
<1>5. \A p \in Operators : Behind(p)'
  <2>1. \A p \in Operators \ {o} : Behind(p)'
    BY <1>2, <1>3, OthersKept
  <2>2. Behind(o)'
    BY <1>4 DEF Behind
  <2> QED
    BY <2>1, <2>2
<1>6. Lock'
  BY <1>3, <1>4, ControlAssumption DEF Released, ControlInv, Lock
<1> QED
  BY <1>2, <1>3, <1>5, <1>6 DEF ControlInv, Lines

LEMMA AuditFailsInv ==
  ASSUME ControlInv, NEW o \in Operators, AuditFails(o), UNCHANGED tabs
  PROVE  ControlInv'
<1>1. Rest' /\ Tabs' /\ UNCHANGED store
  BY RestKept, TabsKept DEF AuditFails, Appending, ControlInv
<1> QED
  BY <1>1, ReleaseInv DEF AuditFails

LEMMA InterruptInv ==
  ASSUME ControlInv, NEW o \in Operators, Interrupt(o), UNCHANGED tabs
  PROVE  ControlInv'
<1>1. Rest' /\ Tabs'
  BY ActInv, TabsKept DEF Interrupt, ControlInv, Rest, standing
<1> QED
  BY <1>1, ReleaseInv DEF Interrupt

-----------------------------------------------------------------------------
(* The tabs and the other clients *)

LEMMA ArriveInv ==
  ASSUME ControlInv, NEW o \in Operators, NEW kind, NEW i, NEW ask, NEW token \in BOOLEAN,
         Arrive(o, kind, i, ask, token),
         \/ kind = "propose" /\ i = 0 /\ ask \in Asks
         \/ kind \in Kinds \ {"propose"} /\ i \in Ids /\ ask = None,
         acts' \in 0..MaxActs, Tabs'
  PROVE  ControlInv'
<1>1. /\ calls' \in [Operators -> CallRecords]
      /\ calls'[o].stage = "sent" /\ calls'[o].kind = kind /\ calls'[o].change = i /\ calls'[o].ask = ask
      /\ \A p \in Operators \ {o} : calls'[p] = calls[p]
  BY DEF Arrive, ControlInv, Lines, CallRecords, Stages, Kinds
<1>2. Behind(o)'
  BY <1>1 DEF Behind
<1>3. UNCHANGED log /\ UNCHANGED store /\ Rest' /\ calls[o].stage # "tip"
  BY DEF Arrive, ControlInv, Rest, standing
<1> QED
  BY <1>1, <1>2, <1>3, RequestInv, RowsKept

LEMMA DirectInv ==
  ASSUME ControlInv, NEW o \in Operators, Direct(o), UNCHANGED tabs
  PROVE  ControlInv'
<1>1. acts' \in 0..MaxActs /\ Tabs'
  BY ActInv, TabsKept DEF Direct, ControlInv
<1> QED
  BY <1>1, ArriveInv DEF Direct

LEMMA CollectInv ==
  ASSUME ControlInv, NEW o \in Operators, Collect(o), Tabs'
  PROVE  ControlInv'
<1>1. Rest' /\ UNCHANGED log /\ calls[o].stage # "tip"
  BY RestKept DEF Collect, Handling, ControlInv
<1> QED
  BY <1>1, RequestToInv, RowsKept DEF Collect

LEMMA TabInv ==
  ASSUME Tabs, NEW o \in Browsers, NEW tab \in TabRecords, Tab(o, tab)
  PROVE  Tabs'
  BY DEF Tabs, Tab

LEMMA TabStepInv ==
  ASSUME ControlInv, NEW o \in Browsers, TabStep(o)
  PROVE  ControlInv'
<1>0. o \in Operators /\ Tabs /\ Rest
  BY DEF ControlInv
<1>a. /\ tabs[o] \in TabRecords
      /\ \A job \in Jobs : [tabs[o] EXCEPT !.job = job] \in TabRecords
      /\ \A job \in Jobs : [tabs[o] EXCEPT !.busy = TRUE, !.job = job] \in TabRecords
      /\ \A me \in BOOLEAN : [Idle(tabs[o]) EXCEPT !.me = me] \in TabRecords
      /\ \A me \in BOOLEAN, job \in Jobs : [tabs[o] EXCEPT !.me = me, !.job = job] \in TabRecords
      /\ \A me \in BOOLEAN : [tabs[o] EXCEPT !.token = FALSE, !.me = me] \in TabRecords
      /\ \A job \in Jobs : [tabs[o] EXCEPT !.token = TRUE, !.job = job] \in TabRecords
      /\ \A seen \in [Ids -> Statuses] : [Idle(tabs[o]) EXCEPT !.seen = seen] \in TabRecords
      /\ [tabs[o] EXCEPT !.late = FALSE] \in TabRecords
      /\ [tabs[o] EXCEPT !.token = TRUE, !.late = FALSE] \in TabRecords
  BY <1>0 DEF Tabs, TabRecords, Jobs, Idle
<1>b. \A pending \in BOOLEAN : /\ Panel(tabs[o].token, pending) \in TabRecords
                                 /\ Away(tabs[o].token, pending) \in TabRecords
  BY <1>a, PanelRecord DEF TabRecords
<1>c. tabs[o].late \in BOOLEAN
  BY <1>a DEF TabRecords
<1>1. CASE SignIn(o)
  <2>1. Tabs'
    BY <1>1, <1>0, <1>a, TabInv DEF SignIn, Jobs
  <2>2. Rest' /\ UNCHANGED <<store, calls, log>>
    BY <1>1, <1>0, ActInv DEF SignIn, TabOnly, Rest, standing
  <2> QED
    BY <2>1, <2>2, StoreKept
<1>2. CASE Registered(o)
  <2>1. Tabs'
    BY <1>2, <1>0, <1>a, TabInv DEF Registered, AfterPrompt, Jobs
  <2>2. Rest' /\ UNCHANGED <<store, calls, log>>
    BY <1>2, <1>0, RestKept DEF Registered, TabOnly
  <2> QED
    BY <2>1, <2>2, StoreKept
<1>3. CASE OperatorLogin(o)
  <2>1. Tabs'
    BY <1>3, <1>0, <1>a, TabInv DEF OperatorLogin, Jobs
  <2>2. Rest' /\ UNCHANGED <<store, calls, log>>
    BY <1>0, <1>3 DEF OperatorLogin, TabOnly, LogIn, Rest, standing
  <2> QED
    BY <2>1, <2>2, StoreKept
<1>4. CASE FetchMe(o)
  <2>1. Tabs'
    BY <1>4, <1>0, <1>a, TabInv DEF FetchMe, Jobs
  <2>2. Rest' /\ UNCHANGED <<store, calls, log>>
    BY <1>4, <1>0, RestKept DEF FetchMe, TabOnly
  <2> QED
    BY <2>1, <2>2, StoreKept
<1>5. CASE ListChanges(o)
  <2>1. [i \in Ids |-> changes[i].status] \in [Ids -> Statuses] /\ [i \in Ids |-> "none"] \in [Ids -> Statuses]
    BY DEF ControlInv, Rows, Statuses
  <2>2. Tabs'
    BY <1>5, <1>0, <1>a, <2>1, TabInv DEF ListChanges
  <2>3. Rest' /\ UNCHANGED <<store, calls, log>>
    BY <1>5, <1>0, RestKept DEF ListChanges, TabOnly
  <2> QED
    BY <2>2, <2>3, StoreKept
<1>6. CASE Press(o)
  <2>1. Tabs'
    BY <1>6, <1>0, <1>a, TabInv DEF Press, Jobs
  <2>2. acts' \in 0..MaxActs /\ tabs[o].token \in BOOLEAN
    BY <1>6, <1>0, <1>a, ActInv DEF Press, TabRecords
  <2>3. \A kind, i : Offered(o, kind, i) => kind \in Kinds \ {"propose"}
    BY DEF Offered, Kinds
  <2> QED
    BY <1>0, <1>6, <2>1, <2>2, <2>3, ArriveInv DEF Press, ConsoleAsks
<1>7. CASE Answered(o)
  <2>1. Tabs'
    BY <1>7, <1>0, <1>a, TabInv DEF Answered, Jobs
  <2> QED
    BY <1>0, <1>7, <2>1, CollectInv DEF Answered
<1>8. CASE SignOut(o)
  <2>1. PICK me \in {FALSE, tabs[o].me} : Tab(o, [tabs[o] EXCEPT !.token = FALSE, !.me = me])
    BY <1>8 DEF SignOut
  <2>0. tabs[o].me \in BOOLEAN
    BY <1>a DEF TabRecords
  <2>3. Tabs'
    BY <2>0, <2>1, <1>0, <1>a, TabInv
  <2>2. Rest' /\ UNCHANGED <<store, calls, log>>
    BY <1>8, <1>0, ActInv DEF SignOut, TabOnly, Rest, standing
  <2> QED
    BY <2>2, <2>3, StoreKept
<1>9. CASE Reload(o) \/ OpenPanel(o) \/ LeavePanel(o)
  <2>1. Tabs'
    BY <1>9, <1>0, <1>b, <1>c, TabInv DEF Reload, OpenPanel, LeavePanel
  <2>2. Rest' /\ UNCHANGED <<store, calls, log>>
    BY <1>9, <1>0, ActInv DEF Reload, OpenPanel, LeavePanel, TabOnly, Rest, standing
  <2> QED
    BY <2>1, <2>2, StoreKept
<1>10. CASE LateLogin(o)
  <2>1. Tabs'
    BY <1>10, <1>0, <1>a, TabInv DEF LateLogin
  <2>2. Rest' /\ UNCHANGED <<store, calls, log>>
    BY <1>0, <1>10 DEF LateLogin, TabOnly, LogIn, Rest, standing
  <2> QED
    BY <2>1, <2>2, StoreKept
<1> QED
  BY <1>1, <1>2, <1>3, <1>4, <1>5, <1>6, <1>7, <1>8, <1>9, <1>10 DEF TabStep

LEMMA AdministerInv ==
  ASSUME ControlInv, Administer, UNCHANGED tabs
  PROVE  ControlInv'
<1>1. acts' \in 0..MaxActs /\ Tabs'
  BY ActInv, TabsKept DEF Administer, PassDeadline, Suspend, SessionExpires, ControlInv
<1>2. ASSUME NEW i \in Ids, PassDeadline(i)
      PROVE  ControlInv'
  BY <1>1, <1>2 DEF PassDeadline, ControlInv, Rows, Lines, Behind, Approved, Lock, Rest, log, standing, CallRecords
<1>3. ASSUME NEW o \in Operators, Suspend(o) \/ SessionExpires(o)
      PROVE  ControlInv'
  BY <1>1, <1>3, StoreKept DEF Suspend, SessionExpires, ControlInv, Rest
<1> QED
  BY <1>2, <1>3 DEF Administer

-----------------------------------------------------------------------------
(* The invariant, and the promise *)

LEMMA NextInv == ControlInv /\ [ConsoleNext]_consoleVars => ControlInv'
<1> SUFFICES ASSUME ControlInv, [ConsoleNext]_consoleVars PROVE ControlInv'
  OBVIOUS
<1>1. CASE UNCHANGED consoleVars
  <2>1. UNCHANGED <<store, calls, log>> /\ Tabs' /\ Rest'
    BY <1>1, TabsKept, RestKept DEF consoleVars, controlVars, ControlInv
  <2> QED
    BY <2>1, StoreKept
<1>2. ASSUME NEW o \in Browsers, TabStep(o) PROVE ControlInv'
  BY <1>2, TabStepInv
<1>3. ASSUME NEW o \in Operators, Handle(o), UNCHANGED tabs PROVE ControlInv'
  BY <1>3, ProposeInv, DecideInv, ApplyReadInv, ApplyEffectInv, ApplyFailsInv, MarkAppliedInv, ReadTipInv,
     ChainInv, AuditFailsInv DEF Handle
<1>4. ASSUME NEW o \in Operators, Interrupt(o) \/ Direct(o), UNCHANGED tabs PROVE ControlInv'
  BY <1>4, InterruptInv, DirectInv
<1>5. ASSUME NEW o \in Operators, Dropped(o), UNCHANGED tabs PROVE ControlInv'
  BY <1>5, CollectInv, TabsKept DEF Dropped, ControlInv
<1>6. CASE Administer /\ UNCHANGED tabs
  BY <1>6, AdministerInv
<1> QED
  BY <1>1, <1>2, <1>3, <1>4, <1>5, <1>6 DEF ConsoleNext, ServiceStep

\* The rows of change_requests and what the service holds of its requests are always
\* well-formed: a decision has its author, and only the holder of the lock appends.
THEOREM ControlTyped == ConsoleSpec => []ControlTypeOK
<1>1. ControlInv => ControlTypeOK
  BY DEF ControlInv, ControlTypeOK, Rows, Lines, CallRecords, Lock, Rest
<1> QED
  BY InvInit, NextInv, <1>1, PTL DEF ConsoleSpec

\* The audit log is one chain, however requests append, fail or are interrupted.
THEOREM AuditChained == ConsoleSpec => []AuditIsOneChain
<1>1. ControlInv => AuditIsOneChain
  BY DEF ControlInv, Lock, AuditIsOneChain
<1> QED
  BY InvInit, NextInv, <1>1, PTL DEF ConsoleSpec

\* A step that leaves the store alone is none of the promise.
LEMMA StutterStep == UNCHANGED store => UNCHANGED Promised!promised
  BY DEF store, Promised!promised

LEMMA PromiseStep ==
  ASSUME ControlInv, NEW o \in Operators, Handle(o)
  PROVE  [Promised!Keep]_(Promised!promised)
<1> DEFINE i == calls[o].change
<1> USE DEF Promised!Keep, Promised!Untouched, Promised!Become
<1>1. ASSUME Propose(o) PROVE [Promised!Keep]_(Promised!promised)
  <2>1. CASE Denied(o)
    BY <2>1, StutterStep DEF Denied
  <2>2. ASSUME NEW j \in Ids, Fresh(j), UNCHANGED <<late, done, sends>>,
               changes' = [changes EXCEPT ![j] = [status |-> "pending", ask |-> calls[o].ask, maker |-> o,
                                                  checker |-> None]]
        PROVE  Promised!Keep
    <3>1. calls[o].ask \in Asks
      BY <1>1 DEF Propose, ControlInv, Lines, Behind
    <3>2. Promised!Proposed(j, o, calls[o].ask)
      BY <2>2 DEF Promised!Proposed, Fresh
    <3> QED
      BY <3>1, <3>2
  <2> QED
    BY <1>1, <2>1, <2>2 DEF Propose
<1>2. ASSUME Decide(o) PROVE [Promised!Keep]_(Promised!promised)
  <2>1. i \in Ids /\ calls[o].kind \in {"approved", "rejected"}
    BY <1>2 DEF Decide, ControlInv, Lines, Behind
  <2>2. ASSUME DecideRow(o), UNCHANGED <<late, done, sends>> PROVE [Promised!Keep]_(Promised!promised)
    <3>1. CASE i \in late
      <4>1. Promised!Expired(i)
        BY <2>1, <2>2, <3>1 DEF DecideRow, Promised!Expired, ControlInv, Rows
      <4> QED
        BY <2>1, <4>1
    <3>2. CASE i \notin late /\ o # changes[i].maker
      <4>1. Promised!Decided(i, o, calls[o].kind)
        BY <2>1, <2>2, <3>2 DEF DecideRow, Promised!Decided
      <4> QED
        BY <2>1, <4>1
    <3>3. CASE i \notin late /\ o = changes[i].maker
      BY <2>2, <3>3 DEF DecideRow, Promised!promised
    <3> QED
      BY <3>1, <3>2, <3>3
  <2> QED
    BY <1>2, <2>2, StutterStep DEF Decide, Denied
<1>3. ASSUME ApplyEffect(o) PROVE [Promised!Keep]_(Promised!promised)
  <2>1. Approved(i)
    BY <1>3 DEF ApplyEffect, ControlInv, Lines, Behind
  <2>2. Promised!CarriedOut(i)
    BY <1>3, <2>1 DEF ApplyEffect, Approved, Promised!CarriedOut
  <2> QED
    BY <2>1, <2>2 DEF Approved
<1>4. ASSUME MarkApplied(o) PROVE [Promised!Keep]_(Promised!promised)
  <2>1. i \in Ids /\ i \in done
    BY <1>4 DEF MarkApplied, ControlInv, Lines, Behind, Approved
  <2>2. CASE UNCHANGED changes
    BY <1>4, <2>2 DEF MarkApplied, Promised!promised
  <2>3. CASE changes[i].status = "approved" /\ changes' = [changes EXCEPT ![i].status = "applied"]
    <3>1. Promised!Recorded(i)
      BY <1>4, <2>1, <2>3 DEF MarkApplied, Promised!Recorded, ControlInv, Rows
    <3> QED
      BY <2>1, <3>1
  <2> QED
    BY <1>4, <2>2, <2>3 DEF MarkApplied
<1>5. CASE ApplyRead(o) \/ ApplyFails(o) \/ ReadTip(o) \/ Chain(o) \/ AuditFails(o)
  BY <1>5, StutterStep DEF ApplyRead, ApplyFails, ReadTip, Chain, AuditFails, Appending
<1> QED
  BY <1>1, <1>2, <1>3, <1>4, <1>5 DEF Handle

LEMMA ElseStep ==
  ASSUME ControlInv, [ConsoleNext]_consoleVars, ~ \E o \in Operators : Handle(o)
  PROVE  UNCHANGED Promised!promised
<1>1. CASE \E o \in Browsers : TabStep(o)
  BY <1>1, StutterStep DEF TabStep, SignIn, Registered, OperatorLogin, LogIn, FetchMe, ListChanges, Press,
     Arrive, Answered, Collect, SignOut, Reload, OpenPanel, LeavePanel, LateLogin, TabOnly
<1>2. CASE \E o \in Operators : Interrupt(o) \/ Direct(o) \/ Dropped(o)
  BY <1>2, StutterStep DEF Interrupt, Direct, Arrive, Dropped, Collect
<1>3. CASE Administer
  BY <1>3 DEF Administer, PassDeadline, Suspend, SessionExpires, store, Promised!promised
<1>4. CASE UNCHANGED consoleVars
  BY <1>4, StutterStep DEF consoleVars, controlVars
<1> QED
  BY <1>1, <1>2, <1>3, <1>4 DEF ConsoleNext, ServiceStep

\* Whatever operators, tabs, failures and concurrent requests do, a change is decided
\* by another operator than its maker, carried out only when approved, and recorded as
\* applied only when carried out, and the switch of payments moves in no other way.
THEOREM ControlPromised == ConsoleSpec => KeepsChangeControl
<1>1. ConsoleInit => Promised!Promise
  BY DEF ConsoleInit, ControlInit, NoChange, Promised!Promise, Promised!NoChange
<1>2. ControlInv /\ [ConsoleNext]_consoleVars => [Promised!Keep]_(Promised!promised)
  BY PromiseStep, ElseStep
<1> QED
  BY InvInit, NextInv, <1>1, <1>2, PTL DEF ConsoleSpec, KeepsChangeControl, Promised!ChangeControlSpec
-----------------------------------------------------------------------------
(* The kill switch at the payments API *)

VARIABLE api

Kill == INSTANCE KillSwitch WITH change <- changes, Switch <- AskedOfSwitch

\* A client that was told to stop has no answer under way that says otherwise, and what it
\* knows, if it knows anything, is that stop.
ToldInv == /\ Kill!KillTypeOK
           /\ api.told => api.poll # "run" /\ ~(api.known /\ api.enabled)

LEMMA RefreshKeepsTold == ASSUME ToldInv, Kill!Refresh PROVE ToldInv'
<1> USE DEF ToldInv, Kill!KillTypeOK, Kill!Answers
<1>1. api \in [known: BOOLEAN, enabled: BOOLEAN, poll: {"stop", "run", "none", "failed"}, told: BOOLEAN]
  OBVIOUS
<1>2. CASE Kill!ServeFlags
  <2>1. CASE sends
    BY <1>1, <1>2, <2>1 DEF Kill!ServeFlags
  <2>2. CASE ~sends
    BY <1>1, <1>2, <2>2 DEF Kill!ServeFlags
  <2> QED
    BY <2>1, <2>2
<1>3. CASE Kill!TakeFlags
  <2>1. CASE api.poll = "run"
    BY <1>1, <1>3, <2>1 DEF Kill!TakeFlags
  <2>2. CASE api.poll = "stop"
    BY <1>1, <1>3, <2>2 DEF Kill!TakeFlags
  <2> QED
    BY <1>3, <2>1, <2>2 DEF Kill!TakeFlags
<1>4. CASE Kill!PollFails
  BY <1>1, <1>4 DEF Kill!PollFails
<1> QED
  BY <1>2, <1>3, <1>4 DEF Kill!Refresh

\* Once the payments API has read that payments are stopped it permits none, whatever polls
\* fail or are late and however often it restarts, until it is answered that they may go on.
THEOREM KillStopIsKept == Kill!KillSpec => []Kill!StopIsKept
<1>1. Kill!KillInit => ToldInv
  BY DEF Kill!KillInit, Kill!Unread, ToldInv, Kill!KillTypeOK, Kill!Answers
<1>2. ASSUME ToldInv, Kill!ApiRestarts PROVE ToldInv'
  BY <1>2 DEF ToldInv, Kill!KillTypeOK, Kill!Answers, Kill!ApiRestarts, Kill!Unread
<1>3. ASSUME ToldInv, UNCHANGED api PROVE ToldInv'
  BY <1>3 DEF ToldInv, Kill!KillTypeOK
<1>4. ToldInv /\ [Kill!KillNext]_(Kill!killVars) => ToldInv'
  BY <1>2, <1>3, RefreshKeepsTold DEF Kill!KillNext, Kill!killVars
<1>5. ToldInv => Kill!StopIsKept
  BY DEF ToldInv, Kill!StopIsKept, Kill!SendsAllowed
<1> QED
  BY <1>1, <1>4, <1>5, PTL DEF Kill!KillSpec
=============================================================================
