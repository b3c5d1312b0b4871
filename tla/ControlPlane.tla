----------------------------- MODULE ControlPlane -----------------------------
(***************************************************************************)
(* The control plane: the requests of operators to propose, decide and     *)
(* apply a change, each handled in several steps of the service, its       *)
(* database and the service a change belongs to; and the audit chain.  A   *)
(* request may be interrupted after any step: its client goes away, which  *)
(* cancels it, or the service restarts.  An operator has one request under *)
(* way at a time, and one session token.  Read-only requests leave nothing *)
(* but an entry in the audit log when they are denied, and are left out;   *)
(* for the reads of the switch see KillSwitch.                             *)
(***************************************************************************)
EXTENDS Naturals, Sequences

CONSTANTS
  None,         \* model value: nobody, nothing
  Operators,
  Roles,        \* the roles of each operator in the control plane's database
  Asks,         \* the changes that are asked for, see ActionNames
  MaxChanges,   \* model bound: rows in change_requests
  MaxActs       \* model bound: what operators and administrators do in all

ActionNames == {"wallet.freeze", "wallet.unfreeze", "kill_switch", "resume_payments",
                "features.edit", "provider.approve", "mandate.change"}

ASSUME ControlAssumption ==
  /\ MaxChanges \in Nat /\ MaxActs \in Nat
  /\ Asks \subseteq [action : ActionNames, payload : BOOLEAN \cup {None}]
  /\ None \notin Operators

VARIABLES
  changes,      \* change_requests
  late,         \* the changes past their deadline
  done,         \* the changes with a row in the flag's history or the ledger's evidence
  sends,        \* the flag payments.sends_enabled
  calls,        \* the request of each operator that is under way
  intact,       \* what VerifyChain finds: every entry of audit_log is linked to the one before
  auditing,     \* who holds the advisory lock of the log
  live,         \* the operators whose session token verifies
  suspended,    \* the operators who are suspended
  acts

store       == <<changes, late, done, sends>>
log         == <<intact, auditing>>
standing    == <<live, suspended>>
controlVars == <<store, calls, log, standing, acts>>

Ids == 1..MaxChanges

Act == acts < MaxActs /\ acts' = acts + 1

-----------------------------------------------------------------------------
(* Who may do what *)

\* The permissions the modelled requests ask for.
Proposals == {"wallet.freeze", "wallet.unfreeze", "kill_switch", "features.edit",
              "provider.approve", "mandate.change"}

Permissions(role) ==
  CASE role = "ops_manager"        -> Proposals
    [] role = "compliance_officer" -> {"wallet.freeze", "wallet.unfreeze"}
    [] role = "approver"           -> {"change.approve"}
    [] OTHER                       -> {}

Can(o, permission) == \E role \in Roles[o] : permission \in Permissions(role)

PermissionFor(action) == IF action = "resume_payments" THEN "kill_switch" ELSE action

\* The session verifies and the operator is active in the database, at this moment.
Authenticated(o) == calls[o].token /\ o \in live /\ o \notin suspended

Allowed(o, permission) == Authenticated(o) /\ Can(o, permission)

-----------------------------------------------------------------------------
(* Requests *)

Kinds  == {"propose", "approved", "rejected", "apply"}
Stages == {"idle", "sent", "read", "effected", "audit", "tip", "answered", "lost"}

\* What a request still needs; `tip' tells whether the end of the log it read is still
\* the end.
Call(stage) == [stage |-> stage, kind |-> None, change |-> 0, ask |-> None, token |-> FALSE, tip |-> FALSE]

To(o, stage) == calls' = [calls EXCEPT ![o] = Call(stage)]

\* The change is worked on.
On(o, stage) == calls' = [calls EXCEPT ![o] = [Call(stage) EXCEPT !.change = calls[o].change]]

Arrive(o, kind, i, ask, token) ==
  /\ calls[o].stage = "idle"
  /\ calls' = [calls EXCEPT ![o] = [stage |-> "sent", kind |-> kind, change |-> i, ask |-> ask,
                                    token |-> token, tip |-> FALSE]]
  /\ UNCHANGED <<store, log, standing>>

Handling == UNCHANGED <<log, standing, acts>>

Fresh(i) == changes[i].status = "none" /\ \A j \in Ids : j < i => changes[j].status # "none"

\* Refused for want of a permission or a reason: an entry in the log, nothing else.
Denied(o) == To(o, "audit") /\ UNCHANGED store

Propose(o) ==
  /\ calls[o].stage = "sent" /\ calls[o].kind = "propose"
  /\ \/ /\ Allowed(o, PermissionFor(calls[o].ask.action))
        /\ \E i \in Ids :
             /\ Fresh(i)
             /\ changes' = [changes EXCEPT ![i] = [status |-> "pending", ask |-> calls[o].ask, maker |-> o,
                                                   checker |-> None]]
        /\ To(o, "audit") /\ UNCHANGED <<late, done, sends>>
     \/ Denied(o)
  /\ Handling

\* Fault: the operator who proposed is not told apart.
DecideAlone(o) ==
  LET i == calls[o].change IN
  /\ changes[i].status = "pending" /\ i \notin late
  /\ changes' = [changes EXCEPT ![i].status = calls[o].kind, ![i].checker = o]
  /\ To(o, "audit")

\* The row is locked while it is read and decided.
DecideRow(o) ==
  LET i == calls[o].change IN
  /\ changes[i].status = "pending"
  /\ \/ /\ i \in late
        /\ changes' = [changes EXCEPT ![i].status = "expired"]
        /\ To(o, "answered")
     \/ /\ i \notin late /\ o # changes[i].maker
        /\ changes' = [changes EXCEPT ![i].status = calls[o].kind, ![i].checker = o]
        /\ To(o, "audit")
     \/ /\ i \notin late /\ o = changes[i].maker
        /\ To(o, "audit") /\ UNCHANGED changes

\* A change that is no longer pending leaves no entry in the log.
Decide(o) ==
  /\ calls[o].stage = "sent" /\ calls[o].kind \in {"approved", "rejected"}
  /\ \/ Allowed(o, "change.approve") /\ DecideRow(o) /\ UNCHANGED <<late, done, sends>>
     \/ /\ Allowed(o, "change.approve") /\ changes[calls[o].change].status # "pending"
        /\ To(o, "answered") /\ UNCHANGED store
     \/ ~Allowed(o, "change.approve") /\ Denied(o)
  /\ Handling

\* The row is read here once, and not again until the change is marked.
ApplyRead(o) ==
  LET i == calls[o].change IN
  /\ calls[o].stage = "sent" /\ calls[o].kind = "apply"
  /\ \/ changes[i].status = "none" /\ To(o, "answered")
     \/ changes[i].status = "approved" /\ Allowed(o, PermissionFor(changes[i].ask.action)) /\ On(o, "read")
     \/ changes[i].status \notin {"none", "approved"} /\ To(o, "audit")
     \/ changes[i].status # "none" /\ ~Allowed(o, PermissionFor(changes[i].ask.action)) /\ To(o, "audit")
  /\ UNCHANGED store /\ Handling

\* Identity mints every operator's session with one role; the ledger asks it for others.
SessionRoles == {"operator"}
FreezeRoles  == {"ops_manager", "compliance_officer"}

Effective(ask) ==
  \/ ask.action \in {"kill_switch", "resume_payments"}
  \/ ask.action = "features.edit" /\ ask.payload # None
  \/ ask.action \in {"wallet.freeze", "wallet.unfreeze"} /\ SessionRoles \cap FreezeRoles # {}

\* What a change asks of the switch.
AskedOfSwitch(ask) ==
  CASE ask.action = "kill_switch"     -> FALSE
    [] ask.action = "resume_payments" -> TRUE
    [] ask.action = "features.edit"   -> ask.payload
    [] OTHER                          -> None

\* Before the change is recorded as applied.  Its result may be lost.
ApplyEffect(o) ==
  LET i == calls[o].change  asked == AskedOfSwitch(changes[i].ask) IN
  /\ calls[o].stage = "read" /\ Effective(changes[i].ask)
  /\ done' = done \cup {i}
  /\ sends' = IF asked = None THEN sends ELSE asked
  /\ On(o, "effected") \/ To(o, "audit")
  /\ UNCHANGED <<changes, late>> /\ Handling

\* Refused by its owner, without an owner, or the owner is away.
ApplyFails(o) ==
  /\ calls[o].stage = "read"
  /\ To(o, "audit")
  /\ UNCHANGED store /\ Handling

\* Only an approved row is updated; otherwise the request ends here, unlogged.
MarkApplied(o) ==
  LET i == calls[o].change IN
  /\ calls[o].stage = "effected"
  /\ \/ /\ changes[i].status = "approved"
        /\ changes' = [changes EXCEPT ![i].status = "applied"]
        /\ To(o, "audit")
     \/ To(o, "answered") /\ UNCHANGED changes
  /\ UNCHANGED <<late, done, sends>> /\ Handling

-----------------------------------------------------------------------------
(* The audit log *)

Appending == UNCHANGED <<store, standing, acts>>

\* Fault: the end of the chain is read before the lock is held.
ReadTipUnlocked(o) ==
  /\ calls[o].stage = "audit"
  /\ auditing' = o
  /\ calls' = [calls EXCEPT ![o].stage = "tip", ![o].tip = TRUE]
  /\ UNCHANGED intact /\ Appending

\* The lock, then the end of the chain.
ReadTip(o) ==
  /\ calls[o].stage = "audit" /\ auditing = None
  /\ auditing' = o
  /\ calls' = [calls EXCEPT ![o].stage = "tip", ![o].tip = TRUE]
  /\ UNCHANGED intact /\ Appending

\* The new entry is the end of the log for every later reader, and for no earlier one.
Chain(o) ==
  /\ calls[o].stage = "tip"
  /\ intact' = (intact /\ calls[o].tip)
  /\ auditing' = None
  /\ calls' = [p \in Operators |-> IF p = o THEN Call("answered") ELSE [calls[p] EXCEPT !.tip = FALSE]]
  /\ Appending

\* Fault: the transaction is not rolled back.
KeptLock(o) == auditing

Released(o) == IF auditing = o THEN None ELSE auditing

\* A failed append is written to the service's log; the request is answered all the same.
AuditFails(o) ==
  /\ calls[o].stage \in {"audit", "tip"}
  /\ auditing' = Released(o)
  /\ To(o, "answered")
  /\ UNCHANGED intact /\ Appending

Interrupt(o) ==
  /\ calls[o].stage \notin {"idle", "answered", "lost"} /\ Act
  /\ auditing' = Released(o)
  /\ To(o, "lost")
  /\ UNCHANGED <<intact, store, standing>>

\* The client has its answer, or knows that there is none.
Collect(o) ==
  /\ calls[o].stage \in {"answered", "lost"}
  /\ To(o, "idle")
  /\ UNCHANGED store /\ Handling

-----------------------------------------------------------------------------
(* Time and administration *)

PassDeadline(i) ==
  /\ changes[i].status = "pending" /\ i \notin late /\ Act
  /\ late' = late \cup {i}
  /\ UNCHANGED <<changes, done, sends, calls, log, standing>>

Suspend(o) ==
  /\ o \notin suspended /\ Act
  /\ suspended' = suspended \cup {o}
  /\ UNCHANGED <<store, calls, log, live>>

LogIn(o) ==
  /\ live' = live \cup {o}
  /\ UNCHANGED <<store, calls, log, suspended>>

SessionExpires(o) ==
  /\ o \in live /\ Act
  /\ live' = live \ {o}
  /\ UNCHANGED <<store, calls, log, suspended>>

-----------------------------------------------------------------------------

NoChange == [status |-> "none", ask |-> None, maker |-> None, checker |-> None]

ControlInit ==
  /\ changes = [i \in Ids |-> NoChange] /\ late = {} /\ done = {} /\ sends = TRUE
  /\ calls = [o \in Operators |-> Call("idle")]
  /\ intact = TRUE /\ auditing = None
  /\ live = Operators /\ suspended = {}
  /\ acts = 0

Handle(o) == \/ Propose(o) \/ Decide(o) \/ ApplyRead(o) \/ ApplyEffect(o) \/ ApplyFails(o)
             \/ MarkApplied(o) \/ ReadTip(o) \/ Chain(o) \/ AuditFails(o)

Administer == \/ \E i \in Ids : PassDeadline(i)
              \/ \E o \in Operators : Suspend(o) \/ SessionExpires(o)

-----------------------------------------------------------------------------
(* Properties *)

Statuses == {"none", "pending", "approved", "rejected", "applied", "expired"}

ControlTypeOK ==
  /\ \A i \in Ids :
       /\ changes[i].status \in Statuses
       /\ (changes[i].checker # None) <=> changes[i].status \in {"approved", "rejected", "applied"}
       /\ (changes[i].maker # None) <=> changes[i].status # "none"
  /\ late \subseteq Ids /\ done \subseteq Ids /\ sends \in BOOLEAN
  /\ \A o \in Operators : calls[o].stage \in Stages /\ (calls[o].stage = "tip" <=> auditing = o)
  /\ live \subseteq Operators /\ suspended \subseteq Operators
  /\ acts \in 0..MaxActs

\* The detailed requests, with stale reads, concurrent appliers, lost results and
\* interruptions, keep the promise of ChangeControl: four eyes, no effect before
\* approval, nothing recorded as applied without its effect, and a switch that moves
\* in no other way.
Promised == INSTANCE ChangeControl WITH change <- changes, Switch <- AskedOfSwitch

KeepsChangeControl == Promised!ChangeControlSpec

\* The audit log is one chain, whoever appends together and whichever append fails or
\* is interrupted while it holds the lock.
AuditIsOneChain == intact
=============================================================================
