----------------------------- MODULE ChangeControl -----------------------------
(***************************************************************************)
(* What the control plane promises about a sensitive change: it is         *)
(* proposed by one operator, approved by another, and only then touches    *)
(* anything; it is recorded as applied only when it has.  The switch that  *)
(* stops payments moves in no other way.                                   *)
(***************************************************************************)
CONSTANTS
  None, Ids, Operators,
  Asks,         \* the changes that can be asked for
  Switch(_)     \* what such a change makes of the switch: TRUE, FALSE or None

VARIABLES
  change,   \* what is known of each change: status, what is asked, maker, checker
  done,     \* the changes that have been carried out
  sends     \* payments may be sent

promised == <<change, done, sends>>

NoChange == [status |-> "none", ask |-> None, maker |-> None, checker |-> None]

Promise ==
  /\ change = [i \in Ids |-> NoChange]
  /\ done = {}
  /\ sends = TRUE

Become(i, status, checker) == change' = [change EXCEPT ![i].status = status, ![i].checker = checker]

Untouched == UNCHANGED <<done, sends>>

Proposed(i, o, ask) ==
  /\ change[i].status = "none"
  /\ change' = [change EXCEPT ![i] = [status |-> "pending", ask |-> ask, maker |-> o, checker |-> None]]
  /\ Untouched

\* Four eyes.
Decided(i, o, status) ==
  /\ change[i].status = "pending"
  /\ o # change[i].maker
  /\ Become(i, status, o)
  /\ Untouched

Expired(i) ==
  /\ change[i].status = "pending"
  /\ Become(i, "expired", None)
  /\ Untouched

\* More than once, if two operators apply together or a result is lost.
CarriedOut(i) ==
  /\ change[i].status \in {"approved", "applied"}
  /\ done' = done \cup {i}
  /\ sends' = LET asked == Switch(change[i].ask) IN IF asked = None THEN sends ELSE asked
  /\ UNCHANGED change

Recorded(i) ==
  /\ change[i].status = "approved" /\ i \in done
  /\ Become(i, "applied", change[i].checker)
  /\ Untouched

Keep ==
  \E i \in Ids :
    \/ \E o \in Operators, ask \in Asks : Proposed(i, o, ask)
    \/ \E o \in Operators, status \in {"approved", "rejected"} : Decided(i, o, status)
    \/ Expired(i) \/ CarriedOut(i) \/ Recorded(i)

ChangeControlSpec == Promise /\ [][Keep]_promised
=============================================================================
