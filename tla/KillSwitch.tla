------------------------------ MODULE KillSwitch ------------------------------
(***************************************************************************)
(* The flag client of the payments API, which reads the kill switch from   *)
(* the control plane every ten seconds, one poll after the other.  A poll  *)
(* is served by the control plane, and its answer is taken later or never: *)
(* the switch may have moved meanwhile, and the API may have restarted and *)
(* forgotten what it knew.  The switch itself moves as ChangeControl       *)
(* promises, which is what ControlPlane is shown to keep.  How old a value *)
(* is makes no difference to what it permits, so no age is kept.           *)
(***************************************************************************)
EXTENDS ChangeControl

VARIABLE api   \* what the client has read, its poll, and what it has been told

killVars == <<promised, api>>

Answers == {"stop", "run"}

\* Whether a flag has been read and which; the poll: its answer if it is under way, or how
\* the last one ended.  `told' is history: a stop has been read, and no answer given since
\* says otherwise.
Unread == [known |-> FALSE, enabled |-> FALSE, poll |-> "none", told |-> FALSE]

\* Fault: what was never read counts as permitted.
SendsAllowedUnknown == ~api.known \/ api.enabled

\* A value that is too old is reported, and permits what it permitted.
SendsAllowed == api.known /\ api.enabled

\* The control plane answers with the flag as it is.
ServeFlags ==
  /\ api.poll \notin Answers
  /\ api' = [api EXCEPT !.poll = IF sends THEN "run" ELSE "stop", !.told = @ /\ ~sends]

\* Fault: what is known already is not replaced.
TakeFlagsOnce ==
  /\ api.poll \in Answers
  /\ api' = [known   |-> TRUE,
             enabled |-> IF api.known THEN api.enabled ELSE api.poll = "run",
             poll    |-> "none",
             told    |-> api.told \/ api.poll = "stop"]

TakeFlags ==
  /\ api.poll \in Answers
  /\ api' = [known   |-> TRUE,
             enabled |-> api.poll = "run",
             poll    |-> "none",
             told    |-> api.told \/ api.poll = "stop"]

\* No answer, a refusal, or five seconds have passed: what was read before stays.
PollFails == api' = [api EXCEPT !.poll = "failed"]

\* Whatever becomes of a poll.
Refresh == (ServeFlags \/ TakeFlags \/ PollFails) /\ UNCHANGED promised

ApiRestarts == api' = [Unread EXCEPT !.told = api.told] /\ UNCHANGED promised

KillInit == Promise /\ api = Unread

KillNext == \/ Keep /\ UNCHANGED api
            \/ Refresh
            \/ ApiRestarts

\* The ticker guarantees that there is always another attempt, and nothing of its outcome.
KillSpec == KillInit /\ [][KillNext]_killVars /\ WF_killVars(Refresh)

-----------------------------------------------------------------------------
(* Properties *)

KillTypeOK == api \in [known: BOOLEAN, enabled: BOOLEAN, poll: Answers \cup {"none", "failed"},
                       told: BOOLEAN]

\* Stopped stays stopped: once the payments API has read a stop it permits no payment,
\* through failed polls, answers under way and restarts that forget what it knew, until
\* the control plane, its switch lifted by an approved change, has answered otherwise.
StopIsKept == api.told => ~SendsAllowed

\* A pressed kill switch reaches the payments: in the end the API refuses them, or the
\* switch has been lifted, or a poll fails, which leaves the API with the flag it had.
\* Nothing better holds: while the control plane cannot be read, payments go on.
StopReachesPayments == (~sends) ~> (~SendsAllowed \/ sends \/ api.poll = "failed")
=============================================================================
