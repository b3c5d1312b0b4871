------------------------------- MODULE MCConsole -------------------------------
(* The two seeded operators of the sandbox: both manage operations, one approves. *)
EXTENDS Console

CONSTANTS Maker, Checker

MCOperators == {Maker, Checker}
MCBrowsers == {Checker}
MCRoles == [o \in MCOperators |-> IF o = Checker THEN {"ops_manager", "approver"} ELSE {"ops_manager"}]
Ask(action, payload) == [action |-> action, payload |-> payload]
MCAsks == {Ask("kill_switch", None), Ask("resume_payments", None)}
=============================================================================
