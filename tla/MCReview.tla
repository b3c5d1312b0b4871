-------------------------------- MODULE MCReview -------------------------------
(* An officer without a console, an analyst with one, and a customer of the first tier. *)
EXTENDS CaseReview, TLC

CONSTANTS P1, P2, Payee, D1, Officer, Analyst, Basic, Phone

MCPayments == {P1, P2}
MCAmounts == {2, 3}
MCRecipients == {Payee}
MCDocuments == {D1}
MCLimits(day, single, fresh, needs) == [day |-> day, single |-> single, fresh |-> fresh, evidence |-> needs]
MCTiers == Unverified :> MCLimits(0, 0, 0, {}) @@ Basic :> MCLimits(3, 3, 2, {Phone})
MCOperators == {Officer, Analyst}
MCOfficers == {Officer}
MCAnalysts == {Analyst}
MCConsoles == {Analyst}
MCSymmetry == Permutations(MCPayments)
=============================================================================
