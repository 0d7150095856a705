----------------------------- MODULE MCEndOfDay -----------------------------
(***************************************************************************)
(* A small instance of EndOfDay: two replicas with pools of two sessions   *)
(* and of one, and the shape of the step catalog.                          *)
(***************************************************************************)
EXTENDS EndOfDay, TLC

CONSTANTS r1, r2, p1, p2, s1, s2, s3, accrual, balances, custom

TwoProcesses == (r1 :> p1) @@ (r2 :> p2)
TwoPools == (p1 :> {s1, s2}) @@ (p2 :> {s3})

\* Two steps of the catalog, and a row of the table that is none of it: it
\* sorts first, depends on the accrual, and is neither mandatory nor to be
\* retried nor to stop the others.
MCStepsOf == <<{accrual, balances}, {accrual, custom}>>
MCDependsOn == (accrual :> {}) @@ (balances :> {accrual}) @@ (custom :> {accrual})
MCSequence == (accrual :> 10) @@ (balances :> 30) @@ (custom :> 5)
Catalog == {accrual, balances}
=============================================================================
