------------------------------ MODULE MCOutbox ------------------------------
(***************************************************************************)
(* An instance of Outbox for TLC: three rows, the second of them poison,   *)
(* two replicas and batches of two.                                        *)
(***************************************************************************)
EXTENDS Outbox

MCRow == 1 .. 3
MCPoison == {2}

=============================================================================
