--------------------------- MODULE MCTrialBalance ---------------------------
(***************************************************************************)
(* Small instances of TrialBalance: entries and calls are interchangeable. *)
(***************************************************************************)
EXTENDS TrialBalance, TLC

Interchangeable == Permutations(Entry) \cup Permutations(Rebuild)
=============================================================================
