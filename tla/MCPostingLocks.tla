--------------------------- MODULE MCPostingLocks ---------------------------
(***************************************************************************)
(* Small instances of PostingLocks: a reserve and a direct post that use   *)
(* the same idempotency key, a post of a pending entry, a release of it,   *)
(* and a reversal.                                                         *)
(***************************************************************************)
EXTENDS PostingLocks, TLC

CONSTANTS reserve, direct, post, release, reverse, pending, posted, key, reversalKey

AllEntryLocks ==
  (reserve :> <<key>>) @@ (direct :> <<key>>) @@ (post :> <<pending>>) @@
  (release :> <<pending>>) @@ (reverse :> <<posted, reversalKey>>)
AllRows ==
  (reserve :> {1, 3}) @@ (direct :> {2, 3}) @@ (post :> {1, 2}) @@
  (release :> {1, 2}) @@ (reverse :> {2, 3})

MCEntryLocks == [p \in Posting |-> AllEntryLocks[p]]
MCRowsOf == [p \in Posting |-> AllRows[p]]
=============================================================================
