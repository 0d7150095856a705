------------------------------- MODULE Outbox -------------------------------
(***************************************************************************)
(* The transactional outbox relay every service runs                       *)
(* (libs/go/arda-events/outbox/outbox.go): replicas claim pending rows     *)
(* with FOR UPDATE SKIP LOCKED, publish each to JetStream with the row id  *)
(* as message id, and mark it published in the claiming transaction.       *)
(*                                                                         *)
(* A row is a number, its place in the order (created_at, id).  Attempt    *)
(* counters and error texts are left out: no code reads them back.         *)
(***************************************************************************)
EXTENDS Integers, FiniteSets

CONSTANTS
  Row,        \* outbox rows
  Replica,    \* relay replicas on one table
  BatchSize,  \* WithBatchSize
  Poison,     \* rows JetStream always refuses
  MaxFaults   \* bound: failures of publishing, committing or the process

ASSUME RowAssumption == Row \subseteq Nat /\ Poison \subseteq Row
ASSUME BatchSizeAssumption == BatchSize \in Nat \ {0}
ASSUME MaxFaultsAssumption == MaxFaults \in Nat

VARIABLES
  table,    \* committed state of each row: absent, pending or published
  claimed,  \* rows locked by each replica's open transaction
  handled,  \* those of them it has tried to publish
  marked,   \* those whose published_at its transaction has set
  copies,   \* messages stored in the stream for each row
  window,   \* message ids in JetStream's duplicate window
  faults    \* history: faults so far

relayVars == <<table, claimed, handled, marked, copies, window, faults>>
transaction == <<claimed, handled, marked>>
stream == <<copies, window>>

Locked == UNION {claimed[r] : r \in Replica}

\* Mutant: no SKIP LOCKED and no lock.
ClaimableUnlocked == {row \in Row : table[row] = "pending"}

\* WHERE published_at IS NULL ... FOR UPDATE SKIP LOCKED
Claimable == {row \in Row : table[row] = "pending" /\ row \notin Locked}

\* Mutant: a batch of one less.
IsBatchShort(S, available) ==
  /\ S \subseteq available
  /\ \A x \in S, y \in available \ S : x < y
  /\ \/ Cardinality(S) = BatchSize - 1
     \/ S = available /\ Cardinality(S) < BatchSize - 1

\* ORDER BY created_at, id LIMIT BatchSize
IsBatch(S, available) ==
  /\ S \subseteq available
  /\ \A x \in S, y \in available \ S : x < y
  /\ \/ Cardinality(S) = BatchSize
     \/ S = available /\ Cardinality(S) < BatchSize

\* The row PublishOnce comes to next.
IsNext(r, row) ==
  /\ row \in claimed[r] \ handled[r]
  /\ \A other \in claimed[r] \ handled[r] : row <= other

---------------------------------------------------------------------------

RelayInit ==
  /\ table = [row \in Row |-> "absent"]
  /\ claimed = [r \in Replica |-> {}]
  /\ handled = [r \in Replica |-> {}]
  /\ marked = [r \in Replica |-> {}]
  /\ copies = [row \in Row |-> 0]
  /\ window = {}
  /\ faults = 0

\* A domain transaction commits with its event row.  created_at is when it
\* began, so rows may become visible out of order.
InsertOutbox(row) ==
  /\ table[row] = "absent"
  /\ table' = [table EXCEPT ![row] = "pending"]
  /\ UNCHANGED <<transaction, stream, faults>>

Claim(r) ==
  /\ claimed[r] = {}
  /\ \E S \in SUBSET Claimable :
       /\ S # {}
       /\ IsBatch(S, Claimable)
       /\ claimed' = [claimed EXCEPT ![r] = S]
  /\ UNCHANGED <<table, handled, marked, stream, faults>>

\* JetStream stores a message unless its id is in the duplicate window.
Store(row) ==
  /\ copies' = [copies EXCEPT ![row] = IF row \in window THEN @ ELSE @ + 1]
  /\ window' = window \cup {row}

\* Mutant: publishedSQL is forgotten.
MarkForgotten(r, row) ==
  /\ handled' = [handled EXCEPT ![r] = @ \cup {row}]
  /\ UNCHANGED marked

\* publishedSQL, inside the claiming transaction.
Mark(r, row) ==
  /\ handled' = [handled EXCEPT ![r] = @ \cup {row}]
  /\ marked' = [marked EXCEPT ![r] = @ \cup {row}]

\* failureSQL: the row stays pending.
RecordFailure(r, row) ==
  /\ handled' = [handled EXCEPT ![r] = @ \cup {row}]
  /\ UNCHANGED marked

\* PublishMsg is acknowledged and publishedSQL runs in the transaction.
Publish(r) ==
  /\ \E row \in Row \ Poison :
       /\ IsNext(r, row)
       /\ Store(row)
       /\ Mark(r, row)
  /\ UNCHANGED <<table, claimed, faults>>

\* JetStream refuses a row it can never store (its subject or its size).
Refused(r) ==
  /\ \E row \in Poison : IsNext(r, row) /\ RecordFailure(r, row)
  /\ UNCHANGED <<table, claimed, stream, faults>>

\* PublishMsg fails; the message may have been stored all the same.
PublishFails(r) ==
  /\ faults < MaxFaults
  /\ \E row \in Row \ Poison :
       /\ IsNext(r, row)
       /\ RecordFailure(r, row)
       /\ Store(row) \/ UNCHANGED stream
  /\ faults' = faults + 1
  /\ UNCHANGED <<table, claimed>>

\* Mutant: the whole batch is marked, failed rows included.
CommitWholeBatch(r) ==
  /\ claimed[r] # {}
  /\ handled[r] = claimed[r]
  /\ table' = [row \in Row |-> IF row \in claimed[r] THEN "published" ELSE table[row]]
  /\ claimed' = [claimed EXCEPT ![r] = {}]
  /\ handled' = [handled EXCEPT ![r] = {}]
  /\ marked' = [marked EXCEPT ![r] = {}]
  /\ UNCHANGED <<stream, faults>>

Commit(r) ==
  /\ claimed[r] # {}
  /\ handled[r] = claimed[r]
  /\ table' = [row \in Row |-> IF row \in marked[r] THEN "published" ELSE table[row]]
  /\ claimed' = [claimed EXCEPT ![r] = {}]
  /\ handled' = [handled EXCEPT ![r] = {}]
  /\ marked' = [marked EXCEPT ![r] = {}]
  /\ UNCHANGED <<stream, faults>>

\* A database error, a failed commit or a crash: the claim is rolled back and
\* every row stays pending, whatever was published meanwhile.
Rollback(r) ==
  /\ claimed[r] # {}
  /\ faults < MaxFaults
  /\ claimed' = [claimed EXCEPT ![r] = {}]
  /\ handled' = [handled EXCEPT ![r] = {}]
  /\ marked' = [marked EXCEPT ![r] = {}]
  /\ faults' = faults + 1
  /\ UNCHANGED <<table, stream>>

\* An id grows too old for JetStream's duplicate window.
Expire(row) ==
  /\ row \in window
  /\ window' = window \ {row}
  /\ UNCHANGED <<table, transaction, copies, faults>>

Tick(r) == Claim(r) \/ Publish(r) \/ Refused(r) \/ Commit(r)

RelayNext ==
  \/ \E row \in Row : InsertOutbox(row) \/ Expire(row)
  \/ \E r \in Replica : Tick(r) \/ PublishFails(r) \/ Rollback(r)

\* Run ticks for ever: a replica that can go on does.
RelaySpec == RelayInit /\ [][RelayNext]_relayVars /\ \A r \in Replica : WF_relayVars(Tick(r))

---------------------------------------------------------------------------
(* Properties. *)

\* The type invariant.
RelayTypeOK ==
  /\ table \in [Row -> {"absent", "pending", "published"}]
  /\ claimed \in [Replica -> SUBSET Row]
  /\ handled \in [Replica -> SUBSET Row]
  /\ marked \in [Replica -> SUBSET Row]
  /\ \A r \in Replica : marked[r] \subseteq handled[r] /\ handled[r] \subseteq claimed[r]
  /\ copies \in [Row -> Nat]
  /\ window \in SUBSET Row
  /\ faults \in 0 .. MaxFaults

\* Concurrent replicas never work on one row, and a row somebody works on is
\* still pending: FOR UPDATE SKIP LOCKED (package comment, lines 5-7).
ExclusiveClaim ==
  /\ \A r, s \in Replica : r # s => claimed[r] \cap claimed[s] = {}
  /\ \A r \in Replica : \A row \in claimed[r] : table[row] = "pending"

\* A row counts as published only when the stream has stored it, whatever
\* failed on the way: no event is lost.
NoLostEvent == \A row \in Row : table[row] = "published" => copies[row] > 0

\* A consumer sees an event more than once only because something failed: the
\* surplus copies are never more than the faults (package comment, lines 7-9).
SurplusCopiesAreFaults ==
  \A row \in Row : copies[row] <= 1 + faults

\* An event that is not poison is published in the end, although poison rows
\* keep their places at the head of every batch, as long as they are fewer
\* than a batch (Run, and "retried on the next tick").
HealthyRowsPublished ==
  \A row \in Row \ Poison : table[row] = "pending" ~> table[row] = "published"

=============================================================================
