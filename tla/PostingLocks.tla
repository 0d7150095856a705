---------------------------- MODULE PostingLocks ----------------------------
(***************************************************************************)
(* What the posting transactions of finance-service wait for: the rows and *)
(* idempotency keys of the journal, the balance rows of                    *)
(* EnsureAndLockBalances and the connections of the database pool.  The    *)
(* reads that follow the locks (natures, openings, lines, period) do not   *)
(* use the transaction's connection but ask the pool for one more.         *)
(*                                                                         *)
(* Balance rows are numbered in the order of their sort.  What a posting   *)
(* writes is PostingLedger's; here a call ends in a commit or in an error, *)
(* after which its caller tries again.                                     *)
(***************************************************************************)
EXTENDS Integers, FiniteSets, Sequences

CONSTANTS
  Posting,      \* concurrent calls
  Nobody,       \* no call
  JournalRow,   \* entries to be posted, released or reversed
  IdemKey,      \* idempotency keys to be inserted
  EntryLocks,   \* the entry and key each call locks first, in its order
  ReadsBefore,  \* calls that read on a second connection before the balances
  ReadsAfter,   \* and those that do so with the balances locked
  NumRows,      \* balance rows
  RowsOf,       \* those each call posts to
  PoolSizes,    \* sizes of the connection pool to consider
  MaxFaults     \* bound: deadlines and errors of calls that could go on

Row == 1 .. NumRows
EntryLock == JournalRow \cup IdemKey

ASSUME PostingAssumption ==
  /\ Nobody \notin Posting
  /\ EntryLocks \in [Posting -> Seq(EntryLock)]
  /\ RowsOf \in [Posting -> SUBSET Row]
\* Only a reversal locks twice: the entry it reverses and then its own key.
ASSUME EntryOrderAssumption ==
  /\ JournalRow \cap IdemKey = {}
  /\ \A p \in Posting : \A i, j \in DOMAIN EntryLocks[p] :
       i < j => EntryLocks[p][i] \in JournalRow /\ EntryLocks[p][j] \in IdemKey
ASSUME BoundsAssumption ==
  /\ IsFiniteSet(Posting)
  /\ NumRows \in Nat /\ MaxFaults \in Nat /\ PoolSizes \subseteq Nat \ {0}

VARIABLES
  pool,      \* MaxOpenConns
  pc,        \* what each call does next
  reading,   \* the calls that use a second connection
  entries,   \* how many of its entry locks each call has
  entryHeld, \* the call that holds each of them
  inserted,  \* idempotency keys of committed entries
  stored,    \* committed balance rows
  rowHeld,   \* the call that inserted or locked each balance row
  passed,    \* the rows each call has dealt with in its present phase
  faults

vars == <<pool, pc, reading, entries, entryHeld, inserted, stored, rowHeld, passed, faults>>
locks == <<entries, entryHeld, rowHeld, passed>>
committed == <<inserted, stored>>

InTx == {p \in Posting : pc[p] \notin {"idle", "done"}}

TypeOK ==
  /\ pool \in PoolSizes
  /\ pc \in [Posting -> {"idle", "entry", "before", "ensure", "lock", "after", "commit",
                         "done"}]
  /\ reading \subseteq InTx
  /\ entries \in [Posting -> Nat]
  /\ entryHeld \in [EntryLock -> InTx \cup {Nobody}]
  /\ inserted \subseteq IdemKey
  /\ stored \subseteq Row
  /\ rowHeld \in [Row -> InTx \cup {Nobody}]
  /\ passed \in [Posting -> SUBSET Row]
  /\ faults \in 0 .. MaxFaults

Init ==
  /\ pool \in PoolSizes
  /\ pc = [p \in Posting |-> "idle"]
  /\ reading = {}
  /\ entries = [p \in Posting |-> 0]
  /\ entryHeld = [x \in EntryLock |-> Nobody]
  /\ inserted = {}
  /\ stored \in SUBSET Row
  /\ rowHeld = [n \in Row |-> Nobody]
  /\ passed = [p \in Posting |-> {}]
  /\ faults = 0

Goto(p, label) == pc' = [pc EXCEPT ![p] = label]
ConnectionFree == Cardinality(InTx) + Cardinality(reading) < pool
FreeFor(p, holder) == holder \in {Nobody, p}

(***************************************************************************)
(* A transaction.                                                          *)
(***************************************************************************)
BeginTx(p) ==
  /\ pc[p] = "idle"
  /\ ConnectionFree
  /\ Goto(p, "entry")
  /\ UNCHANGED <<pool, reading, locks, committed, faults>>

NextEntry(p) == EntryLocks[p][entries[p] + 1]
EntriesLocked(p) == entries[p] = Len(EntryLocks[p])

\* SELECT FOR UPDATE of an entry, INSERT of one with a new key.
LockEntry(p) ==
  /\ pc[p] = "entry"
  /\ ~ EntriesLocked(p)
  /\ NextEntry(p) \notin inserted
  /\ FreeFor(p, entryHeld[NextEntry(p)])
  /\ entryHeld' = [entryHeld EXCEPT ![NextEntry(p)] = p]
  /\ entries' = [entries EXCEPT ![p] = @ + 1]
  /\ UNCHANGED <<pool, pc, reading, rowHeld, passed, committed, faults>>

EntryReady(p) ==
  /\ pc[p] = "entry"
  /\ EntriesLocked(p)
  /\ Goto(p, IF p \in ReadsBefore THEN "before" ELSE "ensure")
  /\ UNCHANGED <<pool, reading, locks, committed, faults>>

\* A query on r.db: it waits for a connection that no call uses.
Borrow(p) ==
  /\ pc[p] \in {"before", "after"}
  /\ p \notin reading
  /\ ConnectionFree
  /\ reading' = reading \cup {p}
  /\ UNCHANGED <<pool, pc, locks, committed, faults>>

GiveBack(p) ==
  /\ p \in reading
  /\ reading' = reading \ {p}
  /\ Goto(p, IF pc[p] = "before" THEN "ensure" ELSE "commit")
  /\ UNCHANGED <<pool, locks, committed, faults>>

\* Mutant: the rows are locked in the order of the lines.
NextRowUnsorted(p, n) == n \in RowsOf[p] \ passed[p]

\* The row that comes next in the sort.
NextRow(p, n) ==
  /\ n \in RowsOf[p] \ passed[p]
  /\ \A m \in RowsOf[p] \ passed[p] : n <= m

\* INSERT ... ON CONFLICT DO NOTHING: nothing is waited for when the row is
\* committed, even if it is locked; a row another call has inserted and not
\* committed is.
EnsureRow(p) ==
  /\ pc[p] = "ensure"
  /\ \E n \in Row :
       /\ NextRow(p, n)
       /\ \/ n \in stored /\ UNCHANGED rowHeld
          \/ /\ n \notin stored
             /\ FreeFor(p, rowHeld[n])
             /\ rowHeld' = [rowHeld EXCEPT ![n] = p]
       /\ passed' = [passed EXCEPT ![p] = @ \cup {n}]
  /\ UNCHANGED <<pool, pc, reading, entries, entryHeld, committed, faults>>

RowsEnsured(p) ==
  /\ pc[p] = "ensure"
  /\ passed[p] = RowsOf[p]
  /\ passed' = [passed EXCEPT ![p] = {}]
  /\ Goto(p, "lock")
  /\ UNCHANGED <<pool, reading, entries, entryHeld, rowHeld, committed, faults>>

\* SELECT ... FOR UPDATE.
LockRow(p) ==
  /\ pc[p] = "lock"
  /\ \E n \in Row :
       /\ NextRow(p, n)
       /\ FreeFor(p, rowHeld[n])
       /\ rowHeld' = [rowHeld EXCEPT ![n] = p]
       /\ passed' = [passed EXCEPT ![p] = @ \cup {n}]
  /\ UNCHANGED <<pool, pc, reading, entries, entryHeld, committed, faults>>

RowsLocked(p) ==
  /\ pc[p] = "lock"
  /\ passed[p] = RowsOf[p]
  /\ Goto(p, IF p \in ReadsAfter THEN "after" ELSE "commit")
  /\ UNCHANGED <<pool, reading, locks, committed, faults>>

\* Mutant: a cancelled read keeps its connection.
FinishKeepsReading(p) ==
  /\ UNCHANGED reading
  /\ entries' = [entries EXCEPT ![p] = 0]
  /\ entryHeld' = [x \in EntryLock |-> IF entryHeld[x] = p THEN Nobody ELSE entryHeld[x]]
  /\ rowHeld' = [n \in Row |-> IF rowHeld[n] = p THEN Nobody ELSE rowHeld[n]]
  /\ passed' = [passed EXCEPT ![p] = {}]

\* Mutant: the balance row locks outlive the transaction.
FinishKeepsRows(p) ==
  /\ UNCHANGED rowHeld
  /\ entries' = [entries EXCEPT ![p] = 0]
  /\ reading' = reading \ {p}
  /\ entryHeld' = [x \in EntryLock |-> IF entryHeld[x] = p THEN Nobody ELSE entryHeld[x]]
  /\ passed' = [passed EXCEPT ![p] = {}]

\* The end of a transaction: every lock and connection of it is free again.
Finish(p) ==
  /\ reading' = reading \ {p}
  /\ entries' = [entries EXCEPT ![p] = 0]
  /\ entryHeld' = [x \in EntryLock |-> IF entryHeld[x] = p THEN Nobody ELSE entryHeld[x]]
  /\ rowHeld' = [n \in Row |-> IF rowHeld[n] = p THEN Nobody ELSE rowHeld[n]]
  /\ passed' = [passed EXCEPT ![p] = {}]

Commit(p) ==
  /\ pc[p] = "commit"
  /\ inserted' = inserted \cup {x \in IdemKey : entryHeld[x] = p}
  /\ stored' = stored \cup {n \in Row : rowHeld[n] = p}
  /\ Goto(p, "done")
  /\ Finish(p)
  /\ UNCHANGED <<pool, faults>>

\* The key's other holder has committed: a unique violation.  The caller
\* that tries again is given the entry.
Duplicate(p) ==
  /\ pc[p] = "entry"
  /\ ~ EntriesLocked(p)
  /\ NextEntry(p) \in inserted
  /\ Goto(p, "done")
  /\ Finish(p)
  /\ UNCHANGED <<pool, committed, faults>>

(***************************************************************************)
(* Who waits for whom.                                                     *)
(***************************************************************************)
\* The call that holds the entry, key or balance row p is waiting for.
Holder(p) ==
  CASE pc[p] = "entry" /\ ~ EntriesLocked(p) -> {entryHeld[NextEntry(p)]}
    [] pc[p] = "ensure" -> {rowHeld[n] : n \in {m \in Row \ stored : NextRow(p, m)}}
    [] pc[p] = "lock" -> {rowHeld[n] : n \in {m \in Row : NextRow(p, m)}}
    [] OTHER -> {}
WaitsFor(p) == Holder(p) \ {Nobody, p}

WaitsForConnection(p) ==
  /\ ~ ConnectionFree
  /\ pc[p] \in {"idle", "before", "after"}
  /\ p \notin reading

Stalled ==
  /\ InTx # {}
  /\ \A p \in Posting : pc[p] = "done" \/ WaitsFor(p) # {} \/ WaitsForConnection(p)

\* A call whose context ends, its deadline or its caller's, or that fails, is
\* rolled back and made again.  When nothing else can happen deadlines do.
Rollback(p) ==
  /\ p \in InTx
  /\ IF Stalled THEN UNCHANGED faults ELSE faults < MaxFaults /\ faults' = faults + 1
  /\ Goto(p, "idle")
  /\ Finish(p)
  /\ UNCHANGED <<pool, committed>>

Step(p) ==
  \/ BeginTx(p) \/ LockEntry(p) \/ EntryReady(p) \/ Duplicate(p)
  \/ Borrow(p) \/ GiveBack(p)
  \/ EnsureRow(p) \/ RowsEnsured(p) \/ LockRow(p) \/ RowsLocked(p) \/ Commit(p)

AllDone == \A p \in Posting : pc[p] = "done"
Rest == AllDone /\ UNCHANGED vars

Next == Rest \/ \E p \in Posting : Step(p) \/ Rollback(p)

Spec == Init /\ [][Next]_vars

\* Goroutines run, PostgreSQL and the pool serve those that can be served.
FairSpec == Spec /\ \A p \in Posting : WF_vars(Step(p))

(***************************************************************************)
(* Properties.                                                             *)
(***************************************************************************)
\* No set of postings waits for one another's rows and keys, whichever
\* accounts they share and whichever balance rows they are the first to
\* create (EnsureAndLockBalances: "the deterministic lock order prevents
\* deadlocks between concurrent entries sharing accounts").
NoLockCycle ==
  \A S \in (SUBSET Posting) \ {{}} : \E p \in S : WaitsFor(p) \cap S = {}

\* Postings block one another for good only when every connection of the pool
\* is the transaction connection of one of them, all waiting, one of them for
\* a second connection while it holds what the others wait for.
OnlyThePoolStalls ==
  Stalled => /\ Cardinality(InTx) = pool
             /\ \E p \in InTx : WaitsForConnection(p)

\* With one connection more than concurrent calls every call comes to its end
\* without a deadline's help.
EveryPostingEnds ==
  pool > Cardinality(Posting) => <>AllDone

=============================================================================
