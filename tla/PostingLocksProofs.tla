------------------------- MODULE PostingLocksProofs -------------------------
(***************************************************************************)
(* Theorems about PostingLocks, for any number of postings, balance rows   *)
(* and connections: its types, that locks are taken in one order, so that  *)
(* no set of postings waits for one another, and that only an exhausted    *)
(* pool stalls them.                                                       *)
(***************************************************************************)
EXTENDS PostingLocks, FiniteSetTheorems, WellFoundedInduction, TLAPS

---------------------------------------------------------------------------
(* The inductive invariant. *)

\* A call holds only entries and keys it has got to.
EntriesInOrder ==
  /\ \A p \in Posting : entries[p] <= Len(EntryLocks[p])
  /\ \A p \in Posting, x \in EntryLock :
       entryHeld[x] = p => \E i \in 1 .. entries[p] : EntryLocks[p][i] = x

\* A phase deals with the rows in the order of the sort, and starts with none.
PassedInOrder ==
  \A p \in Posting :
    /\ passed[p] \subseteq RowsOf[p]
    /\ \A m \in passed[p], n \in RowsOf[p] \ passed[p] : m < n
    /\ pc[p] \in {"idle", "entry", "before", "done"} => passed[p] = {}

\* A row that is dealt with in the first phase exists from then on, even if
\* only for the call that inserted it.
EnsuredRowsExist ==
  \A p \in Posting : \A n \in RowsOf[p] :
    pc[p] \in {"lock", "after", "commit"} \/ (pc[p] = "ensure" /\ n \in passed[p])
      => n \in stored \/ rowHeld[n] = p

\* A row is held because it was inserted in the first phase or locked in the
\* second; a committed row only the second phase locks.
HeldRowsPassed ==
  \A p \in Posting, n \in Row :
    rowHeld[n] = p =>
      /\ n \in RowsOf[p]
      /\ pc[p] \in {"ensure", "lock", "after", "commit"}
      /\ pc[p] = "ensure" => n \in passed[p] /\ n \notin stored
      /\ pc[p] = "lock" /\ n \in stored => n \in passed[p]

\* A second connection is used by reads only.
ReadersRead == \A p \in reading : pc[p] \in {"before", "after"}

\* The pool's bound.
PoolBounded == Cardinality(InTx) + Cardinality(reading) <= pool

LocksInv ==
  /\ TypeOK
  /\ EntriesInOrder /\ PassedInOrder /\ EnsuredRowsExist /\ HeldRowsPassed
  /\ ReadersRead /\ PoolBounded

---------------------------------------------------------------------------
(* Types and transactions. *)

Labels == {"idle", "entry", "before", "ensure", "lock", "after", "commit", "done"}

LEMMA GotoLabel ==
  ASSUME TypeOK, NEW p \in Posting, NEW l \in Labels, Goto(p, l)
  PROVE  /\ pc' \in [Posting -> Labels]
         /\ pc'[p] = l
         /\ \A q \in Posting : q # p => pc'[q] = pc[q]
         /\ l \notin {"idle", "done"} => InTx' = InTx \cup {p}
         /\ l \in {"idle", "done"} => InTx' = InTx \ {p}
<1>1. /\ pc' \in [Posting -> Labels] /\ pc'[p] = l
      /\ \A q \in Posting : q # p => pc'[q] = pc[q]
  BY DEF TypeOK, Labels, Goto
<1> QED BY <1>1 DEF InTx

LEMMA SamePc == UNCHANGED pc => InTx' = InTx
BY DEF InTx

LEMMA TxFinite ==
  ASSUME LocksInv
  PROVE  /\ InTx \subseteq Posting /\ IsFiniteSet(InTx) /\ Cardinality(InTx) \in Nat
         /\ reading \subseteq InTx /\ IsFiniteSet(reading) /\ Cardinality(reading) \in Nat
         /\ pool \in Nat /\ Nobody \notin InTx
<1>1. InTx \subseteq Posting /\ reading \subseteq InTx
  BY DEF LocksInv, TypeOK, InTx
<1>2. IsFiniteSet(InTx) /\ IsFiniteSet(reading)
  BY <1>1, FS_Subset, BoundsAssumption
<1>3. Cardinality(InTx) \in Nat /\ Cardinality(reading) \in Nat
  BY <1>2, FS_CardinalityType
<1>4. pool \in Nat /\ Nobody \notin InTx
  BY <1>1, BoundsAssumption, PostingAssumption DEF LocksInv, TypeOK
<1> QED BY <1>1, <1>2, <1>3, <1>4

LEMMA EntryLocksType ==
  ASSUME NEW p \in Posting
  PROVE  /\ EntryLocks[p] \in Seq(EntryLock) /\ Len(EntryLocks[p]) \in Nat
         /\ DOMAIN EntryLocks[p] = 1 .. Len(EntryLocks[p])
         /\ RowsOf[p] \subseteq Row
BY PostingAssumption

---------------------------------------------------------------------------
(* The invariant, initially and after each action. *)

LEMMA InitLocks == Init => LocksInv
<1> SUFFICES ASSUME Init PROVE LocksInv
  OBVIOUS
<1>1. InTx = {}
  BY DEF Init, InTx
<1>2. TypeOK
  BY <1>1, BoundsAssumption DEF Init, TypeOK
<1>3. EntriesInOrder
  <2>1. \A p \in Posting : 0 <= Len(EntryLocks[p])
    BY EntryLocksType
  <2>2. \A p \in Posting : Nobody # p
    BY PostingAssumption
  <2> QED BY <2>1, <2>2 DEF Init, EntriesInOrder
<1>4. PassedInOrder /\ EnsuredRowsExist
  BY DEF Init, PassedInOrder, EnsuredRowsExist
<1>5. HeldRowsPassed /\ ReadersRead
  BY PostingAssumption DEF Init, HeldRowsPassed, ReadersRead
<1>6. PoolBounded
  <2>1. Cardinality(InTx) = 0 /\ Cardinality(reading) = 0
    BY <1>1, FS_EmptySet DEF Init
  <2>2. pool \in Nat
    BY BoundsAssumption DEF Init
  <2> QED BY <2>1, <2>2 DEF PoolBounded
<1> QED BY <1>2, <1>3, <1>4, <1>5, <1>6 DEF LocksInv

LEMMA BeginTxKeeps ==
  ASSUME LocksInv, NEW p \in Posting, BeginTx(p)
  PROVE  LocksInv'
<1>0. TypeOK /\ "entry" \in Labels
  BY DEF LocksInv, Labels
<1>1. /\ pc' \in [Posting -> Labels] /\ pc'[p] = "entry" /\ InTx' = InTx \cup {p}
      /\ \A q \in Posting : q # p => pc'[q] = pc[q]
  BY <1>0, GotoLabel DEF BeginTx
<1>2. UNCHANGED <<pool, reading, entries, entryHeld, rowHeld, passed, inserted, stored, faults>>
  BY DEF BeginTx, locks, committed
<1>3. TypeOK'
  BY <1>0, <1>1, <1>2 DEF TypeOK, Labels
<1>4. EntriesInOrder'
  BY <1>2 DEF LocksInv, EntriesInOrder
<1>5. PassedInOrder' /\ EnsuredRowsExist' /\ HeldRowsPassed' /\ ReadersRead'
  BY <1>0, <1>1, <1>2 DEF LocksInv, PassedInOrder, EnsuredRowsExist, HeldRowsPassed, ReadersRead,
                    BeginTx, TypeOK, InTx
<1>6. PoolBounded'
  <2>1. Cardinality(InTx') <= Cardinality(InTx) + 1 /\ Cardinality(InTx') \in Nat
    <3>1. /\ Cardinality(InTx \cup {p}) \in {Cardinality(InTx), Cardinality(InTx) + 1}
          /\ Cardinality(InTx) \in Nat
      BY TxFinite, FS_AddElement
    <3> QED BY <1>1, <3>1
  <2> QED BY <1>2, <2>1, TxFinite DEF BeginTx, ConnectionFree, PoolBounded
<1> QED BY <1>3, <1>4, <1>5, <1>6 DEF LocksInv

LEMMA LockEntryKeeps ==
  ASSUME LocksInv, NEW p \in Posting, LockEntry(p)
  PROVE  LocksInv'
<1> DEFINE x == NextEntry(p)
<1>0. TypeOK /\ p \in InTx
  BY DEF LocksInv, LockEntry, InTx
<1>1. UNCHANGED <<pool, pc, reading, rowHeld, passed, inserted, stored, faults>> /\ InTx' = InTx
  BY SamePc DEF LockEntry, committed
<1>2. /\ entries[p] \in Nat /\ entries[p] < Len(EntryLocks[p])
      /\ x = EntryLocks[p][entries[p] + 1] /\ x \in EntryLock
  <2>1. entries[p] \in Nat /\ entries[p] <= Len(EntryLocks[p]) /\ entries[p] # Len(EntryLocks[p])
    BY <1>0 DEF LocksInv, EntriesInOrder, LockEntry, EntriesLocked, TypeOK
  <2>2. entries[p] + 1 \in 1 .. Len(EntryLocks[p])
    BY <2>1, EntryLocksType
  <2> QED BY <2>1, <2>2, EntryLocksType DEF NextEntry
<1>3. /\ entries' = [entries EXCEPT ![p] = entries[p] + 1]
      /\ entryHeld' = [entryHeld EXCEPT ![x] = p]
      /\ entryHeld[x] \in {Nobody, p}
  BY DEF LockEntry, FreeFor
<1> HIDE DEF x
<1>4. TypeOK'
  BY <1>0, <1>1, <1>2, <1>3 DEF TypeOK
<1>5. EntriesInOrder'
  <2>1. /\ entries'[p] = entries[p] + 1 /\ entries' \in [Posting -> Nat]
        /\ \A q \in Posting : q # p => entries'[q] = entries[q]
    BY <1>0, <1>2, <1>3 DEF TypeOK
  <2>2. /\ entryHeld'[x] = p
        /\ \A y \in EntryLock : y # x => entryHeld'[y] = entryHeld[y]
    BY <1>0, <1>2, <1>3 DEF TypeOK
  <2>3. \A q \in Posting : entries'[q] <= Len(EntryLocks[q])
    BY <1>2, <2>1, EntryLocksType DEF LocksInv, EntriesInOrder
  <2>4. ASSUME NEW q \in Posting, NEW y \in EntryLock, entryHeld'[y] = q
        PROVE  \E i \in 1 .. entries'[q] : EntryLocks[q][i] = y
    <3>1. CASE y = x
      <4>1. q = p /\ entries[p] + 1 \in 1 .. entries'[p]
        BY <1>2, <2>1, <2>2, <2>4, <3>1
      <4> QED BY <1>2, <3>1, <4>1
    <3>2. CASE y # x
      <4>1. PICK i \in 1 .. entries[q] : EntryLocks[q][i] = y
        BY <2>2, <2>4, <3>2 DEF LocksInv, EntriesInOrder
      <4>2. entries[q] \in Nat /\ entries'[q] \in Nat /\ entries[q] <= entries'[q]
        <5>1. entries[q] \in Nat
          BY <1>0 DEF TypeOK
        <5>2. entries'[q] = entries[q] \/ entries'[q] = entries[q] + 1
          BY <2>1
        <5> QED BY <5>1, <5>2
      <4>3. i \in 1 .. entries'[q]
        BY <4>2
      <4> QED BY <4>1, <4>3
    <3> QED BY <3>1, <3>2
  <2> QED BY <2>3, <2>4 DEF EntriesInOrder
<1>6. PassedInOrder' /\ EnsuredRowsExist' /\ HeldRowsPassed' /\ ReadersRead' /\ PoolBounded'
  BY <1>1 DEF LocksInv, PassedInOrder, EnsuredRowsExist, HeldRowsPassed, ReadersRead, PoolBounded
<1> QED BY <1>4, <1>5, <1>6 DEF LocksInv

\* A call goes on to its next phase with the locks it has.
LEMMA NextPhaseKeeps ==
  ASSUME LocksInv, NEW p \in InTx, NEW l \in Labels, Goto(p, l),
         UNCHANGED <<pool, locks, committed, faults>>,
         reading' \subseteq reading,
         p \notin reading',
         \/ pc[p] = "entry" /\ l \in {"before", "ensure"}
         \/ pc[p] = "before" /\ l = "ensure"
         \/ pc[p] = "lock" /\ passed[p] = RowsOf[p] /\ l \in {"after", "commit"}
         \/ pc[p] = "after" /\ l = "commit"
  PROVE  LocksInv'
<1>0. TypeOK /\ p \in Posting
  BY DEF LocksInv, InTx
<1>1. /\ pc' \in [Posting -> Labels] /\ pc'[p] = l /\ InTx' = InTx
      /\ \A q \in Posting : q # p => pc'[q] = pc[q]
  BY <1>0, GotoLabel
<1>2. UNCHANGED <<pool, entries, entryHeld, rowHeld, passed, inserted, stored, faults>>
  BY DEF locks, committed
<1>3. TypeOK'
  BY <1>0, <1>1, <1>2 DEF TypeOK, Labels
<1>4. EntriesInOrder'
  BY <1>2 DEF LocksInv, EntriesInOrder
<1>5. PassedInOrder'
  BY <1>1, <1>2 DEF LocksInv, PassedInOrder
<1>6. EnsuredRowsExist'
  <2>1. l = "ensure" => passed[p] = {}
    BY <1>0 DEF LocksInv, PassedInOrder
  <2> QED BY <1>0, <1>1, <1>2, <2>1 DEF LocksInv, EnsuredRowsExist
<1>7. HeldRowsPassed'
  BY <1>0, <1>1, <1>2 DEF LocksInv, HeldRowsPassed
<1>8. ReadersRead'
  BY <1>1, TxFinite DEF LocksInv, ReadersRead
<1>9. PoolBounded'
  <2>1. IsFiniteSet(reading') /\ Cardinality(reading') <= Cardinality(reading)
    BY TxFinite, FS_Subset
  <2>2. Cardinality(reading') \in Nat
    BY <2>1, FS_CardinalityType
  <2> QED BY <1>1, <1>2, <2>1, <2>2, TxFinite DEF LocksInv, PoolBounded
<1> QED BY <1>3, <1>4, <1>5, <1>6, <1>7, <1>8, <1>9 DEF LocksInv

\* A read asks the pool for a second connection.
LEMMA BorrowKeeps ==
  ASSUME LocksInv, NEW p \in Posting, Borrow(p)
  PROVE  LocksInv'
<1>1. UNCHANGED <<pool, pc, entries, entryHeld, rowHeld, passed, inserted, stored, faults>>
      /\ InTx' = InTx
  BY SamePc DEF Borrow, locks, committed
<1>2. p \in InTx /\ reading' = reading \cup {p}
  BY DEF Borrow, InTx
<1>3. TypeOK'
  BY <1>1, <1>2 DEF LocksInv, TypeOK
<1>4. EntriesInOrder' /\ PassedInOrder' /\ EnsuredRowsExist' /\ HeldRowsPassed'
  BY <1>1 DEF LocksInv, EntriesInOrder, PassedInOrder, EnsuredRowsExist, HeldRowsPassed
<1>5. ReadersRead'
  BY <1>1, <1>2 DEF LocksInv, ReadersRead, Borrow
<1>6. PoolBounded'
  <2>1. /\ Cardinality(reading \cup {p}) \in {Cardinality(reading), Cardinality(reading) + 1}
        /\ Cardinality(reading) \in Nat
    BY TxFinite, FS_AddElement
  <2> QED BY <1>1, <1>2, <2>1, TxFinite DEF Borrow, ConnectionFree, PoolBounded
<1> QED BY <1>3, <1>4, <1>5, <1>6 DEF LocksInv

\* The row that comes next is above all the rows dealt with, and the next phase
\* of the order is kept when it is dealt with.
LEMMA PassRow ==
  ASSUME LocksInv, NEW p \in Posting, NEW n \in Row, NextRow(p, n), UNCHANGED pc,
         pc[p] \in {"ensure", "lock"},
         passed' = [passed EXCEPT ![p] = @ \cup {n}]
  PROVE  /\ PassedInOrder'
         /\ passed' \in [Posting -> SUBSET Row]
         /\ passed'[p] = passed[p] \cup {n}
         /\ \A q \in Posting : q # p => passed'[q] = passed[q]
         /\ n \in RowsOf[p]
<1>1. /\ passed' \in [Posting -> SUBSET Row] /\ passed'[p] = passed[p] \cup {n}
      /\ \A q \in Posting : q # p => passed'[q] = passed[q]
  BY DEF LocksInv, TypeOK
<1>2. n \in RowsOf[p] /\ \A m \in RowsOf[p] \ passed[p] : n <= m
  BY DEF NextRow
<1>3. ASSUME NEW q \in Posting
      PROVE  /\ passed'[q] \subseteq RowsOf[q]
             /\ \A a \in passed'[q], b \in RowsOf[q] \ passed'[q] : a < b
             /\ pc'[q] \in {"idle", "entry", "before", "done"} => passed'[q] = {}
  <2>1. CASE q = p
    <3>1. ASSUME NEW a \in passed'[p], NEW b \in RowsOf[p] \ passed'[p]
          PROVE  a < b
      <4>1. CASE a \in passed[p]
        BY <1>1, <4>1 DEF LocksInv, PassedInOrder
      <4>2. CASE a = n
        <5>1. b \in Row /\ n \in Row /\ n <= b /\ b # n
          BY <1>1, <1>2, EntryLocksType
        <5> QED BY <4>2, <5>1 DEF Row
      <4> QED BY <1>1, <4>1, <4>2
    <3> QED BY <1>1, <1>2, <2>1, <3>1 DEF LocksInv, PassedInOrder
  <2>2. CASE q # p
    BY <1>1, <2>2 DEF LocksInv, PassedInOrder
  <2> QED BY <2>1, <2>2
<1>4. PassedInOrder'
  BY <1>3 DEF PassedInOrder
<1> QED BY <1>1, <1>2, <1>4

LEMMA EnsureRowKeeps ==
  ASSUME LocksInv, NEW p \in Posting, EnsureRow(p)
  PROVE  LocksInv'
<1>1. PICK n \in Row :
        /\ NextRow(p, n)
        /\ \/ n \in stored /\ UNCHANGED rowHeld
           \/ /\ n \notin stored
              /\ FreeFor(p, rowHeld[n])
              /\ rowHeld' = [rowHeld EXCEPT ![n] = p]
        /\ passed' = [passed EXCEPT ![p] = @ \cup {n}]
  BY DEF EnsureRow
<1>2. /\ UNCHANGED <<pool, pc, reading, entries, entryHeld, inserted, stored, faults>>
      /\ InTx' = InTx /\ p \in InTx /\ pc[p] = "ensure"
  BY SamePc DEF EnsureRow, committed, InTx
<1>3. /\ PassedInOrder' /\ passed' \in [Posting -> SUBSET Row]
      /\ passed'[p] = passed[p] \cup {n}
      /\ \A q \in Posting : q # p => passed'[q] = passed[q]
      /\ n \in RowsOf[p]
  BY <1>1, <1>2, PassRow
<1>4. /\ rowHeld' \in [Row -> InTx \cup {Nobody}]
      /\ n \in stored \/ rowHeld'[n] = p
      /\ n \in stored => rowHeld'[n] = rowHeld[n]
      /\ n \notin stored => rowHeld[n] \in {p, Nobody}
      /\ \A m \in Row : m # n => rowHeld'[m] = rowHeld[m]
  BY <1>1, <1>2 DEF LocksInv, TypeOK, FreeFor
<1>5. TypeOK'
  BY <1>2, <1>3, <1>4 DEF LocksInv, TypeOK
<1>6. EntriesInOrder' /\ ReadersRead' /\ PoolBounded'
  BY <1>2 DEF LocksInv, EntriesInOrder, ReadersRead, PoolBounded
<1>7. EnsuredRowsExist'
  <2> SUFFICES ASSUME NEW q \in Posting, NEW m \in RowsOf[q],
                      pc[q] \in {"lock", "after", "commit"} \/ (pc[q] = "ensure" /\ m \in passed'[q])
               PROVE  m \in stored \/ rowHeld'[m] = q
    BY <1>2 DEF EnsuredRowsExist
  <2>1. CASE q = p /\ m = n
    BY <1>4, <2>1
  <2>2. CASE q # p \/ m # n
    <3>1. m \in stored \/ rowHeld[m] = q
      BY <1>2, <1>3, <2>2 DEF LocksInv, EnsuredRowsExist
    <3>2. m \in Row /\ q # Nobody
      BY EntryLocksType, PostingAssumption
    <3> QED BY <1>4, <2>2, <3>1, <3>2
  <2> QED BY <2>1, <2>2
<1>8. HeldRowsPassed'
  <2> SUFFICES ASSUME NEW q \in Posting, NEW m \in Row, rowHeld'[m] = q
               PROVE  /\ m \in RowsOf[q]
                      /\ pc[q] \in {"ensure", "lock", "after", "commit"}
                      /\ pc[q] = "ensure" => m \in passed'[q] /\ m \notin stored
                      /\ pc[q] = "lock" /\ m \in stored => m \in passed'[q]
    BY <1>2 DEF HeldRowsPassed
  <2>1. CASE rowHeld[m] = q
    BY <1>3, <2>1 DEF LocksInv, HeldRowsPassed
  <2>2. CASE rowHeld[m] # q
    <3>1. m = n /\ q = p /\ n \notin stored
      BY <1>1, <1>4, <2>2 DEF LocksInv, TypeOK
    <3> QED BY <1>2, <1>3, <3>1
  <2> QED BY <2>1, <2>2
<1> QED BY <1>3, <1>5, <1>6, <1>7, <1>8 DEF LocksInv

LEMMA RowsEnsuredKeeps ==
  ASSUME LocksInv, NEW p \in Posting, RowsEnsured(p)
  PROVE  LocksInv'
<1>0. TypeOK /\ "lock" \in Labels /\ p \in InTx
  BY DEF LocksInv, Labels, RowsEnsured, InTx
<1>1. /\ pc' \in [Posting -> Labels] /\ pc'[p] = "lock" /\ InTx' = InTx
      /\ \A q \in Posting : q # p => pc'[q] = pc[q]
  BY <1>0, GotoLabel DEF RowsEnsured
<1>2. UNCHANGED <<pool, reading, entries, entryHeld, rowHeld, inserted, stored, faults>>
  BY DEF RowsEnsured, committed
<1>3. /\ passed' \in [Posting -> SUBSET Row] /\ passed'[p] = {}
      /\ \A q \in Posting : q # p => passed'[q] = passed[q]
      /\ pc[p] = "ensure" /\ passed[p] = RowsOf[p]
  BY <1>0 DEF RowsEnsured, TypeOK
<1>4. TypeOK'
  BY <1>0, <1>1, <1>2, <1>3 DEF TypeOK, Labels
<1>5. EntriesInOrder' /\ PoolBounded'
  BY <1>1, <1>2 DEF LocksInv, EntriesInOrder, PoolBounded
<1>6. PassedInOrder' /\ ReadersRead'
  BY <1>1, <1>2, <1>3, TxFinite DEF LocksInv, PassedInOrder, ReadersRead
<1>7. EnsuredRowsExist'
  BY <1>1, <1>2, <1>3 DEF LocksInv, EnsuredRowsExist
<1>8. HeldRowsPassed'
  BY <1>1, <1>2, <1>3 DEF LocksInv, HeldRowsPassed
<1> QED BY <1>4, <1>5, <1>6, <1>7, <1>8 DEF LocksInv

LEMMA LockRowKeeps ==
  ASSUME LocksInv, NEW p \in Posting, LockRow(p)
  PROVE  LocksInv'
<1>1. PICK n \in Row :
        /\ NextRow(p, n) /\ FreeFor(p, rowHeld[n])
        /\ rowHeld' = [rowHeld EXCEPT ![n] = p]
        /\ passed' = [passed EXCEPT ![p] = @ \cup {n}]
  BY DEF LockRow
<1>2. /\ UNCHANGED <<pool, pc, reading, entries, entryHeld, inserted, stored, faults>>
      /\ InTx' = InTx /\ p \in InTx /\ pc[p] = "lock"
  BY SamePc DEF LockRow, committed, InTx
<1>3. /\ PassedInOrder' /\ passed' \in [Posting -> SUBSET Row]
      /\ passed'[p] = passed[p] \cup {n}
      /\ \A q \in Posting : q # p => passed'[q] = passed[q]
      /\ n \in RowsOf[p]
  BY <1>1, <1>2, PassRow
<1>4. /\ rowHeld' \in [Row -> InTx \cup {Nobody}]
      /\ rowHeld'[n] = p /\ rowHeld[n] \in {p, Nobody}
      /\ \A m \in Row : m # n => rowHeld'[m] = rowHeld[m]
  BY <1>1, <1>2 DEF LocksInv, TypeOK, FreeFor
<1>5. TypeOK'
  BY <1>2, <1>3, <1>4 DEF LocksInv, TypeOK
<1>6. EntriesInOrder' /\ ReadersRead' /\ PoolBounded'
  BY <1>2 DEF LocksInv, EntriesInOrder, ReadersRead, PoolBounded
<1>7. EnsuredRowsExist'
  <2> SUFFICES ASSUME NEW q \in Posting, NEW m \in RowsOf[q],
                      pc[q] \in {"lock", "after", "commit"} \/ (pc[q] = "ensure" /\ m \in passed'[q])
               PROVE  m \in stored \/ rowHeld'[m] = q
    BY <1>2 DEF EnsuredRowsExist
  <2>1. m \in stored \/ rowHeld[m] = q
    BY <1>2, <1>3 DEF LocksInv, EnsuredRowsExist
  <2>2. m \in Row /\ q # Nobody
    BY EntryLocksType, PostingAssumption
  <2> QED BY <1>4, <2>1, <2>2
<1>8. HeldRowsPassed'
  <2> SUFFICES ASSUME NEW q \in Posting, NEW m \in Row, rowHeld'[m] = q
               PROVE  /\ m \in RowsOf[q]
                      /\ pc[q] \in {"ensure", "lock", "after", "commit"}
                      /\ pc[q] = "ensure" => m \in passed'[q] /\ m \notin stored
                      /\ pc[q] = "lock" /\ m \in stored => m \in passed'[q]
    BY <1>2 DEF HeldRowsPassed
  <2>1. CASE rowHeld[m] = q
    BY <1>3, <2>1 DEF LocksInv, HeldRowsPassed
  <2>2. CASE rowHeld[m] # q
    <3>1. m = n /\ q = p
      BY <1>4, <2>2
    <3> QED BY <1>2, <1>3, <3>1
  <2> QED BY <2>1, <2>2
<1> QED BY <1>3, <1>5, <1>6, <1>7, <1>8 DEF LocksInv

\* The end of a transaction: a commit makes the rows exist that it held.
LEMMA FinishKeeps ==
  ASSUME LocksInv, NEW p \in InTx, NEW l \in {"idle", "done"}, Goto(p, l), Finish(p),
         UNCHANGED pool, faults' \in 0 .. MaxFaults,
         inserted' \subseteq IdemKey,
         \/ stored' = stored
         \/ pc[p] = "commit" /\ stored' = stored \cup {n \in Row : rowHeld[n] = p}
  PROVE  LocksInv'
<1>0. TypeOK /\ l \in Labels /\ p \in Posting /\ p # Nobody
  BY PostingAssumption DEF LocksInv, Labels, InTx
<1>1. /\ pc' \in [Posting -> Labels] /\ pc'[p] = l /\ InTx' = InTx \ {p}
      /\ \A q \in Posting : q # p => pc'[q] = pc[q]
  BY <1>0, GotoLabel
<1>2. /\ reading' = reading \ {p}
      /\ entries' \in [Posting -> Nat] /\ entries'[p] = 0
      /\ \A q \in Posting : q # p => entries'[q] = entries[q]
      /\ passed' \in [Posting -> SUBSET Row] /\ passed'[p] = {}
      /\ \A q \in Posting : q # p => passed'[q] = passed[q]
  BY <1>0 DEF Finish, TypeOK
<1>3. /\ entryHeld' \in [EntryLock -> InTx' \cup {Nobody}]
      /\ \A x \in EntryLock, q \in Posting :
           entryHeld'[x] = q <=> q # p /\ entryHeld[x] = q
  BY <1>0, <1>1, PostingAssumption DEF Finish, TypeOK
<1>4. /\ rowHeld' \in [Row -> InTx' \cup {Nobody}]
      /\ \A n \in Row, q \in Posting :
           rowHeld'[n] = q <=> q # p /\ rowHeld[n] = q
  BY <1>0, <1>1, PostingAssumption DEF Finish, TypeOK
<1>5. /\ stored \subseteq stored' /\ stored' \subseteq Row
      /\ \A n \in stored' : n \in stored \/ rowHeld[n] = p
  BY <1>0 DEF TypeOK
<1>6. TypeOK'
  BY <1>0, <1>1, <1>2, <1>3, <1>4, <1>5 DEF TypeOK, Labels
<1>7. EntriesInOrder'
  <2>1. \A q \in Posting : entries'[q] <= Len(EntryLocks[q])
    BY <1>2, EntryLocksType DEF LocksInv, EntriesInOrder
  <2>2. ASSUME NEW q \in Posting, NEW x \in EntryLock, entryHeld'[x] = q
        PROVE  \E i \in 1 .. entries'[q] : EntryLocks[q][i] = x
    BY <1>2, <1>3, <2>2 DEF LocksInv, EntriesInOrder
  <2> QED BY <2>1, <2>2 DEF EntriesInOrder
<1>8. PassedInOrder'
  <2>1. ASSUME NEW q \in Posting
        PROVE  /\ passed'[q] \subseteq RowsOf[q]
               /\ \A m \in passed'[q], n \in RowsOf[q] \ passed'[q] : m < n
               /\ pc'[q] \in {"idle", "entry", "before", "done"} => passed'[q] = {}
    <3>1. CASE q = p
      BY <1>2, <3>1
    <3>2. CASE q # p
      BY <1>1, <1>2, <3>2 DEF LocksInv, PassedInOrder
    <3> QED BY <3>1, <3>2
  <2> QED BY <2>1 DEF PassedInOrder
<1>9. EnsuredRowsExist'
  <2> SUFFICES ASSUME NEW q \in Posting, NEW n \in RowsOf[q],
                      \/ pc'[q] \in {"lock", "after", "commit"}
                      \/ pc'[q] = "ensure" /\ n \in passed'[q]
               PROVE  n \in stored' \/ rowHeld'[n] = q
    BY DEF EnsuredRowsExist
  <2>1. q # p /\ pc'[q] = pc[q] /\ passed'[q] = passed[q]
    BY <1>1, <1>2
  <2>2. n \in stored \/ rowHeld[n] = q
    BY <2>1 DEF LocksInv, EnsuredRowsExist
  <2>3. n \in Row
    BY EntryLocksType
  <2> QED BY <1>4, <1>5, <2>1, <2>2, <2>3
<1>10. HeldRowsPassed'
  <2> SUFFICES ASSUME NEW q \in Posting, NEW n \in Row, rowHeld'[n] = q
               PROVE  /\ n \in RowsOf[q]
                      /\ pc'[q] \in {"ensure", "lock", "after", "commit"}
                      /\ pc'[q] = "ensure" => n \in passed'[q] /\ n \notin stored'
                      /\ pc'[q] = "lock" /\ n \in stored' => n \in passed'[q]
    BY DEF HeldRowsPassed
  <2>1. q # p /\ rowHeld[n] = q
    BY <1>4
  <2>2. pc'[q] = pc[q] /\ passed'[q] = passed[q] /\ (n \in stored' <=> n \in stored)
    BY <1>1, <1>2, <1>5, <2>1
  <2> QED BY <2>1, <2>2 DEF LocksInv, HeldRowsPassed
<1>11. ReadersRead'
  BY <1>1, <1>2, TxFinite DEF LocksInv, ReadersRead
<1>12. PoolBounded'
  <2>1. Cardinality(InTx \ {p}) = Cardinality(InTx) - 1
    BY TxFinite, FS_RemoveElement
  <2>2. /\ Cardinality(reading \ {p}) \in {Cardinality(reading), Cardinality(reading) - 1}
    BY TxFinite, FS_RemoveElement
  <2> QED BY <1>1, <1>2, <2>1, <2>2, TxFinite DEF LocksInv, PoolBounded
<1> QED BY <1>6, <1>7, <1>8, <1>9, <1>10, <1>11, <1>12 DEF LocksInv

LEMMA StepKeeps ==
  ASSUME LocksInv, NEW p \in Posting, Step(p) \/ Rollback(p)
  PROVE  LocksInv'
<1>0. TypeOK /\ {"before", "ensure", "after", "commit"} \subseteq Labels
  BY DEF LocksInv, Labels
<1>1. CASE BeginTx(p)
  BY <1>1, BeginTxKeeps
<1>2. CASE LockEntry(p)
  BY <1>2, LockEntryKeeps
<1>3. CASE EntryReady(p)
  <2>1. p \in InTx /\ p \notin reading
    BY <1>3 DEF EntryReady, InTx, LocksInv, ReadersRead
  <2> QED BY <1>0, <1>3, <2>1, NextPhaseKeeps DEF EntryReady
<1>4. CASE Duplicate(p)
  <2>1. p \in InTx
    BY <1>4 DEF Duplicate, InTx
  <2> QED BY <1>0, <1>4, <2>1, FinishKeeps DEF Duplicate, committed, TypeOK
<1>5. CASE Borrow(p)
  BY <1>5, BorrowKeeps
<1>6. CASE GiveBack(p)
  <2>1. p \in InTx /\ pc[p] \in {"before", "after"}
    BY <1>6, TxFinite DEF GiveBack, LocksInv, ReadersRead
  <2> QED BY <1>0, <1>6, <2>1, NextPhaseKeeps DEF GiveBack
<1>7. CASE EnsureRow(p)
  BY <1>7, EnsureRowKeeps
<1>8. CASE RowsEnsured(p)
  BY <1>8, RowsEnsuredKeeps
<1>9. CASE LockRow(p)
  BY <1>9, LockRowKeeps
<1>10. CASE RowsLocked(p)
  <2>1. p \in InTx /\ p \notin reading
    BY <1>10 DEF RowsLocked, InTx, LocksInv, ReadersRead
  <2> QED BY <1>0, <1>10, <2>1, NextPhaseKeeps DEF RowsLocked
<1>11. CASE Commit(p)
  <2>1. p \in InTx
    BY <1>11 DEF Commit, InTx
  <2>2. inserted' \subseteq IdemKey /\ faults' \in 0 .. MaxFaults
    BY <1>0, <1>11 DEF Commit, TypeOK
  <2> QED BY <1>11, <2>1, <2>2, FinishKeeps DEF Commit
<1>12. CASE Rollback(p)
  <2>1. faults' \in 0 .. MaxFaults
    BY <1>0, <1>12, BoundsAssumption DEF Rollback, TypeOK
  <2> QED BY <1>0, <1>12, <2>1, FinishKeeps DEF Rollback, committed, TypeOK
<1> QED BY <1>1, <1>2, <1>3, <1>4, <1>5, <1>6, <1>7, <1>8, <1>9, <1>10, <1>11, <1>12 DEF Step

LEMMA NextKeeps == LocksInv /\ [Next]_vars => LocksInv'
<1> SUFFICES ASSUME LocksInv, [Next]_vars PROVE LocksInv'
  OBVIOUS
<1>1. CASE \E p \in Posting : Step(p) \/ Rollback(p)
  BY <1>1, StepKeeps
<1>2. CASE UNCHANGED vars
  <2>1. InTx' = InTx
    BY <1>2, SamePc DEF vars
  <2> QED BY <1>2, <2>1 DEF vars, LocksInv, TypeOK, EntriesInOrder, PassedInOrder,
                           EnsuredRowsExist, HeldRowsPassed, ReadersRead, PoolBounded
<1> QED BY <1>1, <1>2 DEF Next, Rest

LEMMA LocksInvariant == Spec => []LocksInv
BY InitLocks, NextKeeps, PTL DEF Spec

---------------------------------------------------------------------------
(* The order of the locks. *)

\* The row a call waits for in its present phase.
Awaited(p) == CHOOSE n \in Row : NextRow(p, n)

\* Where what a call waits for stands in the order: entries, keys, rows that
\* are being created, rows that are locked.
Rank(p) ==
  CASE pc[p] = "entry" -> IF NextEntry(p) \in JournalRow THEN 0 ELSE 1
    [] pc[p] = "ensure" -> 1 + Awaited(p)
    [] OTHER -> 1 + NumRows + Awaited(p)

LEMMA NextRowIsAwaited ==
  ASSUME NEW p \in Posting, NEW n \in Row, NextRow(p, n)
  PROVE  Awaited(p) = n
<1>1. ASSUME NEW m \in Row, NextRow(p, m) PROVE m = n
  <2>1. m <= n /\ n <= m
    BY <1>1 DEF NextRow
  <2> QED BY <2>1 DEF Row
<1> QED BY <1>1 DEF Awaited

\* A waiting call waits for an entry or for the row that comes next; its
\* holder is a call that waits for something further on in the order, if it
\* waits at all.
LEMMA WhatIsWaitedFor ==
  ASSUME LocksInv, NEW p \in Posting, NEW q \in WaitsFor(p)
  PROVE  /\ q \in InTx /\ q # p
         /\ \/ /\ pc[p] = "entry" /\ ~ EntriesLocked(p)
               /\ q = entryHeld[NextEntry(p)]
            \/ /\ pc[p] = "ensure" /\ Awaited(p) \in Row \ stored
               /\ NextRow(p, Awaited(p)) /\ q = rowHeld[Awaited(p)]
            \/ /\ pc[p] = "lock" /\ Awaited(p) \in Row
               /\ NextRow(p, Awaited(p)) /\ q = rowHeld[Awaited(p)]
<1>0. q \in Holder(p) /\ q # Nobody /\ q # p
  BY DEF WaitsFor
<1>1. CASE pc[p] = "entry" /\ ~ EntriesLocked(p)
  <2>1. q = entryHeld[NextEntry(p)]
    BY <1>0, <1>1 DEF Holder
  <2>2. NextEntry(p) \in EntryLock
    <3>1. entries[p] \in Nat /\ entries[p] <= Len(EntryLocks[p]) /\ entries[p] # Len(EntryLocks[p])
      BY <1>1 DEF LocksInv, EntriesInOrder, EntriesLocked, TypeOK
    <3>2. entries[p] + 1 \in 1 .. Len(EntryLocks[p])
      BY <3>1, EntryLocksType
    <3> QED BY <3>2, EntryLocksType DEF NextEntry
  <2> QED BY <1>0, <1>1, <2>1, <2>2 DEF LocksInv, TypeOK
<1>2. CASE pc[p] = "ensure"
  <2>1. PICK n \in Row \ stored : NextRow(p, n) /\ q = rowHeld[n]
    BY <1>0, <1>2 DEF Holder
  <2>2. Awaited(p) = n
    BY <2>1, NextRowIsAwaited
  <2> QED BY <1>0, <1>2, <2>1, <2>2 DEF LocksInv, TypeOK
<1>3. CASE pc[p] = "lock"
  <2>1. PICK n \in Row : NextRow(p, n) /\ q = rowHeld[n]
    BY <1>0, <1>3 DEF Holder
  <2>2. Awaited(p) = n
    BY <2>1, NextRowIsAwaited
  <2> QED BY <1>0, <1>3, <2>1, <2>2 DEF LocksInv, TypeOK
<1> QED BY <1>0, <1>1, <1>2, <1>3 DEF Holder

LEMMA RankBounded ==
  ASSUME LocksInv, NEW p \in Posting, WaitsFor(p) # {}
  PROVE  Rank(p) \in 0 .. 1 + 2 * NumRows
<1>1. PICK q : q \in WaitsFor(p)
  OBVIOUS
<1>2. \/ pc[p] = "entry"
      \/ pc[p] \in {"ensure", "lock"} /\ Awaited(p) \in Row
  BY <1>1, WhatIsWaitedFor
<1>3. NumRows \in Nat
  BY BoundsAssumption
<1>4. CASE pc[p] = "entry"
  BY <1>3, <1>4 DEF Rank
<1>5. CASE pc[p] = "ensure" /\ Awaited(p) \in Row
  BY <1>3, <1>5 DEF Rank, Row
<1>6. CASE pc[p] = "lock" /\ Awaited(p) \in Row
  BY <1>3, <1>6 DEF Rank, Row
<1> QED BY <1>2, <1>4, <1>5, <1>6

LEMMA RankGrows ==
  ASSUME LocksInv, NEW p \in Posting, NEW q \in WaitsFor(p), WaitsFor(q) # {}
  PROVE  Rank(p) < Rank(q)
<1>0. NumRows \in Nat
  BY BoundsAssumption
<1>1. q \in Posting /\ q \in InTx /\ q # p
  BY WhatIsWaitedFor DEF InTx
<1>2. PICK r \in WaitsFor(q) : TRUE
  OBVIOUS
<1>3. \/ pc[q] = "entry" /\ ~ EntriesLocked(q)
      \/ pc[q] = "ensure" /\ Awaited(q) \in Row \ stored /\ NextRow(q, Awaited(q))
      \/ pc[q] = "lock" /\ Awaited(q) \in Row /\ NextRow(q, Awaited(q))
  BY <1>1, <1>2, WhatIsWaitedFor
<1>4. CASE pc[p] = "entry"
  <2>1. ~ EntriesLocked(p) /\ q = entryHeld[NextEntry(p)]
    BY <1>4, WhatIsWaitedFor
  <2>2. CASE pc[q] = "entry"
    <3> DEFINE j == entries[q] + 1
    <3>1. entries[q] \in Nat /\ entries[q] <= Len(EntryLocks[q]) /\ entries[q] # Len(EntryLocks[q])
      BY <1>1, <1>3, <2>2 DEF LocksInv, EntriesInOrder, EntriesLocked, TypeOK
    <3>2. j \in DOMAIN EntryLocks[q]
      BY <1>1, <3>1, EntryLocksType
    <3>3. NextEntry(p) \in EntryLock
      <4>1. entries[p] \in Nat /\ entries[p] <= Len(EntryLocks[p]) /\ entries[p] # Len(EntryLocks[p])
        BY <2>1 DEF LocksInv, EntriesInOrder, EntriesLocked, TypeOK
      <4>2. entries[p] + 1 \in 1 .. Len(EntryLocks[p])
        BY <4>1, EntryLocksType
      <4> QED BY <4>2, EntryLocksType DEF NextEntry
    <3>4. PICK i \in 1 .. entries[q] : EntryLocks[q][i] = NextEntry(p)
      BY <1>1, <2>1, <3>3 DEF LocksInv, EntriesInOrder
    <3>5. i \in DOMAIN EntryLocks[q] /\ i < j
      BY <1>1, <3>1, EntryLocksType
    <3>6. NextEntry(p) \in JournalRow /\ NextEntry(q) \in IdemKey
      BY <1>1, <3>2, <3>4, <3>5, EntryOrderAssumption DEF NextEntry
    <3> QED BY <1>4, <2>2, <3>6, EntryOrderAssumption DEF Rank
  <2>3. CASE pc[q] \in {"ensure", "lock"}
    <3>1. Awaited(q) \in Nat /\ Awaited(q) >= 1
      BY <1>3, <2>3 DEF Row
    <3> QED BY <1>0, <1>4, <2>3, <3>1 DEF Rank
  <2> QED BY <1>3, <2>2, <2>3
<1>5. CASE pc[p] \in {"ensure", "lock"}
  <2> DEFINE n == Awaited(p)
  <2>1. n \in Row /\ NextRow(p, n) /\ q = rowHeld[n]
    BY <1>5, WhatIsWaitedFor
  <2>2. pc[q] \in {"ensure", "lock"} /\ n \in RowsOf[q]
    BY <1>1, <1>3, <2>1 DEF LocksInv, HeldRowsPassed
  <2>3. Awaited(q) \in Row /\ Awaited(q) \in RowsOf[q] \ passed[q]
    BY <1>3, <2>2 DEF NextRow
  <2>4. CASE pc[q] = "ensure"
    <3>1. n \in passed[q] /\ n \notin stored
      BY <1>1, <2>1, <2>4 DEF LocksInv, HeldRowsPassed
    <3>2. pc[p] = "ensure"
      <4>1. pc[p] = "lock" => n \in stored \/ rowHeld[n] = p
        BY <2>1 DEF LocksInv, EnsuredRowsExist, NextRow
      <4> QED BY <1>1, <1>5, <2>1, <3>1, <4>1
    <3>3. n < Awaited(q)
      BY <1>1, <2>3, <3>1 DEF LocksInv, PassedInOrder
    <3> QED BY <1>0, <2>1, <2>3, <2>4, <3>2, <3>3 DEF Rank, Row
  <2>5. CASE pc[q] = "lock"
    <3>1. CASE pc[p] = "ensure"
      BY <1>0, <2>1, <2>3, <2>5, <3>1 DEF Rank, Row
    <3>2. CASE pc[p] = "lock"
      <4>1. n \in stored
        BY <1>1, <2>1, <3>2 DEF LocksInv, EnsuredRowsExist, NextRow
      <4>2. n \in passed[q]
        BY <1>1, <2>1, <2>5, <4>1 DEF LocksInv, HeldRowsPassed
      <4>3. n < Awaited(q)
        BY <1>1, <2>3, <4>2 DEF LocksInv, PassedInOrder
      <4> QED BY <1>0, <2>1, <2>3, <2>5, <3>2, <4>3 DEF Rank, Row
    <3> QED BY <1>5, <3>1, <3>2
  <2> QED BY <2>2, <2>4, <2>5
<1> QED BY <1>4, <1>5, WhatIsWaitedFor

\* A set of calls in which each waits has one that waits for what comes last
\* in the order.
LEMMA LastInOrder ==
  ASSUME LocksInv, NEW S \in SUBSET Posting, S # {}, \A p \in S : WaitsFor(p) # {}
  PROVE  \E p \in S : \A q \in S : Rank(q) <= Rank(p)
<1> DEFINE Top == 1 + 2 * NumRows
           T == {Top - Rank(p) : p \in S}
<1>0. NumRows \in Nat /\ \A p \in S : Rank(p) \in 0 .. Top
  BY BoundsAssumption, RankBounded
<1>1. T \subseteq Nat /\ T # {}
  BY <1>0
<1>2. PICK x \in T : \A y \in T : ~ (<<y, x>> \in OpToRel(<, Nat))
  BY <1>1, NatLessThanWellFounded, WFMin
<1>3. \A y \in T : x <= y
  <2> SUFFICES ASSUME NEW y \in T PROVE x <= y
    OBVIOUS
  <2>1. x \in Nat /\ y \in Nat /\ <<y, x>> \in Nat \X Nat
    BY <1>1, <1>2
  <2>2. <<y, x>> \notin OpToRel(<, Nat)
    BY <1>2
  <2>3. ~ (y < x)
    BY <2>1, <2>2 DEF OpToRel
  <2> QED BY <2>1, <2>3
<1>4. PICK p \in S : x = Top - Rank(p)
  BY <1>2
<1>5. ASSUME NEW q \in S PROVE Rank(q) <= Rank(p)
  <2>1. Top - Rank(p) <= Top - Rank(q)
    BY <1>3, <1>4
  <2> QED BY <1>0, <2>1
<1> QED BY <1>4, <1>5

LEMMA InvNoLockCycle == LocksInv => NoLockCycle
<1> SUFFICES ASSUME LocksInv, NEW S \in (SUBSET Posting) \ {{}},
                    \A p \in S : WaitsFor(p) \cap S # {}
             PROVE  FALSE
  BY DEF NoLockCycle
<1>1. PICK p \in S : \A q \in S : Rank(q) <= Rank(p)
  <2>1. S # {} /\ \A p \in S : WaitsFor(p) # {}
    OBVIOUS
  <2> QED BY <2>1, LastInOrder
<1>2. PICK q \in S : q \in WaitsFor(p)
  OBVIOUS
<1>3. WaitsFor(q) # {} /\ WaitsFor(p) # {}
  OBVIOUS
<1>4. Rank(p) < Rank(q) /\ Rank(q) <= Rank(p)
  BY <1>1, <1>2, <1>3, RankGrows
<1>5. Rank(p) \in Nat /\ Rank(q) \in Nat
  BY <1>3, RankBounded, BoundsAssumption
<1> QED BY <1>4, <1>5

LEMMA InvOnlyThePoolStalls == LocksInv => OnlyThePoolStalls
<1> SUFFICES ASSUME LocksInv, Stalled
             PROVE  Cardinality(InTx) = pool /\ \E p \in InTx : WaitsForConnection(p)
  BY DEF OnlyThePoolStalls
<1>1. PICK p \in InTx : WaitsFor(p) \cap InTx = {}
  BY InvNoLockCycle, TxFinite DEF NoLockCycle, Stalled
<1>2. WaitsForConnection(p)
  <2>1. WaitsFor(p) \subseteq InTx
    BY WhatIsWaitedFor, TxFinite
  <2> QED BY <1>1, <2>1 DEF Stalled, InTx
<1>3. reading = {}
  <2> SUFFICES ASSUME NEW r \in reading PROVE FALSE
    OBVIOUS
  <2>1. r \in Posting /\ pc[r] \in {"before", "after"}
    BY TxFinite DEF LocksInv, ReadersRead
  <2>2. WaitsFor(r) = {}
    BY <2>1 DEF WaitsFor, Holder
  <2> QED BY <2>1, <2>2 DEF Stalled, WaitsForConnection
<1>4. Cardinality(reading) = 0
  BY <1>3, FS_EmptySet
<1>5. Cardinality(InTx) = pool
  BY <1>2, <1>4, TxFinite DEF WaitsForConnection, ConnectionFree, LocksInv, PoolBounded
<1> QED BY <1>2, <1>5

---------------------------------------------------------------------------

\* Entries, keys, rows and connections are held by open transactions only
\* (Finish at every return of the posting calls).
THEOREM TypeCorrect == Spec => []TypeOK
<1>1. LocksInv => TypeOK
  BY DEF LocksInv
<1> QED BY <1>1, LocksInvariant, PTL

\* No set of postings waits for one another's rows and keys
\* (EnsureAndLockBalances: "the deterministic lock order prevents deadlocks
\* between concurrent entries sharing accounts").
THEOREM LockOrderPreventsDeadlock == Spec => []NoLockCycle
BY LocksInvariant, InvNoLockCycle, PTL

\* Postings come to a standstill only when each connection of the pool is the
\* transaction connection of a waiting posting and one of them waits for a
\* second connection (posting_service reads on s.db inside a transaction).
THEOREM StandstillNeedsThePool == Spec => []OnlyThePoolStalls
BY LocksInvariant, InvOnlyThePoolStalls, PTL

=============================================================================
