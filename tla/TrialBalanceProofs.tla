------------------------- MODULE TrialBalanceProofs -------------------------
(***************************************************************************)
(* Theorems about TrialBalance, for any entries, concurrent rebuilds and   *)
(* dates: its types, that no balance counts an entry twice, that a missing *)
(* entry is found again, and that a rebuild is complete.                   *)
(***************************************************************************)
EXTENDS TrialBalance, WellFoundedInduction, TLAPS

---------------------------------------------------------------------------
(* The inductive invariant. *)

\* Entries that a transaction has written, whether it has committed or not.
Live == {e \in Entry : status[e] # "new"}

\* Every transaction has its own timestamp, and rows are as old as the
\* transaction that stored them.
TimesDiffer ==
  /\ \A e \in Live : began[e] <= clock
  /\ \A b \in Rebuild : start[b] <= clock
  /\ \A d \in Date : rebuiltAt[d] <= clock
  /\ \A e \in Live : \A b \in Rebuild : began[e] # start[b]

\* Rows add up committed entries of their date or before, each once.
CountsOnce(t) ==
  \A d \in Date, e \in Entry :
    /\ t[d][e] <= 1
    /\ t[d][e] > 0 => e \in Committed /\ accounting[e] <= d

\* An entry that a stored date should count and does not is in no later date:
\* later dates were carried from it or it was computed after them.
Monotone(t) ==
  \A c \in Stored(t), d \in Date, e \in Entry :
    c < d /\ accounting[e] <= c /\ t[c][e] = 0 => t[d][e] = 0

\* The advisory lock is held from the dirty-date query to the end.
LockHeld ==
  /\ \A b \in Rebuild : pc[b] \in {"find", "build"} <=> lock = b
  /\ lock = Nobody \/ pc[lock] = "find" => todo = {} /\ done = {} /\ seen = {}
  /\ seen \subseteq Committed

\* What the lock's holder sees: the committed rows, those of the dates it has
\* rebuilt apart, which count no less.
DraftFollowsRows ==
  /\ \A d \in Date \ done : draft[d] = rows[d]
  /\ \A d \in Date, e \in Entry : rows[d][e] <= draft[d][e]

\* The dates a call rebuilds: in order, up to the requested one, and with one
\* of them every stored date after it; all but the requested one are stored.
InTurn(b) ==
  /\ toDate[b] \in todo \cup done
  /\ \A d \in todo \cup done : d <= toDate[b] /\ (d = toDate[b] \/ d \in Stored(rows))
  /\ \A c \in done, d \in todo : c < d
  /\ \A c \in todo \cup done, d \in Stored(draft) :
       c <= d /\ d <= toDate[b] => d \in todo \cup done

\* A rebuilt date counts what the date stored before it counts, and what any
\* date rebuilt before it counts.
CarriedOver ==
  /\ \A c \in done, d \in done, e \in Entry : c <= d /\ draft[c][e] = 1 => draft[d][e] = 1
  /\ \A d \in done, p \in Date, e \in Entry :
       IsGreatest(p, {c \in Stored(draft) : c < d}) /\ draft[p][e] = 1 => draft[d][e] = 1

\* A rebuilt date counts the entries it is the first to cover, if they were
\* committed in time.
FirstCounts(b) ==
  \A c \in done, e \in Live \ forgotten :
    /\ Covers(c, e, Stored(draft))
    /\ began[e] < start[b] \/ e \in seen
    => draft[c][e] = 1

\* A date that is not rebuilt was younger than every entry it is the first to
\* cover.
CleanAreYounger(b) ==
  \A c \in Stored(rows) \ (todo \cup done), e \in seen :
    Covers(c, e, {d \in Stored(rows) : d < toDate[b]}) => began[e] <= rebuiltAt[c]

Building ==
  \A b \in Rebuild :
    pc[b] = "build" => InTurn(b) /\ CarriedOver /\ FirstCounts(b) /\ CleanAreYounger(b)

\* MissingIsDirty, of the entries too that have not committed yet.
LiveMissingIsDirty ==
  \A d \in Stored(rows), e \in Live \ forgotten :
    accounting[e] <= d /\ rows[d][e] = 0 =>
      \A c \in Stored(rows) : Covers(c, e, Stored(rows)) => began[e] > rebuiltAt[c]

TrialInv ==
  /\ TypeOK
  /\ TimesDiffer
  /\ CountsOnce(rows) /\ CountsOnce(draft)
  /\ Monotone(rows) /\ Monotone(draft)
  /\ LockHeld
  /\ DraftFollowsRows
  /\ Building
  /\ LiveMissingIsDirty

---------------------------------------------------------------------------
(* Dates. *)

LEMMA LeastExists ==
  ASSUME NEW D \in SUBSET Date, D # {}
  PROVE  \E d \in D : IsLeast(d, D)
<1>1. D \subseteq Nat
  BY BoundsAssumption DEF Date
<1>2. PICK x \in D : \A y \in D : ~ (<<y, x>> \in OpToRel(<, Nat))
  BY <1>1, NatLessThanWellFounded, WFMin
<1>3. ASSUME NEW y \in D PROVE x <= y
  <2>1. x \in Nat /\ y \in Nat /\ <<y, x>> \in Nat \X Nat
    BY <1>1, <1>2
  <2>2. <<y, x>> \notin OpToRel(<, Nat)
    BY <1>2
  <2>3. ~ (y < x)
    BY <2>1, <2>2 DEF OpToRel
  <2> QED BY <2>1, <2>3
<1> QED BY <1>3 DEF IsLeast

LEMMA GreatestExists ==
  ASSUME NEW D \in SUBSET Date, D # {}
  PROVE  \E d \in D : IsGreatest(d, D)
<1> DEFINE T == {LastDate + 1 - d : d \in D}
<1>1. LastDate \in Nat /\ \A d \in D : d \in 1 .. LastDate
  BY BoundsAssumption DEF Date
<1>2. T \subseteq Date /\ T # {}
  <2>1. ASSUME NEW d \in D PROVE LastDate + 1 - d \in 1 .. LastDate
    BY <1>1
  <2> QED BY <2>1 DEF Date
<1>3. PICK x \in T : IsLeast(x, T)
  BY <1>2, LeastExists
<1>4. PICK d \in D : x = LastDate + 1 - d
  BY <1>3
<1>5. ASSUME NEW c \in D PROVE c <= d
  <2>1. LastDate + 1 - d <= LastDate + 1 - c
    BY <1>3, <1>4 DEF IsLeast
  <2> QED BY <1>1, <2>1
<1> QED BY <1>5 DEF IsGreatest

LEMMA GreatestUnique ==
  ASSUME NEW D \in SUBSET Date, NEW c, NEW d, IsGreatest(c, D), IsGreatest(d, D)
  PROVE  c = d
BY BoundsAssumption DEF IsGreatest, Date

LEMMA DatesAreNat == Date \subseteq Nat /\ \A d \in Date : d >= 1
BY BoundsAssumption DEF Date

---------------------------------------------------------------------------
(* The rows of a date. *)

Table == [Date -> [Entry -> Nat]]
Before(t, d) == {c \in Stored(t) : c < d}

\* On its date and after, up to the date, and after the date stored before.
LEMMA CloseOfFirst ==
  ASSUME NEW t, NEW d, NEW e \in Entry, Before(t, d) = {}
  PROVE  CloseOf(t, d)[e] =
           0 + (IF e \in Committed /\ 0 < accounting[e] /\ accounting[e] <= d THEN 1 ELSE 0)
BY DEF CloseOf, Before

LEMMA CloseOfNext ==
  ASSUME NEW t, NEW d, NEW e \in Entry, NEW p, IsGreatest(p, Before(t, d))
  PROVE  CloseOf(t, d)[e] =
           t[p][e] + (IF e \in Committed /\ p < accounting[e] /\ accounting[e] <= d THEN 1 ELSE 0)
<1> DEFINE q == CHOOSE c \in Before(t, d) : IsGreatest(c, Before(t, d))
<1>1. Before(t, d) # {} /\ Before(t, d) \subseteq Date
  BY DEF IsGreatest, Before, Stored
<1>2. IsGreatest(q, Before(t, d))
  BY DEF IsGreatest
<1>3. q = p
  BY <1>1, <1>2, GreatestUnique
<1>4. CloseOf(t, d)[e] =
        t[q][e] + (IF e \in Committed /\ q < accounting[e] /\ accounting[e] <= d THEN 1 ELSE 0)
  BY <1>1 DEF CloseOf, Before
<1> QED BY <1>3, <1>4

LEMMA CloseOfType ==
  ASSUME TypeOK, NEW t \in Table, NEW d \in Date
  PROVE  CloseOf(t, d) \in [Entry -> Nat]
<1>1. CloseOf(t, d) = [e \in Entry |-> CloseOf(t, d)[e]]
  BY DEF CloseOf
<1>2. ASSUME NEW e \in Entry PROVE CloseOf(t, d)[e] \in Nat
  <2>1. CASE Before(t, d) = {}
    BY <2>1, CloseOfFirst
  <2>2. CASE Before(t, d) # {}
    <3>1. PICK p \in Before(t, d) : IsGreatest(p, Before(t, d))
      BY <2>2, GreatestExists DEF Before, Stored
    <3>2. t[p][e] \in Nat
      BY DEF Table, Before, Stored
    <3> QED BY <3>1, <3>2, CloseOfNext
  <2> QED BY <2>1, <2>2
<1> QED BY <1>1, <1>2

\* What the rows of a rebuilt date count.
LEMMA CloseOfCounts ==
  ASSUME TypeOK, NEW t \in Table, NEW d \in Date, NEW e \in Entry,
         CountsOnce(t), Monotone(t),
         NEW n, n = CloseOf(t, d)[e]
  PROVE  /\ n \in {0, 1}
         /\ n > 0 => e \in Committed /\ accounting[e] <= d
         /\ t[d][e] <= n
         /\ \A p \in Date :
              IsGreatest(p, Before(t, d)) /\ t[p][e] = 1 => n = 1
         /\ e \in Committed /\ accounting[e] <= d /\ (\A c \in Before(t, d) : c < accounting[e])
              => n = 1
         /\ n = 0 /\ e \in Committed /\ accounting[e] <= d =>
              \E p \in Before(t, d) :
                /\ IsGreatest(p, Before(t, d))
                /\ accounting[e] <= p /\ t[p][e] = 0
         /\ \A p \in Date :
              IsGreatest(p, Before(t, d)) /\ accounting[e] <= p => n = t[p][e]
<1>0. /\ accounting[e] \in Date /\ accounting[e] \in Nat /\ accounting[e] >= 1 /\ d \in Nat
      /\ \A c \in Date : t[c][e] \in Nat
  BY DatesAreNat DEF TypeOK, Table
<1>1. t[d][e] <= 1 /\ (t[d][e] > 0 => e \in Committed /\ accounting[e] <= d)
  BY DEF CountsOnce
<1>2. CASE Before(t, d) = {}
  <2>1. n = IF e \in Committed /\ accounting[e] <= d THEN 1 ELSE 0
    BY <1>0, <1>2, CloseOfFirst
  <2>2. \A p \in Date : ~ IsGreatest(p, Before(t, d))
    BY <1>2 DEF IsGreatest
  <2> QED BY <1>0, <1>1, <1>2, <2>1, <2>2
<1>3. CASE Before(t, d) # {}
  <2>1. PICK p \in Before(t, d) : IsGreatest(p, Before(t, d))
    BY <1>3, GreatestExists DEF Before, Stored
  <2>2. p \in Date /\ p \in Nat /\ p < d /\ p \in Stored(t)
    BY DatesAreNat DEF Before, Stored
  <2>3. n = t[p][e] + (IF e \in Committed /\ p < accounting[e] /\ accounting[e] <= d THEN 1 ELSE 0)
    BY <2>1, CloseOfNext
  <2>4. \A q \in Date : IsGreatest(q, Before(t, d)) => q = p
    BY <2>1, GreatestUnique DEF Before, Stored
  <2>5. t[p][e] <= 1 /\ (t[p][e] > 0 => e \in Committed /\ accounting[e] <= p)
    BY <2>2 DEF CountsOnce
  <2>6. accounting[e] <= p /\ t[p][e] = 0 => t[d][e] = 0
    BY <2>2 DEF Monotone
  <2> QED BY <1>0, <1>1, <2>1, <2>2, <2>3, <2>4, <2>5, <2>6
<1> QED BY <1>2, <1>3

---------------------------------------------------------------------------
(* Types. *)

LEMMA InitTypes == Init => TypeOK
<1>1. 1 \in Date /\ MaxClock \in Nat /\ 0 \in 0 .. MaxClock
  BY BoundsAssumption DEF Date
<1> QED BY <1>1 DEF Init, TypeOK, Nothing

LEMMA TickType == TypeOK /\ Tick => clock' \in 0 .. MaxClock /\ clock' = clock + 1
BY BoundsAssumption DEF TypeOK, Tick

LEMMA NextTypes == TypeOK /\ [Next]_vars => TypeOK'
<1> SUFFICES ASSUME TypeOK, [Next]_vars PROVE TypeOK'
  OBVIOUS
<1>0. 1 \in Date /\ MaxClock \in Nat
  BY BoundsAssumption DEF Date
<1>1. ASSUME NEW e \in Entry, NEW a \in Date, BeginEntry(e, a) PROVE TypeOK'
  BY <1>1, TickType DEF BeginEntry, TypeOK, table, call
<1>2. ASSUME NEW e \in Entry, CommitEntry(e) PROVE TypeOK'
  BY <1>2 DEF CommitEntry, TypeOK, table, call
<1>3. ASSUME NEW e \in Entry, RollbackEntry(e) PROVE TypeOK'
  BY <1>0, <1>3 DEF RollbackEntry, TypeOK, table, call
<1>4. ASSUME NEW b \in Rebuild, NEW d \in Date, BeginRebuild(b, d) PROVE TypeOK'
  BY <1>4, TickType DEF BeginRebuild, TypeOK, table, journal
<1>5. ASSUME NEW b \in Rebuild, LockTenant(b) PROVE TypeOK'
  BY <1>5 DEF LockTenant, TypeOK, table, journal, call
<1>6. ASSUME NEW b \in Rebuild, FindDirty(b) PROVE TypeOK'
  <2>1. todo' \subseteq Date /\ seen' \subseteq Entry
    BY <1>6 DEF FindDirty, Stored, Committed, TypeOK
  <2>2. /\ pc' \in [Rebuild -> {"idle", "lock", "find", "build"}]
        /\ UNCHANGED <<clock, journal, table, lock, draft, call, done, forgotten>>
    BY <1>6 DEF FindDirty, TypeOK
  <2> QED BY <2>1, <2>2 DEF TypeOK, table, journal, call
<1>7. ASSUME NEW b \in Rebuild, RebuildDate(b) PROVE TypeOK'
  <2>1. PICK d \in todo :
          /\ draft' = [draft EXCEPT ![d] = CloseOf(draft, d)]
          /\ todo' = todo \ {d} /\ done' = done \cup {d}
          /\ forgotten' = forgotten \cup
               {e \in Entry : /\ status[e] = "open"
                              /\ Covers(d, e, Stored(draft) \cup {d})
                              /\ began[e] < start[b]}
    BY <1>7 DEF RebuildDate
  <2>2. d \in Date /\ draft \in Table
    BY DEF TypeOK, Table
  <2>3. draft' \in Table
    BY <2>1, <2>2, CloseOfType DEF Table
  <2>4. UNCHANGED <<clock, journal, table, lock, pc, call, seen>>
    BY <1>7 DEF RebuildDate
  <2>5. forgotten' \subseteq Entry
    BY <2>1 DEF TypeOK
  <2> QED BY <2>1, <2>2, <2>3, <2>4, <2>5 DEF TypeOK, Table, table, journal, call
<1>8. ASSUME NEW b \in Rebuild, Return(b)
      PROVE  /\ lock' \in Rebuild \cup {Nobody}
             /\ pc' \in [Rebuild -> {"idle", "lock", "find", "build"}]
             /\ todo' \subseteq Date /\ done' \subseteq Date /\ seen' \subseteq Entry
  BY <1>8 DEF Return, TypeOK
<1>9. ASSUME NEW b \in Rebuild, CommitRebuild(b) PROVE TypeOK'
  <2>1. rebuiltAt' \in [Date -> 0 .. MaxClock]
    BY <1>0, <1>9 DEF CommitRebuild, TypeOK
  <2>2. forgotten' \subseteq Entry
    BY <1>9 DEF CommitRebuild, TypeOK, Committed
  <2>3. rows' = draft /\ UNCHANGED <<clock, journal, draft, call>> /\ Return(b)
    BY <1>9 DEF CommitRebuild
  <2> QED BY <1>8, <2>1, <2>2, <2>3 DEF TypeOK, journal, call
<1>10. ASSUME NEW b \in Rebuild, RollbackRebuild(b) PROVE TypeOK'
  <2>1. /\ draft' = IF lock = b THEN rows ELSE draft
        /\ UNCHANGED <<clock, journal, table, call, forgotten>> /\ Return(b)
    BY <1>10 DEF RollbackRebuild
  <2> QED BY <1>8, <2>1 DEF TypeOK, journal, table, call
<1>11. CASE UNCHANGED vars
  BY <1>11 DEF vars, TypeOK
<1> QED BY <1>1, <1>2, <1>3, <1>4, <1>5, <1>6, <1>7, <1>9, <1>10, <1>11 DEF Next, Rest

---------------------------------------------------------------------------
(* The invariant, initially and after each action. *)

LEMMA InitTrial == Init => TrialInv
<1> SUFFICES ASSUME Init PROVE TrialInv
  OBVIOUS
<1>1. TypeOK
  BY InitTypes
<1>2. Stored(rows) = {} /\ Stored(draft) = {} /\ Live = {} /\ Committed = {}
  BY DEF Init, Nothing, Stored, Live, Committed
<1>3. TimesDiffer
  BY <1>2 DEF Init, TimesDiffer
<1>4. CountsOnce(rows) /\ CountsOnce(draft)
  BY DEF Init, Nothing, CountsOnce
<1>5. Monotone(rows) /\ Monotone(draft)
  BY <1>2 DEF Monotone
<1>6. LockHeld
  BY RebuildAssumption DEF Init, LockHeld
<1>7. DraftFollowsRows
  BY DEF Init, Nothing, DraftFollowsRows
<1>8. Building
  BY DEF Init, Building
<1>9. LiveMissingIsDirty
  BY <1>2 DEF LiveMissingIsDirty
<1> QED BY <1>1, <1>3, <1>4, <1>5, <1>6, <1>7, <1>8, <1>9 DEF TrialInv

\* What an entry's transaction does to the journal: entry i appears, commits
\* or disappears, and if it appears it is younger than anything else.
JournalStep(i) ==
  /\ UNCHANGED <<rows, rebuiltAt, lock, draft, pc, toDate, start, todo, done, seen>>
  /\ clock <= clock'
  /\ \A e \in Entry : e # i =>
       /\ status'[e] = status[e] /\ accounting'[e] = accounting[e] /\ began'[e] = began[e]
       /\ e \in forgotten' <=> e \in forgotten
  /\ i \notin Committed
  /\ i \in Live' =>
       \/ began'[i] = clock' /\ clock' > clock
       \/ /\ i \in Live
          /\ accounting'[i] = accounting[i] /\ began'[i] = began[i]
          /\ i \in forgotten' <=> i \in forgotten

LEMMA JournalSteps ==
  ASSUME TypeOK, TypeOK', NEW i \in Entry,
         CommitEntry(i) \/ RollbackEntry(i) \/ \E a \in Date : BeginEntry(i, a)
  PROVE  JournalStep(i)
<1>0. clock \in Nat
  BY BoundsAssumption DEF TypeOK
<1>1. CASE CommitEntry(i)
  BY <1>0, <1>1 DEF CommitEntry, JournalStep, table, call, Committed, Live, TypeOK
<1>2. CASE RollbackEntry(i)
  BY <1>0, <1>2 DEF RollbackEntry, JournalStep, table, call, Committed, Live, TypeOK
<1>3. ASSUME NEW a \in Date, BeginEntry(i, a) PROVE JournalStep(i)
  <2>1. clock' = clock + 1 /\ clock' > clock
    BY <1>0, <1>3, TickType DEF BeginEntry
  <2> QED BY <1>0, <1>3, <2>1 DEF BeginEntry, JournalStep, table, call, Committed, Live, TypeOK
<1> QED BY <1>1, <1>2, <1>3

\* Every other entry is what it was, for every table.
LEMMA JournalSame ==
  ASSUME TrialInv, NEW i \in Entry, JournalStep(i)
  PROVE  /\ Committed \subseteq Committed'
         /\ \A e \in Committed : accounting'[e] = accounting[e]
         /\ \A e \in Entry : e # i => (e \in Live' <=> e \in Live)
         /\ \A d \in Date : rows[d][i] = 0 /\ draft[d][i] = 0
         /\ i \notin seen
<1>1. \A e \in Entry : e # i => (e \in Committed' <=> e \in Committed) /\ (e \in Live' <=> e \in Live)
  BY DEF JournalStep, Committed, Live
<1>2. i \notin Committed /\ \A e \in Committed : e # i /\ e \in Entry
  BY DEF JournalStep, Committed
<1>3. \A e \in Committed : accounting'[e] = accounting[e]
  BY <1>2 DEF JournalStep
<1>4. ASSUME NEW d \in Date PROVE rows[d][i] = 0 /\ draft[d][i] = 0
  <2>1. rows[d][i] \in Nat /\ draft[d][i] \in Nat
    BY DEF TrialInv, TypeOK
  <2> QED BY <1>2, <2>1 DEF TrialInv, CountsOnce
<1>5. i \notin seen
  BY <1>2 DEF TrialInv, LockHeld
<1> QED BY <1>1, <1>2, <1>3, <1>4, <1>5

LEMMA JournalKeeps ==
  ASSUME TrialInv, TypeOK', NEW i \in Entry, JournalStep(i)
  PROVE  TrialInv'
<1>0. TypeOK
  BY DEF TrialInv
<1>1. /\ UNCHANGED <<rows, rebuiltAt, lock, draft, pc, toDate, start, todo, done, seen>>
      /\ clock <= clock' /\ clock \in Nat /\ clock' \in Nat
      /\ Stored(rows)' = Stored(rows) /\ Stored(draft)' = Stored(draft)
  BY <1>0, BoundsAssumption DEF JournalStep, TypeOK, Stored
<1>2. \A e \in Entry : e # i =>
        /\ accounting'[e] = accounting[e] /\ began'[e] = began[e]
        /\ e \in forgotten' <=> e \in forgotten
        /\ e \in Live' <=> e \in Live
  BY JournalSame DEF JournalStep
<1>3. /\ i \notin Committed /\ i \notin seen
      /\ \A d \in Date : rows[d][i] = 0 /\ draft[d][i] = 0
  BY JournalSame DEF JournalStep
<1>4. i \in Live' =>
        \/ began'[i] = clock' /\ clock' > clock
        \/ /\ i \in Live
           /\ accounting'[i] = accounting[i] /\ began'[i] = began[i]
           /\ i \in forgotten' <=> i \in forgotten
  BY DEF JournalStep
<1>5. TimesDiffer'
  <2>1. \A b \in Rebuild : start[b] <= clock /\ start[b] \in Nat
    BY <1>0, BoundsAssumption DEF TrialInv, TimesDiffer, TypeOK
  <2>2. \A d \in Date : rebuiltAt[d] <= clock /\ rebuiltAt[d] \in Nat
    BY <1>0, BoundsAssumption DEF TrialInv, TimesDiffer, TypeOK
  <2>3. ASSUME NEW e \in Live'
        PROVE  began'[e] <= clock' /\ \A b \in Rebuild : began'[e] # start[b]
    <3>1. CASE e \in Live /\ began'[e] = began[e]
      <4>1. began[e] <= clock /\ began[e] \in Nat
        BY <1>0, <3>1, BoundsAssumption DEF TrialInv, TimesDiffer, TypeOK, Live
      <4> QED BY <1>1, <3>1, <4>1 DEF TrialInv, TimesDiffer
    <3>2. CASE began'[e] = clock' /\ clock' > clock
      BY <1>1, <2>1, <3>2
    <3>3. e \in Entry
      BY DEF Live
    <3> QED BY <1>2, <1>4, <3>1, <3>2, <3>3
  <2>4. \A b \in Rebuild : start'[b] <= clock'
    BY <1>1, <2>1
  <2>5. \A d \in Date : rebuiltAt'[d] <= clock'
    BY <1>1, <2>2
  <2> QED BY <1>1, <2>3, <2>4, <2>5 DEF TimesDiffer
<1>6. CountsOnce(rows)' /\ CountsOnce(draft)'
  BY <1>1, JournalSame DEF TrialInv, CountsOnce
<1>7. Monotone(rows)' /\ Monotone(draft)'
  BY <1>1, <1>2, <1>3 DEF TrialInv, Monotone
<1>8. LockHeld' /\ DraftFollowsRows'
  BY <1>1, JournalSame DEF TrialInv, LockHeld, DraftFollowsRows
<1>9. ASSUME NEW b \in Rebuild, pc'[b] = "build"
      PROVE  /\ InTurn(b)' /\ CarriedOver' /\ FirstCounts(b)' /\ CleanAreYounger(b)'
  <2>1. InTurn(b) /\ CarriedOver /\ FirstCounts(b) /\ CleanAreYounger(b)
    BY <1>1, <1>9 DEF TrialInv, Building
  <2>2. InTurn(b)' /\ CarriedOver'
    BY <1>1, <2>1 DEF InTurn, CarriedOver
  <2>3. FirstCounts(b)'
    <3> SUFFICES ASSUME NEW c \in done, NEW e \in Live' \ forgotten',
                        Covers(c, e, Stored(draft))',
                        began'[e] < start[b] \/ e \in seen
                 PROVE  draft[c][e] = 1
      BY <1>1 DEF FirstCounts
    <3>0. e \in Entry
      BY DEF Live
    <3>1. ~ (began'[e] = clock' /\ clock' > clock)  \/ e \in seen
      BY <1>1, <1>0, BoundsAssumption DEF TrialInv, TimesDiffer, TypeOK
    <3>2. e \in Live \ forgotten /\ accounting'[e] = accounting[e] /\ began'[e] = began[e]
      BY <1>2, <1>3, <1>4, <3>0, <3>1
    <3>3. Covers(c, e, Stored(draft))
      BY <1>1, <3>2 DEF Covers
    <3> QED BY <2>1, <3>2, <3>3 DEF FirstCounts
  <2>4. CleanAreYounger(b)'
    <3> SUFFICES ASSUME NEW c \in Stored(rows) \ (todo \cup done), NEW e \in seen,
                        Covers(c, e, {d \in Stored(rows) : d < toDate[b]})'
                 PROVE  began'[e] <= rebuiltAt[c]
      BY <1>1 DEF CleanAreYounger
    <3>1. e \in Entry /\ e # i
      BY <1>3 DEF TrialInv, LockHeld, Committed
    <3>2. Covers(c, e, {d \in Stored(rows) : d < toDate[b]})
      BY <1>1, <1>2, <3>1 DEF Covers
    <3> QED BY <1>2, <2>1, <3>1, <3>2 DEF CleanAreYounger
  <2> QED BY <2>2, <2>3, <2>4
<1>10. LiveMissingIsDirty'
  <2> SUFFICES ASSUME NEW d \in Stored(rows), NEW e \in Live' \ forgotten',
                      accounting'[e] <= d, rows[d][e] = 0,
                      NEW c \in Stored(rows), Covers(c, e, Stored(rows))'
               PROVE  began'[e] > rebuiltAt[c]
    BY <1>1 DEF LiveMissingIsDirty
  <2>0. e \in Entry /\ c \in Date
    BY DEF Live, Stored
  <2>1. CASE began'[e] = clock' /\ clock' > clock
    BY <1>0, <1>1, <2>0, <2>1, BoundsAssumption DEF TrialInv, TimesDiffer, TypeOK
  <2>2. CASE e \in Live \ forgotten /\ accounting'[e] = accounting[e] /\ began'[e] = began[e]
    <3>1. Covers(c, e, Stored(rows))
      BY <1>1, <2>2 DEF Covers
    <3> QED BY <2>2, <3>1 DEF TrialInv, LiveMissingIsDirty
  <2> QED BY <1>2, <1>4, <2>0, <2>1, <2>2
<1> QED BY <1>5, <1>6, <1>7, <1>8, <1>9, <1>10 DEF TrialInv, Building

\* The other steps leave the journal alone.
LEMMA SameJournal ==
  ASSUME UNCHANGED journal
  PROVE  /\ UNCHANGED <<status, accounting, began>>
         /\ Committed' = Committed /\ Live' = Live
BY DEF journal, Committed, Live

LEMMA BeginRebuildKeeps ==
  ASSUME TrialInv, TypeOK', NEW b \in Rebuild, NEW d \in Date, BeginRebuild(b, d)
  PROVE  TrialInv'
<1>0. TypeOK /\ b # Nobody
  BY RebuildAssumption DEF TrialInv
<1>1. /\ UNCHANGED <<status, accounting, began, rows, rebuiltAt, lock, draft, todo, done, seen,
                     forgotten>>
      /\ Committed' = Committed /\ Live' = Live
      /\ Stored(rows)' = Stored(rows) /\ Stored(draft)' = Stored(draft)
  BY SameJournal DEF BeginRebuild, journal, table, Stored
<1>2. /\ pc[b] = "idle" /\ pc'[b] = "lock" /\ start'[b] = clock' /\ clock' = clock + 1
      /\ \A a \in Rebuild : a # b =>
           pc'[a] = pc[a] /\ start'[a] = start[a] /\ toDate'[a] = toDate[a]
  BY <1>0, TickType DEF BeginRebuild, TypeOK
<1>3. clock \in Nat /\ clock' \in Nat
  BY <1>0, <1>2, BoundsAssumption DEF TypeOK
<1>4. TimesDiffer'
  <2>1. \A e \in Live : began[e] <= clock /\ began[e] \in Nat
    BY <1>0, BoundsAssumption DEF TrialInv, TimesDiffer, TypeOK, Live
  <2>2. \A a \in Rebuild : start[a] <= clock /\ start[a] \in Nat
    BY <1>0, BoundsAssumption DEF TrialInv, TimesDiffer, TypeOK
  <2>3. \A c \in Date : rebuiltAt[c] <= clock /\ rebuiltAt[c] \in Nat
    BY <1>0, BoundsAssumption DEF TrialInv, TimesDiffer, TypeOK
  <2>4. ASSUME NEW e \in Live, NEW a \in Rebuild PROVE began[e] # start'[a]
    BY <1>2, <1>3, <2>1 DEF TrialInv, TimesDiffer
  <2>5. \A a \in Rebuild : start'[a] <= clock'
    BY <1>2, <1>3, <2>2
  <2> QED BY <1>1, <1>2, <1>3, <2>1, <2>3, <2>4, <2>5 DEF TimesDiffer
<1>5. /\ CountsOnce(rows)' /\ CountsOnce(draft)' /\ Monotone(rows)' /\ Monotone(draft)'
      /\ DraftFollowsRows'
  BY <1>1 DEF TrialInv, CountsOnce, Monotone, DraftFollowsRows
<1>6. LockHeld'
  <2>1. lock # b
    BY <1>2 DEF TrialInv, LockHeld
  <2>2. \A a \in Rebuild : pc'[a] \in {"find", "build"} <=> lock = a
    BY <1>2, <2>1 DEF TrialInv, LockHeld
  <2>3. lock = Nobody \/ pc'[lock] = "find" => todo = {} /\ done = {} /\ seen = {}
    BY <1>0, <1>2, <2>1 DEF TrialInv, LockHeld, TypeOK
  <2> QED BY <1>1, <2>2, <2>3 DEF TrialInv, LockHeld
<1>7. Building'
  <2> SUFFICES ASSUME NEW a \in Rebuild, pc'[a] = "build"
               PROVE  InTurn(a)' /\ CarriedOver' /\ FirstCounts(a)' /\ CleanAreYounger(a)'
    BY DEF Building
  <2>1. a # b /\ pc[a] = "build" /\ start'[a] = start[a] /\ toDate'[a] = toDate[a]
    BY <1>2
  <2>2. InTurn(a) /\ CarriedOver /\ FirstCounts(a) /\ CleanAreYounger(a)
    BY <2>1 DEF TrialInv, Building
  <2>3. InTurn(a)' /\ CarriedOver'
    BY <1>1, <2>1, <2>2 DEF InTurn, CarriedOver
  <2>4. FirstCounts(a)'
    BY <1>1, <2>1, <2>2 DEF FirstCounts, Covers
  <2>5. CleanAreYounger(a)'
    BY <1>1, <2>1, <2>2 DEF CleanAreYounger, Covers
  <2> QED BY <2>3, <2>4, <2>5
<1>8. LiveMissingIsDirty'
  BY <1>1 DEF TrialInv, LiveMissingIsDirty, Covers
<1> QED BY <1>4, <1>5, <1>6, <1>7, <1>8 DEF TrialInv

LEMMA LockTenantKeeps ==
  ASSUME TrialInv, TypeOK', NEW b \in Rebuild, LockTenant(b)
  PROVE  TrialInv'
<1>0. TypeOK /\ b # Nobody
  BY RebuildAssumption DEF TrialInv
<1>1. /\ UNCHANGED <<clock, status, accounting, began, rows, rebuiltAt, draft, toDate, start,
                     todo, done, seen, forgotten>>
      /\ Committed' = Committed /\ Live' = Live
      /\ Stored(rows)' = Stored(rows) /\ Stored(draft)' = Stored(draft)
  BY SameJournal DEF LockTenant, journal, table, call, Stored
<1>2. /\ pc'[b] = "find" /\ lock = Nobody /\ lock' = b
      /\ \A a \in Rebuild : a # b => pc'[a] = pc[a]
  BY <1>0 DEF LockTenant, TypeOK
<1>3. TimesDiffer' /\ CountsOnce(rows)' /\ CountsOnce(draft)' /\ Monotone(rows)' /\ Monotone(draft)'
      /\ DraftFollowsRows'
  BY <1>1 DEF TrialInv, TimesDiffer, CountsOnce, Monotone, DraftFollowsRows
<1>4. \A a \in Rebuild : pc[a] \notin {"find", "build"}
  BY <1>2, RebuildAssumption DEF TrialInv, LockHeld
<1>5. LockHeld'
  BY <1>1, <1>2, <1>4 DEF TrialInv, LockHeld
<1>6. Building'
  BY <1>2, <1>4 DEF Building
<1>7. LiveMissingIsDirty'
  BY <1>1 DEF TrialInv, LiveMissingIsDirty, Covers
<1> QED BY <1>3, <1>5, <1>6, <1>7 DEF TrialInv

LEMMA FindDirtyKeeps ==
  ASSUME TrialInv, TypeOK', NEW b \in Rebuild, FindDirty(b)
  PROVE  TrialInv'
<1> DEFINE T == toDate[b]
           dirty == DirtyBefore(T)
<1>0. TypeOK /\ b # Nobody
  BY RebuildAssumption DEF TrialInv
<1>1. /\ UNCHANGED <<clock, status, accounting, began, rows, rebuiltAt, lock, draft, toDate, start,
                     done, forgotten>>
      /\ Committed' = Committed /\ Live' = Live
      /\ Stored(rows)' = Stored(rows) /\ Stored(draft)' = Stored(draft)
  BY SameJournal DEF FindDirty, journal, table, call, Stored
<1>2. /\ pc[b] = "find" /\ pc'[b] = "build" /\ seen' = Committed
      /\ \A a \in Rebuild : a # b => pc'[a] = pc[a]
      /\ todo' = {T} \cup {d \in Stored(rows) : d < T /\ \E c \in dirty : c <= d}
  BY <1>0 DEF FindDirty, TypeOK
<1>3. /\ lock = b /\ done = {} /\ \A a \in Rebuild : a # b => pc'[a] # "build"
      /\ draft = rows
  <2>1. lock = b /\ done = {}
    BY <1>2, RebuildAssumption DEF TrialInv, LockHeld
  <2>2. \A d \in Date : draft[d] = rows[d]
    BY <2>1 DEF TrialInv, DraftFollowsRows
  <2> QED BY <1>0, <1>2, <2>1, <2>2 DEF TrialInv, LockHeld, TypeOK
<1>4. T \in Date /\ T \in Nat /\ Stored(rows) \subseteq Date /\ Stored(rows) \subseteq Nat
      /\ dirty \subseteq Stored(rows) /\ dirty \subseteq Nat
  BY <1>0, DatesAreNat DEF TypeOK, Stored, DirtyBefore
<1> HIDE DEF T
<1>5. TimesDiffer' /\ CountsOnce(rows)' /\ CountsOnce(draft)' /\ Monotone(rows)' /\ Monotone(draft)'
      /\ DraftFollowsRows'
  BY <1>1 DEF TrialInv, TimesDiffer, CountsOnce, Monotone, DraftFollowsRows
<1>6. LockHeld'
  BY <1>0, <1>1, <1>2, <1>3 DEF TrialInv, LockHeld
<1>7. InTurn(b)'
  <2> HIDE DEF dirty
  <2>1. T \in todo' /\ \A d \in todo' : d <= T /\ (d = T \/ d \in Stored(rows))
    BY <1>2, <1>4
  <2>2. ASSUME NEW c \in todo', NEW d \in Stored(rows), c <= d, d <= T
        PROVE  d \in todo'
    <3>1. CASE c = T
      <4>1. d = T
        BY <1>4, <2>2, <3>1
      <4> QED BY <2>1, <4>1
    <3>2. CASE c # T
      <4>1. c \in Stored(rows) /\ \E a \in dirty : a <= c
        BY <1>2, <3>2
      <4>2. PICK a \in dirty : a <= c
        BY <4>1
      <4>3. a <= d
        BY <1>4, <2>2, <4>1, <4>2
      <4>4. d < T \/ d = T
        BY <1>4, <2>2
      <4> QED BY <1>2, <4>3, <4>4
    <3> QED BY <3>1, <3>2
  <2> QED BY <1>1, <1>3, <2>1, <2>2 DEF InTurn, T
<1>8. CarriedOver' /\ FirstCounts(b)'
  BY <1>1, <1>3 DEF CarriedOver, FirstCounts
<1>9. CleanAreYounger(b)'
  <2> SUFFICES ASSUME NEW c \in Stored(rows), c \notin todo', NEW e \in Committed,
                      Covers(c, e, {d \in Stored(rows) : d < T}),
                      ~ (began[e] <= rebuiltAt[c])
               PROVE  FALSE
    BY <1>1, <1>2 DEF CleanAreYounger, T, Covers
  <2>1. c < T
    BY DEF Covers, IsLeast
  <2>2. began[e] > rebuiltAt[c]
    BY <1>0 DEF TypeOK, Committed, Stored
  <2>3. c \in dirty
    BY <2>1, <2>2 DEF DirtyBefore
  <2>4. c <= c
    BY <1>4
  <2> QED BY <1>2, <2>1, <2>3, <2>4
<1>10. Building'
  BY <1>3, <1>7, <1>8, <1>9 DEF Building
<1>11. LiveMissingIsDirty'
  BY <1>1 DEF TrialInv, LiveMissingIsDirty, Covers
<1> QED BY <1>5, <1>6, <1>10, <1>11 DEF TrialInv

\* Rebuilding a date of a table: it counts what it did and more.
LEMMA RebuiltTable ==
  ASSUME TypeOK, NEW t \in Table, CountsOnce(t), Monotone(t), NEW d \in Date,
         NEW u \in Table, u[d] = CloseOf(t, d), \A c \in Date : c # d => u[c] = t[c]
  PROVE  /\ \A c \in Date, e \in Entry : t[c][e] <= u[c][e]
         /\ CountsOnce(u) /\ Monotone(u)
         /\ Stored(t) \subseteq Stored(u) /\ Stored(u) \subseteq Stored(t) \cup {d}
         /\ Before(u, d) = Before(t, d)
<1> DEFINE n == CloseOf(t, d)
<1>0. Date \subseteq Nat /\ \A e \in Entry : accounting[e] \in Nat
  BY DatesAreNat DEF TypeOK
<1>1. u \in Table /\ u[d] = n /\ \A c \in Date : c # d => u[c] = t[c]
  OBVIOUS
<1>2. \A e \in Entry :
        /\ n[e] \in {0, 1} /\ (n[e] > 0 => e \in Committed /\ accounting[e] <= d)
        /\ t[d][e] <= n[e]
        /\ n[e] = 0 /\ e \in Committed /\ accounting[e] <= d =>
             \E p \in Before(t, d) : accounting[e] <= p /\ t[p][e] = 0
        /\ \A p \in Date :
             IsGreatest(p, Before(t, d)) /\ accounting[e] <= p => n[e] = t[p][e]
  BY CloseOfCounts
<1> HIDE DEF n
<1>3. ASSUME NEW c \in Date, NEW e \in Entry
      PROVE  /\ t[c][e] \in Nat /\ u[c][e] \in Nat /\ t[c][e] <= u[c][e]
             /\ u[c][e] <= 1 /\ (u[c][e] > 0 => e \in Committed /\ accounting[e] <= c)
  <2>1. t[c][e] \in Nat /\ u[c][e] \in Nat
    BY <1>1 DEF Table
  <2>2. CASE c = d
    BY <1>1, <1>2, <2>1, <2>2
  <2>3. CASE c # d
    <3>1. u[c][e] = t[c][e]
      BY <1>1, <2>3
    <3> QED BY <2>1, <3>1 DEF CountsOnce
  <2> QED BY <2>2, <2>3
<1>4. CountsOnce(u)
  BY <1>3 DEF CountsOnce
<1>5. Stored(t) \subseteq Stored(u) /\ Stored(u) \subseteq Stored(t) \cup {d}
  <2>1. ASSUME NEW c \in Stored(t) PROVE c \in Stored(u)
    <3>1. PICK e \in Entry : t[c][e] > 0 /\ c \in Date
      BY DEF Stored
    <3>2. u[c][e] > 0
      BY <1>3, <3>1
    <3> QED BY <3>1, <3>2 DEF Stored
  <2>2. ASSUME NEW c \in Stored(u), c # d PROVE c \in Stored(t)
    BY <1>1, <2>2 DEF Stored
  <2> QED BY <2>1, <2>2
<1>6. Before(u, d) = Before(t, d)
  BY <1>0, <1>5 DEF Before, Stored
<1>7. ASSUME NEW c \in Stored(u), NEW f \in Date, NEW e \in Entry,
             c < f, accounting[e] <= c, u[c][e] = 0
      PROVE  u[f][e] = 0
  <2>0. c \in Date /\ c \in Nat /\ f \in Nat /\ d \in Nat /\ accounting[e] \in Nat
    BY <1>0 DEF Stored
  <2>1. CASE c = d
    <3>1. n[e] = 0 /\ u[f] = t[f]
      BY <1>1, <1>7, <2>0, <2>1
    <3>2. CASE e \notin Committed
      BY <1>3, <3>1, <3>2 DEF CountsOnce
    <3>3. CASE e \in Committed
      <4>1. PICK p \in Before(t, d) : accounting[e] <= p /\ t[p][e] = 0
        BY <1>2, <1>7, <2>1, <3>1, <3>3
      <4>2. p \in Stored(t) /\ p \in Nat /\ p < f
        BY <1>0, <1>7, <2>0, <2>1 DEF Before, Stored
      <4> QED BY <3>1, <4>1, <4>2 DEF Monotone
    <3> QED BY <3>2, <3>3
  <2>2. CASE c # d /\ f = d
    <3>1. c \in Before(t, d) /\ t[c][e] = 0
      BY <1>1, <1>5, <1>7, <2>0, <2>2 DEF Before
    <3>2. PICK p \in Before(t, d) : IsGreatest(p, Before(t, d))
      BY <3>1, GreatestExists DEF Before, Stored
    <3>3. p \in Date /\ p \in Nat /\ c <= p /\ accounting[e] <= p
      BY <1>0, <1>7, <2>0, <3>1, <3>2 DEF Before, Stored, IsGreatest
    <3>4. t[p][e] = 0
      <4>1. CASE p = c
        BY <3>1, <4>1
      <4>2. CASE c < p
        BY <1>7, <3>1, <3>3, <4>2 DEF Monotone, Before
      <4> QED BY <2>0, <3>3, <4>1, <4>2
    <3> QED BY <1>1, <1>2, <2>2, <3>2, <3>3, <3>4
  <2>3. CASE c # d /\ f # d
    <3>1. c \in Stored(t) /\ u[c] = t[c] /\ u[f] = t[f]
      BY <1>1, <1>5, <2>0, <2>3
    <3> QED BY <1>7, <3>1 DEF Monotone
  <2> QED BY <2>1, <2>2, <2>3
<1>8. Monotone(u)
  BY <1>7 DEF Monotone
<1> QED BY <1>1, <1>3, <1>4, <1>5, <1>6, <1>8 DEF n

LEMMA RebuildDateKeeps ==
  ASSUME TrialInv, TypeOK', NEW b \in Rebuild, RebuildDate(b)
  PROVE  TrialInv'
<1>0. TypeOK /\ b # Nobody /\ draft \in Table
  BY RebuildAssumption DEF TrialInv, TypeOK, Table
<1>1. PICK d \in todo :
        /\ IsLeast(d, todo)
        /\ draft' = [draft EXCEPT ![d] = CloseOf(draft, d)]
        /\ todo' = todo \ {d} /\ done' = done \cup {d}
        /\ forgotten' = forgotten \cup
             {e \in Entry : /\ status[e] = "open"
                            /\ Covers(d, e, Stored(draft) \cup {d})
                            /\ began[e] < start[b]}
  BY DEF RebuildDate
<1>2. /\ UNCHANGED <<clock, status, accounting, began, rows, rebuiltAt, lock, pc, toDate, start,
                     seen>>
      /\ Committed' = Committed /\ Live' = Live /\ Stored(rows)' = Stored(rows)
  BY SameJournal DEF RebuildDate, journal, table, call, Stored
<1>3. pc[b] = "build" /\ lock = b /\ \A a \in Rebuild : a # b => pc[a] # "build"
  BY DEF RebuildDate, TrialInv, LockHeld
<1>4. InTurn(b) /\ CarriedOver /\ FirstCounts(b) /\ CleanAreYounger(b)
  BY <1>3 DEF TrialInv, Building
<1>5. d \in Date /\ Date \subseteq Nat /\ done \subseteq Date /\ todo \subseteq Date
      /\ toDate[b] \in Date /\ Stored(rows) \subseteq Date /\ Stored(draft) \subseteq Date
      /\ Stored(draft') \subseteq Date
  BY <1>0, DatesAreNat DEF TypeOK, Stored
<1>6. /\ draft'[d] = CloseOf(draft, d) /\ \A c \in Date : c # d => draft'[c] = draft[c]
      /\ \A c \in Date, e \in Entry : draft[c][e] <= draft'[c][e]
      /\ CountsOnce(draft') /\ Monotone(draft')
      /\ Stored(draft) \subseteq Stored(draft') /\ Stored(draft') \subseteq Stored(draft) \cup {d}
      /\ Before(draft', d) = Before(draft, d)
  <2>1. CountsOnce(draft) /\ Monotone(draft)
    BY DEF TrialInv
  <2>2. draft' \in Table /\ draft'[d] = CloseOf(draft, d) /\ \A c \in Date : c # d => draft'[c] = draft[c]
    BY <1>0, <1>1, <1>5, CloseOfType DEF Table
  <2> QED BY <1>0, <1>5, <2>1, <2>2, RebuiltTable
<1>7. \A c \in done : c < d
  BY <1>4 DEF InTurn
<1>8. TimesDiffer' /\ CountsOnce(rows)' /\ CountsOnce(draft)' /\ Monotone(rows)' /\ Monotone(draft)'
  BY <1>2, <1>6 DEF TrialInv, TimesDiffer, CountsOnce, Monotone, Stored
<1>9. LockHeld'
  BY <1>0, <1>2, <1>3 DEF TrialInv, LockHeld
<1>10. DraftFollowsRows'
  <2>1. ASSUME NEW c \in Date, NEW e \in Entry PROVE rows[c][e] <= draft'[c][e]
    <3>1. rows[c][e] \in Nat /\ draft[c][e] \in Nat /\ draft'[c][e] \in Nat
      BY <1>0 DEF TypeOK
    <3> QED BY <1>6, <3>1 DEF TrialInv, DraftFollowsRows
  <2> QED BY <1>1, <1>2, <1>6, <2>1 DEF TrialInv, DraftFollowsRows
<1>11. InTurn(b)'
  <2>1. todo' \cup done' = todo \cup done
    BY <1>1
  <2>2. \A c \in done', f \in todo' : c < f
    <3> SUFFICES ASSUME NEW c \in done', NEW f \in todo' PROVE c < f
      OBVIOUS
    <3>1. f \in todo /\ f # d /\ d <= f
      BY <1>1 DEF IsLeast
    <3>2. c = d => c < f
      BY <1>5, <3>1
    <3> QED BY <1>1, <1>4, <3>1, <3>2 DEF InTurn
  <2>3. \A c \in todo \cup done, f \in Stored(draft') :
          c <= f /\ f <= toDate[b] => f \in todo \cup done
    BY <1>4, <1>6 DEF InTurn
  <2>4. Stored(draft)' = Stored(draft')
    BY DEF Stored
  <2> QED BY <1>2, <1>4, <2>1, <2>2, <2>3, <2>4 DEF InTurn
<1>12. CarriedOver'
  <2> DEFINE P == Before(draft, d)
  <2>1. \A p \in Date, e \in Entry :
          IsGreatest(p, P) /\ draft[p][e] = 1 => draft'[d][e] = 1
    BY <1>0, <1>5, <1>6, CloseOfCounts DEF TrialInv
  <2>2. ASSUME NEW c \in done, NEW e \in Entry, draft[c][e] = 1
        PROVE  draft'[d][e] = 1
    <3>1. c \in Stored(draft) /\ c < d /\ c \in P
      BY <1>5, <1>7, <2>2 DEF Stored, Before
    <3>2. PICK p \in P : IsGreatest(p, P)
      BY <3>1, GreatestExists DEF Before, Stored
    <3>3. p \in Stored(draft) /\ p < d /\ c <= p /\ p \in Nat
      BY <1>5, <3>1, <3>2 DEF Before, IsGreatest
    <3>4. p \in done
      <4>1. p <= toDate[b]
        <5>1. d <= toDate[b]
          BY <1>4 DEF InTurn
        <5>2. d \in Nat /\ toDate[b] \in Nat
          BY <1>5
        <5> QED BY <3>3, <5>1, <5>2
      <4>2. p \in todo \cup done
        BY <1>4, <3>3, <4>1 DEF InTurn
      <4>3. p \notin todo
        BY <1>1, <1>5, <3>3 DEF IsLeast
      <4> QED BY <4>2, <4>3
    <3>5. draft[p][e] = 1
      BY <1>4, <2>2, <3>3, <3>4 DEF CarriedOver
    <3> QED BY <1>5, <2>1, <3>2, <3>4, <3>5
  <2>3. ASSUME NEW c \in done', NEW f \in done', NEW e \in Entry, c <= f, draft'[c][e] = 1
        PROVE  draft'[f][e] = 1
    <3>1. CASE f = d /\ c = d
      BY <2>3, <3>1
    <3>2. CASE f = d /\ c # d
      BY <1>1, <1>5, <1>6, <2>2, <2>3, <3>2
    <3>3. CASE f # d
      <4>1. f \in done /\ f < d /\ c # d /\ c \in done
        <5>1. f \in done /\ f < d
          BY <1>1, <1>7, <3>3
        <5>2. c \in Nat /\ f \in Nat /\ d \in Nat
          BY <1>1, <1>5, <5>1
        <5>3. c # d
          BY <2>3, <5>1, <5>2
        <5> QED BY <1>1, <5>1, <5>3
      <4> QED BY <1>4, <1>5, <1>6, <2>3, <4>1 DEF CarriedOver
    <3> QED BY <3>1, <3>2, <3>3
  <2>4. ASSUME NEW f \in done', NEW p \in Date, NEW e \in Entry,
               IsGreatest(p, {c \in Stored(draft') : c < f}), draft'[p][e] = 1
        PROVE  draft'[f][e] = 1
    <3>0. p < f /\ p \in Stored(draft')
      BY <2>4 DEF IsGreatest
    <3>1. CASE f = d
      <4>1. IsGreatest(p, P) /\ p # d
        BY <1>5, <1>6, <2>4, <3>0, <3>1 DEF Before
      <4> QED BY <1>6, <2>1, <2>4, <3>1, <4>1
    <3>2. CASE f # d
      <4>1. f \in done /\ f < d /\ p # d
        BY <1>1, <1>5, <1>7, <3>0, <3>2
      <4>2. {c \in Stored(draft') : c < f} = {c \in Stored(draft) : c < f}
        BY <1>5, <1>6, <4>1
      <4>3. draft[f][e] = 1
        <5>1. IsGreatest(p, {c \in Stored(draft) : c < f}) /\ draft[p][e] = 1
          BY <1>6, <2>4, <4>1, <4>2
        <5> QED BY <1>4, <4>1, <5>1 DEF CarriedOver
      <4> QED BY <1>5, <1>6, <3>2, <4>1, <4>3
    <3> QED BY <3>1, <3>2
  <2>5. Stored(draft)' = Stored(draft')
    BY DEF Stored
  <2> QED BY <2>3, <2>4, <2>5 DEF CarriedOver
<1>13. FirstCounts(b)'
  <2> SUFFICES ASSUME NEW c \in done', NEW e \in Live \ forgotten',
                      IsLeast(c, {f \in Stored(draft') : f >= accounting[e]}),
                      began[e] < start[b] \/ e \in seen
               PROVE  draft'[c][e] = 1
    BY <1>2 DEF FirstCounts, Covers, Stored
  <2>0. e \in Entry /\ accounting[e] \in Nat /\ e \notin forgotten
    BY <1>0, <1>1, DatesAreNat DEF Live, TypeOK
  <2>1. CASE c = d
    <3>1. d \in Stored(draft') /\ accounting[e] <= d
      BY <1>5, <2>0, <2>1 DEF IsLeast
    <3>2. Stored(draft') = Stored(draft) \cup {d}
      BY <1>6, <3>1
    <3>3. Covers(d, e, Stored(draft) \cup {d})
      BY <2>1, <3>2 DEF Covers
    <3>4. e \in Committed
      <4>1. status[e] = "open" => e \notin seen
        BY DEF TrialInv, LockHeld, Committed
      <4>2. status[e] # "open"
        BY <1>1, <2>0, <3>3, <4>1
      <4> QED BY <1>0, <2>0, <4>2 DEF Live, Committed, TypeOK
    <3>5. \A f \in Before(draft, d) : f < accounting[e]
      <4> SUFFICES ASSUME NEW f \in Before(draft, d) PROVE f < accounting[e]
        OBVIOUS
      <4>1. f \in Nat /\ f < d /\ f \in Stored(draft')
        BY <1>5, <1>6 DEF Before
      <4>2. ~ (f >= accounting[e])
        BY <1>5, <2>1, <4>1 DEF IsLeast
      <4> QED BY <2>0, <4>1, <4>2
    <3> QED BY <1>0, <1>5, <1>6, <2>0, <2>1, <3>1, <3>4, <3>5, CloseOfCounts DEF TrialInv
  <2>2. CASE c # d
    <3>1. c \in done /\ c \in Stored(draft) /\ draft'[c] = draft[c]
      BY <1>1, <1>5, <1>6, <2>2 DEF IsLeast
    <3>2. Covers(c, e, Stored(draft))
      BY <1>6, <3>1 DEF Covers, IsLeast
    <3> QED BY <1>4, <2>0, <3>1, <3>2 DEF FirstCounts
  <2> QED BY <2>1, <2>2
<1>14. CleanAreYounger(b)'
  <2>1. todo' \cup done' = todo \cup done
    BY <1>1
  <2> QED BY <1>2, <1>4, <2>1 DEF CleanAreYounger, Covers
<1>15. Building'
  BY <1>2, <1>3, <1>11, <1>12, <1>13, <1>14 DEF Building
<1>16. LiveMissingIsDirty'
  BY <1>1, <1>2 DEF TrialInv, LiveMissingIsDirty, Covers
<1> QED BY <1>8, <1>9, <1>10, <1>15, <1>16 DEF TrialInv

\* Why a rebuilt table lacks an entry: its first date was rebuilt and the date
\* in question lies after the rebuilt ones, or its first date was left alone
\* and is older than the entry.
LEMMA WhatIsMissing ==
  ASSUME TrialInv, NEW b \in Rebuild, pc[b] = "build", todo = {},
         NEW d \in Stored(draft), NEW e \in Live \ forgotten,
         accounting[e] <= d, draft[d][e] = 0,
         NEW c \in Stored(draft), Covers(c, e, Stored(draft))
  PROVE  /\ c \in done /\ (began[e] < start[b] \/ e \in seen) =>
              e \in Committed /\ d > toDate[b]
         /\ c \notin done => c \in Stored(rows) /\ began[e] > rebuiltAt[c]
<1>0. TypeOK /\ InTurn(b) /\ CarriedOver /\ FirstCounts(b)
  BY DEF TrialInv, Building
<1>1. /\ e \in Entry /\ accounting[e] \in Nat /\ c \in Date /\ d \in Date /\ c \in Nat /\ d \in Nat
      /\ done \subseteq Date /\ toDate[b] \in Date /\ toDate[b] \in Nat
      /\ Stored(draft) \subseteq Date
  BY <1>0, DatesAreNat DEF TypeOK, Live, Stored
<1>2. c <= d /\ accounting[e] <= c
  BY <1>1 DEF Covers, IsLeast
<1>3. ASSUME c \in done, began[e] < start[b] \/ e \in seen
      PROVE  e \in Committed /\ d > toDate[b]
  <2>1. draft[c][e] = 1
    BY <1>0, <1>3 DEF FirstCounts
  <2>2. e \in Committed
    BY <1>1, <2>1 DEF TrialInv, CountsOnce
  <2>3. ~ (d <= toDate[b])
    <3> SUFFICES ASSUME d <= toDate[b] PROVE FALSE
      OBVIOUS
    <3>1. d \in done
      BY <1>0, <1>2, <1>3 DEF InTurn
    <3>2. draft[d][e] = 1
      BY <1>0, <1>1, <1>2, <1>3, <2>1, <3>1 DEF CarriedOver
    <3> QED BY <3>2
  <2> QED BY <1>1, <2>2, <2>3
<1>4. ASSUME NEW f \in Stored(draft), f \notin done \/ f # toDate[b]
      PROVE  f \in Stored(rows)
  <2>1. CASE f \in done
    BY <1>0, <1>4, <2>1 DEF InTurn
  <2>2. CASE f \notin done
    BY <2>2 DEF TrialInv, DraftFollowsRows, Stored
  <2> QED BY <2>1, <2>2
<1>5. ASSUME c \notin done
      PROVE  c \in Stored(rows) /\ began[e] > rebuiltAt[c]
  <2>1. c \in Stored(rows)
    BY <1>4, <1>5
  <2>2. Covers(c, e, Stored(rows))
    <3>1. Stored(rows) \subseteq Stored(draft)
      <4> SUFFICES ASSUME NEW f \in Stored(rows) PROVE f \in Stored(draft)
        OBVIOUS
      <4>1. PICK i \in Entry : rows[f][i] > 0 /\ f \in Date
        BY DEF Stored
      <4>2. rows[f][i] \in Nat /\ draft[f][i] \in Nat /\ rows[f][i] <= draft[f][i]
        BY <1>0, <4>1 DEF TypeOK, TrialInv, DraftFollowsRows
      <4> QED BY <4>1, <4>2 DEF Stored
    <3> QED BY <2>1, <3>1 DEF Covers, IsLeast
  <2>3. \A f \in Date : draft[f][e] = 0 => rows[f][e] = 0
    <3> SUFFICES ASSUME NEW f \in Date, draft[f][e] = 0 PROVE rows[f][e] = 0
      OBVIOUS
    <3>1. rows[f][e] \in Nat /\ rows[f][e] <= draft[f][e]
      BY <1>0, <1>1 DEF TypeOK, TrialInv, DraftFollowsRows
    <3> QED BY <3>1
  <2>4. \A f \in Stored(rows) : accounting[e] <= f /\ draft[f][e] = 0 => began[e] > rebuiltAt[c]
    BY <2>1, <2>2, <2>3 DEF TrialInv, LiveMissingIsDirty, Stored
  <2>5. CASE d \in Stored(rows)
    BY <2>1, <2>4, <2>5
  <2>6. CASE d \notin Stored(rows)
    <3>1. d \in done /\ d = toDate[b]
      BY <1>4, <2>6
    <3>2. c < d /\ c \in Before(draft, d)
      BY <1>1, <1>2, <1>5, <3>1 DEF Before
    <3>3. PICK p \in Before(draft, d) : IsGreatest(p, Before(draft, d))
      BY <3>2, GreatestExists DEF Before, Stored
    <3>4. p \in Date /\ p \in Nat /\ p < d /\ p \in Stored(draft) /\ c <= p
      BY <1>1, <3>2, <3>3, DatesAreNat DEF Before, IsGreatest
    <3>5. p \in Stored(rows) /\ accounting[e] <= p
      BY <1>1, <1>2, <1>4, <3>1, <3>4
    <3>6. draft[p][e] = 0
      <4>1. draft[p][e] # 1
        BY <1>0, <1>1, <3>1, <3>3, <3>4 DEF CarriedOver, Before
      <4>2. draft[p][e] \in Nat /\ draft[p][e] <= 1
        BY <1>0, <1>1, <3>4 DEF TypeOK, TrialInv, CountsOnce
      <4> QED BY <4>1, <4>2
    <3> QED BY <2>1, <2>4, <3>5, <3>6
  <2> QED BY <2>1, <2>5, <2>6
<1> QED BY <1>3, <1>5

LEMMA CommitRebuildKeeps ==
  ASSUME TrialInv, TypeOK', NEW b \in Rebuild, CommitRebuild(b)
  PROVE  TrialInv'
<1>0. TypeOK /\ b # Nobody
  BY RebuildAssumption DEF TrialInv
<1>1. pc[b] = "build" /\ todo = {} /\ lock = b
  BY DEF CommitRebuild, TrialInv, LockHeld
<1>2. /\ UNCHANGED <<clock, status, accounting, began, draft, toDate, start>>
      /\ rows' = draft
      /\ Committed' = Committed /\ Live' = Live
      /\ Stored(rows)' = Stored(draft) /\ Stored(draft)' = Stored(draft)
  BY SameJournal DEF CommitRebuild, journal, call, Stored
<1>3. /\ lock' = Nobody /\ todo' = {} /\ done' = {} /\ seen' = {}
      /\ pc'[b] = "idle" /\ \A a \in Rebuild : a # b => pc'[a] = pc[a]
  BY <1>0, <1>1 DEF CommitRebuild, Return, TypeOK
<1>4. \A d \in Date :
        rebuiltAt'[d] = IF d \notin Stored(draft) THEN 0
                        ELSE IF d \in done THEN start[b]
                        ELSE rebuiltAt[d]
  BY DEF CommitRebuild
<1>5. TimesDiffer'
  <2>1. clock \in Nat
    BY <1>0, BoundsAssumption DEF TypeOK
  <2> QED BY <1>2, <1>4, <2>1 DEF TrialInv, TimesDiffer
<1>6. CountsOnce(rows)' /\ CountsOnce(draft)' /\ Monotone(rows)' /\ Monotone(draft)'
  BY <1>2 DEF TrialInv, CountsOnce, Monotone
<1>7. LockHeld'
  BY <1>0, <1>1, <1>3, RebuildAssumption DEF TrialInv, LockHeld
<1>8. DraftFollowsRows'
  <2>1. \A d \in Date, e \in Entry : draft[d][e] <= draft[d][e]
    BY <1>0 DEF TypeOK
  <2> QED BY <1>2, <2>1 DEF DraftFollowsRows
<1>9. Building'
  BY <1>1, <1>3, RebuildAssumption DEF TrialInv, LockHeld, Building
<1>10. LiveMissingIsDirty'
  <2> SUFFICES ASSUME NEW d \in Stored(draft), NEW e \in Live \ forgotten',
                      accounting[e] <= d, draft[d][e] = 0,
                      NEW c \in Stored(draft), Covers(c, e, Stored(draft))
               PROVE  began[e] > rebuiltAt'[c]
    BY <1>2 DEF LiveMissingIsDirty, Covers
  <2>1. e \notin forgotten /\ e \in Entry /\ c \in Date
    BY DEF CommitRebuild, Live, Stored
  <2>2. CASE c \in done
    <3>1. rebuiltAt'[c] = start[b]
      BY <1>4, <2>1, <2>2
    <3>2. SUFFICES ASSUME ~ (began[e] > start[b]) PROVE FALSE
      BY <3>1
    <3>3. began[e] < start[b]
      <4>1. began[e] \in Nat /\ start[b] \in Nat
        BY <1>0, <2>1, BoundsAssumption DEF TypeOK
      <4>2. began[e] # start[b]
        BY DEF TrialInv, TimesDiffer
      <4> QED BY <3>2, <4>1, <4>2
    <3>4. e \in Committed /\ d > toDate[b]
      BY <1>1, <2>1, <2>2, <3>3, WhatIsMissing
    <3>5. e \in forgotten'
      BY <2>2, <3>3, <3>4 DEF CommitRebuild
    <3> QED BY <3>5
  <2>3. CASE c \notin done
    <3>1. began[e] > rebuiltAt[c]
      BY <1>1, <2>1, <2>3, WhatIsMissing
    <3> QED BY <1>4, <2>1, <2>3, <3>1
  <2> QED BY <2>2, <2>3
<1> QED BY <1>5, <1>6, <1>7, <1>8, <1>9, <1>10 DEF TrialInv

LEMMA RollbackRebuildKeeps ==
  ASSUME TrialInv, TypeOK', NEW b \in Rebuild, RollbackRebuild(b)
  PROVE  TrialInv'
<1>0. TypeOK /\ b # Nobody
  BY RebuildAssumption DEF TrialInv
<1>1. /\ UNCHANGED <<clock, status, accounting, began, rows, rebuiltAt, toDate, start, forgotten>>
      /\ Committed' = Committed /\ Live' = Live /\ Stored(rows)' = Stored(rows)
  BY SameJournal DEF RollbackRebuild, journal, table, call, Stored
<1>2. pc'[b] = "idle" /\ \A a \in Rebuild : a # b => pc'[a] = pc[a]
  BY <1>0 DEF RollbackRebuild, Return, TypeOK
<1>3. TimesDiffer' /\ CountsOnce(rows)' /\ Monotone(rows)' /\ LiveMissingIsDirty'
  BY <1>1 DEF TrialInv, TimesDiffer, CountsOnce, Monotone, LiveMissingIsDirty, Covers
<1>4. CASE lock = b
  <2>1. draft' = rows /\ lock' = Nobody /\ todo' = {} /\ done' = {} /\ seen' = {}
    BY <1>4 DEF RollbackRebuild, Return
  <2>2. CountsOnce(draft)' /\ Monotone(draft)'
    BY <1>1, <2>1 DEF TrialInv, CountsOnce, Monotone, Stored
  <2>3. LockHeld'
    BY <1>0, <1>2, <1>4, <2>1, RebuildAssumption DEF TrialInv, LockHeld
  <2>4. DraftFollowsRows'
    <3>1. \A d \in Date, e \in Entry : rows[d][e] <= rows[d][e]
      BY <1>0 DEF TypeOK
    <3> QED BY <1>1, <2>1, <3>1 DEF DraftFollowsRows
  <2>5. Building'
    BY <1>2, <1>4 DEF TrialInv, LockHeld, Building
  <2> QED BY <1>3, <2>2, <2>3, <2>4, <2>5 DEF TrialInv
<1>5. CASE lock # b
  <2>1. UNCHANGED <<draft, lock, todo, done, seen>>
    BY <1>5 DEF RollbackRebuild, Return
  <2>2. CountsOnce(draft)' /\ Monotone(draft)' /\ DraftFollowsRows'
    BY <1>1, <2>1 DEF TrialInv, CountsOnce, Monotone, Stored, DraftFollowsRows
  <2>3. LockHeld'
    <3>1. \A a \in Rebuild : pc'[a] \in {"find", "build"} <=> lock = a
      BY <1>2, <1>5 DEF TrialInv, LockHeld
    <3>2. lock = Nobody \/ pc'[lock] = "find" => todo = {} /\ done = {} /\ seen = {}
      BY <1>0, <1>2, <1>5 DEF TrialInv, LockHeld, TypeOK
    <3> QED BY <1>1, <2>1, <3>1, <3>2 DEF TrialInv, LockHeld
  <2>4. Building'
    <3> SUFFICES ASSUME NEW a \in Rebuild, pc'[a] = "build"
                 PROVE  InTurn(a)' /\ CarriedOver' /\ FirstCounts(a)' /\ CleanAreYounger(a)'
      BY DEF Building
    <3>1. InTurn(a) /\ CarriedOver /\ FirstCounts(a) /\ CleanAreYounger(a)
      BY <1>2 DEF TrialInv, Building
    <3>2. Stored(draft)' = Stored(draft)
      BY <2>1 DEF Stored
    <3>3. InTurn(a)' /\ CarriedOver'
      BY <1>1, <2>1, <3>1, <3>2 DEF InTurn, CarriedOver
    <3>4. FirstCounts(a)' /\ CleanAreYounger(a)'
      BY <1>1, <2>1, <3>1, <3>2 DEF FirstCounts, CleanAreYounger, Covers
    <3> QED BY <3>3, <3>4
  <2> QED BY <1>3, <2>2, <2>3, <2>4 DEF TrialInv
<1> QED BY <1>4, <1>5

LEMMA UnchangedTrial ==
  ASSUME TrialInv, UNCHANGED vars
  PROVE  TrialInv'
<1>1. /\ UNCHANGED <<clock, status, accounting, began, rows, rebuiltAt, lock, draft, pc, toDate,
                     start, todo, done, seen, forgotten>>
      /\ Committed' = Committed /\ Live' = Live
      /\ Stored(rows)' = Stored(rows) /\ Stored(draft)' = Stored(draft)
  BY DEF vars, Committed, Live, Stored
<1>2. TypeOK'
  BY <1>1 DEF TrialInv, TypeOK
<1>3. TimesDiffer' /\ CountsOnce(rows)' /\ CountsOnce(draft)' /\ Monotone(rows)' /\ Monotone(draft)'
      /\ LockHeld' /\ DraftFollowsRows'
  BY <1>1 DEF TrialInv, TimesDiffer, CountsOnce, Monotone, LockHeld, DraftFollowsRows
<1>4. Building'
  BY <1>1 DEF TrialInv, Building, InTurn, CarriedOver, FirstCounts, CleanAreYounger, Covers
<1>5. LiveMissingIsDirty'
  BY <1>1 DEF TrialInv, LiveMissingIsDirty, Covers
<1> QED BY <1>2, <1>3, <1>4, <1>5 DEF TrialInv

LEMMA NextKeeps == TrialInv /\ [Next]_vars => TrialInv'
<1> SUFFICES ASSUME TrialInv, [Next]_vars PROVE TrialInv'
  OBVIOUS
<1>0. TypeOK /\ TypeOK'
  BY NextTypes DEF TrialInv
<1>1. ASSUME NEW i \in Entry, CommitEntry(i) \/ RollbackEntry(i) \/ \E a \in Date : BeginEntry(i, a)
      PROVE  TrialInv'
  BY <1>0, <1>1, JournalSteps, JournalKeeps
<1>2. ASSUME NEW b \in Rebuild,
             \/ LockTenant(b) \/ FindDirty(b) \/ RebuildDate(b)
             \/ CommitRebuild(b) \/ RollbackRebuild(b)
             \/ \E d \in Date : BeginRebuild(b, d)
      PROVE  TrialInv'
  BY <1>0, <1>2, LockTenantKeeps, FindDirtyKeeps, RebuildDateKeeps, CommitRebuildKeeps,
     RollbackRebuildKeeps, BeginRebuildKeeps
<1>3. CASE UNCHANGED vars
  BY <1>3, UnchangedTrial
<1> QED BY <1>1, <1>2, <1>3 DEF Next, Rest

LEMMA TrialInvariant == Spec => []TrialInv
BY InitTrial, NextKeeps, PTL DEF Spec

---------------------------------------------------------------------------

\* Every stored row is a number of entries of known dates (the types of
\* fin_trial_balance_daily as the rebuild leaves them).
THEOREM TypeCorrect == Spec => []TypeOK
<1>1. TrialInv => TypeOK
  BY DEF TrialInv
<1> QED BY <1>1, TrialInvariant, PTL

\* No stored balance adds up an entry twice, one that is not committed or one
\* of a later date, whichever dates are rebuilt in whichever order
\* (rebuildDailyDate's prev, move and history windows).
THEOREM NothingCountedTwice == Spec => []CountedOnce
<1>1. TrialInv => CountedOnce
  BY DEF TrialInv, CountsOnce, CountedOnce
<1> QED BY <1>1, TrialInvariant, PTL

\* What is missing from a stored date is still found by the dirty-date query,
\* except in the two cases the ghost variable names (RebuildDaily).
THEOREM MissingIsFound == Spec => []MissingIsDirty
<1>1. TrialInv => MissingIsDirty
  BY DEF TrialInv, LiveMissingIsDirty, MissingIsDirty, Committed, Live
<1> QED BY <1>1, TrialInvariant, PTL

LEMMA CommitIsComplete ==
  ASSUME TrialInv, NEW b \in Rebuild, CommitRebuild(b),
         NEW d \in Stored(rows)', NEW e \in seen \ forgotten,
         accounting[e] <= d, d <= toDate[b]
  PROVE  rows'[d][e] = 1
<1>0. TypeOK /\ pc[b] = "build" /\ todo = {} /\ rows' = draft /\ d \in Stored(draft)
  BY DEF TrialInv, CommitRebuild, Stored
<1>1. InTurn(b) /\ CleanAreYounger(b)
  BY <1>0 DEF TrialInv, Building
<1>2. /\ e \in Live \ forgotten /\ e \in Entry /\ accounting[e] \in Nat
      /\ d \in Date /\ d \in Nat /\ toDate[b] \in Nat
  BY <1>0, DatesAreNat DEF TrialInv, LockHeld, Committed, Live, TypeOK, Stored
<1>3. PICK c \in {f \in Stored(draft) : f >= accounting[e]} : Covers(c, e, Stored(draft))
  <2>1. {f \in Stored(draft) : f >= accounting[e]} # {}
    BY <1>0, <1>2
  <2>2. {f \in Stored(draft) : f >= accounting[e]} \in SUBSET Date
    BY DEF Stored
  <2> QED BY <2>1, <2>2, LeastExists DEF Covers
<1>4. c \in Stored(draft) /\ c \in Date /\ c \in Nat /\ c <= d
  BY <1>0, <1>2, <1>3, DatesAreNat DEF Stored, Covers, IsLeast
<1>5. SUFFICES ASSUME draft[d][e] = 0 PROVE FALSE
  <2>1. draft[d][e] \in Nat /\ draft[d][e] <= 1
    BY <1>0, <1>2 DEF TypeOK, TrialInv, CountsOnce
  <2> QED BY <1>0, <2>1
<1>6. CASE c \in done
  <2>1. d > toDate[b]
    BY <1>0, <1>2, <1>3, <1>4, <1>5, <1>6, WhatIsMissing
  <2> QED BY <1>2, <2>1
<1>7. CASE c \notin done
  <2>1. c \in Stored(rows) /\ began[e] > rebuiltAt[c]
    BY <1>0, <1>2, <1>3, <1>4, <1>5, <1>7, WhatIsMissing
  <2>2. c < toDate[b]
    <3>1. toDate[b] \in done
      BY <1>0, <1>1 DEF InTurn
    <3> QED BY <1>2, <1>4, <1>7, <3>1
  <2>3. Covers(c, e, {f \in Stored(rows) : f < toDate[b]})
    <3>1. \A f \in Stored(rows) : f \in Stored(draft)
      <4> SUFFICES ASSUME NEW f \in Stored(rows) PROVE f \in Stored(draft)
        OBVIOUS
      <4>1. PICK i \in Entry : rows[f][i] > 0 /\ f \in Date
        BY DEF Stored
      <4>2. rows[f][i] \in Nat /\ draft[f][i] \in Nat /\ rows[f][i] <= draft[f][i]
        BY <1>0, <4>1 DEF TypeOK, TrialInv, DraftFollowsRows
      <4> QED BY <4>1, <4>2 DEF Stored
    <3> QED BY <1>3, <2>1, <2>2, <3>1 DEF Covers, IsLeast
  <2>4. began[e] <= rebuiltAt[c]
    BY <1>0, <1>1, <1>7, <2>1, <2>3 DEF CleanAreYounger
  <2>5. began[e] \in Nat /\ rebuiltAt[c] \in Nat
    BY <1>0, <1>2, <1>4, BoundsAssumption DEF TypeOK
  <2> QED BY <2>1, <2>4, <2>5
<1> QED BY <1>6, <1>7

\* A rebuild leaves no stored date to the requested one without an entry that
\* it could see, the forgotten ones apart (RebuildDaily).
THEOREM RebuildLeavesNothingOut == Spec => RebuildIsComplete
<1> DEFINE Complete ==
      \A b \in Rebuild : CommitRebuild(b) =>
        \A d \in Stored(rows)', e \in seen \ forgotten :
          accounting[e] <= d /\ d <= toDate[b] => rows'[d][e] = 1
<1>1. TrialInv /\ [Next]_vars => [Complete]_vars
  BY CommitIsComplete
<1> QED BY <1>1, TrialInvariant, PTL DEF Spec, RebuildIsComplete

=============================================================================
