---------------------------- MODULE TrialBalance ----------------------------
(***************************************************************************)
(* The daily trial balance of one tenant in finance-service: RebuildDaily  *)
(* recomputes the rows of a date from the rows of the date stored before   *)
(* it and the journal between the two, after rebuilding the earlier dates  *)
(* that entries were booked into since.                                    *)
(*                                                                         *)
(* Every transaction has a timestamp, now(), taken when it begins: an      *)
(* entry carries it as posted_at (created_at for a reversal or an opening  *)
(* balance), a row of the table as rebuilt_at.  Statements read what is    *)
(* committed when they run.  The rows of a date stand for the entries they *)
(* add up: how many times each entry is in the date's closing balances.    *)
(***************************************************************************)
EXTENDS Naturals

CONSTANTS
  Entry,      \* journal entries and opening balances
  Rebuild,    \* concurrent calls of RebuildDaily
  Nobody,     \* no call
  LastDate,   \* bound: accounting dates
  MaxClock    \* bound: transactions begun

Date == 1 .. LastDate

ASSUME RebuildAssumption == Nobody \notin Rebuild
ASSUME BoundsAssumption == LastDate \in Nat \ {0} /\ MaxClock \in Nat

VARIABLES
  clock,      \* timestamp of the latest transaction
  status,     \* of each entry's transaction: "new", "open" or "committed"
  accounting, \* accounting_date of each entry
  began,      \* posted_at of each entry, 0 before it begins
  rows,       \* the committed rows of fin_trial_balance_daily
  rebuiltAt,  \* rebuilt_at of each date's rows, 0 where none are stored
  lock,       \* the call that holds the tenant's advisory lock
  draft,      \* the table as that call sees it
  pc,         \* what each call does next
  toDate,     \* the date each call rebuilds
  start,      \* now() in its transaction
  todo,       \* the dates it has still to rebuild
  done,       \* the dates it has rebuilt
  seen,       \* ghost: entries committed when it looked for dirty dates
  forgotten   \* ghost: entries a rebuild left out for good, see below

journal == <<status, accounting, began>>
table == <<rows, rebuiltAt>>
call == <<toDate, start>>
vars == <<clock, status, accounting, began, rows, rebuiltAt, lock, draft, pc, toDate,
          start, todo, done, seen, forgotten>>

Nothing == [d \in Date |-> [e \in Entry |-> 0]]

TypeOK ==
  /\ clock \in 0 .. MaxClock
  /\ status \in [Entry -> {"new", "open", "committed"}]
  /\ accounting \in [Entry -> Date]
  /\ began \in [Entry -> 0 .. MaxClock]
  /\ rows \in [Date -> [Entry -> Nat]]
  /\ rebuiltAt \in [Date -> 0 .. MaxClock]
  /\ lock \in Rebuild \cup {Nobody}
  /\ draft \in [Date -> [Entry -> Nat]]
  /\ pc \in [Rebuild -> {"idle", "lock", "find", "build"}]
  /\ toDate \in [Rebuild -> Date]
  /\ start \in [Rebuild -> 0 .. MaxClock]
  /\ todo \subseteq Date
  /\ done \subseteq Date
  /\ seen \subseteq Entry
  /\ forgotten \subseteq Entry

Init ==
  /\ clock = 0
  /\ status = [e \in Entry |-> "new"]
  /\ accounting = [e \in Entry |-> 1]
  /\ began = [e \in Entry |-> 0]
  /\ rows = Nothing
  /\ rebuiltAt = [d \in Date |-> 0]
  /\ lock = Nobody
  /\ draft = Nothing
  /\ pc = [b \in Rebuild |-> "idle"]
  /\ toDate = [b \in Rebuild |-> 1]
  /\ start = [b \in Rebuild |-> 0]
  /\ todo = {}
  /\ done = {}
  /\ seen = {}
  /\ forgotten = {}

Tick == clock < MaxClock /\ clock' = clock + 1
Committed == {e \in Entry : status[e] = "committed"}

\* A date has rows when some entry is in its balances.
Stored(t) == {d \in Date : \E e \in Entry : t[d][e] > 0}

IsLeast(d, D) == d \in D /\ \A c \in D : d <= c
IsGreatest(d, D) == d \in D /\ \A c \in D : c <= d

(***************************************************************************)
(* Entries: postings, reversals and opening balances of any date.          *)
(***************************************************************************)
BeginEntry(e, a) ==
  /\ status[e] = "new"
  /\ Tick
  /\ status' = [status EXCEPT ![e] = "open"]
  /\ accounting' = [accounting EXCEPT ![e] = a]
  /\ began' = [began EXCEPT ![e] = clock']
  /\ UNCHANGED <<table, lock, draft, pc, call, todo, done, seen, forgotten>>

CommitEntry(e) ==
  /\ status[e] = "open"
  /\ status' = [status EXCEPT ![e] = "committed"]
  /\ UNCHANGED <<clock, accounting, began, table, lock, draft, pc, call, todo, done,
                 seen, forgotten>>

RollbackEntry(e) ==
  /\ status[e] = "open"
  /\ status' = [status EXCEPT ![e] = "new"]
  /\ accounting' = [accounting EXCEPT ![e] = 1]
  /\ began' = [began EXCEPT ![e] = 0]
  /\ forgotten' = forgotten \ {e}
  /\ UNCHANGED <<clock, table, lock, draft, pc, call, todo, done, seen>>

(***************************************************************************)
(* RebuildDaily.                                                           *)
(***************************************************************************)
BeginRebuild(b, d) ==
  /\ pc[b] = "idle"
  /\ Tick
  /\ pc' = [pc EXCEPT ![b] = "lock"]
  /\ toDate' = [toDate EXCEPT ![b] = d]
  /\ start' = [start EXCEPT ![b] = clock']
  /\ UNCHANGED <<journal, table, lock, draft, todo, done, seen, forgotten>>

\* pg_advisory_xact_lock.
LockTenant(b) ==
  /\ pc[b] = "lock"
  /\ lock = Nobody
  /\ lock' = b
  /\ pc' = [pc EXCEPT ![b] = "find"]
  /\ UNCHANGED <<clock, journal, table, draft, call, todo, done, seen, forgotten>>

\* An entry makes dirty the first date stored on or after its own, when it
\* is younger than that date's rows.
Covers(d, e, D) == IsLeast(d, {c \in D : c >= accounting[e]})
\* Mutant: an entry makes dirty only the date it is booked on.
DirtyOnItsDate(limit) ==
  LET stored == {d \in Stored(rows) : d < limit}
  IN {d \in stored : \E e \in Committed : accounting[e] = d /\ began[e] > rebuiltAt[d]}

DirtyBefore(limit) ==
  LET stored == {d \in Stored(rows) : d < limit}
  IN {d \in stored : \E e \in Committed : Covers(d, e, stored) /\ began[e] > rebuiltAt[d]}

\* Mutant: only the dirty dates are rebuilt, not the ones after them.
FindDirtyOnly(b) ==
  /\ pc[b] = "find"
  /\ todo' = {toDate[b]} \cup DirtyBefore(toDate[b])
  /\ seen' = Committed
  /\ pc' = [pc EXCEPT ![b] = "build"]
  /\ UNCHANGED <<clock, journal, table, lock, draft, call, done, forgotten>>

\* The least dirty date and the stored dates from it to the requested one.
\* They are listed by a second statement, over rows only the lock's holder
\* changes.
FindDirty(b) ==
  /\ pc[b] = "find"
  /\ LET dirty == DirtyBefore(toDate[b])
     IN todo' = {toDate[b]} \cup
          {d \in Stored(rows) : d < toDate[b] /\ \E c \in dirty : c <= d}
  /\ seen' = Committed
  /\ pc' = [pc EXCEPT ![b] = "build"]
  /\ UNCHANGED <<clock, journal, table, lock, draft, call, done, forgotten>>

\* Mutant: the window of the journal includes the date stored before.
CloseFromPrev(t, d) ==
  LET earlier == {c \in Stored(t) : c < d}
      prevMax == IF earlier = {} THEN 0 ELSE CHOOSE c \in earlier : IsGreatest(c, earlier)
      carried(e) == IF earlier = {} THEN 0 ELSE t[prevMax][e]
      moved(e) == e \in Committed /\ prevMax <= accounting[e] /\ accounting[e] <= d
  IN [e \in Entry |-> carried(e) + (IF moved(e) THEN 1 ELSE 0)]

\* The rows of date d: those of the date stored before it (prev) and the
\* journal after that (move, openings), or, for the tenant's first date, the
\* journal to d (move, history, openings).
CloseOf(t, d) ==
  LET earlier == {c \in Stored(t) : c < d}
      prevMax == IF earlier = {} THEN 0 ELSE CHOOSE c \in earlier : IsGreatest(c, earlier)
      carried(e) == IF earlier = {} THEN 0 ELSE t[prevMax][e]
      moved(e) == e \in Committed /\ prevMax < accounting[e] /\ accounting[e] <= d
  IN [e \in Entry |-> carried(e) + (IF moved(e) THEN 1 ELSE 0)]

\* rebuildDailyDate, for the least date left.  An entry the date covers whose
\* transaction began before this one and has not committed is forgotten: the
\* rows will be stamped as younger than the entry.
RebuildDate(b) ==
  /\ pc[b] = "build"
  /\ \E d \in todo :
       /\ IsLeast(d, todo)
       /\ draft' = [draft EXCEPT ![d] = CloseOf(draft, d)]
       /\ todo' = todo \ {d}
       /\ done' = done \cup {d}
       /\ forgotten' = forgotten \cup
            {e \in Entry : /\ status[e] = "open"
                           /\ Covers(d, e, Stored(draft) \cup {d})
                           /\ began[e] < start[b]}
  /\ UNCHANGED <<clock, journal, table, lock, pc, call, seen>>

\* The end of the transaction, the lock with it.
Return(b) ==
  /\ lock' = IF lock = b THEN Nobody ELSE lock
  /\ pc' = [pc EXCEPT ![b] = "idle"]
  /\ todo' = IF lock = b THEN {} ELSE todo
  /\ done' = IF lock = b THEN {} ELSE done
  /\ seen' = IF lock = b THEN {} ELSE seen

\* An entry missing from a date stored after the requested one is forgotten
\* when the date that covers it was rebuilt: that date is stamped anew, the
\* later one keeps its balances.
CommitRebuild(b) ==
  /\ pc[b] = "build"
  /\ todo = {}
  /\ rows' = draft
  /\ rebuiltAt' = [d \in Date |-> IF d \notin Stored(draft) THEN 0
                                  ELSE IF d \in done THEN start[b]
                                  ELSE rebuiltAt[d]]
  /\ forgotten' = forgotten \cup
       {e \in Committed :
          /\ began[e] < start[b]
          /\ \E c \in done : Covers(c, e, Stored(draft))
          /\ \E d \in Stored(draft) : d > toDate[b] /\ draft[d][e] = 0}
  /\ Return(b)
  /\ UNCHANGED <<clock, journal, draft, call>>

\* A cancelled context or a database error, before or after the lock.
RollbackRebuild(b) ==
  /\ pc[b] # "idle"
  /\ draft' = IF lock = b THEN rows ELSE draft
  /\ Return(b)
  /\ UNCHANGED <<clock, journal, table, call, forgotten>>

Rest == clock = MaxClock /\ UNCHANGED vars

Next ==
  \/ Rest
  \/ \E e \in Entry : CommitEntry(e) \/ RollbackEntry(e) \/ \E a \in Date : BeginEntry(e, a)
  \/ \E b \in Rebuild :
       \/ LockTenant(b) \/ FindDirty(b) \/ RebuildDate(b)
       \/ CommitRebuild(b) \/ RollbackRebuild(b)
       \/ \E d \in Date : BeginRebuild(b, d)

Spec == Init /\ [][Next]_vars

(***************************************************************************)
(* Properties.                                                             *)
(***************************************************************************)
\* Gaps, rebuilds of any date in any order, rolled back entries: no stored
\* balance ever adds up an entry twice, one that did not commit, or one of a
\* later date (rebuildDailyDate's prev, move and history windows).
CountedOnce ==
  \A d \in Date, e \in Entry :
    /\ rows[d][e] <= 1
    /\ rows[d][e] > 0 => e \in Committed /\ accounting[e] <= d

\* An entry missing from a stored date is still found by the next rebuild
\* after it (the dirty-date query), unless it began before a rebuild that it
\* outlasted or an earlier date was rebuilt alone: the two ways the table
\* can lose an entry for good.
MissingIsDirty ==
  \A d \in Stored(rows), e \in Committed \ forgotten :
    accounting[e] <= d /\ rows[d][e] = 0 =>
      \A c \in Stored(rows) : Covers(c, e, Stored(rows)) => began[e] > rebuiltAt[c]

\* A rebuild leaves every stored date to the requested one holding every
\* entry that was committed when it looked for dirty dates, the forgotten
\* ones apart (RebuildDaily: "Mọi ngày đã dựng từ ngày bẩn đến trước toDate
\* được dựng lại").
RebuildIsComplete ==
  [][\A b \in Rebuild : CommitRebuild(b) =>
       \A d \in Stored(rows)', e \in seen \ forgotten :
         accounting[e] <= d /\ d <= toDate[b] => rows'[d][e] = 1]_vars

=============================================================================
