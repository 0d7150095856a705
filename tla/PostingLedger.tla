--------------------------- MODULE PostingLedger ---------------------------
(***************************************************************************)
(* finance-service's posting engine (service/posting_service.go and        *)
(* repository/posting_repo.go, balance_repo.go): journal entries reserved, *)
(* posted, released and reversed by concurrent gRPC calls, with the        *)
(* posted and reserved counters of fin_account_balances kept beside the    *)
(* journal.                                                                *)
(*                                                                         *)
(* One call is a few steps.  What a call reads outside its transaction     *)
(* (idempotency lookup, resolve, period check) is a step of its own; the   *)
(* transaction is one step, because it locks the entry row and every       *)
(* balance row it touches (SELECT ... FOR UPDATE) before it reads them.    *)
(***************************************************************************)
EXTENDS Journal

CONSTANTS
  Client,           \* concurrent callers (symmetric)
  Key,              \* idempotency keys callers choose
  NoKey,            \* a NULL or a server-generated, never looked up, key
  DocType,          \* business document types
  Reversible,       \* those EnsureReversalAllowed lets the ledger reverse
  Request,          \* posting requests callers send
  ReversalRequest,  \* reversal requests: key, doc type override and date
  NoRequest         \* "no call in progress"

ASSUME RequestAssumption ==
  Request \subseteq [key : Key \cup {NoKey}, docType : DocType, lines : Content,
                     currency : Currency, period : Period]
ASSUME ReversalRequestAssumption ==
  ReversalRequest \subseteq [key : Key \cup {NoKey},
                             docType : DocType \cup {""}, period : Period]
ASSUME KeyAssumption == NoKey \notin Key

VARIABLES
  key,         \* idempotency_key of each entry
  releasedKey, \* history: the key a VOID entry gave up
  docType,     \* business_doc_type of each entry
  posted,      \* posted_debit_minor / posted_credit_minor
  reserved,    \* reserved_debit_minor / reserved_credit_minor
  events,      \* fin_outbox rows written for each entry
  open,        \* fin_periods.status = 'OPEN'
  pc,          \* where each call is
  req,         \* its request
  target       \* the entry it looked up outside its transaction

headers == <<key, releasedKey, docType>>
counters == <<posted, reserved>>
calls == <<pc, req, target>>
vars == <<jvars, headers, counters, events, open, calls>>

---------------------------------------------------------------------------
(* Helpers. *)

\* FindEntryByIdempotencyKey: key and document type together.
KeyHolder(k, dt) ==
  {e \in Entry : k # NoKey /\ key[e] = k /\ docType[e] = dt}

\* Mutant: the unique index is missing.
KeyTakenUnindexed(k) == FALSE

\* The unique index on (tenant_id, idempotency_key), NULLs excepted.
KeyTaken(k) == k # NoKey /\ \E e \in Entry : key[e] = k

\* Mutant: the UNBALANCED check is missing.
ResolvableUnbalanced(r) == open[r.period] /\ r.lines # << >>

\* resolve: the period is open and the lines balance per currency.
Resolvable(r) == open[r.period] /\ Balanced(r.lines)

\* Mutant: the holds of other proposals are not counted.
AvailableIgnoringHolds(p) == ActualOf(posted, p)

\* What the balance rows and the opening balances say on a date in period p.
Actual(p) == ActualOf(posted, p)
Available(p) == AvailableOf(posted, reserved, p)

\* The reversal takes the original's document type unless overridden.
ReversalType(v, e) == IF v.docType = "" THEN docType[e] ELSE v.docType

\* Mutants: the status read before the transaction is trusted inside it.
ConvertibleUnchecked(e) == status[e] # "NONE"
StillReversibleUnchecked(e) == status[e] # "NONE"

\* What postPendingEntry and ReverseTransaction check again on the locked row.
Convertible(e) == status[e] = "PENDING"
StillReversible(e) == status[e] = "POSTED" /\ reversedBy[e] = NoEntry

\* Call c goes on at step s with request r about entry t.
Goto(c, s, r, t) ==
  /\ pc' = [pc EXCEPT ![c] = s]
  /\ req' = [req EXCEPT ![c] = r]
  /\ target' = [target EXCEPT ![c] = t]

Done(c) == Goto(c, "idle", NoRequest, NoEntry)

\* INSERT INTO fin_journal_entries and fin_journal_lines.
Insert(e, s, ls, p, k, dt, cur) ==
  /\ Write(e, s, ls, cur, p)
  /\ key' = [key EXCEPT ![e] = k]
  /\ docType' = [docType EXCEPT ![e] = dt]
  /\ UNCHANGED releasedKey

\* Mutant: the status of the locked row is not checked.
VoidPendingTwice(e) ==
  /\ status[e] \in {"PENDING", "VOID"}
  /\ status' = [status EXCEPT ![e] = "VOID"]
  /\ reserved' = Remove(reserved, lines[e])
  /\ releasedKey' = [releasedKey EXCEPT ![e] = key[e]]
  /\ key' = [key EXCEPT ![e] = NoKey]
  /\ UNCHANGED <<lines, period, reversedBy, openings, docType, currency,
                 posted, events, open>>

\* Mutant: the hold is voided but its amounts stay reserved.
VoidPendingLeaky(e) ==
  /\ status[e] = "PENDING"
  /\ status' = [status EXCEPT ![e] = "VOID"]
  /\ releasedKey' = [releasedKey EXCEPT ![e] = key[e]]
  /\ key' = [key EXCEPT ![e] = NoKey]
  /\ UNCHANGED <<lines, period, reversedBy, openings, docType, currency,
                 posted, reserved, events, open>>

\* releasePendingEntry's transaction on a PENDING entry.
VoidPending(e) ==
  /\ status[e] = "PENDING"
  /\ status' = [status EXCEPT ![e] = "VOID"]
  /\ reserved' = Remove(reserved, lines[e])
  /\ releasedKey' = [releasedKey EXCEPT ![e] = key[e]]
  /\ key' = [key EXCEPT ![e] = NoKey]
  /\ UNCHANGED <<lines, period, reversedBy, openings, docType, currency,
                 posted, events, open>>

---------------------------------------------------------------------------

Init ==
  /\ JInit
  /\ key = [e \in Entry |-> NoKey]
  /\ releasedKey = [e \in Entry |-> NoKey]
  /\ docType = [e \in Entry |-> ""]
  /\ posted = ZeroCounters
  /\ reserved = ZeroCounters
  /\ events = [e \in Entry |-> 0]
  /\ open = [p \in Period |-> TRUE]
  /\ pc = [c \in Client |-> "idle"]
  /\ req = [c \in Client |-> NoRequest]
  /\ target = [c \in Client |-> NoEntry]

(* ReservePosting. *)

\* Idempotency lookup and handleExistingForReserve: a PENDING holder with
\* other lines is to be rebuilt; an equal one, or a booked one, replays.
BeginReserve(c, r) ==
  /\ pc[c] = "idle"
  /\ \/ /\ \A e \in KeyHolder(r.key, r.docType) : status[e] = "VOID"
        /\ Goto(c, "reserveResolve", r, NoEntry)
     \/ \E e \in KeyHolder(r.key, r.docType) :
          /\ status[e] = "PENDING"
          /\ Resolvable(r)
          /\ lines[e] # r.lines
          /\ Goto(c, "rebuild", r, e)
  /\ UNCHANGED <<jvars, headers, counters, events, open>>

\* The stale hold is released in a transaction of its own; an entry that was
\* voided meanwhile counts as released.
Rebuild(c) ==
  /\ pc[c] = "rebuild"
  /\ \/ VoidPending(target[c])
     \/ /\ status[target[c]] = "VOID"
        /\ UNCHANGED <<jvars, headers, counters, events, open>>
  /\ Goto(c, "reserveResolve", req[c], NoEntry)

ReserveResolve(c) ==
  /\ pc[c] = "reserveResolve"
  /\ Resolvable(req[c])
  /\ Goto(c, "reserveCommit", req[c], NoEntry)
  /\ UNCHANGED <<jvars, headers, counters, events, open>>

\* Insert the PENDING entry and hold its amounts (reserveLines).
ReserveCommit(c) ==
  LET r == req[c] IN
  /\ pc[c] = "reserveCommit"
  /\ ~ KeyTaken(r.key)
  /\ Covers(Available(r.period), r.lines)
  /\ \E e \in Entry :
       Insert(e, "PENDING", r.lines, r.period, r.key, r.docType, r.currency)
  /\ reserved' = Add(reserved, r.lines)
  /\ Done(c)
  /\ UNCHANGED <<reversedBy, openings, posted, events, open>>

(* PostTransaction. *)

\* A PENDING holder is to be converted, an unused key is a direct post; a
\* VOID or booked holder returns at once.
BeginPost(c, r) ==
  /\ pc[c] = "idle"
  /\ \/ /\ KeyHolder(r.key, r.docType) = {}
        /\ Goto(c, "directResolve", r, NoEntry)
     \/ \E e \in KeyHolder(r.key, r.docType) :
          /\ status[e] = "PENDING"
          /\ Goto(c, "postPending", r, e)
  /\ UNCHANGED <<jvars, headers, counters, events, open>>

\* postPendingEntry: the hold graduates to the posted counters.
PostPending(c) ==
  LET e == target[c] IN
  /\ pc[c] = "postPending"
  /\ Convertible(e)
  /\ open[period[e]]
  /\ Covers(Actual(period[e]), lines[e])
  /\ status' = [status EXCEPT ![e] = "POSTED"]
  /\ reserved' = Remove(reserved, lines[e])
  /\ posted' = Add(posted, lines[e])
  /\ events' = [events EXCEPT ![e] = @ + 1]
  /\ Done(c)
  /\ UNCHANGED <<lines, currency, period, reversedBy, openings, headers, open>>

DirectResolve(c) ==
  /\ pc[c] = "directResolve"
  /\ Resolvable(req[c])
  /\ Goto(c, "directCommit", req[c], NoEntry)
  /\ UNCHANGED <<jvars, headers, counters, events, open>>

\* Book a direct post with no availability check (postLinesToBalances).
DirectCommit(c) ==
  LET r == req[c] IN
  /\ pc[c] = "directCommit"
  /\ ~ KeyTaken(r.key)
  /\ \E e \in Entry :
       /\ Insert(e, "POSTED", r.lines, r.period, r.key, r.docType, r.currency)
       /\ events' = [events EXCEPT ![e] = @ + 1]
  /\ posted' = Add(posted, r.lines)
  /\ Done(c)
  /\ UNCHANGED <<reversedBy, openings, reserved, open>>

(* ReleasePosting and ReverseTransaction. *)

Release(e) ==
  /\ VoidPending(e)
  /\ UNCHANGED calls

\* GetEntryForReversal, EnsureReversalAllowed and EnsurePeriodOpen.
BeginReverse(c, e, v) ==
  /\ pc[c] = "idle"
  /\ status[e] = "POSTED"
  /\ reversedBy[e] = NoEntry
  /\ docType[e] \in Reversible
  /\ open[v.period]
  /\ Goto(c, "reverseCommit", v, e)
  /\ UNCHANGED <<jvars, headers, counters, events, open>>

\* The mirrored entry is booked and the original marked, in one transaction.
ReverseCommit(c) ==
  LET e == target[c]
      v == req[c]
  IN
  /\ pc[c] = "reverseCommit"
  /\ StillReversible(e)
  /\ ~ KeyTaken(v.key)
  /\ CoversReversal(Actual(v.period), Available(v.period), Mirror(lines[e]))
  /\ \E m \in Entry :
       /\ status[m] = "NONE"
       /\ status' = [status EXCEPT ![e] = "REVERSED", ![m] = "POSTED"]
       /\ lines' = [lines EXCEPT ![m] = MirrorStored(lines[e], currency[e])]
       /\ period' = [period EXCEPT ![m] = v.period]
       /\ reversedBy' = [reversedBy EXCEPT ![e] = m]
       /\ key' = [key EXCEPT ![m] = v.key]
       /\ docType' = [docType EXCEPT ![m] = ReversalType(v, e)]
       /\ currency' = [currency EXCEPT ![m] = currency[e]]
       /\ events' = [events EXCEPT ![m] = @ + 1]
  /\ posted' = Add(posted, Mirror(lines[e]))
  /\ Done(c)
  /\ UNCHANGED <<openings, releasedKey, reserved, open>>

(* Errors, the administrator and the calendar. *)

\* A call ends early: an error return, a cancelled context or a crash.  The
\* transaction it may be in rolls back.
Abandon(c) ==
  /\ pc[c] # "idle"
  /\ Done(c)
  /\ UNCHANGED <<jvars, headers, counters, events, open>>

UpsertOpeningBalance(a, p, side) ==
  /\ SetOpening(a, p, side)
  /\ UNCHANGED <<headers, counters, events, open, calls>>

\* fin_periods is maintained outside the service.
TogglePeriod(p) ==
  /\ open' = [open EXCEPT ![p] = ~ @]
  /\ UNCHANGED <<jvars, headers, counters, events, calls>>

Step(c) ==
  \/ \E r \in Request : BeginReserve(c, r) \/ BeginPost(c, r)
  \/ \E e \in Entry, v \in ReversalRequest : BeginReverse(c, e, v)
  \/ Rebuild(c) \/ ReserveResolve(c) \/ ReserveCommit(c)
  \/ PostPending(c) \/ DirectResolve(c) \/ DirectCommit(c)
  \/ ReverseCommit(c) \/ Abandon(c)

Next ==
  \/ \E c \in Client : Step(c)
  \/ \E e \in Entry : Release(e)
  \/ \E a \in Account, p \in Period, side \in OpeningSide :
       UpsertOpeningBalance(a, p, side)
  \/ \E p \in Period : TogglePeriod(p)

Spec == Init /\ [][Next]_vars

---------------------------------------------------------------------------
(* Properties. *)

CallStep == {"idle", "reserveResolve", "rebuild", "reserveCommit",
          "directResolve", "directCommit", "postPending", "reverseCommit"}

\* The type invariant: what each column and each call may hold.
TypeOK ==
  /\ status \in [Entry -> Status]
  /\ lines \in [Entry -> Seq(Line)]
  /\ period \in [Entry -> Nat]
  /\ reversedBy \in [Entry -> Entry \cup {NoEntry}]
  /\ openings \in [Account -> [Period -> OpeningSide \cup {NoOpening}]]
  /\ key \in [Entry -> Key \cup {NoKey}]
  /\ releasedKey \in [Entry -> Key \cup {NoKey}]
  /\ docType \in [Entry -> DocType \cup {""}]
  /\ currency \in [Entry -> Currency \cup {""}]
  /\ posted \in Counters
  /\ reserved \in Counters
  /\ events \in [Entry -> Nat]
  /\ open \in [Period -> BOOLEAN]
  /\ pc \in [Client -> CallStep]
  /\ req \in [Client -> Request \cup ReversalRequest \cup {NoRequest}]
  /\ target \in [Client -> Entry \cup {NoEntry}]

\* However calls interleave, the reserved counters hold exactly the lines of
\* the PENDING entries and the posted counters exactly the booked lines; in
\* particular no counter ever goes negative (balance_repo.go, BalanceRow).
CountersMatchJournal ==
  /\ reserved = JournalSum(lines, Pending)
  /\ posted = JournalSum(lines, Booked)

\* A key counts once: two racing calls with one idempotency key never leave
\* two entries that hold or have moved money under it, although the lookup is
\* outside the transaction that inserts.
OneEntryPerKey ==
  \A e, f \in Pending \cup Booked : e # f /\ key[e] = key[f] => key[e] = NoKey

\* journal.posted is enqueued exactly once for an entry that was booked and
\* never for one that was only reserved or was released (InsertOutbox).
EventPerBooking ==
  \A e \in Entry : events[e] = IF e \in Booked THEN 1 ELSE 0

\* A REVERSED entry and its reversal are paired one to one, the reversal is
\* booked, and it carries the mirrored lines (ReverseTransaction).
ReversalPairing ==
  /\ \A e \in Entry : status[e] = "REVERSED" <=> reversedBy[e] # NoEntry
  /\ \A e \in Entry : status[e] = "REVERSED" =>
       LET m == reversedBy[e]
       IN  /\ m # e
           /\ m \in Booked
           /\ lines[m] = Mirror(lines[e])
           /\ \A f \in Entry \ {e} : reversedBy[f] # m

\* What the guard trigger on fin_journal_entries demands of every writer: a
\* booked entry changes only by becoming REVERSED, a VOID one not at all.
JournalImmutable ==
  [][\A e \in Entry :
       status[e] \in {"POSTED", "REVERSED", "VOID"} =>
         /\ lines'[e] = lines[e] /\ period'[e] = period[e]
         /\ key'[e] = key[e] /\ docType'[e] = docType[e]
         /\ currency'[e] = currency[e]
         /\ \/ status'[e] = status[e] /\ reversedBy'[e] = reversedBy[e]
            \/ status[e] = "POSTED" /\ status'[e] = "REVERSED"]_vars

\* The minor units that a set of counters shows on side d in currency c.
CounterUnits(cs, c, d) ==
  UNION {{a} \X (1 .. cs[a][d]) : a \in {b \in Account : CurrencyOf[b] = c}}

\* Trial balance of the counters: in every currency the posted debits of all
\* accounts equal the posted credits, whichever entries were reserved, posted,
\* released and reversed in whatever order (resolve's UNBALANCED check).
BooksBalance ==
  \A c \in Currency :
    Cardinality(CounterUnits(posted, c, "DEBIT")) =
      Cardinality(CounterUnits(posted, c, "CREDIT"))

\* Account a is not overdrawn, by value, after the lines ls have drawn on it.
Covered(value, ls) ==
  \A a \in Account : Nature[a] # "B" /\ Net(ls, a) < 0 => value[a] >= 0

\* Whoever else moved money meanwhile, a step that draws an account down
\* leaves it covered: a new hold leaves the available value non-negative, the
\* conversion of a hold the actual value, a reversal both (checkReserve,
\* checkPostActual, checkReversal).
DrawdownsAreCovered ==
  [][\A e \in Entry :
       /\ status[e] = "NONE" /\ status'[e] = "PENDING"
            => Covered(Available(period[e])', lines'[e])
       /\ status[e] = "PENDING" /\ status'[e] = "POSTED"
            => Covered(Actual(period[e])', lines[e])
       /\ status[e] = "POSTED" /\ status'[e] = "REVERSED"
            => /\ Covered(Available(period[reversedBy[e]])', Mirror(lines[e]))
               /\ Covered(Actual(period[reversedBy[e]])', Mirror(lines[e]))]_vars

\* What a caller is told of a released key: "was released (VOID); issue a new
\* posting" (PostTransaction).  A key that a VOID entry gave up is then never
\* the key of a direct post.
ReleasedKeyRefused ==
  [][\A e \in Entry :
       status[e] = "NONE" /\ status'[e] = "POSTED" /\ key'[e] # NoKey =>
         ~ \E f \in Entry : /\ status[f] = "VOID"
                            /\ releasedKey[f] = key'[e]
                            /\ docType[f] = docType'[e]]_vars

=============================================================================
