---------------------------- MODULE FinanceProofs ----------------------------
(***************************************************************************)
(* Theorems about the two ends of an accounting event: PostingLedger, the  *)
(* engine that writes it, and Outbox, the relay that publishes it; for     *)
(* every set of clients, entries, accounts, keys, periods and requests,    *)
(* and every set of rows and replicas.                                     *)
(***************************************************************************)
EXTENDS PostingLedger, Outbox, FunctionTheorems, FiniteSetTheorems,
        WellFoundedInduction, TLAPS

---------------------------------------------------------------------------
(* Sums over the journal: how the minor units of a set of entries change   *)
(* when one entry enters it or leaves it.                                  *)

\* Every minor unit that the entries of S move is one of finitely many.
FiniteJournal(lns, S) ==
  \A a \in Account, d \in Direction : IsFiniteSet(JournalUnits(lns, S, a, d))

\* A line sequence moves finitely many minor units (one per unit of amount).
LEMMA UnitsFinite ==
  ASSUME NEW ls \in Seq(Line), NEW a, NEW d
  PROVE  IsFiniteSet(Units(ls, a, d)) /\ Amount(ls, a, d) \in Nat
<1>1. Len(ls) \in Nat
  OBVIOUS
<1>2. IsFiniteSet(1 .. Len(ls)) /\ IsFiniteSet(1 .. MaxAmount)
  BY <1>1, FS_Interval, MaxAmountAssumption
<1>3. IsFiniteSet((1 .. Len(ls)) \X (1 .. MaxAmount))
  BY <1>2, FS_Product
<1>4. Units(ls, a, d) \in SUBSET ((1 .. Len(ls)) \X (1 .. MaxAmount))
  BY DEF Units
<1>5. IsFiniteSet(Units(ls, a, d))
  BY <1>3, <1>4, FS_Subset
<1> QED
  BY <1>5, FS_CardinalityType DEF Amount

\* Tagging the units of an entry with the entry does not change their number.
LEMMA TaggedUnits ==
  ASSUME NEW e, NEW U, IsFiniteSet(U)
  PROVE  IsFiniteSet({e} \X U) /\ Cardinality({e} \X U) = Cardinality(U)
<1>1. IsFiniteSet({e}) /\ Cardinality({e}) = 1
  BY FS_Singleton
<1>2. /\ IsFiniteSet({e} \X U)
      /\ Cardinality({e} \X U) = Cardinality({e}) * Cardinality(U)
  BY <1>1, FS_Product
<1>3. Cardinality(U) \in Nat
  BY FS_CardinalityType
<1> QED
  BY <1>1, <1>2, <1>3

\* A journal without entries moves nothing.
LEMMA EmptyJournal ==
  ASSUME NEW lns
  PROVE  /\ FiniteJournal(lns, {})
         /\ JournalSum(lns, {}) = ZeroCounters
<1>1. ASSUME NEW a, NEW d
      PROVE  JournalUnits(lns, {}, a, d) = {}
  BY DEF JournalUnits
<1> QED
  BY <1>1, FS_EmptySet DEF FiniteJournal, JournalSum, ZeroCounters

\* What an entry outside S holds does not matter to the sum over S.
LEMMA JournalFrame ==
  ASSUME NEW lns, NEW new, NEW S, \A e \in S : new[e] = lns[e]
  PROVE  /\ JournalSum(new, S) = JournalSum(lns, S)
         /\ FiniteJournal(lns, S) => FiniteJournal(new, S)
<1>1. ASSUME NEW a, NEW d
      PROVE  JournalUnits(new, S, a, d) = JournalUnits(lns, S, a, d)
  <2>1. \A e \in S : {e} \X Units(new[e], a, d) = {e} \X Units(lns[e], a, d)
    OBVIOUS
  <2>2. {{e} \X Units(new[e], a, d) : e \in S}
          = {{e} \X Units(lns[e], a, d) : e \in S}
    BY <2>1
  <2> QED
    BY <2>2 DEF JournalUnits
<1> QED
  BY <1>1 DEF JournalSum, FiniteJournal

\* An entry that joins a set of entries adds its lines to every counter.
LEMMA JournalAdd ==
  ASSUME NEW lns, NEW S, NEW e, e \notin S, lns[e] \in Seq(Line),
         FiniteJournal(lns, S)
  PROVE  /\ FiniteJournal(lns, S \cup {e})
         /\ JournalSum(lns, S \cup {e}) = Add(JournalSum(lns, S), lns[e])
<1>1. ASSUME NEW a \in Account, NEW d \in Direction
      PROVE  /\ IsFiniteSet(JournalUnits(lns, S \cup {e}, a, d))
             /\ Cardinality(JournalUnits(lns, S \cup {e}, a, d))
                  = Cardinality(JournalUnits(lns, S, a, d)) + Amount(lns[e], a, d)
  <2> DEFINE old == JournalUnits(lns, S, a, d)
             own == {e} \X Units(lns[e], a, d)
  <2>1. JournalUnits(lns, S \cup {e}, a, d) = old \cup own
    BY DEF JournalUnits
  <2>2. old \cap own = {}
    BY DEF JournalUnits
  <2>3. IsFiniteSet(old)
    BY DEF FiniteJournal
  <2>4. IsFiniteSet(own) /\ Cardinality(own) = Amount(lns[e], a, d)
    BY UnitsFinite, TaggedUnits DEF Amount
  <2>5. /\ IsFiniteSet(old \cup own)
        /\ Cardinality(old \cup own)
             = Cardinality(old) + Cardinality(own) - Cardinality(old \cap own)
    BY <2>3, <2>4, FS_Union
  <2>6. Cardinality(old) \in Nat /\ Cardinality(own) \in Nat
    BY <2>3, <2>4, FS_CardinalityType
  <2>7. Cardinality(old \cap own) = 0
    BY <2>2, FS_EmptySet
  <2> HIDE DEF old, own
  <2>8. Cardinality(old \cup own) = Cardinality(old) + Cardinality(own)
    BY <2>5, <2>6, <2>7
  <2> QED
    BY <2>1, <2>4, <2>5, <2>8 DEF old
<1> QED
  BY <1>1 DEF FiniteJournal, JournalSum, Add

\* An entry that leaves a set of entries takes its lines out of every counter.
LEMMA JournalRemove ==
  ASSUME NEW lns, NEW S, NEW e \in S, lns[e] \in Seq(Line),
         FiniteJournal(lns, S)
  PROVE  /\ FiniteJournal(lns, S \ {e})
         /\ JournalSum(lns, S \ {e}) = Remove(JournalSum(lns, S), lns[e])
<1> DEFINE T == S \ {e}
<1>1. FiniteJournal(lns, T)
  <2>1. ASSUME NEW a \in Account, NEW d \in Direction
        PROVE  IsFiniteSet(JournalUnits(lns, T, a, d))
    <3>1. JournalUnits(lns, T, a, d) \in SUBSET JournalUnits(lns, S, a, d)
      BY DEF JournalUnits
    <3> QED
      BY <3>1, FS_Subset DEF FiniteJournal
  <2> QED
    BY <2>1 DEF FiniteJournal
<1>2. S = T \cup {e} /\ e \notin T
  OBVIOUS
<1>3. JournalSum(lns, S) = Add(JournalSum(lns, T), lns[e])
  <2>1. JournalSum(lns, T \cup {e}) = Add(JournalSum(lns, T), lns[e])
    BY <1>1, <1>2, JournalAdd
  <2> QED
    BY <2>1, <1>2
<1>4. ASSUME NEW a \in Account, NEW d \in Direction
      PROVE  /\ Cardinality(JournalUnits(lns, T, a, d)) \in Nat
             /\ Amount(lns[e], a, d) \in Nat
  BY <1>1, FS_CardinalityType, UnitsFinite DEF FiniteJournal
<1> HIDE DEF T
<1>5. JournalSum(lns, T) = Remove(JournalSum(lns, S), lns[e])
  BY <1>3, <1>4 DEF JournalSum, Add, Remove
<1> QED
  BY <1>1, <1>5 DEF T

\* The sum over a journal of finitely many units is a set of counters.
LEMMA JournalSumType ==
  ASSUME NEW lns, NEW S, FiniteJournal(lns, S)
  PROVE  JournalSum(lns, S) \in Counters
BY FS_CardinalityType DEF FiniteJournal, JournalSum, Counters

\* Mirrored lines are lines.
LEMMA MirrorType ==
  ASSUME NEW ls \in Seq(Line)
  PROVE  Mirror(ls) \in Seq(Line)
<1>1. ASSUME NEW i \in 1 .. Len(ls)
      PROVE  [account   |-> ls[i].account,
              direction |-> IF ls[i].direction = "CREDIT" THEN "DEBIT" ELSE "CREDIT",
              amount    |-> ls[i].amount] \in Line
  <2>1. ls[i] \in Line
    OBVIOUS
  <2> QED
    BY <2>1 DEF Line, Direction
<1> QED
  BY <1>1 DEF Mirror

---------------------------------------------------------------------------
(* The inductive invariant.  Of the counters it says what no mixture of    *)
(* currencies can break: the reserved ones are the sum of the PENDING      *)
(* entries, so that a release never takes more than was held.              *)

HoldsMatch ==
  /\ FiniteJournal(lines, Pending)
  /\ reserved = JournalSum(lines, Pending)

\* What a call carries from one step to the next.
CallsOK ==
  \A c \in Client :
    /\ pc[c] \in {"reserveResolve", "rebuild", "reserveCommit",
                  "directResolve", "directCommit", "postPending"}
         => req[c] \in Request
    /\ pc[c] \in {"reserveCommit", "directCommit"} => Balanced(req[c].lines)
    /\ pc[c] = "reverseCommit" => req[c] \in ReversalRequest
    /\ pc[c] \in {"rebuild", "postPending", "reverseCommit"} => target[c] \in Entry

\* Written entries have a header currency.
HeadersOK == \A e \in Entry : status[e] # "NONE" => currency[e] \in Currency

\* The types that do not depend on the counters.
EntryTypes ==
  /\ status \in [Entry -> Status]
  /\ lines \in [Entry -> Seq(Line)]
  /\ period \in [Entry -> Nat]
  /\ reversedBy \in [Entry -> Entry \cup {NoEntry}]
  /\ openings \in [Account -> [Period -> OpeningSide \cup {NoOpening}]]
  /\ key \in [Entry -> Key \cup {NoKey}]
  /\ releasedKey \in [Entry -> Key \cup {NoKey}]
  /\ docType \in [Entry -> DocType \cup {""}]
  /\ currency \in [Entry -> Currency \cup {""}]
  /\ events \in [Entry -> Nat]
  /\ open \in [Period -> BOOLEAN]

CallTypes ==
  /\ pc \in [Client -> CallStep]
  /\ req \in [Client -> Request \cup ReversalRequest \cup {NoRequest}]
  /\ target \in [Client -> Entry \cup {NoEntry}]

LedgerInv ==
  /\ EntryTypes
  /\ CallTypes
  /\ CallsOK
  /\ HeadersOK
  /\ HoldsMatch
  /\ posted \in Counters

---------------------------------------------------------------------------
(* Lemmas. *)

\* The reserved counters are numbers because they are a sum over the journal,
\* so the type invariant follows from LedgerInv.
LEMMA LedgerTypes ==
  ASSUME LedgerInv
  PROVE  TypeOK
<1>1. reserved \in Counters
  BY JournalSumType DEF LedgerInv, HoldsMatch
<1> QED
  BY <1>1 DEF LedgerInv, EntryTypes, CallTypes, TypeOK

\* Counters stay counters when an entry is added.
LEMMA AddType ==
  ASSUME NEW cs \in Counters, NEW ls \in Seq(Line)
  PROVE  Add(cs, ls) \in Counters
<1>1. ASSUME NEW a \in Account, NEW d \in Direction
      PROVE  cs[a][d] + Amount(ls, a, d) \in Nat
  BY UnitsFinite DEF Counters
<1> QED
  BY <1>1 DEF Add, Counters

\* The stored lines of a reversal are lines, all in the header's currency.
LEMMA MirrorStoredType ==
  ASSUME NEW ls \in Seq(Line), NEW cur \in Currency
  PROVE  /\ MirrorStored(ls, cur) \in Seq(Line)
         /\ Len(MirrorStored(ls, cur)) = Len(ls)
         /\ \A i \in 1 .. Len(ls) :
              /\ CurrencyOf[MirrorStored(ls, cur)[i].account] = cur
              /\ MirrorStored(ls, cur)[i].direction = Mirror(ls)[i].direction
              /\ MirrorStored(ls, cur)[i].amount = ls[i].amount
<1>1. Mirror(ls) \in Seq(Line) /\ Len(ls) \in Nat /\ Len(Mirror(ls)) = Len(ls)
  BY MirrorType DEF Mirror
<1>2. ASSUME NEW i \in 1 .. Len(ls)
      PROVE  /\ [Mirror(ls)[i] EXCEPT !.account = InCurrency[ls[i].account][cur]] \in Line
             /\ CurrencyOf[InCurrency[ls[i].account][cur]] = cur
             /\ Mirror(ls)[i].amount = ls[i].amount
  <2>1. ls[i] \in Line /\ Mirror(ls)[i] \in Line
    BY <1>1
  <2>2. PICK b \in Account : cur = CurrencyOf[b]
    BY DEF Currency
  <2>3. /\ InCurrency[ls[i].account][cur] \in Account
        /\ CurrencyOf[InCurrency[ls[i].account][cur]] = cur
    BY <2>1, <2>2, InCurrencyAssumption DEF Line
  <2>4. Mirror(ls)[i].amount = ls[i].amount
    BY DEF Mirror
  <2> QED
    BY <2>1, <2>3, <2>4 DEF Line
<1>3. \A i \in 1 .. Len(ls) :
        MirrorStored(ls, cur)[i]
          = [Mirror(ls)[i] EXCEPT !.account = InCurrency[ls[i].account][cur]]
  BY DEF MirrorStored
<1>4. MirrorStored(ls, cur) \in Seq(Line) /\ Len(MirrorStored(ls, cur)) = Len(ls)
  BY <1>1, <1>2 DEF MirrorStored
<1>5. ASSUME NEW i \in 1 .. Len(ls)
      PROVE  /\ MirrorStored(ls, cur)[i].account = InCurrency[ls[i].account][cur]
             /\ MirrorStored(ls, cur)[i].direction = Mirror(ls)[i].direction
             /\ MirrorStored(ls, cur)[i].amount = Mirror(ls)[i].amount
  <2>1. Mirror(ls)[i] \in Line
    BY <1>1
  <2> QED
    BY <1>3, <2>1 DEF Line
<1> QED
  BY <1>2, <1>4, <1>5

\* A request's lines are lines.
LEMMA RequestTypes ==
  ASSUME NEW r \in Request
  PROVE  /\ r.lines \in Seq(Line) /\ r.lines \in Content
         /\ r.period \in Period /\ r.period \in Nat
         /\ r.key \in Key \cup {NoKey}
         /\ r.docType \in DocType
         /\ r.currency \in Currency
<1>1. r \in [key : Key \cup {NoKey}, docType : DocType, lines : Content,
             currency : Currency, period : Period]
  BY RequestAssumption
<1>2. /\ r.lines \in Content /\ r.period \in Period /\ r.key \in Key \cup {NoKey}
      /\ r.docType \in DocType /\ r.currency \in Currency
  BY <1>1
<1> QED
  BY <1>2, ContentAssumption, PeriodAssumption

\* So are the fields of a reversal request.
LEMMA ReversalTypes ==
  ASSUME NEW v \in ReversalRequest
  PROVE  /\ v.period \in Period /\ v.period \in Nat
         /\ v.key \in Key \cup {NoKey}
         /\ v.docType \in DocType \cup {""}
<1>1. v \in [key : Key \cup {NoKey}, docType : DocType \cup {""}, period : Period]
  BY ReversalRequestAssumption
<1> QED
  BY <1>1, PeriodAssumption

---------------------------------------------------------------------------
(* What the transactions do to the reserved counters. *)

\* Entries come and go beside the PENDING ones.
LEMMA HoldsFrame ==
  ASSUME HoldsMatch, Pending' = Pending, reserved' = reserved,
         \A f \in Pending : lines'[f] = lines[f]
  PROVE  HoldsMatch'
BY JournalFrame DEF HoldsMatch

\* reserveLines: a new PENDING entry adds its lines.
LEMMA HoldsAfterReserve ==
  ASSUME EntryTypes, HoldsMatch,
         NEW e \in Entry, NEW ls \in Seq(Line), status[e] = "NONE",
         status' = [status EXCEPT ![e] = "PENDING"],
         lines' = [lines EXCEPT ![e] = ls],
         reserved' = Add(reserved, ls)
  PROVE  HoldsMatch'
<1>1. Pending' = Pending \cup {e}
  BY DEF Pending, EntryTypes
<1>2. e \notin Pending /\ lines'[e] = ls
  BY DEF Pending, EntryTypes
<1>3. \A f \in Pending : lines'[f] = lines[f]
  BY <1>2 DEF Pending, EntryTypes
<1>4. FiniteJournal(lines', Pending) /\ JournalSum(lines', Pending) = reserved
  BY <1>3, JournalFrame DEF HoldsMatch
<1>5. /\ FiniteJournal(lines', Pending \cup {e})
      /\ JournalSum(lines', Pending \cup {e}) = Add(reserved, ls)
  <2>1. e \notin Pending /\ lines'[e] \in Seq(Line) /\ FiniteJournal(lines', Pending)
    BY <1>2, <1>4
  <2>2. /\ FiniteJournal(lines', Pending \cup {e})
        /\ JournalSum(lines', Pending \cup {e})
             = Add(JournalSum(lines', Pending), lines'[e])
    BY <2>1, JournalAdd
  <2> QED
    BY <2>2, <1>2, <1>4
<1> QED
  BY <1>1, <1>5 DEF HoldsMatch

\* releasePendingEntry and moveLinesToPosted: the lines of an entry that is no
\* longer PENDING leave.
LEMMA HoldsAfterRemove ==
  ASSUME EntryTypes, HoldsMatch,
         NEW e \in Entry, status[e] = "PENDING", NEW s \in {"VOID", "POSTED"},
         status' = [status EXCEPT ![e] = s], lines' = lines,
         reserved' = Remove(reserved, lines[e])
  PROVE  HoldsMatch'
<1>1. Pending' = Pending \ {e} /\ e \in Pending
  BY DEF Pending, EntryTypes
<1>2. lines[e] \in Seq(Line)
  BY DEF EntryTypes
<1>3. /\ FiniteJournal(lines, Pending \ {e})
      /\ JournalSum(lines, Pending \ {e}) = Remove(reserved, lines[e])
  BY <1>1, <1>2, JournalRemove DEF HoldsMatch
<1> QED
  BY <1>1, <1>3 DEF HoldsMatch

\* A transaction that leaves entries and holds alone leaves the sum alone.
LEMMA HoldsUnmoved ==
  ASSUME HoldsMatch, UNCHANGED <<status, lines, reserved>>
  PROVE  HoldsMatch'
BY DEF HoldsMatch, Pending

---------------------------------------------------------------------------
(* What a step of a call does to the calls. *)

\* A call goes on with what its next step expects.
LEMMA GotoCalls ==
  ASSUME CallTypes, CallsOK, NEW c \in Client, NEW s \in CallStep,
         NEW r \in Request \cup ReversalRequest \cup {NoRequest},
         NEW t \in Entry \cup {NoEntry},
         Goto(c, s, r, t),
         s \in {"reserveResolve", "rebuild", "reserveCommit",
                "directResolve", "directCommit", "postPending"} => r \in Request,
         s \in {"reserveCommit", "directCommit"} => Balanced(r.lines),
         s = "reverseCommit" => r \in ReversalRequest,
         s \in {"rebuild", "postPending", "reverseCommit"} => t \in Entry
  PROVE  CallTypes' /\ CallsOK'
<1>1. CallTypes'
  BY DEF CallTypes, Goto
<1>2. /\ pc'[c] = s /\ req'[c] = r /\ target'[c] = t
      /\ \A d \in Client \ {c} :
           pc'[d] = pc[d] /\ req'[d] = req[d] /\ target'[d] = target[d]
  BY DEF CallTypes, Goto
<1>3. ASSUME NEW d \in Client
      PROVE  /\ pc'[d] \in {"reserveResolve", "rebuild", "reserveCommit",
                            "directResolve", "directCommit", "postPending"}
                  => req'[d] \in Request
             /\ pc'[d] \in {"reserveCommit", "directCommit"}
                  => Balanced(req'[d].lines)
             /\ pc'[d] = "reverseCommit" => req'[d] \in ReversalRequest
             /\ pc'[d] \in {"rebuild", "postPending", "reverseCommit"}
                  => target'[d] \in Entry
  <2>1. CASE d = c
    BY <2>1, <1>2
  <2>2. CASE d # c
    BY <2>2, <1>2 DEF CallsOK
  <2> QED
    BY <2>1, <2>2
<1> QED
  BY <1>1, <1>3 DEF CallsOK

\* Ending a call is always such a step.
LEMMA DoneCalls ==
  ASSUME CallTypes, CallsOK, NEW c \in Client, Done(c)
  PROVE  CallTypes' /\ CallsOK'
<1>1. "idle" \in CallStep
  BY DEF CallStep
<1> QED
  BY <1>1, GotoCalls DEF Done

\* So is a step of somebody else.
LEMMA SameCalls ==
  ASSUME CallTypes, CallsOK, UNCHANGED calls
  PROVE  CallTypes' /\ CallsOK'
BY DEF CallTypes, CallsOK, calls

\* A step outside the database keeps everything about entries and counters.
LEMMA SameDatabase ==
  ASSUME LedgerInv, UNCHANGED <<jvars, headers, counters, events, open>>
  PROVE  /\ EntryTypes' /\ HeadersOK'
         /\ HoldsMatch' /\ (posted \in Counters)'
<1>1. UNCHANGED <<status, lines, period, reversedBy, openings, key, releasedKey,
                  docType, currency, posted, reserved, events, open>>
  BY DEF jvars, headers, counters
<1>2. HoldsMatch' /\ (posted \in Counters)'
  BY <1>1, HoldsUnmoved DEF LedgerInv
<1> QED
  BY <1>1, <1>2 DEF LedgerInv, EntryTypes, HeadersOK

---------------------------------------------------------------------------
(* Every step preserves the invariant. *)

\* InsertOutbox adds one row.
LEMMA EventsType ==
  ASSUME EntryTypes, NEW e \in Entry, events' = [events EXCEPT ![e] = @ + 1]
  PROVE  events' \in [Entry -> Nat]
<1>1. events \in [Entry -> Nat]
  BY DEF EntryTypes
<1>2. events[e] + 1 \in Nat
  BY <1>1
<1> QED
  BY <1>1, <1>2

\* A new entry is typed.
LEMMA InsertTypes ==
  ASSUME LedgerInv, NEW r \in Request, NEW e \in Entry, NEW s \in Status,
         Insert(e, s, r.lines, r.period, r.key, r.docType, r.currency),
         UNCHANGED <<reversedBy, openings, open>>,
         events' \in [Entry -> Nat]
  PROVE  EntryTypes' /\ HeadersOK'
<1>1. /\ status' = [status EXCEPT ![e] = s]
      /\ lines' = [lines EXCEPT ![e] = r.lines]
      /\ period' = [period EXCEPT ![e] = r.period]
      /\ key' = [key EXCEPT ![e] = r.key]
      /\ docType' = [docType EXCEPT ![e] = r.docType]
      /\ currency' = [currency EXCEPT ![e] = r.currency]
      /\ releasedKey' = releasedKey
  BY DEF Insert, Write
<1>2. EntryTypes'
  BY <1>1, RequestTypes DEF LedgerInv, EntryTypes
<1>3. HeadersOK'
  BY <1>1, RequestTypes DEF LedgerInv, EntryTypes, HeadersOK, Currency
<1> QED
  BY <1>2, <1>3

\* releasePendingEntry keeps everything about entries and counters.
LEMMA VoidPendingStep ==
  ASSUME LedgerInv, NEW e \in Entry, VoidPending(e)
  PROVE  EntryTypes' /\ HeadersOK' /\ HoldsMatch' /\ (posted \in Counters)'
<1>1. EntryTypes'
  BY DEF LedgerInv, EntryTypes, VoidPending, Status
<1>2. HeadersOK'
  BY DEF LedgerInv, EntryTypes, HeadersOK, VoidPending
<1>3. HoldsMatch' /\ (posted \in Counters)'
  BY HoldsAfterRemove DEF LedgerInv, VoidPending
<1> QED
  BY <1>1, <1>2, <1>3

\* ReserveCommit: the hold.
LEMMA ReserveCommitStep ==
  ASSUME LedgerInv, NEW c \in Client, ReserveCommit(c)
  PROVE  LedgerInv'
<1> DEFINE r == req[c]
<1>1. r \in Request
  BY DEF ReserveCommit, LedgerInv, CallsOK
<1>2. PICK e \in Entry :
        Insert(e, "PENDING", r.lines, r.period, r.key, r.docType, r.currency)
  BY DEF ReserveCommit
<1>3. /\ reserved' = Add(reserved, r.lines) /\ Done(c)
      /\ UNCHANGED <<reversedBy, openings, posted, events, open>>
  BY DEF ReserveCommit
<1> HIDE DEF r
<1>4. EntryTypes' /\ HeadersOK'
  <2>1. "PENDING" \in Status /\ events' \in [Entry -> Nat]
    BY <1>3 DEF Status, LedgerInv, EntryTypes
  <2> QED
    BY <1>1, <1>2, <1>3, <2>1, InsertTypes
<1>5. HoldsMatch' /\ (posted \in Counters)'
  BY <1>1, <1>2, <1>3, RequestTypes, HoldsAfterReserve DEF LedgerInv, Insert, Write
<1>6. CallTypes' /\ CallsOK'
  BY <1>3, DoneCalls DEF LedgerInv
<1> QED
  BY <1>4, <1>5, <1>6 DEF LedgerInv

\* DirectCommit: the direct post.
LEMMA DirectCommitStep ==
  ASSUME LedgerInv, NEW c \in Client, DirectCommit(c)
  PROVE  LedgerInv'
<1> DEFINE r == req[c]
<1>1. r \in Request
  BY DEF DirectCommit, LedgerInv, CallsOK
<1>2. PICK e \in Entry :
        /\ Insert(e, "POSTED", r.lines, r.period, r.key, r.docType, r.currency)
        /\ events' = [events EXCEPT ![e] = @ + 1]
  BY DEF DirectCommit
<1>3. /\ posted' = Add(posted, r.lines) /\ Done(c)
      /\ UNCHANGED <<reversedBy, openings, reserved, open>>
  BY DEF DirectCommit
<1> HIDE DEF r
<1>4. EntryTypes' /\ HeadersOK'
  <2>1. "POSTED" \in Status /\ events' \in [Entry -> Nat]
    BY <1>2, EventsType DEF Status, LedgerInv
  <2> QED
    BY <1>1, <1>2, <1>3, <2>1, InsertTypes
<1>5. HoldsMatch' /\ (posted \in Counters)'
  <2>1. /\ status[e] = "NONE" /\ status' = [status EXCEPT ![e] = "POSTED"]
        /\ lines' = [lines EXCEPT ![e] = r.lines]
    BY <1>2 DEF Insert, Write
  <2>2. Pending' = Pending /\ \A f \in Pending : lines'[f] = lines[f]
    BY <2>1 DEF Pending, LedgerInv, EntryTypes
  <2>3. HoldsMatch'
    BY <1>3, <2>2, HoldsFrame DEF LedgerInv
  <2>4. posted' \in Counters
    BY <1>1, <1>3, RequestTypes, AddType DEF LedgerInv
  <2> QED
    BY <2>3, <2>4 DEF Counters
<1>6. CallTypes' /\ CallsOK'
  BY <1>3, DoneCalls DEF LedgerInv
<1> QED
  BY <1>4, <1>5, <1>6 DEF LedgerInv

\* PostPending: the conversion of a hold.
LEMMA PostPendingStep ==
  ASSUME LedgerInv, NEW c \in Client, PostPending(c)
  PROVE  LedgerInv'
<1> DEFINE e == target[c]
<1>1. e \in Entry
  BY DEF PostPending, LedgerInv, CallsOK
<1>2. /\ status[e] = "PENDING"
      /\ status' = [status EXCEPT ![e] = "POSTED"]
      /\ reserved' = Remove(reserved, lines[e])
      /\ posted' = Add(posted, lines[e])
      /\ events' = [events EXCEPT ![e] = @ + 1]
      /\ Done(c)
      /\ UNCHANGED <<lines, currency, period, reversedBy, openings, headers, open>>
  BY DEF PostPending, Convertible
<1> HIDE DEF e
<1>3. EntryTypes'
  <2>1. events' \in [Entry -> Nat]
    BY <1>1, <1>2, EventsType DEF LedgerInv
  <2> QED
    BY <1>1, <1>2, <2>1 DEF LedgerInv, EntryTypes, Status, headers
<1>4. HeadersOK'
  BY <1>1, <1>2 DEF LedgerInv, EntryTypes, HeadersOK, headers
<1>5. HoldsMatch' /\ (posted \in Counters)'
  <2>1. HoldsMatch'
    BY <1>1, <1>2, HoldsAfterRemove DEF LedgerInv
  <2>2. posted' \in Counters
    BY <1>1, <1>2, AddType DEF LedgerInv, EntryTypes
  <2> QED
    BY <2>1, <2>2 DEF Counters
<1>6. CallTypes' /\ CallsOK'
  BY <1>2, DoneCalls DEF LedgerInv
<1> QED
  BY <1>3, <1>4, <1>5, <1>6 DEF LedgerInv

\* ReverseCommit: the mirrored entry.
LEMMA ReverseCommitStep ==
  ASSUME LedgerInv, NEW c \in Client, ReverseCommit(c)
  PROVE  LedgerInv'
<1> DEFINE e == target[c]
           v == req[c]
           ls == Mirror(lines[e])
<1>1. e \in Entry /\ v \in ReversalRequest
  BY DEF ReverseCommit, LedgerInv, CallsOK
<1>2. /\ status[e] = "POSTED" /\ reversedBy[e] = NoEntry
      /\ posted' = Add(posted, ls) /\ Done(c)
      /\ UNCHANGED <<openings, releasedKey, reserved, open>>
  BY DEF ReverseCommit, StillReversible
<1>3. PICK m \in Entry :
        /\ status[m] = "NONE"
        /\ status' = [status EXCEPT ![e] = "REVERSED", ![m] = "POSTED"]
        /\ lines' = [lines EXCEPT ![m] = MirrorStored(lines[e], currency[e])]
        /\ period' = [period EXCEPT ![m] = v.period]
        /\ reversedBy' = [reversedBy EXCEPT ![e] = m]
        /\ key' = [key EXCEPT ![m] = v.key]
        /\ docType' = [docType EXCEPT ![m] = ReversalType(v, e)]
        /\ currency' = [currency EXCEPT ![m] = currency[e]]
        /\ events' = [events EXCEPT ![m] = @ + 1]
  BY DEF ReverseCommit
<1>4. lines[e] \in Seq(Line) /\ ls \in Seq(Line) /\ currency[e] \in Currency
  BY <1>1, <1>2, MirrorType DEF LedgerInv, EntryTypes, HeadersOK
<1>5. MirrorStored(lines[e], currency[e]) \in Seq(Line)
  BY <1>4, MirrorStoredType
<1> HIDE DEF e, v, ls
<1>7. e # m
  BY <1>2, <1>3
<1>8. EntryTypes'
  <2>1. ReversalType(v, e) \in DocType \cup {""}
    BY <1>1, ReversalTypes DEF ReversalType, LedgerInv, EntryTypes
  <2>2. status' \in [Entry -> Status] /\ reversedBy' \in [Entry -> Entry \cup {NoEntry}]
    BY <1>1, <1>3 DEF LedgerInv, EntryTypes, Status
  <2>3. lines' \in [Entry -> Seq(Line)] /\ period' \in [Entry -> Nat]
    BY <1>1, <1>3, <1>4, <1>5, ReversalTypes DEF LedgerInv, EntryTypes
  <2>4. /\ key' \in [Entry -> Key \cup {NoKey}]
        /\ docType' \in [Entry -> DocType \cup {""}]
        /\ currency' \in [Entry -> Currency \cup {""}]
    BY <1>1, <1>3, <2>1, ReversalTypes DEF LedgerInv, EntryTypes
  <2>5. events' \in [Entry -> Nat]
    BY <1>3, EventsType DEF LedgerInv
  <2> QED
    BY <1>2, <2>2, <2>3, <2>4, <2>5 DEF LedgerInv, EntryTypes
<1>9. HeadersOK'
  <2>1. ASSUME NEW f \in Entry, status'[f] # "NONE"
        PROVE  currency'[f] \in Currency
    <3>1. CASE f = m
      BY <1>3, <1>4, <3>1 DEF LedgerInv, EntryTypes
    <3>2. CASE f # m
      <4>1. currency'[f] = currency[f]
        BY <1>3, <3>2 DEF LedgerInv, EntryTypes
      <4>2. status[f] # "NONE"
        BY <1>2, <1>3, <2>1, <3>2 DEF LedgerInv, EntryTypes
      <4> QED
        BY <4>1, <4>2 DEF LedgerInv, HeadersOK
    <3> QED
      BY <3>1, <3>2
  <2> QED
    BY <2>1 DEF HeadersOK, Currency
<1>10. HoldsMatch' /\ (posted \in Counters)'
  <2>1. Pending' = Pending /\ \A f \in Pending : lines'[f] = lines[f]
    BY <1>1, <1>2, <1>3, <1>7 DEF Pending, LedgerInv, EntryTypes
  <2>2. HoldsMatch'
    BY <1>2, <2>1, HoldsFrame DEF LedgerInv
  <2>3. posted' \in Counters
    BY <1>2, <1>4, AddType DEF LedgerInv
  <2> QED
    BY <2>2, <2>3 DEF Counters
<1>11. CallTypes' /\ CallsOK'
  BY <1>2, DoneCalls DEF LedgerInv
<1> QED
  BY <1>8, <1>9, <1>10, <1>11 DEF LedgerInv

\* LedgerInv is inductive: one step for every action of Next.
LEMMA LedgerStep ==
  ASSUME LedgerInv, [Next]_vars
  PROVE  LedgerInv'
<1> USE DEF LedgerInv
<1>1. ASSUME NEW c \in Client, Step(c)
      PROVE  LedgerInv'
  <2>1. ASSUME NEW r \in Request, BeginReserve(c, r)
        PROVE  LedgerInv'
    <3>1. EntryTypes' /\ HeadersOK' /\ HoldsMatch' /\ (posted \in Counters)'
      BY <2>1, SameDatabase DEF BeginReserve
    <3>2. CASE Goto(c, "reserveResolve", r, NoEntry)
      BY <3>1, <3>2, GotoCalls DEF CallStep
    <3>3. CASE \E e \in Entry : Goto(c, "rebuild", r, e)
      BY <3>1, <3>3, GotoCalls DEF CallStep
    <3> QED
      BY <2>1, <3>2, <3>3 DEF BeginReserve, KeyHolder
  <2>2. ASSUME NEW r \in Request, BeginPost(c, r)
        PROVE  LedgerInv'
    <3>1. EntryTypes' /\ HeadersOK' /\ HoldsMatch' /\ (posted \in Counters)'
      BY <2>2, SameDatabase DEF BeginPost
    <3>2. CASE Goto(c, "directResolve", r, NoEntry)
      BY <3>1, <3>2, GotoCalls DEF CallStep
    <3>3. CASE \E e \in Entry : Goto(c, "postPending", r, e)
      BY <3>1, <3>3, GotoCalls DEF CallStep
    <3> QED
      BY <2>2, <3>2, <3>3 DEF BeginPost, KeyHolder
  <2>3. ASSUME NEW e \in Entry, NEW v \in ReversalRequest, BeginReverse(c, e, v)
        PROVE  LedgerInv'
    <3>1. EntryTypes' /\ HeadersOK' /\ HoldsMatch' /\ (posted \in Counters)'
      BY <2>3, SameDatabase DEF BeginReverse
    <3>2. Goto(c, "reverseCommit", v, e)
      BY <2>3 DEF BeginReverse
    <3> QED
      BY <3>1, <3>2, GotoCalls DEF CallStep
  <2>4. CASE Rebuild(c)
    <3>1. req[c] \in Request /\ target[c] \in Entry
      BY <2>4 DEF Rebuild, CallsOK
    <3>2. EntryTypes' /\ HeadersOK' /\ HoldsMatch' /\ (posted \in Counters)'
      BY <2>4, <3>1, VoidPendingStep, SameDatabase DEF Rebuild
    <3>3. Goto(c, "reserveResolve", req[c], NoEntry)
      BY <2>4 DEF Rebuild
    <3> QED
      BY <3>1, <3>2, <3>3, GotoCalls DEF CallStep
  <2>5. CASE ReserveResolve(c)
    <3>1. req[c] \in Request /\ Balanced(req[c].lines)
      BY <2>5 DEF ReserveResolve, CallsOK, Resolvable
    <3>2. EntryTypes' /\ HeadersOK' /\ HoldsMatch' /\ (posted \in Counters)'
      BY <2>5, SameDatabase DEF ReserveResolve
    <3>3. Goto(c, "reserveCommit", req[c], NoEntry)
      BY <2>5 DEF ReserveResolve
    <3> QED
      BY <3>1, <3>2, <3>3, GotoCalls DEF CallStep
  <2>6. CASE DirectResolve(c)
    <3>1. req[c] \in Request /\ Balanced(req[c].lines)
      BY <2>6 DEF DirectResolve, CallsOK, Resolvable
    <3>2. EntryTypes' /\ HeadersOK' /\ HoldsMatch' /\ (posted \in Counters)'
      BY <2>6, SameDatabase DEF DirectResolve
    <3>3. Goto(c, "directCommit", req[c], NoEntry)
      BY <2>6 DEF DirectResolve
    <3> QED
      BY <3>1, <3>2, <3>3, GotoCalls DEF CallStep
  <2>7. CASE Abandon(c)
    <3>1. EntryTypes' /\ HeadersOK' /\ HoldsMatch' /\ (posted \in Counters)'
      BY <2>7, SameDatabase DEF Abandon
    <3> QED
      BY <2>7, <3>1, DoneCalls DEF Abandon
  <2> HIDE DEF LedgerInv
  <2> QED
    BY <1>1, <2>1, <2>2, <2>3, <2>4, <2>5, <2>6, <2>7, ReserveCommitStep,
       PostPendingStep, DirectCommitStep, ReverseCommitStep DEF Step
<1>2. ASSUME NEW e \in Entry, Release(e)
      PROVE  LedgerInv'
  <2>1. EntryTypes' /\ HeadersOK' /\ HoldsMatch' /\ (posted \in Counters)'
    BY <1>2, VoidPendingStep DEF Release
  <2> QED
    BY <1>2, <2>1, SameCalls DEF Release
<1>3. ASSUME NEW a \in Account, NEW p \in Period, NEW side \in OpeningSide,
             UpsertOpeningBalance(a, p, side)
      PROVE  LedgerInv'
  <2>1. /\ openings' = [openings EXCEPT ![a][p] = side]
        /\ UNCHANGED <<status, lines, period, reversedBy, key, releasedKey,
                       docType, currency, posted, reserved, events, open>>
        /\ UNCHANGED calls
    BY <1>3 DEF UpsertOpeningBalance, SetOpening, headers, counters
  <2>2. openings' \in [Account -> [Period -> OpeningSide \cup {NoOpening}]]
    BY <2>1 DEF EntryTypes
  <2>3. EntryTypes' /\ HeadersOK'
    BY <2>1, <2>2 DEF EntryTypes, HeadersOK
  <2> QED
    BY <2>1, <2>3, HoldsUnmoved, SameCalls
<1>4. ASSUME NEW p \in Period, TogglePeriod(p)
      PROVE  LedgerInv'
  <2>1. /\ open' = [open EXCEPT ![p] = ~ open[p]]
        /\ UNCHANGED <<status, lines, period, reversedBy, openings, key,
                       releasedKey, docType, currency, posted, reserved, events>>
        /\ UNCHANGED calls
    BY <1>4 DEF TogglePeriod, jvars, headers, counters
  <2>2. (~ open[p]) \in BOOLEAN /\ open \in [Period -> BOOLEAN]
    BY DEF EntryTypes
  <2>3. EntryTypes' /\ HeadersOK'
    BY <2>1, <2>2 DEF EntryTypes, HeadersOK
  <2> QED
    BY <2>1, <2>3, HoldsUnmoved, SameCalls
<1>5. CASE UNCHANGED vars
  <2>1. /\ UNCHANGED <<jvars, headers, counters, events, open>>
        /\ UNCHANGED calls
    BY <1>5 DEF vars
  <2> QED
    BY <2>1, SameDatabase, SameCalls
<1> HIDE DEF LedgerInv
<1> QED
  BY <1>1, <1>2, <1>3, <1>4, <1>5 DEF Next

\* The empty ledger satisfies it.
LEMMA LedgerInit ==
  ASSUME Init
  PROVE  LedgerInv
<1>1. Pending = {}
  BY DEF Init, JInit, Pending
<1>2. HoldsMatch /\ posted \in Counters
  BY <1>1, EmptyJournal DEF Init, HoldsMatch, ZeroCounters, Counters
<1>3. << >> \in Seq(Line)
  OBVIOUS
<1>4. EntryTypes /\ HeadersOK
  BY <1>3 DEF Init, JInit, EntryTypes, HeadersOK, Status
<1>5. CallTypes /\ CallsOK
  BY DEF Init, CallTypes, CallsOK, CallStep
<1> QED
  BY <1>2, <1>4, <1>5 DEF LedgerInv

\* The invariant holds in every reachable state.
THEOREM LedgerInvariant ==
  Spec => []LedgerInv
<1>1. Init => LedgerInv
  BY LedgerInit
<1>2. LedgerInv /\ [Next]_vars => LedgerInv'
  BY LedgerStep
<1> QED
  BY <1>1, <1>2, PTL DEF Spec

\* Type correctness: in particular no counter is ever negative, which the CHECK
\* constraints of fin_account_balances would otherwise turn into an error.
THEOREM TypeCorrect ==
  Spec => []TypeOK
<1>1. LedgerInv => TypeOK
  BY LedgerTypes
<1> QED
  BY <1>1, LedgerInvariant, PTL

---------------------------------------------------------------------------
(* What a step does to the journal, whoever takes it: nothing, an opening   *)
(* balance, or one of five transactions.                                    *)

Quiet ==
  /\ UNCHANGED <<status, lines, period, reversedBy, key, docType, currency, posted, events>>
  /\ \/ UNCHANGED openings
     \/ \E a \in Account, p \in Period, side \in OpeningSide :
          openings' = [openings EXCEPT ![a][p] = side]

Holds(e, r) ==
  /\ Insert(e, "PENDING", r.lines, r.period, r.key, r.docType, r.currency)
  /\ ~ KeyTaken(r.key)
  /\ Balanced(r.lines)
  /\ Covers(Available(r.period), r.lines)
  /\ reserved' = Add(reserved, r.lines)
  /\ UNCHANGED <<reversedBy, openings, posted, events>>

Books(e, r) ==
  /\ Insert(e, "POSTED", r.lines, r.period, r.key, r.docType, r.currency)
  /\ ~ KeyTaken(r.key)
  /\ Balanced(r.lines)
  /\ events' = [events EXCEPT ![e] = @ + 1]
  /\ posted' = Add(posted, r.lines)
  /\ UNCHANGED <<reversedBy, openings>>

Voids(e) ==
  /\ status[e] = "PENDING"
  /\ status' = [status EXCEPT ![e] = "VOID"]
  /\ key' = [key EXCEPT ![e] = NoKey]
  /\ UNCHANGED <<lines, period, reversedBy, openings, docType, currency, posted, events>>

Converts(e) ==
  /\ status[e] = "PENDING"
  /\ Covers(Actual(period[e]), lines[e])
  /\ status' = [status EXCEPT ![e] = "POSTED"]
  /\ events' = [events EXCEPT ![e] = @ + 1]
  /\ posted' = Add(posted, lines[e])
  /\ UNCHANGED <<lines, period, reversedBy, openings, key, docType, currency>>

Reverses(e, m, v) ==
  /\ status[e] = "POSTED" /\ reversedBy[e] = NoEntry /\ status[m] = "NONE"
  /\ ~ KeyTaken(v.key)
  /\ CoversReversal(Actual(v.period), Available(v.period), Mirror(lines[e]))
  /\ status' = [status EXCEPT ![e] = "REVERSED", ![m] = "POSTED"]
  /\ lines' = [lines EXCEPT ![m] = MirrorStored(lines[e], currency[e])]
  /\ period' = [period EXCEPT ![m] = v.period]
  /\ reversedBy' = [reversedBy EXCEPT ![e] = m]
  /\ key' = [key EXCEPT ![m] = v.key]
  /\ docType' = [docType EXCEPT ![m] = ReversalType(v, e)]
  /\ currency' = [currency EXCEPT ![m] = currency[e]]
  /\ events' = [events EXCEPT ![m] = @ + 1]
  /\ posted' = Add(posted, Mirror(lines[e]))
  /\ UNCHANGED <<openings, reserved>>

\* Every step is one of these.
LEMMA Effects ==
  ASSUME LedgerInv, [Next]_vars
  PROVE  \/ Quiet
         \/ \E e \in Entry, r \in Request : Holds(e, r) \/ Books(e, r)
         \/ \E e \in Entry : Voids(e) \/ Converts(e)
         \/ \E e, m \in Entry, v \in ReversalRequest : Reverses(e, m, v)
<1> DEFINE Goal == \/ Quiet
                   \/ \E e \in Entry, r \in Request : Holds(e, r) \/ Books(e, r)
                   \/ \E e \in Entry : Voids(e) \/ Converts(e)
                   \/ \E e, m \in Entry, v \in ReversalRequest : Reverses(e, m, v)
<1>1. ASSUME UNCHANGED <<jvars, headers, counters, events, open>>
      PROVE  Quiet
  BY <1>1 DEF Quiet, jvars, headers, counters
<1>2. ASSUME NEW e \in Entry, VoidPending(e)
      PROVE  Voids(e)
  BY <1>2 DEF VoidPending, Voids
<1>3. ASSUME NEW c \in Client, Step(c)
      PROVE  Goal
  <2>1. CASE ReserveCommit(c)
    <3>1. req[c] \in Request /\ Balanced(req[c].lines)
      BY <2>1 DEF ReserveCommit, LedgerInv, CallsOK
    <3>2. \E e \in Entry : Holds(e, req[c])
      BY <2>1, <3>1 DEF ReserveCommit, Holds
    <3> QED
      BY <3>1, <3>2
  <2>2. CASE DirectCommit(c)
    <3>1. req[c] \in Request /\ Balanced(req[c].lines)
      BY <2>2 DEF DirectCommit, LedgerInv, CallsOK
    <3>2. \E e \in Entry : Books(e, req[c])
      BY <2>2, <3>1 DEF DirectCommit, Books
    <3> QED
      BY <3>1, <3>2
  <2>3. CASE PostPending(c)
    <3>1. target[c] \in Entry
      BY <2>3 DEF PostPending, LedgerInv, CallsOK
    <3>2. Converts(target[c])
      BY <2>3 DEF PostPending, Converts, Convertible, headers
    <3> QED
      BY <3>1, <3>2
  <2>4. CASE ReverseCommit(c)
    <3>1. target[c] \in Entry /\ req[c] \in ReversalRequest
      BY <2>4 DEF ReverseCommit, LedgerInv, CallsOK
    <3>2. \E m \in Entry : Reverses(target[c], m, req[c])
      BY <2>4 DEF ReverseCommit, Reverses, StillReversible
    <3> QED
      BY <3>1, <3>2
  <2>5. CASE Rebuild(c)
    <3>1. target[c] \in Entry
      BY <2>5 DEF Rebuild, LedgerInv, CallsOK
    <3> QED
      BY <2>5, <3>1, <1>1, <1>2 DEF Rebuild
  <2>6. CASE \/ \E r \in Request : BeginReserve(c, r) \/ BeginPost(c, r)
             \/ \E e \in Entry, v \in ReversalRequest : BeginReverse(c, e, v)
             \/ ReserveResolve(c) \/ DirectResolve(c) \/ Abandon(c)
    <3>1. UNCHANGED <<jvars, headers, counters, events, open>>
      BY <2>6 DEF BeginReserve, BeginPost, BeginReverse, ReserveResolve,
                  DirectResolve, Abandon
    <3> QED
      BY <3>1, <1>1
  <2> QED
    BY <1>3, <2>1, <2>2, <2>3, <2>4, <2>5, <2>6 DEF Step
<1>4. ASSUME NEW e \in Entry, Release(e)
      PROVE  Goal
  BY <1>2, <1>4 DEF Release
<1>5. ASSUME NEW a \in Account, NEW p \in Period, NEW side \in OpeningSide,
             UpsertOpeningBalance(a, p, side)
      PROVE  Goal
  BY <1>5 DEF UpsertOpeningBalance, SetOpening, Quiet, headers, counters
<1>6. ASSUME NEW p \in Period, TogglePeriod(p)
      PROVE  Goal
  BY <1>6 DEF TogglePeriod, Quiet, jvars, headers, counters
<1>7. ASSUME UNCHANGED vars
      PROVE  Goal
  BY <1>1, <1>7 DEF vars
<1> HIDE DEF Goal
<1>8. Goal
  BY <1>3, <1>4, <1>5, <1>6, <1>7 DEF Next
<1> QED
  BY <1>8 DEF Goal

---------------------------------------------------------------------------
(* Keys, events and reversal pairs. *)

UniqueKeys ==
  \A e, f \in Entry : e # f /\ key[e] = key[f] => key[e] = NoKey

\* A REVERSED entry and its reversal are paired one to one; the reversal is
\* booked and has the mirrored lines in the header's currency.
StoredPairing ==
  /\ \A e \in Entry : status[e] = "REVERSED" <=> reversedBy[e] # NoEntry
  /\ \A e \in Entry : status[e] = "REVERSED" =>
       LET m == reversedBy[e]
       IN  /\ m # e
           /\ m \in Booked
           /\ lines[m] = MirrorStored(lines[e], currency[e])
           /\ \A f \in Entry \ {e} : reversedBy[f] # m

BookingInv == UniqueKeys /\ EventPerBooking /\ StoredPairing

\* The key of a new entry is nobody else's.
LEMMA FreshKey ==
  ASSUME LedgerInv, UniqueKeys, NEW e \in Entry, NEW k \in Key \cup {NoKey},
         ~ KeyTaken(k), key' = [key EXCEPT ![e] = k]
  PROVE  UniqueKeys'
<1>1. key \in [Entry -> Key \cup {NoKey}]
  BY DEF LedgerInv, EntryTypes
<1>2. \A f \in Entry : f # e => key'[f] = key[f]
  BY <1>1
<1>3. key'[e] = k
  BY <1>1
<1>4. k = NoKey \/ \A f \in Entry : key[f] # k
  BY DEF KeyTaken
<1> QED
  BY <1>2, <1>3, <1>4 DEF UniqueKeys

\* The first event of an entry leaves it with exactly one.
LEMMA FirstEvent ==
  ASSUME EntryTypes, NEW e \in Entry, events[e] = 0,
         events' = [events EXCEPT ![e] = events[e] + 1]
  PROVE  events'[e] = 1 /\ \A f \in Entry : f # e => events'[f] = events[f]
<1>1. events \in [Entry -> Nat]
  BY DEF EntryTypes
<1>2. events[e] + 1 = 1
  OBVIOUS
<1>3. events' = [events EXCEPT ![e] = 1]
  BY <1>2
<1> QED
  BY <1>1, <1>3

\* Pairs survive a step that reverses nothing and rewrites no booked line.
LEMMA PairingFrame ==
  ASSUME StoredPairing, reversedBy' = reversedBy, Booked \subseteq Booked',
         \A f \in Entry : status'[f] = "REVERSED" <=> status[f] = "REVERSED",
         \A f \in Booked : lines'[f] = lines[f] /\ currency'[f] = currency[f]
  PROVE  StoredPairing'
<1>1. \A f \in Entry : status[f] = "REVERSED" => f \in Booked
  BY DEF Booked
<1>2. \A f \in Entry : status'[f] = "REVERSED" <=> reversedBy'[f] # NoEntry
  BY DEF StoredPairing
<1>3. ASSUME NEW f \in Entry, status'[f] = "REVERSED"
      PROVE  /\ reversedBy'[f] # f
             /\ reversedBy'[f] \in Booked'
             /\ lines'[reversedBy'[f]] = MirrorStored(lines'[f], currency'[f])
             /\ \A g \in Entry \ {f} : reversedBy'[g] # reversedBy'[f]
  <2>1. status[f] = "REVERSED" /\ f \in Booked
    BY <1>1, <1>3
  <2>2. /\ reversedBy[f] # f
        /\ reversedBy[f] \in Booked
        /\ lines[reversedBy[f]] = MirrorStored(lines[f], currency[f])
        /\ \A g \in Entry \ {f} : reversedBy[g] # reversedBy[f]
    BY <2>1 DEF StoredPairing
  <2> QED
    BY <2>1, <2>2
<1> QED
  BY <1>2, <1>3 DEF StoredPairing

\* BookingInv is inductive together with LedgerInv: one step for every effect.
LEMMA BookingStep ==
  ASSUME LedgerInv, BookingInv, [Next]_vars
  PROVE  BookingInv'
<1>0. EntryTypes
  BY DEF LedgerInv
<1>1. CASE Quiet
  BY <1>1 DEF Quiet, BookingInv, UniqueKeys, EventPerBooking, StoredPairing, Booked
<1>2. ASSUME NEW e \in Entry, NEW r \in Request, Holds(e, r)
      PROVE  BookingInv'
  <2>1. /\ status[e] = "NONE"
        /\ status' = [status EXCEPT ![e] = "PENDING"]
        /\ lines' = [lines EXCEPT ![e] = r.lines]
        /\ currency' = [currency EXCEPT ![e] = r.currency]
        /\ key' = [key EXCEPT ![e] = r.key]
        /\ ~ KeyTaken(r.key) /\ events' = events /\ reversedBy' = reversedBy
    BY <1>2 DEF Holds, Insert, Write
  <2>2. UniqueKeys'
    BY <2>1, FreshKey, RequestTypes DEF BookingInv
  <2>3. Booked' = Booked /\ e \notin Booked
    BY <1>0, <2>1 DEF Booked, EntryTypes
  <2>4. EventPerBooking'
    BY <2>1, <2>3 DEF EventPerBooking, BookingInv
  <2>5. StoredPairing'
    <3>1. \A f \in Entry : status'[f] = "REVERSED" <=> status[f] = "REVERSED"
      BY <1>0, <2>1 DEF EntryTypes
    <3>2. \A f \in Booked : lines'[f] = lines[f] /\ currency'[f] = currency[f]
      BY <1>0, <2>1, <2>3 DEF EntryTypes, Booked
    <3> QED
      BY <2>1, <2>3, <3>1, <3>2, PairingFrame DEF BookingInv
  <2> QED
    BY <2>2, <2>4, <2>5 DEF BookingInv
<1>3. ASSUME NEW e \in Entry, NEW r \in Request, Books(e, r)
      PROVE  BookingInv'
  <2>1. /\ status[e] = "NONE"
        /\ status' = [status EXCEPT ![e] = "POSTED"]
        /\ lines' = [lines EXCEPT ![e] = r.lines]
        /\ currency' = [currency EXCEPT ![e] = r.currency]
        /\ key' = [key EXCEPT ![e] = r.key]
        /\ events' = [events EXCEPT ![e] = events[e] + 1]
        /\ ~ KeyTaken(r.key) /\ reversedBy' = reversedBy
    BY <1>3 DEF Books, Insert, Write
  <2>2. UniqueKeys'
    BY <2>1, FreshKey, RequestTypes DEF BookingInv
  <2>3. Booked' = Booked \cup {e} /\ e \notin Booked
    BY <1>0, <2>1 DEF Booked, EntryTypes
  <2>4. EventPerBooking'
    <3>1. events[e] = 0
      BY <2>3 DEF EventPerBooking, BookingInv
    <3>2. events'[e] = 1 /\ \A f \in Entry : f # e => events'[f] = events[f]
      BY <1>0, <2>1, <3>1, FirstEvent
    <3> QED
      BY <2>3, <3>2 DEF EventPerBooking, BookingInv
  <2>5. StoredPairing'
    <3>1. \A f \in Entry : status'[f] = "REVERSED" <=> status[f] = "REVERSED"
      BY <1>0, <2>1 DEF EntryTypes
    <3>2. \A f \in Booked : lines'[f] = lines[f] /\ currency'[f] = currency[f]
      BY <1>0, <2>1, <2>3 DEF EntryTypes, Booked
    <3> QED
      BY <2>1, <2>3, <3>1, <3>2, PairingFrame DEF BookingInv
  <2> QED
    BY <2>2, <2>4, <2>5 DEF BookingInv
<1>4. ASSUME NEW e \in Entry, Voids(e)
      PROVE  BookingInv'
  <2>1. Booked' = Booked /\ events' = events
    BY <1>0, <1>4 DEF Voids, Booked, EntryTypes
  <2>2. UniqueKeys'
    BY <1>0, <1>4 DEF Voids, UniqueKeys, BookingInv, EntryTypes
  <2>3. EventPerBooking'
    BY <2>1 DEF EventPerBooking, BookingInv
  <2>4. StoredPairing'
    <3>1. \A f \in Entry : status'[f] = "REVERSED" <=> status[f] = "REVERSED"
      BY <1>0, <1>4 DEF Voids, EntryTypes
    <3>2. reversedBy' = reversedBy /\ lines' = lines /\ currency' = currency
      BY <1>4 DEF Voids
    <3> QED
      BY <2>1, <3>1, <3>2, PairingFrame DEF BookingInv
  <2> QED
    BY <2>2, <2>3, <2>4 DEF BookingInv
<1>5. ASSUME NEW e \in Entry, Converts(e)
      PROVE  BookingInv'
  <2>1. /\ Booked' = Booked \cup {e} /\ e \notin Booked
        /\ events' = [events EXCEPT ![e] = events[e] + 1]
    BY <1>0, <1>5 DEF Converts, Booked, EntryTypes
  <2>2. UniqueKeys'
    BY <1>5 DEF Converts, UniqueKeys, BookingInv
  <2>3. EventPerBooking'
    <3>1. events[e] = 0
      BY <2>1 DEF EventPerBooking, BookingInv
    <3>2. events'[e] = 1 /\ \A f \in Entry : f # e => events'[f] = events[f]
      BY <1>0, <2>1, <3>1, FirstEvent
    <3> QED
      BY <2>1, <3>2 DEF EventPerBooking, BookingInv
  <2>4. StoredPairing'
    <3>1. \A f \in Entry : status'[f] = "REVERSED" <=> status[f] = "REVERSED"
      BY <1>0, <1>5 DEF Converts, EntryTypes
    <3>2. reversedBy' = reversedBy /\ lines' = lines /\ currency' = currency
      BY <1>5 DEF Converts
    <3> QED
      BY <2>1, <3>1, <3>2, PairingFrame DEF BookingInv
  <2> QED
    BY <2>2, <2>3, <2>4 DEF BookingInv
<1>6. ASSUME NEW e \in Entry, NEW m \in Entry, NEW v \in ReversalRequest,
             Reverses(e, m, v)
      PROVE  BookingInv'
  <2>1. /\ status[e] = "POSTED" /\ reversedBy[e] = NoEntry /\ status[m] = "NONE"
        /\ ~ KeyTaken(v.key)
        /\ status' = [status EXCEPT ![e] = "REVERSED", ![m] = "POSTED"]
        /\ lines' = [lines EXCEPT ![m] = MirrorStored(lines[e], currency[e])]
        /\ currency' = [currency EXCEPT ![m] = currency[e]]
        /\ reversedBy' = [reversedBy EXCEPT ![e] = m]
        /\ key' = [key EXCEPT ![m] = v.key]
        /\ events' = [events EXCEPT ![m] = events[m] + 1]
    BY <1>6 DEF Reverses
  <2>2. UniqueKeys'
    BY <2>1, FreshKey, ReversalTypes DEF BookingInv
  <2>3. /\ e # m /\ e \in Booked /\ m \notin Booked
        /\ Booked' = Booked \cup {m}
    BY <1>0, <2>1 DEF Booked, EntryTypes
  <2>4. EventPerBooking'
    <3>1. events[m] = 0
      BY <2>3 DEF EventPerBooking, BookingInv
    <3>2. events'[m] = 1 /\ \A f \in Entry : f # m => events'[f] = events[f]
      BY <1>0, <2>1, <3>1, FirstEvent
    <3> QED
      BY <2>3, <3>2 DEF EventPerBooking, BookingInv
  <2>5. StoredPairing'
    <3>1. /\ status'[e] = "REVERSED" /\ reversedBy'[e] = m /\ m # NoEntry
          /\ \A f \in Entry \ {e} :
               /\ status'[f] = "REVERSED" <=> status[f] = "REVERSED"
               /\ reversedBy'[f] = reversedBy[f]
      BY <1>0, <2>1, <2>3, NoEntryAssumption DEF EntryTypes
    <3>2. /\ lines'[m] = MirrorStored(lines[e], currency[e])
          /\ \A f \in Booked : lines'[f] = lines[f] /\ currency'[f] = currency[f]
      BY <1>0, <2>1, <2>3 DEF EntryTypes, Booked
    <3>3. \A f \in Entry : status[f] = "REVERSED" => f \in Booked
      BY DEF Booked
    <3>4. \A f \in Entry : reversedBy[f] # m
      BY <2>3, NoEntryAssumption DEF StoredPairing, BookingInv
    <3>5. \A f \in Entry : status'[f] = "REVERSED" <=> reversedBy'[f] # NoEntry
      BY <3>1 DEF StoredPairing, BookingInv
    <3>6. ASSUME NEW f \in Entry, status'[f] = "REVERSED"
          PROVE  /\ reversedBy'[f] # f
                 /\ reversedBy'[f] \in Booked'
                 /\ lines'[reversedBy'[f]] = MirrorStored(lines'[f], currency'[f])
                 /\ \A g \in Entry \ {f} : reversedBy'[g] # reversedBy'[f]
      <4>1. CASE f = e
        BY <2>3, <3>1, <3>2, <3>4, <4>1
      <4>2. CASE f # e
        <5>1. /\ status[f] = "REVERSED" /\ reversedBy'[f] = reversedBy[f]
              /\ f \in Booked
          BY <3>1, <3>3, <3>6, <4>2
        <5>2. /\ reversedBy[f] # f
              /\ reversedBy[f] \in Booked
              /\ lines[reversedBy[f]] = MirrorStored(lines[f], currency[f])
              /\ \A g \in Entry \ {f} : reversedBy[g] # reversedBy[f]
          BY <5>1 DEF StoredPairing, BookingInv
        <5> QED
          BY <2>3, <3>1, <3>2, <3>4, <4>2, <5>1, <5>2
      <4> QED
        BY <4>1, <4>2
    <3> QED
      BY <3>5, <3>6 DEF StoredPairing
  <2> QED
    BY <2>2, <2>4, <2>5 DEF BookingInv
<1> QED
  BY <1>1, <1>2, <1>3, <1>4, <1>5, <1>6, Effects

\* Nothing is booked, keyed or reversed in the empty ledger.
LEMMA BookingInit ==
  ASSUME Init
  PROVE  BookingInv
<1>1. Booked = {}
  BY DEF Init, JInit, Booked
<1>2. UniqueKeys
  BY DEF Init, UniqueKeys
<1>3. EventPerBooking
  BY <1>1 DEF Init, EventPerBooking
<1>4. StoredPairing
  BY DEF Init, JInit, StoredPairing
<1> QED
  BY <1>2, <1>3, <1>4 DEF BookingInv

\* It holds in every reachable state.
THEOREM BookingInvariant ==
  Spec => []BookingInv
<1>1. Init => BookingInv
  BY BookingInit
<1>2. LedgerInv /\ BookingInv /\ [Next]_vars => BookingInv'
  BY BookingStep
<1> QED
  BY <1>1, <1>2, LedgerInvariant, PTL DEF Spec

\* Racing calls with one idempotency key leave one entry that counts.
THEOREM KeysCountOnce ==
  Spec => []OneEntryPerKey
<1>1. BookingInv => OneEntryPerKey
  BY DEF BookingInv, UniqueKeys, OneEntryPerKey, Pending, Booked
<1> QED
  BY <1>1, BookingInvariant, PTL

\* One journal.posted event for every booked entry, none for any other.
THEOREM OneEventPerBooking ==
  Spec => []EventPerBooking
<1>1. BookingInv => EventPerBooking
  BY DEF BookingInv
<1> QED
  BY <1>1, BookingInvariant, PTL

\* Every reversed entry has one booked reversal of its own, whose lines are the
\* mirrored ones as ReverseTransaction stores them.
THEOREM ReversalsAreStored == Spec => []StoredPairing
<1>1. BookingInv => StoredPairing
  BY DEF BookingInv
<1> QED
  BY <1>1, BookingInvariant, PTL

---------------------------------------------------------------------------
(* Action properties and refinement. *)

\* What the guard trigger allows to one entry in one step.
Untouched(e) ==
  /\ lines'[e] = lines[e] /\ period'[e] = period[e]
  /\ key'[e] = key[e] /\ docType'[e] = docType[e]
  /\ currency'[e] = currency[e]
  /\ \/ status'[e] = status[e] /\ reversedBy'[e] = reversedBy[e]
     \/ status[e] = "POSTED" /\ status'[e] = "REVERSED"

\* A step leaves every booked or VOID entry as the trigger demands.
LEMMA ImmutableStep ==
  ASSUME LedgerInv, [Next]_vars, NEW f \in Entry,
         status[f] \in {"POSTED", "REVERSED", "VOID"}
  PROVE  Untouched(f)
<1>0. EntryTypes
  BY DEF LedgerInv
<1>1. CASE Quiet
  BY <1>1 DEF Quiet, Untouched
<1>2. ASSUME NEW e \in Entry, NEW r \in Request, Holds(e, r) \/ Books(e, r)
      PROVE  Untouched(f)
  <2>1. f # e
    BY <1>2 DEF Holds, Books, Insert, Write
  <2> QED
    BY <1>0, <1>2, <2>1 DEF Holds, Books, Insert, Write, EntryTypes, Untouched
<1>3. ASSUME NEW e \in Entry, Voids(e) \/ Converts(e)
      PROVE  Untouched(f)
  <2>1. f # e
    BY <1>3 DEF Voids, Converts
  <2> QED
    BY <1>0, <1>3, <2>1 DEF Voids, Converts, EntryTypes, Untouched
<1>4. ASSUME NEW e \in Entry, NEW m \in Entry, NEW v \in ReversalRequest,
             Reverses(e, m, v)
      PROVE  Untouched(f)
  <2>1. f # m /\ e # m
    BY <1>4 DEF Reverses
  <2> QED
    BY <1>0, <1>4, <2>1 DEF Reverses, EntryTypes, Untouched
<1> QED
  BY <1>1, <1>2, <1>3, <1>4, Effects

\* No step changes a booked entry other than by reversing it, and none changes
\* a VOID one.
THEOREM JournalIsImmutable ==
  Spec => JournalImmutable
<1>1. LedgerInv /\ [Next]_vars =>
        [\A e \in Entry :
           status[e] \in {"POSTED", "REVERSED", "VOID"} =>
             /\ lines'[e] = lines[e] /\ period'[e] = period[e]
             /\ key'[e] = key[e] /\ docType'[e] = docType[e]
             /\ currency'[e] = currency[e]
             /\ \/ status'[e] = status[e] /\ reversedBy'[e] = reversedBy[e]
                \/ status[e] = "POSTED" /\ status'[e] = "REVERSED"]_vars
  BY ImmutableStep DEF Untouched
<1> QED
  BY <1>1, LedgerInvariant, PTL DEF Spec, JournalImmutable

---------------------------------------------------------------------------
(* What the entries moved: the posted counters are the sum of it, whatever *)
(* currencies entries mix, and the engine implements the journal.          *)

\* What entry e moves, in a journal with the lines lns and the reversals rb.
MovedBy(lns, rb, e) ==
  IF \E f \in Entry : rb[f] = e
  THEN Mirror(lns[CHOOSE f \in Entry : rb[f] = e])
  ELSE lns[e]

LEMMA MovedByReversal ==
  ASSUME NEW lns, NEW rb, NEW f \in Entry, \A g \in Entry : rb[g] = rb[f] => g = f
  PROVE  MovedBy(lns, rb, rb[f]) = Mirror(lns[f])
<1> DEFINE chosen == CHOOSE g \in Entry : rb[g] = rb[f]
<1>1. chosen \in Entry /\ rb[chosen] = rb[f]
  OBVIOUS
<1>2. chosen = f
  BY <1>1
<1> QED
  BY <1>2 DEF MovedBy

LEMMA MovedByItself ==
  ASSUME NEW lns, NEW rb, NEW e, \A g \in Entry : rb[g] # e
  PROVE  MovedBy(lns, rb, e) = lns[e]
BY DEF MovedBy

LEMMA MovedIsMovedBy ==
  /\ \A e \in Entry : Moved[e] = MovedBy(lines, reversedBy, e)
  /\ \A e \in Entry : Moved'[e] = MovedBy(lines', reversedBy', e)
BY DEF Moved, MovedBy

\* An entry is the reversal of one other at most, and a reversal is booked.
LEMMA ReversalsOf ==
  ASSUME StoredPairing, NEW f \in Entry, reversedBy[f] # NoEntry
  PROVE  /\ f \in Booked /\ reversedBy[f] \in Booked
         /\ \A g \in Entry : reversedBy[g] = reversedBy[f] => g = f
         /\ lines[reversedBy[f]] = MirrorStored(lines[f], currency[f])
<1>1. status[f] = "REVERSED"
  BY DEF StoredPairing
<1> QED
  BY <1>1 DEF StoredPairing, Booked

LEMMA NotReversal ==
  ASSUME StoredPairing, NEW e \in Entry, e \notin Booked
  PROVE  \A g \in Entry : reversedBy[g] # e
BY ReversalsOf, NoEntryAssumption

\* A booked entry keeps what it moves while booked lines and reversals stay,
\* and no booked entry becomes a reversal.
LEMMA BookedKeepMoving ==
  ASSUME StoredPairing, \A f \in Booked : lines'[f] = lines[f],
         \A f \in Entry : \/ reversedBy'[f] = reversedBy[f]
                          \/ reversedBy[f] = NoEntry /\ reversedBy'[f] \notin Booked
  PROVE  \A e \in Booked : Moved'[e] = Moved[e]
<1> SUFFICES ASSUME NEW e \in Booked
             PROVE  MovedBy(lines', reversedBy', e) = MovedBy(lines, reversedBy, e)
  BY MovedIsMovedBy DEF Booked
<1>0. e \in Entry /\ e # NoEntry
  BY NoEntryAssumption DEF Booked
<1>1. CASE \E f \in Entry : reversedBy[f] = e
  <2>1. PICK f \in Entry : reversedBy[f] = e
    BY <1>1
  <2>2. f \in Booked /\ \A g \in Entry : reversedBy[g] = e => g = f
    BY <1>0, <2>1, ReversalsOf
  <2>3. reversedBy'[f] = e /\ lines'[f] = lines[f]
    BY <1>0, <2>1, <2>2
  <2>4. \A g \in Entry : reversedBy'[g] = e => g = f
    BY <2>2
  <2>5. MovedBy(lines, reversedBy, reversedBy[f]) = Mirror(lines[f])
    BY <2>1, <2>2, MovedByReversal
  <2>6. MovedBy(lines', reversedBy', reversedBy'[f]) = Mirror(lines'[f])
    BY <2>3, <2>4, MovedByReversal
  <2> QED
    BY <2>1, <2>3, <2>5, <2>6
<1>2. CASE \A f \in Entry : reversedBy[f] # e
  <2>1. \A f \in Entry : reversedBy'[f] # e
    BY <1>2
  <2>2. MovedBy(lines, reversedBy, e) = lines[e]
    BY <1>2, MovedByItself
  <2>3. MovedBy(lines', reversedBy', e) = lines'[e]
    BY <2>1, MovedByItself
  <2> QED
    BY <2>2, <2>3
<1> QED
  BY <1>1, <1>2

BookedMatch ==
  /\ FiniteJournal(Moved, Booked)
  /\ posted = JournalSum(Moved, Booked)

\* Entries come and go beside the booked ones.
LEMMA BookedFrame ==
  ASSUME BookedMatch, Booked' = Booked, posted' = posted,
         \A f \in Booked : Moved'[f] = Moved[f]
  PROVE  BookedMatch'
BY JournalFrame DEF BookedMatch

\* postLinesToBalances, moveLinesToPosted and the reversal: a booked entry adds
\* what it moves.
LEMMA BookedAfterAdd ==
  ASSUME BookedMatch, NEW e \in Entry, NEW ls \in Seq(Line), e \notin Booked,
         Booked' = Booked \cup {e}, Moved'[e] = ls,
         \A f \in Booked : Moved'[f] = Moved[f],
         posted' = Add(posted, ls)
  PROVE  BookedMatch'
<1>1. FiniteJournal(Moved', Booked) /\ JournalSum(Moved', Booked) = posted
  BY JournalFrame DEF BookedMatch
<1>2. /\ FiniteJournal(Moved', Booked \cup {e})
      /\ JournalSum(Moved', Booked \cup {e}) = Add(posted, ls)
  <2>1. /\ FiniteJournal(Moved', Booked \cup {e})
        /\ JournalSum(Moved', Booked \cup {e})
             = Add(JournalSum(Moved', Booked), Moved'[e])
    BY <1>1, JournalAdd
  <2> QED
    BY <1>1, <2>1
<1> QED
  BY <1>2 DEF BookedMatch

\* BookedMatch is inductive together with LedgerInv and StoredPairing.
LEMMA BookedStep ==
  ASSUME LedgerInv, StoredPairing, BookedMatch, [Next]_vars
  PROVE  BookedMatch'
<1>0. EntryTypes
  BY DEF LedgerInv
<1>1. ASSUME UNCHANGED <<lines, reversedBy>>
      PROVE  Moved' = Moved
  BY <1>1 DEF Moved
<1>2. CASE Quiet
  <2>1. Booked' = Booked /\ posted' = posted /\ UNCHANGED <<lines, reversedBy>>
    BY <1>2 DEF Quiet, Booked
  <2> QED
    BY <1>1, <2>1, BookedFrame
<1>3. ASSUME NEW e \in Entry, NEW r \in Request, Holds(e, r) \/ Books(e, r)
      PROVE  BookedMatch'
  <2>1. /\ status[e] = "NONE" /\ lines' = [lines EXCEPT ![e] = r.lines]
        /\ reversedBy' = reversedBy
    BY <1>3 DEF Holds, Books, Insert, Write
  <2>2. /\ e \notin Booked /\ lines'[e] = r.lines
        /\ \A f \in Booked : lines'[f] = lines[f]
    BY <1>0, <2>1 DEF Booked, EntryTypes
  <2>3. \A f \in Booked : Moved'[f] = Moved[f]
    BY <2>1, <2>2, BookedKeepMoving
  <2>4. Moved'[e] = r.lines
    <3>1. \A g \in Entry : reversedBy'[g] # e
      BY <2>1, <2>2, NotReversal
    <3>2. MovedBy(lines', reversedBy', e) = lines'[e]
      BY <3>1, MovedByItself
    <3> QED
      BY <2>2, <3>2, MovedIsMovedBy
  <2>5. CASE Holds(e, r)
    <3>1. Booked' = Booked /\ posted' = posted
      BY <1>0, <2>5 DEF Holds, Insert, Write, Booked, EntryTypes
    <3> QED
      BY <2>3, <3>1, BookedFrame
  <2>6. CASE Books(e, r)
    <3>1. Booked' = Booked \cup {e} /\ posted' = Add(posted, r.lines)
      BY <1>0, <2>6 DEF Books, Insert, Write, Booked, EntryTypes
    <3> QED
      BY <2>2, <2>3, <2>4, <3>1, RequestTypes, BookedAfterAdd
  <2> QED
    BY <1>3, <2>5, <2>6
<1>4. ASSUME NEW e \in Entry, Voids(e)
      PROVE  BookedMatch'
  <2>1. Booked' = Booked /\ posted' = posted /\ UNCHANGED <<lines, reversedBy>>
    BY <1>0, <1>4 DEF Voids, Booked, EntryTypes
  <2> QED
    BY <1>1, <2>1, BookedFrame
<1>5. ASSUME NEW e \in Entry, Converts(e)
      PROVE  BookedMatch'
  <2>1. /\ Booked' = Booked \cup {e} /\ e \notin Booked
        /\ posted' = Add(posted, lines[e]) /\ lines[e] \in Seq(Line)
        /\ UNCHANGED <<lines, reversedBy>>
    BY <1>0, <1>5 DEF Converts, Booked, EntryTypes
  <2>2. Moved' = Moved
    BY <1>1, <2>1
  <2>3. Moved[e] = lines[e]
    BY <2>1, NotReversal, MovedByItself, MovedIsMovedBy
  <2> QED
    BY <2>1, <2>2, <2>3, BookedAfterAdd
<1>6. ASSUME NEW e \in Entry, NEW m \in Entry, NEW v \in ReversalRequest,
             Reverses(e, m, v)
      PROVE  BookedMatch'
  <2> DEFINE ls == Mirror(lines[e])
             stored == MirrorStored(lines[e], currency[e])
  <2>1. ls \in Seq(Line)
    BY <1>0, MirrorType DEF EntryTypes
  <2>2. /\ status[e] = "POSTED" /\ reversedBy[e] = NoEntry /\ status[m] = "NONE"
        /\ status' = [status EXCEPT ![e] = "REVERSED", ![m] = "POSTED"]
        /\ lines' = [lines EXCEPT ![m] = stored]
        /\ reversedBy' = [reversedBy EXCEPT ![e] = m]
        /\ posted' = Add(posted, ls)
    BY <1>6 DEF Reverses
  <2> HIDE DEF ls, stored
  <2>3. /\ e \in Booked /\ m \notin Booked /\ Booked' = Booked \cup {m}
        /\ \A f \in Booked : lines'[f] = lines[f]
        /\ reversedBy'[e] = m /\ \A f \in Entry \ {e} : reversedBy'[f] = reversedBy[f]
    BY <1>0, <2>2 DEF Booked, EntryTypes
  <2>4. \A f \in Booked : Moved'[f] = Moved[f]
    BY <2>2, <2>3, BookedKeepMoving
  <2>5. Moved'[m] = ls
    <3>1. \A g \in Entry : reversedBy'[g] = reversedBy'[e] => g = e
      BY <2>3, NotReversal
    <3>2. MovedBy(lines', reversedBy', reversedBy'[e]) = Mirror(lines'[e])
      BY <3>1, MovedByReversal
    <3> QED
      BY <2>3, <3>2, MovedIsMovedBy DEF ls
  <2> QED
    BY <2>1, <2>2, <2>3, <2>4, <2>5, BookedAfterAdd
<1> QED
  BY <1>2, <1>3, <1>4, <1>5, <1>6, Effects

LEMMA BookedInit ==
  ASSUME Init
  PROVE  BookedMatch
<1>1. Booked = {}
  BY DEF Init, JInit, Booked
<1> QED
  BY <1>1, EmptyJournal DEF Init, BookedMatch

THEOREM BookedInvariant == Spec => []BookedMatch
<1>1. Init => BookedMatch
  BY BookedInit
<1>2. LedgerInv /\ StoredPairing /\ BookedMatch /\ [Next]_vars => BookedMatch'
  BY BookedStep
<1> QED
  BY <1>1, <1>2, LedgerInvariant, ReversalsAreStored, PTL DEF Spec

\* Whatever reserves, posts, releases and reversals interleave, and whatever
\* currencies they mix, the counters of fin_account_balances are the sums of
\* what the entries hold and of what they moved.
THEOREM CountersAreWhatMoved ==
  Spec => [](/\ reserved = JournalSum(lines, Pending)
             /\ posted = JournalSum(Moved, Booked))
<1>1. LedgerInv /\ BookedMatch => /\ reserved = JournalSum(lines, Pending)
                                  /\ posted = JournalSum(Moved, Booked)
  BY DEF LedgerInv, HoldsMatch, BookedMatch
<1> QED
  BY <1>1, LedgerInvariant, BookedInvariant, PTL

\* Every step of the posting engine is a step of the journal or changes nothing
\* in it: the counters decide as the journal itself would.
LEMMA JournalStep ==
  ASSUME LedgerInv, BookedMatch, [Next]_vars
  PROVE  [JNext]_jvars
<1>0. /\ EntryTypes
      /\ posted = JournalSum(Moved, Booked) /\ reserved = JournalSum(lines, Pending)
  BY DEF LedgerInv, HoldsMatch, BookedMatch
<1>1. CASE Quiet
  BY <1>1 DEF Quiet, JNext, SetOpening, jvars
<1>2. ASSUME NEW e \in Entry, NEW r \in Request, Holds(e, r)
      PROVE  JNext
  <2>1. Propose(e, r.lines, r.currency, r.period)
    BY <1>0, <1>2 DEF Holds, Insert, Propose, Available
  <2> QED
    BY <2>1, RequestTypes DEF JNext
<1>3. ASSUME NEW e \in Entry, NEW r \in Request, Books(e, r)
      PROVE  JNext
  <2>1. Book(e, r.lines, r.currency, r.period)
    BY <1>3 DEF Books, Insert, Book
  <2> QED
    BY <2>1, RequestTypes DEF JNext
<1>4. ASSUME NEW e \in Entry, Voids(e)
      PROVE  JNext
  BY <1>4 DEF Voids, Discard, JNext
<1>5. ASSUME NEW e \in Entry, Converts(e)
      PROVE  JNext
  BY <1>0, <1>5 DEF Converts, Accept, Actual, JNext
<1>6. ASSUME NEW e \in Entry, NEW m \in Entry, NEW v \in ReversalRequest,
             Reverses(e, m, v)
      PROVE  JNext
  <2>1. Reverse(e, m, v.period)
    BY <1>0, <1>6 DEF Reverses, Reverse, Actual, Available
  <2> QED
    BY <2>1, ReversalTypes DEF JNext
<1> QED
  BY <1>1, <1>2, <1>3, <1>4, <1>5, <1>6, Effects

\* The posting engine implements the journal.
THEOREM ImplementsJournal == Spec => JSpec
<1>1. Init => JInit
  BY DEF Init
<1>2. LedgerInv /\ BookedMatch /\ [Next]_vars => [JNext]_jvars
  BY JournalStep
<1> QED
  BY <1>1, <1>2, LedgerInvariant, BookedInvariant, PTL DEF Spec, JSpec

---------------------------------------------------------------------------
(* When no entry mixes currencies, an entry moves what its lines say.      *)

\* Every proposal has all its lines in the currency of its header.  The code
\* does not check this (DOUBLE_ENTRY is balanced per currency); a reversal of
\* a mixed entry is what it rules out.
SingleCurrency ==
  \A r \in Request : \A i \in 1 .. Len(r.lines) :
    CurrencyOf[r.lines[i].account] = r.currency

\* In a single currency the stored reversal lines are the mirrored lines.
LEMMA MirrorStoredIsMirror ==
  ASSUME NEW ls \in Seq(Line), NEW cur,
         \A i \in 1 .. Len(ls) : CurrencyOf[ls[i].account] = cur
  PROVE  MirrorStored(ls, cur) = Mirror(ls)
<1>1. ASSUME NEW i \in 1 .. Len(ls)
      PROVE  [Mirror(ls)[i] EXCEPT !.account = InCurrency[ls[i].account][cur]]
               = Mirror(ls)[i]
  <2>1. ls[i].account \in Account
    <3>1. ls[i] \in Line
      OBVIOUS
    <3> QED
      BY <3>1 DEF Line
  <2>2. InCurrency[ls[i].account][cur] = ls[i].account
    BY <2>1, InCurrencyAssumption
  <2> QED
    BY <2>2 DEF Mirror
<1> QED
  BY <1>1 DEF MirrorStored, Mirror

\* All lines of an entry are in its header's currency.
LinesInHeader ==
  \A e \in Entry : \A i \in 1 .. Len(lines[e]) :
    CurrencyOf[lines[e][i].account] = currency[e]

\* The stored reversal of an unmixed entry is its mirror.
LEMMA UnmixedMirror ==
  ASSUME LedgerInv, LinesInHeader, NEW e \in Entry
  PROVE  MirrorStored(lines[e], currency[e]) = Mirror(lines[e])
BY MirrorStoredIsMirror DEF LedgerInv, EntryTypes, LinesInHeader

\* A written entry's lines are in its header's currency, the others' stay so.
LEMMA LinesFrame ==
  ASSUME EntryTypes, LinesInHeader, NEW e \in Entry, NEW ls, NEW cur,
         lines' = [lines EXCEPT ![e] = ls],
         currency' = [currency EXCEPT ![e] = cur],
         \A i \in 1 .. Len(ls) : CurrencyOf[ls[i].account] = cur
  PROVE  LinesInHeader'
<1>1. /\ lines'[e] = ls /\ currency'[e] = cur
      /\ \A f \in Entry \ {e} : lines'[f] = lines[f] /\ currency'[f] = currency[f]
  BY DEF EntryTypes
<1>2. ASSUME NEW f \in Entry, NEW i \in 1 .. Len(lines'[f])
      PROVE  CurrencyOf[lines'[f][i].account] = currency'[f]
  <2>1. CASE f = e
    BY <1>1, <2>1
  <2>2. CASE f # e
    BY <1>1, <2>2 DEF LinesInHeader
  <2> QED
    BY <2>1, <2>2
<1> QED
  BY <1>2 DEF LinesInHeader

\* LinesInHeader is inductive together with LedgerInv.
LEMMA UnmixedStep ==
  ASSUME SingleCurrency, LedgerInv, LinesInHeader, [Next]_vars
  PROVE  LinesInHeader'
<1>0. EntryTypes
  BY DEF LedgerInv
<1>1. CASE Quiet
  BY <1>1 DEF Quiet, LinesInHeader
<1>2. ASSUME NEW e \in Entry, NEW r \in Request, Holds(e, r) \/ Books(e, r)
      PROVE  LinesInHeader'
  <2>1. /\ lines' = [lines EXCEPT ![e] = r.lines]
        /\ currency' = [currency EXCEPT ![e] = r.currency]
    BY <1>2 DEF Holds, Books, Insert, Write
  <2> QED
    BY <1>0, <2>1, LinesFrame DEF SingleCurrency
<1>3. ASSUME NEW e \in Entry, Voids(e) \/ Converts(e)
      PROVE  LinesInHeader'
  BY <1>3 DEF Voids, Converts, LinesInHeader
<1>4. ASSUME NEW e \in Entry, NEW m \in Entry, NEW v \in ReversalRequest,
             Reverses(e, m, v)
      PROVE  LinesInHeader'
  <2> DEFINE ls == Mirror(lines[e])
  <2>1. /\ lines[e] \in Seq(Line)
        /\ \A i \in 1 .. Len(lines[e]) : CurrencyOf[lines[e][i].account] = currency[e]
    BY <1>0 DEF EntryTypes, LinesInHeader
  <2>2. /\ Len(lines[e]) \in Nat /\ Len(ls) = Len(lines[e])
        /\ \A i \in 1 .. Len(lines[e]) : ls[i].account = lines[e][i].account
    BY <2>1 DEF Mirror
  <2>3. \A i \in 1 .. Len(ls) : CurrencyOf[ls[i].account] = currency[e]
    BY <2>1, <2>2
  <2> HIDE DEF ls
  <2>4. /\ lines' = [lines EXCEPT ![m] = ls]
        /\ currency' = [currency EXCEPT ![m] = currency[e]]
    BY <1>4, UnmixedMirror DEF Reverses, ls
  <2> QED
    BY <1>0, <2>3, <2>4, LinesFrame
<1> QED
  BY <1>1, <1>2, <1>3, <1>4, Effects

\* It holds in every reachable state when no request mixes currencies.
THEOREM UnmixedInvariant ==
  ASSUME SingleCurrency
  PROVE  Spec => []LinesInHeader
<1>1. ASSUME Init PROVE LinesInHeader
  <2>1. \A e \in Entry : lines[e] = << >>
    BY <1>1 DEF Init, JInit
  <2>2. \A i \in 1 .. Len(<< >>) : FALSE
    OBVIOUS
  <2> QED
    BY <2>1, <2>2 DEF LinesInHeader
<1>2. LedgerInv /\ LinesInHeader /\ [Next]_vars => LinesInHeader'
  BY UnmixedStep
<1> QED
  BY <1>1, <1>2, LedgerInvariant, PTL DEF Spec

\* A booked entry then moves its lines.
LEMMA UnmixedMoves ==
  ASSUME LedgerInv, StoredPairing, LinesInHeader, NEW e \in Booked
  PROVE  Moved[e] = lines[e]
<1>0. e \in Entry /\ e # NoEntry
  BY NoEntryAssumption DEF Booked
<1>1. CASE \E f \in Entry : reversedBy[f] = e
  <2>1. PICK f \in Entry : reversedBy[f] = e
    BY <1>1
  <2>2. /\ \A g \in Entry : reversedBy[g] = reversedBy[f] => g = f
        /\ lines[e] = MirrorStored(lines[f], currency[f])
    BY <1>0, <2>1, ReversalsOf
  <2>3. MovedBy(lines, reversedBy, reversedBy[f]) = Mirror(lines[f])
    BY <2>2, MovedByReversal
  <2> QED
    BY <1>0, <2>1, <2>2, <2>3, UnmixedMirror, MovedIsMovedBy
<1>2. CASE \A f \in Entry : reversedBy[f] # e
  BY <1>0, <1>2, MovedByItself, MovedIsMovedBy
<1> QED
  BY <1>1, <1>2

\* The counters of fin_account_balances are the sums of the journal's lines.
THEOREM CountersAreTheJournal ==
  ASSUME SingleCurrency
  PROVE  Spec => []CountersMatchJournal
<1>1. ASSUME LedgerInv, StoredPairing, BookedMatch, LinesInHeader
      PROVE  CountersMatchJournal
  <2>1. JournalSum(lines, Booked) = JournalSum(Moved, Booked)
    BY <1>1, UnmixedMoves, JournalFrame
  <2> QED
    BY <1>1, <2>1 DEF LedgerInv, HoldsMatch, BookedMatch, CountersMatchJournal
<1>2. LedgerInv /\ StoredPairing /\ BookedMatch /\ LinesInHeader => CountersMatchJournal
  BY <1>1
<1> QED
  BY <1>2, LedgerInvariant, ReversalsAreStored, BookedInvariant, UnmixedInvariant, PTL

\* Every reversed entry has one mirrored, booked reversal of its own.
THEOREM ReversalsArePaired ==
  ASSUME SingleCurrency
  PROVE  Spec => []ReversalPairing
<1>1. ASSUME LedgerInv, LinesInHeader, StoredPairing
      PROVE  ReversalPairing
  <2>1. \A e \in Entry : MirrorStored(lines[e], currency[e]) = Mirror(lines[e])
    BY <1>1, UnmixedMirror
  <2> QED
    BY <1>1, <2>1 DEF StoredPairing, ReversalPairing
<1>2. LedgerInv /\ LinesInHeader /\ StoredPairing => ReversalPairing
  BY <1>1
<1> QED
  BY <1>2, LedgerInvariant, UnmixedInvariant, ReversalsAreStored, PTL

---------------------------------------------------------------------------
(* Coverage: what the loop checks at the last outflow line of an account   *)
(* is what the account holds after the whole entry.                        *)

\* A non-empty set of numbers below a bound has a greatest element.
LEMMA GreatestExists ==
  ASSUME NEW S \in SUBSET Nat, S # {}, NEW bound \in Nat, \A n \in S : n <= bound
  PROVE  \E n \in S : \A k \in S : k <= n
<1> DEFINE T == {bound - n : n \in S}
<1>1. T \subseteq Nat /\ T # {}
  <2>1. ASSUME NEW y \in T PROVE y \in Nat
    <3>1. PICK n \in S : y = bound - n
      OBVIOUS
    <3>2. n \in Nat /\ n <= bound
      OBVIOUS
    <3> QED BY <3>1, <3>2
  <2> QED BY <2>1
<1>2. PICK x \in T : \A y \in T : ~ (<<y, x>> \in OpToRel(<, Nat))
  BY <1>1, NatLessThanWellFounded, WFMin
<1>3. \A y \in T : x <= y
  <2> SUFFICES ASSUME NEW y \in T PROVE x <= y
    OBVIOUS
  <2>1. x \in Nat /\ y \in Nat /\ <<y, x>> \in Nat \X Nat
    BY <1>1, <1>2
  <2>2. <<y, x>> \notin OpToRel(<, Nat)
    BY <1>2
  <2>3. ~ (y < x)
    BY <2>1, <2>2 DEF OpToRel
  <2> QED BY <2>1, <2>3
<1>4. PICK n \in S : x = bound - n
  BY <1>2
<1>5. ASSUME NEW k \in S PROVE k <= n
  <2>1. bound - n <= bound - k
    BY <1>3, <1>4
  <2>2. bound \in Nat /\ n \in Nat /\ k \in Nat
    OBVIOUS
  <2> QED BY <2>1, <2>2
<1> QED BY <1>5

\* An opening balance is a number, whatever was entered.
LEMMA OpeningIsInt ==
  ASSUME EntryTypes, NEW a \in Account, NEW p \in Nat
  PROVE  Opening(a, p) \in Int
<1> DEFINE dates == {q \in Period : q <= p /\ openings[a][q] # NoOpening}
           latest == CHOOSE q \in dates : \A r \in dates : r <= q
<1>1. CASE dates = {}
  BY <1>1 DEF Opening
<1>2. CASE dates # {}
  <2>1. dates \in SUBSET Nat /\ \A q \in dates : q <= p
    BY PeriodAssumption
  <2>2. \E q \in dates : \A r \in dates : r <= q
    BY <1>2, <2>1, GreatestExists
  <2>3. latest \in dates
    BY <2>2
  <2>4. openings[a][latest] \in [direction : Direction, amount : Int]
    <3>1. openings[a] \in [Period -> OpeningSide \cup {NoOpening}]
      BY DEF EntryTypes
    <3>2. openings[a][latest] \in OpeningSide
      BY <2>3, <3>1
    <3> QED BY <3>2, OpeningSideAssumption
  <2>5. NaturalOpening(openings[a][latest], a) \in Int
    BY <2>4 DEF NaturalOpening, NatureSign
  <2> QED
    BY <1>2, <2>5 DEF Opening
<1> QED
  BY <1>1, <1>2

\* The direction that draws account a down.
Outward(a) == IF Nature[a] = "C" THEN "DEBIT" ELSE "CREDIT"
Inward(a) == IF Nature[a] = "C" THEN "CREDIT" ELSE "DEBIT"

\* The sign of a nature-C account turns a difference round.
LEMMA NegativeSign ==
  ASSUME NEW x \in Int, NEW y \in Int
  PROVE  (-1) * (x - y) = y - x
OBVIOUS

LEMMA NetIsInwardLessOutward ==
  ASSUME NEW ls \in Seq(Line), NEW a
  PROVE  /\ Net(ls, a) = Amount(ls, a, Inward(a)) - Amount(ls, a, Outward(a))
         /\ Net(ls, a) \in Int
<1>1. Amount(ls, a, "DEBIT") \in Nat /\ Amount(ls, a, "CREDIT") \in Nat
  BY UnitsFinite
<1>2. CASE Nature[a] = "C"
  BY <1>1, <1>2 DEF Net, NatureSign, Inward, Outward
<1>3. CASE Nature[a] # "C"
  BY <1>1, <1>3 DEF Net, NatureSign, Inward, Outward
<1> QED
  BY <1>2, <1>3

\* A line that draws its account down has a negative delta.
LEMMA OutwardIsNegative ==
  ASSUME NEW l \in Line, l.direction = Outward(l.account)
  PROVE  LineDelta(l) < 0
<1>1. l.amount \in Nat /\ l.amount > 0
  BY MaxAmountAssumption DEF Line
<1>2. CASE Nature[l.account] = "C"
  BY <1>1, <1>2 DEF LineDelta, NatureSign, Outward
<1>3. CASE Nature[l.account] # "C"
  BY <1>1, <1>3 DEF LineDelta, NatureSign, Outward
<1> QED
  BY <1>2, <1>3

\* The lines up to the last outward one draw as much as all of them and bring
\* in no more.
LEMMA NetOfPrefix ==
  ASSUME NEW ls \in Seq(Line), NEW a, NEW i \in 1 .. Len(ls),
         \A j \in 1 .. Len(ls) :
           ls[j].account = a /\ ls[j].direction = Outward(a) => j <= i
  PROVE  Net(SubSeq(ls, 1, i), a) <= Net(ls, a)
<1> DEFINE pre == SubSeq(ls, 1, i)
<1>1. /\ pre \in Seq(Line) /\ Len(pre) = i
      /\ \A j \in 1 .. i : pre[j] = ls[j]
  OBVIOUS
<1> HIDE DEF pre
<1>2. Units(pre, a, Outward(a)) = Units(ls, a, Outward(a))
  <2>1. ASSUME NEW x \in Units(pre, a, Outward(a))
        PROVE  x \in Units(ls, a, Outward(a))
    <3>1. x[1] \in 1 .. Len(ls) /\ pre[x[1]] = ls[x[1]]
      BY <1>1, <2>1 DEF Units
    <3> QED BY <2>1, <3>1 DEF Units
  <2>2. ASSUME NEW x \in Units(ls, a, Outward(a))
        PROVE  x \in Units(pre, a, Outward(a))
    <3>1. x[1] \in 1 .. i
      BY <2>2 DEF Units
    <3>2. pre[x[1]] = ls[x[1]]
      BY <1>1, <3>1
    <3> QED BY <1>1, <2>2, <3>1, <3>2 DEF Units
  <2> QED BY <2>1, <2>2
<1>3. Units(pre, a, Inward(a)) \subseteq Units(ls, a, Inward(a))
  <2>1. ASSUME NEW x \in Units(pre, a, Inward(a))
        PROVE  x \in Units(ls, a, Inward(a))
    <3>1. x[1] \in 1 .. Len(ls) /\ pre[x[1]] = ls[x[1]]
      BY <1>1, <2>1 DEF Units
    <3> QED BY <2>1, <3>1 DEF Units
  <2> QED BY <2>1
<1>4. /\ Amount(pre, a, Outward(a)) = Amount(ls, a, Outward(a))
      /\ Amount(pre, a, Inward(a)) <= Amount(ls, a, Inward(a))
  BY <1>2, <1>3, UnitsFinite, FS_Subset DEF Amount
<1>5. /\ Amount(pre, a, Inward(a)) \in Nat /\ Amount(ls, a, Inward(a)) \in Nat
      /\ Amount(ls, a, Outward(a)) \in Nat
  BY <1>1, UnitsFinite
<1>6. Net(pre, a) <= Net(ls, a)
  BY <1>1, <1>4, <1>5, NetIsInwardLessOutward
<1> QED BY <1>6 DEF pre

\* An entry that draws an account down has a last line that does.
LEMMA LastOutward ==
  ASSUME NEW ls \in Seq(Line), NEW a, Net(ls, a) < 0
  PROVE  \E i \in 1 .. Len(ls) :
           /\ ls[i].account = a /\ ls[i].direction = Outward(a)
           /\ \A j \in 1 .. Len(ls) :
                ls[j].account = a /\ ls[j].direction = Outward(a) => j <= i
<1> DEFINE S == {i \in 1 .. Len(ls) : ls[i].account = a /\ ls[i].direction = Outward(a)}
<1>1. S # {}
  <2> SUFFICES ASSUME S = {} PROVE FALSE
    OBVIOUS
  <2>1. Units(ls, a, Outward(a)) = {}
    BY DEF Units
  <2>2. Amount(ls, a, Outward(a)) = 0
    BY <2>1, FS_EmptySet DEF Amount
  <2>3. Amount(ls, a, Inward(a)) \in Nat
    BY UnitsFinite
  <2> QED BY <2>2, <2>3, NetIsInwardLessOutward
<1>2. Len(ls) \in Nat /\ S \in SUBSET Nat /\ \A n \in S : n <= Len(ls)
  OBVIOUS
<1>3. \E n \in S : \A k \in S : k <= n
  BY <1>1, <1>2, GreatestExists
<1> QED BY <1>3

\* So the line-by-line check covers the whole entry.
LEMMA CoversEntry ==
  ASSUME NEW ls \in Seq(Line), NEW value \in [Account -> Int], Covers(value, ls),
         NEW a \in Account, Nature[a] # "B", Net(ls, a) < 0
  PROVE  value[a] + Net(ls, a) >= 0
<1>1. PICK i \in 1 .. Len(ls) :
        /\ ls[i].account = a /\ ls[i].direction = Outward(a)
        /\ \A j \in 1 .. Len(ls) :
             ls[j].account = a /\ ls[j].direction = Outward(a) => j <= i
  BY LastOutward
<1>2. ls[i] \in Line
  OBVIOUS
<1>3. LineDelta(ls[i]) < 0
  BY <1>1, <1>2, OutwardIsNegative
<1>4. value[a] + Net(SubSeq(ls, 1, i), a) >= 0
  BY <1>1, <1>3 DEF Covers
<1>5. Net(SubSeq(ls, 1, i), a) <= Net(ls, a)
  BY <1>1, NetOfPrefix
<1>6. SubSeq(ls, 1, i) \in Seq(Line)
  OBVIOUS
<1>7. Net(SubSeq(ls, 1, i), a) \in Int /\ Net(ls, a) \in Int /\ value[a] \in Int
  BY <1>6, NetIsInwardLessOutward
<1> QED BY <1>4, <1>5, <1>7

LEMMA CoversReversedEntry ==
  ASSUME NEW ls \in Seq(Line), NEW actual \in [Account -> Int],
         NEW available \in [Account -> Int],
         CoversReversal(actual, available, ls),
         NEW a \in Account, Nature[a] # "B", Net(ls, a) < 0
  PROVE  actual[a] + Net(ls, a) >= 0 /\ available[a] + Net(ls, a) >= 0
<1>1. PICK i \in 1 .. Len(ls) : ls[i].account = a
  BY LastOutward
<1> QED BY <1>1 DEF CoversReversal

\* Adding an entry to a set of counters moves their signed value by its net.
LEMMA SignedAfterAdd ==
  ASSUME NEW cs \in Counters, NEW ls \in Seq(Line), NEW a \in Account
  PROVE  /\ NaturalSigned(Add(cs, ls), a) = NaturalSigned(cs, a) + Net(ls, a)
         /\ NaturalSigned(cs, a) \in Int /\ Net(ls, a) \in Int
<1>1. /\ cs[a]["DEBIT"] \in Nat /\ cs[a]["CREDIT"] \in Nat
      /\ Amount(ls, a, "DEBIT") \in Nat /\ Amount(ls, a, "CREDIT") \in Nat
  BY UnitsFinite DEF Counters, Direction
<1>2. /\ Add(cs, ls)[a]["DEBIT"] = cs[a]["DEBIT"] + Amount(ls, a, "DEBIT")
      /\ Add(cs, ls)[a]["CREDIT"] = cs[a]["CREDIT"] + Amount(ls, a, "CREDIT")
  BY DEF Add, Direction
<1>3. CASE Nature[a] = "C"
  <2>1. NatureSign(a) = -1
    BY <1>3 DEF NatureSign
  <2> DEFINE D == cs[a]["DEBIT"] + Amount(ls, a, "DEBIT")
             C == cs[a]["CREDIT"] + Amount(ls, a, "CREDIT")
  <2>2. /\ NaturalSigned(Add(cs, ls), a) = (-1) * (D - C)
        /\ NaturalSigned(cs, a) = (-1) * (cs[a]["DEBIT"] - cs[a]["CREDIT"])
        /\ Net(ls, a) = (-1) * (Amount(ls, a, "DEBIT") - Amount(ls, a, "CREDIT"))
    BY <1>2, <2>1 DEF NaturalSigned, Net
  <2>3. /\ NaturalSigned(Add(cs, ls), a) = C - D
        /\ NaturalSigned(cs, a) = cs[a]["CREDIT"] - cs[a]["DEBIT"]
        /\ Net(ls, a) = Amount(ls, a, "CREDIT") - Amount(ls, a, "DEBIT")
    <3>1. D \in Int /\ C \in Int
      BY <1>1
    <3> HIDE DEF D, C
    <3>2. (-1) * (D - C) = C - D
      BY <3>1, NegativeSign
    <3>3. (-1) * (cs[a]["DEBIT"] - cs[a]["CREDIT"]) = cs[a]["CREDIT"] - cs[a]["DEBIT"]
      BY <1>1, NegativeSign
    <3>4. (-1) * (Amount(ls, a, "DEBIT") - Amount(ls, a, "CREDIT"))
            = Amount(ls, a, "CREDIT") - Amount(ls, a, "DEBIT")
      BY <1>1, NegativeSign
    <3> QED BY <2>2, <3>2, <3>3, <3>4
  <2> QED BY <1>1, <2>3
<1>4. CASE Nature[a] # "C"
  BY <1>1, <1>2, <1>4 DEF NaturalSigned, Net, NatureSign
<1> QED BY <1>3, <1>4

LEMMA ValuesAreInts ==
  ASSUME EntryTypes, posted \in Counters, reserved \in Counters, NEW p \in Nat
  PROVE  Actual(p) \in [Account -> Int] /\ Available(p) \in [Account -> Int]
<1>1. ASSUME NEW a \in Account
      PROVE  /\ Opening(a, p) \in Int
             /\ NaturalSigned(posted, a) \in Int /\ NaturalSigned(reserved, a) \in Int
  <2>1. << >> \in Seq(Line)
    OBVIOUS
  <2> QED BY <2>1, OpeningIsInt, SignedAfterAdd
<1> QED BY <1>1 DEF Actual, Available, ActualOf, AvailableOf

\* Openings that no step touches are the same before and after it.
LEMMA OpeningUnmoved ==
  ASSUME UNCHANGED openings, NEW a, NEW p
  PROVE  Opening(a, p)' = Opening(a, p)
BY DEF Opening, NaturalOpening, NatureSign

\* What adding covered lines to one of two counter sets leaves.
LEMMA ActualAfterBooking ==
  ASSUME EntryTypes, posted \in Counters, NEW p \in Nat, NEW ls \in Seq(Line),
         UNCHANGED openings, posted' = Add(posted, ls), NEW a \in Account
  PROVE  ActualOf(posted, p)'[a] = Actual(p)[a] + Net(ls, a)
<1>1. Opening(a, p)' = Opening(a, p) /\ Opening(a, p) \in Int
  BY OpeningUnmoved, OpeningIsInt
<1>2. NaturalSigned(posted, a)' = NaturalSigned(posted', a)
  BY DEF NaturalSigned, NatureSign
<1>3. /\ NaturalSigned(posted', a) = NaturalSigned(posted, a) + Net(ls, a)
      /\ NaturalSigned(posted, a) \in Int /\ Net(ls, a) \in Int
  BY SignedAfterAdd
<1>4. /\ ActualOf(posted, p)'[a] = Opening(a, p)' + NaturalSigned(posted, a)'
      /\ Actual(p)[a] = Opening(a, p) + NaturalSigned(posted, a)
  BY DEF ActualOf, Actual
<1> QED BY <1>1, <1>2, <1>3, <1>4

LEMMA AvailableAfterBooking ==
  ASSUME EntryTypes, posted \in Counters, reserved \in Counters,
         NEW p \in Nat, NEW ls \in Seq(Line), UNCHANGED openings,
         \/ posted' = Add(posted, ls) /\ reserved' = reserved
         \/ posted' = posted /\ reserved' = Add(reserved, ls),
         NEW a \in Account
  PROVE  AvailableOf(posted, reserved, p)'[a] = Available(p)[a] + Net(ls, a)
<1>1. Opening(a, p)' = Opening(a, p) /\ Opening(a, p) \in Int
  BY OpeningUnmoved, OpeningIsInt
<1>2. /\ NaturalSigned(posted, a)' = NaturalSigned(posted', a)
      /\ NaturalSigned(reserved, a)' = NaturalSigned(reserved', a)
  BY DEF NaturalSigned, NatureSign
<1>3. /\ NaturalSigned(posted, a) \in Int /\ NaturalSigned(reserved, a) \in Int
      /\ Net(ls, a) \in Int
      /\ NaturalSigned(Add(posted, ls), a) = NaturalSigned(posted, a) + Net(ls, a)
      /\ NaturalSigned(Add(reserved, ls), a) = NaturalSigned(reserved, a) + Net(ls, a)
  BY SignedAfterAdd
<1>4. /\ AvailableOf(posted, reserved, p)'[a]
           = Opening(a, p)' + NaturalSigned(posted, a)' + NaturalSigned(reserved, a)'
      /\ Available(p)[a]
           = Opening(a, p) + NaturalSigned(posted, a) + NaturalSigned(reserved, a)
  BY DEF AvailableOf, Available
<1>5. CASE posted' = Add(posted, ls) /\ reserved' = reserved
  BY <1>1, <1>2, <1>3, <1>4, <1>5
<1>6. CASE posted' = posted /\ reserved' = Add(reserved, ls)
  BY <1>1, <1>2, <1>3, <1>4, <1>6
<1> QED BY <1>5, <1>6

\* The drawdowns of one step, whoever takes it.
DrawsCovered(e) ==
  /\ status[e] = "NONE" /\ status'[e] = "PENDING"
       => Covered(Available(period[e])', lines'[e])
  /\ status[e] = "PENDING" /\ status'[e] = "POSTED"
       => Covered(Actual(period[e])', lines[e])
  /\ status[e] = "POSTED" /\ status'[e] = "REVERSED"
       => /\ Covered(Available(period[reversedBy[e]])', Mirror(lines[e]))
          /\ Covered(Actual(period[reversedBy[e]])', Mirror(lines[e]))

LEMMA DrawdownStep ==
  ASSUME LedgerInv, [Next]_vars, NEW f \in Entry
  PROVE  DrawsCovered(f)
<1>0. EntryTypes /\ posted \in Counters /\ reserved \in Counters
  BY LedgerTypes DEF LedgerInv, TypeOK
<1>1. CASE Quiet
  BY <1>1 DEF Quiet, DrawsCovered
<1>2. ASSUME NEW e \in Entry, NEW r \in Request, Holds(e, r)
      PROVE  DrawsCovered(f)
  <2>1. /\ status[e] = "NONE" /\ status' = [status EXCEPT ![e] = "PENDING"]
        /\ lines'[e] = r.lines /\ period'[e] = r.period
        /\ Covers(Available(r.period), r.lines) /\ UNCHANGED openings
        /\ posted' = posted /\ reserved' = Add(reserved, r.lines)
    BY <1>0, <1>2 DEF Holds, Insert, Write, EntryTypes
  <2>2. r.lines \in Seq(Line) /\ r.period \in Nat
    BY RequestTypes
  <2>3. CASE f # e
    BY <1>0, <2>1, <2>3 DEF DrawsCovered, EntryTypes
  <2>4. CASE f = e
    <3>1. Covered(AvailableOf(posted, reserved, r.period)', r.lines)
      <4> SUFFICES ASSUME NEW a \in Account, Nature[a] # "B", Net(r.lines, a) < 0
                   PROVE  AvailableOf(posted, reserved, r.period)'[a] >= 0
        BY DEF Covered
      <4>1. Available(r.period)[a] + Net(r.lines, a) >= 0
        BY <1>0, <2>1, <2>2, ValuesAreInts, CoversEntry
      <4> QED BY <1>0, <2>1, <2>2, <4>1, AvailableAfterBooking
    <3>2. Available(period[f])' = AvailableOf(posted, reserved, r.period)'
      BY <2>1, <2>4 DEF Available
    <3>3. status'[f] = "PENDING" /\ status[f] = "NONE"
      BY <1>0, <2>1, <2>4 DEF EntryTypes
    <3> QED BY <2>1, <2>4, <3>1, <3>2, <3>3 DEF DrawsCovered
  <2> QED BY <2>3, <2>4
<1>3. ASSUME NEW e \in Entry, NEW r \in Request, Books(e, r)
      PROVE  DrawsCovered(f)
  BY <1>0, <1>3 DEF Books, Insert, Write, EntryTypes, DrawsCovered
<1>4. ASSUME NEW e \in Entry, Voids(e)
      PROVE  DrawsCovered(f)
  BY <1>0, <1>4 DEF Voids, EntryTypes, DrawsCovered
<1>5. ASSUME NEW e \in Entry, Converts(e)
      PROVE  DrawsCovered(f)
  <2>1. /\ status[e] = "PENDING" /\ status' = [status EXCEPT ![e] = "POSTED"]
        /\ Covers(Actual(period[e]), lines[e]) /\ UNCHANGED <<openings, period>>
        /\ posted' = Add(posted, lines[e])
    BY <1>5 DEF Converts
  <2>2. lines[e] \in Seq(Line) /\ period[e] \in Nat
    BY <1>0 DEF EntryTypes
  <2>3. CASE f # e
    BY <1>0, <2>1, <2>3 DEF DrawsCovered, EntryTypes
  <2>4. CASE f = e
    <3>0. PICK p \in Nat : p = period[e]
      BY <2>2
    <3>1. Covered(ActualOf(posted, p)', lines[e])
      <4> SUFFICES ASSUME NEW a \in Account, Nature[a] # "B", Net(lines[e], a) < 0
                   PROVE  ActualOf(posted, p)'[a] >= 0
        BY DEF Covered
      <4>1. Actual(p)[a] + Net(lines[e], a) >= 0
        BY <1>0, <2>1, <2>2, <3>0, ValuesAreInts, CoversEntry
      <4> QED BY <1>0, <2>1, <2>2, <4>1, ActualAfterBooking
    <3>2. Actual(period[f])' = ActualOf(posted, p)'
      BY <2>1, <2>4, <3>0 DEF Actual
    <3>3. status'[f] = "POSTED" /\ status[f] = "PENDING"
      BY <1>0, <2>1, <2>4 DEF EntryTypes
    <3> QED BY <2>4, <3>1, <3>2, <3>3 DEF DrawsCovered
  <2> QED BY <2>3, <2>4
<1>6. ASSUME NEW e \in Entry, NEW m \in Entry, NEW v \in ReversalRequest,
             Reverses(e, m, v)
      PROVE  DrawsCovered(f)
  <2>1. /\ status[e] = "POSTED" /\ status[m] = "NONE"
        /\ status' = [status EXCEPT ![e] = "REVERSED", ![m] = "POSTED"]
        /\ CoversReversal(Actual(v.period), Available(v.period), Mirror(lines[e]))
        /\ period' = [period EXCEPT ![m] = v.period]
        /\ reversedBy' = [reversedBy EXCEPT ![e] = m]
        /\ posted' = Add(posted, Mirror(lines[e])) /\ reserved' = reserved
        /\ UNCHANGED openings
    BY <1>6 DEF Reverses
  <2>2. /\ Mirror(lines[e]) \in Seq(Line) /\ v.period \in Nat
    BY <1>0, MirrorType, ReversalTypes DEF EntryTypes
  <2>3. CASE f # e
    BY <1>0, <2>1, <2>3 DEF DrawsCovered, EntryTypes
  <2>4. CASE f = e
    <3>1. /\ Covered(ActualOf(posted, v.period)', Mirror(lines[e]))
          /\ Covered(AvailableOf(posted, reserved, v.period)', Mirror(lines[e]))
      <4> SUFFICES ASSUME NEW a \in Account, Nature[a] # "B",
                          Net(Mirror(lines[e]), a) < 0
                   PROVE  /\ ActualOf(posted, v.period)'[a] >= 0
                          /\ AvailableOf(posted, reserved, v.period)'[a] >= 0
        BY DEF Covered
      <4>1. /\ Actual(v.period)[a] + Net(Mirror(lines[e]), a) >= 0
            /\ Available(v.period)[a] + Net(Mirror(lines[e]), a) >= 0
        BY <1>0, <2>1, <2>2, ValuesAreInts, CoversReversedEntry
      <4> QED
        BY <1>0, <2>1, <2>2, <4>1, ActualAfterBooking, AvailableAfterBooking
    <3>2. period'[m] = v.period /\ reversedBy'[f] = m
      BY <1>0, <2>1, <2>4 DEF EntryTypes
    <3>3. /\ Actual(period[reversedBy[f]])' = ActualOf(posted, v.period)'
          /\ Available(period[reversedBy[f]])' = AvailableOf(posted, reserved, v.period)'
      BY <3>2 DEF Actual, Available
    <3>4. status'[f] = "REVERSED" /\ status[f] = "POSTED"
      BY <1>0, <2>1, <2>4 DEF EntryTypes
    <3> QED BY <2>4, <3>1, <3>3, <3>4 DEF DrawsCovered
  <2> QED BY <2>3, <2>4
<1> QED
  BY <1>1, <1>2, <1>3, <1>4, <1>5, <1>6, Effects

\* Whatever moved money between a call's lookup and its transaction, an account
\* that a hold, a conversion or a reversal draws on is not overdrawn by it: the
\* check of each line against the running row under the lock covers the whole
\* entry (checkReserve, checkPostActual, checkReversal).
THEOREM DrawdownsStayCovered ==
  Spec => DrawdownsAreCovered
<1>1. LedgerInv /\ [Next]_vars =>
        [\A e \in Entry :
           /\ status[e] = "NONE" /\ status'[e] = "PENDING"
                => Covered(Available(period[e])', lines'[e])
           /\ status[e] = "PENDING" /\ status'[e] = "POSTED"
                => Covered(Actual(period[e])', lines[e])
           /\ status[e] = "POSTED" /\ status'[e] = "REVERSED"
                => /\ Covered(Available(period[reversedBy[e]])', Mirror(lines[e]))
                   /\ Covered(Actual(period[reversedBy[e]])', Mirror(lines[e]))]_vars
  BY DrawdownStep DEF DrawsCovered
<1> QED
  BY <1>1, LedgerInvariant, PTL DEF Spec, DrawdownsAreCovered

---------------------------------------------------------------------------
(* The trial balance: an entry adds to the counters of a currency as many  *)
(* minor units on one side as on the other.                                *)

LEMMA SideUnitsFinite ==
  ASSUME NEW ls \in Seq(Line), NEW c, NEW d
  PROVE  /\ IsFiniteSet(SideUnits(ls, c, d))
         /\ Cardinality(SideUnits(ls, c, d)) \in Nat
<1>1. Len(ls) \in Nat
  OBVIOUS
<1>2. IsFiniteSet(1 .. Len(ls)) /\ IsFiniteSet(1 .. MaxAmount)
  BY <1>1, FS_Interval, MaxAmountAssumption
<1>3. IsFiniteSet((1 .. Len(ls)) \X (1 .. MaxAmount))
  BY <1>2, FS_Product
<1>4. SideUnits(ls, c, d) \in SUBSET ((1 .. Len(ls)) \X (1 .. MaxAmount))
  BY DEF SideUnits
<1> QED
  BY <1>3, <1>4, FS_Subset, FS_CardinalityType

\* A balanced entry is balanced in every currency, also in those it is not in.
LEMMA BalancedInAll ==
  ASSUME NEW ls \in Seq(Line), Balanced(ls), NEW c
  PROVE  Cardinality(SideUnits(ls, c, "DEBIT")) = Cardinality(SideUnits(ls, c, "CREDIT"))
<1>1. CASE \E i \in 1 .. Len(ls) : CurrencyOf[ls[i].account] = c
  BY <1>1 DEF Balanced
<1>2. CASE \A i \in 1 .. Len(ls) : CurrencyOf[ls[i].account] # c
  <2>1. SideUnits(ls, c, "DEBIT") = {} /\ SideUnits(ls, c, "CREDIT") = {}
    BY <1>2 DEF SideUnits
  <2> QED BY <2>1
<1> QED BY <1>1, <1>2

\* Mirroring swaps the sides of an entry.
LEMMA MirrorBalanced ==
  ASSUME NEW ls \in Seq(Line), Balanced(ls)
  PROVE  Balanced(Mirror(ls))
<1>0. /\ Len(ls) \in Nat /\ ls # << >> /\ Mirror(ls) \in Seq(Line)
      /\ Len(Mirror(ls)) = Len(ls)
      /\ \A i \in 1 .. Len(ls) :
           /\ ls[i].direction \in {"DEBIT", "CREDIT"}
           /\ Mirror(ls)[i].account = ls[i].account
           /\ Mirror(ls)[i].amount = ls[i].amount
           /\ Mirror(ls)[i].direction =
                IF ls[i].direction = "CREDIT" THEN "DEBIT" ELSE "CREDIT"
  <2>1. ASSUME NEW i \in 1 .. Len(ls)
        PROVE  ls[i].direction \in {"DEBIT", "CREDIT"}
    <3>1. ls[i] \in Line
      OBVIOUS
    <3> QED BY <3>1 DEF Line, Direction
  <2> QED BY <2>1, MirrorType DEF Mirror, Balanced
<1>1. ASSUME NEW c
      PROVE  /\ SideUnits(Mirror(ls), c, "DEBIT") = SideUnits(ls, c, "CREDIT")
             /\ SideUnits(Mirror(ls), c, "CREDIT") = SideUnits(ls, c, "DEBIT")
  <2>1. ASSUME NEW x \in (1 .. Len(ls)) \X (1 .. MaxAmount)
        PROVE  /\ x \in SideUnits(Mirror(ls), c, "DEBIT") <=> x \in SideUnits(ls, c, "CREDIT")
               /\ x \in SideUnits(Mirror(ls), c, "CREDIT") <=> x \in SideUnits(ls, c, "DEBIT")
    <3>1. x[1] \in 1 .. Len(ls)
      OBVIOUS
    <3> QED BY <1>0, <3>1 DEF SideUnits
  <2> QED BY <1>0, <2>1 DEF SideUnits
<1>2. Mirror(ls) # << >>
  BY <1>0
<1>3. ASSUME NEW i \in 1 .. Len(Mirror(ls))
      PROVE  Cardinality(SideUnits(Mirror(ls), CurrencyOf[Mirror(ls)[i].account], "DEBIT"))
               = Cardinality(SideUnits(Mirror(ls), CurrencyOf[Mirror(ls)[i].account], "CREDIT"))
  BY <1>1, BalancedInAll
<1> QED
  BY <1>2, <1>3 DEF Balanced

\* All units of one side of an entry, whatever their currency.
AllUnits(ls, d) ==
  {x \in (1 .. Len(ls)) \X (1 .. MaxAmount) :
     ls[x[1]].direction = d /\ x[2] <= ls[x[1]].amount}

\* The currency of a unit.
UnitCurrency(ls, x) == CurrencyOf[ls[x[1]].account]

LEMMA AllUnit ==
  ASSUME NEW ls \in Seq(Line), NEW d, NEW x \in AllUnits(ls, d)
  PROVE  /\ UnitCurrency(ls, x) \in Currency
         /\ x \in SideUnits(ls, UnitCurrency(ls, x), d)
<1>1. x[1] \in 1 .. Len(ls)
  BY DEF AllUnits
<1>2. ls[x[1]] \in Line
  BY <1>1
<1> QED
  BY <1>2 DEF AllUnits, SideUnits, UnitCurrency, Currency, Line

LEMMA SideUnit ==
  ASSUME NEW ls \in Seq(Line), NEW c, NEW d, NEW x \in SideUnits(ls, c, d)
  PROVE  x \in AllUnits(ls, d) /\ UnitCurrency(ls, x) = c
BY DEF AllUnits, SideUnits, UnitCurrency

\* Two finite sets of one size correspond one to one.
LEMMA SameSize ==
  ASSUME NEW S, NEW T, IsFiniteSet(S), IsFiniteSet(T), Cardinality(S) = Cardinality(T)
  PROVE  \E h : h \in Bijection(S, T)
<1>1. ExistsBijection(1 .. Cardinality(S), S) /\ ExistsBijection(1 .. Cardinality(S), T)
  BY FS_CardinalityType
<1>2. ExistsBijection(S, T)
  BY <1>1, Fun_ExistsBijSymmetric, Fun_ExistsBijTransitive
<1> QED
  BY <1>2, Fun_ExistsBij

\* An entry balanced in every currency is balanced over all of them: its units
\* correspond one to one currency by currency.
LEMMA BalancedOverAll ==
  ASSUME NEW ls \in Seq(Line), Balanced(ls)
  PROVE  Cardinality(AllUnits(ls, "DEBIT")) = Cardinality(AllUnits(ls, "CREDIT"))
<1> DEFINE Dr == AllUnits(ls, "DEBIT")
           Cr == AllUnits(ls, "CREDIT")
           f == [c \in Currency |->
                   CHOOSE h : h \in Bijection(SideUnits(ls, c, "DEBIT"),
                                             SideUnits(ls, c, "CREDIT"))]
           g == [x \in Dr |-> f[UnitCurrency(ls, x)][x]]
<1>1. ASSUME NEW c \in Currency
      PROVE  /\ f[c] \in [SideUnits(ls, c, "DEBIT") -> SideUnits(ls, c, "CREDIT")]
             /\ \A x, y \in SideUnits(ls, c, "DEBIT") : f[c][x] = f[c][y] => x = y
             /\ \A u \in SideUnits(ls, c, "CREDIT") :
                  \E x \in SideUnits(ls, c, "DEBIT") : f[c][x] = u
  <2> DEFINE S == SideUnits(ls, c, "DEBIT")
             T == SideUnits(ls, c, "CREDIT")
             h == f[c]
  <2>1. IsFiniteSet(S) /\ IsFiniteSet(T) /\ Cardinality(S) = Cardinality(T)
    BY SideUnitsFinite, BalancedInAll
  <2> HIDE DEF S, T
  <2>2. \E k : k \in Bijection(S, T)
    BY <2>1, SameSize
  <2>3. h \in Bijection(S, T)
    BY <2>2 DEF S, T
  <2> HIDE DEF h
  <2>4. /\ h \in [S -> T]
        /\ \A x, y \in S : h[x] = h[y] => x = y
        /\ \A u \in T : \E x \in S : h[x] = u
    BY <2>3, Fun_BijectionProperties
  <2> QED
    BY <2>4 DEF S, T, h
<1> HIDE DEF f
<1>2. ASSUME NEW x \in Dr
      PROVE  /\ UnitCurrency(ls, x) \in Currency
             /\ x \in SideUnits(ls, UnitCurrency(ls, x), "DEBIT")
             /\ g[x] = f[UnitCurrency(ls, x)][x]
             /\ g[x] \in SideUnits(ls, UnitCurrency(ls, x), "CREDIT")
             /\ g[x] \in Cr
             /\ UnitCurrency(ls, g[x]) = UnitCurrency(ls, x)
  <2>1. /\ UnitCurrency(ls, x) \in Currency
        /\ x \in SideUnits(ls, UnitCurrency(ls, x), "DEBIT")
    BY AllUnit
  <2>2. g[x] \in SideUnits(ls, UnitCurrency(ls, x), "CREDIT")
    BY <1>1, <2>1
  <2> QED
    BY <2>1, <2>2, SideUnit
<1>3. g \in [Dr -> Cr]
  BY <1>2
<1>4. ASSUME NEW x \in Dr, NEW y \in Dr, g[x] = g[y]
      PROVE  x = y
  <2>1. UnitCurrency(ls, x) = UnitCurrency(ls, y)
    BY <1>2, <1>4
  <2> QED
    BY <1>1, <1>2, <1>4, <2>1
<1>5. ASSUME NEW u \in Cr
      PROVE  \E x \in Dr : g[x] = u
  <2> DEFINE c == UnitCurrency(ls, u)
  <2>1. c \in Currency /\ u \in SideUnits(ls, c, "CREDIT")
    BY AllUnit
  <2>2. PICK x \in SideUnits(ls, c, "DEBIT") : f[c][x] = u
    BY <1>1, <2>1
  <2>3. x \in Dr /\ UnitCurrency(ls, x) = c
    BY SideUnit
  <2> QED
    BY <2>2, <2>3
<1> HIDE DEF g
<1>6. ExistsBijection(Dr, Cr)
  BY <1>3, <1>4, <1>5, Fun_IsBij, Fun_ExistsBij
<1>7. IsFiniteSet(Dr)
  <2>1. Len(ls) \in Nat
    OBVIOUS
  <2>2. IsFiniteSet(1 .. Len(ls)) /\ IsFiniteSet(1 .. MaxAmount)
    BY <2>1, FS_Interval, MaxAmountAssumption
  <2>3. IsFiniteSet((1 .. Len(ls)) \X (1 .. MaxAmount))
    BY <2>2, FS_Product
  <2>4. Dr \in SUBSET ((1 .. Len(ls)) \X (1 .. MaxAmount))
    BY DEF AllUnits
  <2> QED
    BY <2>3, <2>4, FS_Subset
<1> HIDE DEF Dr, Cr
<1>8. Cardinality(Cr) = Cardinality(Dr)
  BY <1>6, <1>7, FS_Bijection, Fun_ExistsBijSymmetric
<1> QED
  BY <1>8 DEF Dr, Cr

\* Stored in the header's currency, a reversal balances there, also when the
\* entry it reverses was balanced in several.
LEMMA StoredBalanced ==
  ASSUME NEW ls \in Seq(Line), Balanced(ls), NEW cur \in Currency
  PROVE  Balanced(MirrorStored(ls, cur))
<1> DEFINE ms == MirrorStored(ls, cur)
<1>0. /\ Len(ls) \in Nat /\ ls # << >> /\ ms \in Seq(Line) /\ Len(ms) = Len(ls)
      /\ \A i \in 1 .. Len(ls) :
           /\ ls[i].direction \in {"DEBIT", "CREDIT"}
           /\ CurrencyOf[ms[i].account] = cur
           /\ ms[i].amount = ls[i].amount
           /\ ms[i].direction = IF ls[i].direction = "CREDIT" THEN "DEBIT" ELSE "CREDIT"
  <2>1. ASSUME NEW i \in 1 .. Len(ls)
        PROVE  ls[i].direction \in {"DEBIT", "CREDIT"}
    <3>1. ls[i] \in Line
      OBVIOUS
    <3> QED
      BY <3>1 DEF Line, Direction
  <2>2. \A i \in 1 .. Len(ls) :
          Mirror(ls)[i].direction = IF ls[i].direction = "CREDIT" THEN "DEBIT" ELSE "CREDIT"
    BY DEF Mirror
  <2>3. ls # << >>
    BY DEF Balanced
  <2> QED
    BY <2>1, <2>2, <2>3, MirrorStoredType
<1> HIDE DEF ms
<1>1. /\ SideUnits(ms, cur, "DEBIT") = AllUnits(ls, "CREDIT")
      /\ SideUnits(ms, cur, "CREDIT") = AllUnits(ls, "DEBIT")
  <2>1. ASSUME NEW x \in (1 .. Len(ls)) \X (1 .. MaxAmount)
        PROVE  /\ x \in SideUnits(ms, cur, "DEBIT") <=> x \in AllUnits(ls, "CREDIT")
               /\ x \in SideUnits(ms, cur, "CREDIT") <=> x \in AllUnits(ls, "DEBIT")
    <3>1. x[1] \in 1 .. Len(ls)
      OBVIOUS
    <3> QED
      BY <1>0, <3>1 DEF SideUnits, AllUnits
  <2> QED
    BY <1>0, <2>1 DEF SideUnits, AllUnits
<1>2. \A i \in 1 .. Len(ms) : CurrencyOf[ms[i].account] = cur
  BY <1>0
<1>3. ms # << >>
  BY <1>0
<1>4. Balanced(ms)
  BY <1>1, <1>2, <1>3, BalancedOverAll DEF Balanced
<1> QED
  BY <1>4 DEF ms

\* What a unit of the counters is.
LEMMA CounterUnit ==
  ASSUME NEW cs, NEW c, NEW d, NEW x
  PROVE  x \in CounterUnits(cs, c, d) <=>
           \E a \in Account : \E n \in 1 .. cs[a][d] : CurrencyOf[a] = c /\ x = <<a, n>>
BY DEF CounterUnits

\* The units that the lines ls add to the counters.
GainedUnits(cs, ls, c, d) ==
  {x \in CounterUnits(Add(cs, ls), c, d) : x \notin CounterUnits(cs, c, d)}

LEMMA GainedUnit ==
  ASSUME NEW cs \in Counters, NEW ls \in Seq(Line), NEW c, NEW d \in Direction, NEW x
  PROVE  x \in GainedUnits(cs, ls, c, d) <=>
           \E a \in Account : \E n \in 1 .. Amount(ls, a, d) :
             CurrencyOf[a] = c /\ x = <<a, cs[a][d] + n>>
<1>1. ASSUME NEW a \in Account
      PROVE  /\ cs[a][d] \in Nat /\ Amount(ls, a, d) \in Nat
             /\ Add(cs, ls)[a][d] = cs[a][d] + Amount(ls, a, d)
  BY UnitsFinite DEF Counters, Add
<1>2. ASSUME NEW a \in Account, NEW n \in 1 .. Amount(ls, a, d),
             CurrencyOf[a] = c, x = <<a, cs[a][d] + n>>
      PROVE  x \in GainedUnits(cs, ls, c, d)
  <2>1. cs[a][d] + n \in 1 .. Add(cs, ls)[a][d]
    BY <1>1
  <2>2. x \in CounterUnits(Add(cs, ls), c, d)
    BY <1>2, <2>1, CounterUnit
  <2>3. ASSUME NEW b \in Account, NEW k \in 1 .. cs[b][d], x = <<b, k>>
        PROVE  FALSE
    BY <1>1, <1>2, <2>3
  <2> QED BY <2>2, <2>3, CounterUnit DEF GainedUnits
<1>3. ASSUME x \in GainedUnits(cs, ls, c, d)
      PROVE  \E a \in Account : \E n \in 1 .. Amount(ls, a, d) :
               CurrencyOf[a] = c /\ x = <<a, cs[a][d] + n>>
  <2>1. x \in CounterUnits(Add(cs, ls), c, d) /\ x \notin CounterUnits(cs, c, d)
    BY <1>3 DEF GainedUnits
  <2>2. PICK a \in Account :
          \E k \in 1 .. Add(cs, ls)[a][d] : CurrencyOf[a] = c /\ x = <<a, k>>
    BY <2>1, CounterUnit
  <2>3. PICK k \in 1 .. Add(cs, ls)[a][d] : CurrencyOf[a] = c /\ x = <<a, k>>
    BY <2>2
  <2>4. k \notin 1 .. cs[a][d]
    BY <2>1, <2>3, CounterUnit
  <2>5. k - cs[a][d] \in 1 .. Amount(ls, a, d) /\ k = cs[a][d] + (k - cs[a][d])
    BY <1>1, <2>3, <2>4
  <2> QED BY <2>3, <2>5
<1> QED BY <1>2, <1>3

\* They are as many as those of the entry's side: on each account one to one.
LEMMA GainedAreSideUnits ==
  ASSUME NEW cs \in Counters, NEW ls \in Seq(Line), NEW c, NEW d \in Direction
  PROVE  /\ IsFiniteSet(GainedUnits(cs, ls, c, d))
         /\ Cardinality(GainedUnits(cs, ls, c, d)) = Cardinality(SideUnits(ls, c, d))
<1> DEFINE f == [a \in Account |->
                   CHOOSE h : h \in Bijection(1 .. Amount(ls, a, d), Units(ls, a, d))]
           G == GainedUnits(cs, ls, c, d)
           S == SideUnits(ls, c, d)
           g == [x \in G |-> f[x[1]][x[2] - cs[x[1]][d]]]
<1>1. ASSUME NEW a \in Account
      PROVE  /\ f[a] \in [1 .. Amount(ls, a, d) -> Units(ls, a, d)]
             /\ \A n, k \in 1 .. Amount(ls, a, d) : f[a][n] = f[a][k] => n = k
             /\ \A u \in Units(ls, a, d) : \E n \in 1 .. Amount(ls, a, d) : f[a][n] = u
  <2>1. ExistsBijection(1 .. Amount(ls, a, d), Units(ls, a, d))
    BY UnitsFinite, FS_CardinalityType DEF Amount
  <2>2. \E h : h \in Bijection(1 .. Amount(ls, a, d), Units(ls, a, d))
    BY <2>1, Fun_ExistsBij
  <2>3. f[a] \in Bijection(1 .. Amount(ls, a, d), Units(ls, a, d))
    BY <2>2
  <2>4. ASSUME NEW D, NEW U, NEW h \in Bijection(D, U)
        PROVE  /\ h \in [D -> U]
               /\ \A n, k \in D : h[n] = h[k] => n = k
               /\ \A u \in U : \E n \in D : h[n] = u
    BY Fun_BijectionProperties
  <2> HIDE DEF f
  <2> DEFINE D == 1 .. Amount(ls, a, d)
             U == Units(ls, a, d)
             h == f[a]
  <2>5. h \in Bijection(D, U)
    BY <2>3
  <2> HIDE DEF D, U, h
  <2>6. /\ h \in [D -> U]
        /\ \A n, k \in D : h[n] = h[k] => n = k
        /\ \A u \in U : \E n \in D : h[n] = u
    BY <2>4, <2>5
  <2> QED BY <2>6 DEF D, U, h
<1> HIDE DEF f
<1>2. ASSUME NEW x \in G, NEW a \in Account, NEW n \in 1 .. Amount(ls, a, d),
             x = <<a, cs[a][d] + n>>
      PROVE  g[x] = f[a][n]
  <2>1. cs[a][d] \in Nat /\ n \in Int
    BY DEF Counters
  <2>2. x[1] = a /\ x[2] - cs[a][d] = n
    BY <1>2, <2>1
  <2> QED BY <2>2
<1> HIDE DEF G, g
<1>3. ASSUME NEW a \in Account, CurrencyOf[a] = c, NEW u \in Units(ls, a, d)
      PROVE  u \in S /\ ls[u[1]].account = a
  BY <1>3 DEF Units, SideUnits
<1>4. ASSUME NEW u \in S
      PROVE  \E a \in Account : CurrencyOf[a] = c /\ u \in Units(ls, a, d)
  <2>1. u[1] \in 1 .. Len(ls)
    BY DEF SideUnits
  <2>2. ls[u[1]] \in Line
    BY <2>1
  <2>3. ls[u[1]].account \in Account
    BY <2>2 DEF Line
  <2> QED BY <2>3 DEF SideUnits, Units
<1>5. ASSUME NEW x \in G
      PROVE  \E a \in Account : \E n \in 1 .. Amount(ls, a, d) :
               /\ CurrencyOf[a] = c /\ x = <<a, cs[a][d] + n>>
               /\ g[x] = f[a][n] /\ g[x] \in Units(ls, a, d)
  <2>1. PICK a \in Account : \E n \in 1 .. Amount(ls, a, d) :
               CurrencyOf[a] = c /\ x = <<a, cs[a][d] + n>>
    BY GainedUnit DEF G
  <2>2. PICK n \in 1 .. Amount(ls, a, d) :
               CurrencyOf[a] = c /\ x = <<a, cs[a][d] + n>>
    BY <2>1
  <2>3. g[x] = f[a][n]
    BY <1>2, <2>2
  <2>4. f[a] \in [1 .. Amount(ls, a, d) -> Units(ls, a, d)]
    BY <1>1
  <2>5. g[x] \in Units(ls, a, d)
    BY <2>2, <2>3, <2>4
  <2> QED BY <2>2, <2>3, <2>5
<1>6. g \in [G -> S]
  <2>1. \A x \in G : g[x] \in S
    BY <1>3, <1>5
  <2> QED BY <2>1 DEF g
<1>7. ASSUME NEW x \in G, NEW y \in G, g[x] = g[y]
      PROVE  x = y
  <2>1. PICK a \in Account : \E n \in 1 .. Amount(ls, a, d) :
               /\ CurrencyOf[a] = c /\ x = <<a, cs[a][d] + n>>
               /\ g[x] = f[a][n] /\ g[x] \in Units(ls, a, d)
    BY <1>5
  <2>2. PICK n \in 1 .. Amount(ls, a, d) :
               /\ CurrencyOf[a] = c /\ x = <<a, cs[a][d] + n>>
               /\ g[x] = f[a][n] /\ g[x] \in Units(ls, a, d)
    BY <2>1
  <2>3. PICK b \in Account : \E k \in 1 .. Amount(ls, b, d) :
               /\ CurrencyOf[b] = c /\ y = <<b, cs[b][d] + k>>
               /\ g[y] = f[b][k] /\ g[y] \in Units(ls, b, d)
    BY <1>5
  <2>4. PICK k \in 1 .. Amount(ls, b, d) :
               /\ CurrencyOf[b] = c /\ y = <<b, cs[b][d] + k>>
               /\ g[y] = f[b][k] /\ g[y] \in Units(ls, b, d)
    BY <2>3
  <2>5. a = b
    BY <1>3, <1>7, <2>2, <2>4
  <2>6. n = k
    BY <1>1, <1>7, <2>2, <2>4, <2>5
  <2> QED BY <2>2, <2>4, <2>5, <2>6
<1>8. ASSUME NEW u \in S
      PROVE  \E x \in G : g[x] = u
  <2>1. PICK a \in Account : CurrencyOf[a] = c /\ u \in Units(ls, a, d)
    BY <1>4
  <2>2. PICK n \in 1 .. Amount(ls, a, d) : f[a][n] = u
    BY <1>1, <2>1
  <2>3. <<a, cs[a][d] + n>> \in G
    BY <2>1, GainedUnit DEF G
  <2>4. g[<<a, cs[a][d] + n>>] = u
    BY <1>2, <2>2, <2>3
  <2> QED BY <2>3, <2>4
<1>9. g \in Bijection(G, S)
  BY <1>6, <1>7, <1>8, Fun_IsBij
<1>10. ExistsBijection(G, S) /\ ExistsBijection(S, G)
  <2>1. ExistsBijection(G, S)
    BY <1>9, Fun_ExistsBij
  <2> QED BY <2>1, Fun_ExistsBijSymmetric
<1>11. IsFiniteSet(S)
  BY SideUnitsFinite
<1>12. IsFiniteSet(G) /\ Cardinality(G) = Cardinality(S)
  BY <1>10, <1>11, FS_Bijection
<1> QED BY <1>12 DEF G

LEMMA CounterUnitsAdd ==
  ASSUME NEW cs \in Counters, NEW ls \in Seq(Line), NEW c, NEW d \in Direction,
         IsFiniteSet(CounterUnits(cs, c, d))
  PROVE  /\ IsFiniteSet(CounterUnits(Add(cs, ls), c, d))
         /\ Cardinality(CounterUnits(Add(cs, ls), c, d))
              = Cardinality(CounterUnits(cs, c, d)) + Cardinality(SideUnits(ls, c, d))
<1> DEFINE Old == CounterUnits(cs, c, d)
           New == CounterUnits(Add(cs, ls), c, d)
           Gained == GainedUnits(cs, ls, c, d)
<1>1. ASSUME NEW a \in Account
      PROVE  /\ cs[a][d] \in Nat
             /\ Add(cs, ls)[a][d] \in Nat /\ cs[a][d] <= Add(cs, ls)[a][d]
  BY UnitsFinite DEF Counters, Add
<1>2. Old \subseteq New
  <2> SUFFICES ASSUME NEW x \in Old PROVE x \in New
    OBVIOUS
  <2>1. PICK a \in Account : \E n \in 1 .. cs[a][d] : CurrencyOf[a] = c /\ x = <<a, n>>
    BY CounterUnit
  <2>2. PICK n \in 1 .. cs[a][d] : CurrencyOf[a] = c /\ x = <<a, n>>
    BY <2>1
  <2>3. n \in 1 .. Add(cs, ls)[a][d]
    BY <1>1, <2>2
  <2> QED BY <2>2, <2>3, CounterUnit
<1>3. New = Old \cup Gained /\ Old \cap Gained = {}
  BY <1>2 DEF GainedUnits
<1>4. IsFiniteSet(Gained) /\ Cardinality(Gained) = Cardinality(SideUnits(ls, c, d))
  BY GainedAreSideUnits
<1>5. /\ IsFiniteSet(Old \cup Gained)
      /\ Cardinality(Old \cup Gained)
           = Cardinality(Old) + Cardinality(Gained) - Cardinality(Old \cap Gained)
  BY <1>4, FS_Union
<1>6. Cardinality(Old \cap Gained) = 0
  BY <1>3, FS_EmptySet
<1>7. Cardinality(Old) \in Nat /\ Cardinality(Gained) \in Nat
  BY <1>4, FS_CardinalityType
<1> HIDE DEF Old, New, Gained
<1>8. IsFiniteSet(New) /\ Cardinality(New) = Cardinality(Old) + Cardinality(Gained)
  BY <1>3, <1>5, <1>6, <1>7
<1> QED
  BY <1>4, <1>8 DEF Old, New, Gained

\* A set of counters whose sides are equal, and finite, in every currency.
InBalance(cs) ==
  \A c \in Currency :
    /\ IsFiniteSet(CounterUnits(cs, c, "DEBIT"))
    /\ IsFiniteSet(CounterUnits(cs, c, "CREDIT"))
    /\ Cardinality(CounterUnits(cs, c, "DEBIT"))
         = Cardinality(CounterUnits(cs, c, "CREDIT"))

LEMMA InBalanceAfterAdd ==
  ASSUME NEW cs \in Counters, NEW ls \in Seq(Line), InBalance(cs), Balanced(ls)
  PROVE  InBalance(Add(cs, ls))
<1> SUFFICES ASSUME NEW c \in Currency
             PROVE  /\ IsFiniteSet(CounterUnits(Add(cs, ls), c, "DEBIT"))
                    /\ IsFiniteSet(CounterUnits(Add(cs, ls), c, "CREDIT"))
                    /\ Cardinality(CounterUnits(Add(cs, ls), c, "DEBIT"))
                         = Cardinality(CounterUnits(Add(cs, ls), c, "CREDIT"))
  BY DEF InBalance
<1>1. /\ IsFiniteSet(CounterUnits(cs, c, "DEBIT"))
      /\ IsFiniteSet(CounterUnits(cs, c, "CREDIT"))
      /\ Cardinality(CounterUnits(cs, c, "DEBIT"))
           = Cardinality(CounterUnits(cs, c, "CREDIT"))
  BY DEF InBalance
<1>2. "DEBIT" \in Direction /\ "CREDIT" \in Direction
  BY DEF Direction
<1>3. Cardinality(SideUnits(ls, c, "DEBIT")) = Cardinality(SideUnits(ls, c, "CREDIT"))
  BY BalancedInAll
<1> QED BY <1>1, <1>2, <1>3, CounterUnitsAdd

\* What was reserved or booked balances, and so do the counters.
BalanceInv ==
  /\ \A e \in Entry : status[e] # "NONE" => Balanced(lines[e])
  /\ InBalance(posted)

LEMMA BalanceInit ==
  ASSUME Init
  PROVE  BalanceInv
<1>1. ASSUME NEW c, NEW d \in Direction
      PROVE  CounterUnits(posted, c, d) = {}
  <2>1. \A a \in Account : posted[a][d] = 0
    BY DEF Init, ZeroCounters
  <2>2. 1 .. 0 = {}
    OBVIOUS
  <2> QED BY <2>1, <2>2, CounterUnit
<1>2. "DEBIT" \in Direction /\ "CREDIT" \in Direction
  BY DEF Direction
<1>3. InBalance(posted)
  BY <1>1, <1>2, FS_EmptySet DEF InBalance
<1> QED
  BY <1>3 DEF Init, JInit, BalanceInv

LEMMA BalanceStep ==
  ASSUME LedgerInv, BalanceInv, [Next]_vars
  PROVE  BalanceInv'
<1>0. EntryTypes /\ posted \in Counters
  BY LedgerTypes DEF LedgerInv, TypeOK
<1> DEFINE Entries == \A f \in Entry : status'[f] # "NONE" => Balanced(lines'[f])
<1>1. ASSUME Entries, InBalance(posted')
      PROVE  BalanceInv'
  <2>1. InBalance(posted)'
    BY <1>1 DEF InBalance, CounterUnits, Currency
  <2>2. (\A f \in Entry : status[f] # "NONE" => Balanced(lines[f]))'
    BY <1>1 DEF Balanced, SideUnits
  <2> QED BY <2>1, <2>2 DEF BalanceInv
<1>2. CASE Quiet
  <2>1. Entries /\ InBalance(posted')
    BY <1>2 DEF Quiet, BalanceInv
  <2> QED BY <1>1, <2>1
<1>3. ASSUME NEW e \in Entry, NEW r \in Request, Holds(e, r) \/ Books(e, r)
      PROVE  BalanceInv'
  <2>1. Balanced(r.lines) /\ r.lines \in Seq(Line)
    BY <1>3, RequestTypes DEF Holds, Books
  <2>2. Entries
    BY <1>0, <1>3, <2>1 DEF Holds, Books, Insert, Write, EntryTypes, BalanceInv
  <2>3. posted' = posted \/ posted' = Add(posted, r.lines)
    BY <1>3 DEF Holds, Books
  <2>4. InBalance(posted')
    BY <1>0, <2>1, <2>3, InBalanceAfterAdd DEF BalanceInv
  <2> QED BY <1>1, <2>2, <2>4
<1>4. ASSUME NEW e \in Entry, Voids(e)
      PROVE  BalanceInv'
  <2>1. Entries /\ InBalance(posted')
    BY <1>0, <1>4 DEF Voids, EntryTypes, BalanceInv
  <2> QED BY <1>1, <2>1
<1>5. ASSUME NEW e \in Entry, Converts(e)
      PROVE  BalanceInv'
  <2>1. Balanced(lines[e]) /\ lines[e] \in Seq(Line)
    BY <1>0, <1>5 DEF Converts, BalanceInv, EntryTypes
  <2>2. Entries
    BY <1>0, <1>5 DEF Converts, EntryTypes, BalanceInv
  <2>3. InBalance(posted')
    BY <1>0, <1>5, <2>1, InBalanceAfterAdd DEF Converts, BalanceInv
  <2> QED BY <1>1, <2>2, <2>3
<1>6. ASSUME NEW e \in Entry, NEW m \in Entry, NEW v \in ReversalRequest,
             Reverses(e, m, v)
      PROVE  BalanceInv'
  <2>1. Balanced(lines[e]) /\ lines[e] \in Seq(Line)
    BY <1>0, <1>6 DEF Reverses, BalanceInv, EntryTypes
  <2>2. Balanced(Mirror(lines[e])) /\ Mirror(lines[e]) \in Seq(Line)
    BY <2>1, MirrorBalanced, MirrorType
  <2>3. Balanced(MirrorStored(lines[e], currency[e]))
    BY <1>6, <2>1, StoredBalanced DEF Reverses, LedgerInv, HeadersOK
  <2>4. Entries
    BY <1>0, <1>6, <2>3 DEF Reverses, EntryTypes, BalanceInv
  <2>5. InBalance(posted')
    BY <1>0, <1>6, <2>2, InBalanceAfterAdd DEF Reverses, BalanceInv
  <2> QED BY <1>1, <2>4, <2>5
<1> QED
  BY <1>2, <1>3, <1>4, <1>5, <1>6, Effects

\* In every currency the posted debits equal the posted credits, for any
\* accounts and any history of reservations, posts, releases and reversals,
\* also of entries in several currencies: resolve lets only balanced entries
\* in, a reversal swaps the sides of one, and what is stored of it balances too
\* (resolve's UNBALANCED check, ReverseTransaction).
THEOREM BooksAlwaysBalance ==
  Spec => []BooksBalance
<1>1. Init => BalanceInv
  BY BalanceInit
<1>2. LedgerInv /\ BalanceInv /\ [Next]_vars => BalanceInv'
  BY BalanceStep
<1>3. BalanceInv => BooksBalance
  BY DEF BalanceInv, InBalance, BooksBalance
<1> QED
  BY <1>1, <1>2, <1>3, LedgerInvariant, PTL DEF Spec

---------------------------------------------------------------------------
(* The outbox relay. *)

\* What a transaction has marked has been stored.
MarkedIsStored ==
  \A r \in Replica : \A row \in marked[r] : copies[row] > 0

\* What the duplicate window remembers has been stored.
WindowStored == \A row \in window : copies[row] > 0

\* A row nobody has marked owes each of its copies to a fault: an unacknowledged
\* publication, or a transaction rolled back after it.
CopiesOfUnmarked ==
  \A row \in Row :
    table[row] # "published" /\ (\A r \in Replica : row \notin marked[r])
      => copies[row] <= faults

RelayInv ==
  /\ RelayTypeOK
  /\ ExclusiveClaim
  /\ MarkedIsStored
  /\ WindowStored
  /\ NoLostEvent
  /\ CopiesOfUnmarked
  /\ SurplusCopiesAreFaults

\* The part of RelayInv about the messages in the stream.
CopiesInv ==
  /\ MarkedIsStored
  /\ WindowStored
  /\ NoLostEvent
  /\ CopiesOfUnmarked
  /\ SurplusCopiesAreFaults

---------------------------------------------------------------------------

\* Storing adds at most one copy, of that row only.
LEMMA StoreCopies ==
  ASSUME RelayTypeOK, NEW row \in Row, Store(row)
  PROVE  /\ copies' \in [Row -> Nat] /\ window' \in SUBSET Row
         /\ \A other \in Row \ {row} : copies'[other] = copies[other]
         /\ copies'[row] <= copies[row] + 1
         /\ copies[row] <= copies'[row]
<1>1. copies[row] \in Nat /\ copies[row] + 1 \in Nat
  BY DEF RelayTypeOK
<1>2. CASE row \in window
  <2>1. copies' = [copies EXCEPT ![row] = copies[row]]
    BY <1>2 DEF Store
  <2>2. copies'[row] = copies[row]
    BY <2>1 DEF RelayTypeOK
  <2> QED
    BY <1>1, <2>1, <2>2 DEF RelayTypeOK, Store
<1>3. CASE row \notin window
  <2>1. copies' = [copies EXCEPT ![row] = copies[row] + 1]
    BY <1>3 DEF Store
  <2>2. copies'[row] = copies[row] + 1
    BY <2>1 DEF RelayTypeOK
  <2> QED
    BY <1>1, <2>1, <2>2 DEF RelayTypeOK, Store
<1> QED
  BY <1>2, <1>3

\* A stored row has a copy.
LEMMA Stored ==
  ASSUME RelayInv, NEW row \in Row, Store(row)
  PROVE  /\ copies'[row] > 0
         /\ \A other \in Row : copies[other] > 0 => copies'[other] > 0
         /\ WindowStored'
<1>1. copies'[row] > 0
  <2>1. CASE row \in window
    <3>1. copies[row] > 0 /\ copies[row] \in Nat
      BY <2>1 DEF RelayInv, WindowStored, RelayTypeOK
    <3>2. copies'[row] \in Nat /\ copies[row] <= copies'[row]
      BY StoreCopies DEF RelayInv
    <3> QED
      BY <3>1, <3>2
  <2>2. CASE row \notin window
    <3>1. copies[row] \in Nat /\ copies' = [copies EXCEPT ![row] = copies[row] + 1]
      BY <2>2 DEF Store, RelayInv, RelayTypeOK
    <3>2. copies'[row] = copies[row] + 1
      BY <3>1 DEF RelayInv, RelayTypeOK
    <3> QED
      BY <3>1, <3>2
  <2> QED
    BY <2>1, <2>2
<1>2. \A other \in Row : copies[other] > 0 => copies'[other] > 0
  BY <1>1, StoreCopies DEF RelayInv
<1>3. WindowStored'
  BY <1>1, <1>2 DEF WindowStored, Store, RelayInv, RelayTypeOK
<1> QED
  BY <1>1, <1>2, <1>3

\* The row a replica comes to is pending and marked by nobody, so that all its
\* copies come from faults.
LEMMA NextIsUnmarked ==
  ASSUME RelayInv, NEW r \in Replica, NEW row \in Row, IsNext(r, row)
  PROVE  /\ row \in claimed[r] /\ table[row] = "pending"
         /\ \A s \in Replica : row \notin marked[s]
         /\ copies[row] <= faults
<1>1. row \in claimed[r] /\ row \notin handled[r]
  BY DEF IsNext
<1>2. table[row] = "pending"
  BY <1>1 DEF RelayInv, ExclusiveClaim
<1>3. \A s \in Replica : row \notin marked[s]
  BY <1>1 DEF RelayInv, RelayTypeOK, ExclusiveClaim
<1>4. copies[row] <= faults
  BY <1>2, <1>3 DEF RelayInv, CopiesOfUnmarked
<1> QED
  BY <1>1, <1>2, <1>3, <1>4

\* RelayInit establishes the invariant.
LEMMA RelayInitInv ==
  ASSUME RelayInit
  PROVE  RelayInv
<1>1. 0 \in 0 .. MaxFaults
  BY MaxFaultsAssumption
<1>2. RelayTypeOK
  BY <1>1 DEF RelayInit, RelayTypeOK
<1>3. /\ \A row \in Row : table[row] = "absent" /\ copies[row] = 0
      /\ \A r \in Replica : claimed[r] = {} /\ marked[r] = {}
      /\ faults = 0 /\ window = {}
  BY DEF RelayInit
<1> QED
  BY <1>2, <1>3 DEF RelayInv, WindowStored, ExclusiveClaim, MarkedIsStored,
       NoLostEvent, CopiesOfUnmarked, SurplusCopiesAreFaults

---------------------------------------------------------------------------
(* One lemma per action. *)

\* A row written or forgotten by the duplicate window changes no copies.
LEMMA InsertOutboxInv ==
  ASSUME RelayInv, NEW row \in Row, InsertOutbox(row)
  PROVE  RelayInv'
<1> USE DEF RelayInv, InsertOutbox, transaction, stream
<1>1. RelayTypeOK'
  BY DEF RelayTypeOK
<1>2. ExclusiveClaim'
  BY DEF ExclusiveClaim, RelayTypeOK
<1>3. CopiesInv'
  BY DEF RelayTypeOK, CopiesInv, MarkedIsStored, WindowStored, NoLostEvent,
         CopiesOfUnmarked, SurplusCopiesAreFaults
<1> QED
  BY <1>1, <1>2, <1>3 DEF CopiesInv

\* The duplicate window only shrinks.
LEMMA ExpireInv ==
  ASSUME RelayInv, NEW row \in Row, Expire(row)
  PROVE  RelayInv'
BY DEF RelayInv, Expire, transaction, RelayTypeOK, ExclusiveClaim, MarkedIsStored,
       WindowStored, NoLostEvent, CopiesOfUnmarked, SurplusCopiesAreFaults

\* A claim takes rows that are pending and locked by nobody.
LEMMA ClaimInv ==
  ASSUME RelayInv, NEW r \in Replica, Claim(r)
  PROVE  RelayInv'
<1>1. PICK S \in SUBSET Claimable :
        /\ claimed[r] = {}
        /\ claimed' = [claimed EXCEPT ![r] = S]
        /\ UNCHANGED <<table, handled, marked, stream, faults>>
  BY DEF Claim
<1>2. /\ S \subseteq Row
      /\ \A row \in S : table[row] = "pending"
      /\ \A s \in Replica : S \cap claimed[s] = {}
  BY DEF Claimable, Locked
<1>3. claimed'[r] = S /\ \A s \in Replica \ {r} : claimed'[s] = claimed[s]
  BY <1>1 DEF RelayInv, RelayTypeOK
<1>4. RelayTypeOK'
  BY <1>1, <1>2, <1>3 DEF RelayInv, RelayTypeOK, stream
<1>5. ExclusiveClaim'
  BY <1>1, <1>2, <1>3 DEF RelayInv, ExclusiveClaim
<1>6. CopiesInv'
  BY <1>1 DEF RelayInv, CopiesInv, stream, MarkedIsStored, WindowStored,
       NoLostEvent, CopiesOfUnmarked, SurplusCopiesAreFaults
<1> QED
  BY <1>4, <1>5, <1>6 DEF RelayInv, CopiesInv

\* A published row gains at most one copy, and is marked by then.
LEMMA PublishInv ==
  ASSUME RelayInv, NEW r \in Replica, Publish(r)
  PROVE  RelayInv'
<1>1. PICK row \in Row :
        /\ IsNext(r, row) /\ Store(row) /\ Mark(r, row)
        /\ UNCHANGED <<table, claimed, faults>>
  BY DEF Publish
<1>2. /\ row \in claimed[r] /\ copies[row] <= faults
  BY <1>1, NextIsUnmarked
<1>3. /\ copies' \in [Row -> Nat] /\ window' \in SUBSET Row
      /\ \A other \in Row \ {row} : copies'[other] = copies[other]
      /\ copies'[row] <= copies[row] + 1
  BY <1>1, StoreCopies DEF RelayInv
<1>4. /\ handled'[r] = handled[r] \cup {row} /\ marked'[r] = marked[r] \cup {row}
      /\ \A s \in Replica \ {r} : /\ handled'[s] = handled[s]
                                  /\ marked'[s] = marked[s]
  BY <1>1 DEF Mark, RelayInv, RelayTypeOK
<1>5. RelayTypeOK'
  BY <1>1, <1>2, <1>3, <1>4 DEF RelayInv, RelayTypeOK, Mark
<1>6. ExclusiveClaim'
  BY <1>1 DEF RelayInv, ExclusiveClaim
<1>7. copies'[row] > 0 /\ WindowStored'
      /\ \A other \in Row : copies[other] > 0 => copies'[other] > 0
  BY <1>1, Stored
<1>8. MarkedIsStored'
  BY <1>4, <1>7 DEF RelayInv, RelayTypeOK, MarkedIsStored
<1>9. NoLostEvent'
  BY <1>1, <1>7 DEF RelayInv, NoLostEvent
<1>10. CopiesOfUnmarked'
  BY <1>1, <1>3, <1>4 DEF RelayInv, CopiesOfUnmarked
<1>11. SurplusCopiesAreFaults'
  <2>1. faults \in Nat /\ copies[row] \in Nat /\ copies'[row] \in Nat
    BY <1>3, MaxFaultsAssumption DEF RelayInv, RelayTypeOK
  <2>2. copies'[row] <= 1 + faults
    BY <1>2, <1>3, <2>1
  <2> QED
    BY <1>1, <1>3, <2>2 DEF RelayInv, SurplusCopiesAreFaults
<1> QED
  BY <1>5, <1>6, <1>7, <1>8, <1>9, <1>10, <1>11 DEF RelayInv

\* A refused row is neither stored nor marked.
LEMMA RefusedInv ==
  ASSUME RelayInv, NEW r \in Replica, Refused(r)
  PROVE  RelayInv'
<1>1. PICK row \in Row :
        /\ IsNext(r, row) /\ RecordFailure(r, row)
        /\ UNCHANGED <<table, claimed, stream, faults>>
  BY RowAssumption DEF Refused
<1>2. row \in claimed[r]
  BY <1>1 DEF IsNext
<1>3. RelayTypeOK'
  BY <1>1, <1>2 DEF RelayInv, RelayTypeOK, RecordFailure, stream
<1>4. ExclusiveClaim'
  BY <1>1 DEF RelayInv, ExclusiveClaim
<1>5. CopiesInv'
  BY <1>1 DEF RelayInv, CopiesInv, stream, RecordFailure, MarkedIsStored,
       WindowStored, NoLostEvent, CopiesOfUnmarked, SurplusCopiesAreFaults
<1> QED
  BY <1>3, <1>4, <1>5 DEF RelayInv, CopiesInv

\* An unacknowledged publication may store a copy, and is one more fault.
LEMMA PublishFailsInv ==
  ASSUME RelayInv, NEW r \in Replica, PublishFails(r)
  PROVE  RelayInv'
<1>1. PICK row \in Row :
        /\ IsNext(r, row) /\ RecordFailure(r, row)
        /\ Store(row) \/ UNCHANGED stream
  BY DEF PublishFails
<1>2. /\ row \in claimed[r] /\ copies[row] <= faults
  BY <1>1, NextIsUnmarked
<1>3. /\ faults < MaxFaults /\ faults' = faults + 1
      /\ UNCHANGED <<table, claimed, marked>>
  BY <1>1 DEF PublishFails, RecordFailure
<1>4. /\ faults \in Nat /\ faults' \in Nat /\ faults' \in 0 .. MaxFaults
      /\ \A other \in Row : copies[other] \in Nat
  BY <1>3, MaxFaultsAssumption DEF RelayInv, RelayTypeOK
<1>5. /\ copies' \in [Row -> Nat] /\ window' \in SUBSET Row
      /\ \A other \in Row \ {row} : copies'[other] = copies[other]
      /\ copies'[row] <= copies[row] + 1
      /\ WindowStored'
      /\ \A other \in Row : copies[other] > 0 => copies'[other] > 0
  <2>1. CASE Store(row)
    BY <2>1, StoreCopies, Stored DEF RelayInv
  <2>2. CASE UNCHANGED stream
    BY <2>2, <1>4 DEF stream, RelayInv, RelayTypeOK, WindowStored
  <2> QED
    BY <1>1, <2>1, <2>2
<1>6. RelayTypeOK'
  BY <1>1, <1>2, <1>3, <1>4, <1>5 DEF RelayInv, RelayTypeOK, RecordFailure
<1>7. ExclusiveClaim'
  BY <1>3 DEF RelayInv, ExclusiveClaim
<1>8. MarkedIsStored' /\ NoLostEvent'
  BY <1>3, <1>5 DEF RelayInv, RelayTypeOK, MarkedIsStored, NoLostEvent
<1>9. \A other \in Row : copies'[other] <= 1 + faults'
  <2> SUFFICES ASSUME NEW other \in Row
               PROVE  copies'[other] <= 1 + faults'
    OBVIOUS
  <2>1. copies[other] <= 1 + faults
    BY DEF RelayInv, SurplusCopiesAreFaults
  <2>2. CASE other = row
    BY <1>2, <1>3, <1>4, <1>5, <2>2
  <2>3. CASE other # row
    BY <1>3, <1>4, <1>5, <2>1, <2>3
  <2> QED
    BY <2>2, <2>3
<1>10. CopiesOfUnmarked'
  <2> SUFFICES ASSUME NEW other \in Row,
                      table[other] # "published",
                      \A s \in Replica : other \notin marked[s]
               PROVE  copies'[other] <= faults'
    BY <1>3 DEF CopiesOfUnmarked
  <2>1. copies[other] <= faults
    BY DEF RelayInv, CopiesOfUnmarked
  <2>2. copies'[other] <= copies[other] + 1 /\ copies'[other] \in Nat
    BY <1>4, <1>5
  <2> QED
    BY <1>3, <1>4, <2>1, <2>2
<1> QED
  BY <1>5, <1>6, <1>7, <1>8, <1>9, <1>10 DEF RelayInv, SurplusCopiesAreFaults

\* A commit publishes what the replica marked, and only that.
LEMMA CommitInv ==
  ASSUME RelayInv, NEW r \in Replica, Commit(r)
  PROVE  RelayInv'
<1>1. /\ claimed'[r] = {} /\ handled'[r] = {} /\ marked'[r] = {}
      /\ \A s \in Replica \ {r} : /\ claimed'[s] = claimed[s]
                                  /\ handled'[s] = handled[s]
                                  /\ marked'[s] = marked[s]
      /\ \A row \in Row :
           table'[row] = IF row \in marked[r] THEN "published" ELSE table[row]
      /\ UNCHANGED <<copies, window, faults>>
  BY DEF Commit, stream, RelayInv, RelayTypeOK
<1>2. RelayTypeOK'
  <2>1. /\ table' \in [Row -> {"absent", "pending", "published"}]
        /\ claimed' \in [Replica -> SUBSET Row]
        /\ handled' \in [Replica -> SUBSET Row]
        /\ marked' \in [Replica -> SUBSET Row]
    BY DEF Commit, RelayInv, RelayTypeOK
  <2> QED
    BY <1>1, <2>1 DEF RelayInv, RelayTypeOK
<1>3. ExclusiveClaim'
  <2>1. \A s \in Replica \ {r} : claimed[s] \cap marked[r] = {}
    BY DEF RelayInv, RelayTypeOK, ExclusiveClaim
  <2>2. claimed \in [Replica -> SUBSET Row]
    BY DEF RelayInv, RelayTypeOK
  <2> QED
    BY <1>1, <2>1, <2>2 DEF RelayInv, ExclusiveClaim
<1>4. MarkedIsStored' /\ WindowStored'
  BY <1>1 DEF RelayInv, MarkedIsStored, WindowStored
<1>5. NoLostEvent'
  BY <1>1 DEF RelayInv, NoLostEvent, MarkedIsStored
<1>6. CopiesOfUnmarked'
  BY <1>1 DEF RelayInv, CopiesOfUnmarked
<1>7. SurplusCopiesAreFaults'
  BY <1>1 DEF RelayInv, SurplusCopiesAreFaults
<1> QED
  BY <1>2, <1>3, <1>4, <1>5, <1>6, <1>7 DEF RelayInv

\* A rollback forgets what was marked, and is one more fault.
LEMMA RollbackInv ==
  ASSUME RelayInv, NEW r \in Replica, Rollback(r)
  PROVE  RelayInv'
<1>1. /\ claimed'[r] = {} /\ handled'[r] = {} /\ marked'[r] = {}
      /\ \A s \in Replica \ {r} : /\ claimed'[s] = claimed[s]
                                  /\ handled'[s] = handled[s]
                                  /\ marked'[s] = marked[s]
      /\ UNCHANGED <<table, copies, window>>
      /\ faults < MaxFaults /\ faults' = faults + 1
  BY DEF Rollback, stream, RelayInv, RelayTypeOK
<1>2. /\ faults \in Nat /\ faults' \in 0 .. MaxFaults
      /\ \A row \in Row : copies[row] \in Nat
  BY <1>1, MaxFaultsAssumption DEF RelayInv, RelayTypeOK
<1>3. RelayTypeOK'
  <2>1. /\ claimed' \in [Replica -> SUBSET Row]
        /\ handled' \in [Replica -> SUBSET Row]
        /\ marked' \in [Replica -> SUBSET Row]
    BY DEF Rollback, RelayInv, RelayTypeOK
  <2> QED
    BY <1>1, <1>2, <2>1 DEF RelayInv, RelayTypeOK
<1>4. ExclusiveClaim'
  BY <1>1 DEF RelayInv, ExclusiveClaim
<1>5. MarkedIsStored' /\ WindowStored' /\ NoLostEvent'
  BY <1>1 DEF RelayInv, MarkedIsStored, WindowStored, NoLostEvent
<1>6. \A row \in Row : copies'[row] <= faults' /\ copies'[row] <= 1 + faults'
  BY <1>1, <1>2 DEF RelayInv, SurplusCopiesAreFaults
<1> QED
  BY <1>3, <1>4, <1>5, <1>6 DEF RelayInv, CopiesOfUnmarked, SurplusCopiesAreFaults

---------------------------------------------------------------------------
(* The theorems. *)

\* RelayInv is inductive, whatever the replicas do and wherever they fail.
LEMMA RelayStep ==
  ASSUME RelayInv, [RelayNext]_relayVars
  PROVE  RelayInv'
<1>1. CASE UNCHANGED relayVars
  BY <1>1 DEF relayVars, RelayInv, RelayTypeOK, ExclusiveClaim, MarkedIsStored, WindowStored,
       NoLostEvent, CopiesOfUnmarked, SurplusCopiesAreFaults
<1>2. ASSUME NEW row \in Row, InsertOutbox(row) \/ Expire(row)
      PROVE  RelayInv'
  BY <1>2, InsertOutboxInv, ExpireInv
<1>3. ASSUME NEW r \in Replica, Tick(r) \/ PublishFails(r) \/ Rollback(r)
      PROVE  RelayInv'
  BY <1>3, ClaimInv, PublishInv, RefusedInv, CommitInv, PublishFailsInv,
     RollbackInv DEF Tick
<1> QED
  BY <1>1, <1>2, <1>3 DEF RelayNext

\* The inductive invariant holds of every behaviour of the relay.
THEOREM RelayInvariant == RelaySpec => []RelayInv
BY RelayInitInv, RelayStep, PTL DEF RelaySpec

\* Every variable of the relay keeps its type, and a transaction marks only
\* what it tried to publish and tries only what it claimed (PublishOnce).
THEOREM RelayTypes == RelaySpec => []RelayTypeOK
<1>1. RelayInv => RelayTypeOK
  BY DEF RelayInv
<1> QED
  BY <1>1, RelayInvariant, PTL

\* FOR UPDATE SKIP LOCKED keeps any number of replicas apart.
THEOREM ReplicasExclude == RelaySpec => []ExclusiveClaim
<1>1. RelayInv => ExclusiveClaim
  BY DEF RelayInv
<1> QED
  BY <1>1, RelayInvariant, PTL

\* A row marked published has been stored in the stream, wherever PublishOnce
\* failed before.
THEOREM NoEventIsLost == RelaySpec => []NoLostEvent
<1>1. RelayInv => NoLostEvent
  BY DEF RelayInv
<1> QED
  BY <1>1, RelayInvariant, PTL

\* At least once delivery repeats an event at most once per fault.
THEOREM SurplusIsBounded == RelaySpec => []SurplusCopiesAreFaults
<1>1. RelayInv => SurplusCopiesAreFaults
  BY DEF RelayInv
<1> QED
  BY <1>1, RelayInvariant, PTL

=============================================================================
