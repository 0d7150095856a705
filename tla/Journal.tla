------------------------------ MODULE Journal ------------------------------
(***************************************************************************)
(* What the general ledger promises, with no counters, no idempotency keys *)
(* and no concurrency: a journal of entries that are proposed, accepted,   *)
(* discarded, booked directly or reversed, where every availability check  *)
(* is made against what the entries themselves moved.  PostingLedger       *)
(* implements it.                                                          *)
(***************************************************************************)
EXTENDS BalanceMath

CONSTANTS
  Entry,        \* journal entry ids
  NoEntry,      \* "no entry"
  Period,       \* accounting periods, ordered as numbers
  Content,      \* the line sequences the business proposes
  OpeningSide,  \* opening-balance sides an administrator may enter
  NoOpening,    \* "no opening balance on this date"
  InCurrency    \* the key of an account's sister row in a currency

ASSUME NoEntryAssumption == NoEntry \notin Entry
ASSUME PeriodAssumption == Period \subseteq Nat
ASSUME ContentAssumption == Content \subseteq Seq(Line)
ASSUME OpeningSideAssumption ==
  OpeningSide \subseteq [direction : Direction, amount : Int]
ASSUME InCurrencyAssumption ==
  \A a \in Account :
    /\ InCurrency[a][CurrencyOf[a]] = a
    /\ \A b \in Account : /\ InCurrency[a][CurrencyOf[b]] \in Account
                          /\ CurrencyOf[InCurrency[a][CurrencyOf[b]]] = CurrencyOf[b]

VARIABLES
  status,      \* life-cycle state of each entry
  lines,       \* its lines
  currency,    \* the currency of its header
  period,      \* the period of its accounting date
  reversedBy,  \* the reversal entry of a REVERSED entry
  openings     \* opening balance of each account, per opening date

jvars == <<status, lines, currency, period, reversedBy, openings>>

Status == {"NONE", "PENDING", "POSTED", "REVERSED", "VOID"}

Currency == {CurrencyOf[a] : a \in Account}

Pending == {e \in Entry : status[e] = "PENDING"}
Booked == {e \in Entry : status[e] \in {"POSTED", "REVERSED"}}

\* Mutant: the directions are not flipped.
MirrorStoredUnflipped(ls, cur) == ls

\* ReverseTransaction stores every mirrored line in the header's currency.
MirrorStored(ls, cur) ==
  [i \in 1 .. Len(ls) |->
     [Mirror(ls)[i] EXCEPT !.account = InCurrency[ls[i].account][cur]]]

\* What each entry moves when it is booked: its lines, or, for a reversal,
\* those of the entry it reverses turned round, each in its own currency.
Moved ==
  [e \in Entry |->
     IF \E f \in Entry : reversedBy[f] = e
     THEN Mirror(lines[CHOOSE f \in Entry : reversedBy[f] = e])
     ELSE lines[e]]

\* The minor units that the entries of S move on account a in direction d.
JournalUnits(lns, S, a, d) == UNION {{e} \X Units(lns[e], a, d) : e \in S}

\* What the entries of S add up to, as a counter set.
JournalSum(lns, S) ==
  [a \in Account |->
     [d \in Direction |-> Cardinality(JournalUnits(lns, S, a, d))]]

\* The opening side on the latest opening date not after p, in natural sign.
Opening(a, p) ==
  LET dates == {q \in Period : q <= p /\ openings[a][q] # NoOpening}
  IN  IF dates = {} THEN 0
      ELSE NaturalOpening(
             openings[a][CHOOSE q \in dates : \A r \in dates : r <= q], a)

\* opening + booked entries, on an entry dated in period p.
ActualOf(booked, p) ==
  [a \in Account |-> Opening(a, p) + NaturalSigned(booked, a)]

\* opening + booked + pending entries, on an entry dated in period p.
AvailableOf(booked, held, p) ==
  [a \in Account |->
     Opening(a, p) + NaturalSigned(booked, a) + NaturalSigned(held, a)]

---------------------------------------------------------------------------

JInit ==
  /\ status = [e \in Entry |-> "NONE"]
  /\ lines = [e \in Entry |-> << >>]
  /\ currency = [e \in Entry |-> ""]
  /\ period = [e \in Entry |-> 0]
  /\ reversedBy = [e \in Entry |-> NoEntry]
  /\ openings = [a \in Account |-> [p \in Period |-> NoOpening]]

\* Write a new entry into the journal.
Write(e, s, ls, cur, p) ==
  /\ status[e] = "NONE"
  /\ status' = [status EXCEPT ![e] = s]
  /\ lines' = [lines EXCEPT ![e] = ls]
  /\ currency' = [currency EXCEPT ![e] = cur]
  /\ period' = [period EXCEPT ![e] = p]

\* A balanced proposal is held when every outflow fits what is available.
Propose(e, ls, cur, p) ==
  /\ Write(e, "PENDING", ls, cur, p)
  /\ Balanced(ls)
  /\ Covers(AvailableOf(JournalSum(Moved, Booked),
                        JournalSum(lines, Pending), p), ls)
  /\ UNCHANGED <<reversedBy, openings>>

\* An approved proposal is booked when the money is really there.
Accept(e) ==
  /\ status[e] = "PENDING"
  /\ status' = [status EXCEPT ![e] = "POSTED"]
  /\ Covers(ActualOf(JournalSum(Moved, Booked), period[e]), lines[e])
  /\ UNCHANGED <<lines, currency, period, reversedBy, openings>>

Discard(e) ==
  /\ status[e] = "PENDING"
  /\ status' = [status EXCEPT ![e] = "VOID"]
  /\ UNCHANGED <<lines, currency, period, reversedBy, openings>>

\* A system-executed decision is booked without an availability check.
Book(e, ls, cur, p) ==
  /\ Write(e, "POSTED", ls, cur, p)
  /\ Balanced(ls)
  /\ UNCHANGED <<reversedBy, openings>>

\* A booked entry is undone by one mirrored entry that the balances cover.  It
\* is stored in the header's currency and moves each line in its own.
Reverse(e, m, p) ==
  /\ status[e] = "POSTED"
  /\ status[m] = "NONE"
  /\ status' = [status EXCEPT ![e] = "REVERSED", ![m] = "POSTED"]
  /\ lines' = [lines EXCEPT ![m] = MirrorStored(lines[e], currency[e])]
  /\ currency' = [currency EXCEPT ![m] = currency[e]]
  /\ period' = [period EXCEPT ![m] = p]
  /\ reversedBy' = [reversedBy EXCEPT ![e] = m]
  /\ CoversReversal(ActualOf(JournalSum(Moved, Booked), p),
                    AvailableOf(JournalSum(Moved, Booked),
                                JournalSum(lines, Pending), p),
                    Mirror(lines[e]))
  /\ UNCHANGED openings

SetOpening(a, p, side) ==
  /\ openings' = [openings EXCEPT ![a][p] = side]
  /\ UNCHANGED <<status, lines, currency, period, reversedBy>>

JNext ==
  \/ \E e \in Entry, ls \in Content, cur \in Currency, p \in Period :
       Propose(e, ls, cur, p) \/ Book(e, ls, cur, p)
  \/ \E e \in Entry : Accept(e) \/ Discard(e)
  \/ \E e, m \in Entry, p \in Period : Reverse(e, m, p)
  \/ \E a \in Account, p \in Period, side \in OpeningSide : SetOpening(a, p, side)

JSpec == JInit /\ [][JNext]_jvars

=============================================================================
