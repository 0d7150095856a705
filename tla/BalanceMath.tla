---------------------------- MODULE BalanceMath ----------------------------
(***************************************************************************)
(* The arithmetic of finance-service's two-phase balances                  *)
(* (apps/finance-service/internal/service/balance_math.go).                *)
(*                                                                         *)
(* An Account stands for one balance key of the code: COA version, account *)
(* code, currency and balance type (repository.BalanceKey).  An amount is  *)
(* counted in minor units, and a sum of amounts is the number of minor     *)
(* units of the lines it ranges over, so that the sums the code keeps in   *)
(* counters are cardinalities of explicit sets.                            *)
(***************************************************************************)
EXTENDS Integers, Sequences, FiniteSets

CONSTANTS
  Account,      \* balance keys
  Nature,       \* COA account nature of each key: "D", "C" or "B"
  CurrencyOf,   \* currency of each key
  MaxAmount     \* bound: largest amount of one line, in minor units

ASSUME NatureAssumption == Nature \in [Account -> {"D", "C", "B"}]
ASSUME MaxAmountAssumption == MaxAmount \in Nat

Direction == {"DEBIT", "CREDIT"}

\* One journal line; ValidLine amounts are positive (resolve: INVALID_AMOUNT).
Line == [account : Account, direction : Direction, amount : 1 .. MaxAmount]

\* One counter per account and direction: posted_*_minor or reserved_*_minor.
Counters == [Account -> [Direction -> Nat]]

ZeroCounters == [a \in Account |-> [d \in Direction |-> 0]]

---------------------------------------------------------------------------
(* Sums over the lines of one entry. *)

\* The minor units that the lines ls move on account a in direction d.
Units(ls, a, d) ==
  {x \in (1 .. Len(ls)) \X (1 .. MaxAmount) :
     /\ ls[x[1]].account = a
     /\ ls[x[1]].direction = d
     /\ x[2] <= ls[x[1]].amount}

Amount(ls, a, d) == Cardinality(Units(ls, a, d))

\* applyReserve / applyDirectPost on every line: the counters after the loop.
Add(counters, ls) ==
  [a \in Account |-> [d \in Direction |-> counters[a][d] + Amount(ls, a, d)]]

\* applyRelease on every line.
Remove(counters, ls) ==
  [a \in Account |-> [d \in Direction |-> counters[a][d] - Amount(ls, a, d)]]

\* The mirrored lines of a reversal entry.
Mirror(ls) ==
  [i \in 1 .. Len(ls) |->
     [account   |-> ls[i].account,
      direction |-> IF ls[i].direction = "CREDIT" THEN "DEBIT" ELSE "CREDIT",
      amount    |-> ls[i].amount]]

\* All units of one side of an entry in one currency.
SideUnits(ls, c, d) ==
  {x \in (1 .. Len(ls)) \X (1 .. MaxAmount) :
     /\ CurrencyOf[ls[x[1]].account] = c
     /\ ls[x[1]].direction = d
     /\ x[2] <= ls[x[1]].amount}

\* resolve: at least one line, and debits equal credits in every currency.
Balanced(ls) ==
  /\ ls # << >>
  /\ \A i \in 1 .. Len(ls) :
       LET c == CurrencyOf[ls[i].account]
       IN  Cardinality(SideUnits(ls, c, "DEBIT")) =
             Cardinality(SideUnits(ls, c, "CREDIT"))

---------------------------------------------------------------------------
(* Natural signs and coverage checks. *)

\* +1 when a DEBIT increases the account's natural balance, -1 otherwise.
NatureSign(a) == IF Nature[a] = "C" THEN -1 ELSE 1

LineDelta(l) ==
  IF l.direction = "DEBIT" THEN NatureSign(l.account) * l.amount
                           ELSE (-NatureSign(l.account)) * l.amount

\* A pair of counters re-signed into the natural direction of account a.
NaturalSigned(counters, a) ==
  NatureSign(a) * (counters[a]["DEBIT"] - counters[a]["CREDIT"])

\* The opening side effective on an account, in the same sign convention.
NaturalOpening(side, a) ==
  IF side.amount <= 0 THEN 0
  ELSE IF side.direction = "DEBIT" THEN NatureSign(a) * side.amount
                                   ELSE (-NatureSign(a)) * side.amount

\* The natural effect of the lines ls on account a.
Net(ls, a) == NatureSign(a) * (Amount(ls, a, "DEBIT") - Amount(ls, a, "CREDIT"))

\* Mutant: each line is checked against the value read from the database
\* instead of the running row.
CoversWithoutRunningRow(value, ls) ==
  \A i \in 1 .. Len(ls) :
    LET a == ls[i].account
    IN  Nature[a] # "B" /\ LineDelta(ls[i]) < 0
          => value[a] + LineDelta(ls[i]) >= 0

\* checkReserve / checkPostActual, line by line against the running row: an
\* outflow line must leave value[a] plus the lines up to it non-negative.
\* Inflow lines and nature-B accounts are free.
Covers(value, ls) ==
  \A i \in 1 .. Len(ls) :
    LET a == ls[i].account
    IN  Nature[a] # "B" /\ LineDelta(ls[i]) < 0
          => value[a] + Net(SubSeq(ls, 1, i), a) >= 0

\* checkReversal on every account the mirrored lines touch: a net outflow must
\* fit both the actual and the available value before the reversal.
CoversReversal(actual, available, ls) ==
  \A i \in 1 .. Len(ls) :
    LET a == ls[i].account
    IN  Nature[a] # "B" /\ Net(ls, a) < 0
          => /\ actual[a] + Net(ls, a) >= 0
             /\ available[a] + Net(ls, a) >= 0

=============================================================================
