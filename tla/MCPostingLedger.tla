-------------------------- MODULE MCPostingLedger --------------------------
(***************************************************************************)
(* An instance of PostingLedger for TLC: a cash account (nature D) and a   *)
(* customer deposit (nature C), one currency and one accounting date.      *)
(***************************************************************************)
EXTENDS PostingLedger, TLC

CONSTANTS k1, cash, deposit

MCNature == (cash :> "D") @@ (deposit :> "C")
MCCurrencyOf == [a \in Account |-> "VND"]
MCInCurrency == [a \in Account |-> [c \in {"VND"} |-> a]]

Move(from, to, n) ==
  << [account |-> to, direction |-> "DEBIT", amount |-> n],
     [account |-> from, direction |-> "CREDIT", amount |-> n] >>

PayIn(n) == Move(deposit, cash, n)
MCDocType == {"FIN_DOUBLE_ENTRY", "FIN_TXN_CANCEL"}
MCReversible == {"FIN_DOUBLE_ENTRY"}

Ask(k, ls) == [key |-> k, docType |-> "FIN_DOUBLE_ENTRY", lines |-> ls,
               currency |-> "VND", period |-> 1]
Cancel(k, dt, p) == [key |-> k, docType |-> dt, period |-> p]

\* One key with two contents, one of them drawing twice on the cash account, a
\* keyless payment in, and a proposal that does not balance; reversals that
\* name a type and that take the original's, without and with the key.
SplitWithdraw ==
  << [account |-> deposit, direction |-> "DEBIT", amount |-> 2],
     [account |-> cash, direction |-> "CREDIT", amount |-> 1],
     [account |-> cash, direction |-> "CREDIT", amount |-> 1] >>
OneSided == << [account |-> cash, direction |-> "DEBIT", amount |-> 1] >>
CoreContent == {SplitWithdraw, PayIn(2), OneSided}
CoreRequest == {Ask(k1, SplitWithdraw), Ask(k1, PayIn(2)), Ask(NoKey, PayIn(2)),
                Ask(NoKey, OneSided)}
CoreReversal == {Cancel(NoKey, "FIN_TXN_CANCEL", 1), Cancel(k1, "", 1)}
CoreOpening == {[direction |-> "CREDIT", amount |-> 1],
                [direction |-> "DEBIT", amount |-> 1]}

Symmetry == Permutations(Client) \cup Permutations(Entry)

=============================================================================
