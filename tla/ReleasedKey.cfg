SPECIFICATION Spec
CONSTANTS
  Client = {c1, c2}
  Entry = {e1, e2, e3}
  NoEntry = NoEntry
  k1 = k1
  Key = {k1}
  NoKey = NoKey
  NoRequest = NoRequest
  NoOpening = NoOpening
  cash = cash
  deposit = deposit
  Account = {cash, deposit}
  Period = {1}
  MaxAmount = 2
  Nature <- MCNature
  CurrencyOf <- MCCurrencyOf
  InCurrency <- MCInCurrency
  DocType <- MCDocType
  Reversible <- MCReversible
  Content <- CoreContent
  Request <- CoreRequest
  ReversalRequest <- CoreReversal
  OpeningSide <- CoreOpening
SYMMETRY Symmetry
PROPERTIES
  ReleasedKeyRefused
