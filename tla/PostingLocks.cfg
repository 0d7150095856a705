SPECIFICATION FairSpec
CONSTANTS
  reserve = reserve
  direct = direct
  post = post
  release = release
  reverse = reverse
  pending = pending
  posted = posted
  key = key
  reversalKey = reversalKey
  Nobody = Nobody
  Posting = {reserve, direct, post, reverse}
  JournalRow = {pending, posted}
  IdemKey = {key, reversalKey}
  EntryLocks <- MCEntryLocks
  ReadsBefore = {post, release}
  ReadsAfter = {reserve, post, reverse}
  NumRows = 3
  RowsOf <- MCRowsOf
  PoolSizes = {3, 4, 5}
  MaxFaults = 1
INVARIANTS
  NoLockCycle
  OnlyThePoolStalls
PROPERTIES
  EveryPostingEnds
