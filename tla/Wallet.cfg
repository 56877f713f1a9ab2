CONSTANTS
  a = a b = b f = f m1 = m1 c1 = c1 c2 = c2 p = p q = q id = id
  NoTx = NoTx NoRow = NoRow
  Tx = {a, b, f, m1}
  Sends = {a, b}
  Coin = {c1, c2}
  Commitment = {c1, c2, p, q}
  Inputs <- MCInputs
  Outputs <- MCOutputs
  NodeId <- MCNodeId
  Rank <- MCRank
  Genesis <- MCGenesis
  Legacy = {}
  SendLife = 1
  KeepBlocks = 2
  Birthdays = {0, 1, 9}
  RescanFrom = {0, 2}
  MaxHeight = 3
  MaxReorgs = 1
  MaxDepth = 1
  MaxTxPerBlock = 2
  MaxAge = 1
  RollBackOnWord = 10
SPECIFICATION MCSpec
INVARIANTS TypeOK CoinsFollowChain CreditMatchesChain EverConfirmedNeverExpires CoinsHeld HistoryExplainsSpends UnsettledIsWatched
PROPERTIES ExpiredOnlyConfirms
