SPECIFICATION Spec
CONSTANTS
  Nil = Nil
  i1 = i1 i2 = i2 l1 = l1 l2 = l2 l3 = l3
  a1 = a1 a2 = a2 a3 = a3 b1 = b1 b2 = b2
  Id = {i1, i2}
  Obj = {a1, a2, b1}
  IdOf <- TwoIds
  Denom = {adym, usdc}
  LP = {l1}
  Rank <- SameRank
  Source = {"poller"}
  Checker = {c1}
  Fulfiller = {f1}
  ToCheckSlot = {1}
  OutputSlot = {1}
  ProcessedSlot = {1}
  PopLimit = 2
  MaxOrdersPerTx = 2
  MaxTerms = 1
  Price <- MixedPrice
  MaxGrants = 1
  Rollapp = {"rollapp"}
  RollappOf <- OneRollapp
  HeightOf <- Heights
  Unreadable = {}
  Accepting <- AllAccept
  Deposit <- Deposit2
  Env = {"timeout", "rpcError", "refresh", "transfers"}
INVARIANTS LedgerExact
VIEW View
SYMMETRY Symmetry
