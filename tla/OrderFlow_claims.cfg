SPECIFICATION Spec
CONSTANTS
  Nil = Nil
  i1 = i1 i2 = i2 l1 = l1 l2 = l2 l3 = l3
  a1 = a1 a2 = a2 a3 = a3 b1 = b1 b2 = b2
  Id = {i1}
  Obj = {a1, a2, a3}
  IdOf <- OneId
  Denom = {adym}
  LP = {l1}
  Rank <- SameRank
  Source = {"poller", "created", "updated"}
  Checker = {c1}
  Fulfiller = {f1, f2}
  ToCheckSlot = {1}
  OutputSlot = {1}
  ProcessedSlot = {1}
  PopLimit = 2
  MaxOrdersPerTx = 1
  MaxTerms = 2
  Price <- RisingPrice
  MaxGrants = 1
  Rollapp = {"rollapp"}
  RollappOf <- OneRollapp
  HeightOf <- Heights
  Unreadable = {}
  Accepting <- AllAccept
  Deposit <- Deposit3
  Env = {"nodeError", "rpcError", "txFail", "timeout", "updateFee", "expiry"}
INVARIANTS TypeOK SingleFlight OneSubmission RetriedStayPooled
PROPERTIES RemovesOwnEntry ImplementsLife
VIEW View
SYMMETRY Symmetry
