SPECIFICATION AllSpec
CONSTANTS
  a = a
  b = b
  w1 = w1
  w2 = w2
  t1 = t1
  t2 = t2
  Undefined = undef
  N = 3
  Value <- MCValue
  MaxValues = 2
  Swap <- MCSwap
  MaxChain = 4
  Before = 2
  PerPage = 1
  Ranks <- BothOrders
  PostHeight = 4
  Slots = {p1, p2}
  PostFaults = 1
  WatchHeight = 3
  Versions = 2
  Listeners = 2
  MaxPolls = 2
  WatchFaults = 1
  Tx <- MCTx
  SourcesOf <- MCSourcesOf
  Queries <- MCQueries
  FeedHeight = 2
  FeedSlots = 2
  MaxHead = 3
  MaxStarts = 2
  HeadFaults = 1
  SwapIds <- MCSwapIds
  Offers <- MCOffers
  Erc20Tokens = {"known", "lower case"}
  Checksummed = {"known"}
  Filters = {"r1"}
  MinHeights = {0, 1}
INVARIANTS
  OutIsConcatenation
  WatchFollowsChain
  GetSwapsIsConsistent
  EmittedOnceInOrder
  ReportIsTrue
  NothingStaysBehind
  FeedIsExact
  SwapsAreTrue
PROPERTIES
  PromisedIsEmitted
  ReportAdvances
  WaitIsSettled
  FirstListenerFollows
  HeadsExact
CHECK_DEADLOCK FALSE
