\* One agent on each kind of channel, and three agents of whom two may take part;
\* queues of two messages, three messages, two receives, the first start and two
\* restarts or departures.
SPECIFICATION Spec
CONSTANTS
  a1 = a1
  a2 = a2
  a3 = a3
  news = news
  all = all
  Agents = {a1, a2, a3}
  Topics = {news}
  Broadcasts = {all}
  Pairs <- OnePair
  QueueSize = 2
  HistorySize = 2
  Ceiling = 2
  MaxMessages = 3
  MaxCalls = 2
  MaxDrops = 3
  Environments <- All
INVARIANTS
  NoStrandedReceiver
  DeliveredOnce
  InOrder
  NothingStale
  CeilingHolds
CHECK_DEADLOCK FALSE
