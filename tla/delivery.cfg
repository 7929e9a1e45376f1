SPECIFICATION DeliverySpec
CONSTANTS
  MaxRetries = 3
  MinBackoff = 1
  MaxBackoff = 3
  RetryAfters = {0, 2, 9}
  PollLimit = 2
  Contents = {c1, c2}
  ItemIds = {i1, i2}
  Outlets = {x1, x2}
  Uploaders = {y1, y2}
  Deleters = {d1}
  Syncers = {w1}
  NoItem = NoItem
  Gone = Gone
  MaxUploads = 2
  Streams = {x1, x2}
  Senders = {y1, y2}
  BufferSize = 1
  MaxEvents = 3
  People = {x1, x2}
  Crews = {t1}
  Devices = {y1, y2}
  Ids = {n1, n2}
  Pins = {k1}
  NoKey = NoKey
  NoOne = NoOne
  MaxKeys = 2
  MaxPushOps = 6
  wide = wide
  narrow = narrow
  Accounts = {wide, narrow}
  MaxChars <- Limits
  Lengths = {0, 60, 84, 130}
  Offers = {60, 130}
  HashtagCounts = {0, 3}
  Tag = 9
  Required = 2
  Viewers = {x1, x2}
  Threads = {y1, y2}
  threadCacheTTL = 1
  threadCacheMaxKeys = 1
  maxThreadReplies = 1
  MaxReplies = 2
  LastTick = 2
  Workers = {x1, x2}
  SerialWrites = TRUE
  LastGrant = 1
  LastToken = 2
  logChanCap = 2
  BatchSize = 2
  LastRecord = 5
SYMMETRY Symmetric
INVARIANTS AnswersAreTrue MediaIsWhole StreamsEndCleanly DevicesHearTheirOwn DraftsFit ThreadsTrue StaysConnected LogIsWhole
CHECK_DEADLOCK FALSE
