SPECIFICATION Spec
CONSTANTS
  Kinds = {"event", "binary", "bare", "ack", "reject"}
  NoMark = NoMark
  MaxSent = 3
  MaxWires = 2
  Publishers = {p1, p2}
  Handlers = {h1, once1}
  OneShots = {once1}
  once1 = once1
  OnceTopic <- OnceTopics
  Topics = {"balance", "tick", "*"}
  Serial = {"balance"}
  AnyTopic = "*"
  HistoryLimit = 1
  LastId = 2
  MaxFileBytes = 3
  MaxFiles = 2
  MaxLine = 2
  LastDay = 1
  MaxEvents = 5
  Assets = {1, 2, 3}
  Currencies = {USD, EUR}
  USD = USD
  EUR = EUR
  QuoteOf <- Quotes
  Unlabelled = None
  Viewers = {v1}
  Cap = 1
  Conns = {c1}
  Threads = {t1, t2}
  Services = {e1, e2}
  Unpaired = Unpaired
  Sent <- Asked
  Offered = TRUE
  QueueLimit = 2
  KeepLines = 2
  StateReads = 2
  LastCast = 3
  s1 = s1
  Sessions = {s1}
  NoSession = NoSession
  NoWork = NoWork
  Given <- GivenStarts
  MaxLinks = 2
  MaxOpen = 1
  old = old
  new = new
  SessionNames = {1, 2}
  OtherNames = {}
  CookieValues = {old, new}
  NoToken = NoToken
  Profiles <- Held
  WaitTimeout = 1
  MaxList = 0
  MaxAsk = 0
  MaxRead = 1
  PollPause = 1
  Holders = {hA, hB}
  Nobody = Nobody
  NoFile = NoFile
  MaxSeats = 1
INVARIANTS
  Faithful
  CapPerLabel
  DeskKeeps
PROPERTIES
  
  SerialInOrder
  AccountHeld
CHECK_DEADLOCK FALSE
