CONSTANTS
  r1 = r1  sweeper = sweeper
  Sessions = {1}
  Rows = {1, 2, 3, 4}
  Requests = {r1}
  Sweeper = sweeper
  Deposit = 2
  Surcharge = 1
  Worlds <- AllWorlds
  k1 = k1  x1 = x1  x2 = x2
  Refs = {1, 2}
  Price = 3
  Clerks = {k1}
  Syncs = {x1, x2}
  CardWorlds <- AllCardWorlds
  fb = fb  ig = ig  t1 = t1  t2 = t2  p1 = p1
  Channels = {fb, ig}
  Timers = {t1, t2}
  Minute = t1
  People = {p1}
  MaxAttempts = 3
  MaxLive = 2
  PostWorlds <- AllPostWorlds
  a1 = a1  a2 = a2  s1 = s1  s2 = s2  h1 = h1  h2 = h2
  timer = timer  nobody = nobody
  d1 = d1  d2 = d2  keeper = keeper
  Techs = {s1, s2}
  Nobody = nobody
  Does <- Ticks
  Tickets = {1, 2}
  LegIds = {1, 2}
  Visits <- Wishes
  Desks = {d1, keeper}
  Keeper = keeper
  FloorWorlds <- AllFloorWorlds
  Parts = {"deposits", "cards", "posts", "floor", "public"}
SPECIFICATION PartsSpec
SYMMETRY Symmetric
INVARIANTS
  TypeOK NoMoneyWithoutCause SweepKeepsBooks SweepReturnsAll
  CardTypeOK OnlyPaidCardsRecorded SaleRecordedOnce Askable BooksFollowTerminal
  PostTypeOK OncePerChannel RowTellsWhatIsUp
  BoardTypeOK OneCustomerEach TogetherOnlyHandsAndFeet NeverBackToHer QuietFloor
  OneTicketEach
  PublicSafe
CHECK_DEADLOCK FALSE
