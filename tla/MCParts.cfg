CONSTANTS
  q1 = q1
  q2 = q2
  q3 = q3
  q4 = q4
  c1 = c1
  c2 = c2
  l1 = l1
  l2 = l2
  t1 = t1
  t2 = t2
  r1 = r1
  r2 = r2
  v1 = v1
  v2 = v2
  s1 = s1
  s2 = s2
  a1 = a1
  a2 = a2
  Request <- MCRequest
  PriorityOf <- MCPriorityOf
  DailyLimit = 4
  MonthlyLimit = 6
  OpusLimit = 2
  Cost <- MCCost
  Count <- MCCount
  MaxMoney = 8
  Points = 5
  Level <- MCLevel
  Client <- MCClient
  Capacity = 2
  TokenCost = 2
  IdleLimit = 8
  Loader <- MCLoader
  Chunks = 2
  Inodes = 2
  Event <- MCEvent
  MaxEvents = 3
  Target <- MCTarget
  MaxHistorySize = 1
  Layer <- MCLayer
  Day <- MCDay
  Amount <- MCAmount
  Tool <- MCTool
  Intent <- MCIntent
  DefaultTools <- MCDefaultTools
  FallbackTools <- MCFallbackTools
  Size <- MCSize
  PerToolLimit = 2
  TokenBudget = 3
  MaxResults = 4
  Runner <- MCRunner
  AlertThreshold = 5
  Saver <- MCSaver
  RecordId <- MCRecordId
  Frustrated <- MCFrustrated
  Cron <- MCCron
  LastHour = 3
  MaxMetrics = 1
  Listings <- MCListings
  Reports <- MCReports
  MostTokens = 8
SPECIFICATION Spec
INVARIANTS
  Descending
  DecisionsRight
  MoneyAgrees
  StatisticsAgree
  AdmitsAsIdeal
  StoreIsSound
  BooksAddUp
  CallsBounded
  AnalyticsIsSound
  AnswersAreSound
PROPERTIES
  PublishedGrows
CHECK_DEADLOCK FALSE
