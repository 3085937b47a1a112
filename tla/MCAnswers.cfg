SPECIFICATION AnswersSpec
CONSTANTS
  Calls = {0, 1}
  Finishes = {"tool_calls", "length"}
  Usages = {1, 2}
  MaxPieces = 5
  CallIds = {"c1", "c2"}
  Blobs = {"b"}
  Texts = {"t"}
  Images = {"i"}
  Missing = Missing
  MaxItems = 4
  ToolUses = {"c1", "c2"}
  Words = {"t"}
  ImageSources = {"i"}
  Strange = {"x"}
  Absent = Absent
  MaxBlocks = 5
  Statuses <- MCStatuses
  Stated <- MCStated
  Soon = 5
  MaxPayloads = 4
  Models = {m1, m2}
  Sources = {s1}
  Filter = {m1, None}
  None = None
  PageSize = 1
  Retention = 1
  StaleTime = 1
  MinBucket = 2
  PerWindow = 1
  Buckets <- MCBuckets
  MaxRows = 3
  Windows = {1, 2}
  MinSelection = 1
  NoData = NoData
  MaxAsked = 1
  MaxToday = 3
  MaxClock = 2
  Providers = {1, 2}
  Upstreams = {1}
  Priorities = {0}
  PublicModels = {1, 2}
  Fittings <- MCFittings
  Reported <- MCReported
  MaxWrites = 2
INVARIANTS
  StreamIsFollowed
  AnswerIsAssembled
  PathsAgree
  ConversationSurvives
  TurnsSurvive
  StreamIsHonest
  CallIsTold
  ReportsAddUp
  ListingIsSound
PROPERTIES
  HandlesTellTheSlice
CHECK_DEADLOCK FALSE
