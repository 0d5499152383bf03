\* The LangChain middleware and AutoGen packages under the strict policy.
SPECIFICATION ScreensSpec
CONSTANTS
  plain = plain
  long = long
  secret = secret
  inject = inject
  input = input
  output = output
  tool = tool
  bot = bot
  user = user
  t1 = t1
  t2 = t2
  NoText = NoText
  Empty = Empty
  Blank = Blank
  Absent = Absent
  Messages <- MCMessages
  Notice = Notice
  DefaultAction = "allow"
  Rules <- StrictRules
  Size <- MCSize
  MaxBytes = 10
  GrowthFactor = 2
  Window = 1
  MaxWrites = 1
  Cooldown = 1
  MaxSelfWrites = 1
  HistorySize = 1
  Similar <- MCNoSimilar
  ScanKeys <- MCScanKeys
  Texts = {plain, long, secret, inject}
  Content <- MCContent
  Threads = {t1, t2}
  InputKey = input
  OutputKey = output
  ToolKeys = {tool}
  MessageLists <- MCLists
  MaxCalls = 3
  Senders = {bot, user}
  MessageId <- MCMessageId
  SenderWord <- MCSenderWord
  MaxMessages = 3
CHECK_DEADLOCK FALSE
INVARIANTS
  VerdictIsOwn
  NothingKept
  NothingUnsafeGetsThrough
  EveryMessageAfresh
