\* The LangChain, LlamaIndex and CrewAI adapters over one guard.
SPECIFICATION AdaptersSpec
CONSTANTS
  plain = plain
  secret = secret
  masked = masked
  inject = inject
  count = count
  m0 = m0
  m1 = m1
  m2 = m2
  item0 = item0
  item1 = item1
  added = added
  conversation = conversation
  n1 = n1
  n2 = n2
  a1 = a1
  a2 = a2
  found = found
  started = started
  NoValue = NoValue
  NoMessage = NoMessage
  Keys <- MCKeys
  Values <- MCValues
  Redacted <- MCRedacted
  WriteAnswers <- MCWriteAnswers
  ReadAnswers <- MCReadAnswers
  Undeletable = {a2}
  Messages = {plain, secret, inject}
  CountKey = count
  MessageKey <- MCMessageKey
  Capacity = 3
  Turns = {plain, secret, inject}
  ItemKey <- MCItemKey
  AddKey = added
  ConversationKey = conversation
  TurnLists <- MCTurnLists
  DropBlocked = FALSE
  Room = 2
  Names = {n1, n2}
  Notes = {plain, secret, inject}
  AgentKey <- MCAgentKey
  SearchKey = found
  CallbackKeys = {started}
  Found0 <- MCFound0
INVARIANTS
  InnerScreened
  MirrorAgrees
PROPERTIES
  HistoryIsLog
  SetIsAllOrNothing
