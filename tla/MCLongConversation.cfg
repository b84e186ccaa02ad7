\* One conversation that grows past a page of messages.
SPECIFICATION Spec
CHECK_DEADLOCK FALSE
CONSTANTS
  None = None
  MaxMonth = 1
  HardCap = 9
  PricingUnit = 2
  Rates <- OneRate
  MAX_PAGE_SIZE = 4
  ai_max_context_chars = 3
  Turns = {t1}
  ConversationOf <- OneConversation
  OutputTokens <- FastAndDeep
  ai_max_tool_rounds = 2
  DeepCeiling = 4
  Configured = {"OPENAI"}
  RoundTokens = {0, 1}
  MaxPosts = 4
PROPERTIES
  QuestionIsSent
