\* Two turns at a time, of two conversations and over the end of a month.
SPECIFICATION FairSpec
CHECK_DEADLOCK FALSE
CONSTANTS
  None = None
  MaxMonth = 2
  HardCap = 4
  PricingUnit = 2
  Rates <- TwoRates
  MAX_PAGE_SIZE = 20
  ai_max_context_chars = 2
  Turns = {t1, t2}
  ConversationOf <- OwnConversations
  OutputTokens <- FastOnly
  ai_max_tool_rounds = 2
  DeepCeiling = 2
  Configured = {"OPENAI", "GEMINI"}
  RoundTokens = {3}
  MaxPosts = 2
INVARIANTS
  HardCapHolds
  ReservationsComeBack
  LedgerMatchesEvents
  OneVoicePerTurn
  DeadlockNeedsMonthEnd
PROPERTIES
  TurnsEnd
