\* A consume request that arrives after the approval's expiry.
SPECIFICATION Spec
CONSTANTS
  a1 = a1
  a2 = a2
  member = member
  other = other
  admin = admin
  k1 = k1
  k2 = k2
  None = None
  ActionIds = {a1}
  Users = {admin}
  Admins = {admin}
  Keys = {k1}
  Tools <- TelegramOnly
  Payloads = {"message"}
  Muted <- NothingMuted
  MaxFaults = 0
  Operators = {}
  Scopes = {"workspace"}
  MaxIncidents = 0
  Requests = {r1}
  RequestedRisks = {0}
  Relays = {}
  RelayBatch = 1
  Connectors = {}
  ReadCount = 1
  TELEGRAM_SEND_ATTEMPTS = 2
  BotToken = TRUE
PROPERTIES
  RefusalLeavesATrace
