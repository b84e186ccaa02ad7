\* One telegram action under fairness of two relays and two connectors, which
\* read two entries at a time, with two faults.
SPECIFICATION FairSpec
CONSTANTS
  a1 = a1
  a2 = a2
  member = member
  other = other
  admin = admin
  k1 = k1
  k2 = k2
  None = None
  ActionIds = {a1}
  Users = {admin}
  Admins = {admin}
  Keys = {k1}
  Tools <- TelegramOnly
  Payloads = {"message"}
  Muted <- NothingMuted
  MaxFaults = 2
  Operators = {}
  Scopes = {"workspace"}
  MaxIncidents = 0
  Requests = {r1}
  RequestedRisks = {0}
  Relays = {w1, w2}
  RelayBatch = 1
  Connectors = {c1, c2}
  ReadCount = 2
  TELEGRAM_SEND_ATTEMPTS = 2
  BotToken = TRUE
PROPERTIES
  ReadyIsTakenUp
