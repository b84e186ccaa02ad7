\* One telegram action, two relay workers and two connectors, with two
\* crashes or infrastructure errors anywhere; the member has muted failures.
SPECIFICATION Spec
CONSTANTS
  a1 = a1
  a2 = a2
  member = member
  other = other
  admin = admin
  k1 = k1
  k2 = k2
  None = None
  ActionIds = {a1}
  Users = {member, admin}
  Admins = {admin}
  Keys = {k1}
  Tools <- TelegramOnly
  Payloads = {"message", "malformed"}
  Muted <- MemberMuted
  MaxFaults = 2
  Operators = {}
  Scopes = {"workspace"}
  MaxIncidents = 0
  Requests = {r1}
  RequestedRisks = {0}
  Relays = {w1, w2}
  RelayBatch = 1
  Connectors = {c1, c2}
  ReadCount = 2
  TELEGRAM_SEND_ATTEMPTS = 2
  BotToken = TRUE
SYMMETRY Symmetry
INVARIANTS
  PipelineInvariant
  MessagesAreApproved
  AtMostOneDelivery
  FailureIsReportedOnce
  AuditIsTheHistory
  ReadyIsRecoverable
PROPERTIES
  ImplementsLifecycle
