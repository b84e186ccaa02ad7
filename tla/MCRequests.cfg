\* Two concurrent requests of two members for one key, of a registered and of an
\* unregistered tool, while two operators engage and disengage the two kill
\* switches, twice in all; no worker is running.
SPECIFICATION Spec
CONSTANTS
  a1 = a1
  a2 = a2
  member = member
  other = other
  admin = admin
  k1 = k1
  k2 = k2
  None = None
  ActionIds = {a1}
  Users = {member, admin}
  Admins = {admin}
  Keys = {k1}
  Tools = {"telegram.send_message", "note.write"}
  Payloads = {"message"}
  Muted <- NothingMuted
  MaxFaults = 0
  Operators = {o1, o2}
  Scopes = {"customer", "workspace"}
  MaxIncidents = 2
  Requests = {r1, r2}
  RequestedRisks = {2}
  Relays = {}
  RelayBatch = 1
  Connectors = {}
  ReadCount = 1
  TELEGRAM_SEND_ATTEMPTS = 2
  BotToken = TRUE
SYMMETRY Symmetry
INVARIANTS
  OneAnnouncementPerAction
  RiskyActionsAreApproved
  NonceStaysWithProposer
  OffIsAudited
  OneIncidentPerEngagement
PROPERTIES
  EngagedSwitchDrains
