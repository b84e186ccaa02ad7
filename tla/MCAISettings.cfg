\* Two overlapping saves of any rows and a turn that reads them.
SPECIFICATION Spec
CHECK_DEADLOCK FALSE
CONSTANTS
  None = None
  Rows = {"conversation", "user", "workspace", "fallback", "OPENAI", "GEMINI", "verification", "SECURITY_ALERT"}
  Requests = {r1, r2}
  Turns = {t1}
  Providers = {"OPENAI", "GEMINI"}
  Models = {"gpt"}
  ModelOf <- OwnModels
  ai_default_provider = "OPENAI"
  Configured = {"OPENAI", "GEMINI"}
  Errors = {"timeout"}
  MaxSaves = 4
SYMMETRY Symmetry
INVARIANTS
  SetsDoNotClash
  ChoiceIsOneTiers
  DisabledIsNeverCalled
PROPERTIES
  OwnValueIsStored
