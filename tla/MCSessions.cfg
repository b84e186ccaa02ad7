\* One browser, whose header may name one of two devices, be empty or absent,
\* with two callbacks at a time and up to two sessions, and two requests.
SPECIFICATION Spec
CHECK_DEADLOCK FALSE
CONSTANTS
  phone = phone
  laptop = laptop
  None = None
  Empty = Empty
  Browsers = {b1}
  Headers = {phone, laptop, Empty, None}
  Logins = {l1, l2}
  Requests = {r1, r2}
  Customers = {c1}
  IDLE_TIMEOUT = 1
  ABSOLUTE_TIMEOUT = 3
  MaxTime = 4
  MaxLogins = 2
SYMMETRY Symmetry
INVARIANTS
  ListingMatchesUse
  NewDeviceIsReported
PROPERTIES
  DeadStaysDead
