\* Two users and two concurrent requests on a task and its reminder; runs
\* of the job overlap, come again and again, and fail once.
SPECIFICATION FairSpec
CONSTANTS
  t1 = t1
  m1 = m1
  u1 = u1
  u2 = u2
  r1 = r1
  r2 = r2
  j1 = j1
  j2 = j2
  TaskIds = {t1}
  ReminderIds = {m1}
  Users = {u1, u2}
  Admins = {u1}
  Muted <- MutedTypes
  Requests = {r1, r2}
  Jobs = {j1, j2}
  MaxTime = 1
  MaxJobFailures = 1
CHECK_DEADLOCK FALSE
INVARIANTS
  TasksInvariant
  HistoryIsTheStatus
  NoticeWasConfirmed
  NoRunRepeatsANotice
PROPERTIES
  ConfirmedIsSettled
