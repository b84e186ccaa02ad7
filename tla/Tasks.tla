------------------------------- MODULE Tasks -------------------------------
(***************************************************************************)
(* Tasks and reminders of one workspace (application/task_service.py, its  *)
(* endpoints in api/tasks.py, and scripts/fire_due_reminders_job.py).      *)
(*                                                                         *)
(* A status change locks the task's row and reads it again.  A reminder is *)
(* never locked: a request decides on the row it loaded and its UPDATE     *)
(* overwrites whatever is there by then, and so does the firing job, which *)
(* selects the due reminders first and commits its notices and the FIRED   *)
(* status together at the end.  Nothing keeps two runs of the job from     *)
(* overlapping.  Decisions recorded about a task are inserts that nothing  *)
(* reads, and are left out.                                                *)
(***************************************************************************)
EXTENDS Integers, Sequences, FiniteSets

CONSTANTS
  TaskIds, ReminderIds,
  Users,           \* the members of the workspace
  Admins,          \* those with the workspace_admin role
  Muted,           \* <<recipient, notification type>> switched off
  Requests,        \* request slots
  Jobs,            \* slots for overlapping runs of the firing job
  MaxTime,         \* bound of the clock
  MaxJobFailures   \* bound of the job's failures

ASSUME TasksAssumption ==
  /\ Admins \subseteq Users
  /\ MaxTime \in Nat
  /\ MaxJobFailures \in Nat

TaskStatus == {"TODO", "IN_PROGRESS", "DONE", "CANCELLED"}

ReminderStatus == {"PENDING_CONFIRMATION", "CONFIRMED", "CANCELLED", "FIRED"}

ALLOWED_TASK_TRANSITIONS(s) ==
  CASE s = "TODO" -> {"IN_PROGRESS", "CANCELLED"}
    [] s = "IN_PROGRESS" -> {"DONE", "CANCELLED"}
    [] OTHER -> {}

VARIABLES
  task,           \* task id -> row
  history,        \* task id -> rows of task_history, in commit order
  reminder,       \* reminder id -> row
  told,           \* task id -> its COMPLETED_TASK notifications
  notified,       \* reminder id -> job -> the REMINDER_DUE notices it wrote
  confirmations,  \* reminder id -> commits that set confirmed_at
  request,        \* request slot -> what its transaction holds in memory
  job,            \* job -> the reminders it has selected
  now,
  failures

vars == <<task, history, reminder, told, notified, confirmations, request, job, now, failures>>

taskVars == <<task, history, told>>
reminderVars == <<reminder, notified, confirmations>>
jobVars == <<job, now, failures>>

-----------------------------------------------------------------------------
Absent == [status |-> "absent"]

Task == [status: TaskStatus, owner: Users]

Change == [from: TaskStatus \cup {"none"}, to: TaskStatus]

Reminder == [status: ReminderStatus, task: TaskIds, actor: Users, remind_at: 0 .. MaxTime]

IdleRequest == [op |-> "idle"]

Request ==
  [op: {"status"}, task: TaskIds, loaded: TaskStatus, target: TaskStatus]
    \cup [op: {"confirm", "cancel"}, reminder: ReminderIds]

TypeOK ==
  /\ task \in [TaskIds -> Task \cup {Absent}]
  /\ history \in [TaskIds -> Seq(Change)]
  /\ reminder \in [ReminderIds -> Reminder \cup {Absent}]
  /\ told \in [TaskIds -> Nat]
  /\ notified \in [ReminderIds -> [Jobs -> Nat]]
  /\ confirmations \in [ReminderIds -> Nat]
  /\ request \in [Requests -> Request \cup {IdleRequest}]
  /\ job \in [Jobs -> SUBSET ReminderIds]
  /\ now \in 0 .. MaxTime
  /\ failures \in 0 .. MaxJobFailures

Init ==
  /\ task = [t \in TaskIds |-> Absent]
  /\ history = [t \in TaskIds |-> <<>>]
  /\ reminder = [m \in ReminderIds |-> Absent]
  /\ told = [t \in TaskIds |-> 0]
  /\ notified = [m \in ReminderIds |-> [j \in Jobs |-> 0]]
  /\ confirmations = [m \in ReminderIds |-> 0]
  /\ request = [r \in Requests |-> IdleRequest]
  /\ job = [j \in Jobs |-> {}]
  /\ now = 0
  /\ failures = 0

-----------------------------------------------------------------------------
(* Requests.                                                               *)

\* authorize_task_mutation.
MayMutate(u, t) == task[t] # Absent /\ (u = task[t].owner \/ u \in Admins)

\* One notification more for id, unless the recipient has muted the type.
create_notification(count, id, recipient, type) ==
  IF <<recipient, type>> \in Muted THEN count ELSE [count EXCEPT ![id] = @ + 1]

create_task(u, t) ==
  /\ task[t] = Absent
  /\ task' = [task EXCEPT ![t] = [status |-> "TODO", owner |-> u]]
  /\ history' = [history EXCEPT ![t] = <<[from |-> "none", to |-> "TODO"]>>]
  /\ UNCHANGED <<told, request, reminderVars, jobVars>>

Begin(r, operation) ==
  /\ request[r] = IdleRequest
  /\ request' = [request EXCEPT ![r] = operation]
  /\ UNCHANGED <<taskVars, reminderVars, jobVars>>

EndRequest(r) == request' = [request EXCEPT ![r] = IdleRequest]

\* A refused transition, or any other failure: the transaction rolls back.
AbortRequest(r) ==
  /\ request[r] # IdleRequest
  /\ EndRequest(r)
  /\ UNCHANGED <<taskVars, reminderVars, jobVars>>

BeginStatus(r, u, t, target) ==
  /\ MayMutate(u, t)
  /\ Begin(r, [op |-> "status", task |-> t, loaded |-> task[t].status, target |-> target])

\* The commit of a change from one status to another, with its history row
\* and, for DONE, the notification to the task's owner.
WriteStatus(r, from) ==
  LET t == request[r].task
      target == request[r].target
  IN  /\ target \in ALLOWED_TASK_TRANSITIONS(from)
      /\ task' = [task EXCEPT ![t].status = target]
      /\ history' = [history EXCEPT ![t] = Append(@, [from |-> from, to |-> target])]
      /\ told' = IF target = "DONE"
                 THEN create_notification(told, t, task[t].owner, "COMPLETED_TASK")
                 ELSE told
      /\ EndRequest(r)
      /\ UNCHANGED <<reminderVars, jobVars>>

\* Mutated form: the row is not read again under its lock.
ChangeLoadedStatus(r) ==
  /\ request[r].op = "status"
  /\ WriteStatus(r, request[r].loaded)

\* change_task_status: the status that counts is read under the lock.
change_task_status(r) ==
  /\ request[r].op = "status"
  /\ WriteStatus(r, task[request[r].task].status)

request_reminder(u, t, m, at) ==
  /\ MayMutate(u, t)
  /\ reminder[m] = Absent
  /\ reminder' = [reminder EXCEPT ![m] =
       [status |-> "PENDING_CONFIRMATION", task |-> t, actor |-> u, remind_at |-> at]]
  /\ UNCHANGED <<notified, confirmations, request, taskVars, jobVars>>

Touches(u, m) == reminder[m] # Absent /\ MayMutate(u, reminder[m].task)

\* The status and the echoed time are checked on the row as it was loaded.
BeginConfirm(r, u, m, at) ==
  /\ Touches(u, m)
  /\ reminder[m].status = "PENDING_CONFIRMATION"
  /\ reminder[m].remind_at = at
  /\ Begin(r, [op |-> "confirm", reminder |-> m])

confirm_reminder(r) ==
  LET m == request[r].reminder
  IN  /\ request[r].op = "confirm"
      /\ reminder' = [reminder EXCEPT ![m].status = "CONFIRMED"]
      /\ confirmations' = [confirmations EXCEPT ![m] = @ + 1]
      /\ EndRequest(r)
      /\ UNCHANGED <<notified, taskVars, jobVars>>

BeginCancel(r, u, m) ==
  /\ Touches(u, m)
  /\ reminder[m].status \in {"PENDING_CONFIRMATION", "CONFIRMED"}
  /\ Begin(r, [op |-> "cancel", reminder |-> m])

cancel_reminder(r) ==
  LET m == request[r].reminder
  IN  /\ request[r].op = "cancel"
      /\ reminder' = [reminder EXCEPT ![m].status = "CANCELLED"]
      /\ EndRequest(r)
      /\ UNCHANGED <<notified, confirmations, taskVars, jobVars>>

-----------------------------------------------------------------------------
(* The firing job, run on a schedule.                                      *)

\* Mutated form: a reminder that nobody confirmed is due as well.
DueUnconfirmed ==
  {m \in ReminderIds : /\ reminder[m] # Absent
                       /\ reminder[m].status \in {"PENDING_CONFIRMATION", "CONFIRMED"}
                       /\ reminder[m].remind_at <= now}

\* Mutated form: only the reminders of this very moment.
DueNow ==
  {m \in ReminderIds : /\ reminder[m] # Absent
                       /\ reminder[m].status = "CONFIRMED"
                       /\ reminder[m].remind_at = now}

Due ==
  {m \in ReminderIds : /\ reminder[m] # Absent
                       /\ reminder[m].status = "CONFIRMED"
                       /\ reminder[m].remind_at <= now}

\* fire_due_reminders as far as its select.
SelectDue(j) ==
  /\ job[j] = {}
  /\ Due # {}
  /\ job' = [job EXCEPT ![j] = Due]
  /\ UNCHANGED <<request, now, failures, taskVars, reminderVars>>

Notices(j) ==
  [m \in ReminderIds |->
     IF m \in job[j] THEN create_notification(notified[m], j, reminder[m].actor, "REMINDER_DUE")
     ELSE notified[m]]

\* Mutated form: the notices are committed but not the status.
NotifyOnly(j) ==
  /\ job[j] # {}
  /\ notified' = Notices(j)
  /\ job' = [job EXCEPT ![j] = {}]
  /\ UNCHANGED <<reminder, confirmations, request, now, failures, taskVars>>

\* The rest of fire_due_reminders, at the commit.
FireSelected(j) ==
  /\ job[j] # {}
  /\ notified' = Notices(j)
  /\ reminder' = [m \in ReminderIds |->
       IF m \in job[j] THEN [reminder[m] EXCEPT !.status = "FIRED"] ELSE reminder[m]]
  /\ job' = [job EXCEPT ![j] = {}]
  /\ UNCHANGED <<confirmations, request, now, failures, taskVars>>

\* The job dies or its transaction fails: nothing of the batch remains.
JobFails(j) ==
  /\ job[j] # {}
  /\ failures < MaxJobFailures
  /\ failures' = failures + 1
  /\ job' = [job EXCEPT ![j] = {}]
  /\ UNCHANGED <<request, now, taskVars, reminderVars>>

Tick ==
  /\ now < MaxTime
  /\ now' = now + 1
  /\ UNCHANGED <<request, job, failures, taskVars, reminderVars>>

TaskNext ==
  \/ \E u \in Users, t \in TaskIds : create_task(u, t)
  \/ \E r \in Requests :
       \/ \E u \in Users, t \in TaskIds, target \in TaskStatus : BeginStatus(r, u, t, target)
       \/ change_task_status(r)
       \/ AbortRequest(r)

ReminderNext ==
  \/ \E u \in Users, t \in TaskIds, m \in ReminderIds, at \in 0 .. MaxTime :
       request_reminder(u, t, m, at)
  \/ \E r \in Requests :
       \/ \E u \in Users, m \in ReminderIds, at \in 0 .. MaxTime : BeginConfirm(r, u, m, at)
       \/ \E u \in Users, m \in ReminderIds : BeginCancel(r, u, m)
       \/ confirm_reminder(r)
       \/ cancel_reminder(r)

JobNext ==
  \/ \E j \in Jobs : SelectDue(j) \/ FireSelected(j) \/ JobFails(j)
  \/ Tick

Next == TaskNext \/ ReminderNext \/ JobNext

Spec == Init /\ [][Next]_vars

\* A run of the job is scheduled again and again, and time passes.
FairSpec ==
  /\ Spec
  /\ WF_vars(Tick)
  /\ WF_vars(\E j \in Jobs : SelectDue(j))
  /\ \A j \in Jobs : WF_vars(FireSelected(j))

-----------------------------------------------------------------------------
(* Properties.                                                             *)

\* The history of a task is one path of the transition table, without a gap
\* or a step told twice, and ends in the task's status, however status changes
\* race (change_task_status and FR-TASK-007).
HistoryIsTheStatus ==
  \A t \in TaskIds :
    LET h == history[t]
    IN  IF task[t] = Absent THEN h = <<>>
        ELSE /\ h # <<>>
             /\ h[1].from = "none"
             /\ h[Len(h)].to = task[t].status
             /\ \A i \in 2 .. Len(h) :
                  /\ h[i].from = h[i - 1].to
                  /\ h[i].to \in ALLOWED_TASK_TRANSITIONS(h[i].from)

\* The owner hears once that the task is done, and only then, unless they
\* have muted it (change_task_status, FR-NTF-002).
CompletionIsToldOnce ==
  \A t \in TaskIds :
    told[t] = IF /\ task[t] # Absent
                 /\ task[t].status = "DONE"
                 /\ <<task[t].owner, "COMPLETED_TASK">> \notin Muted
              THEN 1 ELSE 0

\* No one is notified of a reminder that was never confirmed, or before its
\* time (FR-TASK-005).
NoticeWasConfirmed ==
  \A m \in ReminderIds :
    (\E j \in Jobs : notified[m][j] > 0) =>
      /\ confirmations[m] > 0
      /\ reminder[m] # Absent
      /\ reminder[m].remind_at <= now

\* Requests and jobs hold rows that exist, and what a job has selected was
\* confirmed and is due.
HeldRows ==
  /\ \A r \in Requests :
       /\ request[r].op = "status" => task[request[r].task] # Absent
       /\ request[r].op \in {"confirm", "cancel"} => reminder[request[r].reminder] # Absent
  /\ \A m \in ReminderIds : reminder[m].status = "CONFIRMED" => confirmations[m] > 0
  /\ \A j \in Jobs : \A m \in job[j] :
       /\ confirmations[m] > 0
       /\ reminder[m] # Absent
       /\ reminder[m].remind_at <= now

\* The inductive invariant, for any number of concurrent jobs.
TasksInvariant ==
  /\ TypeOK
  /\ HeldRows
  /\ HistoryIsTheStatus
  /\ CompletionIsToldOnce
  /\ NoticeWasConfirmed

\* Runs of the job that do not overlap answer a confirmation with at most one
\* notice between them, whatever stale confirmations and cancellations do to
\* the status.  Runs that overlap may answer it once each: both select the
\* reminder while it is CONFIRMED, and neither looks again.
NoRunRepeatsANotice ==
  \A m \in ReminderIds, j \in Jobs : notified[m][j] <= confirmations[m]

\* A reminder that is CONFIRMED, or that a job has selected, has a
\* confirmation that this job has not answered yet.
ConfirmationsAreOpen ==
  \A m \in ReminderIds, j \in Jobs :
    reminder[m].status = "CONFIRMED" \/ m \in job[j] => notified[m][j] < confirmations[m]

\* A confirmed reminder is fired or cancelled in the end, although runs of
\* the job fail.
ConfirmedIsSettled ==
  \A m \in ReminderIds :
    (reminder[m].status = "CONFIRMED") ~> (reminder[m].status \in {"FIRED", "CANCELLED"})
=============================================================================
